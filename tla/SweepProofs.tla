---------------------------- MODULE SweepProofs ----------------------------
(***************************************************************************)
(* Proofs about the benchmark sweep: type correctness, that a session's    *)
(* memory of failed starts is the file's, that every session leaves each   *)
(* cell accounted for, and that the sweep implements SweepPolicy, for any  *)
(* number of families, MTP counts, contexts, command lines and kills.      *)
(***************************************************************************)
EXTENDS Sweep, TLAPS

USE SweepAssumption, ArgumentsAssumption

\* Advance stays within all_configs and leaves the loop at its end.
LEMMA AdvanceType ==
    ASSUME cfg \in Configs, Advance
    PROVE  cfg' \in Configs /\ pc' \in {"select", "finish"}
  BY DEF Advance, Configs, Families, IsDSpark, Off

\* Advance moves past the current configuration and no other.
LEMMA AdvanceOrder ==
    ASSUME cfg \in Configs, Advance, NEW c \in Configs
    PROVE  /\ pc' = "select" /\ Before(c)' => Before(c) \/ c = cfg
           /\ pc' = "finish" => Before(c) \/ c = cfg
  BY DEF Advance, Before, Configs, Families, IsDSpark, Off

\* What the file accounts for stays accounted for while it grows.
LEMMA AccountedStable ==
    ASSUME NEW c, NEW x, NEW u, Accounted(c, x, u),
           failed \subseteq failed', cells \subseteq cells', trouble \subseteq trouble'
    PROVE  Accounted(c, x, u)'
  BY DEF Accounted, Viable

\* The file only grows.
LEMMA FileGrows ==
    ASSUME Next
    PROVE  failed \subseteq failed' /\ cells \subseteq cells' /\ trouble \subseteq trouble'
  BY DEF Next, Step, PassOver, SkipConfig, AlreadyDone, Begin, Healthy, StartFails,
         NoteFailure, ConfigDone, Reload, SkipContext, Calibrate, CalibrateError,
         MeasureCell, Finish, Gone, Kill, Launch, fileVars

\* What skip_from means: an MTP configuration is at or past it exactly when one of its
\* family with fewer tokens failed.
LEMMA SkipMeaning ==
    ASSUME NEW f, NEW k \in Families, NEW n \in Limits, IsSkipFrom(f, k, n),
           NEW m \in 1..MaxMtp
    PROVE  (m >= n) <=> (\E j \in 1..(m - 1) : <<k, j>> \in f)
  <1> DEFINE mtps == {j \in 1..MaxMtp : <<k, j>> \in f}
  <1>1. CASE mtps = {}
    <2>1. n = MaxMtp + 2
      BY <1>1 DEF IsSkipFrom, NoLimit
    <2>2. \A j \in 1..MaxMtp : <<k, j>> \notin f
      BY <1>1
    <2>3. m < n /\ \A j \in 1..(m - 1) : j \in 1..MaxMtp
      BY <2>1
    <2>4. ~(m >= n)
      BY <2>1
    <2>5. ~ \E j \in 1..(m - 1) : <<k, j>> \in f
      BY <2>2, <2>3
    <2> QED  BY <2>4, <2>5
  <1>2. CASE mtps # {}
    <2>1. n - 1 \in mtps /\ \A j \in mtps : n <= j + 1
      BY <1>2 DEF IsSkipFrom
    <2>2. ASSUME m >= n PROVE n - 1 \in 1..(m - 1) /\ <<k, n - 1>> \in f
      BY <2>1, <2>2 DEF Limits
    <2>3. ASSUME NEW j \in 1..(m - 1), <<k, j>> \in f PROVE m >= n
      BY <2>1, <2>3 DEF Limits, NoLimit
    <2> QED  BY <2>2, <2>3
  <1> QED  BY <1>1, <1>2

-----------------------------------------------------------------------------

\* TypeOK: the session's memory and the file's rows keep their types.
THEOREM TypeCorrect == Spec => []TypeOK
  <1> USE DEF TypeOK, Labels, Benching
  <1>1. Init => TypeOK
    <2>1. Off(1) \in Configs /\ 1 \in Ccus /\ NoLimit \in Limits
      BY DEF Off, Configs, Families, Limits, NoLimit, Ccus
    <2>2. Init => /\ failed = {} /\ skipped = {} /\ cells = {} /\ completed = {}
                  /\ trouble = {} /\ done = {} /\ dead = {} /\ remaining = {}
      BY DEF Init, PolicyInit
    <2>3. Init => skipFrom \in [Families -> Limits]
      BY <2>1 DEF Init
    <2>4. Init => sessions \in 0..MaxSessions /\ pc \in Labels /\ pc # "cells"
      BY DEF Init
    <2>5. Init => /\ torn \in BOOLEAN /\ args = NoArguments /\ cfg \in Configs
                  /\ skipAt = 0 /\ ctx = 0 /\ ccu \in Ccus
      BY <2>1 DEF Init
    <2> QED  BY <2>2, <2>3, <2>4, <2>5
  <1>2. TypeOK /\ [Next]_vars => TypeOK'
    <2> SUFFICES ASSUME TypeOK, [Next]_vars PROVE TypeOK'
      OBVIOUS
    <2> USE DEF fileVars, skipVars, benchVars, launchVars
    <2>1. CASE UNCHANGED vars
      BY <2>1 DEF vars
    <2>2. CASE PassOver
      BY <2>2, AdvanceType DEF PassOver
    <2>3. CASE SkipConfig
      BY <2>3, AdvanceType DEF SkipConfig, Visited
    <2>4. CASE AlreadyDone
      BY <2>4 DEF AlreadyDone
    <2>5. CASE Begin
      <3>1. args.contexts \subseteq Contexts
        BY DEF NoArguments
      <3> QED  BY <2>5, <3>1 DEF Begin
    <2>6. CASE Healthy \/ StartFails \/ ConfigDone
      BY <2>6 DEF Healthy, StartFails, ConfigDone
    <2>7. CASE NoteFailure
      <3>1. cfg[1] \in Families /\ (IsMtp(cfg) => cfg[2] + 1 \in Limits)
        BY DEF Configs, IsMtp, Limits, NoLimit
      <3>2. load_done_cells \subseteq Cells
        BY DEF load_done_cells, Cells, Ccus
      <3> QED  BY <2>7, <3>1, <3>2, AdvanceType DEF NoteFailure
    <2>8. CASE Reload
      <3>2. load_done_cells \subseteq Cells
        BY DEF load_done_cells, Cells, Ccus
      <3> QED  BY <2>8, <3>2, AdvanceType DEF Reload
    <2>9. ASSUME NEW x \in Contexts, SkipContext(x) \/ Calibrate(x) \/ CalibrateError(x)
          PROVE  TypeOK'
      <3>1. CASE SkipContext(x)
        BY <3>1 DEF SkipContext
      <3>2. CASE Calibrate(x)
        BY <3>2 DEF Calibrate, Ccus
      <3>3. CASE CalibrateError(x)
        BY <3>3 DEF CalibrateError
      <3> QED  BY <2>9, <3>1, <3>2, <3>3
    <2>10. ASSUME NEW oomish \in BOOLEAN, MeasureCell(oomish)
           PROVE  TypeOK'
      BY <2>10 DEF MeasureCell, Cells, Ccus
    <2>11. CASE Finish \/ Kill
      <3>1. Off(1) \in Configs /\ [k \in Families |-> NoLimit] \in [Families -> Limits]
            /\ 1 \in Ccus
        BY DEF Off, Configs, Families, Limits, NoLimit, Ccus
      <3>2. torn' \in BOOLEAN
        BY <2>11 DEF Finish, Kill
      <3> QED  BY <2>11, <3>1, <3>2, SMTT(60) DEF Finish, Kill, Gone
    <2>12. ASSUME NEW a \in Arguments, Launch(a) PROVE TypeOK'
      <3>1. Off(1) \in Configs
        BY DEF Off, Configs, Families
      <3>3. load_done_cells \subseteq Cells
        BY DEF load_done_cells, Cells, Ccus
      <3>2. dead' \subseteq Families /\ skipFrom' \in [Families -> Limits]
        BY <2>12 DEF Launch, DeadLayout
      <3> QED  BY <2>12, <3>1, <3>2, <3>3, SMTT(60) DEF Launch
    <2> QED  BY <2>1, <2>2, <2>3, <2>4, <2>5, <2>6, <2>7, <2>8, <2>9, <2>10, <2>11, <2>12
             DEF Next, Step
  <1> QED  BY <1>1, <1>2, PTL DEF Spec

-----------------------------------------------------------------------------

\* A configuration the session is about to start is one the file does not rule out.
LEMMA AdmittedViable ==
    ASSUME TypeOK, Remembered(failed), Admitted PROVE Viable(cfg)
  <1>1. cfg \in Configs /\ cfg \notin failed /\ Off(cfg[1]) \notin failed
    BY DEF TypeOK, Remembered, Admitted, Visited, DeadLayout, Configs
  <1>2. ASSUME IsMtp(cfg), NEW m \in 1..cfg[2] PROVE <<cfg[1], m>> \notin failed
    <2>1. cfg[1] \in Families /\ cfg[2] \in 1..MaxMtp /\ cfg = <<cfg[1], cfg[2]>>
      BY <1>1, <1>2 DEF Configs, IsMtp
    <2>2. /\ skipFrom[cfg[1]] \in Limits
          /\ IsSkipFrom(failed, cfg[1], skipFrom[cfg[1]])
          /\ ~(cfg[2] >= skipFrom[cfg[1]])
      BY <2>1, <1>2 DEF TypeOK, Remembered, Admitted, FamilySkipped
    <2>3. ~ \E j \in 1..(cfg[2] - 1) : <<cfg[1], j>> \in failed
      BY <2>1, <2>2, SkipMeaning
    <2>4. m = cfg[2] \/ m \in 1..(cfg[2] - 1)
      BY <2>1, <1>2
    <2> QED  BY <2>1, <2>3, <2>4, <1>1
  <1> QED  BY <1>1, <1>2 DEF Viable

\* A configuration the session skips is one the file rules out.
LEMMA SkippedNotViable ==
    ASSUME TypeOK, Remembered(failed), SkipConfig
    PROVE  cfg \in Configs /\ cfg \notin failed /\ ~Viable(cfg)
  <1>1. cfg \in Configs /\ cfg \notin failed /\ cfg[1] \in Families
    BY DEF TypeOK, SkipConfig, Visited, Configs
  <1>2. CASE cfg[1] \in dead
    BY <1>1, <1>2 DEF Remembered, DeadLayout, Viable
  <1>3. CASE FamilySkipped
    <2>1. cfg[2] \in 1..MaxMtp /\ cfg[2] >= skipFrom[cfg[1]]
      BY <1>3 DEF FamilySkipped, IsMtp
    <2>2. skipFrom[cfg[1]] \in Limits /\ IsSkipFrom(failed, cfg[1], skipFrom[cfg[1]])
      BY <1>1 DEF TypeOK, Remembered
    <2>3. \E j \in 1..(cfg[2] - 1) : <<cfg[1], j>> \in failed
      BY <1>1, <2>1, <2>2, SkipMeaning
    <2>4. \A j \in 1..(cfg[2] - 1) : j \in 1..cfg[2]
      BY <2>1
    <2>5. ~Viable(cfg)
      BY <1>3, <2>3, <2>4 DEF Viable, FamilySkipped
    <2> QED  BY <1>1, <2>5
  <1> QED  BY <1>2, <1>3 DEF SkipConfig

\* The step that takes a failed start into memory brings it level with the file.
LEMMA NoteFailureRemembers ==
    ASSUME TypeOK, AdmissionInv, NoteFailure PROVE Remembered(failed)'
  <1>1. /\ cfg \in Configs /\ cfg \in failed /\ cfg[1] \in Families /\ failed' = failed
        /\ cfg = <<cfg[1], cfg[2]>> /\ cfg[2] \in 0..(MaxMtp + 1)
        /\ dead = DeadLayout(failed \ {cfg})
        /\ \A k \in Families : IsSkipFrom(failed \ {cfg}, k, skipFrom[k])
    <2>1. cfg \in Configs /\ pc = "failing" /\ failed' = failed
      BY DEF TypeOK, NoteFailure, fileVars
    <2>2. cfg[1] \in Families /\ cfg = <<cfg[1], cfg[2]>> /\ cfg[2] \in 0..(MaxMtp + 1)
      BY <2>1 DEF Configs
    <2>3. cfg \in failed /\ Remembered(failed \ {cfg})
      BY <2>1 DEF AdmissionInv
    <2> QED  BY <2>1, <2>2, <2>3 DEF Remembered
  <1>2. dead' = DeadLayout(failed)
    <2>1. \A k \in Families : Off(k) \in failed <=>
              Off(k) \in failed \ {cfg} \/ (cfg[2] = 0 /\ k = cfg[1])
      BY <1>1 DEF Off
    <2> QED  BY <1>1, <2>1 DEF NoteFailure, DeadLayout
  <1>3. ASSUME NEW k \in Families PROVE IsSkipFrom(failed, k, skipFrom'[k])
    <2>1. CASE ~IsMtp(cfg) \/ k # cfg[1]
      <3>1. skipFrom'[k] = skipFrom[k]
        BY <2>1, <1>1 DEF NoteFailure, TypeOK
      <3>2. \A m \in 1..MaxMtp : <<k, m>> \in failed <=> <<k, m>> \in failed \ {cfg}
        BY <2>1, <1>1 DEF IsMtp
      <3>3. {m \in 1..MaxMtp : <<k, m>> \in failed}
              = {m \in 1..MaxMtp : <<k, m>> \in failed \ {cfg}}
        BY <3>2
      <3>4. IsSkipFrom(failed \ {cfg}, k, skipFrom[k])
        BY <1>1
      <3> QED  BY <3>1, <3>3, <3>4 DEF IsSkipFrom
    <2>2. CASE IsMtp(cfg) /\ k = cfg[1]
      <3>1. skipFrom'[k] = cfg[2] + 1 /\ cfg[2] \in 1..MaxMtp /\ <<k, cfg[2]>> \in failed
        BY <2>2, <1>1 DEF NoteFailure, TypeOK, IsMtp
      <3>2. \A m \in 1..(cfg[2] - 1) : <<k, m>> \notin failed
        BY <2>2 DEF AdmissionInv, NoteFailure
      <3>3. \A m \in 1..MaxMtp : <<k, m>> \in failed => cfg[2] + 1 <= m + 1
        BY <3>1, <3>2
      <3>4. cfg[2] + 1 - 1 = cfg[2]
        BY <3>1
      <3> QED  BY <3>1, <3>3, <3>4 DEF IsSkipFrom
    <2> QED  BY <2>1, <2>2
  <1> QED  BY <1>1, <1>2, <1>3 DEF Remembered

\* A step that leaves failed starts and the memory of them alone keeps them level.
LEMMA RememberedStable ==
    ASSUME Remembered(failed), failed' = failed, UNCHANGED skipVars
    PROVE  Remembered(failed)'
  BY DEF Remembered, DeadLayout, IsSkipFrom, skipVars

\* Memory and file agree at every step, and what is started and measured stays viable.
LEMMA AdmissionStep ==
    ASSUME TypeOK, ResumeEquivalent, AdmissionInv, [Next]_vars
    PROVE  ResumeEquivalent' /\ AdmissionInv'
  <1> USE DEF ResumeEquivalent, AdmissionInv, Benching
  <1>0. /\ pc \in Labels
        /\ pc \notin {"off", "failing"} => Remembered(failed)
        /\ pc \in {"wait", "bench", "cells"} => Viable(cfg)
    BY DEF TypeOK
  <1>1. CASE UNCHANGED vars
    BY <1>1, RememberedStable DEF vars, fileVars, skipVars, Viable, Remembered, DeadLayout,
       IsSkipFrom
  <1>2. CASE PassOver \/ SkipConfig \/ Reload
    <2>1. failed' = failed /\ UNCHANGED skipVars /\ pc' \in {"select", "finish"}
      BY <1>2, AdvanceType DEF PassOver, SkipConfig, Reload, fileVars, TypeOK
    <2>2. Remembered(failed)
      BY <1>2 DEF PassOver, SkipConfig, Visited, Reload
    <2> QED  BY <2>1, <2>2, RememberedStable
  <1>3. CASE AlreadyDone \/ Begin
    <2>1. failed' = failed /\ UNCHANGED skipVars /\ cfg' = cfg
          /\ pc' \in {"reload", "wait", "bench"}
      BY <1>3 DEF AlreadyDone, Begin, fileVars
    <2>2. Remembered(failed) /\ Admitted
      BY <1>3 DEF AlreadyDone, Begin, Admitted, Visited
    <2>3. Viable(cfg)
      BY <2>2, AdmittedViable
    <2>4. Viable(cfg)'
      BY <2>1, <2>3 DEF Viable
    <2> QED  BY <2>1, <2>2, <2>4, RememberedStable
  <1>4. CASE Healthy \/ ConfigDone
    <2>1. failed' = failed /\ UNCHANGED skipVars /\ cfg' = cfg
          /\ pc' \in {"bench", "reload"} /\ pc \in {"wait", "bench"}
      BY <1>4 DEF Healthy, ConfigDone, fileVars
    <2>2. Remembered(failed) /\ Viable(cfg)
      BY <2>1, <1>0
    <2>3. Viable(cfg)'
      BY <2>1, <2>2 DEF Viable
    <2> QED  BY <2>1, <2>2, <2>3, RememberedStable
  <1>5. CASE StartFails
    <2>1. /\ pc = "wait" /\ pc' = "failing" /\ cfg' = cfg /\ UNCHANGED skipVars
          /\ failed' = failed \union {cfg}
      BY <1>5 DEF StartFails
    <2>2. Remembered(failed) /\ Viable(cfg) /\ cfg \in Configs
      BY <2>1, <1>0 DEF TypeOK
    <2>3. failed' \ {cfg'} = failed
      BY <2>1, <2>2 DEF Viable
    <2>4. Remembered(failed \ {cfg})'
      BY <2>1, <2>2, <2>3 DEF Remembered, DeadLayout, IsSkipFrom, skipVars
    <2>5. ASSUME IsMtp(cfg), NEW m \in 1..(cfg[2] - 1) PROVE <<cfg[1], m>> \notin failed'
      <3>1. cfg[2] \in 1..MaxMtp /\ m \in 1..cfg[2] /\ m # cfg[2]
        BY <2>5 DEF IsMtp
      <3>2. <<cfg[1], m>> \notin failed /\ <<cfg[1], m>> # cfg
        BY <3>1, <2>2, <2>5 DEF Viable
      <3> QED  BY <3>2, <2>1
    <2> QED  BY <2>1, <2>4, <2>5 DEF IsMtp
  <1>6. CASE NoteFailure
    <2>1. pc' \in {"select", "finish"}
      BY <1>6, AdvanceType DEF NoteFailure, TypeOK
    <2> QED  BY <1>6, <2>1, NoteFailureRemembers
  <1>7. ASSUME NEW x \in Contexts, SkipContext(x) \/ Calibrate(x) \/ CalibrateError(x)
        PROVE  ResumeEquivalent' /\ AdmissionInv'
    <2>1. failed' = failed /\ UNCHANGED skipVars /\ cfg' = cfg
          /\ pc' \in Benching /\ pc \in Benching
      BY <1>7 DEF SkipContext, Calibrate, CalibrateError, fileVars
    <2>2. Remembered(failed) /\ Viable(cfg)
      BY <2>1, <1>0
    <2>3. Viable(cfg)'
      BY <2>1, <2>2 DEF Viable
    <2> QED  BY <2>1, <2>2, <2>3, RememberedStable
  <1>8. ASSUME NEW oomish \in BOOLEAN, MeasureCell(oomish)
        PROVE  ResumeEquivalent' /\ AdmissionInv'
    <2>1. failed' = failed /\ UNCHANGED skipVars /\ cfg' = cfg
          /\ pc' \in Benching /\ pc \in Benching
      BY <1>8 DEF MeasureCell
    <2>2. Remembered(failed) /\ Viable(cfg)
      BY <2>1, <1>0
    <2>3. Viable(cfg)'
      BY <2>1, <2>2 DEF Viable
    <2> QED  BY <2>1, <2>2, <2>3, RememberedStable
  <1>9. CASE Finish \/ Kill
    BY <1>9 DEF Finish, Kill, Gone
  <1>10. ASSUME NEW a \in Arguments, Launch(a) PROVE ResumeEquivalent' /\ AdmissionInv'
    <2>1. pc' = "select" /\ Remembered(failed)'
      BY <1>10 DEF Launch, Remembered, fileVars, DeadLayout, IsSkipFrom
    <2> QED  BY <2>1
  <1> QED  BY <1>1, <1>2, <1>3, <1>4, <1>5, <1>6, <1>7, <1>8, <1>9, <1>10 DEF Next, Step

\* ResumeEquivalent: a session never carries on from anything but the file.
THEOREM Resume == Spec => []ResumeEquivalent
  <1>1. Init => ResumeEquivalent /\ AdmissionInv
    BY DEF Init, ResumeEquivalent, AdmissionInv, Benching
  <1>2. TypeOK /\ ResumeEquivalent /\ AdmissionInv /\ [Next]_vars
          => ResumeEquivalent' /\ AdmissionInv'
    BY AdmissionStep
  <1> QED  BY <1>1, <1>2, TypeCorrect, PTL DEF Spec

\* What the session starts, measures and skips stays viable or ruled out by the file.
LEMMA Admission == Spec => []AdmissionInv
  <1>1. Init => ResumeEquivalent /\ AdmissionInv
    BY DEF Init, ResumeEquivalent, AdmissionInv, Benching
  <1>2. TypeOK /\ ResumeEquivalent /\ AdmissionInv /\ [Next]_vars
          => ResumeEquivalent' /\ AdmissionInv'
    BY AdmissionStep
  <1> QED  BY <1>1, <1>2, TypeCorrect, PTL DEF Spec

\* Every step of the sweep is a step of the policy or leaves the file's verdicts alone.
LEMMA PolicyStep ==
    ASSUME TypeOK, ResumeEquivalent, AdmissionInv, [Next]_vars
    PROVE  [PolicyNext]_policyVars
  <1> USE DEF policyVars, fileVars
  <1>1. CASE SkipConfig
    <2>1. Remembered(failed)
      BY <1>1 DEF SkipConfig, Visited, ResumeEquivalent
    <2>2. cfg \in Configs /\ Skip(cfg)
      BY <1>1, <2>1, SkippedNotViable DEF Skip, SkipConfig
    <2> QED  BY <2>2 DEF PolicyNext
  <1>2. CASE StartFails
    <2>1. cfg \in Configs /\ StartError(cfg)
      BY <1>2 DEF StartFails, StartError, AdmissionInv, TypeOK
    <2> QED  BY <2>1 DEF PolicyNext
  <1>3. ASSUME NEW oomish \in BOOLEAN, MeasureCell(oomish) PROVE PolicyNext
    <2>1. /\ cfg \in Configs /\ ctx \in Contexts /\ ccu \in 1..NumCcus
          /\ Measure(cfg, ctx, ccu)
      BY <1>3 DEF MeasureCell, Measure, AdmissionInv, Benching, TypeOK, Ccus
    <2> QED  BY <2>1 DEF PolicyNext
  <1>4. ASSUME NEW x \in Contexts, SkipContext(x) \/ Calibrate(x) \/ CalibrateError(x)
        PROVE  UNCHANGED policyVars
    BY <1>4 DEF SkipContext, Calibrate, CalibrateError
  <1>5. CASE PassOver \/ AlreadyDone \/ Begin \/ Healthy \/ NoteFailure \/ ConfigDone
             \/ Reload \/ Finish \/ Kill
    BY <1>5 DEF PassOver, AlreadyDone, Begin, Healthy, NoteFailure, ConfigDone, Reload,
       Finish, Kill, Gone
  <1>6. ASSUME NEW a \in Arguments, Launch(a) PROVE UNCHANGED policyVars
    BY <1>6 DEF Launch
  <1>7. CASE UNCHANGED vars
    BY <1>7 DEF vars
  <1> QED  BY <1>1, <1>2, <1>3, <1>4, <1>5, <1>6, <1>7 DEF Next, Step

\* ImplementsPolicy: sessions, memory, --only, kills and resumes included, the sweep does
\* what SweepPolicy says of the results file.
THEOREM Policy == Spec => ImplementsPolicy
  <1>1. Init => PolicyInit
    BY DEF Init
  <1>2. TypeOK /\ ResumeEquivalent /\ AdmissionInv /\ [Next]_vars
          => [PolicyNext]_policyVars
    BY PolicyStep
  <1> QED  BY <1>1, <1>2, TypeCorrect, Resume, Admission, PTL
           DEF Spec, ImplementsPolicy, PolicySpec

-----------------------------------------------------------------------------

\* In the loop, moving on keeps what was passed accounted for if the current
\* configuration is.
LEMMA PassedByAdvance ==
    ASSUME TypeOK, ProgressInv, Next, pc \notin {"off", "finish"}, Advance,
           args' = args,
           \A x \in args.contexts, u \in Ccus : cfg \in args.configs => Accounted(cfg, x, u),
           done' \subseteq load_done_cells'
    PROVE  ProgressInv' /\ NothingMissing'
  <1>1. pc' \in {"select", "finish"} /\ cfg \in Configs /\ args.configs \subseteq Configs
    BY AdvanceType DEF TypeOK, NoArguments
  <1>2. ASSUME NEW c \in args.configs, NEW x \in args.contexts, NEW u \in Ccus,
               Before(c) \/ c = cfg
        PROVE  Accounted(c, x, u)'
    <2>1. Accounted(c, x, u)
      BY <1>2 DEF ProgressInv
    <2> QED  BY <2>1, FileGrows, AccountedStable
  <1>3. ASSUME NEW c \in args.configs, pc' = "finish" \/ Before(c)'
        PROVE  Before(c) \/ c = cfg
    BY <1>1, <1>3, AdvanceOrder
  <1> QED  BY <1>1, <1>2, <1>3 DEF ProgressInv, NothingMissing, Benching

\* A step that stays at its configuration keeps what the session passed before it.
LEMMA PassedByStay ==
    ASSUME TypeOK, ProgressInv, Next, pc \notin {"off", "finish"}, args' = args, cfg' = cfg,
           NEW c \in args.configs, NEW x \in args.contexts, NEW u \in Ccus, Before(c)'
    PROVE  Accounted(c, x, u)'
  <1>1. Before(c)
    BY DEF Before
  <1>2. Accounted(c, x, u)
    BY <1>1 DEF ProgressInv
  <1> QED  BY <1>2, FileGrows, AccountedStable

\* Before a session gets to the end it has accounted for every cell it passed.
LEMMA ProgressStep ==
    ASSUME TypeOK, ResumeEquivalent, AdmissionInv, ProgressInv, NothingMissing, [Next]_vars
    PROVE  ProgressInv' /\ NothingMissing'
  <1>0. args.contexts \subseteq Contexts /\ args.configs \subseteq Configs
    BY DEF TypeOK, NoArguments
  <1>1. CASE UNCHANGED vars
    BY <1>1 DEF vars, fileVars, launchVars, benchVars, ProgressInv, NothingMissing, Before,
       Accounted, Viable, load_done_cells
  <1>2. CASE PassOver
    <2>1. \A x \in args.contexts, u \in Ccus : cfg \in args.configs => Accounted(cfg, x, u)
      BY <1>2 DEF PassOver, Accounted, Viable
    <2>2. /\ Next /\ Advance /\ args' = args /\ pc \notin {"off", "finish"}
          /\ done' \subseteq load_done_cells'
      BY <1>2 DEF PassOver, Next, Step, launchVars, ProgressInv, fileVars, load_done_cells
    <2> QED  BY <2>1, <2>2, PassedByAdvance
  <1>3. CASE SkipConfig
    <2>0. ~Viable(cfg)
      BY <1>3, SkippedNotViable DEF SkipConfig, Visited, ResumeEquivalent
    <2>1. \A x \in args.contexts, u \in Ccus : cfg \in args.configs => Accounted(cfg, x, u)
      BY <2>0 DEF Accounted
    <2>2. /\ Next /\ Advance /\ args' = args /\ pc \notin {"off", "finish"}
          /\ done' \subseteq load_done_cells'
      BY <1>3 DEF SkipConfig, Visited, Next, Step, launchVars, ProgressInv, load_done_cells
    <2> QED  BY <2>1, <2>2, PassedByAdvance
  <1>4. CASE NoteFailure
    <2>1. \A x \in args.contexts, u \in Ccus : cfg \in args.configs => Accounted(cfg, x, u)
      BY <1>4 DEF NoteFailure, AdmissionInv, Accounted, Viable
    <2>2. /\ Next /\ Advance /\ args' = args /\ pc \notin {"off", "finish"}
          /\ done' \subseteq load_done_cells'
      BY <1>4 DEF NoteFailure, Next, Step, launchVars, fileVars, load_done_cells
    <2> QED  BY <2>1, <2>2, PassedByAdvance
  <1>5. CASE Reload
    <2>1. \A x \in args.contexts, u \in Ccus : cfg \in args.configs => Accounted(cfg, x, u)
      BY <1>5 DEF Reload, ProgressInv
    <2>2. /\ Next /\ Advance /\ args' = args /\ pc \notin {"off", "finish"}
          /\ done' \subseteq load_done_cells'
      BY <1>5 DEF Reload, Next, Step, launchVars, fileVars, load_done_cells
    <2> QED  BY <2>1, <2>2, PassedByAdvance
  <1>6. ASSUME NEW x \in args.contexts, NEW u \in Ccus, Admitted, <<x, u>> \notin Needed
        PROVE  Accounted(cfg, x, u)
    <2>1. <<cfg, x, u>> \in done
      BY <1>6 DEF Needed
    <2>2. cfg \notin failed
      BY <1>6 DEF Admitted, Visited
    <2> QED  BY <2>1, <2>2 DEF ProgressInv, load_done_cells, Accounted
  <1>7. CASE AlreadyDone
    <2>1. /\ Next /\ args' = args /\ cfg' = cfg /\ pc = "select" /\ pc' = "reload"
          /\ UNCHANGED <<failed, cells, trouble, done>>
      BY <1>7 DEF AlreadyDone, Admitted, Visited, Next, Step, launchVars, fileVars
    <2>2. \A x \in args.contexts, u \in Ccus : Accounted(cfg, x, u)
      BY <1>6, <1>7 DEF AlreadyDone
    <2>3. \A x \in args.contexts, u \in Ccus : Accounted(cfg, x, u)'
      BY <2>1, <2>2 DEF Accounted, Viable
    <2>4. (done \subseteq load_done_cells)'
      BY <2>1 DEF ProgressInv, load_done_cells
    <2> QED  BY <2>1, <2>3, <2>4, PassedByStay DEF ProgressInv, NothingMissing, Benching
  <1>8. CASE Begin
    <2>1. /\ Next /\ args' = args /\ cfg' = cfg /\ pc = "select" /\ pc' \in {"wait", "bench"}
          /\ UNCHANGED <<failed, cells, trouble, done>> /\ skipAt' = 0
          /\ remaining' = {x \in args.contexts : \E u \in Ccus : <<x, u>> \in Needed}
      BY <1>8 DEF Begin, Admitted, Visited, Next, Step, launchVars, fileVars
    <2>2. \A x \in args.contexts \ remaining', u \in Ccus : Accounted(cfg, x, u)
      BY <1>6, <1>8, <2>1 DEF Begin
    <2>3. \A x \in args.contexts \ remaining', u \in Ccus : Accounted(cfg, x, u)'
      BY <2>1, <2>2 DEF Accounted, Viable
    <2>4. (done \subseteq load_done_cells)'
      BY <2>1 DEF ProgressInv, load_done_cells
    <2> QED  BY <2>1, <2>3, <2>4, PassedByStay DEF ProgressInv, NothingMissing, Benching
  <1>9. CASE Healthy
    <2>1. /\ Next /\ args' = args /\ cfg' = cfg /\ pc = "wait" /\ pc' = "bench"
          /\ UNCHANGED <<failed, cells, trouble, done, skipAt, remaining>>
      BY <1>9 DEF Healthy, Next, Step, launchVars, fileVars, benchVars
    <2>2. \A x \in args.contexts \ remaining, u \in Ccus : Accounted(cfg, x, u)
      BY <2>1 DEF ProgressInv
    <2>3. \A x \in args.contexts \ remaining, u \in Ccus : Accounted(cfg, x, u)'
      BY <2>1, <2>2 DEF Accounted, Viable
    <2>4. (done \subseteq load_done_cells)' /\ (skipAt # 0 => <<cfg, skipAt>> \in trouble)
      BY <2>1 DEF ProgressInv, load_done_cells
    <2> QED  BY <2>1, <2>3, <2>4, PassedByStay DEF ProgressInv, NothingMissing, Benching
  <1>10. CASE StartFails
    <2>1. /\ Next /\ args' = args /\ cfg' = cfg /\ pc = "wait" /\ pc' = "failing"
          /\ UNCHANGED <<cells, done>> /\ failed \subseteq failed'
      BY <1>10 DEF StartFails, Next, Step, launchVars
    <2>4. (done \subseteq load_done_cells)'
      BY <2>1 DEF ProgressInv, load_done_cells
    <2> QED  BY <2>1, <2>4, PassedByStay DEF ProgressInv, NothingMissing, Benching
  <1>11. CASE ConfigDone
    <2>1. /\ Next /\ args' = args /\ cfg' = cfg /\ pc = "bench" /\ pc' = "reload"
          /\ UNCHANGED <<failed, cells, trouble, done>> /\ remaining = {}
      BY <1>11 DEF ConfigDone, Next, Step, launchVars
    <2>2. \A x \in args.contexts, u \in Ccus : Accounted(cfg, x, u)
      BY <2>1 DEF ProgressInv, Benching
    <2>3. \A x \in args.contexts, u \in Ccus : Accounted(cfg, x, u)'
      BY <2>1, <2>2 DEF Accounted, Viable
    <2>4. (done \subseteq load_done_cells)'
      BY <2>1 DEF ProgressInv, load_done_cells
    <2> QED  BY <2>1, <2>3, <2>4, PassedByStay DEF ProgressInv, NothingMissing, Benching
  <1>12. ASSUME NEW x \in Contexts, SkipContext(x) PROVE ProgressInv' /\ NothingMissing'
    <2>1. /\ Next /\ args' = args /\ cfg' = cfg /\ pc = "bench" /\ pc' = "bench"
          /\ UNCHANGED <<failed, cells, trouble, done, skipAt>>
          /\ remaining' = remaining \ {x} /\ skipAt # 0 /\ skipAt <= x
      BY <1>12 DEF SkipContext, TooLong, Next, Step, launchVars, fileVars, TypeOK
    <2>2. /\ <<cfg, skipAt>> \in trouble /\ skipAt \in Contexts
          /\ \A y \in args.contexts \ remaining, u \in Ccus : Accounted(cfg, y, u)
      BY <2>1 DEF ProgressInv, Benching, TypeOK
    <2>3. \A u \in Ccus : Accounted(cfg, x, u)
      BY <2>1, <2>2 DEF Accounted
    <2>4. \A y \in args.contexts \ remaining', u \in Ccus : Accounted(cfg, y, u)'
      BY <2>1, <2>2, <2>3 DEF Accounted, Viable
    <2>5. (done \subseteq load_done_cells)'
      BY <2>1 DEF ProgressInv, load_done_cells
    <2> QED  BY <2>1, <2>2, <2>4, <2>5, PassedByStay DEF ProgressInv, NothingMissing, Benching
  <1>13. ASSUME NEW x \in Contexts, Calibrate(x) PROVE ProgressInv' /\ NothingMissing'
    <2>1. /\ Next /\ args' = args /\ cfg' = cfg /\ pc = "bench" /\ pc' = "cells"
          /\ UNCHANGED <<failed, cells, trouble, done, skipAt>>
          /\ remaining' = remaining \ {x} /\ ctx' = x /\ ccu' = 1
      BY <1>13 DEF Calibrate, Next, Step, launchVars, fileVars
    <2>2. /\ skipAt # 0 => <<cfg, skipAt>> \in trouble
          /\ \A y \in args.contexts \ remaining, u \in Ccus : Accounted(cfg, y, u)
      BY <2>1 DEF ProgressInv, Benching
    <2>3. \A y \in args.contexts \ remaining', u \in Ccus :
              Accounted(cfg, y, u)' \/ (y = ctx' /\ u >= ccu')
      BY <2>1, <2>2 DEF Accounted, Viable, Ccus
    <2>4. (done \subseteq load_done_cells)'
      BY <2>1 DEF ProgressInv, load_done_cells
    <2> QED  BY <2>1, <2>2, <2>3, <2>4, PassedByStay DEF ProgressInv, NothingMissing, Benching
  <1>14. ASSUME NEW x \in Contexts, CalibrateError(x) PROVE ProgressInv' /\ NothingMissing'
    <2>1. /\ Next /\ args' = args /\ cfg' = cfg /\ pc = "bench" /\ pc' = "bench"
          /\ UNCHANGED <<failed, cells, done>> /\ trouble' = trouble \union {<<cfg, x>>}
          /\ remaining' = remaining \ {x} /\ skipAt' = x
      BY <1>14 DEF CalibrateError, Next, Step, launchVars
    <2>2. \A y \in args.contexts \ remaining, u \in Ccus : Accounted(cfg, y, u)'
      BY <2>1, FileGrows, AccountedStable DEF ProgressInv, Benching
    <2>3. x <= x
      OBVIOUS
    <2>4. \A u \in Ccus : Accounted(cfg, x, u)'
      BY <2>1, <2>3 DEF Accounted
    <2>5. (done \subseteq load_done_cells)'
      BY <2>1 DEF ProgressInv, load_done_cells
    <2> QED  BY <2>1, <2>2, <2>4, <2>5, PassedByStay DEF ProgressInv, NothingMissing, Benching
  <1>15. ASSUME NEW oomish \in BOOLEAN, MeasureCell(oomish)
         PROVE  ProgressInv' /\ NothingMissing'
    <2>1. /\ Next /\ args' = args /\ cfg' = cfg /\ pc = "cells" /\ pc' \in Benching
          /\ UNCHANGED <<failed, done, remaining, ctx>>
          /\ cells' = cells \union {<<cfg, ctx, ccu>>}
          /\ trouble' = IF oomish THEN trouble \union {<<cfg, ctx>>} ELSE trouble
          /\ skipAt' = IF oomish THEN ctx ELSE skipAt
          /\ ctx \in Contexts /\ ccu \in Ccus
      BY <1>15 DEF MeasureCell, Next, Step, launchVars, Benching, TypeOK
    <2>2. \A y \in args.contexts \ remaining, u \in Ccus :
              Accounted(cfg, y, u)' \/ (y = ctx /\ u >= ccu)
      BY <2>1, FileGrows, AccountedStable DEF ProgressInv, Benching
    <2>3. ASSUME NEW u \in Ccus, u = ccu PROVE Accounted(cfg, ctx, u)'
      BY <2>1, <2>3 DEF Accounted
    <2>4. ASSUME oomish, NEW u \in Ccus PROVE Accounted(cfg, ctx, u)'
      <3>1. ctx <= ctx
        BY <2>1
      <3> QED  BY <2>1, <2>4, <3>1 DEF Accounted
    <2>5. skipAt' # 0 => <<cfg', skipAt'>> \in trouble'
      BY <2>1 DEF ProgressInv, Benching
    <2>6. ASSUME NEW y \in args.contexts \ remaining, NEW u \in Ccus
          PROVE  Accounted(cfg, y, u)' \/ (pc' = "cells" /\ y = ctx' /\ u >= ccu')
      <3>1. CASE oomish
        <4>1. CASE y = ctx
          BY <2>1, <2>4, <3>1, <4>1 DEF Accounted
        <4>2. CASE y # ctx
          BY <2>2, <4>2
        <4> QED  BY <4>1, <4>2
      <3>2. CASE ~oomish /\ ccu = NumCcus
        BY <2>1, <2>2, <2>3, <2>6, <3>2 DEF Ccus
      <3>3. CASE ~oomish /\ ccu # NumCcus
        <4>1. pc' = "cells" /\ ccu' = ccu + 1
          BY <3>3, <1>15 DEF MeasureCell
        <4> QED  BY <2>1, <2>2, <2>3, <2>6, <4>1 DEF Ccus
      <3> QED  BY <3>1, <3>2, <3>3
    <2>7. (done \subseteq load_done_cells)'
      BY <2>1 DEF ProgressInv, load_done_cells
    <2> QED  BY <2>1, <2>5, <2>6, <2>7, PassedByStay DEF ProgressInv, NothingMissing, Benching
  <1>16. CASE Finish \/ Kill
    BY <1>16 DEF Finish, Kill, Gone, ProgressInv, NothingMissing, Benching
  <1>17. ASSUME NEW a \in Arguments, Launch(a) PROVE ProgressInv' /\ NothingMissing'
    <2>1. pc' = "select" /\ cfg' = <<1, 0>> /\ (done \subseteq load_done_cells)'
          /\ args' \in Arguments
      BY <1>17 DEF Launch, Off, fileVars, load_done_cells
    <2>2. \A c \in args'.configs : ~Before(c)'
      <3>1. \A c \in Configs : c[1] \in Nat \ {0} /\ c[2] \in Nat
        BY DEF Configs, Families
      <3> QED  BY <2>1, <3>1 DEF Before
    <2> QED  BY <2>1, <2>2 DEF ProgressInv, NothingMissing, Benching
  <1> QED  BY <1>1, <1>2, <1>3, <1>4, <1>5, <1>7, <1>8, <1>9, <1>10, <1>11, <1>12, <1>13,
              <1>14, <1>15, <1>16, <1>17 DEF Next, Step

\* What a session has passed is accounted for.
LEMMA Progress == Spec => []ProgressInv
  <1>1. Init => ProgressInv /\ NothingMissing
    BY DEF Init, ProgressInv, NothingMissing, Benching, load_done_cells
  <1>2. TypeOK /\ ResumeEquivalent /\ AdmissionInv /\ ProgressInv /\ NothingMissing
          /\ [Next]_vars => ProgressInv' /\ NothingMissing'
    BY ProgressStep
  <1> QED  BY <1>1, <1>2, TypeCorrect, Resume, Admission, PTL DEF Spec

\* NothingMissing: a session that reaches its end has accounted for every cell.
THEOREM Complete == Spec => []NothingMissing
  <1>1. Init => ProgressInv /\ NothingMissing
    BY DEF Init, ProgressInv, NothingMissing, Benching, load_done_cells
  <1>2. TypeOK /\ ResumeEquivalent /\ AdmissionInv /\ ProgressInv /\ NothingMissing
          /\ [Next]_vars => ProgressInv' /\ NothingMissing'
    BY ProgressStep
  <1> QED  BY <1>1, <1>2, TypeCorrect, Resume, Admission, PTL DEF Spec

\* The inductive invariant holds throughout.
THEOREM Inductive == Spec => []IInv
  BY Resume, Admission, Complete, Progress, PTL DEF IInv

=============================================================================
