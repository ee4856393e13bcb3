------------------------------- MODULE Sweep -------------------------------
(***************************************************************************)
(* The benchmark sweep (bench/run_sweep.py with bench_client.bench_config) *)
(* across sessions that are killed at any point and resumed from the       *)
(* append-only results file.                                               *)
(*                                                                         *)
(* A session loads the file into memory, visits the configurations in      *)
(* order, starts a server for each it does not rule out and measures the   *)
(* missing cells.  Every row appended to the file is a step, so a kill     *)
(* falls between any two of them, or in the middle of one.                 *)
(*                                                                         *)
(* Bounds: MaxSessions (sessions launched).                                *)
(***************************************************************************)
EXTENDS SweepPolicy

CONSTANTS
    Arguments,     \* command lines: [configs, contexts, skipStart]
    MaxSessions

ASSUME ArgumentsAssumption ==
    /\ Arguments \subseteq [configs : SUBSET Configs, contexts : SUBSET Contexts,
                            skipStart : BOOLEAN]
    /\ MaxSessions \in Nat

VARIABLES
    completed,   \* the file: configurations with a config_done row
    trouble,     \* the file: <<configuration, context>> with a calibrate_error row or
                 \* an out-of-memory error in a cell row
    torn,        \* the file's last line was cut short
    pc,          \* the session's control point, "off" when none runs
    sessions,    \* sessions launched
    args,        \* the session's command line
    cfg,         \* the configuration it is at
    done,        \* its cells that need no measuring, as last loaded
    dead,        \* dead_layout: families whose speculation-off start failed
    skipFrom,    \* skip_mtp_from: MTP token counts from here on are skipped
    remaining,   \* bench_config: contexts it has yet to reach
    skipAt,      \* bench_config's skip_from, 0 for None
    ctx, ccu     \* bench_config: the cell it is at

fileVars   == <<failed, skipped, cells, completed, trouble>>
skipVars   == <<dead, skipFrom>>
benchVars  == <<remaining, skipAt, ctx, ccu>>
launchVars == <<sessions, args>>
vars == <<fileVars, torn, pc, launchVars, cfg, done, skipVars, benchVars>>

Ccus == 1..NumCcus
Cells == Configs \X Contexts \X Ccus
NoLimit == MaxMtp + 2
Limits == 1..NoLimit
Benching == {"bench", "cells"}
NoArguments == [configs |-> {}, contexts |-> {}, skipStart |-> FALSE]
Labels == {"off", "select", "wait", "failing", "reload", "finish"} \union Benching

(***************************************************************************)
(* Reading the results file.                                               *)
(***************************************************************************)
load_done_cells == cells \union (failed \X Contexts \X Ccus)

\* Mutant: the rows of DSpark, whose mtp field is 0, are not set apart.
DeadLayoutAny(f) == {k \in Families : \E c \in f : c[1] = k /\ ~IsMtp(c)}

DeadLayout(f) == {k \in Families : Off(k) \in f}

\* Mutant: the failed count itself instead of the next.
IsSkipFromSame(f, k, n) ==
    LET mtps == {m \in 1..MaxMtp : <<k, m>> \in f}
    IN  IF mtps = {} THEN n = NoLimit
                     ELSE n \in mtps /\ \A m \in mtps : n <= m

\* n is the least mtp + 1 of the family's failed MTP configurations.
IsSkipFrom(f, k, n) ==
    LET mtps == {m \in 1..MaxMtp : <<k, m>> \in f}
    IN  IF mtps = {} THEN n = NoLimit
                     ELSE n - 1 \in mtps /\ \A m \in mtps : n <= m + 1

(***************************************************************************)
(* A session: async_main's loop.                                           *)
(***************************************************************************)
Launch(a) ==
    /\ pc = "off" /\ sessions < MaxSessions
    /\ ~torn                            \* json.loads raises on a torn line
    /\ sessions' = sessions + 1
    /\ args' = a
    /\ pc' = "select"
    /\ cfg' = Off(1)
    /\ done' = load_done_cells
    /\ dead' = DeadLayout(failed)
    /\ skipFrom' \in [Families -> Limits]
    /\ \A k \in Families : IsSkipFrom(failed, k, skipFrom'[k])
    /\ UNCHANGED <<fileVars, torn, benchVars>>

\* Mutant: no layout follows the last spec.
AdvanceFlat == pc' = "select" /\ cfg' = <<cfg[1], cfg[2] + 1>>

\* The next configuration of all_configs, if any.
Advance ==
    IF IsDSpark(cfg)
    THEN IF cfg[1] = NumFamilies
         THEN pc' = "finish" /\ UNCHANGED cfg
         ELSE pc' = "select" /\ cfg' = Off(cfg[1] + 1)
    ELSE pc' = "select" /\ cfg' = <<cfg[1], cfg[2] + 1>>

FamilySkipped == IsMtp(cfg) /\ cfg[2] >= skipFrom[cfg[1]]

Needed == {n \in args.contexts \X Ccus : <<cfg, n[1], n[2]>> \notin done}

\* Not of --only or --exclude-pp, or failed in some session.
PassOver ==
    /\ pc = "select"
    /\ cfg \notin args.configs \/ cfg \in failed
    /\ Advance
    /\ UNCHANGED <<fileVars, torn, launchVars, done, skipVars, benchVars>>

Visited == pc = "select" /\ cfg \in args.configs \ failed

\* The skipped rows "mtp_off_failed" and "mtp_family_failed".
SkipConfig ==
    /\ Visited
    /\ cfg[1] \in dead \/ FamilySkipped
    /\ skipped' = skipped \union {cfg}
    /\ Advance
    /\ UNCHANGED <<failed, cells, completed, trouble, torn, launchVars, done, skipVars,
                   benchVars>>

Admitted == Visited /\ cfg[1] \notin dead /\ ~FamilySkipped

AlreadyDone ==
    /\ Admitted /\ Needed = {}
    /\ pc' = "reload"
    /\ UNCHANGED <<fileVars, torn, launchVars, cfg, done, skipVars, benchVars>>

\* Mutant: only the contexts without any measured cell.
BeginUntouched ==
    /\ Admitted /\ Needed # {}
    /\ pc' = IF args.skipStart THEN "bench" ELSE "wait"
    /\ remaining' = {x \in args.contexts : \A u \in Ccus : <<x, u>> \in Needed}
    /\ skipAt' = 0
    /\ UNCHANGED <<fileVars, torn, launchVars, cfg, done, skipVars, ctx, ccu>>

Begin ==
    /\ Admitted /\ Needed # {}
    /\ pc' = IF args.skipStart THEN "bench" ELSE "wait"
    /\ remaining' = {x \in args.contexts : \E u \in Ccus : <<x, u>> \in Needed}
    /\ skipAt' = 0
    /\ UNCHANGED <<fileVars, torn, launchVars, cfg, done, skipVars, ctx, ccu>>

(***************************************************************************)
(* run_one_config.                                                         *)
(***************************************************************************)
Healthy ==
    /\ pc = "wait" /\ pc' = "bench"
    /\ UNCHANGED <<fileVars, torn, launchVars, cfg, done, skipVars, benchVars>>

\* wait_healthy raises: the server exited, logged a fatal marker, stalled or timed out.
StartFails ==
    /\ pc = "wait" /\ pc' = "failing"
    /\ failed' = failed \union {cfg}
    /\ UNCHANGED <<skipped, cells, completed, trouble, torn, launchVars, cfg, done,
                   skipVars, benchVars>>

\* Back in async_main with "start_error".
NoteFailure ==
    /\ pc = "failing"
    /\ done' = load_done_cells
    /\ dead' = IF cfg[2] = 0 THEN dead \union {cfg[1]} ELSE dead
    /\ skipFrom' = IF IsMtp(cfg) THEN [skipFrom EXCEPT ![cfg[1]] = cfg[2] + 1]
                                 ELSE skipFrom
    /\ Advance
    /\ UNCHANGED <<fileVars, torn, launchVars, benchVars>>

ConfigDone ==
    /\ pc = "bench" /\ remaining = {}
    /\ completed' = completed \union {cfg}
    /\ pc' = "reload"
    /\ UNCHANGED <<failed, skipped, cells, trouble, torn, launchVars, cfg, done, skipVars,
                   benchVars>>

\* Back in async_main with "ok" or "already_done".
Reload ==
    /\ pc = "reload"
    /\ done' = load_done_cells
    /\ Advance
    /\ UNCHANGED <<fileVars, torn, launchVars, skipVars, benchVars>>

(***************************************************************************)
(* bench_config: contexts in increasing order, every ccu at each.          *)
(***************************************************************************)
IsNext(x) == x \in remaining /\ \A y \in remaining : x <= y
TooLong(x) == skipAt # 0 /\ x >= skipAt

\* Mutant: a context that is skipped stays on the list.
SkipContextKept(x) ==
    /\ pc = "bench" /\ IsNext(x) /\ TooLong(x)
    /\ UNCHANGED vars

\* The context's skipped row, which nothing reads.
SkipContext(x) ==
    /\ pc = "bench" /\ IsNext(x) /\ TooLong(x)
    /\ remaining' = remaining \ {x}
    /\ UNCHANGED <<fileVars, torn, pc, launchVars, cfg, done, skipVars, skipAt, ctx, ccu>>

Calibrate(x) ==
    /\ pc = "bench" /\ IsNext(x) /\ ~TooLong(x)
    /\ remaining' = remaining \ {x}
    /\ ctx' = x /\ ccu' = 1
    /\ pc' = "cells"
    /\ UNCHANGED <<fileVars, torn, launchVars, cfg, done, skipVars, skipAt>>

CalibrateError(x) ==
    /\ pc = "bench" /\ IsNext(x) /\ ~TooLong(x)
    /\ remaining' = remaining \ {x}
    /\ skipAt' = x
    /\ trouble' = trouble \union {<<cfg, x>>}
    /\ UNCHANGED <<failed, skipped, cells, completed, torn, pc, launchVars, cfg, done,
                   skipVars, ctx, ccu>>

\* A cell is recorded even if all its requests failed; an out-of-memory error among
\* them ends the context and skips the longer ones.
MeasureCell(oomish) ==
    /\ pc = "cells"
    /\ cells' = cells \union {<<cfg, ctx, ccu>>}
    /\ trouble' = IF oomish THEN trouble \union {<<cfg, ctx>>} ELSE trouble
    /\ skipAt' = IF oomish THEN ctx ELSE skipAt
    /\ IF oomish \/ ccu = NumCcus THEN pc' = "bench" /\ UNCHANGED ccu
                                  ELSE ccu' = ccu + 1 /\ UNCHANGED pc
    /\ UNCHANGED <<failed, skipped, completed, torn, launchVars, cfg, done, skipVars,
                   remaining, ctx>>

\* The session's memory is gone.
Gone ==
    /\ pc' = "off" /\ args' = NoArguments
    /\ cfg' = Off(1) /\ done' = {} /\ dead' = {}
    /\ skipFrom' = [k \in Families |-> NoLimit]
    /\ remaining' = {} /\ skipAt' = 0 /\ ctx' = 0 /\ ccu' = 1
    /\ UNCHANGED <<fileVars, sessions>>

Finish == pc = "finish" /\ Gone /\ UNCHANGED torn

\* The process dies, perhaps while it appends a row.
Kill ==
    /\ pc # "off" /\ Gone
    /\ \/ UNCHANGED torn
       \/ pc \in {"select", "wait"} \union Benching /\ torn' = TRUE

Init ==
    /\ PolicyInit
    /\ completed = {} /\ trouble = {} /\ torn = FALSE
    /\ pc = "off" /\ sessions = 0 /\ args = NoArguments
    /\ cfg = Off(1) /\ done = {} /\ dead = {}
    /\ skipFrom = [k \in Families |-> NoLimit]
    /\ remaining = {} /\ skipAt = 0 /\ ctx = 0 /\ ccu = 1

Step ==
    \/ PassOver \/ SkipConfig \/ AlreadyDone \/ Begin
    \/ Healthy \/ StartFails \/ NoteFailure \/ ConfigDone \/ Reload
    \/ \E x \in Contexts : SkipContext(x) \/ Calibrate(x) \/ CalibrateError(x)
    \/ \E oomish \in BOOLEAN : MeasureCell(oomish)
    \/ Finish

Next == Step \/ Kill \/ \E a \in Arguments : Launch(a)

Spec == Init /\ [][Next]_vars

\* The session keeps running until it ends or is killed: wait_healthy, stop_port and
\* every request of the benchmark have a time limit.
FairSpec == Spec /\ WF_vars(Step)

(***************************************************************************)
(* Properties.                                                             *)
(***************************************************************************)

\* Every variable keeps its type.
TypeOK ==
    /\ failed \subseteq Configs /\ skipped \subseteq Configs /\ cells \subseteq Cells
    /\ completed \subseteq Configs /\ trouble \subseteq Configs \X Contexts
    /\ torn \in BOOLEAN /\ pc \in Labels /\ sessions \in 0..MaxSessions
    /\ args \in Arguments \union {NoArguments} /\ cfg \in Configs /\ done \subseteq Cells
    /\ dead \subseteq Families /\ skipFrom \in [Families -> Limits]
    /\ remaining \subseteq Contexts /\ skipAt \in Contexts \union {0}
    /\ ctx \in Contexts \union {0} /\ ccu \in Ccus
    /\ pc = "cells" => ctx \in Contexts

Remembered(f) ==
    /\ dead = DeadLayout(f)
    /\ \A k \in Families : IsSkipFrom(f, k, skipFrom[k])

\* A session never carries on from anything but the file: what it remembers of failed
\* starts is what load_family_skips would rebuild, so that a kill and a resume at this
\* point would skip the same configurations.
ResumeEquivalent ==
    pc \notin {"off", "failing"} => Remembered(failed)

\* Across sessions, --only subsets and kills the sweep starts, measures and skips just
\* what the results file allows: MTP failures rule out more MTP tokens and never DSpark,
\* a failed speculation-off start rules out the family, a failed start is not repeated.
ImplementsPolicy == PolicySpec

Accounted(c, x, u) ==
    \/ <<c, x, u>> \in cells
    \/ ~Viable(c)
    \/ \E y \in Contexts : y <= x /\ <<c, y>> \in trouble

\* A session that reaches its end has left no cell it was asked for without a result or
\* a row that tells why: the failed start, the failed calibration or the out-of-memory
\* error at this or a shorter context.
NothingMissing ==
    pc = "finish" => \A c \in args.configs, x \in args.contexts, u \in Ccus :
                        Accounted(c, x, u)

\* Every session ends.
SessionEnds == pc # "off" ~> pc = "off"

(***************************************************************************)
(* The inductive invariants behind the refinement and NothingMissing       *)
(* (SweepProofs).                                                          *)
(***************************************************************************)

\* From a configuration's admission on, nothing in the file rules it out until its own
\* start fails; then memory lags behind the file by that one row.
AdmissionInv ==
    /\ pc \in {"wait"} \union Benching => Viable(cfg)
    /\ pc = "failing" =>
          /\ cfg \in failed /\ Remembered(failed \ {cfg})
          /\ IsMtp(cfg) => \A m \in 1..(cfg[2] - 1) : <<cfg[1], m>> \notin failed
Before(c) == c[1] < cfg[1] \/ (c[1] = cfg[1] /\ c[2] < cfg[2])

\* What a session has passed is accounted for: the configurations before the current one,
\* and of the current one the contexts it does not have to reach any more, but for the
\* cells still to come at this context.
ProgressInv ==
    /\ done \subseteq load_done_cells
    /\ pc \notin {"off", "finish"} =>
          \A c \in args.configs, x \in args.contexts, u \in Ccus :
              Before(c) => Accounted(c, x, u)
    /\ pc = "reload" => \A x \in args.contexts, u \in Ccus : Accounted(cfg, x, u)
    /\ pc \in {"wait"} \union Benching =>
          /\ skipAt # 0 => <<cfg, skipAt>> \in trouble
          /\ \A x \in args.contexts \ remaining, u \in Ccus :
                Accounted(cfg, x, u) \/ (pc = "cells" /\ x = ctx /\ u >= ccu)

IInv == ResumeEquivalent /\ AdmissionInv /\ ProgressInv /\ NothingMissing
=============================================================================
