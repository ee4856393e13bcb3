------------------------------ MODULE AllReduce ------------------------------
(***************************************************************************)
(* The all-reduce test of hw_prob.py: bench_allreduce starts one worker    *)
(* per GPU, and the workers measure every group of two or more of them.    *)
(*                                                                         *)
(* A worker goes through a line of collective calls, some of the whole     *)
(* world and some of one group.  A call returns when every member has made *)
(* the same one: workers that disagree on the line wait for each other     *)
(* until NCCL gives up.  Around them are workers that crash or wedge, a    *)
(* parent that joins them in order, and Ctrl+C, which reaches the parent   *)
(* and every worker, at any point and more than once.                      *)
(*                                                                         *)
(* Bounds: MaxFaults (workers or starts that fail), MaxInterrupts (Ctrl+C).*)
(***************************************************************************)
EXTENDS Integers, Sequences, FiniteSets

CONSTANTS
    World,      \* n_gpus: with fewer than two there is nothing to test
    NumSizes,   \* message sizes measured in each group
    MaxFaults,
    MaxInterrupts

ASSUME AllReduceAssumption ==
    /\ World \in Nat /\ World >= 2
    /\ NumSizes \in Nat \ {0}
    /\ MaxFaults \in Nat /\ MaxInterrupts \in Nat

Ranks == 0..World - 1

VARIABLES
    pc,          \* control point of bench_allreduce and of the program's exit
    started,     \* workers started: ranks below it
    listed,      \* length of processes: ranks below it
    cursor,      \* where the loop over processes is
    life,        \* of each rank: "unborn", "running", "finished" or "failed"
    place,       \* of each rank: the call it makes next, or is in
    inside,      \* of each rank: it has made that call and waits for its return
    passed,      \* of each rank: the calls that have returned (history)
    summary,     \* rank 0's list of measured groups
    asked,       \* ranks sent SIGTERM
    hit,         \* ranks that ran when Ctrl+C was pressed
    wedged,      \* ranks stuck where only SIGKILL ends them
    faults, interrupts

parentVars == <<pc, started, listed, cursor>>
workerVars == <<life, place, inside, passed, summary, wedged>>
capVars == <<faults, interrupts>>
vars == <<parentVars, workerVars, asked, hit, capVars>>

(***************************************************************************)
(* Groups, in the order of itertools.combinations for sizes 2, 3, ...      *)
(***************************************************************************)
Combos == {c \in SUBSET Ranks : Cardinality(c) >= 2}
NumCombos == Cardinality(Combos)

Before(c, d) ==
    \/ Cardinality(c) < Cardinality(d)
    \/ /\ Cardinality(c) = Cardinality(d)
       /\ \E m \in c \ d : \A x \in (c \ d) \union (d \ c) : m <= x

\* combos, counted from 1
Combo ==
    [i \in 1..NumCombos |->
        CHOOSE c \in Combos : Cardinality({d \in Combos : Before(d, c)}) = i - 1]

(***************************************************************************)
(* Collective calls                                                        *)
(***************************************************************************)
GroupStages == {"warm", "sync", "timed"}
WorldStages == {"init", "new_group", "barrier"}

Call(stage, i, size) == [stage |-> stage, at |-> i, size |-> size]

\* Whom a call waits for.
Party(call) ==
    IF call.stage \in GroupStages THEN Ranks \intersect Combo[call.at] ELSE Ranks

\* Mutant: calls made with async_op and not waited for.
MetAtOnce(r) == inside[r]

\* Everyone the call waits for is in it, or has been.
Met(r) ==
    \A m \in Party(place[r]) :
        \/ inside[m] /\ place[m] = place[r]
        \/ place[r] \in passed[m]

Able(r) == life[r] = "running" /\ r \notin wedged

Enter(r) ==
    /\ Able(r) /\ ~inside[r] /\ place[r].stage # "destroy"
    /\ inside' = [inside EXCEPT ![r] = TRUE]
    /\ UNCHANGED <<parentVars, life, place, passed, summary, wedged, asked, hit, capVars>>

Return(r, next) ==
    /\ Able(r) /\ inside[r] /\ Met(r)
    /\ inside' = [inside EXCEPT ![r] = FALSE]
    /\ passed' = [passed EXCEPT ![r] = @ \union {place[r]}]
    /\ place' = [place EXCEPT ![r] = next]
    /\ UNCHANGED <<parentVars, life, wedged, asked, hit, capVars>>

(***************************************************************************)
(* _allreduce_worker                                                       *)
(***************************************************************************)

\* Mutant: ranks outside the group skip new_group.
ComboStartOfMembers(r, i) ==
    IF i > NumCombos THEN Call("destroy", i, 0)
    ELSE IF r \in Combo[i] THEN Call("new_group", i, 0) ELSE Call("barrier", i, 0)

\* The loop over combos, from its i-th on.
ComboStart(r, i) ==
    IF i > NumCombos THEN Call("destroy", i, 0) ELSE Call("new_group", i, 0)

Rendezvous(r) ==
    /\ place[r].stage = "init"
    /\ Return(r, ComboStart(r, 1))
    /\ UNCHANGED summary

NewGroup(r) ==
    /\ place[r].stage = "new_group"
    /\ LET i == place[r].at IN
           Return(r, IF r \in Combo[i] THEN Call("warm", i, 1) ELSE Call("barrier", i, 0))
    /\ UNCHANGED summary

\* run_group, for one size: all-reduces to warm up, a barrier of the group, and the
\* samples, each of many all-reduces.
WarmUp(r) ==
    /\ place[r].stage = "warm"
    /\ Return(r, [place[r] EXCEPT !.stage = "sync"])
    /\ UNCHANGED summary

GroupBarrier(r) ==
    /\ place[r].stage = "sync"
    /\ Return(r, [place[r] EXCEPT !.stage = "timed"])
    /\ UNCHANGED summary

TimedMore(r) ==
    /\ place[r].stage = "timed" /\ place[r].size < NumSizes
    /\ Return(r, Call("warm", place[r].at, place[r].size + 1))
    /\ UNCHANGED summary

\* Mutant: a group is noted by whichever rank is done with it.
NotedByAll(r) == Append(summary, place[r].at)

\* Rank 0 notes the groups it was in.
Noted(r) == IF r = 0 THEN Append(summary, place[r].at) ELSE summary

TimedLast(r) ==
    /\ place[r].stage = "timed" /\ place[r].size = NumSizes
    /\ Return(r, Call("barrier", place[r].at, 0))
    /\ summary' = Noted(r)

Barrier(r) ==
    /\ place[r].stage = "barrier"
    /\ Return(r, ComboStart(r, place[r].at + 1))
    /\ UNCHANGED summary

\* destroy_process_group, and the process ends.
Destroy(r) ==
    /\ Able(r) /\ place[r].stage = "destroy"
    /\ life' = [life EXCEPT ![r] = "finished"]
    /\ UNCHANGED <<parentVars, place, inside, passed, summary, wedged, asked, hit, capVars>>

Work(r) ==
    \/ Enter(r) \/ Rendezvous(r) \/ NewGroup(r) \/ WarmUp(r) \/ GroupBarrier(r)
    \/ TimedMore(r) \/ TimedLast(r) \/ Barrier(r) \/ Destroy(r)

(***************************************************************************)
(* What ends or stops a worker                                             *)
(***************************************************************************)
Ended(r) ==
    /\ life[r] = "running"
    /\ life' = [life EXCEPT ![r] = "failed"]
    /\ inside' = [inside EXCEPT ![r] = FALSE]
    /\ UNCHANGED <<parentVars, place, passed, summary, wedged, asked, hit>>

Crash(r) ==
    /\ faults < MaxFaults /\ faults' = faults + 1
    /\ r \notin wedged /\ Ended(r)
    /\ UNCHANGED interrupts

\* The worker's own KeyboardInterrupt, whenever it is back in Python.
Interrupted(r) == r \in hit \ wedged /\ Ended(r) /\ UNCHANGED capVars

Terminated(r) == r \in asked \ wedged /\ Ended(r) /\ UNCHANGED capVars

Wedge(r) ==
    /\ faults < MaxFaults /\ faults' = faults + 1
    /\ Able(r)
    /\ wedged' = wedged \union {r}
    /\ UNCHANGED <<parentVars, life, place, inside, passed, summary, asked, hit, interrupts>>

CanWork(r) ==
    Able(r) /\ (inside[r] => Met(r))

\* The process group's timeout of 60 s, longer than what the workers do between two
\* calls: it is over only when nobody is on the way.
TimeOut(r) ==
    /\ Able(r) /\ inside[r]
    /\ \A m \in Ranks : ~CanWork(m)
    /\ pc \notin {"start", "list"}
    /\ Ended(r)
    /\ UNCHANGED capVars

(***************************************************************************)
(* bench_allreduce                                                         *)
(***************************************************************************)
Start ==
    /\ pc = "start"
    /\ life' = [life EXCEPT ![started] = "running"]
    /\ started' = started + 1
    /\ pc' = "list"
    /\ UNCHANGED <<listed, cursor, place, inside, passed, summary, wedged, asked, hit, capVars>>

\* p.start() raises: the clean-up of BaseException.
StartFails ==
    /\ pc = "start"
    /\ faults < MaxFaults /\ faults' = faults + 1
    /\ pc' = "terminate" /\ cursor' = 0
    /\ UNCHANGED <<started, listed, workerVars, asked, hit, interrupts>>

List ==
    /\ pc = "list"
    /\ listed' = listed + 1
    /\ pc' = IF listed + 1 < World THEN "start" ELSE "join"
    /\ UNCHANGED <<started, cursor, workerVars, asked, hit, capVars>>

\* join() without a timeout; the exit code is not looked at.
Join ==
    /\ pc = "join" /\ cursor < World
    /\ life[cursor] # "running"
    /\ cursor' = cursor + 1
    /\ UNCHANGED <<pc, started, listed, workerVars, asked, hit, capVars>>

Returns ==
    /\ pc = "join" /\ cursor = World
    /\ pc' = "returned"
    /\ UNCHANGED <<started, listed, cursor, workerVars, asked, hit, capVars>>

(***************************************************************************)
(* _cleanup_processes                                                      *)
(***************************************************************************)
Terminate ==
    /\ pc = "terminate" /\ cursor < listed
    /\ asked' = asked \union {r \in {cursor} : life[r] = "running"}
    /\ cursor' = cursor + 1
    /\ UNCHANGED <<pc, started, listed, workerVars, hit, capVars>>

\* The joins after the SIGTERMs: each is over when its worker ends or after term_timeout.
Reap ==
    /\ pc = "terminate" /\ cursor = listed
    /\ pc' = "kill" /\ cursor' = 0
    /\ UNCHANGED <<started, listed, workerVars, asked, hit, capVars>>

\* Mutant: those that were sent SIGTERM are taken to be gone.
KilledUnasked(r) == life[r] = "running" /\ r \notin asked

Killed(r) == life[r] = "running"

KillSurvivor ==
    /\ pc = "kill" /\ cursor < listed
    /\ life' = [life EXCEPT ![cursor] = IF Killed(cursor) THEN "failed" ELSE @]
    /\ inside' = [inside EXCEPT ![cursor] = @ /\ ~Killed(cursor)]
    /\ cursor' = cursor + 1
    /\ UNCHANGED <<pc, started, listed, place, passed, summary, wedged, asked, hit, capVars>>

Cleaned ==
    /\ pc = "kill" /\ cursor = listed
    /\ pc' = "cleaned"
    /\ UNCHANGED <<started, listed, cursor, workerVars, asked, hit, capVars>>

(***************************************************************************)
(* The end of the program, and Ctrl+C                                      *)
(***************************************************************************)
Ending == {"returned", "cleaned", "aborted"}

\* At exit multiprocessing joins the children that are left: they are not daemons.
Exit ==
    /\ pc \in Ending
    /\ \A r \in Ranks : life[r] # "running"
    /\ pc' = "over"
    /\ UNCHANGED <<started, listed, cursor, workerVars, asked, hit, capVars>>

\* In the test it leads to the clean-up, in the clean-up out of it, at exit to the end.
Interrupt ==
    /\ pc # "over"
    /\ interrupts < MaxInterrupts /\ interrupts' = interrupts + 1
    /\ hit' = hit \union {r \in Ranks : life[r] = "running"}
    /\ \/ pc \in {"start", "list", "join"} /\ pc' = "terminate" /\ cursor' = 0
       \/ pc \in {"terminate", "kill"} /\ pc' = "aborted" /\ UNCHANGED cursor
       \/ pc \in Ending /\ pc' = "over" /\ UNCHANGED cursor
    /\ UNCHANGED <<started, listed, workerVars, asked, faults>>

(***************************************************************************)
(* Specification                                                           *)
(***************************************************************************)
Init ==
    /\ pc = "start" /\ started = 0 /\ listed = 0 /\ cursor = 0
    /\ life = [r \in Ranks |-> "unborn"]
    /\ place = [r \in Ranks |-> Call("init", 0, 0)]
    /\ inside = [r \in Ranks |-> FALSE]
    /\ passed = [r \in Ranks |-> {}]
    /\ summary = <<>> /\ asked = {} /\ hit = {} /\ wedged = {}
    /\ faults = 0 /\ interrupts = 0

Parent ==
    Start \/ List \/ Join \/ Returns \/ Terminate \/ Reap \/ KillSurvivor \/ Cleaned \/ Exit

Worker(r) == Work(r) \/ Interrupted(r) \/ Terminated(r) \/ TimeOut(r)

Next ==
    \/ Parent \/ StartFails \/ Interrupt
    \/ \E r \in Ranks : Worker(r) \/ Crash(r) \/ Wedge(r)

Spec == Init /\ [][Next]_vars

\* The parent runs, a worker that can go on does, one that was sent SIGTERM ends unless
\* it is wedged, and NCCL's timeout comes.
FairSpec ==
    /\ Spec /\ WF_vars(Parent)
    /\ \A r \in Ranks : WF_vars(Worker(r)) /\ WF_vars(Terminated(r))

(***************************************************************************)
(* Properties                                                              *)
(***************************************************************************)
Stages == GroupStages \union WorldStages \union {"destroy"}
Calls == [stage : Stages, at : 0..NumCombos + 1, size : 0..NumSizes]

\* Types, and that exactly the started ranks have had a process.
TypeOK ==
    /\ pc \in {"start", "list", "join", "terminate", "kill", "over"} \union Ending
    /\ started \in 0..World /\ listed \in 0..World /\ cursor \in 0..World
    /\ life \in [Ranks -> {"unborn", "running", "finished", "failed"}]
    /\ \A r \in Ranks : life[r] = "unborn" <=> r >= started
    /\ place \in [Ranks -> Calls] /\ inside \in [Ranks -> BOOLEAN]
    /\ passed \in [Ranks -> SUBSET Calls]
    /\ summary \in Seq(1..NumCombos)
    /\ asked \subseteq Ranks /\ hit \subseteq Ranks /\ wedged \subseteq Ranks
    /\ faults \in 0..MaxFaults /\ interrupts \in 0..MaxInterrupts

\* A group is measured alone: while a rank has an all-reduce of one group to make or under
\* way, no other rank has one of another group, so no two share the links at one time.
OneGroupAtATime ==
    \A r, m \in Ranks :
        place[r].stage \in GroupStages /\ place[m].stage \in GroupStages
            => place[r].at = place[m].at

\* Once the clean-up has run to its end no listed worker is left, wedged ones included: a
\* worker started but not listed yet when Ctrl+C came is the one that may be.
NoneSurvive ==
    pc = "cleaned" => \A r \in Ranks : r < listed => life[r] # "running"

\* The summary of a test that went through names each group of rank 0 once and in order,
\* and no other: the groups rank 0 is not in are measured, but nobody ranks them.
RankedByRankZero ==
    life[0] = "finished" =>
        /\ {summary[k] : k \in DOMAIN summary} = {i \in 1..NumCombos : 0 \in Combo[i]}
        /\ \A k \in 2..Len(summary) : summary[k - 1] < summary[k]

\* Where nothing fails and nobody interrupts, no timeout comes: the workers are never all
\* waiting, which is the deadlock that a rank skipping new_group once caused.
NoneTimesOut ==
    faults = 0 /\ interrupts = 0 => \A r \in Ranks : life[r] # "failed"

\* How many collectives of the world a rank has got past: two for each group.
Round(call) ==
    IF call.stage = "init" THEN 0
    ELSE IF call.stage \in {"new_group", "destroy"} THEN 2 * call.at - 1 ELSE 2 * call.at

rounds == [r \in Ranks |-> Round(place[r])]

Lockstep ==
    INSTANCE Rounds WITH Members <- Ranks, Last <- 2 * NumCombos + 1, round <- rounds

\* The workers go through the calls of the world in lockstep, members of a group or not:
\* what keeps them from waiting for each other in different calls.
InLockstep == Lockstep!Spec

\* Whatever fails and whenever it is interrupted, no process stays: only one that is
\* wedged can, and with no Ctrl+C in the clean-up only one that is not listed.
NoneStays ==
    <>[](\A r \in Ranks : life[r] = "running" =>
            r \in wedged /\ (pc \in {"cleaned", "over"} /\ interrupts < 2 => r >= listed))

=============================================================================
