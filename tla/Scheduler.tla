------------------------------ MODULE Scheduler ------------------------------
(***************************************************************************)
(* vLLM's Scheduler.schedule() as patches/vllm_offload_scheduler installs  *)
(* it: one call gives tokens of a batch to the running requests,           *)
(* preempting when the KV cache is full, then admits waiting ones, loading *)
(* cached prefixes from an external connector.  The call is one loop after *)
(* another, so it is modelled as one action per pass of a loop; nothing    *)
(* else happens until it returns (phase "idle").  Then requests arrive,    *)
(* batches in flight come back and loads end.                              *)
(*                                                                         *)
(* The queue class, the KV cache manager, the connector and                *)
(* update_from_output are vLLM's own: they are modelled from what          *)
(* schedule() asks of them.  Left out: encoder inputs, LoRA slots, pausing *)
(* and the output placeholders of asynchronous scheduling.                 *)
(***************************************************************************)
EXTENDS Integers, FiniteSetsExt, SequencesExt

CONSTANTS
    Requests,       \* 1..n: a request is its rank of arrival
    Prompt,         \* request -> num_prompt_tokens
    MaxTokens,      \* request -> tokens it generates
    Priority,       \* request -> priority, the lower the more urgent
    Policy,         \* "fcfs" or "priority"
    BlockSize, NumBlocks, MaxModelLen,
    MaxScheduled,   \* max_num_scheduled_tokens
    MaxRunning,     \* max_num_running_reqs
    Threshold,      \* long_prefill_token_threshold, 0 for none
    Chunked,        \* enable_chunked_prefill
    Align, Eagle,   \* need_mamba_block_aligned_split, use_eagle
    NumSpec,        \* drafts per step, and num_lookahead_tokens
    ReserveFull,    \* scheduler_reserve_full_isl
    Depth,          \* batches in flight: 1, or 2 with pipeline parallelism
    LocalHits,      \* blocks the prefix cache may hold of a prompt
    ExternalHits,   \* blocks the connector may offer; {} without a connector
    AsyncLoads,     \* ways the connector loads: a subset of BOOLEAN
    WholeHits,      \* whether it may offer to load the whole of a prompt
    MaxFaults       \* bound: "not known yet" answers and failed loads

ASSUME SchedulerAssumption ==
    /\ IsFiniteSet(Requests) /\ Requests # {} /\ Requests = 1..Cardinality(Requests)
    /\ {Prompt, MaxTokens} \subseteq [Requests -> Nat \ {0}]
    /\ Priority \in [Requests -> Nat] /\ Policy \in {"fcfs", "priority"}
    /\ {BlockSize, NumBlocks, MaxScheduled, MaxRunning} \subseteq Nat \ {0}
    /\ {MaxModelLen, Threshold, NumSpec, MaxFaults} \subseteq Nat
    /\ {Chunked, Align, Eagle, ReserveFull, WholeHits} \subseteq BOOLEAN
    /\ LocalHits \subseteq Nat /\ ExternalHits \subseteq Nat
    /\ AsyncLoads \subseteq BOOLEAN
    /\ \A r \in Requests : Prompt[r] + MaxTokens[r] <= MaxModelLen

(* vLLM refuses align mode when a whole block cannot be scheduled, and its *)
(* blocks have at least 8 tokens.  Drafts while a batch is in flight need  *)
(* the placeholders left out here; what becomes of a load when its request *)
(* finishes by a batch that was in flight is vLLM's and left out too.      *)
ASSUME ConfigAssumption ==
    /\ Align => MaxScheduled >= BlockSize
    /\ Align => Threshold = 0 \/ Threshold >= BlockSize
    /\ WholeHits => BlockSize > 1
    /\ Depth = 1 \/ (Depth = 2 /\ NumSpec = 0 /\ ExternalHits = {})

VARIABLES
    status, computed, output, spec, held,      \* of each request
    running, waiting, skipped,                 \* self.running, .waiting, .skipped_waiting
    phase, index, cur, demand, budget,         \* where schedule() is
    sched, drafts, victims, passed,            \* its local lists and dicts
    received, failed, faults,                  \* ended and failed KV loads
    inflight                                   \* batches executing, oldest first

reqVars == <<status, computed, output, spec, held>>
queueVars == <<running, waiting, skipped>>
loopVars == <<phase, index, cur, demand>>
batchVars == <<budget, sched, drafts, victims, passed>>
loadVars == <<received, failed, faults>>
vars == <<reqVars, queueVars, loopVars, batchVars, loadVars, inflight>>

Loading == "WAITING_FOR_REMOTE_KVS"
(* PREEMPTED is folded into WAITING: schedule() treats both alike.         *)
Statuses == {"NEW", "WAITING", "RUNNING", Loading, "FINISHED"}
Zero == [r \in Requests |-> 0]

-----------------------------------------------------------------------------
(* Tokens and blocks                                                       *)

NumTokens(r) == Prompt[r] + output[r]

Blocks(tokens) == (tokens + BlockSize - 1) \div BlockSize

(* The sum of f over the requests, as a count of units: <<request, n-th>>. *)
Units(f) == UNION {{r} \X (1..f[r]) : r \in Requests}

Total(f) == Cardinality(Units(f))

Free == NumBlocks - Total(held)

Threshed(n) == IF Threshold > 0 THEN Min({n, Threshold}) ELSE n

LastCachePosition(r) ==
    LET whole == NumTokens(r) - (NumTokens(r) % BlockSize)
    IN  IF Eagle THEN Max({whole - BlockSize, 0}) ELSE whole

Prefilling(r, from) == from < Max({Prompt[r], NumTokens(r) - 1})

(* A mistake for the runs to find: no chunk ends at the last position.     *)
SplitUnforced(r, n, from) ==
    IF Align /\ Prefilling(r, from) /\ from + n < LastCachePosition(r)
    THEN (n \div BlockSize) * BlockSize ELSE n

(* Another: the last tokens of a prefill are rounded down too.             *)
SplitLast(r, n, from) ==
    IF Align /\ Prefilling(r, from) THEN (n \div BlockSize) * BlockSize ELSE n

(* _mamba_block_aligned_split: n tokens of r from position "from".         *)
Split(r, n, from) ==
    LET last == LastCachePosition(r)
    IN  IF ~Align \/ ~Prefilling(r, from) THEN n
        ELSE IF from + n < last THEN (n \div BlockSize) * BlockSize
        ELSE IF from < last /\ last < from + n THEN last - from
        ELSE n

(* The blocks r holds once n tokens after the first "from" have slots.     *)
Needed(r, from, n, look) ==
    Max({held[r], Blocks(Min({from + n + look, MaxModelLen}))})

Fits(r, from, n, look) == Needed(r, from, n, look) - held[r] <= Free

Demand(r) ==
    Split(r, Min({Threshed(NumTokens(r) + spec[r] - computed[r]), budget,
                  MaxModelLen - 1 - computed[r]}), computed[r])

-----------------------------------------------------------------------------
(* Request queues: fcfs is a deque, priority a heap, kept here in order.   *)

Urgent(a, b) ==
    \/ Priority[a] < Priority[b]
    \/ Priority[a] = Priority[b] /\ a < b

Urgency == {p \in Requests \X Requests : Urgent(p[1], p[2])}

(* The members of S in the order R: each has i - 1 of them before it.      *)
Arranged(S, R) ==
    [i \in 1..Cardinality(S) |->
        CHOOSE x \in S : Cardinality({y \in S : <<y, x>> \in R}) = i - 1]

Ranked(S) == Arranged(S, Urgency)

Enqueue(q, r) == IF Policy = "fcfs" THEN Append(q, r) ELSE Ranked(ToSet(q) \cup {r})

Prepend(q, r) == IF Policy = "fcfs" THEN <<r>> \o q ELSE Ranked(ToSet(q) \cup {r})

(* prepend_requests: its order within the batch is the library's.          *)
Requeued(q, batch) ==
    IF Policy = "fcfs" THEN {batch \o q, Reverse(batch) \o q}
    ELSE {Ranked(ToSet(q) \cup ToSet(batch))}

(* Who is before whom in a queue.                                          *)
Line(q) ==
    {p \in ToSet(q) \X ToSet(q) : \E i, j \in DOMAIN q : i < j /\ p = <<q[i], q[j]>>}

(* A queue without the requests of S.                                      *)
Without(q, S) == Arranged(ToSet(q) \ S, Line(q))

(* _select_waiting_queue_for_scheduling and peek_request                   *)
FromSkipped ==
    /\ skipped # <<>>
    /\ Policy = "fcfs" \/ waiting = <<>> \/ Urgent(Head(skipped), Head(waiting))

NextWaiting == IF FromSkipped THEN Head(skipped) ELSE Head(waiting)

(* A mistake for the runs to find: not taken from the queue peeked at.     *)
PopWaitingFirst ==
    IF waiting = <<>> THEN skipped' = Tail(skipped) /\ UNCHANGED waiting
    ELSE waiting' = Tail(waiting) /\ UNCHANGED skipped

PopWaiting ==
    IF FromSkipped THEN skipped' = Tail(skipped) /\ UNCHANGED waiting
    ELSE waiting' = Tail(waiting) /\ UNCHANGED skipped

-----------------------------------------------------------------------------
Init ==
    /\ status = [r \in Requests |-> "NEW"]
    /\ computed = Zero /\ output = Zero /\ spec = Zero /\ held = Zero
    /\ running = <<>> /\ waiting = <<>> /\ skipped = <<>>
    /\ phase = "idle" /\ index = 1 /\ cur = 1 /\ demand = 0
    /\ budget = 0 /\ sched = Zero /\ drafts = Zero
    /\ victims = {} /\ passed = <<>>
    /\ received = {} /\ failed = {} /\ faults = 0
    /\ inflight = <<>>

(* A client's request, in order of arrival (Scheduler.add_request).        *)
Submit(r) ==
    /\ phase = "idle"
    /\ status[r] = "NEW" /\ \A q \in 1..(r - 1) : status[q] # "NEW"
    /\ status' = [status EXCEPT ![r] = "WAITING"]
    /\ waiting' = Enqueue(waiting, r)
    /\ UNCHANGED <<computed, output, spec, held, running, skipped, loopVars,
                   batchVars, loadVars, inflight>>

(* The engine calls schedule() when it has requests and room in flight.    *)
BeginStep ==
    /\ phase = "idle"
    /\ running \o waiting \o skipped # <<>>
    /\ Len(inflight) < Depth
    /\ phase' = "running" /\ index' = 1
    /\ budget' = MaxScheduled /\ sched' = Zero /\ drafts' = Zero
    /\ victims' = {} /\ passed' = <<>>
    /\ UNCHANGED <<reqVars, queueVars, cur, demand, loadVars, inflight>>

-----------------------------------------------------------------------------
(* First, the running requests                                             *)

RunningLeft == index <= Len(running) /\ budget > 0

PassRunning ==
    /\ phase = "running" /\ RunningLeft
    /\ Demand(running[index]) = 0
    /\ index' = index + 1
    /\ UNCHANGED <<reqVars, queueVars, phase, cur, demand, batchVars, loadVars,
                   inflight>>

PickRunning ==
    /\ phase = "running" /\ RunningLeft
    /\ Demand(running[index]) # 0
    /\ cur' = running[index] /\ demand' = Demand(running[index])
    /\ phase' = "allocate"
    /\ UNCHANGED <<reqVars, queueVars, index, batchVars, loadVars, inflight>>

CurFits == Fits(cur, computed[cur], demand, NumSpec)

ScheduleRunning ==
    /\ phase = "allocate" /\ CurFits
    /\ held' = [held EXCEPT ![cur] = Needed(cur, computed[cur], demand, NumSpec)]
    /\ sched' = [sched EXCEPT ![cur] = demand]
    /\ drafts' = [drafts EXCEPT ![cur] =
                     IF spec[cur] = 0 THEN 0
                     ELSE Max({0, Min({spec[cur],
                              demand + computed[cur] - NumTokens(cur)})})]
    /\ spec' = [spec EXCEPT ![cur] = 0]
    /\ budget' = budget - demand
    /\ index' = index + 1
    /\ phase' = "running"
    /\ UNCHANGED <<status, computed, output, queueVars, cur, demand, victims,
                   passed, loadVars, inflight>>

(* A mistake for the runs to find: the longest running request is evicted. *)
VictimFirst == Head(running)

Victim ==
    IF Policy = "fcfs" THEN Last(running)
    ELSE CHOOSE v \in ToSet(running) :
            \A r \in ToSet(running) \ {v} : Urgent(r, v)

(* A mistake for the runs to find: the budget stays spent.                 *)
RefundNothing(v) == 0

(* A victim that was already part of this batch: its tokens return.        *)
Refund(v) == sched[v]

(* No room: the victim gives its blocks back and starts over.              *)
PreemptRunning ==
    /\ phase = "allocate" /\ ~CurFits
    /\ LET v == Victim
       IN  /\ running' = RemoveAt(running, CHOOSE i \in DOMAIN running : running[i] = v)
           /\ budget' = budget + Refund(v)
           /\ sched' = [sched EXCEPT ![v] = 0]
           /\ drafts' = [drafts EXCEPT ![v] = 0]
           /\ index' = IF sched[v] > 0 THEN index - 1 ELSE index
           /\ status' = [status EXCEPT ![v] = "WAITING"]
           /\ computed' = [computed EXCEPT ![v] = 0]
           /\ held' = [held EXCEPT ![v] = 0]
           /\ spec' = [spec EXCEPT ![v] = 0]
           /\ waiting' = Prepend(waiting, v)
           /\ victims' = victims \cup {v}
           /\ phase' = IF v = cur THEN "finish" ELSE "allocate"
    /\ UNCHANGED <<output, skipped, cur, demand, passed, loadVars, inflight>>

EndRunning ==
    /\ phase = "running" /\ ~RunningLeft
    /\ phase' = IF victims = {} THEN "waiting" ELSE "finish"
    /\ UNCHANGED <<reqVars, queueVars, index, cur, demand, batchVars, loadVars,
                   inflight>>

-----------------------------------------------------------------------------
(* Next, the waiting requests                                              *)

WaitingLeft ==
    /\ waiting \o skipped # <<>>
    /\ budget > 0
    /\ Len(running) # MaxRunning

(* The next request loads: it is passed over in this step.                 *)
SkipLoading ==
    /\ phase = "waiting" /\ WaitingLeft
    /\ status[NextWaiting] = Loading /\ NextWaiting \notin received
    /\ PopWaiting
    /\ passed' = Prepend(passed, NextWaiting)
    /\ UNCHANGED <<reqVars, running, loopVars, budget, sched, drafts, victims,
                   loadVars, inflight>>

(* Its load has ended: it is a waiting request again, still the next one.  *)
(* After a failed load with nothing usable its blocks are given back, and  *)
(* the last token of a prompt found whole is computed again.               *)
Promote ==
    /\ phase = "waiting" /\ WaitingLeft
    /\ LET r == NextWaiting
       IN  /\ status[r] = Loading /\ r \in received
           /\ status' = [status EXCEPT ![r] = "WAITING"]
           /\ held' = [held EXCEPT ![r] =
                          IF r \in failed /\ computed[r] = 0 THEN 0 ELSE @]
           /\ computed' = [computed EXCEPT ![r] =
                              IF r \notin failed /\ @ = NumTokens(r) THEN @ - 1
                              ELSE @]
           /\ received' = received \ {r} /\ failed' = failed \ {r}
    /\ UNCHANGED <<output, spec, queueVars, loopVars, batchVars, faults, inflight>>

(* The connector cannot tell yet how much it has of the prompt.            *)
SkipUnknown ==
    /\ phase = "waiting" /\ WaitingLeft
    /\ status[NextWaiting] # Loading
    /\ computed[NextWaiting] = 0
    /\ ExternalHits # {} /\ faults < MaxFaults
    /\ faults' = faults + 1
    /\ PopWaiting
    /\ passed' = Prepend(passed, NextWaiting)
    /\ UNCHANGED <<reqVars, running, loopVars, budget, sched, drafts, victims,
                   received, failed, inflight>>

NoHit == [local |-> 0, external |-> 0, async |-> FALSE]

(* What get_computed_blocks and get_num_new_matched_tokens may answer: a   *)
(* prefix of whole blocks; at least one token is left to compute unless    *)
(* the connector loads in the background.                                  *)
Hits(r) ==
    IF computed[r] > 0 THEN {NoHit}
    ELSE {h \in [local : {BlockSize * n : n \in LocalHits},
                 external : {0} \cup {BlockSize * n : n \in ExternalHits},
                 async : AsyncLoads \cup {FALSE}] :
             /\ h.local < NumTokens(r)
             /\ h.async => h.external > 0
             /\ h.external > 0 => h.async \in AsyncLoads
             /\ \/ h.local + h.external < NumTokens(r)
                \/ WholeHits /\ h.async /\ h.local + h.external = NumTokens(r)}

(* num_computed_tokens, num_new_tokens and lookahead of the next request.  *)
Known(h) ==
    IF computed[NextWaiting] > 0 THEN computed[NextWaiting]
    ELSE h.local + h.external

Wanted(h) == Threshed(NumTokens(NextWaiting) - Known(h))

(* A mistake for the runs to find: what is left of the budget is ignored.  *)
NewTokensUnbudgeted(h) ==
    IF h.async THEN 0 ELSE Split(NextWaiting, Wanted(h), Known(h))

NewTokens(h) ==
    IF h.async THEN 0
    ELSE Split(NextWaiting, Min({Wanted(h), budget}), Known(h))

Lookahead == IF computed[NextWaiting] = 0 THEN 0 ELSE NumSpec

(* A mistake for the runs to find, line 362 before the patch: a load is    *)
(* split like a chunk, and its 0 new tokens end the pass.                  *)
AdmissibleUnpatched(h) ==
    /\ NewTokens(h) # 0 /\ (Chunked \/ Wanted(h) <= budget)
    /\ Fits(NextWaiting, Known(h), NewTokens(h), Lookahead)
    /\ ReserveFull =>
          Blocks(Min({NumTokens(NextWaiting), MaxModelLen})) - held[NextWaiting] <= Free

(* Another: the answer of allocate_slots is not looked at.                 *)
AdmissibleUnfit(h) ==
    /\ h.async \/ (NewTokens(h) # 0 /\ (Chunked \/ Wanted(h) <= budget))
    /\ ReserveFull =>
          Blocks(Min({NumTokens(NextWaiting), MaxModelLen})) - held[NextWaiting] <= Free

Admissible(h) ==
    /\ h.async \/ (NewTokens(h) # 0 /\ (Chunked \/ Wanted(h) <= budget))
    /\ Fits(NextWaiting, Known(h), NewTokens(h), Lookahead)
    /\ ReserveFull =>
          Blocks(Min({NumTokens(NextWaiting), MaxModelLen})) - held[NextWaiting] <= Free

Visit(h) ==
    /\ phase = "waiting" /\ WaitingLeft
    /\ status[NextWaiting] # Loading
    /\ h \in Hits(NextWaiting)

(* The next request cannot be admitted: nobody behind it is looked at.     *)
GiveUp(h) ==
    /\ Visit(h) /\ ~Admissible(h)
    /\ phase' = "finish"
    /\ UNCHANGED <<reqVars, queueVars, index, cur, demand, batchVars, loadVars,
                   inflight>>

(* Blocks for the prefix, which is loaded while the request waits.         *)
StartLoad(h) ==
    /\ Visit(h) /\ Admissible(h) /\ h.async
    /\ LET r == NextWaiting
       IN  /\ held' = [held EXCEPT ![r] = Needed(r, Known(h), 0, Lookahead)]
           /\ status' = [status EXCEPT ![r] = Loading]
           /\ computed' = [computed EXCEPT ![r] = Known(h)]
           /\ passed' = Prepend(passed, r)
    /\ PopWaiting
    /\ UNCHANGED <<output, spec, running, loopVars, budget, sched, drafts,
                   victims, loadVars, inflight>>

Admit(h) ==
    /\ Visit(h) /\ Admissible(h) /\ ~h.async
    /\ LET r == NextWaiting
           n == NewTokens(h)
       IN  /\ held' = [held EXCEPT ![r] = Needed(r, Known(h), n, Lookahead)]
           /\ status' = [status EXCEPT ![r] = "RUNNING"]
           /\ computed' = [computed EXCEPT ![r] = Known(h)]
           /\ sched' = [sched EXCEPT ![r] = n]
           /\ budget' = budget - n
           /\ running' = Append(running, r)
    /\ PopWaiting
    /\ UNCHANGED <<output, spec, loopVars, drafts, victims, passed, loadVars,
                   inflight>>

EndWaiting ==
    /\ phase = "waiting" /\ ~WaitingLeft
    /\ phase' = "finish"
    /\ UNCHANGED <<reqVars, queueVars, index, cur, demand, batchVars, loadVars,
                   inflight>>

(* The batch goes to the workers, its tokens counted as computed at once   *)
(* (_update_after_schedule); requests that end up at their last token get  *)
(* one sampled.                                                            *)
Finish ==
    /\ phase = "finish"
    /\ skipped' \in Requeued(skipped, passed)
    /\ computed' = [r \in Requests |-> computed[r] + sched[r]]
    /\ inflight' = Append(inflight,
          [drafts |-> drafts,
           sampled |-> {r \in Requests : /\ sched[r] > 0
                                         /\ computed[r] + sched[r] >= NumTokens(r)}])
    /\ phase' = "idle"
    /\ index' = 1 /\ cur' = 1 /\ demand' = 0
    /\ budget' = 0 /\ sched' = Zero /\ drafts' = Zero
    /\ victims' = {} /\ passed' = <<>>
    /\ UNCHANGED <<status, output, spec, held, running, waiting, loadVars>>

-----------------------------------------------------------------------------
(* Between two calls                                                       *)

(* Tokens of r in the oldest batch, when the first n of its drafts are     *)
(* accepted: those past the last one it may generate are dropped.          *)
Gain(r, n) ==
    IF r \in Head(inflight).sampled THEN Min({1 + n, MaxTokens[r] - output[r]})
    ELSE 0

(* update_from_output for the oldest batch: a[r] drafts of r are accepted. *)
Update(a) ==
    LET b == Head(inflight)
        done == {r \in b.sampled : output[r] + Gain(r, a[r]) = MaxTokens[r]}
    IN  /\ phase = "idle" /\ inflight # <<>>
        /\ \A r \in Requests : a[r] <= b.drafts[r]
        /\ output' = [r \in Requests |-> output[r] + Gain(r, a[r])]
        /\ computed' = [r \in Requests |->
                           IF r \in done \/ computed[r] = 0 THEN 0
                           ELSE computed[r] - (b.drafts[r] - a[r])]
        /\ spec' = [r \in Requests |->
                       IF r \in b.sampled \ done THEN NumSpec ELSE spec[r]]
        /\ status' = [r \in Requests |->
                         IF r \in done THEN "FINISHED" ELSE status[r]]
        /\ held' = [r \in Requests |-> IF r \in done THEN 0 ELSE held[r]]
        /\ running' = Without(running, done) /\ waiting' = Without(waiting, done)
        /\ skipped' = Without(skipped, done)
        /\ inflight' = Tail(inflight)
        /\ UNCHANGED <<loopVars, batchVars, loadVars>>

(* The workers report the end of a load.                                   *)
LoadDone(r) ==
    /\ phase = "idle"
    /\ status[r] = Loading /\ r \notin received
    /\ received' = received \cup {r}
    /\ UNCHANGED <<status, computed, output, spec, held, queueVars, loopVars,
                   batchVars, failed, faults, inflight>>

(* ... which failed from its n-th block on.                                *)
LoadFails(r, n) ==
    /\ phase = "idle" /\ faults < MaxFaults
    /\ status[r] = Loading /\ r \notin received
    /\ n * BlockSize < computed[r]
    /\ computed' = [computed EXCEPT ![r] = n * BlockSize]
    /\ received' = received \cup {r} /\ failed' = failed \cup {r}
    /\ faults' = faults + 1
    /\ UNCHANGED <<status, output, spec, held, queueVars, loopVars, batchVars,
                   inflight>>

AllHits ==
    [local : {BlockSize * n : n \in LocalHits},
     external : {0} \cup {BlockSize * n : n \in ExternalHits},
     async : BOOLEAN]

Schedule ==
    \/ BeginStep
    \/ PassRunning \/ PickRunning \/ ScheduleRunning \/ PreemptRunning \/ EndRunning
    \/ SkipLoading \/ Promote \/ SkipUnknown
    \/ \E h \in AllHits : GiveUp(h) \/ StartLoad(h) \/ Admit(h)
    \/ EndWaiting \/ Finish

Updates == \E a \in [Requests -> 0..NumSpec] : Update(a)

LoadEnds(r) == LoadDone(r) \/ \E n \in 0..NumBlocks : LoadFails(r, n)

Next == Schedule \/ Updates \/ \E r \in Requests : Submit(r) \/ LoadEnds(r)

Spec == Init /\ [][Next]_vars

(* The engine core loop keeps calling schedule() and collecting batches,   *)
(* and the connector ends every load, well or badly.                       *)
Fairness ==
    /\ WF_vars(Schedule) /\ WF_vars(Updates)
    /\ \A r \in Requests : SF_vars(LoadEnds(r))

FairSpec == Spec /\ Fairness

-----------------------------------------------------------------------------
(* Properties                                                              *)

(* Types of the state, with the ranges the counters keep to.               *)
TypeOK ==
    /\ status \in [Requests -> Statuses]
    /\ \A r \in Requests : /\ output[r] \in 0..MaxTokens[r]
                           /\ computed[r] \in 0..MaxModelLen
                           /\ spec[r] \in 0..NumSpec
                           /\ held[r] \in 0..NumBlocks
                           /\ sched[r] \in 0..MaxScheduled
                           /\ drafts[r] \in 0..NumSpec
    /\ {running, waiting, skipped, passed} \subseteq Seq(Requests)
    /\ phase \in {"idle", "running", "allocate", "waiting", "finish"}
    /\ index \in 1..(Cardinality(Requests) + 1)
    /\ cur \in Requests /\ demand \in 0..MaxScheduled /\ budget \in 0..MaxScheduled
    /\ victims \subseteq Requests
    /\ failed \subseteq received /\ received \subseteq Requests
    /\ faults \in 0..MaxFaults
    /\ Len(inflight) <= Depth

Unfinished == {r \in Requests : status[r] \notin {"NEW", "FINISHED"}}

(* No request is lost or scheduled twice: whatever is preempted, skipped,  *)
(* loaded or finished in whichever order, each unfinished request is in    *)
(* exactly one queue, the one its status says.                             *)
OneQueueEach ==
    LET all == running \o waiting \o skipped \o passed
    IN  /\ IsInjective(all) /\ ToSet(all) = Unfinished
        /\ ToSet(running) = {r \in Requests : status[r] = "RUNNING"}
        /\ \A r \in ToSet(waiting) : status[r] = "WAITING"
        /\ received \subseteq {r \in Requests : status[r] = Loading}

(* Blocks are neither lost nor lent twice: only requests that run, load or *)
(* have loaded hold any, and what is computed has a block to be in.        *)
BlocksHeld ==
    /\ Free >= 0
    /\ \A r \in Requests :
          /\ held[r] > 0 => \/ status[r] \in {"RUNNING", Loading}
                            \/ status[r] = "WAITING" /\ computed[r] > 0
          /\ status[r] \in {"RUNNING", "WAITING", Loading} =>
                Blocks(Min({computed[r] + sched[r], MaxModelLen})) <= held[r]

(* The assertions of schedule(), lines 342 and 500-511: there is work in   *)
(* every request it visits, tokens and budget add up to the limit, and     *)
(* nothing in the batch has been preempted.                                *)
Assertions ==
    /\ \A r \in Requests : status[r] = "WAITING" => computed[r] < NumTokens(r)
    /\ phase # "idle" =>
          budget + Total(sched) = MaxScheduled
    /\ Len(running) <= MaxRunning
    /\ {r \in Requests : sched[r] > 0} \subseteq ToSet(running) \ victims

(* With align mode the recurrent state exists only where a chunk ended: as *)
(* long as a prefill has its last cacheable position before it, it stands  *)
(* at the end of a block, and no chunk jumps over that position.           *)
StatesAligned ==
    (Align /\ ~WholeHits) => \A r \in Requests :
        Prefilling(r, computed[r]) /\ computed[r] < LastCachePosition(r) =>
            /\ computed[r] % BlockSize = 0
            /\ computed[r] + sched[r] <= LastCachePosition(r)

(* First come, first served: without a connector, running and waiting      *)
(* requests stay in the order of arrival, through any preemptions.         *)
InArrivalOrder ==
    (Policy = "fcfs" /\ ExternalHits = {}) =>
        LET line == running \o waiting
        IN  \A i, j \in DOMAIN line : i < j => line[i] < line[j]

(* What vLLM makes sure of before it starts: the cache has room for one    *)
(* request of the model's length, and so has a batch that has no chunks.   *)
RoomForOne ==
    /\ Blocks(MaxModelLen) <= NumBlocks
    /\ Chunked \/ MaxModelLen <= MaxScheduled

Plain == Policy = "fcfs" /\ ExternalHits = {} /\ ~WholeHits /\ RoomForOne

Oldest(r) == r \in Unfinished /\ \A q \in Unfinished : r <= q

(* ... and none starves: whatever is preempted or admitted on the way, no  *)
(* call of schedule() ends without tokens for the oldest request, unless a *)
(* batch in flight owes it one.                                            *)
OldestServed ==
    Plain /\ phase = "finish" =>
        \A r \in Requests : Oldest(r) =>
            sched[r] > 0 \/ \E i \in DOMAIN inflight : r \in inflight[i].sampled

(* What the oldest request has got it keeps: no step takes back a token of *)
(* its output, and what is computed of it shrinks only by drafts that are  *)
(* rejected, in a step that adds to its output.                            *)
OldestKept ==
    [][Plain => \A r \in Requests : Oldest(r) =>
          \/ output'[r] > output[r]
          \/ output'[r] = output[r] /\ computed'[r] >= computed[r]]_vars

(* Every request that arrives is finished.                                 *)
EveryRequestFinishes ==
    \A r \in Requests : status[r] = "WAITING" ~> status[r] = "FINISHED"

=============================================================================
