--------------------------- MODULE SchedulerProofs ---------------------------
(***************************************************************************)
(* Proofs of Scheduler: the state invariants the runs check hold for every *)
(* number of requests, every size of the KV cache and of the batch, both   *)
(* policies, with and without drafts, align mode and a connector.          *)
(*                                                                         *)
(* IInv is the inductive invariant.  What it adds to the properties is     *)
(* what connects two steps of the loop: which batch owes a request its     *)
(* next token (FlightInv), that nothing from the loop's index on has been  *)
(* scheduled yet (PhaseInv), and what was decided about the request that   *)
(* is being allocated while others are evicted for it (Allocating).        *)
(* ServedInv adds what the oldest request needs under first come, first    *)
(* served: OldestFirst and OldestNeverLoses say that it does not starve.   *)
(***************************************************************************)
EXTENDS SchedulerFacts

(***************************************************************************)
(* The invariant                                                           *)
(***************************************************************************)
Batches == [drafts : [Requests -> 0..NumSpec], sampled : SUBSET Requests]

\* TypeOK, but for what follows from the sums, with the domains of all functions.
TypeInv ==
    /\ status \in [Requests -> Statuses]
    /\ computed \in [Requests -> 0..MaxModelLen]
    /\ output \in [Requests -> Nat] /\ \A r \in Requests : output[r] <= MaxTokens[r]
    /\ spec \in [Requests -> 0..NumSpec] /\ drafts \in [Requests -> 0..NumSpec]
    /\ held \in [Requests -> Nat] /\ sched \in [Requests -> Nat]
    /\ running \in Seq(Requests) /\ waiting \in Seq(Requests)
    /\ skipped \in Seq(Requests) /\ passed \in Seq(Requests)
    /\ phase \in {"idle", "running", "allocate", "waiting", "finish"}
    /\ index \in 1..(Cardinality(Requests) + 1) /\ cur \in Requests
    /\ demand \in 0..MaxScheduled /\ budget \in 0..MaxScheduled
    /\ victims \subseteq Requests /\ received \subseteq Requests /\ failed \subseteq received
    /\ faults \in 0..MaxFaults
    /\ inflight \in Seq(Batches) /\ Len(inflight) <= Depth

\* Who is in which queue.
Of(states) == {r \in Requests : status[r] \in states}

QueueInv ==
    /\ IsInjective(running) /\ IsInjective(waiting)
    /\ IsInjective(skipped) /\ IsInjective(passed)
    /\ ToSet(running) = Of({"RUNNING"})
    /\ ToSet(waiting) \subseteq Of({"WAITING"})
    /\ ToSet(waiting) \union ToSet(skipped) \union ToSet(passed) = Of({"WAITING", Loading})
    /\ ToSet(waiting) \intersect ToSet(skipped) = {}
    /\ ToSet(waiting) \intersect ToSet(passed) = {}
    /\ ToSet(skipped) \intersect ToSet(passed) = {}
    /\ phase \in {"idle", "running", "allocate"} => passed = <<>>

\* r awaits its next token from no batch in flight.
Here(r) == \A i \in DOMAIN inflight : r \notin inflight[i].sampled

\* How far a request is.
CountOf(r) ==
    /\ status[r] \in {"NEW", "FINISHED"} => computed[r] = 0
    /\ status[r] # "FINISHED" => output[r] < MaxTokens[r]
    /\ status[r] # "RUNNING" => sched[r] = 0
    /\ status[r] = "WAITING" => computed[r] < NumTokens(r)
    /\ status[r] = Loading => computed[r] <= NumTokens(r)
    /\ status[r] = "RUNNING" /\ Here(r) => computed[r] < NumTokens(r)

\* What it has in the batch that is being made.
ChunkOf(r) ==
    /\ sched[r] = 0 => drafts[r] = 0
    /\ sched[r] > 0 =>
          /\ Here(r)
          /\ computed[r] + sched[r] <= NumTokens(r) + drafts[r]
          /\ drafts[r] > 0 => computed[r] + sched[r] = NumTokens(r) + drafts[r]
          /\ computed[r] + sched[r] <= MaxModelLen

CountInv == \A r \in Requests : CountOf(r) /\ ChunkOf(r)

\* A request that gets a token from the i-th batch still runs and is computed up to its
\* drafts, or has been preempted since: then the batch returns before it can run again.
SampledBy(i, r) ==
    \/ /\ status[r] = "RUNNING" /\ sched[r] = 0
       /\ computed[r] = NumTokens(r) + inflight[i].drafts[r]
    \/ /\ status[r] = "WAITING" /\ computed[r] = 0 /\ i = 1
       /\ IF phase = "idle" THEN Len(inflight) = 2 ELSE r \in victims

FlightInv ==
    /\ phase # "idle" => Len(inflight) < Depth
    /\ \A i \in DOMAIN inflight :
          /\ \A r \in Requests : inflight[i].drafts[r] > 0 => r \in inflight[i].sampled
          /\ \A r \in inflight[i].sampled : SampledBy(i, r)
          /\ \A j \in DOMAIN inflight :
                i # j => inflight[i].sampled \intersect inflight[j].sampled = {}

\* Blocks: in all, and of each request.
BlocksOf(r) ==
    /\ status[r] \in {"NEW", "FINISHED"} => held[r] = 0
    /\ status[r] = "WAITING" /\ computed[r] = 0 => held[r] = 0
    /\ Blocks(Min({computed[r] + sched[r], MaxModelLen})) <= held[r]

BlockInv == Total(held) <= NumBlocks /\ \A r \in Requests : BlocksOf(r)

\* A load ends at a block, before the last token unless a whole prompt may be loaded.
LoadInv ==
    /\ received \subseteq Of({Loading})
    /\ \A r \in Of({Loading}) :
          /\ Depth = 1
          /\ computed[r] % BlockSize = 0
          /\ ~WholeHits \/ r \in failed => computed[r] < NumTokens(r)
          /\ r \notin failed => computed[r] > 0

\* A chunk of n tokens leaves the recurrent state where it can be cached.
ChunkAligned(r, n) ==
    Align /\ ~WholeHits /\ Prefilling(r, computed[r]) /\ computed[r] < LastCachePosition(r) =>
        /\ computed[r] % BlockSize = 0
        /\ (computed[r] + n) % BlockSize = 0
        /\ computed[r] + n <= LastCachePosition(r)

AlignInv == \A r \in Requests : ChunkAligned(r, sched[r])

\* The request that is being allocated: what was decided for it still fits the batch, and
\* nothing from its place on has been scheduled.
Allocating ==
    /\ demand \in 1..budget
    /\ computed[cur] + demand < MaxModelLen
    /\ computed[cur] + demand <= NumTokens(cur) + spec[cur]
    /\ ChunkAligned(cur, demand)
    /\ index <= Cardinality(Requests)
    /\ \E p \in DOMAIN running :
          /\ p <= index /\ running[p] = cur
          /\ \A k \in DOMAIN running : k >= p => sched[running[k]] = 0

PhaseInv ==
    /\ phase = "idle" => sched = Zero /\ victims = {}
    /\ phase # "idle" => budget + Total(sched) = MaxScheduled
    /\ victims \subseteq Of({"WAITING"})
    /\ phase = "waiting" => victims = {}
    /\ Len(running) <= MaxRunning
    /\ phase = "running" =>
          \A k \in DOMAIN running : k >= index => sched[running[k]] = 0
    /\ phase = "allocate" => Allocating

IInv ==
    /\ TypeInv /\ QueueInv /\ CountInv /\ FlightInv
    /\ BlockInv /\ LoadInv /\ AlignInv /\ PhaseInv

\* First come, first served, without a connector.
OrderInv ==
    Policy = "fcfs" /\ ExternalHits = {} =>
        /\ skipped = <<>> /\ passed = <<>>
        /\ \A r, q \in Requests : r < q /\ status[r] = "NEW" => status[q] = "NEW"
        /\ InArrivalOrder

(***************************************************************************)
(* What the invariant says of one request, and of the operators            *)
(***************************************************************************)
LEMMA Constants ==
    /\ NumSpec \in Nat /\ MaxScheduled \in Nat \ {0} /\ MaxRunning \in Nat \ {0}
    /\ Threshold \in Nat /\ MaxFaults \in Nat /\ Depth \in {1, 2}
    /\ Depth = 2 => NumSpec = 0 /\ ExternalHits = {}
    /\ LocalHits \subseteq Nat /\ ExternalHits \subseteq Nat /\ Policy \in {"fcfs", "priority"}
    /\ WholeHits => BlockSize > 1
BY SchedulerAssumption, ConfigAssumption

LEMMA Ranges ==
    ASSUME TypeInv, NEW r \in Requests
    PROVE  /\ Prompt[r] \in Nat \ {0} /\ MaxTokens[r] \in Nat \ {0}
           /\ output[r] \in Nat /\ output[r] <= MaxTokens[r]
           /\ NumTokens(r) = Prompt[r] + output[r]
           /\ NumTokens(r) \in Nat \ {0}
           /\ output[r] < MaxTokens[r] => NumTokens(r) < MaxModelLen
           /\ computed[r] \in 0..MaxModelLen /\ computed[r] \in Nat
           /\ spec[r] \in 0..NumSpec /\ spec[r] \in Nat
           /\ drafts[r] \in 0..NumSpec /\ drafts[r] \in Nat
           /\ held[r] \in Nat /\ sched[r] \in Nat /\ status[r] \in Statuses
           /\ r \in Nat
<1>1. Prompt[r] \in Nat \ {0} /\ MaxTokens[r] \in Nat \ {0} /\ Prompt[r] + MaxTokens[r] <= MaxModelLen
    BY SchedulerAssumption
<1>2. r \in Nat
    BY FiniteRequests
<1>3. output[r] \in Nat /\ output[r] <= MaxTokens[r]
    BY DEF TypeInv
<1>4. /\ computed[r] \in 0..MaxModelLen /\ spec[r] \in 0..NumSpec /\ drafts[r] \in 0..NumSpec
      /\ held[r] \in Nat /\ sched[r] \in Nat /\ status[r] \in Statuses
    BY DEF TypeInv
<1>5. computed[r] \in Nat /\ spec[r] \in Nat /\ drafts[r] \in Nat
    BY <1>4, BlockSizes, Constants
<1> QED
    BY <1>1, <1>2, <1>3, <1>4, <1>5, BlockSizes DEF NumTokens

LEMMA Counters ==
    ASSUME TypeInv
    PROVE  /\ index \in 1..(Cardinality(Requests) + 1) /\ budget \in 0..MaxScheduled
           /\ faults \in 0..MaxFaults /\ inflight \in Seq(Batches)
BY DEF TypeInv

LEMMA Flights ==
    ASSUME TypeInv, NEW i \in DOMAIN inflight
    PROVE  inflight[i] \in Batches
<1>1. inflight \in Seq(Batches)
    BY Counters
<1> HIDE DEF Batches
<1> QED
    BY <1>1

LEMMA Queues ==
    ASSUME TypeInv, QueueInv
    PROVE  Queue(running) /\ Queue(waiting) /\ Queue(skipped) /\ Queue(passed)
BY DEF TypeInv, QueueInv, Queue

\* A request that a batch in flight owes a token, while schedule() runs.
LEMMA Awaiting ==
    ASSUME IInv, phase # "idle", NEW r \in Requests, ~Here(r)
    PROVE  /\ Depth = 2 /\ NumSpec = 0
           /\ \/ status[r] = "RUNNING" /\ computed[r] = NumTokens(r) /\ sched[r] = 0
              \/ status[r] = "WAITING" /\ r \in victims
<1>1. PICK i \in DOMAIN inflight : r \in inflight[i].sampled
    BY DEF Here
<1>2. inflight \in Seq(Batches) /\ Len(inflight) \in Nat /\ DOMAIN inflight = 1..Len(inflight)
    BY DEF IInv, TypeInv
<1>3. Len(inflight) < Depth /\ SampledBy(i, r)
    BY <1>1 DEF IInv, FlightInv
<1>4. Depth = 2 /\ NumSpec = 0
    BY <1>1, <1>2, <1>3, Constants
<1>5. inflight[i] \in Batches
    BY <1>1, <1>2
<1>6. inflight[i].drafts[r] = 0
    BY <1>4, <1>5 DEF Batches
<1>7. NumTokens(r) + 0 = NumTokens(r)
    BY Ranges DEF IInv
<1> QED
    BY <1>3, <1>4, <1>6, <1>7 DEF SampledBy

LEMMA RunningCount ==
    ASSUME IInv, phase # "idle", NEW r \in Requests, status[r] = "RUNNING"
    PROVE  /\ computed[r] <= NumTokens(r) /\ NumTokens(r) < MaxModelLen
           /\ computed[r] < NumTokens(r) + spec[r] => Here(r)
<1>1. CountOf(r) /\ TypeInv
    BY DEF IInv, CountInv
<1>2. NumTokens(r) \in Nat /\ NumTokens(r) < MaxModelLen
    BY <1>1, Ranges DEF CountOf
<1>3. CASE Here(r)
    BY <1>1, <1>2, <1>3, Ranges DEF CountOf
<1>4. CASE ~Here(r)
    <2>1. computed[r] = NumTokens(r) /\ NumSpec = 0
        BY <1>4, Awaiting
    <2>2. spec[r] = 0
        BY <2>1, <1>1, Ranges
    <2> QED
        BY <2>1, <2>2, <1>2
<1> QED
    BY <1>3, <1>4

LEMMA Threshes == ASSUME NEW n \in Nat PROVE Threshed(n) \in 0..n
<1>1. CASE Threshold > 0
    BY <1>1, Constants, MinMax DEF Threshed
<1>2. CASE ~(Threshold > 0)
    BY <1>2, Constants DEF Threshed
<1> QED
    BY <1>1, <1>2

\* What a running request asks for fits the budget, its tokens and the model.
LEMMA DemandFits ==
    ASSUME IInv, phase = "running", RunningLeft
    PROVE  LET r == running[index]
           IN  /\ r \in Requests /\ status[r] = "RUNNING" /\ index \in DOMAIN running
               /\ sched[r] = 0 /\ Demand(r) \in 0..budget
               /\ computed[r] + Demand(r) < MaxModelLen
               /\ computed[r] + Demand(r) <= NumTokens(r) + spec[r]
               /\ ChunkAligned(r, Demand(r))
<1> DEFINE r == running[index]
<1>1. TypeInv /\ QueueInv /\ PhaseInv /\ AlignInv
    BY DEF IInv
<1>2. Queue(running) /\ DOMAIN running = 1..Len(running) /\ Len(running) \in Nat
    BY <1>1, Queues, QueueLength
<1>3. index \in DOMAIN running /\ budget > 0
    BY <1>1, <1>2, FiniteRequests DEF TypeInv, RunningLeft
<1>4. r \in ToSet(running)
    BY <1>3 DEF ToSet
<1>5. r \in Requests /\ status[r] = "RUNNING"
    BY <1>1, <1>4 DEF QueueInv, Of
<1>6. sched[r] = 0
    BY <1>1, <1>3, <1>2 DEF PhaseInv
<1> HIDE DEF r
<1>7. /\ computed[r] <= NumTokens(r) /\ NumTokens(r) < MaxModelLen
      /\ computed[r] \in Nat /\ NumTokens(r) \in Nat /\ spec[r] \in Nat
    BY <1>1, <1>5, RunningCount, Ranges
<1>8. budget \in Nat /\ MaxModelLen \in Nat
    BY <1>1, BlockSizes, Constants DEF TypeInv
<1> DEFINE a == Threshed(NumTokens(r) + spec[r] - computed[r])
           c == MaxModelLen - 1 - computed[r]
           n == Min({a, budget, c})
<1>9. a \in 0..(NumTokens(r) + spec[r] - computed[r])
    <2>1. NumTokens(r) + spec[r] - computed[r] \in Nat
        BY <1>7
    <2> QED
        BY <2>1, Threshes
<1>10. c \in Nat
    BY <1>7, <1>8
<1>11. Demand(r) = Split(r, n, computed[r])
    BY DEF Demand
<1> HIDE DEF a, c
<1>12. a \in Nat
    BY <1>7, <1>9
<1>13. n \in Nat /\ n <= a /\ n <= budget /\ n <= c
    BY <1>8, <1>10, <1>12, MinOfThree
<1> HIDE DEF n
<1>14. Demand(r) \in 0..n
    BY <1>7, <1>11, <1>13, SplitChunk
<1>15. Demand(r) \in 0..budget
    BY <1>13, <1>14, <1>8
<1>16. computed[r] + Demand(r) < MaxModelLen
    BY <1>7, <1>8, <1>10, <1>13, <1>14 DEF c
<1>17. computed[r] + Demand(r) <= NumTokens(r) + spec[r]
    BY <1>7, <1>9, <1>12, <1>13, <1>14
<1>18. ChunkAligned(r, Demand(r))
    <2>1. ChunkAligned(r, sched[r])
        BY <1>1, <1>5 DEF AlignInv
    <2>2. SUFFICES ASSUME Align, ~WholeHits, Prefilling(r, computed[r]),
                          computed[r] < LastCachePosition(r)
                   PROVE  /\ computed[r] % BlockSize = 0
                          /\ (computed[r] + Demand(r)) % BlockSize = 0
                          /\ computed[r] + Demand(r) <= LastCachePosition(r)
        BY DEF ChunkAligned
    <2>3. computed[r] % BlockSize = 0
        BY <2>1, <2>2 DEF ChunkAligned
    <2>4. /\ (computed[r] + Split(r, n, computed[r])) % BlockSize = 0
          /\ computed[r] + Split(r, n, computed[r]) <= LastCachePosition(r)
        BY <1>7, <1>13, <2>2, <2>3, SplitChunk
    <2> QED
        BY <1>11, <2>3, <2>4
<1> QED
    BY <1>3, <1>5, <1>6, <1>15, <1>16, <1>17, <1>18 DEF r

\* The victim of a preemption is a running request, whose place is found.
LEMMA VictimRuns ==
    ASSUME TypeInv, QueueInv, running # <<>>
    PROVE  LET place == CHOOSE i \in DOMAIN running : running[i] = Victim
           IN  /\ place \in DOMAIN running /\ running[place] = Victim
               /\ Victim \in ToSet(running)
               /\ Policy = "fcfs" => place = Len(running)
<1>1. Queue(running) /\ DOMAIN running = 1..Len(running) /\ Len(running) \in Nat
    BY Queues, QueueLength
<1>2. Len(running) >= 1
    BY <1>1 DEF Queue
<1>3. CASE Policy = "fcfs"
    <2>1. Victim = running[Len(running)]
        BY <1>3 DEF Victim, Last
    <2>2. Len(running) \in DOMAIN running /\ Victim \in ToSet(running)
        BY <1>1, <1>2, <2>1 DEF ToSet
    <2>3. \A i \in DOMAIN running : running[i] = Victim => i = Len(running)
        BY <1>1, <2>1, <2>2 DEF Queue, IsInjective
    <2> QED
        BY <2>1, <2>2, <2>3
<1>4. CASE Policy # "fcfs"
    <2> DEFINE S == ToSet(running)
               s == Ranked(S)
               last == s[Len(s)]
    <2>1. S \subseteq Requests /\ IsFiniteSet(S) /\ Cardinality(S) = Len(running)
        BY <1>1, QueueLength
    <2> HIDE DEF S
    <2>2. /\ ToSet(s) = S
          /\ \A i, j \in DOMAIN s : i < j => <<s[i], s[j]>> \in Urgency
        BY <2>1, UrgencyOrders, ArrangedInOrder DEF Ranked
    <2>3. Queue(s) /\ DOMAIN s = 1..Len(s) /\ Len(s) = Len(running)
        <3>1. Queue(s) /\ ToSet(s) = S
            BY <2>1, RankedQueue
        <3> HIDE DEF s
        <3> QED
            BY <2>1, <3>1, QueueLength
    <2> HIDE DEF s
    <2>4. last \in S
        BY <2>2, <2>3, <1>1, <1>2 DEF ToSet
    <2>5. \A r \in S \ {last} : Urgent(r, last)
        <3> SUFFICES ASSUME NEW r \in S \ {last} PROVE Urgent(r, last)
            OBVIOUS
        <3>1. PICK i \in DOMAIN s : s[i] = r
            BY <2>2 DEF ToSet
        <3>2. Len(s) \in DOMAIN s /\ i < Len(s)
            BY <3>1, <2>3, <1>1, <1>2
        <3>3. <<r, last>> \in Urgency
            BY <3>1, <3>2, <2>2
        <3> QED
            BY <3>3 DEF Urgency
    <2>6. Victim = CHOOSE v \in S : \A r \in S \ {v} : Urgent(r, v)
        BY <1>4 DEF Victim, S
    <2>7. Victim \in S
        BY <2>4, <2>5, <2>6
    <2>8. \E i \in DOMAIN running : running[i] = Victim
        BY <2>7 DEF S, ToSet
    <2> QED
        BY <2>7, <2>8, <1>4 DEF S
<1> QED
    BY <1>3, <1>4

\* The next waiting request is in one of the two queues, and is taken from it.
LEMMA NextOne ==
    ASSUME IInv, phase = "waiting", WaitingLeft
    PROVE  /\ NextWaiting \in Requests
           /\ NextWaiting \in ToSet(waiting) \union ToSet(skipped)
           /\ status[NextWaiting] \in {"WAITING", Loading}
           /\ sched[NextWaiting] = 0 /\ drafts[NextWaiting] = 0 /\ Here(NextWaiting)
           /\ ~FromSkipped => waiting # <<>>
           /\ PopWaiting =>
                /\ Queue(waiting)' /\ Queue(skipped)'
                /\ ToSet(waiting)' = ToSet(waiting) \ {NextWaiting}
                /\ ToSet(skipped)' = ToSet(skipped) \ {NextWaiting}
<1>1. TypeInv /\ QueueInv /\ CountInv /\ PhaseInv
    BY DEF IInv
<1>2. Queue(waiting) /\ Queue(skipped)
    BY <1>1, Queues
<1>3. skipped # <<>> \/ waiting # <<>>
    BY <1>2 DEF WaitingLeft, Queue
<1>4. ~FromSkipped => waiting # <<>>
    BY <1>3, Constants DEF FromSkipped
<1>5. ToSet(waiting) \intersect ToSet(skipped) = {}
    BY <1>1 DEF QueueInv
<1>6. NextWaiting \in ToSet(waiting) \union ToSet(skipped)
    BY <1>2, <1>4, TailQueue DEF NextWaiting, FromSkipped
<1>7. NextWaiting \in Requests /\ status[NextWaiting] \in {"WAITING", Loading}
    BY <1>1, <1>6 DEF QueueInv, Of
<1>8. sched[NextWaiting] = 0 /\ drafts[NextWaiting] = 0
    <2>1. CountOf(NextWaiting) /\ ChunkOf(NextWaiting)
        BY <1>1, <1>7 DEF CountInv
    <2> QED
        BY <2>1, <1>7 DEF CountOf, ChunkOf, Loading
<1>9. Here(NextWaiting)
    <2>1. SUFFICES ASSUME ~Here(NextWaiting) PROVE FALSE
        OBVIOUS
    <2>2. status[NextWaiting] = "RUNNING" \/ NextWaiting \in victims
        BY <1>7, <2>1, Awaiting
    <2> QED
        BY <2>2, <1>1, <1>7 DEF PhaseInv, Loading
<1>10. ASSUME PopWaiting
       PROVE  /\ Queue(waiting)' /\ Queue(skipped)'
              /\ ToSet(waiting)' = ToSet(waiting) \ {NextWaiting}
              /\ ToSet(skipped)' = ToSet(skipped) \ {NextWaiting}
    <2>1. CASE FromSkipped
        <3>1. skipped # <<>> /\ NextWaiting = Head(skipped)
            BY <2>1 DEF FromSkipped, NextWaiting
        <3>2. skipped' = Tail(skipped) /\ waiting' = waiting
            BY <1>10, <2>1 DEF PopWaiting
        <3>3. /\ Queue(Tail(skipped)) /\ ToSet(Tail(skipped)) = ToSet(skipped) \ {NextWaiting}
              /\ NextWaiting \in ToSet(skipped)
            BY <3>1, <1>2, TailQueue
        <3>4. ToSet(waiting) = ToSet(waiting) \ {NextWaiting}
            BY <3>3, <1>5
        <3> QED
            BY <3>2, <3>3, <3>4, <1>2
    <2>2. CASE ~FromSkipped
        <3>1. waiting # <<>> /\ NextWaiting = Head(waiting)
            BY <2>2, <1>4 DEF NextWaiting
        <3>2. waiting' = Tail(waiting) /\ skipped' = skipped
            BY <1>10, <2>2 DEF PopWaiting
        <3>3. /\ Queue(Tail(waiting)) /\ ToSet(Tail(waiting)) = ToSet(waiting) \ {NextWaiting}
              /\ NextWaiting \in ToSet(waiting)
            BY <3>1, <1>2, TailQueue
        <3>4. ToSet(skipped) = ToSet(skipped) \ {NextWaiting}
            BY <3>3, <1>5
        <3> QED
            BY <3>2, <3>3, <3>4, <1>2
    <2> QED
        BY <2>1, <2>2
<1> QED
    BY <1>4, <1>6, <1>7, <1>8, <1>9, <1>10

(***************************************************************************)
(* Each step keeps the invariant                                           *)
(***************************************************************************)
LEMMA NoChunk ==
    ASSUME TypeInv, NEW r \in Requests, sched[r] = 0,
           computed[r] = 0 \/ computed[r] % BlockSize = 0
    PROVE  ChunkAligned(r, sched[r])
<1>1. computed[r] \in Nat /\ computed[r] + 0 = computed[r]
    BY Ranges
<1>2. 0 % BlockSize = 0
    BY BlockSizes
<1>3. LastCachePosition(r) \in Nat
    BY Ranges, LastPosition
<1> QED
    BY <1>1, <1>2, <1>3 DEF ChunkAligned

LEMMA InitKeeps == Init => IInv
<1> SUFFICES ASSUME Init PROVE IInv
    OBVIOUS
<1> USE DEF Init
<1>1. \A r \in Requests : Zero[r] = 0
    BY DEF Zero
<1>2. TypeInv
    <2>1. 1 \in Requests /\ 1 \in 1..(Cardinality(Requests) + 1)
        BY FiniteRequests
    <2>2. <<>> \in Seq(Requests) /\ <<>> \in Seq(Batches) /\ Len(<<>>) = 0
        OBVIOUS
    <2>3. 0 \in 0..MaxModelLen /\ 0 \in 0..NumSpec /\ 0 \in 0..MaxScheduled /\ 0 \in 0..MaxFaults
        BY Constants, BlockSizes
    <2>4. \A r \in Requests : 0 <= MaxTokens[r]
        BY SchedulerAssumption
    <2> QED
        BY <2>1, <2>2, <2>3, <2>4, Constants DEF TypeInv, Zero, Statuses
<1>3. QueueInv
    BY EmptyQueue DEF QueueInv, Queue, Of, Loading
<1>4. CountInv
    BY <1>1, SchedulerAssumption DEF CountInv, CountOf, ChunkOf, Loading
<1>5. FlightInv
    BY DEF FlightInv
<1>6. BlockInv
    <2> SUFFICES ASSUME NEW r \in Requests PROVE BlocksOf(r)
        BY TotalZero, BlockSizes DEF BlockInv
    <2>1. Min({0, MaxModelLen}) = 0
        BY BlockSizes, MinMax
    <2>2. computed[r] + sched[r] = 0 /\ held[r] = 0
        BY <1>1
    <2>3. Blocks(Min({computed[r] + sched[r], MaxModelLen})) = 0
        BY <2>1, <2>2, BlocksMonotone
    <2> QED
        BY <2>2, <2>3 DEF BlocksOf
<1>7. LoadInv
    BY DEF LoadInv, Of, Loading
<1>8. AlignInv
    BY <1>1, <1>2, NoChunk DEF AlignInv
<1>9. PhaseInv
    BY Constants DEF PhaseInv
<1> QED
    BY <1>2, <1>3, <1>4, <1>5, <1>6, <1>7, <1>8, <1>9 DEF IInv

\* Steps that only move on within schedule().
LEMMA PhaseOnly ==
    ASSUME IInv, phase # "idle", phase' # "idle",
           UNCHANGED <<reqVars, queueVars, batchVars, loadVars, inflight>>,
           phase' \in {"running", "allocate"} => phase \in {"running", "allocate"}
    PROVE  QueueInv' /\ CountInv' /\ FlightInv' /\ BlockInv' /\ LoadInv' /\ AlignInv'
<1> USE DEF reqVars, queueVars, batchVars, loadVars
<1>1. QueueInv'
    BY DEF IInv, QueueInv, Of
<1>2. CountInv'
    BY DEF IInv, CountInv, CountOf, ChunkOf, NumTokens, Here
<1>3. FlightInv'
    BY DEF IInv, FlightInv, SampledBy, NumTokens
<1>4. BlockInv'
    BY DEF IInv, BlockInv, BlocksOf
<1>5. LoadInv'
    BY DEF IInv, LoadInv, NumTokens, Of
<1>6. AlignInv'
    BY DEF IInv, AlignInv, ChunkAligned, NumTokens, LastCachePosition, Prefilling
<1> QED
    BY <1>1, <1>2, <1>3, <1>4, <1>5, <1>6

LEMMA PassRunningKeeps == ASSUME IInv, PassRunning PROVE IInv'
<1> USE DEF PassRunning, reqVars, queueVars, batchVars, loadVars
<1>1. TypeInv /\ PhaseInv /\ phase' = "running"
    BY DEF IInv
<1>2. Len(running) \in Nat /\ Len(running) <= Cardinality(Requests)
    BY Queues, QueueLength DEF IInv
<1>3. index \in Nat /\ index' = index + 1 /\ index' \in 1..(Cardinality(Requests) + 1)
    <2>1. index \in 1..(Cardinality(Requests) + 1) /\ Cardinality(Requests) \in Nat
        BY <1>1, Counters, FiniteRequests
    <2>2. index <= Len(running) /\ index' = index + 1
        BY DEF RunningLeft
    <2> QED
        BY <1>2, <2>1, <2>2
<1>4. TypeInv'
    BY <1>1, <1>3 DEF TypeInv
<1>5. \A k \in DOMAIN running : k >= index' => sched[running[k]] = 0
    <2>1. \A k \in DOMAIN running : k >= index' => k >= index
        BY <1>3, Queues, QueueLength DEF IInv
    <2> QED
        BY <1>1, <2>1 DEF PhaseInv
<1>6. PhaseInv'
    BY <1>1, <1>5 DEF PhaseInv, Of
<1> QED
    BY <1>1, <1>4, <1>6, PhaseOnly DEF IInv

LEMMA PickRunningKeeps == ASSUME IInv, PickRunning PROVE IInv'
<1> USE DEF PickRunning, reqVars, queueVars, batchVars, loadVars
<1> DEFINE r == running[index]
<1>1. TypeInv /\ PhaseInv /\ QueueInv /\ phase' = "allocate"
    BY DEF IInv
<1>2. /\ r \in Requests /\ status[r] = "RUNNING" /\ index \in DOMAIN running
      /\ Demand(r) \in 0..budget
      /\ computed[r] + Demand(r) < MaxModelLen
      /\ computed[r] + Demand(r) <= NumTokens(r) + spec[r]
      /\ ChunkAligned(r, Demand(r))
    BY DemandFits
<1>3. cur' = r /\ demand' = Demand(r) /\ demand' # 0
    OBVIOUS
<1>4. budget \in 0..MaxScheduled /\ index \in Nat /\ Cardinality(Requests) \in Nat
    BY <1>1, FiniteRequests DEF TypeInv
<1>5. TypeInv'
    <2>1. demand' \in 0..MaxScheduled
        BY <1>2, <1>3, <1>4, Constants
    <2> QED
        BY <1>1, <1>2, <1>3, <2>1 DEF TypeInv
<1>6. Len(running) \in Nat /\ Len(running) <= Cardinality(Requests) /\ DOMAIN running = 1..Len(running)
    BY <1>1, Queues, QueueLength
<1>7. Allocating'
    <2>1. demand' \in 1..budget
        BY <1>2, <1>3, <1>4, Constants
    <2>2. ChunkAligned(r, Demand(r)) => ChunkAligned(cur, demand)'
        BY <1>3 DEF ChunkAligned, NumTokens, LastCachePosition, Prefilling
    <2>3. \A k \in DOMAIN running : k >= index => sched[running[k]] = 0
        BY <1>1 DEF PhaseInv
    <2>4. \E p \in DOMAIN running :
             /\ p <= index /\ running[p] = r
             /\ \A k \in DOMAIN running : k >= p => sched[running[k]] = 0
        BY <1>2, <2>3, <1>4
    <2>5. index <= Cardinality(Requests)
        BY <1>2, <1>4, <1>6
    <2> HIDE DEF r
    <2> QED
        BY <1>2, <1>3, <2>1, <2>2, <2>4, <2>5 DEF Allocating, NumTokens
<1>8. PhaseInv'
    BY <1>1, <1>7 DEF PhaseInv, Of
<1> QED
    BY <1>1, <1>5, <1>8, PhaseOnly DEF IInv

LEMMA EndRunningKeeps == ASSUME IInv, EndRunning PROVE IInv'
<1> USE DEF EndRunning, reqVars, queueVars, batchVars, loadVars
<1>1. TypeInv /\ PhaseInv
    BY DEF IInv
<1>2. phase' \in {"waiting", "finish"} /\ (phase' = "waiting" => victims = {})
    OBVIOUS
<1>3. TypeInv'
    BY <1>1, <1>2 DEF TypeInv
<1>4. PhaseInv'
    BY <1>1, <1>2 DEF PhaseInv, Of
<1> QED
    BY <1>2, <1>3, <1>4, PhaseOnly DEF IInv

LEMMA EndsKeep == ASSUME IInv, EndWaiting \/ \E h \in AllHits : GiveUp(h) PROVE IInv'
<1> USE DEF EndWaiting, GiveUp, Visit, reqVars, queueVars, batchVars, loadVars
<1>1. /\ phase = "waiting" /\ phase' = "finish"
      /\ UNCHANGED <<reqVars, queueVars, index, cur, demand, batchVars, loadVars, inflight>>
    OBVIOUS
<1>2. TypeInv /\ PhaseInv
    BY DEF IInv
<1>3. TypeInv'
    BY <1>1, <1>2 DEF TypeInv
<1>4. PhaseInv'
    BY <1>1, <1>2 DEF PhaseInv, Of
<1> QED
    BY <1>1, <1>3, <1>4, PhaseOnly DEF IInv

\* The batches in flight await the same of all requests when the only one that changes
\* is not awaited.
LEMMA FlightFrame ==
    ASSUME TypeInv, FlightInv, NEW r \in Requests, Here(r), phase # "idle", phase' # "idle",
           UNCHANGED <<inflight, victims>>,
           \A q \in Requests : q # r =>
              /\ status'[q] = status[q] /\ sched'[q] = sched[q]
              /\ computed'[q] = computed[q] /\ output'[q] = output[q]
    PROVE  FlightInv'
<1>1. ASSUME NEW i \in DOMAIN inflight, NEW q \in inflight[i].sampled
      PROVE  SampledBy(i, q)'
    <2>1. q # r /\ q \in Requests
        <3>1. inflight[i] \in Batches
            BY Flights
        <3> QED
            BY <3>1 DEF Here, Batches
    <2>2. SampledBy(i, q)
        BY DEF FlightInv
    <2> QED
        BY <1>1, <2>1, <2>2 DEF SampledBy, NumTokens
<1>2. DOMAIN inflight' = DOMAIN inflight /\ \A i \in DOMAIN inflight : inflight'[i] = inflight[i]
    OBVIOUS
<1>3. \A i \in DOMAIN inflight' : \A q \in inflight'[i].sampled : SampledBy(i, q)'
    BY <1>1, <1>2
<1> HIDE DEF SampledBy
<1> QED
    BY <1>2, <1>3 DEF FlightInv

LEMMA ScheduleRunningKeeps == ASSUME IInv, ScheduleRunning PROVE IInv'
<1> USE DEF ScheduleRunning
<1> DEFINE n == Needed(cur, computed[cur], demand, NumSpec)
           d == IF spec[cur] = 0 THEN 0
                ELSE Max({0, Min({spec[cur], demand + computed[cur] - NumTokens(cur)})})
<1>1. TypeInv /\ QueueInv /\ CountInv /\ FlightInv /\ BlockInv /\ LoadInv /\ AlignInv /\ PhaseInv
    BY DEF IInv
<1>2. phase = "allocate" /\ phase' = "running" /\ Allocating
    BY <1>1 DEF PhaseInv
<1>3. cur \in Requests /\ budget \in Nat /\ budget <= MaxScheduled /\ MaxScheduled \in Nat
      /\ index \in Nat /\ index >= 1 /\ Cardinality(Requests) \in Nat
    BY <1>1, Constants, FiniteRequests DEF TypeInv
<1>4. PICK p \in DOMAIN running :
          /\ p <= index /\ running[p] = cur
          /\ \A k \in DOMAIN running : k >= p => sched[running[k]] = 0
    BY <1>2 DEF Allocating
<1>5. /\ demand \in Nat /\ demand >= 1 /\ demand <= budget
      /\ computed[cur] + demand < MaxModelLen
      /\ computed[cur] + demand <= NumTokens(cur) + spec[cur]
      /\ ChunkAligned(cur, demand) /\ index <= Cardinality(Requests)
    BY <1>2, <1>3 DEF Allocating
<1>6. Queue(running) /\ DOMAIN running = 1..Len(running) /\ Len(running) \in Nat
    BY <1>1, Queues, QueueLength
<1>7. status[cur] = "RUNNING" /\ sched[cur] = 0
    <2>1. cur \in ToSet(running)
        BY <1>4 DEF ToSet
    <2>2. sched[running[p]] = 0
        BY <1>4, <1>6
    <2> QED
        BY <1>1, <1>4, <2>1, <2>2 DEF QueueInv, Of
<1>8. /\ computed[cur] \in Nat /\ NumTokens(cur) \in Nat /\ spec[cur] \in Nat
      /\ spec[cur] \in 0..NumSpec /\ NumSpec \in Nat /\ held[cur] \in Nat /\ MaxModelLen \in Nat
    BY <1>1, <1>3, Ranges, Constants, BlockSizes
<1>9. Here(cur)
    BY <1>2, <1>3, <1>5, <1>7, <1>8, RunningCount
<1>10. /\ held' = [held EXCEPT ![cur] = n] /\ sched' = [sched EXCEPT ![cur] = demand]
       /\ drafts' = [drafts EXCEPT ![cur] = d] /\ spec' = [spec EXCEPT ![cur] = 0]
       /\ budget' = budget - demand /\ index' = index + 1
       /\ UNCHANGED <<status, computed, output, running, waiting, skipped, cur, demand,
                      victims, passed, received, failed, faults, inflight>>
    BY DEF queueVars, loadVars
<1>22. n - held[cur] <= Free
    BY DEF CurFits, Fits
<1> HIDE DEF ScheduleRunning
<1>11. /\ n \in Nat /\ n >= held[cur]
       /\ n >= Blocks(Min({computed[cur] + demand, MaxModelLen}))
    BY <1>5, <1>8, NeededBlocks
<1>12. /\ d \in 0..NumSpec
       /\ computed[cur] + demand <= NumTokens(cur) + d
       /\ d > 0 => computed[cur] + demand = NumTokens(cur) + d
    <2>1. CASE spec[cur] = 0
        BY <2>1, <1>5, <1>8
    <2>2. CASE spec[cur] # 0
        <3> DEFINE e == demand + computed[cur] - NumTokens(cur)
        <3>1. e \in Int /\ e <= spec[cur] /\ spec[cur] > 0
            BY <1>5, <1>8, <2>2
        <3>2. d = Max({0, Min({spec[cur], e})})
            BY <2>2
        <3>3. computed[cur] + demand = NumTokens(cur) + e
            BY <1>5, <1>8
        <3> HIDE DEF e, d
        <3>4. Min({spec[cur], e}) = e
            BY <3>1, <1>8, MinMax
        <3>5. d = IF e >= 0 THEN e ELSE 0
            BY <3>1, <3>2, <3>4, MaxZero
        <3> QED
            BY <3>1, <3>3, <3>5, <1>8
    <2> QED
        BY <2>1, <2>2
<1> HIDE DEF n, d
<1>13. TypeInv'
    <2>1. budget' \in 0..MaxScheduled /\ index' \in 1..(Cardinality(Requests) + 1)
        BY <1>3, <1>5, <1>10
    <2>2. held' \in [Requests -> Nat] /\ sched' \in [Requests -> Nat]
        BY <1>1, <1>5, <1>10, <1>11 DEF TypeInv
    <2>3. drafts' \in [Requests -> 0..NumSpec] /\ spec' \in [Requests -> 0..NumSpec]
        <3>1. drafts \in [Requests -> 0..NumSpec] /\ spec \in [Requests -> 0..NumSpec]
            BY <1>1 DEF TypeInv
        <3>2. 0 \in 0..NumSpec
            BY <1>8
        <3> QED
            BY <1>3, <1>10, <1>12, <3>1, <3>2
    <2> QED
        BY <1>1, <1>2, <1>10, <2>1, <2>2, <2>3 DEF TypeInv
<1>14. QueueInv'
    BY <1>1, <1>2, <1>10 DEF QueueInv, Of
<1>15. /\ sched'[cur] = demand /\ drafts'[cur] = d /\ held'[cur] = n
       /\ \A q \in Requests : q # cur =>
             sched'[q] = sched[q] /\ drafts'[q] = drafts[q] /\ held'[q] = held[q]
    BY <1>1, <1>3, <1>10 DEF TypeInv
<1>16. CountInv'
    <2> SUFFICES ASSUME NEW q \in Requests PROVE CountOf(q)' /\ ChunkOf(q)'
        BY DEF CountInv
    <2>1. CountOf(q) /\ ChunkOf(q)
        BY <1>1 DEF CountInv
    <2>2. CASE q # cur
        BY <1>10, <1>15, <2>1, <2>2 DEF CountOf, ChunkOf, NumTokens, Here
    <2>3. CASE q = cur
        <3>1. CountOf(q)'
            BY <1>7, <1>10, <2>1, <2>3 DEF CountOf, NumTokens, Here, Loading
        <3>2. ChunkOf(q)'
            BY <1>5, <1>8, <1>9, <1>10, <1>12, <1>15, <2>3 DEF ChunkOf, NumTokens, Here
        <3> QED
            BY <3>1, <3>2
    <2> QED
        BY <2>2, <2>3
<1>17. FlightInv'
    BY <1>1, <1>2, <1>3, <1>9, <1>10, <1>15, FlightFrame
<1>18. BlockInv'
    <2>1. Total(held)' <= NumBlocks
        <3>1. held \in [Requests -> Nat]
            BY <1>1 DEF TypeInv
        <3>2. /\ Total([held EXCEPT ![cur] = n]) = (Total(held) - held[cur]) + n
              /\ Total(held) \in Nat
            BY <3>1, <1>3, <1>11, TotalExcept
        <3>3. n - held[cur] <= NumBlocks - Total(held)
            BY <1>22 DEF Free
        <3> QED
            BY <1>8, <1>10, <1>11, <3>2, <3>3, BlockSizes
    <2> SUFFICES ASSUME NEW q \in Requests PROVE BlocksOf(q)'
        BY <2>1 DEF BlockInv
    <2>2. BlocksOf(q)
        BY <1>1 DEF BlockInv
    <2>3. CASE q # cur
        BY <1>10, <1>15, <2>2, <2>3 DEF BlocksOf
    <2>4. CASE q = cur
        BY <1>7, <1>10, <1>11, <1>15, <2>4 DEF BlocksOf
    <2> QED
        BY <2>3, <2>4
<1>19. LoadInv'
    BY <1>1, <1>10 DEF LoadInv, NumTokens, Of
<1>20. AlignInv'
    <2> SUFFICES ASSUME NEW q \in Requests PROVE ChunkAligned(q, sched[q])'
        BY DEF AlignInv
    <2>1. ChunkAligned(q, sched'[q])
        BY <1>1, <1>5, <1>15 DEF AlignInv
    <2> QED
        BY <2>1, <1>10 DEF ChunkAligned, NumTokens, LastCachePosition, Prefilling
<1>21. PhaseInv'
    <2>1. (budget + Total(sched))' = MaxScheduled
        <3>1. sched \in [Requests -> Nat]
            BY <1>1 DEF TypeInv
        <3>2. Total([sched EXCEPT ![cur] = demand]) = (Total(sched) - 0) + demand
              /\ Total(sched) \in Nat
            BY <3>1, <1>3, <1>5, <1>7, TotalExcept
        <3> QED
            BY <1>1, <1>2, <1>3, <1>5, <1>10, <3>2 DEF PhaseInv
    <2>2. ASSUME NEW k \in DOMAIN running, k >= index + 1 PROVE sched'[running[k]] = 0
        <3>1. k >= p /\ k # p
            BY <1>3, <1>4, <1>6, <2>2
        <3>2. running[k] # cur /\ running[k] \in Requests
            BY <1>4, <1>6, <3>1 DEF Queue, IsInjective
        <3> QED
            BY <1>4, <1>15, <3>1, <3>2
    <2> QED
        BY <1>1, <1>2, <1>10, <2>1, <2>2 DEF PhaseInv, Of
<1> QED
    BY <1>13, <1>14, <1>16, <1>17, <1>18, <1>19, <1>20, <1>21 DEF IInv

LEMMA PreemptRunningKeeps == ASSUME IInv, PreemptRunning PROVE IInv'
<1> DEFINE v == Victim
           place == CHOOSE i \in DOMAIN running : running[i] = Victim
<1>1. TypeInv /\ QueueInv /\ CountInv /\ FlightInv /\ BlockInv /\ LoadInv /\ AlignInv /\ PhaseInv
    BY DEF IInv
<1>2. phase = "allocate" /\ Allocating
    BY <1>1 DEF PreemptRunning, PhaseInv
<1>3. PICK p \in DOMAIN running :
          /\ p <= index /\ running[p] = cur
          /\ \A k \in DOMAIN running : k >= p => sched[running[k]] = 0
    BY <1>2 DEF Allocating
<1>4. Queue(running) /\ DOMAIN running = 1..Len(running) /\ Len(running) \in Nat
    BY <1>1, Queues, QueueLength
<1>5. running # <<>>
    BY <1>3
<1>6. place \in DOMAIN running /\ running[place] = v /\ v \in ToSet(running)
    BY <1>1, <1>5, VictimRuns
<1>7. /\ running' = RemoveAt(running, place) /\ budget' = budget + sched[v]
      /\ sched' = [sched EXCEPT ![v] = 0] /\ drafts' = [drafts EXCEPT ![v] = 0]
      /\ index' = IF sched[v] > 0 THEN index - 1 ELSE index
      /\ status' = [status EXCEPT ![v] = "WAITING"]
      /\ computed' = [computed EXCEPT ![v] = 0] /\ held' = [held EXCEPT ![v] = 0]
      /\ spec' = [spec EXCEPT ![v] = 0]
      /\ waiting' = Prepend(waiting, v) /\ victims' = victims \union {v}
      /\ phase' = IF v = cur THEN "finish" ELSE "allocate"
      /\ UNCHANGED <<output, skipped, cur, demand, passed, received, failed, faults, inflight>>
    BY DEF PreemptRunning, Refund, loadVars
<1> HIDE DEF v, place
<1>8. v \in Requests /\ status[v] = "RUNNING"
    BY <1>1, <1>6 DEF QueueInv, Of
<1>9. /\ status'[v] = "WAITING" /\ computed'[v] = 0 /\ held'[v] = 0
      /\ sched'[v] = 0 /\ drafts'[v] = 0 /\ spec'[v] = 0
      /\ \A q \in Requests : q # v =>
            /\ status'[q] = status[q] /\ computed'[q] = computed[q] /\ held'[q] = held[q]
            /\ sched'[q] = sched[q] /\ drafts'[q] = drafts[q] /\ spec'[q] = spec[q]
    BY <1>1, <1>7, <1>8 DEF TypeInv
<1>10. \A q \in Requests : output'[q] = output[q] /\ NumTokens(q)' = NumTokens(q)
    BY <1>7 DEF NumTokens
<1>11. /\ Queue(running') /\ ToSet(running') = ToSet(running) \ {v}
       /\ Len(running') = Len(running) - 1
       /\ \A k \in 1..(Len(running) - 1) :
             running'[k] = IF k < place THEN running[k] ELSE running[k + 1]
    BY <1>4, <1>6, <1>7, RemoveQueue
<1>12. v \notin ToSet(waiting) /\ v \notin ToSet(skipped) /\ v \notin ToSet(passed)
    BY <1>1, <1>8 DEF QueueInv, Of, Loading
<1>13. Queue(waiting') /\ ToSet(waiting') = ToSet(waiting) \union {v}
    BY <1>1, <1>7, <1>8, <1>12, Queues, PrependQueue
<1>14. sched \in [Requests -> Nat] /\ held \in [Requests -> Nat] /\ 0 \in Nat
    BY <1>1 DEF TypeInv
<1>15. /\ Total(sched') = (Total(sched) - sched[v]) + 0 /\ Total(sched) \in Nat
       /\ sched[v] \in Nat /\ sched[v] <= Total(sched)
    BY <1>7, <1>8, <1>14, TotalExcept
<1>16. /\ Total(held') = (Total(held) - held[v]) + 0 /\ Total(held) \in Nat
       /\ held[v] \in Nat /\ held[v] <= Total(held)
    BY <1>7, <1>8, <1>14, TotalExcept
<1>17. /\ budget \in Nat /\ MaxScheduled \in Nat /\ budget + Total(sched) = MaxScheduled
       /\ index \in Nat /\ index >= 1 /\ index <= Cardinality(Requests)
       /\ Cardinality(Requests) \in Nat
    BY <1>1, <1>2, Constants, FiniteRequests DEF TypeInv, PhaseInv, Allocating
<1>18. sched[v] > 0 => place < p
    <2>1. SUFFICES ASSUME place >= p PROVE sched[v] = 0
        BY <1>3, <1>4, <1>6, <1>15
    <2> QED
        BY <1>3, <1>6, <2>1
<1>19. index' \in 1..Cardinality(Requests) /\ index' \in Nat
    BY <1>3, <1>4, <1>6, <1>7, <1>17, <1>18
<1>20. TypeInv'
    <2>1. /\ status' \in [Requests -> Statuses] /\ computed' \in [Requests -> 0..MaxModelLen]
          /\ spec' \in [Requests -> 0..NumSpec] /\ drafts' \in [Requests -> 0..NumSpec]
          /\ held' \in [Requests -> Nat] /\ sched' \in [Requests -> Nat]
        <3>1. 0 \in 0..MaxModelLen /\ 0 \in 0..NumSpec /\ "WAITING" \in Statuses
            BY BlockSizes, Constants DEF Statuses
        <3> QED
            BY <1>1, <1>7, <1>14, <3>1 DEF TypeInv
    <2>2. running' \in Seq(Requests) /\ waiting' \in Seq(Requests)
        BY <1>11, <1>13 DEF Queue
    <2>3. budget' \in 0..MaxScheduled
        BY <1>7, <1>15, <1>17
    <2>4. index' \in 1..(Cardinality(Requests) + 1)
        BY <1>17, <1>19
    <2>5. victims' \subseteq Requests
        BY <1>1, <1>7, <1>8 DEF TypeInv
    <2> QED
        BY <1>1, <1>7, <2>1, <2>2, <2>3, <2>4, <2>5 DEF TypeInv
<1>21. QueueInv'
    <2>1. Of({"RUNNING"})' = Of({"RUNNING"}) \ {v}
        BY <1>8, <1>9 DEF Of
    <2>2. Of({"WAITING", Loading})' = Of({"WAITING", Loading}) \union {v}
        BY <1>8, <1>9 DEF Of
    <2>3. Of({"WAITING"})' = Of({"WAITING"}) \union {v}
        BY <1>8, <1>9 DEF Of
    <2>4. phase' \in {"idle", "running", "allocate"} => passed' = <<>>
        BY <1>1, <1>2, <1>7 DEF QueueInv
    <2> HIDE DEF Of
    <2>5. IsInjective(running') /\ IsInjective(waiting') /\ skipped' = skipped /\ passed' = passed
        BY <1>7, <1>11, <1>13 DEF Queue
    <2>6. /\ ToSet(running) = Of({"RUNNING"}) /\ ToSet(waiting) \subseteq Of({"WAITING"})
          /\ ToSet(waiting) \union ToSet(skipped) \union ToSet(passed) = Of({"WAITING", Loading})
          /\ ToSet(waiting) \intersect ToSet(skipped) = {}
          /\ ToSet(waiting) \intersect ToSet(passed) = {}
          /\ ToSet(skipped) \intersect ToSet(passed) = {}
          /\ IsInjective(skipped) /\ IsInjective(passed)
        BY <1>1 DEF QueueInv
    <2>7. ToSet(running') = Of({"RUNNING"})' /\ ToSet(waiting') \subseteq Of({"WAITING"})'
        BY <1>11, <1>13, <2>1, <2>3, <2>6
    <2>8. ToSet(waiting') \union ToSet(skipped) \union ToSet(passed) = Of({"WAITING", Loading})'
        BY <1>13, <2>2, <2>6
    <2>9. /\ ToSet(waiting') \intersect ToSet(skipped) = {}
          /\ ToSet(waiting') \intersect ToSet(passed) = {}
        BY <1>12, <1>13, <2>6
    <2> QED
        BY <2>4, <2>5, <2>6, <2>7, <2>8, <2>9 DEF QueueInv
<1>22. CountInv'
    <2> SUFFICES ASSUME NEW q \in Requests PROVE CountOf(q)' /\ ChunkOf(q)'
        BY DEF CountInv
    <2>1. CountOf(q) /\ ChunkOf(q)
        BY <1>1 DEF CountInv
    <2>2. NumTokens(q) \in Nat \ {0}
        BY <1>1, Ranges
    <2>3. Here(q)' <=> Here(q)
        BY <1>7 DEF Here
    <2>4. CASE q # v
        BY <1>9, <1>10, <2>1, <2>3, <2>4 DEF CountOf, ChunkOf
    <2>5. CASE q = v
        BY <1>8, <1>9, <1>10, <2>1, <2>2, <2>5 DEF CountOf, ChunkOf, Loading
    <2> QED
        BY <2>4, <2>5
<1>23. FlightInv'
    <2>1. inflight \in Seq(Batches) /\ Len(inflight) \in Nat /\ DOMAIN inflight = 1..Len(inflight)
        BY <1>1 DEF TypeInv
    <2>2. phase' # "idle" /\ phase # "idle" /\ Len(inflight) < Depth /\ inflight' = inflight
        BY <1>1, <1>2, <1>7 DEF FlightInv
    <2>3. ASSUME NEW i \in DOMAIN inflight, NEW q \in inflight[i].sampled
          PROVE  SampledBy(i, q)'
        <3>1. SampledBy(i, q) /\ q \in Requests
            <4>1. inflight[i] \in Batches
                BY <2>1
            <4> QED
                BY <1>1, <4>1 DEF FlightInv, Batches
        <3>2. i = 1
            BY <2>1, <2>2, Constants
        <3>3. CASE q # v
            BY <1>7, <1>9, <1>10, <2>2, <3>1, <3>3 DEF SampledBy
        <3>4. CASE q = v
            BY <1>7, <1>9, <2>2, <3>2, <3>4 DEF SampledBy
        <3> QED
            BY <3>3, <3>4
    <2> HIDE DEF SampledBy
    <2>4. \A i \in DOMAIN inflight' : \A q \in inflight'[i].sampled : SampledBy(i, q)'
        BY <2>2, <2>3
    <2> QED
        BY <1>1, <2>2, <2>4 DEF FlightInv
<1>24. BlockInv'
    <2>1. Total(held)' <= NumBlocks
        BY <1>1, <1>16, BlockSizes DEF BlockInv
    <2> SUFFICES ASSUME NEW q \in Requests PROVE BlocksOf(q)'
        BY <2>1 DEF BlockInv
    <2>2. BlocksOf(q)
        BY <1>1 DEF BlockInv
    <2>3. CASE q # v
        BY <1>9, <2>2, <2>3 DEF BlocksOf
    <2>4. CASE q = v
        <3>1. computed'[q] + sched'[q] = 0
            BY <1>9, <2>4
        <3>2. Blocks(Min({computed'[q] + sched'[q], MaxModelLen})) = 0
            BY <3>1, CappedBlocks
        <3> QED
            BY <1>9, <2>4, <3>2 DEF BlocksOf
    <2> QED
        BY <2>3, <2>4
<1>25. LoadInv'
    <2>1. Of({Loading})' = Of({Loading})
        BY <1>8, <1>9 DEF Of, Loading
    <2>2. \A q \in Of({Loading}) : q \in Requests /\ computed'[q] = computed[q] /\ NumTokens(q)' = NumTokens(q)
        BY <1>8, <1>9, <1>10 DEF Of, Loading
    <2> QED
        BY <1>1, <1>7, <2>1, <2>2 DEF LoadInv
<1>26. AlignInv'
    <2> SUFFICES ASSUME NEW q \in Requests PROVE ChunkAligned(q, sched[q])'
        BY DEF AlignInv
    <2>1. ChunkAligned(q, sched[q])
        BY <1>1 DEF AlignInv
    <2>2. CASE q # v
        BY <1>7, <1>9, <2>1, <2>2 DEF ChunkAligned, NumTokens, LastCachePosition, Prefilling
    <2>3. CASE q = v
        <3>1. 0 % BlockSize = 0 /\ NumTokens(q) \in Nat /\ 0 + 0 = 0
            BY <1>1, Ranges, BlockSizes
        <3>2. LastCachePosition(q) \in Nat
            BY <3>1, LastPosition
        <3>3. LastCachePosition(q)' \in Nat
            BY <1>10, <3>2 DEF LastCachePosition
        <3> QED
            BY <1>9, <2>3, <3>1, <3>3 DEF ChunkAligned
    <2> QED
        BY <2>2, <2>3
<1>27. PhaseInv'
    <2>1. (budget + Total(sched))' = MaxScheduled
        BY <1>7, <1>15, <1>17
    <2>2. victims' \subseteq Of({"WAITING"})'
        BY <1>1, <1>7, <1>8, <1>9 DEF PhaseInv, Of
    <2>3. Len(running') <= MaxRunning
        BY <1>1, <1>4, <1>11, Constants DEF PhaseInv
    <2>4. ASSUME v # cur PROVE Allocating'
        <3>1. cur' = cur /\ demand' = demand /\ cur \in Requests
            BY <1>1, <1>7 DEF TypeInv
        <3>2. /\ computed'[cur] = computed[cur] /\ spec'[cur] = spec[cur]
              /\ NumTokens(cur)' = NumTokens(cur)
            BY <1>7, <1>9, <2>4, <3>1 DEF NumTokens
        <3>3. ChunkAligned(cur, demand)'
            BY <1>2, <1>7, <1>10, <3>1, <3>2
            DEF Allocating, ChunkAligned, LastCachePosition, Prefilling
        <3>4. demand' \in 1..budget'
            BY <1>2, <1>7, <1>15, <1>17, <3>1 DEF Allocating
        <3>5. place # p
            BY <1>3, <1>6, <2>4
        <3>6. DOMAIN running' = 1..(Len(running) - 1)
            BY <1>11, QueueLength
        <3>7. \E l \in DOMAIN running' :
                 /\ l <= index' /\ running'[l] = cur
                 /\ \A k \in DOMAIN running' : k >= l => sched'[running'[k]] = 0
            <4>1. CASE place < p
                <5>1. p - 1 \in DOMAIN running' /\ p - 1 <= index'
                    BY <1>3, <1>4, <1>6, <1>7, <1>17, <3>6, <4>1
                <5>2. running'[p - 1] = cur
                    BY <1>3, <1>4, <1>6, <1>11, <3>6, <4>1, <5>1
                <5>3. ASSUME NEW k \in DOMAIN running', k >= p - 1 PROVE sched'[running'[k]] = 0
                    <6>1. /\ running'[k] = running[k + 1] /\ k + 1 \in DOMAIN running
                          /\ k + 1 >= p
                        BY <1>4, <1>6, <1>11, <3>6, <4>1, <5>3, <1>3
                    <6>2. running[k + 1] \in Requests /\ sched[running[k + 1]] = 0
                        BY <1>3, <1>4, <6>1 DEF Queue
                    <6> QED
                        BY <1>9, <6>1, <6>2
                <5> QED
                    BY <5>1, <5>2, <5>3
            <4>2. CASE place > p
                <5>1. p \in DOMAIN running' /\ p <= index'
                    BY <1>3, <1>4, <1>6, <1>7, <1>15, <1>17, <1>18, <3>6, <4>2
                <5>2. running'[p] = cur
                    BY <1>3, <1>4, <1>6, <1>11, <3>6, <4>2, <5>1
                <5>3. ASSUME NEW k \in DOMAIN running', k >= p PROVE sched'[running'[k]] = 0
                    <6>1. PICK l \in DOMAIN running : l >= p /\ running'[k] = running[l]
                        <7>1. k \in DOMAIN running /\ k + 1 \in DOMAIN running /\ k + 1 >= p
                            BY <1>3, <1>4, <3>6, <5>3
                        <7> QED
                            BY <1>11, <3>6, <5>3, <7>1
                    <6>2. running[l] \in Requests /\ sched[running[l]] = 0
                        BY <1>3, <1>4, <6>1 DEF Queue
                    <6> QED
                        BY <1>9, <6>1, <6>2
                <5> QED
                    BY <5>1, <5>2, <5>3
            <4> QED
                BY <1>3, <1>4, <1>6, <3>5, <4>1, <4>2
        <3>8. index' <= Cardinality(Requests)
            BY <1>17, <1>19
        <3> QED
            BY <1>2, <3>1, <3>2, <3>3, <3>4, <3>7, <3>8 DEF Allocating
    <2> QED
        BY <1>7, <2>1, <2>2, <2>3, <2>4 DEF PhaseInv
<1> QED
    BY <1>20, <1>21, <1>22, <1>23, <1>24, <1>25, <1>26, <1>27 DEF IInv

LEMMA BeginStepKeeps == ASSUME IInv, BeginStep PROVE IInv'
<1>1. TypeInv /\ QueueInv /\ CountInv /\ FlightInv /\ BlockInv /\ LoadInv /\ AlignInv /\ PhaseInv
    BY DEF IInv
<1>2. /\ phase = "idle" /\ phase' = "running" /\ index' = 1 /\ Len(inflight) < Depth
      /\ budget' = MaxScheduled /\ sched' = Zero /\ drafts' = Zero /\ victims' = {}
      /\ passed' = <<>>
      /\ UNCHANGED <<status, computed, output, spec, held, running, waiting, skipped,
                     cur, demand, received, failed, faults, inflight>>
    BY DEF BeginStep, reqVars, queueVars, loadVars
<1>3. sched = Zero /\ sched' = sched /\ victims = {} /\ passed = <<>>
    BY <1>1, <1>2 DEF PhaseInv, QueueInv
<1>4. \A r \in Requests : Zero[r] = 0
    BY DEF Zero
<1>5. TypeInv'
    <2>1. Zero \in [Requests -> 0..NumSpec] /\ Zero \in [Requests -> Nat]
        BY Constants DEF Zero
    <2>2. 1 \in 1..(Cardinality(Requests) + 1) /\ MaxScheduled \in 0..MaxScheduled
        BY FiniteRequests, Constants
    <2>3. <<>> \in Seq(Requests) /\ {} \subseteq Requests
        OBVIOUS
    <2>4. sched' \in [Requests -> Nat] /\ drafts' \in [Requests -> 0..NumSpec]
        BY <1>2, <2>1
    <2>5. /\ index' \in 1..(Cardinality(Requests) + 1) /\ budget' \in 0..MaxScheduled
          /\ phase' \in {"idle", "running", "allocate", "waiting", "finish"}
          /\ victims' \subseteq Requests /\ passed' \in Seq(Requests)
        BY <1>2, <2>2, <2>3
    <2> QED
        BY <1>1, <1>2, <2>4, <2>5 DEF TypeInv
<1>6. QueueInv'
    BY <1>1, <1>2, <1>3 DEF QueueInv, Of
<1>7. CountInv'
    <2> SUFFICES ASSUME NEW r \in Requests PROVE CountOf(r)' /\ ChunkOf(r)'
        BY DEF CountInv
    <2>1. CountOf(r)
        BY <1>1 DEF CountInv
    <2> QED
        BY <1>2, <1>3, <1>4, <2>1 DEF CountOf, ChunkOf, NumTokens, Here
<1>8. FlightInv'
    <2>1. inflight \in Seq(Batches) /\ Len(inflight) \in Nat /\ DOMAIN inflight = 1..Len(inflight)
        BY <1>1 DEF TypeInv
    <2>2. ASSUME NEW i \in DOMAIN inflight, NEW q \in inflight[i].sampled
          PROVE  SampledBy(i, q)'
        <3>1. SampledBy(i, q)
            BY <1>1 DEF FlightInv
        <3>2. ~(Len(inflight) = 2)
            BY <1>2, <2>1, Constants
        <3> QED
            BY <1>2, <1>3, <3>1, <3>2 DEF SampledBy, NumTokens
    <2> HIDE DEF SampledBy
    <2>3. \A i \in DOMAIN inflight' : \A q \in inflight'[i].sampled : SampledBy(i, q)'
        BY <1>2, <2>2
    <2> QED
        BY <1>1, <1>2, <2>3 DEF FlightInv
<1>9. BlockInv'
    BY <1>1, <1>2, <1>3 DEF BlockInv, BlocksOf
<1>10. LoadInv'
    BY <1>1, <1>2 DEF LoadInv, NumTokens, Of
<1>11. AlignInv'
    BY <1>1, <1>2, <1>3 DEF AlignInv, ChunkAligned, NumTokens, LastCachePosition, Prefilling
<1>12. PhaseInv'
    <2>1. budget' + Total(sched') = MaxScheduled
        BY <1>2, TotalZero, Constants
    <2>2. \A k \in DOMAIN running : running[k] \in Requests
        BY <1>1 DEF TypeInv
    <2> QED
        BY <1>1, <1>2, <1>4, <2>1, <2>2 DEF PhaseInv
<1> QED
    BY <1>5, <1>6, <1>7, <1>8, <1>9, <1>10, <1>11, <1>12 DEF IInv

\* The next waiting request is put aside, waiting or loading.
LEMMA PassedOver ==
    ASSUME IInv, phase = "waiting", WaitingLeft, PopWaiting,
           passed' = Prepend(passed, NextWaiting),
           UNCHANGED <<running, phase>>,
           \A q \in Requests : q # NextWaiting => status'[q] = status[q],
           status'[NextWaiting] \in {"WAITING", Loading}
    PROVE  /\ QueueInv'
           /\ waiting' \in Seq(Requests) /\ skipped' \in Seq(Requests) /\ passed' \in Seq(Requests)
<1> DEFINE r == NextWaiting
<1>1. /\ r \in Requests /\ r \in ToSet(waiting) \union ToSet(skipped)
      /\ status[r] \in {"WAITING", Loading}
      /\ Queue(waiting)' /\ Queue(skipped)'
      /\ ToSet(waiting)' = ToSet(waiting) \ {r} /\ ToSet(skipped)' = ToSet(skipped) \ {r}
    BY NextOne
<1>2. \A q \in Requests : q # r => status'[q] = status[q]
    OBVIOUS
<1>3. /\ IsInjective(running)
      /\ ToSet(running) = Of({"RUNNING"}) /\ ToSet(waiting) \subseteq Of({"WAITING"})
      /\ ToSet(waiting) \union ToSet(skipped) \union ToSet(passed) = Of({"WAITING", Loading})
      /\ ToSet(waiting) \intersect ToSet(skipped) = {}
      /\ ToSet(waiting) \intersect ToSet(passed) = {}
      /\ ToSet(skipped) \intersect ToSet(passed) = {}
    BY DEF IInv, QueueInv
<1>4. Queue(passed) /\ r \notin ToSet(passed)
    BY <1>1, <1>3, Queues DEF IInv
<1> HIDE DEF r
<1>5. Queue(passed') /\ ToSet(passed') = ToSet(passed) \union {r}
    BY <1>1, <1>4, PrependQueue DEF r
<1>6. Of({"RUNNING"})' = Of({"RUNNING"})
    BY <1>1, <1>2 DEF Of, Loading, r
<1>7. Of({"WAITING", Loading})' = Of({"WAITING", Loading})
    BY <1>1, <1>2 DEF Of, r
<1>8. ToSet(waiting)' \subseteq Of({"WAITING"})'
    BY <1>1, <1>2, <1>3 DEF Of
<1> HIDE DEF Of
<1>9. ToSet(waiting)' \union ToSet(skipped)' \union ToSet(passed') = Of({"WAITING", Loading})'
    BY <1>1, <1>3, <1>5, <1>7
<1>10. /\ ToSet(waiting)' \intersect ToSet(skipped)' = {}
       /\ ToSet(waiting)' \intersect ToSet(passed') = {}
       /\ ToSet(skipped)' \intersect ToSet(passed') = {}
    BY <1>1, <1>3, <1>5
<1>11. QueueInv'
    BY <1>1, <1>3, <1>5, <1>6, <1>8, <1>9, <1>10 DEF QueueInv, Queue
<1> QED
    BY <1>1, <1>5, <1>11 DEF Queue

LEMMA SkipKeeps == ASSUME IInv, SkipLoading \/ SkipUnknown PROVE IInv'
<1>1. TypeInv /\ QueueInv /\ CountInv /\ FlightInv /\ BlockInv /\ LoadInv /\ AlignInv /\ PhaseInv
    BY DEF IInv
<1>2. /\ phase = "waiting" /\ WaitingLeft /\ PopWaiting
      /\ passed' = Prepend(passed, NextWaiting)
      /\ UNCHANGED <<status, computed, output, spec, held, running, phase, index, cur,
                     demand, budget, sched, drafts, victims, received, failed, inflight>>
      /\ faults' = faults \/ (faults < MaxFaults /\ faults' = faults + 1)
    BY DEF SkipLoading, SkipUnknown, reqVars, loopVars, loadVars
<1>3. /\ QueueInv'
      /\ waiting' \in Seq(Requests) /\ skipped' \in Seq(Requests) /\ passed' \in Seq(Requests)
    <2>1. status[NextWaiting] \in {"WAITING", Loading}
        BY <1>2, NextOne
    <2> QED
        BY <1>2, <2>1, PassedOver
<1>4. TypeInv'
    <2>1. faults' \in 0..MaxFaults
        <3>1. faults \in 0..MaxFaults /\ MaxFaults \in Nat
            BY <1>1, Counters, Constants
        <3> QED
            BY <1>2, <3>1
    <2> QED
        BY <1>1, <1>2, <1>3, <2>1 DEF TypeInv
<1>5. CountInv'
    BY <1>1, <1>2 DEF CountInv, CountOf, ChunkOf, NumTokens, Here
<1>6. FlightInv'
    BY <1>1, <1>2 DEF FlightInv, SampledBy, NumTokens
<1>7. BlockInv'
    BY <1>1, <1>2 DEF BlockInv, BlocksOf
<1>8. LoadInv'
    BY <1>1, <1>2 DEF LoadInv, NumTokens, Of
<1>9. AlignInv'
    BY <1>1, <1>2 DEF AlignInv, ChunkAligned, NumTokens, LastCachePosition, Prefilling
<1>10. PhaseInv'
    BY <1>1, <1>2 DEF PhaseInv, Of
<1> QED
    BY <1>3, <1>4, <1>5, <1>6, <1>7, <1>8, <1>9, <1>10 DEF IInv

LEMMA PromoteKeeps == ASSUME IInv, Promote PROVE IInv'
<1> DEFINE r == NextWaiting
           h == IF r \in failed /\ computed[r] = 0 THEN 0 ELSE held[r]
           c == IF r \notin failed /\ computed[r] = NumTokens(r) THEN computed[r] - 1
                ELSE computed[r]
<1>1. TypeInv /\ QueueInv /\ CountInv /\ FlightInv /\ BlockInv /\ LoadInv /\ AlignInv /\ PhaseInv
    BY DEF IInv
<1>2. /\ phase = "waiting" /\ WaitingLeft /\ status[r] = Loading /\ r \in received
      /\ status' = [status EXCEPT ![r] = "WAITING"]
      /\ held' = [held EXCEPT ![r] = h] /\ computed' = [computed EXCEPT ![r] = c]
      /\ received' = received \ {r} /\ failed' = failed \ {r}
      /\ UNCHANGED <<output, spec, running, waiting, skipped, phase, index, cur, demand,
                     budget, sched, drafts, victims, passed, faults, inflight>>
    BY DEF Promote, queueVars, loopVars, batchVars
<1>3. r \in Requests /\ sched[r] = 0 /\ drafts[r] = 0 /\ Here(r)
    BY <1>2, NextOne
<1> HIDE DEF r
<1>4. /\ computed[r] \in Nat /\ computed[r] <= MaxModelLen /\ NumTokens(r) \in Nat \ {0}
      /\ held[r] \in Nat /\ MaxModelLen \in Nat
    BY <1>1, <1>3, Ranges, BlockSizes
<1>5. /\ computed[r] % BlockSize = 0
      /\ ~WholeHits \/ r \in failed => computed[r] < NumTokens(r)
      /\ r \notin failed => computed[r] > 0
    <2>1. r \in Of({Loading})
        BY <1>2, <1>3 DEF Of
    <2> QED
        BY <1>1, <2>1 DEF LoadInv
<1>6. CountOf(r) /\ BlocksOf(r)
    BY <1>1, <1>3 DEF CountInv, BlockInv
<1>7. computed[r] <= NumTokens(r)
    BY <1>2, <1>6 DEF CountOf
<1>8. c \in Nat /\ c <= computed[r] /\ c < NumTokens(r) /\ (~WholeHits => c = computed[r])
    BY <1>4, <1>5, <1>7
<1>9. c = 0 => h = 0
    <2>1. ASSUME c = 0, r \notin failed PROVE FALSE
        <3>1. computed[r] = NumTokens(r) /\ computed[r] = 1 /\ WholeHits
            BY <1>4, <1>5, <1>7, <2>1
        <3>2. BlockSize > 1 /\ BlockSize \in Nat
            BY <3>1, Constants, BlockSizes
        <3>3. 1 % BlockSize = 1
            BY <3>2
        <3> QED
            BY <1>5, <3>1, <3>3
    <2> QED
        BY <2>1
<1>10. h \in Nat /\ h <= held[r]
    BY <1>4
<1> HIDE DEF h, c
<1>11. /\ status'[r] = "WAITING" /\ computed'[r] = c /\ held'[r] = h
       /\ \A q \in Requests : q # r =>
             status'[q] = status[q] /\ computed'[q] = computed[q] /\ held'[q] = held[q]
    BY <1>1, <1>2, <1>3 DEF TypeInv
<1>12. \A q \in Requests : NumTokens(q)' = NumTokens(q)
    BY <1>2 DEF NumTokens
<1>13. TypeInv'
    <2>1. status' \in [Requests -> Statuses]
        BY <1>1, <1>2 DEF TypeInv, Statuses
    <2>2. computed' \in [Requests -> 0..MaxModelLen]
        <3>1. c \in 0..MaxModelLen
            BY <1>4, <1>8
        <3> QED
            BY <1>1, <1>2, <3>1 DEF TypeInv
    <2>3. held' \in [Requests -> Nat]
        BY <1>1, <1>2, <1>10 DEF TypeInv
    <2>4. failed' \subseteq received' /\ received' \subseteq Requests
        BY <1>1, <1>2 DEF TypeInv
    <2> QED
        BY <1>1, <1>2, <2>1, <2>2, <2>3, <2>4 DEF TypeInv
<1>14. QueueInv'
    <2>1. Of({"RUNNING"})' = Of({"RUNNING"})
        BY <1>2, <1>3, <1>11 DEF Of, Loading
    <2>2. Of({"WAITING", Loading})' = Of({"WAITING", Loading})
        BY <1>2, <1>3, <1>11 DEF Of
    <2>3. Of({"WAITING"}) \subseteq Of({"WAITING"})'
        BY <1>2, <1>3, <1>11 DEF Of
    <2> HIDE DEF Of
    <2> QED
        BY <1>1, <1>2, <2>1, <2>2, <2>3 DEF QueueInv
<1>15. CountInv'
    <2> SUFFICES ASSUME NEW q \in Requests PROVE CountOf(q)' /\ ChunkOf(q)'
        BY DEF CountInv
    <2>1. CountOf(q) /\ ChunkOf(q)
        BY <1>1 DEF CountInv
    <2>2. Here(q)' <=> Here(q)
        BY <1>2 DEF Here
    <2>3. CASE q # r
        BY <1>2, <1>11, <1>12, <2>1, <2>2, <2>3 DEF CountOf, ChunkOf
    <2>4. CASE q = r
        BY <1>2, <1>3, <1>8, <1>11, <1>12, <2>1, <2>4 DEF CountOf, ChunkOf, Loading
    <2> QED
        BY <2>3, <2>4
<1>16. FlightInv'
    <2>1. phase # "idle" /\ phase' # "idle" /\ inflight' = inflight /\ victims' = victims
        BY <1>2
    <2>2. \A q \in Requests : q # r =>
              /\ status'[q] = status[q] /\ sched'[q] = sched[q]
              /\ computed'[q] = computed[q] /\ output'[q] = output[q]
        BY <1>2, <1>11
    <2> QED
        BY <1>1, <1>3, <2>1, <2>2, FlightFrame
<1>17. BlockInv'
    <2>1. Total(held)' <= NumBlocks
        <3>1. /\ Total(held') = (Total(held) - held[r]) + h /\ Total(held) \in Nat
            BY <1>1, <1>2, <1>3, <1>10, TotalExcept DEF TypeInv
        <3> QED
            BY <1>1, <1>4, <1>10, <3>1, BlockSizes DEF BlockInv
    <2> SUFFICES ASSUME NEW q \in Requests PROVE BlocksOf(q)'
        BY <2>1 DEF BlockInv
    <2>2. BlocksOf(q)
        BY <1>1 DEF BlockInv
    <2>3. CASE q # r
        BY <1>2, <1>11, <2>2, <2>3 DEF BlocksOf
    <2>4. CASE q = r
        <3>1. computed'[q] + sched'[q] = c /\ computed[r] + sched[r] = computed[r]
            BY <1>2, <1>3, <1>4, <1>8, <1>11, <2>4
        <3>2. /\ Blocks(Min({c, MaxModelLen})) <= Blocks(Min({computed[r], MaxModelLen}))
              /\ Blocks(Min({c, MaxModelLen})) \in Nat
              /\ Blocks(Min({computed[r], MaxModelLen})) \in Nat
              /\ c = 0 => Blocks(Min({c, MaxModelLen})) = 0
            BY <1>4, <1>8, CappedBlocks
        <3>3. Blocks(Min({computed[r], MaxModelLen})) <= held[r]
            BY <1>6, <3>1 DEF BlocksOf
        <3>4. h = 0 => c = 0 \/ held[r] = 0
            BY <1>8 DEF h, c
        <3>5. Blocks(Min({c, MaxModelLen})) <= h
            <4>1. CASE h = held[r]
                BY <1>4, <3>2, <3>3, <4>1
            <4>2. CASE h # held[r]
                BY <3>2, <3>4, <4>2 DEF h
            <4> QED
                BY <4>1, <4>2
        <3> QED
            BY <1>9, <1>11, <2>4, <3>1, <3>5 DEF BlocksOf
    <2> QED
        BY <2>3, <2>4
<1>18. LoadInv'
    <2>1. Of({Loading})' = Of({Loading}) \ {r}
        BY <1>2, <1>3, <1>11 DEF Of, Loading
    <2>2. \A q \in Of({Loading}) \ {r} :
              q \in Requests /\ computed'[q] = computed[q] /\ NumTokens(q)' = NumTokens(q)
        BY <1>11, <1>12 DEF Of
    <2> QED
        BY <1>1, <1>2, <2>1, <2>2 DEF LoadInv
<1>19. AlignInv'
    <2> SUFFICES ASSUME NEW q \in Requests PROVE ChunkAligned(q, sched[q])'
        BY DEF AlignInv
    <2>1. ChunkAligned(q, sched[q])
        BY <1>1 DEF AlignInv
    <2>2. computed'[q] = computed[q] \/ WholeHits
        BY <1>8, <1>11
    <2> QED
        BY <1>2, <1>12, <2>1, <2>2 DEF ChunkAligned, LastCachePosition, Prefilling
<1>20. PhaseInv'
    <2>1. Of({"WAITING"}) \subseteq Of({"WAITING"})'
        BY <1>2, <1>3, <1>11 DEF Of
    <2> QED
        BY <1>1, <1>2, <2>1 DEF PhaseInv
<1> QED
    BY <1>13, <1>14, <1>15, <1>16, <1>17, <1>18, <1>19, <1>20 DEF IInv

\* What is known of the next waiting request once the caches have been asked.
LEMMA HitFacts ==
    ASSUME IInv, phase = "waiting", WaitingLeft, status[NextWaiting] # Loading,
           NEW h \in Hits(NextWaiting)
    PROVE  /\ NumTokens(NextWaiting) \in Nat \ {0} /\ NumTokens(NextWaiting) < MaxModelLen
           /\ Known(h) \in Nat /\ Known(h) <= NumTokens(NextWaiting)
           /\ ~h.async \/ ~WholeHits => Known(h) < NumTokens(NextWaiting)
           /\ Known(h) % BlockSize = 0 \/ Known(h) = computed[NextWaiting]
           /\ h.async => Depth = 1 /\ Known(h) > 0 /\ Known(h) % BlockSize = 0
<1> DEFINE r == NextWaiting
           k == Known(h)
<1>1. TypeInv /\ r \in Requests /\ status[r] = "WAITING" /\ CountOf(r)
    BY NextOne DEF IInv, CountInv
<1>2. k = IF computed[r] > 0 THEN computed[r] ELSE h.local + h.external
    BY DEF Known
<1>3. h \in Hits(r)
    OBVIOUS
<1> HIDE DEF r, k
<1>4. /\ computed[r] \in Nat /\ NumTokens(r) \in Nat \ {0} /\ NumTokens(r) < MaxModelLen
      /\ computed[r] < NumTokens(r)
    BY <1>1, Ranges DEF CountOf
<1>5. CASE computed[r] > 0
    <2>1. h = NoHit
        BY <1>3, <1>5 DEF Hits
    <2>3. h.async = FALSE
        BY <2>1 DEF NoHit
    <2>2. k = computed[r]
        BY <1>2, <1>5
    <2> QED
        BY <1>4, <2>2, <2>3 DEF r, k
<1>6. CASE ~(computed[r] > 0)
    <2>1. /\ h.local \in {BlockSize * n : n \in LocalHits}
          /\ h.external \in {0} \union {BlockSize * n : n \in ExternalHits}
          /\ h.async => h.external > 0
          /\ \/ h.local + h.external < NumTokens(r)
             \/ WholeHits /\ h.async /\ h.local + h.external = NumTokens(r)
        BY <1>3, <1>6 DEF Hits
    <2>2. PICK m \in LocalHits : h.local = BlockSize * m
        BY <2>1
    <2>3. m \in Nat
        BY Constants
    <2>4. h.local \in Nat /\ h.local % BlockSize = 0
        BY <2>2, <2>3, BlockSizes, Multiple
    <2>5. h.external \in Nat /\ h.external % BlockSize = 0
          /\ (h.external > 0 => ExternalHits # {})
        <3>1. CASE h.external = 0
            BY <3>1, BlockSizes
        <3>2. CASE h.external # 0
            <4>1. PICK n \in ExternalHits : h.external = BlockSize * n
                BY <2>1, <3>2
            <4>2. n \in Nat
                BY Constants
            <4> QED
                BY <4>1, <4>2, BlockSizes, Multiple
        <3> QED
            BY <3>1, <3>2
    <2>6. k = h.local + h.external
        BY <1>2, <1>6
    <2>7. k \in Nat /\ k % BlockSize = 0
        <3>1. h.local \in Int /\ h.external \in Int
            BY <2>4, <2>5
        <3>2. (h.local + h.external) % BlockSize = 0
            BY <2>4, <2>5, <3>1, MultiplesAdd
        <3> QED
            BY <2>4, <2>5, <2>6, <3>2
    <2>8. k <= NumTokens(r) /\ (~h.async \/ ~WholeHits => k < NumTokens(r))
        BY <1>4, <2>1, <2>6, <2>7
    <2>9. h.async => Depth = 1 /\ k > 0
        BY <2>1, <2>4, <2>5, <2>6, Constants
    <2> QED
        BY <1>4, <2>7, <2>8, <2>9 DEF r, k
<1> QED
    BY <1>5, <1>6

LEMMA Lookaheads == Lookahead \in Nat
BY Constants DEF Lookahead

LEMMA StartLoadKeeps == ASSUME IInv, NEW h \in AllHits, StartLoad(h) PROVE IInv'
<1> DEFINE r == NextWaiting
           k == Known(h)
           n == Needed(r, k, 0, Lookahead)
<1>1. TypeInv /\ QueueInv /\ CountInv /\ FlightInv /\ BlockInv /\ LoadInv /\ AlignInv /\ PhaseInv
    BY DEF IInv
<1>2. /\ phase = "waiting" /\ WaitingLeft /\ status[r] # Loading /\ h \in Hits(r) /\ h.async
      /\ PopWaiting /\ held' = [held EXCEPT ![r] = n]
      /\ status' = [status EXCEPT ![r] = Loading] /\ computed' = [computed EXCEPT ![r] = k]
      /\ passed' = Prepend(passed, r)
      /\ UNCHANGED <<output, spec, running, phase, index, cur, demand, budget, sched, drafts,
                     victims, received, failed, faults, inflight>>
    BY DEF StartLoad, Visit, loopVars, loadVars
<1>3. n - held[r] <= Free
    <2>1. Fits(r, k, NewTokens(h), Lookahead) /\ NewTokens(h) = 0
        BY <1>2 DEF StartLoad, Admissible, NewTokens
    <2> QED
        BY <2>1 DEF Fits
<1>4. /\ r \in Requests /\ sched[r] = 0 /\ drafts[r] = 0 /\ Here(r) /\ status[r] = "WAITING"
    BY <1>2, NextOne
<1>5. /\ NumTokens(r) \in Nat \ {0} /\ NumTokens(r) < MaxModelLen
      /\ k \in Nat /\ k <= NumTokens(r) /\ (~WholeHits => k < NumTokens(r))
      /\ Depth = 1 /\ k > 0 /\ k % BlockSize = 0
    BY <1>2, HitFacts
<1>6. n \in Nat /\ n >= held[r] /\ n >= Blocks(Min({k + 0, MaxModelLen}))
    <2>1. held[r] \in Nat /\ 0 \in Nat
        BY <1>1, <1>4, Ranges
    <2> QED
        BY <2>1, <1>5, Lookaheads, NeededBlocks
<1>7. /\ QueueInv'
      /\ waiting' \in Seq(Requests) /\ skipped' \in Seq(Requests) /\ passed' \in Seq(Requests)
    <2>1. /\ \A q \in Requests : q # r => status'[q] = status[q]
          /\ status'[r] \in {"WAITING", Loading}
        BY <1>1, <1>2, <1>4 DEF TypeInv
    <2> QED
        BY <1>2, <2>1, PassedOver
<1> HIDE DEF r, k, n
<1>8. /\ status'[r] = Loading /\ computed'[r] = k /\ held'[r] = n
      /\ \A q \in Requests : q # r =>
            status'[q] = status[q] /\ computed'[q] = computed[q] /\ held'[q] = held[q]
    BY <1>1, <1>2, <1>4 DEF TypeInv
<1>9. \A q \in Requests : NumTokens(q)' = NumTokens(q)
    BY <1>2 DEF NumTokens
<1>10. TypeInv'
    <2>1. status' \in [Requests -> Statuses]
        BY <1>1, <1>2 DEF TypeInv, Statuses
    <2>2. computed' \in [Requests -> 0..MaxModelLen]
        <3>1. k \in 0..MaxModelLen
            BY <1>5, BlockSizes
        <3> QED
            BY <1>1, <1>2, <3>1 DEF TypeInv
    <2>3. held' \in [Requests -> Nat]
        BY <1>1, <1>2, <1>6 DEF TypeInv
    <2> QED
        BY <1>1, <1>2, <1>7, <2>1, <2>2, <2>3 DEF TypeInv
<1>11. CountInv'
    <2> SUFFICES ASSUME NEW q \in Requests PROVE CountOf(q)' /\ ChunkOf(q)'
        BY DEF CountInv
    <2>1. CountOf(q) /\ ChunkOf(q)
        BY <1>1 DEF CountInv
    <2>2. Here(q)' <=> Here(q)
        BY <1>2 DEF Here
    <2>3. CASE q # r
        BY <1>2, <1>8, <1>9, <2>1, <2>2, <2>3 DEF CountOf, ChunkOf
    <2>4. CASE q = r
        BY <1>2, <1>4, <1>5, <1>8, <1>9, <2>1, <2>4 DEF CountOf, ChunkOf, Loading
    <2> QED
        BY <2>3, <2>4
<1>12. FlightInv'
    <2>1. phase # "idle" /\ phase' # "idle" /\ inflight' = inflight /\ victims' = victims
        BY <1>2
    <2>2. \A q \in Requests : q # r =>
              /\ status'[q] = status[q] /\ sched'[q] = sched[q]
              /\ computed'[q] = computed[q] /\ output'[q] = output[q]
        BY <1>2, <1>8
    <2> QED
        BY <1>1, <1>4, <2>1, <2>2, FlightFrame
<1>13. BlockInv'
    <2>1. Total(held)' <= NumBlocks
        <3>1. Total(held') = (Total(held) - held[r]) + n /\ Total(held) \in Nat /\ held[r] \in Nat
            BY <1>1, <1>2, <1>4, <1>6, TotalExcept DEF TypeInv
        <3>2. n - held[r] <= NumBlocks - Total(held)
            BY <1>3 DEF Free
        <3> QED
            BY <1>6, <3>1, <3>2, BlockSizes
    <2> SUFFICES ASSUME NEW q \in Requests PROVE BlocksOf(q)'
        BY <2>1 DEF BlockInv
    <2>2. BlocksOf(q)
        BY <1>1 DEF BlockInv
    <2>3. CASE q # r
        BY <1>2, <1>8, <2>2, <2>3 DEF BlocksOf
    <2>4. CASE q = r
        BY <1>2, <1>4, <1>6, <1>8, <2>4 DEF BlocksOf, Loading
    <2> QED
        BY <2>3, <2>4
<1>14. LoadInv'
    <2>1. Of({Loading})' = Of({Loading}) \union {r}
        BY <1>4, <1>8 DEF Of
    <2>2. \A q \in Of({Loading}) :
              q \in Requests /\ q # r /\ computed'[q] = computed[q] /\ NumTokens(q)' = NumTokens(q)
        BY <1>4, <1>8, <1>9 DEF Of, Loading
    <2>3. r \notin failed
        BY <1>1, <1>4 DEF TypeInv, LoadInv, Of, Loading
    <2>4. \A q \in Of({Loading})' : q \in Requests
        BY DEF Of
    <2> HIDE DEF Of
    <2>5. received' \subseteq Of({Loading})'
        BY <1>1, <1>2, <2>1 DEF LoadInv
    <2>6. ASSUME NEW q \in Of({Loading})'
          PROVE  /\ Depth = 1 /\ computed'[q] % BlockSize = 0
                 /\ ~WholeHits \/ q \in failed' => computed'[q] < NumTokens(q)'
                 /\ q \notin failed' => computed'[q] > 0
        <3>1. CASE q = r
            <4>1. NumTokens(q)' = NumTokens(r) /\ computed'[q] = k
                BY <1>8, <1>9, <2>4, <3>1
            <4>2. q \notin failed'
                BY <1>2, <2>3, <3>1
            <4> QED
                BY <1>5, <4>1, <4>2
        <3>2. CASE q # r
            <4>1. q \in Of({Loading})
                BY <2>1, <3>2
            <4>2. /\ Depth = 1 /\ computed[q] % BlockSize = 0
                  /\ ~WholeHits \/ q \in failed => computed[q] < NumTokens(q)
                  /\ q \notin failed => computed[q] > 0
                BY <1>1, <4>1 DEF LoadInv
            <4> QED
                BY <1>2, <2>2, <4>1, <4>2
        <3> QED
            BY <3>1, <3>2
    <2> QED
        BY <2>5, <2>6 DEF LoadInv
<1>15. AlignInv'
    <2> SUFFICES ASSUME NEW q \in Requests PROVE ChunkAligned(q, sched[q])'
        BY DEF AlignInv
    <2>1. ChunkAligned(q, sched[q])
        BY <1>1 DEF AlignInv
    <2>2. CASE q # r
        BY <1>2, <1>8, <1>9, <2>1, <2>2 DEF ChunkAligned, LastCachePosition, Prefilling
    <2>3. CASE q = r
        <3>1. LastCachePosition(q) \in Nat /\ LastCachePosition(q)' = LastCachePosition(q)
            <4>1. NumTokens(q) \in Nat
                BY <1>5, <2>3
            <4>2. LastCachePosition(q) \in 0..NumTokens(q)
                BY <4>1, LastPosition
            <4> QED
                BY <1>9, <4>1, <4>2 DEF LastCachePosition
        <3>2. k + 0 = k
            BY <1>5
        <3> QED
            BY <1>2, <1>4, <1>5, <1>8, <2>3, <3>1, <3>2 DEF ChunkAligned
    <2> QED
        BY <2>2, <2>3
<1>16. PhaseInv'
    <2>1. victims' \subseteq Of({"WAITING"})'
        BY <1>1, <1>2 DEF PhaseInv
    <2> QED
        BY <1>1, <1>2, <2>1 DEF PhaseInv
<1> QED
    BY <1>7, <1>10, <1>11, <1>12, <1>13, <1>14, <1>15, <1>16 DEF IInv

LEMMA AdmitKeeps == ASSUME IInv, NEW h \in AllHits, Admit(h) PROVE IInv'
<1> DEFINE r == NextWaiting
           k == Known(h)
           n == NewTokens(h)
           b == Needed(r, k, n, Lookahead)
<1>1. TypeInv /\ QueueInv /\ CountInv /\ FlightInv /\ BlockInv /\ LoadInv /\ AlignInv /\ PhaseInv
    BY DEF IInv
<1>2. /\ phase = "waiting" /\ WaitingLeft /\ status[r] # Loading /\ h \in Hits(r) /\ ~h.async
      /\ PopWaiting /\ held' = [held EXCEPT ![r] = b]
      /\ status' = [status EXCEPT ![r] = "RUNNING"] /\ computed' = [computed EXCEPT ![r] = k]
      /\ sched' = [sched EXCEPT ![r] = n] /\ budget' = budget - n
      /\ running' = Append(running, r)
      /\ UNCHANGED <<output, spec, phase, index, cur, demand, drafts, victims, passed,
                     received, failed, faults, inflight>>
    BY DEF Admit, Visit, loopVars, loadVars
<1>3. n # 0 /\ b - held[r] <= Free
    BY <1>2 DEF Admit, Admissible, Fits
<1>4. /\ r \in Requests /\ sched[r] = 0 /\ drafts[r] = 0 /\ Here(r) /\ status[r] = "WAITING"
      /\ r \in ToSet(waiting) \union ToSet(skipped)
      /\ Queue(waiting)' /\ Queue(skipped)'
      /\ ToSet(waiting)' = ToSet(waiting) \ {r} /\ ToSet(skipped)' = ToSet(skipped) \ {r}
    BY <1>2, NextOne
<1>5. /\ NumTokens(r) \in Nat \ {0} /\ NumTokens(r) < MaxModelLen
      /\ k \in Nat /\ k < NumTokens(r)
      /\ k % BlockSize = 0 \/ k = computed[r]
    BY <1>2, HitFacts
<1>6. budget \in Nat /\ budget <= MaxScheduled /\ MaxScheduled \in Nat /\ MaxModelLen \in Nat
    BY <1>1, Constants, BlockSizes DEF TypeInv
<1> DEFINE w == Min({Wanted(h), budget})
<1>7. w \in Nat /\ w <= NumTokens(r) - k /\ w <= budget
    <2>1. Wanted(h) \in 0..(NumTokens(r) - k)
        <3>1. NumTokens(r) - k \in Nat
            BY <1>5
        <3> QED
            BY <3>1, Threshes DEF Wanted
    <2>2. Wanted(h) \in Int /\ budget \in Int
        BY <1>5, <1>6, <2>1
    <2>3. w = IF Wanted(h) <= budget THEN Wanted(h) ELSE budget
        BY <2>2, MinMax
    <2> HIDE DEF w
    <2> QED
        BY <1>5, <1>6, <2>1, <2>3
<1>8. n = Split(r, w, k)
    BY <1>2 DEF NewTokens
<1> HIDE DEF w
<1>9. n \in Nat /\ n >= 1 /\ n <= budget /\ k + n <= NumTokens(r)
    <2>1. Split(r, w, k) \in 0..w
        BY <1>5, <1>7, SplitChunk
    <2> HIDE DEF n
    <2> QED
        BY <1>3, <1>5, <1>6, <1>7, <1>8, <2>1
<1>10. b \in Nat /\ b >= held[r] /\ b >= Blocks(Min({k + n, MaxModelLen}))
    <2>1. held[r] \in Nat
        BY <1>1, <1>4, Ranges
    <2> QED
        BY <2>1, <1>5, <1>9, Lookaheads, NeededBlocks
<1>11. Align /\ ~WholeHits /\ Prefilling(r, k) /\ k < LastCachePosition(r) =>
           /\ k % BlockSize = 0 /\ (k + n) % BlockSize = 0
           /\ k + n <= LastCachePosition(r)
    <2> SUFFICES ASSUME Align, ~WholeHits, Prefilling(r, k), k < LastCachePosition(r)
                 PROVE  /\ k % BlockSize = 0 /\ (k + n) % BlockSize = 0
                        /\ k + n <= LastCachePosition(r)
        OBVIOUS
    <2> HIDE DEF n, k, r
    <2>1. k % BlockSize = 0
        <3>1. ChunkAligned(r, sched[r])
            BY <1>1, <1>4 DEF AlignInv
        <3> QED
            BY <1>5, <3>1 DEF ChunkAligned
    <2>2. /\ (k + Split(r, w, k)) % BlockSize = 0
          /\ k + Split(r, w, k) <= LastCachePosition(r)
        BY <1>5, <1>7, <2>1, SplitChunk
    <2> QED
        BY <1>8, <2>1, <2>2
<1> HIDE DEF r, k, n, b
<1>12. /\ status'[r] = "RUNNING" /\ computed'[r] = k /\ held'[r] = b /\ sched'[r] = n
       /\ \A q \in Requests : q # r =>
             /\ status'[q] = status[q] /\ computed'[q] = computed[q] /\ held'[q] = held[q]
             /\ sched'[q] = sched[q]
    BY <1>1, <1>2, <1>4 DEF TypeInv
<1>13. \A q \in Requests : NumTokens(q)' = NumTokens(q)
    BY <1>2 DEF NumTokens
<1>14. Queue(running') /\ ToSet(running') = ToSet(running) \union {r}
    <2>1. Queue(running) /\ r \notin ToSet(running)
        BY <1>1, <1>4, Queues DEF QueueInv, Of
    <2> QED
        BY <1>2, <1>4, <2>1, AppendQueue
<1>15. TypeInv'
    <2>1. status' \in [Requests -> Statuses]
        BY <1>1, <1>2 DEF TypeInv, Statuses
    <2>2. computed' \in [Requests -> 0..MaxModelLen]
        <3>1. k \in 0..MaxModelLen
            BY <1>5, BlockSizes
        <3> QED
            BY <1>1, <1>2, <3>1 DEF TypeInv
    <2>3. held' \in [Requests -> Nat] /\ sched' \in [Requests -> Nat]
        BY <1>1, <1>2, <1>9, <1>10 DEF TypeInv
    <2>4. running' \in Seq(Requests) /\ waiting' \in Seq(Requests) /\ skipped' \in Seq(Requests)
        BY <1>4, <1>14 DEF Queue
    <2>5. budget' \in 0..MaxScheduled
        BY <1>2, <1>6, <1>9
    <2> QED
        BY <1>1, <1>2, <2>1, <2>2, <2>3, <2>4, <2>5 DEF TypeInv
<1>16. QueueInv'
    <2>1. Of({"RUNNING"})' = Of({"RUNNING"}) \union {r}
        BY <1>4, <1>12 DEF Of
    <2>2. Of({"WAITING", Loading})' = Of({"WAITING", Loading}) \ {r}
        BY <1>4, <1>12 DEF Of, Loading
    <2>3. Of({"WAITING"})' = Of({"WAITING"}) \ {r}
        BY <1>4, <1>12 DEF Of
    <2> HIDE DEF Of
    <2>4. /\ ToSet(running) = Of({"RUNNING"}) /\ ToSet(waiting) \subseteq Of({"WAITING"})
          /\ ToSet(waiting) \union ToSet(skipped) \union ToSet(passed) = Of({"WAITING", Loading})
          /\ ToSet(waiting) \intersect ToSet(skipped) = {}
          /\ ToSet(waiting) \intersect ToSet(passed) = {}
          /\ ToSet(skipped) \intersect ToSet(passed) = {}
          /\ IsInjective(passed)
        BY <1>1 DEF QueueInv
    <2>5. IsInjective(running') /\ IsInjective(waiting') /\ IsInjective(skipped')
          /\ passed' = passed
        BY <1>2, <1>4, <1>14 DEF Queue
    <2>6. ToSet(running') = Of({"RUNNING"})' /\ ToSet(waiting)' \subseteq Of({"WAITING"})'
        BY <1>4, <1>14, <2>1, <2>3, <2>4
    <2>7. r \notin ToSet(passed)
        BY <1>4, <2>4
    <2>8. ToSet(waiting)' \union ToSet(skipped)' \union ToSet(passed) = Of({"WAITING", Loading})'
        BY <1>4, <2>2, <2>4, <2>7
    <2>9. /\ ToSet(waiting)' \intersect ToSet(skipped)' = {}
          /\ ToSet(waiting)' \intersect ToSet(passed) = {}
          /\ ToSet(skipped)' \intersect ToSet(passed) = {}
        BY <1>4, <2>4
    <2> QED
        BY <1>2, <2>4, <2>5, <2>6, <2>8, <2>9 DEF QueueInv
<1>17. CountInv'
    <2> SUFFICES ASSUME NEW q \in Requests PROVE CountOf(q)' /\ ChunkOf(q)'
        BY DEF CountInv
    <2>1. CountOf(q) /\ ChunkOf(q)
        BY <1>1 DEF CountInv
    <2>2. Here(q)' <=> Here(q)
        BY <1>2 DEF Here
    <2>3. CASE q # r
        BY <1>2, <1>12, <1>13, <2>1, <2>2, <2>3 DEF CountOf, ChunkOf
    <2>4. CASE q = r
        <3>1. CountOf(q)'
            BY <1>2, <1>4, <1>5, <1>12, <1>13, <2>1, <2>4 DEF CountOf, Loading
        <3>2. ChunkOf(q)'
            BY <1>2, <1>4, <1>5, <1>6, <1>9, <1>12, <1>13, <2>2, <2>4 DEF ChunkOf
        <3> QED
            BY <3>1, <3>2
    <2> QED
        BY <2>3, <2>4
<1>18. FlightInv'
    <2>1. phase # "idle" /\ phase' # "idle" /\ inflight' = inflight /\ victims' = victims
        BY <1>2
    <2>2. \A q \in Requests : q # r =>
              /\ status'[q] = status[q] /\ sched'[q] = sched[q]
              /\ computed'[q] = computed[q] /\ output'[q] = output[q]
        BY <1>2, <1>12
    <2> QED
        BY <1>1, <1>4, <2>1, <2>2, FlightFrame
<1>19. BlockInv'
    <2>1. Total(held)' <= NumBlocks
        <3>1. Total(held') = (Total(held) - held[r]) + b /\ Total(held) \in Nat /\ held[r] \in Nat
            BY <1>1, <1>2, <1>4, <1>10, TotalExcept DEF TypeInv
        <3>2. b - held[r] <= NumBlocks - Total(held)
            BY <1>3 DEF Free
        <3> QED
            BY <1>10, <3>1, <3>2, BlockSizes
    <2> SUFFICES ASSUME NEW q \in Requests PROVE BlocksOf(q)'
        BY <2>1 DEF BlockInv
    <2>2. BlocksOf(q)
        BY <1>1 DEF BlockInv
    <2>3. CASE q # r
        BY <1>12, <2>2, <2>3 DEF BlocksOf
    <2>4. CASE q = r
        BY <1>10, <1>12, <2>4 DEF BlocksOf
    <2> QED
        BY <2>3, <2>4
<1>20. LoadInv'
    <2>1. Of({Loading})' = Of({Loading})
        BY <1>4, <1>12 DEF Of, Loading
    <2>2. \A q \in Of({Loading}) :
              q \in Requests /\ computed'[q] = computed[q] /\ NumTokens(q)' = NumTokens(q)
        BY <1>4, <1>12, <1>13 DEF Of, Loading
    <2> QED
        BY <1>1, <1>2, <2>1, <2>2 DEF LoadInv
<1>21. AlignInv'
    <2> SUFFICES ASSUME NEW q \in Requests PROVE ChunkAligned(q, sched[q])'
        BY DEF AlignInv
    <2>1. ChunkAligned(q, sched[q])
        BY <1>1 DEF AlignInv
    <2>2. CASE q # r
        BY <1>2, <1>12, <1>13, <2>1, <2>2 DEF ChunkAligned, LastCachePosition, Prefilling
    <2>3. CASE q = r
        BY <1>11, <1>12, <1>13, <2>3 DEF ChunkAligned, LastCachePosition, Prefilling
    <2> QED
        BY <2>2, <2>3
<1>22. PhaseInv'
    <2>1. (budget + Total(sched))' = MaxScheduled
        <3>1. Total(sched') = (Total(sched) - sched[r]) + n /\ Total(sched) \in Nat
            BY <1>1, <1>2, <1>4, <1>9, TotalExcept DEF TypeInv
        <3>2. budget + Total(sched) = MaxScheduled
            BY <1>1, <1>2 DEF PhaseInv
        <3> QED
            BY <1>2, <1>4, <1>6, <1>9, <3>1, <3>2
    <2>2. victims' \subseteq Of({"WAITING"})'
        BY <1>1, <1>2 DEF PhaseInv
    <2>3. Len(running') <= MaxRunning
        <3>1. Len(running) # MaxRunning /\ Len(running) <= MaxRunning
            BY <1>1, <1>2 DEF PhaseInv, WaitingLeft
        <3>2. Len(running') = Len(running) + 1 /\ Len(running) \in Nat
            BY <1>1, <1>2, <1>4 DEF TypeInv
        <3> QED
            BY <3>1, <3>2, Constants
    <2> QED
        BY <1>1, <1>2, <2>1, <2>2, <2>3 DEF PhaseInv
<1> QED
    BY <1>15, <1>16, <1>17, <1>18, <1>19, <1>20, <1>21, <1>22 DEF IInv

\* Prefilling further on was prefilling before.
LEMMA PrefillingBefore ==
    ASSUME NEW r, NumTokens(r) \in Nat, Prompt[r] \in Nat,
           NEW m \in Nat, NEW n \in Nat, m <= n, Prefilling(r, n)
    PROVE  Prefilling(r, m)
<1>1. Max({Prompt[r], NumTokens(r) - 1}) \in Int
    <2> DEFINE p == Prompt[r]
               q == NumTokens(r) - 1
    <2>1. p \in Int /\ q \in Int
        OBVIOUS
    <2> HIDE DEF p, q
    <2>2. Max({p, q}) = IF p >= q THEN p ELSE q
        BY <2>1, MinMax
    <2>3. Max({p, q}) \in Int
        BY <2>1, <2>2
    <2> QED
        BY <2>3 DEF p, q
<1> QED
    BY <1>1 DEF Prefilling

LEMMA FinishKeeps == ASSUME IInv, Finish PROVE IInv'
<1> DEFINE sampled == {r \in Requests : sched[r] > 0 /\ computed[r] + sched[r] >= NumTokens(r)}
           b == [drafts |-> drafts, sampled |-> sampled]
<1>1. TypeInv /\ QueueInv /\ CountInv /\ FlightInv /\ BlockInv /\ LoadInv /\ AlignInv /\ PhaseInv
    BY DEF IInv
<1>2. /\ phase = "finish" /\ skipped' \in Requeued(skipped, passed)
      /\ computed' = [r \in Requests |-> computed[r] + sched[r]]
      /\ inflight' = Append(inflight, b)
      /\ phase' = "idle" /\ index' = 1 /\ cur' = 1 /\ demand' = 0
      /\ budget' = 0 /\ sched' = Zero /\ drafts' = Zero
      /\ victims' = {} /\ passed' = <<>>
      /\ UNCHANGED <<status, output, spec, held, running, waiting, received, failed, faults>>
    BY DEF Finish, loadVars
<1>3. ASSUME NEW r \in Requests
      PROVE  /\ CountOf(r) /\ ChunkOf(r) /\ BlocksOf(r) /\ ChunkAligned(r, sched[r])
             /\ computed[r] \in Nat /\ computed[r] <= MaxModelLen /\ MaxModelLen \in Nat
             /\ sched[r] \in Nat /\ drafts[r] \in Nat /\ NumTokens(r) \in Nat \ {0}
             /\ computed'[r] = computed[r] + sched[r] /\ sched'[r] = 0 /\ drafts'[r] = 0
             /\ NumTokens(r)' = NumTokens(r)
    <2>1. /\ computed[r] \in Nat /\ computed[r] <= MaxModelLen /\ MaxModelLen \in Nat
          /\ sched[r] \in Nat /\ drafts[r] \in Nat /\ NumTokens(r) \in Nat \ {0}
        BY <1>1, Ranges, BlockSizes
    <2>2. computed'[r] = computed[r] + sched[r] /\ sched'[r] = 0 /\ drafts'[r] = 0
        BY <1>2 DEF Zero
    <2>3. NumTokens(r)' = NumTokens(r)
        BY <1>2 DEF NumTokens
    <2> QED
        BY <1>1, <2>1, <2>2, <2>3 DEF CountInv, BlockInv, AlignInv
<1>4. \A r \in Requests : computed'[r] <= MaxModelLen
    BY <1>3 DEF ChunkOf
<1>19. PICK n : n = Len(inflight)
    OBVIOUS
<1>5. /\ inflight \in Seq(Batches) /\ n \in Nat /\ DOMAIN inflight = 1..n
      /\ n < Depth /\ n + 1 <= Depth
    <2>1. inflight \in Seq(Batches) /\ n \in Nat /\ DOMAIN inflight = 1..n /\ n < Depth
        BY <1>1, <1>2, <1>19 DEF TypeInv, FlightInv
    <2> QED
        BY <2>1, Constants
<1>6. b \in Batches
    BY <1>1 DEF TypeInv, Batches
<1> HIDE DEF sampled
<1>7. /\ inflight' \in Seq(Batches) /\ Len(inflight') = n + 1 /\ DOMAIN inflight' = 1..(n + 1)
      /\ \A i \in 1..n : inflight'[i] = inflight[i]
      /\ inflight'[n + 1].drafts = drafts /\ inflight'[n + 1].sampled = sampled
    BY <1>2, <1>5, <1>6, <1>19
<1>8. Queue(skipped') /\ ToSet(skipped') = ToSet(skipped) \union ToSet(passed)
    <2>1. Queue(skipped) /\ Queue(passed) /\ ToSet(skipped) \intersect ToSet(passed) = {}
        BY <1>1, Queues DEF QueueInv
    <2> QED
        BY <1>2, <2>1, RequeuedQueue
<1>9. TypeInv'
    <2>1. computed' \in [Requests -> 0..MaxModelLen]
        <3>1. \A r \in Requests : computed[r] + sched[r] \in 0..MaxModelLen
            BY <1>3, <1>4
        <3> QED
            BY <1>2, <3>1
    <2>2. Zero \in [Requests -> 0..NumSpec] /\ Zero \in [Requests -> Nat]
        BY Constants DEF Zero
    <2>3. 1 \in 1..(Cardinality(Requests) + 1) /\ 1 \in Requests /\ 0 \in 0..MaxScheduled
        BY FiniteRequests, Constants
    <2>4. skipped' \in Seq(Requests) /\ passed' \in Seq(Requests)
        BY <1>2, <1>8 DEF Queue
    <2>5. inflight' \in Seq(Batches) /\ Len(inflight') <= Depth
        BY <1>5, <1>7
    <2> QED
        BY <1>1, <1>2, <2>1, <2>2, <2>3, <2>4, <2>5 DEF TypeInv
<1>10. QueueInv'
    <2>1. \A s : Of(s)' = Of(s)
        BY <1>2 DEF Of
    <2>2. ToSet(passed') = {} /\ IsInjective(passed')
        BY <1>2, EmptyQueue DEF Queue
    <2> HIDE DEF Of
    <2>3. /\ ToSet(waiting) \union ToSet(skipped) \union ToSet(passed) = Of({"WAITING", Loading})
          /\ ToSet(waiting) \intersect ToSet(skipped) = {}
          /\ ToSet(waiting) \intersect ToSet(passed) = {}
        BY <1>1 DEF QueueInv
    <2>4. /\ ToSet(waiting) \union ToSet(skipped') \union ToSet(passed') = Of({"WAITING", Loading})
          /\ ToSet(waiting) \intersect ToSet(skipped') = {}
          /\ ToSet(waiting) \intersect ToSet(passed') = {}
          /\ ToSet(skipped') \intersect ToSet(passed') = {}
        BY <1>8, <2>2, <2>3
    <2> QED
        BY <1>1, <1>2, <1>8, <2>1, <2>2, <2>4 DEF QueueInv, Queue
<1>11. ASSUME NEW r \in Requests, Here(r)' PROVE Here(r) /\ r \notin sampled
    <2>1. \A i \in DOMAIN inflight' : r \notin inflight'[i].sampled
        BY <1>11 DEF Here
    <2>2. r \notin inflight'[n + 1].sampled
        BY <1>5, <1>7, <2>1
    <2>3. ASSUME NEW i \in DOMAIN inflight PROVE r \notin inflight[i].sampled
        BY <1>5, <1>7, <2>1
    <2> QED
        BY <1>7, <2>2, <2>3 DEF Here
<1>12. CountInv'
    <2> SUFFICES ASSUME NEW r \in Requests PROVE CountOf(r)' /\ ChunkOf(r)'
        BY DEF CountInv
    <2>1. ChunkOf(r)'
        BY <1>3 DEF ChunkOf
    <2>2. status[r] = "RUNNING" /\ Here(r)' => computed'[r] < NumTokens(r)
        BY <1>3, <1>11 DEF CountOf, sampled
    <2>3. CountOf(r)'
        BY <1>2, <1>3, <2>2 DEF CountOf, Loading
    <2> QED
        BY <2>1, <2>3
<1>13. \A r \in sampled :
          /\ r \in Requests /\ status[r] = "RUNNING" /\ Here(r)
          /\ computed[r] + sched[r] = NumTokens(r) + drafts[r]
    BY <1>3 DEF sampled, CountOf, ChunkOf
<1>14. FlightInv'
    <2>1. ASSUME NEW i \in 1..n, NEW r \in inflight[i].sampled PROVE SampledBy(i, r)'
        <3>1. SampledBy(i, r) /\ r \in Requests
            <4>1. inflight[i] \in Batches
                BY <1>5
            <4> QED
                BY <1>1, <1>5, <4>1 DEF FlightInv, Batches
        <3>2. n = 1
            BY <1>5, Constants
        <3>3. CASE status[r] = "RUNNING"
            <4>1. /\ sched[r] = 0 /\ computed[r] = NumTokens(r) + inflight[i].drafts[r]
                BY <3>1, <3>3 DEF SampledBy
            <4>2. computed'[r] = computed[r]
                BY <1>3, <3>1, <4>1
            <4> QED
                BY <1>2, <1>3, <1>7, <3>1, <3>3, <4>1, <4>2 DEF SampledBy
        <3>4. CASE status[r] # "RUNNING"
            <4>1. status[r] = "WAITING" /\ computed[r] = 0 /\ i = 1
                BY <3>1, <3>4 DEF SampledBy
            <4>2. sched[r] = 0 /\ computed'[r] = 0
                BY <1>3, <3>1, <4>1 DEF CountOf
            <4>3. Len(inflight') = 2
                BY <1>7, <3>2
            <4> QED
                BY <1>2, <4>1, <4>2, <4>3 DEF SampledBy
        <3> QED
            BY <3>3, <3>4
    <2>2. ASSUME NEW r \in sampled PROVE SampledBy(n + 1, r)'
        <3>1. r \in Requests /\ status[r] = "RUNNING"
              /\ computed[r] + sched[r] = NumTokens(r) + drafts[r]
            BY <1>13
        <3> QED
            BY <1>2, <1>3, <1>7, <3>1 DEF SampledBy
    <2>3. ASSUME NEW i \in 1..(n + 1), NEW r \in inflight'[i].sampled PROVE SampledBy(i, r)'
        <3>1. i \in 1..n \/ i = n + 1
            BY <1>5
        <3> HIDE DEF SampledBy
        <3>2. CASE i \in 1..n
            BY <1>7, <2>1, <3>2
        <3>3. CASE i = n + 1
            BY <1>7, <2>2, <3>3
        <3> QED
            BY <3>1, <3>2, <3>3
    <2>4. ASSUME NEW i \in 1..(n + 1), NEW r \in Requests, inflight'[i].drafts[r] > 0
          PROVE  r \in inflight'[i].sampled
        <3>1. i \in 1..n \/ i = n + 1
            BY <1>5
        <3>2. CASE i \in 1..n
            BY <1>1, <1>5, <1>7, <2>4, <3>2 DEF FlightInv
        <3>3. CASE i = n + 1
            <4>1. drafts[r] > 0
                BY <1>7, <2>4, <3>3
            <4>2. sched[r] > 0 /\ computed[r] + sched[r] >= NumTokens(r)
                BY <1>3, <4>1 DEF ChunkOf
            <4> QED
                BY <1>7, <3>3, <4>2 DEF sampled
        <3> QED
            BY <3>1, <3>2, <3>3
    <2>5. ASSUME NEW i \in 1..(n + 1), NEW j \in 1..(n + 1), i # j
          PROVE  inflight'[i].sampled \intersect inflight'[j].sampled = {}
        <3>1. (i \in 1..n \/ i = n + 1) /\ (j \in 1..n \/ j = n + 1)
            BY <1>5
        <3>2. CASE i \in 1..n /\ j \in 1..n
            BY <1>1, <1>5, <1>7, <2>5, <3>2 DEF FlightInv
        <3>3. \A l \in 1..n : inflight[l].sampled \intersect sampled = {}
            BY <1>5, <1>13 DEF Here
        <3>4. CASE i \in 1..n /\ j = n + 1
            BY <1>7, <3>3, <3>4
        <3>5. CASE i = n + 1 /\ j \in 1..n
            BY <1>7, <3>3, <3>5
        <3> QED
            BY <2>5, <3>1, <3>2, <3>4, <3>5
    <2> HIDE DEF SampledBy
    <2> QED
        BY <1>2, <1>7, <2>3, <2>4, <2>5 DEF FlightInv
<1>15. BlockInv'
    <2>1. Total(held)' <= NumBlocks
        BY <1>1, <1>2 DEF BlockInv
    <2> SUFFICES ASSUME NEW r \in Requests PROVE BlocksOf(r)'
        BY <2>1 DEF BlockInv
    <2>2. BlocksOf(r) /\ held'[r] = held[r] /\ status'[r] = status[r]
        BY <1>2, <1>3
    <2>3. computed'[r] + sched'[r] = computed[r] + sched[r]
        BY <1>3
    <2>4. computed'[r] = 0 => computed[r] = 0
        BY <1>3
    <2> QED
        BY <2>2, <2>3, <2>4 DEF BlocksOf
<1>16. LoadInv'
    <2>1. Of({Loading})' = Of({Loading})
        BY <1>2 DEF Of
    <2>2. \A r \in Of({Loading}) :
              r \in Requests /\ computed'[r] = computed[r] /\ NumTokens(r)' = NumTokens(r)
        BY <1>3 DEF Of, CountOf, Loading
    <2> QED
        BY <1>1, <1>2, <2>1, <2>2 DEF LoadInv
<1>17. AlignInv'
    <2> SUFFICES ASSUME NEW r \in Requests PROVE ChunkAligned(r, sched[r])'
        BY DEF AlignInv
    <2>1. /\ LastCachePosition(r)' = LastCachePosition(r)
          /\ \A m : Prefilling(r, m)' <=> Prefilling(r, m)
        BY <1>3 DEF LastCachePosition, Prefilling
    <2>2. LastCachePosition(r) \in Nat /\ Prompt[r] \in Nat
        <3>1. LastCachePosition(r) \in 0..NumTokens(r)
            BY <1>3, LastPosition
        <3> QED
            BY <1>1, <1>3, <3>1, Ranges
    <2> DEFINE c == computed[r] + sched[r]
    <2>3. c \in Nat /\ computed[r] <= c /\ c + 0 = c
        BY <1>3
    <2>4. ASSUME Align, ~WholeHits, Prefilling(r, c), c < LastCachePosition(r)
          PROVE  c % BlockSize = 0 /\ c <= LastCachePosition(r)
        <3>1. Prefilling(r, computed[r])
            BY <1>3, <2>2, <2>3, <2>4, PrefillingBefore
        <3>2. computed[r] < LastCachePosition(r)
            BY <1>3, <2>2, <2>3, <2>4
        <3> QED
            BY <1>3, <2>4, <3>1, <3>2 DEF ChunkAligned
    <2>5. computed'[r] = c /\ sched'[r] = 0
        BY <1>3
    <2>6. Prefilling(r, computed[r])' <=> Prefilling(r, c)
        BY <1>3, <2>5 DEF Prefilling
    <2> HIDE DEF c, Prefilling
    <2> QED
        BY <2>1, <2>3, <2>4, <2>5, <2>6 DEF ChunkAligned
<1>18. PhaseInv'
    BY <1>1, <1>2 DEF PhaseInv
<1> QED
    BY <1>9, <1>10, <1>12, <1>14, <1>15, <1>16, <1>17, <1>18 DEF IInv

LEMMA SubmitKeeps == ASSUME IInv, NEW r \in Requests, Submit(r) PROVE IInv'
<1>1. TypeInv /\ QueueInv /\ CountInv /\ FlightInv /\ BlockInv /\ LoadInv /\ AlignInv /\ PhaseInv
    BY DEF IInv
<1>2. /\ phase = "idle" /\ status[r] = "NEW"
      /\ status' = [status EXCEPT ![r] = "WAITING"] /\ waiting' = Enqueue(waiting, r)
      /\ UNCHANGED <<computed, output, spec, held, running, skipped, phase, index, cur, demand,
                     budget, sched, drafts, victims, passed, received, failed, faults, inflight>>
    BY DEF Submit, loopVars, batchVars, loadVars
<1>3. status'[r] = "WAITING" /\ \A q \in Requests : q # r => status'[q] = status[q]
    BY <1>1, <1>2 DEF TypeInv
<1>4. /\ CountOf(r) /\ ChunkOf(r) /\ BlocksOf(r) /\ computed[r] = 0 /\ sched[r] = 0 /\ held[r] = 0
      /\ NumTokens(r) \in Nat \ {0}
    <2>1. CountOf(r) /\ ChunkOf(r) /\ BlocksOf(r)
        BY <1>1 DEF CountInv, BlockInv
    <2> QED
        BY <1>1, <1>2, <2>1, Ranges DEF CountOf, BlocksOf
<1>5. r \notin ToSet(waiting) /\ r \notin ToSet(skipped) /\ r \notin ToSet(passed)
    BY <1>1, <1>2 DEF QueueInv, Of, Loading
<1>6. Queue(waiting') /\ ToSet(waiting') = ToSet(waiting) \union {r}
    BY <1>1, <1>2, <1>5, Queues, EnqueueQueue
<1>7. TypeInv'
    <2>1. status' \in [Requests -> Statuses] /\ waiting' \in Seq(Requests)
        BY <1>1, <1>2, <1>6 DEF TypeInv, Statuses, Queue
    <2> QED
        BY <1>1, <1>2, <2>1 DEF TypeInv
<1>8. QueueInv'
    <2>1. Of({"RUNNING"})' = Of({"RUNNING"})
        BY <1>2, <1>3 DEF Of
    <2>2. Of({"WAITING", Loading})' = Of({"WAITING", Loading}) \union {r}
        BY <1>2, <1>3 DEF Of
    <2>3. Of({"WAITING"})' = Of({"WAITING"}) \union {r}
        BY <1>2, <1>3 DEF Of
    <2> HIDE DEF Of
    <2>4. /\ ToSet(running) = Of({"RUNNING"}) /\ ToSet(waiting) \subseteq Of({"WAITING"})
          /\ ToSet(waiting) \union ToSet(skipped) \union ToSet(passed) = Of({"WAITING", Loading})
          /\ ToSet(waiting) \intersect ToSet(skipped) = {}
          /\ ToSet(waiting) \intersect ToSet(passed) = {}
        BY <1>1 DEF QueueInv
    <2>5. ToSet(waiting') \subseteq Of({"WAITING"})'
        BY <1>6, <2>3, <2>4
    <2>6. ToSet(waiting') \union ToSet(skipped) \union ToSet(passed) = Of({"WAITING", Loading})'
        BY <1>6, <2>2, <2>4
    <2>7. /\ ToSet(waiting') \intersect ToSet(skipped) = {}
          /\ ToSet(waiting') \intersect ToSet(passed) = {}
        BY <1>5, <1>6, <2>4
    <2> QED
        BY <1>1, <1>2, <1>6, <2>1, <2>5, <2>6, <2>7 DEF QueueInv, Queue
<1>9. CountInv'
    <2> SUFFICES ASSUME NEW q \in Requests PROVE CountOf(q)' /\ ChunkOf(q)'
        BY DEF CountInv
    <2>1. CountOf(q) /\ ChunkOf(q)
        BY <1>1 DEF CountInv
    <2>2. (Here(q)' <=> Here(q)) /\ NumTokens(q)' = NumTokens(q)
        BY <1>2 DEF Here, NumTokens
    <2>3. CASE q # r
        BY <1>2, <1>3, <2>1, <2>2, <2>3 DEF CountOf, ChunkOf
    <2>4. CASE q = r
        BY <1>2, <1>3, <1>4, <2>1, <2>2, <2>4 DEF CountOf, ChunkOf, Loading
    <2> QED
        BY <2>3, <2>4
<1>10. FlightInv'
    <2>1. inflight \in Seq(Batches) /\ DOMAIN inflight = 1..Len(inflight)
        BY <1>1 DEF TypeInv
    <2>2. ASSUME NEW i \in DOMAIN inflight, NEW q \in inflight[i].sampled
          PROVE  SampledBy(i, q)'
        <3>1. SampledBy(i, q) /\ q \in Requests
            <4>1. inflight[i] \in Batches
                BY <2>1
            <4> QED
                BY <1>1, <4>1 DEF FlightInv, Batches
        <3>2. q # r
            BY <1>2, <3>1 DEF SampledBy
        <3> QED
            BY <1>2, <1>3, <3>1, <3>2 DEF SampledBy, NumTokens
    <2> HIDE DEF SampledBy
    <2>3. \A i \in DOMAIN inflight' : \A q \in inflight'[i].sampled : SampledBy(i, q)'
        BY <1>2, <2>2
    <2> QED
        BY <1>1, <1>2, <2>3 DEF FlightInv
<1>11. BlockInv'
    <2> SUFFICES ASSUME NEW q \in Requests PROVE BlocksOf(q)'
        BY <1>1, <1>2 DEF BlockInv
    <2>1. BlocksOf(q)
        BY <1>1 DEF BlockInv
    <2> QED
        BY <1>2, <1>3, <1>4, <2>1 DEF BlocksOf
<1>12. LoadInv'
    <2>1. Of({Loading})' = Of({Loading})
        BY <1>2, <1>3 DEF Of, Loading
    <2> HIDE DEF Of
    <2> QED
        BY <1>1, <1>2, <2>1 DEF LoadInv, NumTokens
<1>13. AlignInv'
    BY <1>1, <1>2 DEF AlignInv, ChunkAligned, NumTokens, LastCachePosition, Prefilling
<1>14. PhaseInv'
    BY <1>1, <1>2 DEF PhaseInv
<1> QED
    BY <1>7, <1>8, <1>9, <1>10, <1>11, <1>12, <1>13, <1>14 DEF IInv

\* What the oldest batch does to a request: nothing, or one sampled token and those of the
\* drafts it had right, and then it is done or has one token to compute.
LEMMA UpdateRequest ==
    ASSUME IInv, NEW a \in [Requests -> 0..NumSpec], Update(a), NEW r \in Requests
    PROVE  LET done == {q \in Head(inflight).sampled :
                           output[q] + Gain(q, a[q]) = MaxTokens[q]}
           IN  /\ output'[r] \in Nat /\ output'[r] <= MaxTokens[r]
               /\ computed'[r] \in Nat /\ computed'[r] <= computed[r]
               /\ NumTokens(r)' = Prompt[r] + output'[r]
               /\ r \notin Head(inflight).sampled =>
                     /\ r \notin done /\ output'[r] = output[r] /\ computed'[r] = computed[r]
                     /\ NumTokens(r)' = NumTokens(r)
               /\ r \in done => computed'[r] = 0
               /\ r \in Head(inflight).sampled \ done =>
                     /\ output'[r] < MaxTokens[r] /\ output'[r] >= 1
                     /\ \/ status[r] = "RUNNING" /\ computed'[r] = Prompt[r] + output'[r] - 1
                        \/ status[r] = "WAITING" /\ computed[r] = 0 /\ computed'[r] = 0
<1> DEFINE b == Head(inflight)
           done == {q \in b.sampled : output[q] + Gain(q, a[q]) = MaxTokens[q]}
           g == Gain(r, a[r])
<1>1. TypeInv /\ FlightInv /\ CountOf(r)
    BY DEF IInv, CountInv
<1>2. /\ phase = "idle" /\ inflight # <<>> /\ a[r] <= b.drafts[r]
      /\ output'[r] = output[r] + g
      /\ computed'[r] = IF r \in done \/ computed[r] = 0 THEN 0
                        ELSE computed[r] - (b.drafts[r] - a[r])
    BY DEF Update
<1>3. inflight \in Seq(Batches) /\ 1 \in DOMAIN inflight /\ b = inflight[1] /\ b \in Batches
    <2>1. inflight \in Seq(Batches) /\ inflight # <<>>
        BY <1>1, <1>2 DEF TypeInv
    <2>2. 1 \in DOMAIN inflight /\ b = inflight[1]
        BY <2>1
    <2> HIDE DEF b
    <2> QED
        BY <2>1, <2>2
<1>4. g = IF r \in b.sampled THEN Min({1 + a[r], MaxTokens[r] - output[r]}) ELSE 0
    BY DEF Gain
<1>5. r \in done <=> r \in b.sampled /\ output[r] + g = MaxTokens[r]
    OBVIOUS
<1>6. /\ b.drafts[r] \in Nat /\ a[r] \in Nat
      /\ (b.drafts[r] > 0 => r \in b.sampled)
      /\ (r \in b.sampled => SampledBy(1, r))
    <2>1. b.drafts \in [Requests -> 0..NumSpec]
        BY <1>3 DEF Batches
    <2>2. b.drafts[r] \in Nat /\ a[r] \in Nat
        BY <2>1, Constants
    <2> QED
        BY <1>1, <1>3, <2>2 DEF FlightInv
<1>7. /\ output[r] \in Nat /\ output[r] <= MaxTokens[r] /\ MaxTokens[r] \in Nat
      /\ computed[r] \in Nat /\ Prompt[r] \in Nat \ {0} /\ NumTokens(r) = Prompt[r] + output[r]
    BY <1>1, Ranges
<1>8. NumTokens(r)' = Prompt[r] + output'[r]
    BY DEF NumTokens
<1> HIDE DEF done, g
<1>9. CASE r \notin b.sampled
    <2>1. g = 0 /\ r \notin done /\ b.drafts[r] = 0 /\ a[r] = 0
        BY <1>2, <1>4, <1>5, <1>6, <1>9
    <2>2. output'[r] = output[r] /\ computed'[r] = computed[r]
        BY <1>2, <1>7, <2>1
    <2> HIDE DEF b
    <2> QED
        BY <1>7, <1>8, <1>9, <2>1, <2>2 DEF done, b
<1>10. CASE r \in b.sampled
    <2>1. /\ \/ status[r] = "RUNNING" /\ computed[r] = NumTokens(r) + b.drafts[r]
             \/ status[r] = "WAITING" /\ computed[r] = 0
          /\ status[r] # "FINISHED"
        BY <1>3, <1>6, <1>10 DEF SampledBy
    <2>2. output[r] < MaxTokens[r]
        BY <1>1, <2>1 DEF CountOf
    <2>3. /\ g \in Nat /\ g >= 1 /\ output[r] + g <= MaxTokens[r]
          /\ (output[r] + g # MaxTokens[r] => g = 1 + a[r])
        <3> DEFINE p == 1 + a[r]
                   q == MaxTokens[r] - output[r]
        <3>1. p \in Int /\ q \in Int /\ p >= 1 /\ q >= 1
            BY <1>6, <1>7, <2>2
        <3>2. g = Min({p, q})
            BY <1>4, <1>10
        <3>3. output[r] + q = MaxTokens[r]
            BY <1>7
        <3> HIDE DEF p, q
        <3>4. g = IF p <= q THEN p ELSE q
            BY <3>1, <3>2, MinMax
        <3>5. g = p \/ g = q
            BY <3>4
        <3>6. g \in Nat /\ g >= 1 /\ g <= q
            BY <3>1, <3>4
        <3>7. output[r] + g <= MaxTokens[r]
            BY <1>7, <3>1, <3>3, <3>6
        <3>8. output[r] + g # MaxTokens[r] => g = p
            BY <3>3, <3>5
        <3> QED
            BY <3>6, <3>7, <3>8 DEF p
    <2>4. output'[r] \in Nat /\ output'[r] <= MaxTokens[r] /\ output'[r] >= 1
        BY <1>2, <1>7, <2>3
    <2>5. CASE r \in done
        <3>1. computed'[r] = 0
            BY <1>2, <2>5
        <3> HIDE DEF b
        <3> QED
            BY <1>7, <1>8, <1>10, <2>4, <2>5, <3>1 DEF done, b
    <2>6. CASE r \notin done
        <3>1. output'[r] = output[r] + 1 + a[r] /\ output'[r] # MaxTokens[r]
            <4> HIDE DEF b
            <4>1. output[r] + g # MaxTokens[r]
                BY <1>5, <1>10, <2>6
            <4>2. g = 1 + a[r]
                BY <2>3, <4>1
            <4>3. output'[r] = output[r] + g
                BY <1>2
            <4>4. output'[r] = output[r] + (1 + a[r]) /\ output'[r] # MaxTokens[r]
                BY <4>1, <4>2, <4>3
            <4>5. output[r] \in Int /\ a[r] \in Int
                BY <1>6, <1>7
            <4> QED
                BY <4>4, <4>5
        <3>2. CASE status[r] = "WAITING"
            <4>1. computed[r] = 0 /\ computed'[r] = 0
                BY <1>2, <2>1, <3>2
            <4> HIDE DEF b
            <4> QED
                BY <1>7, <1>8, <1>10, <2>4, <2>6, <3>1, <3>2, <4>1 DEF done, b
        <3>3. CASE status[r] # "WAITING"
            <4>1. /\ status[r] = "RUNNING" /\ computed[r] = NumTokens(r) + b.drafts[r]
                  /\ computed[r] # 0
                BY <1>6, <1>7, <2>1, <3>3
            <4>2. computed'[r] = computed[r] - (b.drafts[r] - a[r])
                BY <1>2, <2>6, <4>1
            <4>3. computed'[r] = Prompt[r] + output'[r] - 1 /\ computed'[r] <= computed[r]
                  /\ computed'[r] \in Nat
                <5> DEFINE d == b.drafts[r]
                           n == a[r]
                <5>1. d \in Nat /\ n \in Nat /\ n <= d
                    BY <1>2, <1>6
                <5>2. /\ computed[r] = Prompt[r] + output[r] + d
                      /\ computed'[r] = computed[r] - (d - n)
                      /\ output'[r] = output[r] + 1 + n
                    BY <1>7, <3>1, <4>1, <4>2
                <5> HIDE DEF d, n, b
                <5> QED
                    BY <1>7, <5>1, <5>2
            <4> HIDE DEF b
            <4> QED
                BY <1>7, <1>8, <1>10, <2>4, <2>6, <3>1, <4>1, <4>3 DEF done, b
        <3> QED
            BY <3>2, <3>3
    <2> QED
        BY <2>5, <2>6
<1> QED
    BY <1>9, <1>10

LEMMA UpdateKeeps == ASSUME IInv, NEW a \in [Requests -> 0..NumSpec], Update(a) PROVE IInv'
<1>1. TypeInv /\ QueueInv /\ CountInv /\ FlightInv /\ BlockInv /\ LoadInv /\ AlignInv /\ PhaseInv
    BY DEF IInv
<1>2. PICK b : b = Head(inflight)
    OBVIOUS
<1>3. PICK done : done = {q \in b.sampled : output[q] + Gain(q, a[q]) = MaxTokens[q]}
    OBVIOUS
<1>4. /\ phase = "idle" /\ inflight # <<>>
      /\ output' = [r \in Requests |-> output[r] + Gain(r, a[r])]
      /\ computed' = [r \in Requests |-> IF r \in done \/ computed[r] = 0 THEN 0
                                         ELSE computed[r] - (b.drafts[r] - a[r])]
      /\ spec' = [r \in Requests |-> IF r \in b.sampled \ done THEN NumSpec ELSE spec[r]]
      /\ status' = [r \in Requests |-> IF r \in done THEN "FINISHED" ELSE status[r]]
      /\ held' = [r \in Requests |-> IF r \in done THEN 0 ELSE held[r]]
      /\ running' = Without(running, done) /\ waiting' = Without(waiting, done)
      /\ skipped' = Without(skipped, done) /\ inflight' = Tail(inflight)
      /\ UNCHANGED <<phase, index, cur, demand, budget, sched, drafts, victims, passed,
                     received, failed, faults>>
    BY <1>2, <1>3 DEF Update, loopVars, batchVars, loadVars
<1>5. /\ inflight \in Seq(Batches) /\ Len(inflight) \in Nat /\ Len(inflight) >= 1
      /\ DOMAIN inflight = 1..Len(inflight) /\ 1 \in DOMAIN inflight
      /\ b = inflight[1] /\ b \in Batches
    BY <1>1, <1>2, <1>4 DEF TypeInv
<1>6. /\ inflight' \in Seq(Batches) /\ Len(inflight') = Len(inflight) - 1
      /\ DOMAIN inflight' = 1..(Len(inflight) - 1)
      /\ \A i \in 1..(Len(inflight) - 1) : inflight'[i] = inflight[i + 1]
    BY <1>4, <1>5
<1>7. sched = Zero /\ victims = {} /\ passed = <<>> /\ \A r \in Requests : sched[r] = 0 /\ drafts[r] = 0
    <2>1. sched = Zero /\ victims = {} /\ passed = <<>>
        BY <1>1, <1>4 DEF PhaseInv, QueueInv
    <2>2. \A r \in Requests : sched[r] = 0
        BY <2>1 DEF Zero
    <2> QED
        BY <1>1, <2>1, <2>2 DEF CountInv, ChunkOf
<1>8. ASSUME NEW r \in Requests
      PROVE  /\ CountOf(r) /\ BlocksOf(r) /\ ChunkAligned(r, sched[r])
             /\ output'[r] \in Nat /\ output'[r] <= MaxTokens[r] /\ Prompt[r] \in Nat \ {0}
             /\ computed[r] \in Nat /\ computed'[r] \in Nat /\ computed'[r] <= computed[r]
             /\ computed[r] <= MaxModelLen
             /\ NumTokens(r)' = Prompt[r] + output'[r]
             /\ r \notin b.sampled =>
                  /\ r \notin done /\ output'[r] = output[r] /\ computed'[r] = computed[r]
                  /\ NumTokens(r)' = NumTokens(r)
             /\ r \in done => computed'[r] = 0
             /\ r \in b.sampled \ done =>
                  /\ output'[r] < MaxTokens[r] /\ output'[r] >= 1
                  /\ \/ status[r] = "RUNNING" /\ computed'[r] = Prompt[r] + output'[r] - 1
                     \/ status[r] = "WAITING" /\ computed[r] = 0 /\ computed'[r] = 0
             /\ status'[r] = (IF r \in done THEN "FINISHED" ELSE status[r])
             /\ held'[r] = (IF r \in done THEN 0 ELSE held[r])
             /\ sched'[r] = 0 /\ sched[r] = 0 /\ drafts'[r] = 0
    <2>1. CountOf(r) /\ BlocksOf(r) /\ ChunkAligned(r, sched[r])
        BY <1>1 DEF CountInv, BlockInv, AlignInv
    <2>2. Prompt[r] \in Nat \ {0} /\ computed[r] \in Nat /\ computed[r] <= MaxModelLen
        BY <1>1, Ranges
    <2>3. /\ status'[r] = (IF r \in done THEN "FINISHED" ELSE status[r])
          /\ held'[r] = (IF r \in done THEN 0 ELSE held[r])
          /\ sched'[r] = 0 /\ sched[r] = 0 /\ drafts'[r] = 0
        BY <1>4, <1>7
    <2>4. /\ output'[r] \in Nat /\ output'[r] <= MaxTokens[r]
          /\ computed'[r] \in Nat /\ computed'[r] <= computed[r]
          /\ NumTokens(r)' = Prompt[r] + output'[r]
          /\ r \notin b.sampled =>
               /\ r \notin done /\ output'[r] = output[r] /\ computed'[r] = computed[r]
               /\ NumTokens(r)' = NumTokens(r)
          /\ r \in done => computed'[r] = 0
          /\ r \in b.sampled \ done =>
               /\ output'[r] < MaxTokens[r] /\ output'[r] >= 1
               /\ \/ status[r] = "RUNNING" /\ computed'[r] = Prompt[r] + output'[r] - 1
                  \/ status[r] = "WAITING" /\ computed[r] = 0 /\ computed'[r] = 0
        BY <1>2, <1>3, UpdateRequest
    <2> QED
        BY <2>1, <2>2, <2>3, <2>4
<1>9. /\ Queue(running') /\ ToSet(running') = ToSet(running) \ done /\ Len(running') <= Len(running)
      /\ Queue(waiting') /\ ToSet(waiting') = ToSet(waiting) \ done
      /\ Queue(skipped') /\ ToSet(skipped') = ToSet(skipped) \ done
    BY <1>1, <1>4, Queues, WithoutQueue
<1>10. b.sampled \subseteq Requests /\ done \subseteq b.sampled
    BY <1>3, <1>5 DEF Batches
<1>11. TypeInv'
    <2>1. status' \in [Requests -> Statuses]
        BY <1>1, <1>4 DEF TypeInv, Statuses
    <2>2. computed' \in [Requests -> 0..MaxModelLen]
        <3>1. \A r \in Requests : computed'[r] \in 0..MaxModelLen
            BY <1>8, BlockSizes
        <3>2. computed' = [r \in Requests |-> computed'[r]]
            BY <1>4
        <3> QED
            BY <3>1, <3>2
    <2>3. output' \in [Requests -> Nat] /\ \A r \in Requests : output'[r] <= MaxTokens[r]
        <3>1. \A r \in Requests : output'[r] \in Nat /\ output'[r] <= MaxTokens[r]
            BY <1>8
        <3>2. output' = [r \in Requests |-> output'[r]]
            BY <1>4
        <3> QED
            BY <3>1, <3>2
    <2>4. spec' \in [Requests -> 0..NumSpec] /\ held' \in [Requests -> Nat]
        <3>1. NumSpec \in 0..NumSpec
            BY Constants
        <3>2. spec \in [Requests -> 0..NumSpec] /\ held \in [Requests -> Nat]
            BY <1>1 DEF TypeInv
        <3> QED
            BY <1>4, <3>1, <3>2
    <2>5. running' \in Seq(Requests) /\ waiting' \in Seq(Requests) /\ skipped' \in Seq(Requests)
        BY <1>9 DEF Queue
    <2>6. inflight' \in Seq(Batches) /\ Len(inflight') <= Depth
        BY <1>1, <1>5, <1>6, Constants DEF TypeInv
    <2> QED
        BY <1>1, <1>4, <2>1, <2>2, <2>3, <2>4, <2>5, <2>6 DEF TypeInv
<1>12. QueueInv'
    <2>1. ASSUME NEW s, "FINISHED" \notin s PROVE Of(s)' = Of(s) \ done
        BY <1>8, <2>1 DEF Of
    <2>2. /\ Of({"RUNNING"})' = Of({"RUNNING"}) \ done
          /\ Of({"WAITING"})' = Of({"WAITING"}) \ done
          /\ Of({"WAITING", Loading})' = Of({"WAITING", Loading}) \ done
        <3>1. "FINISHED" \notin {"RUNNING"} /\ "FINISHED" \notin {"WAITING"}
              /\ "FINISHED" \notin {"WAITING", Loading}
            BY DEF Loading
        <3> HIDE DEF Of
        <3> QED
            BY <2>1, <3>1
    <2> HIDE DEF Of
    <2>3. /\ ToSet(running) = Of({"RUNNING"}) /\ ToSet(waiting) \subseteq Of({"WAITING"})
          /\ ToSet(waiting) \union ToSet(skipped) \union ToSet(passed) = Of({"WAITING", Loading})
          /\ ToSet(waiting) \intersect ToSet(skipped) = {}
        BY <1>1 DEF QueueInv
    <2>4. ToSet(passed) = {}
        BY <1>7, EmptyQueue
    <2>5. ToSet(running') = Of({"RUNNING"})' /\ ToSet(waiting') \subseteq Of({"WAITING"})'
        BY <1>9, <2>2, <2>3
    <2>6. /\ ToSet(waiting') \union ToSet(skipped') \union ToSet(passed) = Of({"WAITING", Loading})'
          /\ ToSet(waiting') \intersect ToSet(skipped') = {}
          /\ ToSet(waiting') \intersect ToSet(passed) = {}
          /\ ToSet(skipped') \intersect ToSet(passed) = {}
        BY <1>9, <2>2, <2>3, <2>4
    <2>7. IsInjective(passed)
        BY <1>1 DEF QueueInv
    <2> QED
        BY <1>4, <1>7, <1>9, <2>5, <2>6, <2>7 DEF QueueInv, Queue
<1>13. ASSUME NEW r \in Requests, Here(r)', r \notin b.sampled PROVE Here(r)
    <2> SUFFICES ASSUME NEW i \in DOMAIN inflight PROVE r \notin inflight[i].sampled
        BY DEF Here
    <2>1. CASE i = 1
        BY <1>5, <1>13, <2>1
    <2>2. CASE i # 1
        <3>1. i - 1 \in DOMAIN inflight' /\ i - 1 \in 1..(Len(inflight) - 1) /\ (i - 1) + 1 = i
            BY <1>5, <1>6, <2>2
        <3>2. r \notin inflight'[i - 1].sampled
            BY <1>13, <3>1 DEF Here
        <3> QED
            BY <1>6, <3>1, <3>2
    <2> QED
        BY <2>1, <2>2
<1>14. CountInv'
    <2> SUFFICES ASSUME NEW r \in Requests PROVE CountOf(r)' /\ ChunkOf(r)'
        BY DEF CountInv
    <2>1. ChunkOf(r)'
        BY <1>8 DEF ChunkOf
    <2>2. CASE r \notin b.sampled
        BY <1>8, <1>13, <2>1, <2>2 DEF CountOf
    <2>3. CASE r \in done
        BY <1>8, <1>10, <2>1, <2>3 DEF CountOf, Loading
    <2>4. CASE r \in b.sampled \ done
        BY <1>8, <2>1, <2>4 DEF CountOf, Loading
    <2> QED
        BY <2>1, <2>2, <2>3, <2>4
<1>15. FlightInv'
    <2>1. ASSUME NEW i \in 1..(Len(inflight) - 1), NEW r \in inflight[i + 1].sampled
          PROVE  SampledBy(i, r)'
        <3>1. i + 1 \in DOMAIN inflight /\ i + 1 # 1
            BY <1>5
        <3>2. SampledBy(i + 1, r) /\ r \in Requests
            <4>1. inflight[i + 1] \in Batches
                BY <1>5, <3>1
            <4> QED
                BY <1>1, <3>1, <4>1 DEF FlightInv, Batches
        <3>3. r \notin b.sampled
            BY <1>1, <1>5, <3>1 DEF FlightInv
        <3>4. /\ status[r] = "RUNNING"
              /\ computed[r] = NumTokens(r) + inflight[i + 1].drafts[r]
            BY <3>1, <3>2 DEF SampledBy
        <3>5. status'[r] = "RUNNING" /\ computed'[r] = NumTokens(r)' + inflight'[i].drafts[r]
              /\ sched'[r] = 0
            BY <1>6, <1>8, <3>2, <3>3, <3>4
        <3> QED
            BY <3>5 DEF SampledBy
    <2>2. ASSUME NEW i \in 1..(Len(inflight) - 1)
          PROVE  /\ \A r \in Requests : inflight'[i].drafts[r] > 0 => r \in inflight'[i].sampled
                 /\ \A j \in 1..(Len(inflight) - 1) : i # j =>
                       inflight'[i].sampled \intersect inflight'[j].sampled = {}
        <3>1. i + 1 \in DOMAIN inflight /\ inflight'[i] = inflight[i + 1]
            BY <1>5, <1>6
        <3>2. ASSUME NEW j \in 1..(Len(inflight) - 1), i # j
              PROVE  inflight'[i].sampled \intersect inflight'[j].sampled = {}
            <4>1. j + 1 \in DOMAIN inflight /\ inflight'[j] = inflight[j + 1] /\ i + 1 # j + 1
                BY <1>5, <1>6, <3>2
            <4> QED
                BY <1>1, <3>1, <4>1 DEF FlightInv
        <3>3. \A r \in Requests : inflight[i + 1].drafts[r] > 0 => r \in inflight[i + 1].sampled
            BY <1>1, <3>1 DEF FlightInv
        <3> QED
            BY <3>1, <3>2, <3>3
    <2> HIDE DEF SampledBy
    <2>3. \A i \in DOMAIN inflight' : \A r \in inflight'[i].sampled : SampledBy(i, r)'
        BY <1>6, <2>1
    <2> QED
        BY <1>4, <1>6, <2>2, <2>3 DEF FlightInv
<1>16. BlockInv'
    <2>1. Total(held)' <= NumBlocks
        <3>1. held \in [Requests -> Nat] /\ held' \in [Requests -> Nat]
            BY <1>1, <1>11 DEF TypeInv
        <3>2. \A r \in Requests : held'[r] <= held[r]
            BY <1>8, <3>1
        <3>3. Total(held') <= Total(held) /\ Total(held) \in Nat /\ Total(held') \in Nat
            BY <3>1, <3>2, TotalSmaller, TotalFinite
        <3> QED
            BY <1>1, <3>3, BlockSizes DEF BlockInv
    <2> SUFFICES ASSUME NEW r \in Requests PROVE BlocksOf(r)'
        BY <2>1 DEF BlockInv
    <2>2. /\ computed'[r] + sched'[r] = computed'[r] /\ computed[r] + sched[r] = computed[r]
          /\ held[r] \in Nat
        BY <1>1, <1>8, Ranges
    <2>3. /\ Blocks(Min({computed'[r], MaxModelLen})) <= Blocks(Min({computed[r], MaxModelLen}))
          /\ Blocks(Min({computed'[r], MaxModelLen})) \in Nat
          /\ Blocks(Min({computed[r], MaxModelLen})) \in Nat
          /\ computed'[r] = 0 => Blocks(Min({computed'[r], MaxModelLen})) = 0
        BY <1>8, CappedBlocks
    <2>4. Blocks(Min({computed[r], MaxModelLen})) <= held[r]
        BY <1>8, <2>2 DEF BlocksOf
    <2>5. CASE r \in done
        <3>1. computed'[r] = 0 /\ status'[r] = "FINISHED" /\ held'[r] = 0
            BY <1>8, <2>5
        <3>2. Blocks(Min({computed'[r] + sched'[r], MaxModelLen})) = 0
            BY <2>2, <2>3, <3>1
        <3> QED
            BY <3>1, <3>2 DEF BlocksOf
    <2>6. CASE r \notin done
        <3>1. status'[r] = status[r] /\ held'[r] = held[r]
            BY <1>8, <2>6
        <3>2. status[r] = "WAITING" /\ computed'[r] = 0 => computed[r] = 0
            BY <1>8, <2>6
        <3>3. Blocks(Min({computed'[r], MaxModelLen})) <= held'[r]
            BY <2>2, <2>3, <2>4, <3>1
        <3> QED
            BY <1>8, <2>2, <3>1, <3>2, <3>3 DEF BlocksOf
    <2> QED
        BY <2>5, <2>6
<1>17. LoadInv'
    <2>1. ASSUME NEW r \in b.sampled PROVE r \in Requests /\ status[r] # Loading
        <3>1. SampledBy(1, r)
            BY <1>1, <1>5, <2>1 DEF FlightInv
        <3> QED
            BY <1>10, <3>1 DEF SampledBy, Loading
    <2>2. Of({Loading})' = Of({Loading})
        BY <1>8, <1>10, <2>1 DEF Of, Loading
    <2>3. \A r \in Of({Loading}) :
              r \in Requests /\ computed'[r] = computed[r] /\ NumTokens(r)' = NumTokens(r)
        BY <1>8, <2>1 DEF Of
    <2> QED
        BY <1>1, <1>4, <2>2, <2>3 DEF LoadInv
<1>18. AlignInv'
    <2> SUFFICES ASSUME NEW r \in Requests PROVE ChunkAligned(r, sched[r])'
        BY DEF AlignInv
    <2>1. CASE r \notin b.sampled
        BY <1>8, <2>1 DEF ChunkAligned, LastCachePosition, Prefilling
    <2>2. CASE computed'[r] = 0
        <3>1. 0 % BlockSize = 0
            BY BlockSizes
        <3>2. LastCachePosition(r)' \in Nat
            <4>1. NumTokens(r)' \in Nat
                BY <1>8
            <4>2. LastCachePosition(r)' \in 0..NumTokens(r)'
                BY <4>1, LastBlock DEF LastCachePosition
            <4> QED
                BY <4>1, <4>2
        <3> QED
            BY <1>8, <2>2, <3>1, <3>2 DEF ChunkAligned
    <2>3. CASE r \in b.sampled /\ computed'[r] # 0
        <3>1. computed'[r] = Prompt[r] + output'[r] - 1 /\ output'[r] >= 1
            BY <1>8, <2>3
        <3>2. computed'[r] = NumTokens(r)' - 1 /\ computed'[r] >= Prompt[r]
            BY <1>8, <3>1
        <3>3. ~Prefilling(r, computed[r])'
            <4> DEFINE p == Prompt[r]
                       q == NumTokens(r)' - 1
            <4>1. p \in Int /\ q \in Int /\ p <= q
                BY <1>8, <3>2
            <4>2. Max({p, q}) = q
                <5> HIDE DEF p, q
                <5>1. Max({p, q}) = IF p >= q THEN p ELSE q
                    BY <4>1, MinMax
                <5> QED
                    BY <4>1, <5>1
            <4>3. Max({Prompt[r], NumTokens(r)' - 1}) = NumTokens(r)' - 1
                BY <4>2
            <4>4. ~(computed'[r] < Max({Prompt[r], NumTokens(r)' - 1}))
                BY <1>8, <3>2, <4>3
            <4> QED
                BY <4>4 DEF Prefilling
        <3> QED
            BY <3>3 DEF ChunkAligned
    <2> QED
        BY <2>1, <2>2, <2>3
<1>19. PhaseInv'
    <2>1. Len(running') <= MaxRunning
        <3>1. Len(running') \in Nat /\ Len(running) \in Nat /\ Len(running) <= MaxRunning
            BY <1>1, <1>9, Queues, QueueLength DEF PhaseInv
        <3> QED
            BY <1>9, <3>1, Constants
    <2> QED
        BY <1>1, <1>4, <1>7, <2>1 DEF PhaseInv
<1> QED
    BY <1>11, <1>12, <1>14, <1>15, <1>16, <1>17, <1>18, <1>19 DEF IInv

LEMMA LoadEndsKeeps == ASSUME IInv, NEW r \in Requests, LoadEnds(r) PROVE IInv'
<1> DEFINE c == computed'[r]
<1>1. TypeInv /\ QueueInv /\ CountInv /\ FlightInv /\ BlockInv /\ LoadInv /\ AlignInv /\ PhaseInv
    BY DEF IInv
<1>2. /\ phase = "idle" /\ status[r] = Loading /\ r \notin received
      /\ received' = received \union {r}
      /\ UNCHANGED <<status, output, spec, held, running, waiting, skipped, phase, index, cur,
                     demand, budget, sched, drafts, victims, passed, inflight>>
    BY DEF LoadEnds, LoadDone, LoadFails, queueVars, loopVars, batchVars
<1>3. /\ computed[r] \in 0..MaxModelLen /\ computed[r] \in Nat /\ NumTokens(r) \in Nat \ {0}
      /\ held[r] \in Nat /\ MaxModelLen \in Nat
    BY <1>1, Ranges, BlockSizes
<1>4. /\ computed[r] % BlockSize = 0
      /\ ~WholeHits \/ r \in failed => computed[r] < NumTokens(r)
      /\ r \notin failed => computed[r] > 0
      /\ r \notin failed /\ Depth = 1
    <2>1. r \in Of({Loading})
        BY <1>2 DEF Of
    <2> QED
        BY <1>1, <1>2, <2>1 DEF LoadInv, TypeInv
<1>5. /\ c \in Nat /\ c <= computed[r] /\ c % BlockSize = 0
      /\ \A q \in Requests : q # r => computed'[q] = computed[q]
      /\ computed' \in [Requests -> 0..MaxModelLen]
      /\ \/ c = computed[r] /\ failed' = failed /\ faults' = faults
         \/ c < computed[r] /\ failed' = failed \union {r} /\ faults' = faults + 1
            /\ faults < MaxFaults
    <2>1. CASE LoadDone(r)
        <3>1. computed' = computed /\ failed' = failed /\ faults' = faults
            BY <2>1 DEF LoadDone
        <3>2. c = computed[r] /\ computed[r] <= computed[r]
            BY <1>3, <3>1
        <3>3. computed' \in [Requests -> 0..MaxModelLen]
            BY <1>1, <3>1 DEF TypeInv
        <3> HIDE DEF c
        <3> QED
            BY <1>3, <1>4, <3>1, <3>2, <3>3
    <2>2. CASE \E n \in 0..NumBlocks : LoadFails(r, n)
        <3>1. PICK n \in 0..NumBlocks : LoadFails(r, n)
            BY <2>2
        <3>2. /\ n * BlockSize < computed[r] /\ computed' = [computed EXCEPT ![r] = n * BlockSize]
              /\ failed' = failed \union {r} /\ faults' = faults + 1 /\ faults < MaxFaults
            BY <3>1 DEF LoadFails
        <3>3. n * BlockSize \in Nat /\ (n * BlockSize) % BlockSize = 0
            BY BlockSizes, Multiple
        <3>4. n * BlockSize \in 0..MaxModelLen
            BY <1>3, <3>2, <3>3
        <3> HIDE DEF c
        <3>5. c = n * BlockSize
            BY <1>1, <3>2 DEF TypeInv, c
        <3>6. \A q \in Requests : q # r => computed'[q] = computed[q]
            BY <1>1, <3>2 DEF TypeInv
        <3>7. computed' \in [Requests -> 0..MaxModelLen]
            BY <1>1, <3>2, <3>4 DEF TypeInv
        <3> QED
            BY <1>3, <3>2, <3>3, <3>5, <3>6, <3>7
    <2> QED
        BY <2>1, <2>2 DEF LoadEnds
<1>6. \A q \in Requests : NumTokens(q)' = NumTokens(q)
    BY <1>2 DEF NumTokens
<1>7. CountOf(r) /\ ChunkOf(r) /\ BlocksOf(r) /\ sched[r] = 0 /\ computed[r] <= NumTokens(r)
    <2>1. CountOf(r) /\ ChunkOf(r) /\ BlocksOf(r)
        BY <1>1 DEF CountInv, BlockInv
    <2> QED
        BY <1>2, <2>1 DEF CountOf, Loading
<1> HIDE DEF c
<1>8. TypeInv'
    <2>1. failed' \subseteq received' /\ received' \subseteq Requests
        BY <1>1, <1>2, <1>5 DEF TypeInv
    <2>2. faults' \in 0..MaxFaults
        <3>1. faults \in 0..MaxFaults /\ MaxFaults \in Nat
            BY <1>1, Counters, Constants
        <3> QED
            BY <1>5, <3>1
    <2> QED
        BY <1>1, <1>2, <1>5, <2>1, <2>2 DEF TypeInv
<1>9. QueueInv'
    BY <1>1, <1>2 DEF QueueInv, Of
<1>10. CountInv'
    <2> SUFFICES ASSUME NEW q \in Requests PROVE CountOf(q)' /\ ChunkOf(q)'
        BY DEF CountInv
    <2>1. CountOf(q) /\ ChunkOf(q) /\ (Here(q)' <=> Here(q)) /\ NumTokens(q)' = NumTokens(q)
        BY <1>1, <1>2, <1>6 DEF CountInv, Here
    <2>2. CASE q # r
        BY <1>2, <1>5, <2>1, <2>2 DEF CountOf, ChunkOf
    <2>3. CASE q = r
        BY <1>2, <1>3, <1>5, <1>7, <2>1, <2>3 DEF CountOf, ChunkOf, Loading, c
    <2> QED
        BY <2>2, <2>3
<1>11. FlightInv'
    <2>1. ASSUME NEW i \in DOMAIN inflight, NEW q \in inflight[i].sampled
          PROVE  SampledBy(i, q)'
        <3>1. inflight[i] \in Batches
            BY <1>1, Flights
        <3>2. SampledBy(i, q) /\ q \in Requests
            BY <1>1, <3>1 DEF FlightInv, Batches
        <3>3. q # r
            BY <1>2, <3>2 DEF SampledBy, Loading
        <3> QED
            BY <1>2, <1>5, <1>6, <3>2, <3>3 DEF SampledBy
    <2> HIDE DEF SampledBy
    <2>2. \A i \in DOMAIN inflight' : \A q \in inflight'[i].sampled : SampledBy(i, q)'
        BY <1>2, <2>1
    <2> QED
        BY <1>1, <1>2, <2>2 DEF FlightInv
<1>12. BlockInv'
    <2> SUFFICES ASSUME NEW q \in Requests PROVE BlocksOf(q)'
        BY <1>1, <1>2 DEF BlockInv
    <2>1. BlocksOf(q)
        BY <1>1 DEF BlockInv
    <2>2. CASE q # r
        BY <1>2, <1>5, <2>1, <2>2 DEF BlocksOf
    <2>3. CASE q = r
        <3>1. computed'[q] + sched'[q] = c /\ computed[r] + sched[r] = computed[r]
            BY <1>2, <1>3, <1>5, <1>7, <2>3 DEF c
        <3>2. /\ Blocks(Min({c, MaxModelLen})) <= Blocks(Min({computed[r], MaxModelLen}))
              /\ Blocks(Min({c, MaxModelLen})) \in Nat
              /\ Blocks(Min({computed[r], MaxModelLen})) \in Nat
            BY <1>3, <1>5, CappedBlocks
        <3>3. Blocks(Min({computed[r], MaxModelLen})) <= held[r]
            BY <1>7, <3>1 DEF BlocksOf
        <3>4. Blocks(Min({c, MaxModelLen})) <= held[r]
            BY <1>3, <3>2, <3>3
        <3> QED
            BY <1>2, <2>3, <3>1, <3>4 DEF BlocksOf, Loading
    <2> QED
        BY <2>2, <2>3
<1>13. LoadInv'
    <2>1. Of({Loading})' = Of({Loading}) /\ r \in Of({Loading})
        BY <1>2 DEF Of
    <2>2. received' \subseteq Of({Loading})'
        BY <1>1, <1>2, <2>1 DEF LoadInv
    <2>3. ASSUME NEW q \in Of({Loading})
          PROVE  /\ Depth = 1 /\ computed'[q] % BlockSize = 0
                 /\ ~WholeHits \/ q \in failed' => computed'[q] < NumTokens(q)'
                 /\ q \notin failed' => computed'[q] > 0
        <3>1. q \in Requests
            BY DEF Of
        <3>2. CASE q # r
            BY <1>1, <1>5, <1>6, <3>1, <3>2 DEF LoadInv
        <3>3. CASE q = r
            BY <1>3, <1>4, <1>5, <1>6, <1>7, <3>3 DEF c
        <3> QED
            BY <3>2, <3>3
    <2> HIDE DEF Of
    <2> QED
        BY <2>1, <2>2, <2>3 DEF LoadInv
<1>14. AlignInv'
    <2> SUFFICES ASSUME NEW q \in Requests PROVE ChunkAligned(q, sched[q])'
        BY DEF AlignInv
    <2>1. ChunkAligned(q, sched[q])
        BY <1>1 DEF AlignInv
    <2>2. CASE q # r
        BY <1>2, <1>5, <1>6, <2>1, <2>2 DEF ChunkAligned, LastCachePosition, Prefilling
    <2>3. CASE q = r
        <3>1. LastCachePosition(q)' \in Nat
            <4>1. NumTokens(q)' \in Nat
                BY <1>3, <1>6, <2>3
            <4>2. LastCachePosition(q)' \in 0..NumTokens(q)'
                BY <4>1, LastBlock DEF LastCachePosition
            <4> QED
                BY <4>1, <4>2
        <3>2. sched'[q] = 0 /\ computed'[q] + sched'[q] = computed'[q] /\ computed'[q] = c
            BY <1>2, <1>5, <1>7, <2>3 DEF c
        <3> QED
            BY <1>5, <3>1, <3>2 DEF ChunkAligned
    <2> QED
        BY <2>2, <2>3
<1>15. PhaseInv'
    BY <1>1, <1>2 DEF PhaseInv
<1> QED
    BY <1>8, <1>9, <1>10, <1>11, <1>12, <1>13, <1>14, <1>15 DEF IInv

LEMMA StutterKeeps == ASSUME IInv, UNCHANGED vars PROVE IInv'
<1> USE DEF vars, reqVars, queueVars, loopVars, batchVars, loadVars
<1>1. TypeInv' /\ QueueInv'
    BY DEF IInv, TypeInv, QueueInv, Of
<1>2. CountInv'
    BY DEF IInv, CountInv, CountOf, ChunkOf, NumTokens, Here
<1>3. FlightInv'
    BY DEF IInv, FlightInv, SampledBy, NumTokens
<1>4. BlockInv' /\ LoadInv'
    BY DEF IInv, BlockInv, BlocksOf, LoadInv, NumTokens, Of
<1>5. AlignInv'
    BY DEF IInv, AlignInv, ChunkAligned, NumTokens, LastCachePosition, Prefilling
<1>6. PhaseInv'
    BY DEF IInv, PhaseInv, Allocating, ChunkAligned, NumTokens, LastCachePosition, Prefilling, Of
<1> QED
    BY <1>1, <1>2, <1>3, <1>4, <1>5, <1>6 DEF IInv

LEMMA NextKeeps == ASSUME IInv, [Next]_vars PROVE IInv'
<1>1. CASE Schedule
    <2>1. CASE BeginStep
        BY <2>1, BeginStepKeeps
    <2>2. CASE PassRunning \/ PickRunning \/ EndRunning
        BY <2>2, PassRunningKeeps, PickRunningKeeps, EndRunningKeeps
    <2>3. CASE ScheduleRunning \/ PreemptRunning
        BY <2>3, ScheduleRunningKeeps, PreemptRunningKeeps
    <2>4. CASE SkipLoading \/ SkipUnknown \/ Promote
        BY <2>4, SkipKeeps, PromoteKeeps
    <2>5. CASE \E h \in AllHits : GiveUp(h) \/ StartLoad(h) \/ Admit(h)
        <3>1. PICK h \in AllHits : GiveUp(h) \/ StartLoad(h) \/ Admit(h)
            BY <2>5
        <3> QED
            BY <3>1, EndsKeep, StartLoadKeeps, AdmitKeeps
    <2>6. CASE EndWaiting \/ Finish
        BY <2>6, EndsKeep, FinishKeeps
    <2> QED
        BY <1>1, <2>1, <2>2, <2>3, <2>4, <2>5, <2>6 DEF Schedule
<1>2. CASE Updates
    BY <1>2, UpdateKeeps DEF Updates
<1>3. CASE \E r \in Requests : Submit(r) \/ LoadEnds(r)
    BY <1>3, SubmitKeeps, LoadEndsKeeps
<1>4. CASE UNCHANGED vars
    BY <1>4, StutterKeeps
<1> QED
    BY <1>1, <1>2, <1>3, <1>4 DEF Next

\* The invariant holds in every state of every instance.
THEOREM Invariant == Spec => []IInv
<1>1. IInv /\ [Next]_vars => IInv'
    BY NextKeeps
<1> QED
    BY <1>1, InitKeeps, PTL DEF Spec

(***************************************************************************)
(* What follows from the invariant                                         *)
(***************************************************************************)
LEMMA TypesHold == ASSUME IInv PROVE TypeOK
<1>1. TypeInv /\ BlockInv /\ PhaseInv
    BY DEF IInv
<1>2. ASSUME NEW r \in Requests
      PROVE  /\ output[r] \in 0..MaxTokens[r] /\ computed[r] \in 0..MaxModelLen
             /\ spec[r] \in 0..NumSpec /\ drafts[r] \in 0..NumSpec
             /\ held[r] \in 0..NumBlocks /\ sched[r] \in 0..MaxScheduled
    <2>1. /\ output[r] \in 0..MaxTokens[r] /\ computed[r] \in 0..MaxModelLen
          /\ spec[r] \in 0..NumSpec /\ drafts[r] \in 0..NumSpec
        BY <1>1, Ranges
    <2>2. held[r] \in 0..NumBlocks
        <3>1. Total(held) \in Nat /\ held[r] \in Nat /\ held[r] <= Total(held)
            BY <1>1, TotalExcept DEF TypeInv
        <3> QED
            BY <1>1, <3>1, BlockSizes DEF BlockInv
    <2>3. sched[r] \in 0..MaxScheduled
        <3>1. Total(sched) \in Nat /\ sched[r] \in Nat /\ sched[r] <= Total(sched)
            BY <1>1, TotalExcept DEF TypeInv
        <3>2. budget \in 0..MaxScheduled /\ MaxScheduled \in Nat
            BY <1>1, Constants DEF TypeInv
        <3>3. CASE phase = "idle"
            BY <1>1, <3>2, <3>3 DEF PhaseInv, Zero
        <3>4. CASE phase # "idle"
            <4>1. budget + Total(sched) = MaxScheduled
                BY <1>1, <3>4 DEF PhaseInv
            <4> QED
                BY <3>1, <3>2, <4>1
        <3> QED
            BY <3>3, <3>4
    <2> QED
        BY <2>1, <2>2, <2>3
<1>3. {running, waiting, skipped, passed} \subseteq Seq(Requests)
    BY <1>1 DEF TypeInv
<1> QED
    BY <1>1, <1>2, <1>3 DEF TypeInv, TypeOK

\* Counters, queues and the batch keep their types and ranges.
THEOREM TypeCorrect == Spec => []TypeOK
BY Invariant, TypesHold, PTL

LEMMA QueuesHold == ASSUME IInv PROVE OneQueueEach
<1>1. /\ TypeInv /\ QueueInv /\ LoadInv
      /\ Queue(running) /\ Queue(waiting) /\ Queue(skipped) /\ Queue(passed)
    BY Queues DEF IInv
<1>2. /\ ToSet(running) = Of({"RUNNING"}) /\ ToSet(waiting) \subseteq Of({"WAITING"})
      /\ ToSet(waiting) \union ToSet(skipped) \union ToSet(passed) = Of({"WAITING", Loading})
      /\ ToSet(waiting) \intersect ToSet(skipped) = {}
      /\ ToSet(waiting) \intersect ToSet(passed) = {}
      /\ ToSet(skipped) \intersect ToSet(passed) = {}
    BY <1>1 DEF QueueInv
<1>3. Of({"RUNNING"}) \intersect Of({"WAITING", Loading}) = {}
    BY DEF Of, Loading
<1>4. Of({"RUNNING"}) \union Of({"WAITING", Loading}) = Unfinished
    <2>1. \A r \in Requests : status[r] \in Statuses
        BY <1>1 DEF TypeInv
    <2> QED
        BY <2>1 DEF Of, Unfinished, Statuses, Loading
<1>5. \A r \in ToSet(waiting) : status[r] = "WAITING"
    BY <1>2 DEF Of
<1>6. received \subseteq {r \in Requests : status[r] = Loading}
    BY <1>1 DEF LoadInv, Of
<1>7. ToSet(running) = {r \in Requests : status[r] = "RUNNING"}
    BY <1>2 DEF Of
<1> HIDE DEF Of
<1>8. PICK a : a = running \o waiting
    OBVIOUS
<1>9. Queue(a) /\ ToSet(a) = ToSet(running) \union ToSet(waiting)
    <2>1. ToSet(running) \intersect ToSet(waiting) = {}
        BY <1>2, <1>3
    <2> QED
        BY <1>1, <1>8, <2>1, ConcatQueue
<1>10. PICK b : b = a \o skipped
    OBVIOUS
<1>11. Queue(b) /\ ToSet(b) = ToSet(a) \union ToSet(skipped)
    <2>1. ToSet(a) \intersect ToSet(skipped) = {}
        BY <1>2, <1>3, <1>9
    <2> QED
        BY <1>1, <1>9, <1>10, <2>1, ConcatQueue
<1>12. PICK c : c = b \o passed
    OBVIOUS
<1>13. Queue(c) /\ ToSet(c) = ToSet(b) \union ToSet(passed)
    <2>1. ToSet(b) \intersect ToSet(passed) = {}
        BY <1>2, <1>3, <1>9, <1>11
    <2> QED
        BY <1>1, <1>11, <1>12, <2>1, ConcatQueue
<1>14. c = running \o waiting \o skipped \o passed
    BY <1>8, <1>10, <1>12
<1>15. IsInjective(c) /\ ToSet(c) = Unfinished
    BY <1>2, <1>4, <1>9, <1>11, <1>13 DEF Queue
<1> QED
    BY <1>5, <1>6, <1>7, <1>14, <1>15 DEF OneQueueEach

\* No request is lost or listed twice.
THEOREM OneQueue == Spec => []OneQueueEach
BY Invariant, QueuesHold, PTL

LEMMA BlocksHold == ASSUME IInv PROVE BlocksHeld
<1>1. TypeInv /\ BlockInv
    BY DEF IInv
<1>2. Free >= 0
    <2>1. Total(held) \in Nat
        BY <1>1, TotalFinite DEF TypeInv
    <2> QED
        BY <1>1, <2>1, BlockSizes DEF BlockInv, Free
<1>3. ASSUME NEW r \in Requests
      PROVE  /\ held[r] > 0 => \/ status[r] \in {"RUNNING", Loading}
                               \/ status[r] = "WAITING" /\ computed[r] > 0
             /\ Blocks(Min({computed[r] + sched[r], MaxModelLen})) <= held[r]
    <2>1. BlocksOf(r)
        BY <1>1 DEF BlockInv
    <2>2. computed[r] \in Nat /\ status[r] \in Statuses
        BY <1>1, Ranges
    <2>3. held[r] = 0 => ~(held[r] > 0)
        OBVIOUS
    <2>4. held[r] > 0 => \/ status[r] \in {"RUNNING", Loading}
                         \/ status[r] = "WAITING" /\ computed[r] > 0
        BY <2>1, <2>2, <2>3 DEF BlocksOf, Statuses
    <2> QED
        BY <2>1, <2>4 DEF BlocksOf
<1> QED
    BY <1>2, <1>3 DEF BlocksHeld

\* Blocks are neither lost nor lent twice, and what is computed has its blocks.
THEOREM BlocksKept == Spec => []BlocksHeld
BY Invariant, BlocksHold, PTL

LEMMA AssertionsHold == ASSUME IInv PROVE Assertions
<1>1. TypeInv /\ QueueInv /\ CountInv /\ PhaseInv
    BY DEF IInv
<1>2. \A r \in Requests : status[r] = "WAITING" => computed[r] < NumTokens(r)
    BY <1>1 DEF CountInv, CountOf
<1>3. ASSUME NEW r \in Requests, sched[r] > 0 PROVE r \in ToSet(running) \ victims
    <2>1. status[r] = "RUNNING"
        BY <1>1, <1>3 DEF CountInv, CountOf
    <2>2. r \in Of({"RUNNING"}) /\ r \notin Of({"WAITING"})
        BY <2>1 DEF Of
    <2> QED
        BY <1>1, <2>2 DEF QueueInv, PhaseInv
<1>4. (phase # "idle" => budget + Total(sched) = MaxScheduled) /\ Len(running) <= MaxRunning
    BY <1>1 DEF PhaseInv
<1> QED
    BY <1>2, <1>3, <1>4 DEF Assertions

\* The assertions of schedule() never fail.
THEOREM AssertionsPass == Spec => []Assertions
BY Invariant, AssertionsHold, PTL

LEMMA AlignmentHolds == ASSUME IInv PROVE StatesAligned
BY DEF IInv, AlignInv, ChunkAligned, StatesAligned

\* The recurrent state can be cached at the last cacheable position of every prompt.
THEOREM Aligned == Spec => []StatesAligned
BY Invariant, AlignmentHolds, PTL

(***************************************************************************)
(* First come, first served                                                *)
(***************************************************************************)
Rising(q) == \A i, j \in DOMAIN q : i < j => q[i] < q[j]

\* q's requests arrived in order, all of them after those of p.
InOrder(p, q) == Rising(p) /\ Rising(q) /\ \A a \in ToSet(p) : \A b \in ToSet(q) : a < b

LEMMA JoinRising ==
    ASSUME NEW p, Queue(p), NEW q, Queue(q)
    PROVE  Rising(p \o q) <=> InOrder(p, q)
<1> DEFINE m == Len(p)
           n == Len(q)
           s == p \o q
<1>1. /\ p \in Seq(Requests) /\ q \in Seq(Requests)
      /\ m \in Nat /\ n \in Nat /\ DOMAIN p = 1..m /\ DOMAIN q = 1..n
    BY QueueLength DEF Queue
<1>2. /\ DOMAIN s = 1..(m + n) /\ \A i \in 1..m : s[i] = p[i]
      /\ \A i \in 1..n : s[m + i] = q[i]
    BY <1>1
<1>3. ToSet(p) = {p[i] : i \in 1..m} /\ ToSet(q) = {q[i] : i \in 1..n}
    BY <1>1 DEF ToSet
<1> HIDE DEF m, n, s
<1>4. ASSUME Rising(s) PROVE InOrder(p, q)
    <2>1. Rising(p)
        <3> SUFFICES ASSUME NEW i \in 1..m, NEW j \in 1..m, i < j PROVE p[i] < p[j]
            BY <1>1 DEF Rising
        <3>1. i \in DOMAIN s /\ j \in DOMAIN s
            BY <1>1, <1>2
        <3>2. s[i] < s[j]
            BY <1>4, <3>1 DEF Rising
        <3> QED
            BY <1>2, <3>2
    <2>2. Rising(q)
        <3> SUFFICES ASSUME NEW i \in 1..n, NEW j \in 1..n, i < j PROVE q[i] < q[j]
            BY <1>1 DEF Rising
        <3>1. m + i \in DOMAIN s /\ m + j \in DOMAIN s /\ m + i < m + j
            BY <1>1, <1>2
        <3>2. s[m + i] < s[m + j]
            BY <1>4, <3>1 DEF Rising
        <3> QED
            BY <1>2, <3>2
    <2>3. ASSUME NEW a \in ToSet(p), NEW b \in ToSet(q) PROVE a < b
        <3>1. PICK i \in 1..m : a = p[i]
            BY <1>3
        <3>2. PICK j \in 1..n : b = q[j]
            BY <1>3
        <3>3. i \in DOMAIN s /\ m + j \in DOMAIN s /\ i < m + j
            BY <1>1, <1>2
        <3>4. s[i] < s[m + j]
            BY <1>4, <3>3 DEF Rising
        <3> QED
            BY <1>2, <3>1, <3>2, <3>4
    <2> QED
        BY <2>1, <2>2, <2>3 DEF InOrder
<1>5. ASSUME InOrder(p, q) PROVE Rising(s)
    <2> SUFFICES ASSUME NEW i \in 1..(m + n), NEW j \in 1..(m + n), i < j PROVE s[i] < s[j]
        BY <1>2 DEF Rising
    <2>1. Rising(p) /\ Rising(q) /\ \A a \in ToSet(p) : \A b \in ToSet(q) : a < b
        BY <1>5 DEF InOrder
    <2>2. CASE j <= m
        <3>1. i \in DOMAIN p /\ j \in DOMAIN p
            BY <1>1, <2>2
        <3>2. p[i] < p[j]
            BY <2>1, <3>1 DEF Rising
        <3> QED
            BY <1>1, <1>2, <3>1, <3>2
    <2>3. CASE i <= m /\ j > m
        <3>1. i \in 1..m /\ j - m \in 1..n /\ m + (j - m) = j
            BY <1>1, <2>3
        <3>2. p[i] \in ToSet(p) /\ q[j - m] \in ToSet(q)
            BY <1>3, <3>1
        <3>3. s[i] = p[i] /\ s[m + (j - m)] = q[j - m]
            BY <1>2, <3>1
        <3> QED
            BY <2>1, <3>1, <3>2, <3>3
    <2>4. CASE i > m
        <3>1. /\ i - m \in 1..n /\ j - m \in 1..n /\ i - m < j - m
              /\ m + (j - m) = j /\ m + (i - m) = i
            BY <1>1, <2>4
        <3>2. q[i - m] < q[j - m]
            BY <1>1, <2>1, <3>1 DEF Rising
        <3>3. s[m + (i - m)] = q[i - m] /\ s[m + (j - m)] = q[j - m]
            BY <1>2, <3>1
        <3> QED
            BY <3>1, <3>2, <3>3
    <2> QED
        BY <1>1, <2>2, <2>3, <2>4
<1> QED
    BY <1>4, <1>5 DEF s

LEMMA NoneLeft == ASSUME NEW q, Queue(q), ToSet(q) = {} PROVE q = <<>>
<1>1. Len(q) = 0
    BY QueueLength, FS_EmptySet
<1> QED
    BY <1>1 DEF Queue

LEMMA RisingWithout == ASSUME NEW q, Queue(q), Rising(q), NEW S PROVE Rising(Without(q, S))
<1> DEFINE w == Without(q, S)
<1>1. \A i, j \in DOMAIN w : i < j => \E k, l \in DOMAIN q : k < l /\ q[k] = w[i] /\ q[l] = w[j]
    BY WithoutQueue
<1> HIDE DEF w
<1>2. \A i, j \in DOMAIN w : i < j => w[i] < w[j]
    BY <1>1 DEF Rising
<1> QED
    BY <1>2 DEF Rising, w

\* Without a connector nothing loads, and the line is the two queues.
LEMMA OrderMeans ==
    ASSUME IInv, OrderInv, Policy = "fcfs", ExternalHits = {}
    PROVE  /\ skipped = <<>> /\ passed = <<>> /\ InOrder(running, waiting)
           /\ Queue(running) /\ Queue(waiting)
           /\ \A r, q \in Requests : r < q /\ status[r] = "NEW" => status[q] = "NEW"
           /\ \A r \in Requests : status[r] # Loading
           /\ \A r \in ToSet(running) \union ToSet(waiting) : r \in Requests /\ status[r] # "NEW"
<1>1. Queue(running) /\ Queue(waiting) /\ QueueInv
    BY Queues DEF IInv
<1>2. /\ skipped = <<>> /\ passed = <<>> /\ InArrivalOrder
      /\ \A r, q \in Requests : r < q /\ status[r] = "NEW" => status[q] = "NEW"
    BY DEF OrderInv
<1>3. InOrder(running, waiting)
    <2>1. Rising(running \o waiting)
        BY <1>2 DEF InArrivalOrder, Rising
    <2> QED
        BY <1>1, <2>1, JoinRising
<1>4. \A r \in Requests : status[r] # Loading
    <2>1. ToSet(skipped) = {} /\ ToSet(passed) = {}
        BY <1>2, EmptyQueue
    <2>2. Of({"WAITING", Loading}) \subseteq Of({"WAITING"})
        BY <1>1, <2>1 DEF QueueInv
    <2> QED
        BY <2>2 DEF Of, Loading
<1>5. \A r \in ToSet(running) \union ToSet(waiting) : r \in Requests /\ status[r] # "NEW"
    BY <1>1 DEF QueueInv, Of
<1> QED
    BY <1>1, <1>2, <1>3, <1>4, <1>5

LEMMA OrderFrom ==
    ASSUME NEW p, Queue(p), NEW q, Queue(q), InOrder(p, q), running' = p, waiting' = q,
           skipped' = <<>>, passed' = <<>>,
           \A r, s \in Requests : r < s /\ status'[r] = "NEW" => status'[s] = "NEW"
    PROVE  OrderInv'
<1>1. Rising(p \o q)
    BY JoinRising
<1>2. InArrivalOrder'
    BY <1>1 DEF InArrivalOrder, Rising
<1> QED
    BY <1>2 DEF OrderInv

\* Steps that move no request.
LEMMA OrderStays ==
    ASSUME IInv, OrderInv, Policy = "fcfs", ExternalHits = {},
           UNCHANGED <<running, waiting>>, skipped' = <<>>, passed' = <<>>,
           \A r \in Requests : status'[r] = "NEW" <=> status[r] = "NEW"
    PROVE  OrderInv'
BY OrderMeans, OrderFrom

LEMMA PreemptOrder ==
    ASSUME IInv, OrderInv, Policy = "fcfs", ExternalHits = {}, PreemptRunning
    PROVE  OrderInv'
<1> DEFINE v == Victim
           place == CHOOSE i \in DOMAIN running : running[i] = Victim
           p == RemoveAt(running, place)
           q == <<v>> \o waiting
<1>1. TypeInv /\ QueueInv /\ PhaseInv
    BY DEF IInv
<1>2. /\ phase = "allocate" /\ running' = p /\ waiting' = Prepend(waiting, v)
      /\ status' = [status EXCEPT ![v] = "WAITING"] /\ UNCHANGED <<skipped, passed>>
    BY DEF PreemptRunning
<1>3. /\ skipped = <<>> /\ passed = <<>> /\ InOrder(running, waiting)
      /\ Queue(running) /\ Queue(waiting)
      /\ \A r, s \in Requests : r < s /\ status[r] = "NEW" => status[s] = "NEW"
      /\ \A r \in ToSet(running) \union ToSet(waiting) : r \in Requests /\ status[r] # "NEW"
    BY OrderMeans
<1>4. running # <<>>
    BY <1>1, <1>2 DEF PhaseInv, Allocating
<1>5. place \in DOMAIN running /\ running[place] = v /\ v \in ToSet(running) /\ place = Len(running)
    BY <1>1, <1>4, VictimRuns
<1> HIDE DEF v, place
<1>6. waiting' = q
    BY <1>2 DEF Prepend
<1>7. DOMAIN running = 1..Len(running) /\ Len(running) \in Nat
    BY <1>3, QueueLength
<1>8. /\ Queue(p) /\ ToSet(p) = ToSet(running) \ {v} /\ Len(p) = Len(running) - 1
      /\ \A k \in 1..(Len(running) - 1) : p[k] = IF k < place THEN running[k] ELSE running[k + 1]
    BY <1>3, <1>5, RemoveQueue
<1> HIDE DEF p
<1>9. DOMAIN p = 1..(Len(running) - 1)
    BY <1>8, QueueLength
<1>10. \A k \in DOMAIN p : k \in DOMAIN running /\ k < place /\ p[k] = running[k]
    BY <1>5, <1>7, <1>8, <1>9
<1>11. Rising(running) /\ Rising(waiting) /\ \A a \in ToSet(running) : \A b \in ToSet(waiting) : a < b
    BY <1>3 DEF InOrder
<1>12. Rising(p)
    BY <1>10, <1>11 DEF Rising
<1>13. \A a \in ToSet(p) : a < v
    <2> SUFFICES ASSUME NEW a \in ToSet(p) PROVE a < v
        OBVIOUS
    <2>1. PICK k \in DOMAIN p : p[k] = a
        BY DEF ToSet
    <2>2. k \in DOMAIN running /\ k < place /\ running[k] = a
        BY <1>10, <2>1
    <2> QED
        BY <1>5, <1>11, <2>2 DEF Rising
<1>14. v \in Requests /\ Queue(<<v>>) /\ ToSet(<<v>>) = {v}
    BY <1>3, <1>5, SingleQueue
<1>15. v \notin ToSet(waiting)
    <2>1. v \in Nat
        BY <1>14, FiniteRequests
    <2> QED
        BY <1>5, <1>11, <2>1
<1>16. Queue(q) /\ ToSet(q) = {v} \union ToSet(waiting)
    <2>1. ToSet(<<v>>) \intersect ToSet(waiting) = {}
        BY <1>14, <1>15
    <2> QED
        BY <1>3, <1>14, <2>1, ConcatQueue
<1>17. Rising(q)
    <2>1. Rising(<<v>>)
        BY DEF Rising
    <2>2. InOrder(<<v>>, waiting)
        BY <1>5, <1>11, <1>14, <2>1 DEF InOrder
    <2> QED
        BY <1>3, <1>14, <2>2, JoinRising
<1>18. InOrder(p, q)
    BY <1>8, <1>11, <1>12, <1>13, <1>16, <1>17 DEF InOrder
<1>19. \A r, s \in Requests : r < s /\ status'[r] = "NEW" => status'[s] = "NEW"
    <2>1. status[v] # "NEW" /\ status \in [Requests -> Statuses]
        BY <1>1, <1>3, <1>5 DEF TypeInv
    <2>2. \A r \in Requests : status'[r] = "NEW" <=> status[r] = "NEW"
        BY <1>2, <1>14, <2>1
    <2> QED
        BY <1>3, <2>2
<1> HIDE DEF q
<1> QED
    BY <1>2, <1>3, <1>6, <1>8, <1>16, <1>18, <1>19, OrderFrom

LEMMA AdmitOrder ==
    ASSUME IInv, OrderInv, Policy = "fcfs", ExternalHits = {}, NEW h \in AllHits, Admit(h)
    PROVE  OrderInv'
<1> DEFINE r == Head(waiting)
           p == running \o <<r>>
           q == Tail(waiting)
<1>1. TypeInv
    BY DEF IInv
<1>2. /\ skipped = <<>> /\ passed = <<>> /\ InOrder(running, waiting)
      /\ Queue(running) /\ Queue(waiting)
      /\ \A x, s \in Requests : x < s /\ status[x] = "NEW" => status[s] = "NEW"
      /\ \A x \in ToSet(running) \union ToSet(waiting) : x \in Requests /\ status[x] # "NEW"
    BY OrderMeans
<1>3. ~FromSkipped /\ NextWaiting = r
    BY <1>2 DEF FromSkipped, NextWaiting
<1>4. /\ phase = "waiting" /\ WaitingLeft /\ PopWaiting
      /\ running' = Append(running, r) /\ status' = [status EXCEPT ![r] = "RUNNING"]
      /\ passed' = passed
    BY <1>3 DEF Admit, Visit
<1>5. waiting # <<>>
    BY <1>3, <1>4, NextOne
<1>6. waiting' = q /\ skipped' = skipped
    BY <1>3, <1>4 DEF PopWaiting
<1>7. /\ Queue(q) /\ ToSet(q) = ToSet(waiting) \ {r} /\ r \in ToSet(waiting)
    BY <1>2, <1>5, TailQueue
<1>8. /\ waiting \in Seq(Requests) /\ Len(waiting) \in Nat \ {0} /\ DOMAIN waiting = 1..Len(waiting)
      /\ r = waiting[1]
    BY <1>2, <1>5 DEF Queue
<1>9. /\ q \in Seq(Requests) /\ Len(q) = Len(waiting) - 1 /\ \A i \in 1..Len(q) : q[i] = waiting[i + 1]
    BY <1>5, <1>8, HeadTailProperties
<1>10. running' = p
    BY <1>2, <1>4, AppendIsConcat DEF Queue
<1> HIDE DEF r, q
<1>11. Rising(running) /\ Rising(waiting) /\ \A a \in ToSet(running) : \A b \in ToSet(waiting) : a < b
    BY <1>2 DEF InOrder
<1>12. DOMAIN q = 1..(Len(waiting) - 1)
    BY <1>9
<1>13. \A i \in DOMAIN q : i + 1 \in DOMAIN waiting /\ q[i] = waiting[i + 1] /\ i \in Nat /\ i >= 1
    BY <1>8, <1>9, <1>12
<1>14. Rising(q)
    <2> SUFFICES ASSUME NEW i \in DOMAIN q, NEW j \in DOMAIN q, i < j PROVE q[i] < q[j]
        BY DEF Rising
    <2>1. i + 1 \in DOMAIN waiting /\ j + 1 \in DOMAIN waiting /\ i + 1 < j + 1
        BY <1>13
    <2>2. waiting[i + 1] < waiting[j + 1]
        BY <1>11, <2>1 DEF Rising
    <2> QED
        BY <1>13, <2>2
<1>15. \A b \in ToSet(q) : r < b
    <2> SUFFICES ASSUME NEW b \in ToSet(q) PROVE r < b
        OBVIOUS
    <2>1. PICK i \in DOMAIN q : q[i] = b
        BY DEF ToSet
    <2>2. i + 1 \in DOMAIN waiting /\ 1 \in DOMAIN waiting /\ 1 < i + 1 /\ waiting[i + 1] = b
        BY <1>8, <1>13, <2>1
    <2> QED
        BY <1>8, <1>11, <2>2 DEF Rising
<1>16. r \in Requests /\ Queue(<<r>>) /\ ToSet(<<r>>) = {r}
    BY <1>2, <1>7, SingleQueue
<1>17. r \notin ToSet(running)
    <2>1. r \in Nat
        BY <1>16, FiniteRequests
    <2> QED
        BY <1>7, <1>11, <2>1
<1>18. Queue(p) /\ ToSet(p) = ToSet(running) \union {r}
    <2>1. ToSet(running) \intersect ToSet(<<r>>) = {}
        BY <1>16, <1>17
    <2> QED
        BY <1>2, <1>16, <2>1, ConcatQueue
<1>19. Rising(p)
    <2>1. Rising(<<r>>)
        BY DEF Rising
    <2>2. InOrder(running, <<r>>)
        BY <1>7, <1>11, <1>16, <2>1 DEF InOrder
    <2> QED
        BY <1>2, <1>16, <2>2, JoinRising
<1> HIDE DEF p
<1>20. InOrder(p, q)
    BY <1>7, <1>11, <1>14, <1>15, <1>18, <1>19 DEF InOrder
<1>21. \A x, s \in Requests : x < s /\ status'[x] = "NEW" => status'[s] = "NEW"
    <2>1. status[r] # "NEW" /\ status \in [Requests -> Statuses]
        BY <1>1, <1>2, <1>7 DEF TypeInv
    <2>2. \A x \in Requests : status'[x] = "NEW" <=> status[x] = "NEW"
        BY <1>4, <1>16, <2>1
    <2> QED
        BY <1>2, <2>2
<1> QED
    BY <1>2, <1>4, <1>6, <1>7, <1>10, <1>18, <1>20, <1>21, OrderFrom

LEMMA SubmitOrder ==
    ASSUME IInv, OrderInv, Policy = "fcfs", ExternalHits = {}, NEW r \in Requests, Submit(r)
    PROVE  OrderInv'
<1> DEFINE q == waiting \o <<r>>
<1>1. TypeInv
    BY DEF IInv
<1>2. /\ skipped = <<>> /\ passed = <<>> /\ InOrder(running, waiting)
      /\ Queue(running) /\ Queue(waiting)
      /\ \A x, s \in Requests : x < s /\ status[x] = "NEW" => status[s] = "NEW"
      /\ \A x \in ToSet(running) \union ToSet(waiting) : x \in Requests /\ status[x] # "NEW"
    BY OrderMeans
<1>3. /\ status[r] = "NEW" /\ \A x \in 1..(r - 1) : status[x] # "NEW"
      /\ status' = [status EXCEPT ![r] = "WAITING"] /\ waiting' = Append(waiting, r)
      /\ running' = running /\ skipped' = skipped /\ passed' = passed
    BY DEF Submit, batchVars, Enqueue
<1>4. waiting' = q
    BY <1>2, <1>3, AppendIsConcat DEF Queue
<1>5. \A x \in ToSet(running) \union ToSet(waiting) : x < r
    <2> SUFFICES ASSUME NEW x \in ToSet(running) \union ToSet(waiting) PROVE x < r
        OBVIOUS
    <2>1. x \in Requests /\ status[x] # "NEW"
        BY <1>2
    <2>2. ~(r < x) /\ x # r
        BY <1>2, <1>3, <2>1
    <2>3. x \in Nat /\ r \in Nat
        BY <2>1, FiniteRequests
    <2> QED
        BY <2>2, <2>3
<1>6. Queue(<<r>>) /\ ToSet(<<r>>) = {r} /\ r \in Nat
    BY SingleQueue, FiniteRequests
<1>7. r \notin ToSet(waiting)
    BY <1>5, <1>6
<1>8. Queue(q) /\ ToSet(q) = ToSet(waiting) \union {r}
    <2>1. ToSet(waiting) \intersect ToSet(<<r>>) = {}
        BY <1>6, <1>7
    <2> QED
        BY <1>2, <1>6, <2>1, ConcatQueue
<1>9. Rising(running) /\ Rising(waiting) /\ \A a \in ToSet(running) : \A b \in ToSet(waiting) : a < b
    BY <1>2 DEF InOrder
<1>10. Rising(q)
    <2>1. Rising(<<r>>)
        BY DEF Rising
    <2>2. InOrder(waiting, <<r>>)
        BY <1>5, <1>6, <1>9, <2>1 DEF InOrder
    <2> QED
        BY <1>2, <1>6, <2>2, JoinRising
<1> HIDE DEF q
<1>11. InOrder(running, q)
    BY <1>5, <1>8, <1>9, <1>10 DEF InOrder
<1>12. \A x, s \in Requests : x < s /\ status'[x] = "NEW" => status'[s] = "NEW"
    <2> SUFFICES ASSUME NEW x \in Requests, NEW s \in Requests, x < s, status'[x] = "NEW"
                 PROVE  status'[s] = "NEW"
        OBVIOUS
    <2>1. x # r /\ status[x] = "NEW"
        BY <1>1, <1>3 DEF TypeInv
    <2>2. status[s] = "NEW"
        BY <1>2, <2>1
    <2>3. s # r
        <3>1. s = r => x \in 1..(r - 1)
            BY <1>6, FiniteRequests
        <3> QED
            BY <1>3, <2>1, <3>1
    <2> QED
        BY <1>1, <1>3, <2>2, <2>3 DEF TypeInv
<1> QED
    BY <1>2, <1>3, <1>4, <1>8, <1>11, <1>12, OrderFrom

LEMMA UpdateOrder ==
    ASSUME IInv, OrderInv, Policy = "fcfs", ExternalHits = {},
           NEW a \in [Requests -> 0..NumSpec], Update(a)
    PROVE  OrderInv'
<1>1. TypeInv /\ FlightInv
    BY DEF IInv
<1>2. /\ skipped = <<>> /\ passed = <<>> /\ InOrder(running, waiting)
      /\ Queue(running) /\ Queue(waiting)
      /\ \A x, s \in Requests : x < s /\ status[x] = "NEW" => status[s] = "NEW"
    BY OrderMeans
<1>3. PICK done : /\ done \subseteq Head(inflight).sampled
                  /\ status' = [r \in Requests |-> IF r \in done THEN "FINISHED" ELSE status[r]]
                  /\ running' = Without(running, done) /\ waiting' = Without(waiting, done)
                  /\ skipped' = Without(skipped, done) /\ passed' = passed
    <2> DEFINE D == {r \in Head(inflight).sampled : output[r] + Gain(r, a[r]) = MaxTokens[r]}
    <2>1. D \subseteq Head(inflight).sampled
        OBVIOUS
    <2>2. /\ status' = [r \in Requests |-> IF r \in D THEN "FINISHED" ELSE status[r]]
          /\ running' = Without(running, D) /\ waiting' = Without(waiting, D)
          /\ skipped' = Without(skipped, D) /\ passed' = passed
        BY DEF Update, batchVars
    <2> HIDE DEF D
    <2> QED
        BY <2>1, <2>2
<1>4. \A r \in done : status[r] # "NEW"
    <2>1. inflight # <<>> /\ inflight \in Seq(Batches)
        BY <1>1 DEF Update, TypeInv
    <2>2. 1 \in DOMAIN inflight /\ Head(inflight) = inflight[1]
        BY <2>1
    <2>3. \A r \in inflight[1].sampled : SampledBy(1, r)
        BY <1>1, <2>2 DEF FlightInv
    <2> QED
        BY <1>3, <2>2, <2>3 DEF SampledBy
<1>5. /\ Queue(running') /\ ToSet(running') \subseteq ToSet(running)
      /\ Queue(waiting') /\ ToSet(waiting') \subseteq ToSet(waiting)
    BY <1>2, <1>3, WithoutQueue
<1>6. skipped' = <<>>
    <2>1. Queue(Without(skipped, done)) /\ ToSet(Without(skipped, done)) = {}
        BY <1>2, EmptyQueue, WithoutQueue
    <2> QED
        BY <1>3, <2>1, NoneLeft
<1>7. Rising(running') /\ Rising(waiting')
    <2>1. Rising(Without(running, done)) /\ Rising(Without(waiting, done))
        BY <1>2, RisingWithout DEF InOrder
    <2> QED
        BY <1>3, <2>1
<1>8. InOrder(running', waiting')
    BY <1>2, <1>5, <1>7 DEF InOrder
<1>9. \A x, s \in Requests : x < s /\ status'[x] = "NEW" => status'[s] = "NEW"
    BY <1>2, <1>3, <1>4
<1> QED
    BY <1>2, <1>3, <1>5, <1>6, <1>8, <1>9, OrderFrom

LEMMA NextInOrder == ASSUME IInv, OrderInv, [Next]_vars PROVE OrderInv'
<1> SUFFICES ASSUME Policy = "fcfs", ExternalHits = {} PROVE OrderInv'
    BY DEF OrderInv
<1>1. skipped = <<>> /\ passed = <<>> /\ \A r \in Requests : status[r] # Loading
    BY OrderMeans
<1>2. CASE Schedule
    <2>1. CASE BeginStep
        BY <1>1, <2>1, OrderStays DEF BeginStep, reqVars, queueVars
    <2>2. CASE PassRunning \/ PickRunning \/ ScheduleRunning \/ EndRunning \/ EndWaiting
        BY <1>1, <2>2, OrderStays
        DEF PassRunning, PickRunning, ScheduleRunning, EndRunning, EndWaiting, reqVars,
            queueVars, batchVars
    <2>3. CASE PreemptRunning
        BY <2>3, PreemptOrder
    <2>4. CASE SkipLoading \/ Promote
        <3>1. phase = "waiting" /\ WaitingLeft /\ status[NextWaiting] = Loading
            BY <2>4 DEF SkipLoading, Promote
        <3> QED
            BY <1>1, <3>1, NextOne
    <2>5. CASE SkipUnknown
        BY <2>5 DEF SkipUnknown
    <2>6. CASE \E h \in AllHits : GiveUp(h) \/ StartLoad(h) \/ Admit(h)
        <3>1. PICK h \in AllHits : GiveUp(h) \/ StartLoad(h) \/ Admit(h)
            BY <2>6
        <3>2. CASE GiveUp(h)
            BY <1>1, <3>2, OrderStays DEF GiveUp, reqVars, queueVars, batchVars
        <3>3. CASE StartLoad(h)
            <4>1. h.async /\ h \in Hits(NextWaiting)
                BY <3>3 DEF StartLoad, Visit
            <4>2. ~(computed[NextWaiting] > 0)
                <5>1. ~NoHit.async
                    BY DEF NoHit
                <5> QED
                    BY <4>1, <5>1 DEF Hits
            <4>3. h \in [local : {BlockSize * n : n \in LocalHits}, external : {0},
                         async : AsyncLoads \union {FALSE}]
                BY <4>1, <4>2 DEF Hits
            <4>4. h.external = 0
                BY <4>3
            <4>5. h.async => h.external > 0
                BY <4>1, <4>2 DEF Hits
            <4> QED
                BY <4>1, <4>4, <4>5
        <3>4. CASE Admit(h)
            BY <3>4, AdmitOrder
        <3> QED
            BY <3>1, <3>2, <3>3, <3>4
    <2>7. CASE Finish
        <3>1. skipped' \in Requeued(<<>>, <<>>) /\ passed' = <<>>
              /\ UNCHANGED <<status, running, waiting>>
            BY <1>1, <2>7 DEF Finish
        <3>2. skipped' = <<>>
            <4>1. PICK s : s = skipped'
                OBVIOUS
            <4>2. Queue(s) /\ ToSet(s) = {}
                BY <3>1, <4>1, EmptyQueue, RequeuedQueue
            <4> QED
                BY <4>1, <4>2, NoneLeft
        <3> QED
            BY <3>1, <3>2, OrderStays
    <2> QED
        BY <1>2, <2>1, <2>2, <2>3, <2>4, <2>5, <2>6, <2>7 DEF Schedule
<1>3. CASE Updates
    BY <1>3, UpdateOrder DEF Updates
<1>4. CASE \E r \in Requests : Submit(r) \/ LoadEnds(r)
    <2>1. PICK r \in Requests : Submit(r) \/ LoadEnds(r)
        BY <1>4
    <2>2. CASE Submit(r)
        BY <2>2, SubmitOrder
    <2>3. CASE LoadEnds(r)
        <3>1. status[r] = Loading
            BY <2>3 DEF LoadEnds, LoadDone, LoadFails
        <3> QED
            BY <1>1, <3>1
    <2> QED
        BY <2>1, <2>2, <2>3
<1>5. CASE UNCHANGED vars
    BY <1>1, <1>5, OrderStays DEF vars, reqVars, queueVars, batchVars
<1> QED
    BY <1>2, <1>3, <1>4, <1>5 DEF Next

\* First come, first served: preemption never lets a request pass an earlier one.
THEOREM FirstComeFirstServed == Spec => []InArrivalOrder
<1>1. Init => OrderInv
    BY DEF Init, OrderInv, InArrivalOrder
<1>2. IInv /\ OrderInv /\ [Next]_vars => OrderInv'
    BY NextInOrder
<1>3. OrderInv => InArrivalOrder
    BY DEF OrderInv, InArrivalOrder
<1> QED
    BY <1>1, <1>2, <1>3, Invariant, PTL DEF Spec

(***************************************************************************)
(* The oldest request is served                                            *)
(***************************************************************************)

\* r has tokens in the batch being made, or a batch in flight owes it one.
Served(r) == sched[r] > 0 \/ ~Here(r)

\* What has been computed is lost when a request leaves the running ones, so none that
\* waits holds a block.  The head of the running queue is the oldest request: once the
\* loop has passed it, it is served; as long as nothing runs, the whole batch is left.
ServedInv ==
    Plain =>
        /\ \A r \in Requests : status[r] = "WAITING" => computed[r] = 0
        /\ phase \in {"running", "allocate"} =>
              IF running = <<>> THEN phase = "running" /\ victims = {} /\ budget = MaxScheduled
              ELSE IF index = 1 THEN budget = MaxScheduled ELSE Served(running[1])
        /\ phase = "waiting" =>
              IF running = <<>> THEN budget = MaxScheduled ELSE Served(running[1])
        /\ phase = "finish" =>
              IF running = <<>> THEN waiting = <<>> ELSE Served(running[1])

\* Two multiples of the block size differ by a block at least.
LEMMA BlockApart ==
    ASSUME NEW m \in Nat, NEW n \in Nat, m < n, m % BlockSize = 0, n % BlockSize = 0
    PROVE  n - m >= BlockSize
<1>1. m \in Int /\ n \in Int
    OBVIOUS
<1>2. PICK k \in Int : m = BlockSize * k
    BY <1>1, MultipleForm
<1>3. PICK l \in Int : n = BlockSize * l
    BY <1>1, MultipleForm
<1>4. BlockSize \in Nat \ {0}
    BY BlockSizes
<1>5. k < l
    <2>1. SUFFICES ASSUME l <= k PROVE FALSE
        OBVIOUS
    <2>2. BlockSize * l <= BlockSize * k
        BY <1>4, <2>1
    <2> QED
        BY <1>2, <1>3, <2>2
<1>6. n - m = BlockSize * (l - k) /\ l - k >= 1
    BY <1>2, <1>3, <1>4, <1>5
<1>7. BlockSize * (l - k) >= BlockSize * 1
    BY <1>4, <1>6
<1> QED
    BY <1>4, <1>6, <1>7

\* A chunk that may have a whole block where it must end on one is not cut to nothing.
LEMMA SplitSome ==
    ASSUME NEW r, NumTokens(r) \in Nat, NEW n \in Nat, n >= 1, NEW from \in Nat,
           Align /\ Prefilling(r, from) /\ from + n < LastCachePosition(r) => n >= BlockSize
    PROVE  Split(r, n, from) >= 1
<1> DEFINE last == LastCachePosition(r)
           down == (n \div BlockSize) * BlockSize
<1>1. last \in Nat
    BY LastPosition
<1>2. Split(r, n, from) =
        IF ~Align \/ ~Prefilling(r, from) THEN n
        ELSE IF from + n < last THEN down
        ELSE IF from < last /\ last < from + n THEN last - from
        ELSE n
    BY DEF Split
<1>3. n >= BlockSize => down >= 1
    <2>1. /\ n \div BlockSize \in Int /\ n % BlockSize \in 0..(BlockSize - 1)
          /\ n = BlockSize * (n \div BlockSize) + (n % BlockSize)
          /\ n \div BlockSize >= 0
        BY Division
    <2> DEFINE d == n \div BlockSize
    <2> HIDE DEF d
    <2>2. d \in Nat /\ n = BlockSize * d + (n % BlockSize) /\ n % BlockSize \in 0..(BlockSize - 1)
        BY <2>1 DEF d
    <2>3. BlockSize \in Nat \ {0}
        BY BlockSizes
    <2>4. ASSUME n >= BlockSize PROVE d >= 1
        <3>1. SUFFICES ASSUME d = 0 PROVE FALSE
            BY <2>2
        <3>2. BlockSize * d = 0
            BY <2>3, <3>1
        <3> QED
            BY <2>2, <2>3, <2>4, <3>2
    <2>5. d >= 1 => d * BlockSize >= 1
        BY <2>2, <2>3
    <2> QED
        BY <2>4, <2>5 DEF d
<1> HIDE DEF last, down
<1> QED
    BY <1>1, <1>2, <1>3 DEF last

\* A request with tokens left, at a place where a block may end, gets some of a whole batch.
LEMMA ChunkLeft ==
    ASSUME NEW r, NumTokens(r) \in Nat, NEW from \in Nat, NEW left \in Nat,
           from < NumTokens(r), NumTokens(r) - from <= left,
           Align /\ Prefilling(r, from) /\ from < LastCachePosition(r) => from % BlockSize = 0
    PROVE  /\ left >= 1 /\ Threshed(left) \in Nat
           /\ \A n \in Nat : n = Threshed(left) \/ n = MaxScheduled \/ n >= NumTokens(r) - from =>
                 /\ n >= 1
                 /\ Align /\ Prefilling(r, from) /\ from + n < LastCachePosition(r) => n >= BlockSize
<1> DEFINE last == LastCachePosition(r)
           m == NumTokens(r)
<1>1. last \in Nat /\ last <= m /\ last % BlockSize = 0 /\ m \in Nat
    BY LastPosition
<1>2. left >= 1
    OBVIOUS
<1>3. Threshed(left) = IF Threshold > 0 THEN (IF left <= Threshold THEN left ELSE Threshold) ELSE left
    BY Constants, MinMax DEF Threshed
<1>4. Threshed(left) \in Nat /\ Threshed(left) >= 1
    BY <1>2, <1>3, Constants
<1>5. ASSUME Align, Prefilling(r, from), from < last
      PROVE  /\ BlockSize \in Nat /\ m - from >= BlockSize
             /\ MaxScheduled >= BlockSize /\ Threshed(left) >= BlockSize
    <2>1. from % BlockSize = 0
        BY <1>5 DEF last
    <2>2. last - from >= BlockSize
        BY <1>1, <1>5, <2>1, BlockApart
    <2>3. BlockSize \in Nat
        BY BlockSizes
    <2>4. m - from >= BlockSize
        BY <1>1, <2>2, <2>3
    <2>5. MaxScheduled >= BlockSize /\ (Threshold = 0 \/ Threshold >= BlockSize)
        BY <1>5, ConfigAssumption
    <2>6. left >= BlockSize
        BY <2>3, <2>4 DEF m
    <2>7. Threshed(left) >= BlockSize
        BY <1>3, <2>3, <2>5, <2>6, Constants
    <2> QED
        BY <2>3, <2>4, <2>5, <2>7
<1>6. ASSUME NEW n \in Nat, n = Threshed(left) \/ n = MaxScheduled \/ n >= m - from
      PROVE  /\ n >= 1
             /\ Align /\ Prefilling(r, from) /\ from + n < last => n >= BlockSize
    <2>1. n >= 1
        BY <1>4, <1>6, Constants
    <2>2. ASSUME Align, Prefilling(r, from), from + n < last PROVE n >= BlockSize
        <3>1. from < last
            BY <1>1, <2>2
        <3>2. /\ BlockSize \in Nat /\ m - from >= BlockSize
              /\ MaxScheduled >= BlockSize /\ Threshed(left) >= BlockSize
            BY <1>5, <2>2, <3>1
        <3> HIDE DEF m
        <3> QED
            BY <1>1, <1>6, <3>2
    <2> QED
        BY <2>1, <2>2
<1> QED
    BY <1>2, <1>4, <1>6 DEF m, last

\* In that setting only what runs holds blocks.
LEMMA RunningHold ==
    ASSUME IInv, OrderInv, ServedInv, Plain, NEW r \in Requests, status[r] # "RUNNING"
    PROVE  held[r] = 0
<1>1. status[r] # Loading
    BY OrderMeans DEF Plain
<1>2. status[r] \in {"NEW", "WAITING", "FINISHED"}
    BY <1>1, Ranges DEF IInv, Statuses
<1>3. status[r] = "WAITING" => computed[r] = 0
    BY DEF ServedInv
<1>4. BlocksOf(r)
    BY DEF IInv, BlockInv
<1> QED
    BY <1>2, <1>3, <1>4 DEF BlocksOf

\* A request that holds all blocks in use gets all it can ever ask for.
LEMMA RoomAlone ==
    ASSUME IInv, RoomForOne, NEW r \in Requests, \A q \in Requests : q # r => held[q] = 0,
           NEW from \in Nat, NEW n \in Nat, NEW look \in Nat
    PROVE  /\ Free = NumBlocks - held[r] /\ held[r] <= NumBlocks
           /\ Fits(r, from, n, look)
<1> DEFINE more == Blocks(Min({from + n + look, MaxModelLen}))
<1>1. held \in [Requests -> Nat] /\ Total(held) <= NumBlocks
    BY DEF IInv, TypeInv, BlockInv
<1>2. Total(held) = held[r]
    <2> DEFINE none == [held EXCEPT ![r] = 0]
    <2>1. none = Zero
        BY <1>1 DEF Zero
    <2>2. Total(held) \in Nat /\ held[r] \in Nat /\ Total(none) = (Total(held) - held[r]) + 0
        BY <1>1, TotalExcept
    <2>3. Total(none) = 0
        BY <2>1, TotalZero
    <2> HIDE DEF none
    <2> QED
        BY <2>2, <2>3
<1>3. held[r] \in Nat /\ NumBlocks \in Nat /\ MaxModelLen \in Nat
    BY <1>1, BlockSizes
<1>4. Free = NumBlocks - held[r] /\ held[r] <= NumBlocks
    BY <1>1, <1>2 DEF Free
<1>5. more \in Nat /\ more <= NumBlocks
    <2>1. from + n + look \in Nat
        OBVIOUS
    <2>2. Min({from + n + look, MaxModelLen}) \in Nat /\ Min({from + n + look, MaxModelLen}) <= MaxModelLen
        BY <2>1, <1>3, MinMax
    <2>3. more \in Nat /\ more <= Blocks(MaxModelLen) /\ Blocks(MaxModelLen) \in Nat
        BY <2>2, <1>3, BlocksMonotone
    <2> QED
        BY <2>3, <1>3 DEF RoomForOne
<1>6. Needed(r, from, n, look) = Max({held[r], more})
    BY DEF Needed
<1> HIDE DEF more
<1>7. Max({held[r], more}) = IF held[r] >= more THEN held[r] ELSE more
    <2>1. held[r] \in Int /\ more \in Int
        BY <1>3, <1>5
    <2> QED
        BY <2>1, MinMax
<1>8. Needed(r, from, n, look) - held[r] <= Free
    BY <1>3, <1>4, <1>5, <1>6, <1>7
<1> QED
    BY <1>4, <1>8 DEF Fits

\* A running request that awaits no token has work, and a whole batch has room for some.
LEMMA DemandSome ==
    ASSUME IInv, Plain, phase = "running", RunningLeft, budget = MaxScheduled,
           Here(running[index])
    PROVE  Demand(running[index]) >= 1
<1> DEFINE r == running[index]
           from == computed[r]
           m == NumTokens(r)
           left == m + spec[r] - from
           a == Threshed(left)
           c == MaxModelLen - 1 - from
           n == Min({a, budget, c})
<1>1. r \in Requests /\ status[r] = "RUNNING" /\ sched[r] = 0
    BY DemandFits
<1>2. TypeInv /\ CountOf(r) /\ ChunkAligned(r, sched[r]) /\ Here(r)
    BY <1>1 DEF IInv, CountInv, AlignInv
<1>3. /\ from \in Nat /\ m \in Nat /\ spec[r] \in Nat /\ MaxModelLen \in Nat
      /\ from < m /\ m < MaxModelLen
    <2> HIDE DEF r
    <2>1. from \in Nat /\ m \in Nat /\ spec[r] \in Nat
        BY <1>1, <1>2, Ranges
    <2>2. from < m
        BY <1>1, <1>2 DEF CountOf
    <2>3. m < MaxModelLen
        BY <1>1, RunningCount
    <2> QED
        BY <2>1, <2>2, <2>3, BlockSizes
<1> HIDE DEF r
<1>4. Align /\ Prefilling(r, from) /\ from < LastCachePosition(r) => from % BlockSize = 0
    BY <1>2 DEF ChunkAligned, Plain
<1>5. left \in Nat /\ m - from <= left
    BY <1>3
<1>6. c \in Nat /\ c >= m - from
    BY <1>3
<1>7. Demand(r) = Split(r, n, from)
    BY DEF Demand
<1> HIDE DEF left, c
<1>8. /\ a \in Nat
      /\ \A k \in Nat : k = a \/ k = MaxScheduled \/ k >= m - from =>
            /\ k >= 1
            /\ Align /\ Prefilling(r, from) /\ from + k < LastCachePosition(r) => k >= BlockSize
    BY <1>3, <1>4, <1>5, ChunkLeft
<1>9. n \in {a, MaxScheduled, c}
    <2> HIDE DEF a
    <2>1. a \in Int /\ budget \in Int /\ c \in Int
        BY <1>6, <1>8, Constants
    <2>2. n \in {a, budget, c}
        BY <2>1, MinOfThree
    <2> QED
        BY <2>2
<1> HIDE DEF n, a, m, from
<1>10. n \in Nat /\ n >= 1
       /\ (Align /\ Prefilling(r, from) /\ from + n < LastCachePosition(r) => n >= BlockSize)
    BY <1>6, <1>8, <1>9, Constants
<1>11. Split(r, n, from) >= 1
    BY <1>3, <1>10, SplitSome DEF m
<1> QED
    BY <1>7, <1>11 DEF r

\* With nothing running and the whole batch left, the next waiting request is admitted.
LEMMA HeadAdmitted ==
    ASSUME IInv, OrderInv, ServedInv, Plain, phase = "waiting", running = <<>>,
           NEW h \in AllHits, Visit(h)
    PROVE  Admissible(h)
<1> DEFINE r == NextWaiting
           from == Known(h)
           m == NumTokens(r)
           left == m - from
           a == Threshed(left)
           n == Min({a, budget})
<1>1. /\ WaitingLeft /\ status[r] # Loading /\ h \in Hits(r)
      /\ TypeInv /\ QueueInv
    BY DEF Visit, IInv
<1>2. r \in Requests /\ status[r] = "WAITING"
    BY <1>1, NextOne
<1>3. budget = MaxScheduled
    BY DEF ServedInv
<1>4. computed[r] = 0
    BY <1>2 DEF ServedInv
<1>5. ~h.async
    <2>1. ExternalHits = {}
        BY DEF Plain
    <2>2. ~(computed[r] > 0)
        BY <1>4
    <2>3. h.external \in {0} \union {BlockSize * k : k \in ExternalHits} /\ (h.async => h.external > 0)
        BY <1>1, <2>2 DEF Hits
    <2>4. h.external = 0
        BY <2>1, <2>3
    <2> QED
        BY <2>3, <2>4
<1>6. /\ m \in Nat /\ m < MaxModelLen /\ from \in Nat /\ from < m /\ from % BlockSize = 0
    <2>1. /\ m \in Nat \ {0} /\ m < MaxModelLen /\ from \in Nat /\ from < m
          /\ from % BlockSize = 0 \/ from = 0
        BY <1>1, <1>4, <1>5, HitFacts
    <2>2. 0 % BlockSize = 0
        BY BlockSizes
    <2> QED
        BY <2>1, <2>2
<1>7. \A q \in Requests : held[q] = 0
    <2>1. \A q \in Requests : status[q] # "RUNNING"
        BY <1>1, EmptyQueue DEF QueueInv, Of
    <2> QED
        BY <2>1, RunningHold
<1> HIDE DEF from, r
<1>8. left \in Nat /\ m - from <= left
    BY <1>6
<1>9. /\ a \in Nat
      /\ \A k \in Nat : k = a \/ k = MaxScheduled \/ k >= m - from =>
            /\ k >= 1
            /\ Align /\ Prefilling(r, from) /\ from + k < LastCachePosition(r) => k >= BlockSize
    BY <1>6, <1>8, ChunkLeft
<1>10. a <= left
    BY <1>8, Threshes
<1>11. Wanted(h) = a /\ NewTokens(h) = Split(r, n, from)
    BY <1>5 DEF Wanted, NewTokens, r, from
<1> HIDE DEF a
<1>12. n \in Nat /\ (n = a \/ n = MaxScheduled)
    BY <1>3, <1>9, Constants, MinMax
<1> HIDE DEF n
<1>13. n >= 1 /\ (Align /\ Prefilling(r, from) /\ from + n < LastCachePosition(r) => n >= BlockSize)
    BY <1>9, <1>12
<1>14. Split(r, n, from) \in Nat /\ Split(r, n, from) >= 1
    <2>1. Split(r, n, from) \in 0..n
        BY <1>6, <1>12, SplitChunk
    <2> HIDE DEF m
    <2>2. Split(r, n, from) >= 1
        BY <1>6, <1>12, <1>13, SplitSome DEF m
    <2> QED
        BY <2>1, <2>2, <1>12
<1>15. NewTokens(h) \in Nat /\ NewTokens(h) # 0
    BY <1>11, <1>14
<1>16. Chunked \/ Wanted(h) <= budget
    <2>1. Wanted(h) <= MaxModelLen
        BY <1>6, <1>8, <1>9, <1>10, <1>11, BlockSizes
    <2>2. CASE ~Chunked
        <3>1. MaxModelLen <= MaxScheduled
            BY <2>2 DEF Plain, RoomForOne
        <3> QED
            BY <1>3, <1>9, <1>11, <2>1, <3>1, BlockSizes, Constants
    <2> QED
        BY <2>2
<1>17. RoomForOne /\ \A q \in Requests : q # r => held[q] = 0
    BY <1>7 DEF Plain
<1>18. Fits(r, from, NewTokens(h), Lookahead) /\ Free = NumBlocks - held[r]
    BY <1>2, <1>6, <1>15, <1>17, RoomAlone, Lookaheads DEF r
<1>19. Blocks(Min({m, MaxModelLen})) - held[r] <= Free
    <2> DEFINE all == Min({m, MaxModelLen})
    <2>1. all \in Nat /\ all <= MaxModelLen /\ MaxModelLen \in Nat
        BY <1>6, BlockSizes, MinMax
    <2> HIDE DEF all
    <2>2. Blocks(all) \in Nat /\ Blocks(all) <= Blocks(MaxModelLen) /\ Blocks(MaxModelLen) \in Nat
        BY <2>1, BlocksMonotone
    <2>3. held[r] = 0
        BY <1>2, <1>7 DEF r
    <2>4. Blocks(MaxModelLen) <= NumBlocks
        BY <1>17 DEF RoomForOne
    <2> QED
        BY <2>2, <2>3, <2>4, <1>18, BlockSizes DEF all
<1> QED
    BY <1>15, <1>16, <1>18, <1>19 DEF Admissible, r, from

\* The head of the running queue.
LEMMA HeadRuns ==
    ASSUME IInv, running # <<>>
    PROVE  /\ 1 \in DOMAIN running /\ running[1] \in Requests /\ status[running[1]] = "RUNNING"
           /\ Len(running) \in Nat /\ Len(running) >= 1 /\ DOMAIN running = 1..Len(running)
           /\ \A r \in Requests : status[r] = "RUNNING" =>
                 r = running[1] \/ \E k \in DOMAIN running : k > 1 /\ running[k] = r
<1>1. TypeInv /\ QueueInv
    BY DEF IInv
<1>2. Queue(running) /\ DOMAIN running = 1..Len(running) /\ Len(running) \in Nat
    BY <1>1, Queues, QueueLength
<1>3. Len(running) >= 1
    BY <1>2 DEF Queue
<1>4. 1 \in DOMAIN running /\ running[1] \in ToSet(running)
    BY <1>2, <1>3 DEF ToSet
<1>5. running[1] \in Requests /\ status[running[1]] = "RUNNING"
    BY <1>1, <1>4 DEF QueueInv, Of
<1>6. ASSUME NEW r \in Requests, status[r] = "RUNNING"
      PROVE  r = running[1] \/ \E k \in DOMAIN running : k > 1 /\ running[k] = r
    <2>1. r \in ToSet(running)
        BY <1>1, <1>6 DEF QueueInv, Of
    <2>2. PICK k \in DOMAIN running : running[k] = r
        BY <2>1 DEF ToSet
    <2>3. k = 1 \/ k > 1
        BY <1>2
    <2> QED
        BY <2>2, <2>3
<1> QED
    BY <1>2, <1>3, <1>4, <1>5, <1>6

\* Steps of the loop that leave the queue, the batch and the requests alone.
LEMMA ServedStays ==
    ASSUME IInv, ServedInv, Plain, UNCHANGED <<reqVars, running, waiting, inflight>>,
           budget' = budget, sched' = sched, victims' = victims,
           \/ /\ phase' \in {"running", "allocate"} /\ running # <<>>
              /\ index' = 1 => budget = MaxScheduled
              /\ index' # 1 => Served(running[1])
           \/ phase' \in {"waiting", "finish"} /\ running # <<>> /\ Served(running[1])
           \/ phase' = "waiting" /\ running = <<>> /\ budget = MaxScheduled
           \/ phase' = "finish" /\ running = <<>> /\ waiting = <<>>
           \/ phase' = "idle"
    PROVE  ServedInv'
<1>1. \A r : Served(r)' <=> Served(r)
    BY DEF Served, Here
<1>2. \A r \in Requests : status'[r] = "WAITING" => computed'[r] = 0
    BY DEF ServedInv, reqVars
<1> QED
    BY <1>1, <1>2 DEF ServedInv

LEMMA PassServed ==
    ASSUME IInv, ServedInv, Plain, PassRunning
    PROVE  ServedInv'
<1>1. /\ phase = "running" /\ RunningLeft /\ Demand(running[index]) = 0
      /\ phase' = "running" /\ index' = index + 1
      /\ UNCHANGED <<reqVars, running, waiting, inflight, budget, sched, victims>>
    BY DEF PassRunning, queueVars, batchVars
<1>2. index \in DOMAIN running /\ index \in Nat /\ index >= 1
    <2>1. index \in DOMAIN running
        BY <1>1, DemandFits
    <2>2. index \in 1..(Cardinality(Requests) + 1)
        BY Counters DEF IInv
    <2> QED
        BY <2>1, <2>2, FiniteRequests
<1>3. running # <<>>
    BY <1>2
<1>4. Served(running[1])
    <2>1. CASE index = 1
        <3>1. budget = MaxScheduled
            BY <1>1, <1>3, <2>1 DEF ServedInv
        <3>2. ~Here(running[index])
            BY <1>1, <3>1, DemandSome
        <3> QED
            BY <2>1, <3>2 DEF Served
    <2>2. CASE index # 1
        BY <1>1, <1>3, <2>2 DEF ServedInv
    <2> QED
        BY <2>1, <2>2
<1> QED
    BY <1>1, <1>2, <1>3, <1>4, ServedStays

LEMMA PickServed ==
    ASSUME IInv, ServedInv, Plain, PickRunning
    PROVE  ServedInv'
<1>1. /\ phase = "running" /\ RunningLeft /\ phase' = "allocate" /\ index' = index
      /\ UNCHANGED <<reqVars, running, waiting, inflight, budget, sched, victims>>
    BY DEF PickRunning, queueVars, batchVars
<1>2. index \in DOMAIN running
    BY <1>1, DemandFits
<1>3. running # <<>>
    BY <1>2
<1>4. /\ index = 1 => budget = MaxScheduled
      /\ index # 1 => Served(running[1])
    BY <1>1, <1>3 DEF ServedInv
<1> QED
    BY <1>1, <1>3, <1>4, ServedStays

LEMMA EndRunningServed ==
    ASSUME IInv, ServedInv, Plain, EndRunning
    PROVE  ServedInv'
<1>1. /\ phase = "running" /\ ~RunningLeft
      /\ phase' = IF victims = {} THEN "waiting" ELSE "finish"
      /\ UNCHANGED <<reqVars, running, waiting, inflight, budget, sched, victims>>
    BY DEF EndRunning, queueVars, batchVars
<1>2. CASE running = <<>>
    <2>1. victims = {} /\ budget = MaxScheduled
        BY <1>1, <1>2 DEF ServedInv
    <2> QED
        BY <1>1, <1>2, <2>1, ServedStays
<1>3. CASE running # <<>>
    <2>1. Len(running) \in Nat /\ Len(running) >= 1
        BY <1>3, HeadRuns
    <2>2. index # 1
        <3>1. SUFFICES ASSUME index = 1 PROVE FALSE
            OBVIOUS
        <3>2. budget = MaxScheduled
            BY <1>1, <1>3, <3>1 DEF ServedInv
        <3> QED
            BY <1>1, <2>1, <3>1, <3>2, Constants DEF RunningLeft
    <2>3. Served(running[1])
        BY <1>1, <1>3, <2>2 DEF ServedInv
    <2>4. phase' \in {"waiting", "finish"}
        BY <1>1
    <2> QED
        BY <1>1, <1>3, <2>3, <2>4, ServedStays
<1> QED
    BY <1>2, <1>3

\* What is being allocated has its place at the index or before it; nothing from there on
\* is in the batch.
LEMMA CurPlace ==
    ASSUME IInv, phase = "allocate"
    PROVE  /\ running # <<>> /\ cur \in Requests /\ demand \in Nat /\ demand >= 1
           /\ computed[cur] \in Nat /\ index \in Nat /\ index >= 1
           /\ index = 1 => cur = running[1]
           /\ \E p \in DOMAIN running :
                 /\ p <= index /\ running[p] = cur
                 /\ \A k \in DOMAIN running : k >= p => sched[running[k]] = 0
<1>1. TypeInv /\ Allocating
    BY DEF IInv, PhaseInv
<1>2. PICK p \in DOMAIN running :
          /\ p <= index /\ running[p] = cur
          /\ \A k \in DOMAIN running : k >= p => sched[running[k]] = 0
    BY <1>1 DEF Allocating
<1>3. running # <<>>
    BY <1>2
<1>4. cur \in Requests /\ index \in Nat /\ index >= 1 /\ budget \in Nat
    BY <1>1, FiniteRequests, Constants DEF TypeInv
<1>5. demand \in Nat /\ demand >= 1
    BY <1>1, <1>4 DEF Allocating
<1>6. computed[cur] \in Nat
    BY <1>1, <1>4, Ranges
<1>7. index = 1 => p = 1
    BY <1>2, <1>3, <1>4, HeadRuns
<1> QED
    BY <1>2, <1>3, <1>4, <1>5, <1>6, <1>7

LEMMA ScheduleServed ==
    ASSUME IInv, ServedInv, Plain, ScheduleRunning
    PROVE  ServedInv'
<1>1. /\ phase = "allocate" /\ phase' = "running" /\ index' = index + 1
      /\ sched' = [sched EXCEPT ![cur] = demand]
      /\ UNCHANGED <<status, computed, running, inflight>>
    BY DEF ScheduleRunning, queueVars
<1>2. /\ running # <<>> /\ cur \in Requests /\ demand \in Nat /\ demand >= 1
      /\ index \in Nat /\ index >= 1 /\ (index = 1 => cur = running[1])
    BY <1>1, CurPlace
<1>3. sched \in [Requests -> Nat] /\ running[1] \in Requests
    BY <1>2, HeadRuns DEF IInv, TypeInv
<1>4. Served(running[1])'
    <2>1. CASE cur = running[1]
        <3>1. sched'[running[1]] = demand
            BY <1>1, <1>3, <2>1
        <3> QED
            BY <1>1, <1>2, <3>1 DEF Served
    <2>2. CASE cur # running[1]
        <3>1. Served(running[1])
            BY <1>1, <1>2, <2>2 DEF ServedInv
        <3>2. sched'[running[1]] = sched[running[1]]
            BY <1>1, <1>3, <2>2
        <3> QED
            BY <1>1, <3>1, <3>2 DEF Served, Here
    <2> QED
        BY <2>1, <2>2
<1>5. index' # 1
    BY <1>1, <1>2
<1>6. \A r \in Requests : status'[r] = "WAITING" => computed'[r] = 0
    BY <1>1 DEF ServedInv
<1> QED
    BY <1>1, <1>2, <1>4, <1>5, <1>6 DEF ServedInv

\* Nobody is preempted for a request that runs alone, and never the head of several.
LEMMA VictimBehind ==
    ASSUME IInv, OrderInv, ServedInv, Plain, phase = "allocate", ~CurFits
    PROVE  LET place == CHOOSE i \in DOMAIN running : running[i] = Victim
           IN  /\ place = Len(running) /\ place \in DOMAIN running /\ running[place] = Victim
               /\ Len(running) \in Nat /\ Len(running) > 1 /\ Queue(running)
               /\ Victim \in Requests /\ Victim # running[1] /\ sched[Victim] = 0
<1> DEFINE v == Victim
           place == CHOOSE i \in DOMAIN running : running[i] = Victim
<1>1. /\ running # <<>> /\ cur \in Requests /\ demand \in Nat
      /\ computed[cur] \in Nat
    BY CurPlace
<1>2. PICK p \in DOMAIN running :
          /\ p <= index /\ running[p] = cur
          /\ \A k \in DOMAIN running : k >= p => sched[running[k]] = 0
    BY CurPlace
<1>3. TypeInv /\ QueueInv /\ Queue(running)
    BY Queues DEF IInv
<1>4. place = Len(running) /\ running[place] = v /\ place \in DOMAIN running
    BY <1>1, <1>3, VictimRuns DEF Plain
<1> HIDE DEF v, place
<1>5. /\ Len(running) \in Nat /\ Len(running) >= 1 /\ DOMAIN running = 1..Len(running)
      /\ 1 \in DOMAIN running
      /\ \A r \in Requests : status[r] = "RUNNING" =>
            r = running[1] \/ \E k \in DOMAIN running : k > 1 /\ running[k] = r
    BY <1>1, HeadRuns
<1>6. Len(running) > 1
    <2>1. SUFFICES ASSUME Len(running) = 1 PROVE FALSE
        BY <1>5
    <2>2. cur = running[1]
        BY <1>2, <1>5, <2>1
    <2>3. \A q \in Requests : q # cur => held[q] = 0
        <3>1. \A q \in Requests : q # cur => status[q] # "RUNNING"
            BY <1>5, <2>1, <2>2
        <3> QED
            BY <3>1, RunningHold
    <2>4. Fits(cur, computed[cur], demand, NumSpec)
        BY <1>1, <2>3, RoomAlone, Constants DEF Plain
    <2> QED
        BY <2>4 DEF CurFits
<1>7. v # running[1]
    BY <1>3, <1>4, <1>5, <1>6 DEF Queue, IsInjective
<1>8. v \in Requests
    BY <1>3, <1>4 DEF Queue
<1>9. sched[v] = 0
    <2>1. sched[running[place]] = 0
        BY <1>2, <1>4, <1>5
    <2> QED
        BY <1>4, <2>1
<1> QED
    BY <1>3, <1>4, <1>5, <1>6, <1>7, <1>8, <1>9 DEF v, place

LEMMA PreemptServed ==
    ASSUME IInv, OrderInv, ServedInv, Plain, PreemptRunning
    PROVE  ServedInv'
<1> DEFINE v == Victim
           place == CHOOSE i \in DOMAIN running : running[i] = Victim
<1>1. /\ phase = "allocate" /\ ~CurFits
      /\ running' = RemoveAt(running, place)
      /\ budget' = budget + Refund(v)
      /\ sched' = [sched EXCEPT ![v] = 0]
      /\ index' = IF sched[v] > 0 THEN index - 1 ELSE index
      /\ status' = [status EXCEPT ![v] = "WAITING"]
      /\ computed' = [computed EXCEPT ![v] = 0]
      /\ phase' = IF v = cur THEN "finish" ELSE "allocate"
      /\ inflight' = inflight
    BY DEF PreemptRunning
<1>2. running # <<>> /\ running[1] \in Requests /\ (index = 1 => cur = running[1])
    BY <1>1, CurPlace, HeadRuns
<1>3. TypeInv
    BY DEF IInv
<1>4. /\ place = Len(running) /\ place \in DOMAIN running
      /\ Len(running) \in Nat /\ Len(running) > 1 /\ Queue(running)
      /\ v # running[1] /\ sched[v] = 0
    BY <1>1, VictimBehind
<1> HIDE DEF v, place
<1>5. running' # <<>> /\ running'[1] = running[1]
    <2>1. /\ Len(RemoveAt(running, place)) = Len(running) - 1
          /\ \A k \in 1..(Len(running) - 1) :
                RemoveAt(running, place)[k] = IF k < place THEN running[k] ELSE running[k + 1]
        BY <1>4, RemoveQueue
    <2>2. 1 \in 1..(Len(running) - 1) /\ 1 < place
        BY <1>4
    <2>3. Len(running') = Len(running) - 1 /\ running'[1] = running[1]
        BY <1>1, <2>1, <2>2
    <2>4. Len(running') # 0
        BY <1>4, <2>3
    <2> QED
        BY <2>3, <2>4
<1>6. index' = index /\ budget' = budget
    <2>1. budget \in Nat
        BY <1>3, Constants DEF TypeInv
    <2> QED
        BY <1>1, <1>4, <2>1 DEF Refund
<1>7. Served(running[1]) => Served(running[1])'
    <2>1. sched'[running[1]] = sched[running[1]]
        BY <1>1, <1>2, <1>3, <1>4 DEF TypeInv
    <2> QED
        BY <1>1, <1>5, <2>1 DEF Served, Here
<1>8. /\ index = 1 => budget = MaxScheduled
      /\ index # 1 => Served(running[1])
    BY <1>1, <1>2 DEF ServedInv
<1>9. v = cur => index # 1
    BY <1>2, <1>4
<1>10. \A r \in Requests : status'[r] = "WAITING" => computed'[r] = 0
    <2>1. \A r \in Requests : status[r] = "WAITING" => computed[r] = 0
        BY DEF ServedInv
    <2>2. status \in [Requests -> Statuses] /\ computed \in [Requests -> 0..MaxModelLen]
        BY <1>3 DEF TypeInv
    <2> QED
        BY <1>1, <2>1, <2>2
<1> QED
    BY <1>1, <1>5, <1>6, <1>7, <1>8, <1>9, <1>10 DEF ServedInv

\* The pass over the waiting requests ends with nothing in the batch only when none is left.
LEMMA EndsServed ==
    ASSUME IInv, OrderInv, ServedInv, Plain, EndWaiting \/ \E h \in AllHits : GiveUp(h)
    PROVE  ServedInv'
<1>1. /\ phase = "waiting" /\ phase' = "finish"
      /\ UNCHANGED <<reqVars, running, waiting, inflight, budget, sched, victims>>
    BY DEF EndWaiting, GiveUp, Visit, queueVars, batchVars
<1>2. CASE running # <<>>
    <2>1. Served(running[1])
        BY <1>1, <1>2 DEF ServedInv
    <2> QED
        BY <1>1, <1>2, <2>1, ServedStays
<1>3. CASE running = <<>>
    <2>1. CASE EndWaiting
        <3>1. budget = MaxScheduled /\ budget > 0
            BY <1>1, <1>3, Constants DEF ServedInv
        <3>2. Len(running) # MaxRunning
            BY <1>3, Constants
        <3>3. waiting \o skipped = <<>>
            BY <2>1, <3>1, <3>2 DEF EndWaiting, WaitingLeft
        <3>4. waiting = <<>>
            BY <3>3 DEF IInv, TypeInv
        <3> QED
            BY <1>1, <1>3, <3>4, ServedStays
    <2>2. CASE \E h \in AllHits : GiveUp(h)
        <3>1. PICK h \in AllHits : Visit(h) /\ ~Admissible(h)
            BY <2>2 DEF GiveUp
        <3> QED
            BY <1>1, <1>3, <3>1, HeadAdmitted
    <2> QED
        BY <2>1, <2>2
<1> QED
    BY <1>2, <1>3

LEMMA AdmitServed ==
    ASSUME IInv, ServedInv, Plain, NEW h \in AllHits, Admit(h)
    PROVE  ServedInv'
<1> DEFINE r == NextWaiting
           n == NewTokens(h)
           from == Known(h)
<1>1. /\ phase = "waiting" /\ WaitingLeft /\ status[r] # Loading /\ h \in Hits(r)
      /\ Admissible(h) /\ ~h.async
      /\ running' = Append(running, r) /\ sched' = [sched EXCEPT ![r] = n]
      /\ status' = [status EXCEPT ![r] = "RUNNING"]
      /\ computed' = [computed EXCEPT ![r] = from]
      /\ phase' = "waiting" /\ inflight' = inflight
    BY DEF Admit, Visit, loopVars
<1>2. TypeInv /\ r \in Requests
    BY <1>1, NextOne DEF IInv
<1>3. n \in Nat /\ n >= 1
    <2>1. NumTokens(r) \in Nat /\ from \in Nat /\ from <= NumTokens(r)
        BY <1>1, HitFacts
    <2>2. n # 0 /\ n = Split(r, Min({Wanted(h), budget}), from)
        BY <1>1 DEF Admissible, NewTokens
    <2>3. Wanted(h) \in Nat
        <3>1. NumTokens(r) - from \in Nat
            BY <2>1
        <3>2. Threshed(NumTokens(r) - from) \in 0..(NumTokens(r) - from)
            BY <3>1, Threshes
        <3> HIDE DEF from, r
        <3>3. Threshed(NumTokens(r) - from) \in Nat
            BY <3>1, <3>2
        <3> QED
            BY <3>3 DEF Wanted, from, r
    <2>4. budget \in Nat
        BY <1>2, Constants DEF TypeInv
    <2>5. Min({Wanted(h), budget}) \in Nat
        BY <2>3, <2>4, MinMax
    <2> HIDE DEF n, r, from
    <2>6. n \in 0..Min({Wanted(h), budget})
        BY <2>1, <2>2, <2>5, SplitChunk
    <2> QED
        BY <2>2, <2>5, <2>6
<1> HIDE DEF n, r, from
<1>4. running \in Seq(Requests) /\ sched \in [Requests -> Nat] /\ status \in [Requests -> Statuses]
      /\ computed \in [Requests -> 0..MaxModelLen]
    BY <1>2 DEF TypeInv
<1>5. running' # <<>> /\ Served(running[1])'
    <2>1. CASE running = <<>>
        <3>1. running' # <<>> /\ running'[1] = r
            BY <1>1, <2>1
        <3>2. sched'[r] = n
            BY <1>1, <1>2, <1>4
        <3> QED
            BY <1>3, <3>1, <3>2 DEF Served
    <2>2. CASE running # <<>>
        <3>1. running' # <<>> /\ running'[1] = running[1]
            BY <1>1, <1>2, <1>4, <2>2
        <3>2. running[1] \in Requests
            BY <2>2, HeadRuns
        <3>3. Served(running[1])
            BY <1>1, <2>2 DEF ServedInv
        <3>4. sched'[running[1]] = sched[running[1]] \/ sched'[running[1]] = n
            BY <1>1, <1>2, <1>4, <3>2
        <3> QED
            BY <1>1, <1>3, <3>1, <3>3, <3>4 DEF Served, Here
    <2> QED
        BY <2>1, <2>2
<1>6. \A q \in Requests : status'[q] = "WAITING" => computed'[q] = 0
    BY <1>1, <1>2, <1>4 DEF ServedInv
<1> QED
    BY <1>1, <1>5, <1>6 DEF ServedInv

\* Between two calls, and where one begins, a request still has to have computed nothing
\* as long as it waits.
LEMMA IdleServed ==
    ASSUME IInv, ServedInv, Plain, phase' = "idle",
           \A r \in Requests : status'[r] = "WAITING" => computed'[r] = 0
    PROVE  ServedInv'
BY DEF ServedInv

LEMMA OutsideServed ==
    ASSUME IInv, ServedInv, Plain,
           \/ BeginStep \/ Finish
           \/ \E r \in Requests : Submit(r)
           \/ \E a \in [Requests -> 0..NumSpec] : Update(a)
    PROVE  ServedInv'
<1>1. TypeInv /\ CountInv
    BY DEF IInv
<1>2. \A r \in Requests : status[r] = "WAITING" => computed[r] = 0
    BY DEF ServedInv
<1>3. /\ status \in [Requests -> Statuses] /\ computed \in [Requests -> 0..MaxModelLen]
      /\ sched \in [Requests -> Nat]
    BY <1>1 DEF TypeInv
<1>4. CASE BeginStep
    <2>1. /\ phase' = "running" /\ index' = 1 /\ budget' = MaxScheduled /\ victims' = {}
          /\ UNCHANGED <<status, computed>>
        BY <1>4 DEF BeginStep, reqVars
    <2> QED
        BY <1>2, <2>1 DEF ServedInv
<1>5. CASE Finish
    <2>1. /\ phase' = "idle" /\ status' = status
          /\ computed' = [r \in Requests |-> computed[r] + sched[r]]
        BY <1>5 DEF Finish
    <2>2. \A r \in Requests : status[r] = "WAITING" => sched[r] = 0
        BY <1>1 DEF CountInv, CountOf
    <2>3. \A r \in Requests : status'[r] = "WAITING" => computed'[r] = 0
        BY <1>2, <2>1, <2>2
    <2> QED
        BY <2>1, <2>3, IdleServed
<1>6. CASE \E r \in Requests : Submit(r)
    <2>1. PICK r \in Requests : Submit(r)
        BY <1>6
    <2>2. /\ phase' = "idle" /\ status[r] = "NEW" /\ status' = [status EXCEPT ![r] = "WAITING"]
          /\ computed' = computed
        BY <2>1 DEF Submit, loopVars
    <2>3. computed[r] = 0
        BY <1>1, <2>2 DEF CountInv, CountOf
    <2>4. \A q \in Requests : status'[q] = "WAITING" => computed'[q] = 0
        BY <1>2, <1>3, <2>2, <2>3
    <2> QED
        BY <2>2, <2>4, IdleServed
<1>7. CASE \E a \in [Requests -> 0..NumSpec] : Update(a)
    <2>1. PICK a \in [Requests -> 0..NumSpec] : Update(a)
        BY <1>7
    <2> DEFINE done == {r \in Head(inflight).sampled : output[r] + Gain(r, a[r]) = MaxTokens[r]}
               back(r) == Head(inflight).drafts[r] - a[r]
    <2>2. /\ phase' = "idle"
          /\ status' = [r \in Requests |-> IF r \in done THEN "FINISHED" ELSE status[r]]
          /\ computed' = [r \in Requests |->
                             IF r \in done \/ computed[r] = 0 THEN 0 ELSE computed[r] - back(r)]
        BY <2>1 DEF Update, loopVars
    <2> HIDE DEF done, back
    <2>3. \A r \in Requests : status'[r] = "WAITING" => computed'[r] = 0
        BY <1>2, <2>2
    <2> QED
        BY <2>2, <2>3, IdleServed
<1> QED
    BY <1>4, <1>5, <1>6, <1>7

\* Without a connector nothing is loaded.
LEMMA NoLoads ==
    ASSUME IInv, OrderInv, ServedInv, Plain
    PROVE  /\ ~SkipLoading /\ ~Promote /\ ~SkipUnknown
           /\ \A h \in AllHits : ~StartLoad(h)
           /\ \A r \in Requests : ~LoadEnds(r)
<1>1. \A r \in Requests : status[r] # Loading
    BY OrderMeans DEF Plain
<1>2. ExternalHits = {}
    BY DEF Plain
<1>3. ~SkipLoading /\ ~Promote
    BY <1>1, NextOne DEF SkipLoading, Promote
<1>4. ~SkipUnknown
    BY <1>2 DEF SkipUnknown
<1>5. ASSUME NEW h \in AllHits, StartLoad(h) PROVE FALSE
    <2>1. phase = "waiting" /\ WaitingLeft /\ status[NextWaiting] # Loading
          /\ h.async /\ h \in Hits(NextWaiting)
        BY <1>5 DEF StartLoad, Visit
    <2>2. NextWaiting \in Requests /\ status[NextWaiting] = "WAITING"
        BY <2>1, NextOne
    <2>3. ~(computed[NextWaiting] > 0)
        BY <2>2 DEF ServedInv
    <2>4. /\ h.external \in {0} \union {BlockSize * k : k \in ExternalHits}
          /\ h.async => h.external > 0
        BY <2>1, <2>3 DEF Hits
    <2>5. h.external = 0
        BY <1>2, <2>4
    <2> QED
        BY <2>1, <2>4, <2>5
<1>6. \A r \in Requests : ~LoadEnds(r)
    BY <1>1 DEF LoadEnds, LoadDone, LoadFails
<1> QED
    BY <1>3, <1>4, <1>5, <1>6

LEMMA NextServed == ASSUME IInv, OrderInv, ServedInv, [Next]_vars PROVE ServedInv'
<1> SUFFICES ASSUME Plain PROVE ServedInv'
    BY DEF ServedInv, Plain, RoomForOne
<1>1. CASE Schedule
    <2>1. CASE PassRunning \/ PickRunning \/ ScheduleRunning \/ PreemptRunning \/ EndRunning
        BY <2>1, PassServed, PickServed, ScheduleServed, PreemptServed, EndRunningServed
    <2>2. CASE SkipLoading \/ Promote \/ SkipUnknown
        BY <2>2, NoLoads
    <2>3. CASE \E h \in AllHits : GiveUp(h) \/ StartLoad(h) \/ Admit(h)
        BY <2>3, NoLoads, EndsServed, AdmitServed
    <2>4. CASE EndWaiting
        BY <2>4, EndsServed
    <2>5. CASE BeginStep \/ Finish
        BY <2>5, OutsideServed
    <2> QED
        BY <1>1, <2>1, <2>2, <2>3, <2>4, <2>5 DEF Schedule
<1>2. CASE Updates
    BY <1>2, OutsideServed DEF Updates
<1>3. CASE \E r \in Requests : Submit(r) \/ LoadEnds(r)
    BY <1>3, NoLoads, OutsideServed
<1>4. CASE UNCHANGED vars
    <2>1. UNCHANGED <<status, computed, running, waiting, phase, index, budget, sched, victims, inflight>>
        BY <1>4 DEF vars, reqVars, queueVars, loopVars, batchVars
    <2>2. \A r : Served(r)' <=> Served(r)
        BY <2>1 DEF Served, Here
    <2> QED
        BY <2>1, <2>2 DEF ServedInv
<1> QED
    BY <1>1, <1>2, <1>3, <1>4 DEF Next

\* The oldest request is the head of the running ones, if any run, or else waits.
LEMMA OldestHead ==
    ASSUME IInv, OrderInv, ServedInv, Plain, NEW r \in Requests, Oldest(r)
    PROVE  IF running = <<>> THEN r \in ToSet(waiting) ELSE r = running[1]
<1>1. TypeInv /\ QueueInv
    BY DEF IInv
<1>2. /\ skipped = <<>> /\ passed = <<>> /\ InOrder(running, waiting)
      /\ \A q \in Requests : status[q] # Loading
    BY OrderMeans DEF Plain
<1>3. status[r] \in {"RUNNING", "WAITING"}
    BY <1>1, <1>2 DEF Oldest, Unfinished, TypeInv, Statuses
<1>4. status[r] = "WAITING" => r \in ToSet(waiting)
    BY <1>1, <1>2, EmptyQueue DEF QueueInv, Of
<1>5. CASE running = <<>>
    BY <1>1, <1>3, <1>4, <1>5, EmptyQueue DEF QueueInv, Of
<1>6. CASE running # <<>>
    <2>1. /\ 1 \in DOMAIN running /\ running[1] \in Requests /\ status[running[1]] = "RUNNING"
          /\ \A q \in Requests : status[q] = "RUNNING" =>
                q = running[1] \/ \E k \in DOMAIN running : k > 1 /\ running[k] = q
        BY <1>6, HeadRuns
    <2>2. running[1] \in Unfinished
        BY <2>1 DEF Unfinished
    <2>3. r <= running[1]
        BY <2>2 DEF Oldest
    <2>4. running[1] \in ToSet(running)
        BY <2>1 DEF ToSet
    <2>5. r = running[1] \/ running[1] < r
        BY <1>2, <1>3, <1>4, <2>1, <2>4 DEF InOrder, Rising
    <2>6. r \in Nat /\ running[1] \in Nat
        BY <2>1, FiniteRequests
    <2> QED
        BY <1>6, <2>3, <2>5, <2>6
<1> QED
    BY <1>5, <1>6

LEMMA OldestGets == ASSUME IInv, OrderInv, ServedInv PROVE OldestServed
<1> SUFFICES ASSUME Plain, phase = "finish", NEW r \in Requests, Oldest(r)
             PROVE  Served(r)
    BY DEF OldestServed, Served, Here
<1>1. CASE running = <<>>
    <2>1. waiting = <<>>
        BY <1>1 DEF ServedInv
    <2> QED
        BY <1>1, <2>1, OldestHead, EmptyQueue
<1>2. CASE running # <<>>
    <2>1. Served(running[1])
        BY <1>2 DEF ServedInv
    <2> QED
        BY <1>2, <2>1, OldestHead
<1> QED
    BY <1>1, <1>2

\* No starvation by design of the policy: with room in the cache for one request of the
\* model's length, first come first served never ends a call of schedule() without tokens
\* for the oldest request, whatever it evicts, splits or admits on the way.
THEOREM OldestFirst == Spec => []OldestServed
<1>1. Init => OrderInv
    BY DEF Init, OrderInv, InArrivalOrder
<1>2. Init => ServedInv
    BY DEF Init, ServedInv
<1>3. IInv /\ OrderInv /\ ServedInv /\ [Next]_vars => OrderInv' /\ ServedInv'
    BY NextInOrder, NextServed
<1>4. IInv /\ OrderInv /\ ServedInv => OldestServed
    BY OldestGets
<1> QED
    BY <1>1, <1>2, <1>3, <1>4, Invariant, PTL DEF Spec

\* What OldestKept says of one request and one step.
Kept(r) ==
    \/ output'[r] > output[r]
    \/ output'[r] = output[r] /\ computed'[r] >= computed[r]

LEMMA Unchanged ==
    ASSUME IInv, NEW r \in Requests, output' = output, computed' = computed
    PROVE  Kept(r)
<1>1. computed[r] \in Nat
    BY Ranges DEF IInv
<1> QED
    BY <1>1 DEF Kept

\* A batch that comes back adds a token at least to the output of whom it sampled, and
\* leaves the others alone.
LEMMA UpdateKept ==
    ASSUME IInv, NEW r \in Requests, status[r] # "FINISHED",
           NEW a \in [Requests -> 0..NumSpec], Update(a)
    PROVE  Kept(r)
<1> DEFINE b == Head(inflight)
           done == {q \in b.sampled : output[q] + Gain(q, a[q]) = MaxTokens[q]}
<1>1. TypeInv /\ FlightInv /\ CountOf(r)
    BY DEF IInv, CountInv
<1>2. /\ inflight # <<>> /\ \A q \in Requests : a[q] <= b.drafts[q]
      /\ output' = [q \in Requests |-> output[q] + Gain(q, a[q])]
      /\ computed' = [q \in Requests |->
                         IF q \in done \/ computed[q] = 0 THEN 0
                         ELSE computed[q] - (b.drafts[q] - a[q])]
    BY DEF Update
<1>3. 1 \in DOMAIN inflight /\ b = inflight[1]
    <2>1. inflight # <<>> /\ inflight \in Seq(Batches)
        BY <1>1, <1>2, Counters
    <2> QED
        BY <2>1
<1>4. b \in Batches
    BY <1>1, <1>3, Flights
<1>5. b.drafts[r] \in Nat /\ (b.drafts[r] > 0 => r \in b.sampled)
    BY <1>1, <1>3, <1>4, Constants DEF FlightInv, Batches
<1>6. a[r] \in Nat /\ a[r] <= b.drafts[r]
    BY <1>2, Constants
<1>7. /\ output[r] \in Nat /\ MaxTokens[r] \in Nat /\ output[r] < MaxTokens[r]
      /\ computed[r] \in Nat
    BY <1>1, Ranges DEF CountOf
<1>8. Gain(r, a[r]) = IF r \in b.sampled THEN Min({1 + a[r], MaxTokens[r] - output[r]}) ELSE 0
    BY DEF Gain
<1>9. r \in done => r \in b.sampled
    OBVIOUS
<1> HIDE DEF b, done
<1>10. CASE r \in b.sampled
    <2>1. Min({1 + a[r], MaxTokens[r] - output[r]}) \in Nat \ {0}
        BY <1>6, <1>7, MinMax
    <2>2. output'[r] = output[r] + Min({1 + a[r], MaxTokens[r] - output[r]})
        BY <1>2, <1>8, <1>10
    <2> QED
        BY <1>7, <2>1, <2>2 DEF Kept
<1>11. CASE r \notin b.sampled
    <2>1. b.drafts[r] = 0 /\ a[r] = 0
        BY <1>5, <1>6, <1>11
    <2>2. output'[r] = output[r] + 0
        BY <1>2, <1>8, <1>11
    <2>3. computed'[r] = IF computed[r] = 0 THEN 0 ELSE computed[r] - 0
        BY <1>2, <1>9, <1>11, <2>1
    <2> QED
        BY <1>7, <2>2, <2>3 DEF Kept
<1> QED
    BY <1>10, <1>11

LEMMA NextKeepsOldest ==
    ASSUME IInv, OrderInv, ServedInv, Plain, [Next]_vars, NEW r \in Requests, Oldest(r)
    PROVE  Kept(r)
<1>1. TypeInv
    BY DEF IInv
<1>2. computed[r] \in Nat /\ output[r] \in Nat /\ sched[r] \in Nat
    BY <1>1, Ranges
<1>3. CASE Schedule
    <2>1. CASE BeginStep \/ PassRunning \/ PickRunning \/ ScheduleRunning \/ EndRunning \/ EndWaiting
        BY <2>1, Unchanged
        DEF BeginStep, PassRunning, PickRunning, ScheduleRunning, EndRunning, EndWaiting, reqVars
    <2>2. CASE PreemptRunning
        <3>1. /\ phase = "allocate" /\ ~CurFits /\ output' = output
              /\ computed' = [computed EXCEPT ![Victim] = 0]
            BY <2>2 DEF PreemptRunning
        <3>2. running # <<>> /\ Victim # running[1]
            BY <3>1, CurPlace, VictimBehind
        <3>3. r # Victim
            BY <3>2, OldestHead
        <3>4. computed'[r] = computed[r]
            BY <1>1, <3>1, <3>3 DEF TypeInv
        <3> QED
            BY <1>2, <3>1, <3>4 DEF Kept
    <2>3. CASE SkipLoading \/ Promote \/ SkipUnknown
        BY <2>3, NoLoads
    <2>4. CASE \E h \in AllHits : GiveUp(h) \/ StartLoad(h) \/ Admit(h)
        <3>1. PICK h \in AllHits : GiveUp(h) \/ Admit(h)
            BY <2>4, NoLoads
        <3>2. CASE GiveUp(h)
            BY <3>2, Unchanged DEF GiveUp, reqVars
        <3>3. CASE Admit(h)
            <4>1. /\ phase = "waiting" /\ WaitingLeft /\ status[NextWaiting] # Loading
                  /\ h \in Hits(NextWaiting) /\ output' = output
                  /\ computed' = [computed EXCEPT ![NextWaiting] = Known(h)]
                BY <3>3 DEF Admit, Visit
            <4>2. Known(h) \in Nat /\ status[NextWaiting] = "WAITING" /\ NextWaiting \in Requests
                BY <4>1, HitFacts, NextOne
            <4>3. computed[NextWaiting] = 0
                BY <4>2 DEF ServedInv
            <4>4. computed'[r] = IF r = NextWaiting THEN Known(h) ELSE computed[r]
                BY <1>1, <4>1 DEF TypeInv
            <4>5. computed'[r] >= computed[r]
                BY <1>2, <4>2, <4>3, <4>4
            <4> QED
                BY <4>1, <4>5 DEF Kept
        <3> QED
            BY <3>1, <3>2, <3>3
    <2>5. CASE Finish
        <3>1. output' = output /\ computed'[r] = computed[r] + sched[r]
            BY <2>5 DEF Finish
        <3> QED
            BY <1>2, <3>1 DEF Kept
    <2> QED
        BY <1>3, <2>1, <2>2, <2>3, <2>4, <2>5 DEF Schedule
<1>4. CASE Updates
    <2>1. status[r] # "FINISHED"
        BY DEF Oldest, Unfinished
    <2> QED
        BY <1>4, <2>1, UpdateKept DEF Updates
<1>5. CASE \E q \in Requests : Submit(q) \/ LoadEnds(q)
    <2>1. PICK q \in Requests : Submit(q)
        BY <1>5, NoLoads
    <2> QED
        BY <2>1, Unchanged DEF Submit
<1>6. CASE UNCHANGED vars
    BY <1>6, Unchanged DEF vars, reqVars
<1> QED
    BY <1>3, <1>4, <1>5, <1>6 DEF Next

\* Nor does the oldest request lose what it has: it is never preempted, and an update takes
\* back rejected drafts only along with a new token.  With OldestServed this is why the
\* queue moves.
THEOREM OldestNeverLoses == Spec => OldestKept
<1>1. Init => OrderInv
    BY DEF Init, OrderInv, InArrivalOrder
<1>2. Init => ServedInv
    BY DEF Init, ServedInv
<1>3. IInv /\ OrderInv /\ ServedInv /\ [Next]_vars => OrderInv' /\ ServedInv'
    BY NextInOrder, NextServed
<1>4. IInv /\ OrderInv /\ ServedInv /\ [Next]_vars =>
        [Plain => \A r \in Requests : Oldest(r) =>
            \/ output'[r] > output[r]
            \/ output'[r] = output[r] /\ computed'[r] >= computed[r]]_vars
    BY NextKeepsOldest DEF Kept
<1> QED
    BY <1>1, <1>2, <1>3, <1>4, Invariant, PTL DEF Spec, OldestKept

=============================================================================
