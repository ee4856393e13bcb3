--------------------------- MODULE AllReduceProofs ---------------------------
(***************************************************************************)
(* Proofs about AllReduce, for any number of ranks, sizes, faults and      *)
(* interrupts.                                                             *)
(*                                                                         *)
(* Two measures keep the workers together: Round, the collectives of the   *)
(* world that a rank has got past, and Local, its place on the line of     *)
(* calls of one group.  No two ranks are more than one apart in the first, *)
(* and no two members of a group in the second (Together); the history of  *)
(* returned calls says exactly what lies behind a rank (Behind).  So among *)
(* ranks that all wait, one that is behind in both waits for nobody.  What *)
(* rank 0 has noted is what its place says it is done with (RankInv).      *)
(***************************************************************************)
EXTENDS AllReduce, FiniteSetTheorems, FunctionTheorems, TLAPS

StageIndex(s) == IF s = "warm" THEN 0 ELSE IF s = "sync" THEN 1 ELSE 2

\* Where a call is on the line of group i, of a rank that is a member.
Local(c, i) ==
    IF Round(c) < 2 * i THEN 0
    ELSE IF c.stage \in GroupStages /\ c.at = i THEN 3 * c.size - 3 + StageIndex(c.stage)
    ELSE 3 * NumSizes

\* A call that the line has, with the fields it has there.
OnLine(c) ==
    /\ c \in Calls
    /\ c.stage \in GroupStages => c.at \in 1..NumCombos /\ c.size \in 1..NumSizes
    /\ c.stage \in WorldStages => c.size = 0 /\ c.at <= NumCombos /\ (c.stage = "init" <=> c.at = 0)
    /\ c.stage = "destroy" => c.at = NumCombos + 1 /\ c.size = 0

Placed ==
    \A r \in Ranks : /\ OnLine(place[r])
                     /\ place[r].stage \in GroupStages => r \in Combo[place[r].at]

\* What has returned to a rank is what is behind it.
Behind ==
    \A r \in Ranks, c \in Calls :
        /\ c.stage \in WorldStages /\ OnLine(c) =>
               (c \in passed[r] <=> Round(c) < Round(place[r]))
        /\ c.stage \in GroupStages /\ OnLine(c) /\ r \in Combo[c.at] =>
               (c \in passed[r] <=> Local(c, c.at) < Local(place[r], c.at))

Together ==
    \A r, m \in Ranks :
        /\ Round(place[r]) <= Round(place[m]) + 1
        /\ \A i \in 1..NumCombos :
               r \in Combo[i] /\ m \in Combo[i] => Local(place[r], i) <= Local(place[m], i) + 1

LineInv == Placed /\ Behind /\ Together

\* Of the parent: what it has started, listed and killed.
ParentInv ==
    /\ listed <= started /\ started <= listed + 1
    /\ pc = "start" => started = listed /\ listed < World
    /\ pc = "list" => started = listed + 1
    /\ pc \in {"join", "returned"} => listed = World
    /\ pc \in {"terminate", "kill"} => cursor <= listed
    /\ pc = "kill" => \A r \in Ranks : r < cursor => life[r] # "running"

\* Without faults and interrupts nobody is told to end, and who has ended was through.
Undisturbed ==
    faults = 0 /\ interrupts = 0 =>
        /\ pc \in {"start", "list", "join", "returned", "over"}
        /\ asked = {} /\ hit = {} /\ wedged = {}
        /\ pc \notin {"start", "list"} => started = World
        /\ \A r \in Ranks : /\ life[r] = "finished" => place[r].stage = "destroy"
                            /\ inside[r] => place[r].stage # "destroy"

IInv == TypeOK /\ LineInv /\ ParentInv /\ NoneSurvive /\ Undisturbed /\ NoneTimesOut

\* The last group rank 0 is done with.
NotedTo == IF place[0].stage = "barrier" THEN place[0].at ELSE place[0].at - 1

\* The summary at any time: rank 0's groups as far as it is done with them.
RankInv ==
    /\ life[0] = "finished" => place[0].stage = "destroy"
    /\ \A i \in 1..NumCombos :
           (\E k \in DOMAIN summary : summary[k] = i) <=> 0 \in Combo[i] /\ i <= NotedTo
    /\ \A k \in 2..Len(summary) : summary[k - 1] < summary[k]

(***************************************************************************)
(* Numbers                                                                 *)
(***************************************************************************)

\* There are finitely many groups.
LEMMA GroupsCounted == NumCombos \in Nat
<1>1. IsFiniteSet(Ranks)
  BY FS_Interval, AllReduceAssumption DEF Ranks
<1>2. IsFiniteSet(Combos)
  BY <1>1, FS_SUBSET, FS_Subset DEF Combos
<1> QED
  BY <1>2, FS_CardinalityType DEF NumCombos

\* The two measures of a call on the line, and what they say of it.
LEMMA Measures ==
  ASSUME NEW c \in Calls, OnLine(c)
  PROVE  /\ Round(c) \in 0..2 * NumCombos + 1
         /\ c.stage \in GroupStages =>
                /\ Round(c) = 2 * c.at
                /\ Local(c, c.at) = 3 * c.size - 3 + StageIndex(c.stage)
         /\ \A i \in 1..NumCombos : Local(c, i) \in 0..3 * NumSizes
<1> USE GroupsCounted, AllReduceAssumption DEF Calls, Stages, GroupStages, WorldStages
<1>1. Round(c) \in 0..2 * NumCombos + 1
  BY DEF OnLine, Round
<1>2. ASSUME c.stage \in GroupStages
      PROVE  /\ Round(c) = 2 * c.at
             /\ Local(c, c.at) = 3 * c.size - 3 + StageIndex(c.stage)
  BY <1>2 DEF OnLine, Round, Local
<1>3. ASSUME NEW i \in 1..NumCombos
      PROVE  Local(c, i) \in 0..3 * NumSizes
  BY <1>1 DEF OnLine, Local, StageIndex
<1> QED
  BY <1>1, <1>2, <1>3

\* A call of the world is known by its round.
LEMMA RoundTells ==
  ASSUME NEW c \in Calls, NEW d \in Calls, OnLine(c), OnLine(d),
         c.stage \in WorldStages, d.stage \in WorldStages, Round(c) = Round(d)
  PROVE  c = d
BY GroupsCounted DEF Calls, Stages, GroupStages, WorldStages, OnLine, Round

\* A call of a group is known by its place on the group's line.
LEMMA LocalTells ==
  ASSUME NEW c \in Calls, NEW d \in Calls, OnLine(c), OnLine(d),
         c.stage \in GroupStages, d.stage \in GroupStages, c.at = d.at,
         Local(c, c.at) = Local(d, d.at)
  PROVE  c = d
<1>1. 3 * c.size - 3 + StageIndex(c.stage) = 3 * d.size - 3 + StageIndex(d.stage)
  BY Measures
<1>2. c.size \in Nat /\ d.size \in Nat
  BY AllReduceAssumption DEF OnLine
<1>3. c.size = d.size /\ StageIndex(c.stage) = StageIndex(d.stage)
  BY <1>1, <1>2 DEF StageIndex
<1> QED
  BY <1>3 DEF Calls, StageIndex, GroupStages

(***************************************************************************)
(* The order of the groups                                                 *)
(***************************************************************************)

\* A relation that puts the members of a set in an order.
Orders(R, S) ==
    /\ \A x \in S : <<x, x>> \notin R
    /\ \A x, y, z \in S : <<x, y>> \in R /\ <<y, z>> \in R => <<x, z>> \in R
    /\ \A x, y \in S : x # y => <<x, y>> \in R \/ <<y, x>> \in R

\* How many members are before x.
RankIn(S, R, x) == Cardinality({y \in S : <<y, x>> \in R})

\* In an ordered finite set each number of predecessors is one member's, and more than
\* that of any member before it.
LEMMA OnePerRank ==
  ASSUME NEW S, IsFiniteSet(S), NEW R, Orders(R, S)
  PROVE  /\ \A i \in 1..Cardinality(S) : \E x \in S : RankIn(S, R, x) = i - 1
         /\ \A x \in S : RankIn(S, R, x) \in 0..Cardinality(S) - 1
         /\ \A x, y \in S : <<x, y>> \in R => RankIn(S, R, x) < RankIn(S, R, y)
<1> DEFINE before(x) == {y \in S : <<y, x>> \in R}
           rank(x) == Cardinality(before(x))
           n == Cardinality(S)
<1>1. n \in Nat
  BY FS_CardinalityType
<1>2. ASSUME NEW x \in S PROVE rank(x) \in 0..n - 1
  <2>1. before(x) \in SUBSET S /\ before(x) # S
    BY DEF Orders
  <2>2. Cardinality(before(x)) \in Nat
    BY <2>1, FS_Subset, FS_CardinalityType
  <2>3. Cardinality(before(x)) <= n /\ Cardinality(before(x)) # n
    <3> HIDE DEF before
    <3> QED
      BY <2>1, FS_Subset
  <2> QED
    BY <1>1, <2>2, <2>3
<1>3. ASSUME NEW x \in S, NEW y \in S, <<x, y>> \in R PROVE rank(x) < rank(y)
  <2>1. before(x) \in SUBSET before(y) /\ before(x) # before(y)
    BY <1>3 DEF Orders
  <2>2. IsFiniteSet(before(y))
    BY FS_Subset
  <2>3. rank(x) <= rank(y) /\ rank(x) # rank(y)
    <3> HIDE DEF before
    <3> QED
      BY <2>1, <2>2, FS_Subset
  <2> HIDE DEF rank
  <2> QED
    BY <1>1, <1>2, <2>3
<1>4. \A x, y \in S : rank(x) = rank(y) => x = y
  <2> SUFFICES ASSUME NEW x \in S, NEW y \in S, x # y PROVE rank(x) # rank(y)
    OBVIOUS
  <2>1. <<x, y>> \in R \/ <<y, x>> \in R
    BY DEF Orders
  <2> HIDE DEF rank
  <2> QED
    BY <1>1, <1>2, <1>3, <2>1
<1>5. \A i \in 1..n : \E x \in S : rank(x) = i - 1
  <2> DEFINE f == [x \in S |-> rank(x) + 1]
  <2> HIDE DEF rank
  <2>1. f \in Injection(S, 1..n)
    BY <1>1, <1>2, <1>4 DEF Injection, IsInjective
  <2>2. f \in Surjection(S, 1..n)
    BY <1>1, <2>1, FS_Interval, FS_Injection
  <2> SUFFICES ASSUME NEW i \in 1..n PROVE \E x \in S : rank(x) = i - 1
    OBVIOUS
  <2>3. PICK x \in S : f[x] = i
    BY <2>2 DEF Surjection
  <2> QED
    BY <1>1, <1>2, <2>3
<1> QED
  BY <1>2, <1>3, <1>5 DEF RankIn

\* A finite set in an order has a first member.
LEMMA FirstOf ==
  ASSUME NEW S, IsFiniteSet(S), S # {}, NEW R, Orders(R, S)
  PROVE  \E m \in S : \A x \in S : <<x, m>> \notin R
<1>1. Cardinality(S) \in Nat /\ Cardinality(S) # 0
  BY FS_CardinalityType, FS_EmptySet
<1>2. \A i \in 1..Cardinality(S) : \E x \in S : RankIn(S, R, x) = i - 1
  BY OnePerRank
<1>3. PICK m \in S : RankIn(S, R, m) = 0
  BY <1>1, <1>2
<1>4. {y \in S : <<y, m>> \in R} = {}
  <2> DEFINE before == {y \in S : <<y, m>> \in R}
  <2>1. IsFiniteSet(before)
    BY FS_Subset
  <2> HIDE DEF before
  <2>2. Cardinality(before) = 0
    BY <1>3 DEF before, RankIn
  <2>3. before = {}
    BY <2>1, <2>2, FS_EmptySet
  <2> QED
    BY <2>3 DEF before
<1> QED
  BY <1>4

\* A finite set of numbers has a least one.
LEMMA LeastOf ==
  ASSUME NEW T \in SUBSET Nat, IsFiniteSet(T), T # {}
  PROVE  \E m \in T : \A x \in T : m <= x
<1> DEFINE R == {e \in T \X T : e[1] < e[2]}
<1>1. ASSUME NEW x \in T, NEW y \in T PROVE x \in Nat /\ (<<x, y>> \in R <=> x < y)
  OBVIOUS
<1> HIDE DEF R
<1>2. \A x \in T : <<x, x>> \notin R
  BY <1>1
<1>3. ASSUME NEW x \in T, NEW y \in T, NEW z \in T, <<x, y>> \in R, <<y, z>> \in R
      PROVE  <<x, z>> \in R
  <2>1. x \in Nat /\ y \in Nat /\ z \in Nat /\ x < y /\ y < z
    BY <1>1, <1>3
  <2>2. x < z
    BY <2>1
  <2> QED
    BY <1>1, <2>2
<1>4. ASSUME NEW x \in T, NEW y \in T, x # y
      PROVE  <<x, y>> \in R \/ <<y, x>> \in R
  <2>1. x \in Nat /\ y \in Nat
    BY <1>1
  <2>2. x < y \/ y < x
    BY <1>4, <2>1
  <2> QED
    BY <1>1, <2>2
<1>5. Orders(R, T)
  BY <1>2, <1>3, <1>4 DEF Orders
<1>6. PICK m \in T : \A x \in T : <<x, m>> \notin R
  BY <1>5, FirstOf
<1>7. ASSUME NEW x \in T PROVE m <= x
  <2>1. x \in Nat /\ m \in Nat
    BY <1>1
  <2>2. ~(x < m)
    BY <1>1, <1>6
  <2> QED
    BY <2>1, <2>2
<1> QED
  BY <1>7

\* Of two sets of numbers, the first that itertools names: it has the least of what only
\* one of them has.
LexBefore(c, d) == \E m \in c \ d : \A x \in (c \ d) \union (d \ c) : m <= x

GroupOrder == {e \in Combos \X Combos : Before(e[1], e[2])}

\* Before puts the groups in an order.
LEMMA GroupsOrdered == IsFiniteSet(Combos) /\ Orders(GroupOrder, Combos)
<1>1. IsFiniteSet(Ranks) /\ Ranks \subseteq Nat
  BY FS_Interval, AllReduceAssumption DEF Ranks
<1>2. /\ IsFiniteSet(Combos)
      /\ \A c \in Combos : c \subseteq Nat /\ IsFiniteSet(c) /\ Cardinality(c) \in Nat
  BY <1>1, FS_SUBSET, FS_Subset, FS_CardinalityType DEF Combos
<1>3. \A c \in Combos : ~LexBefore(c, c)
  BY DEF LexBefore
<1>4. ASSUME NEW c \in Combos, NEW d \in Combos, NEW e \in Combos, LexBefore(c, d), LexBefore(d, e)
      PROVE  LexBefore(c, e)
  <2>1. PICK m \in c \ d : \A x \in (c \ d) \union (d \ c) : m <= x
    BY <1>4 DEF LexBefore
  <2>2. PICK n \in d \ e : \A x \in (d \ e) \union (e \ d) : n <= x
    BY <1>4 DEF LexBefore
  <2>3. m \in Nat /\ n \in Nat /\ m # n
    BY <1>2, <2>1, <2>2
  <2>4. \A x \in (c \ e) \union (e \ c) :
            x \in Nat /\ (x \in (c \ d) \union (d \ c) \/ x \in (d \ e) \union (e \ d))
    BY <1>2
  <2>5. CASE m < n
    <3>1. m \in c \ e
      BY <2>1, <2>2, <2>3, <2>5
    <3>2. \A x \in (c \ e) \union (e \ c) : m <= x
      BY <2>1, <2>2, <2>3, <2>4, <2>5
    <3> QED
      BY <3>1, <3>2 DEF LexBefore
  <2>6. CASE n < m
    <3>1. n \in c \ e
      BY <2>1, <2>2, <2>3, <2>6
    <3>2. \A x \in (c \ e) \union (e \ c) : n <= x
      BY <2>1, <2>2, <2>3, <2>4, <2>6
    <3> QED
      BY <3>1, <3>2 DEF LexBefore
  <2> QED
    BY <2>3, <2>5, <2>6
<1>5. ASSUME NEW c \in Combos, NEW d \in Combos, c # d
      PROVE  LexBefore(c, d) \/ LexBefore(d, c)
  <2> DEFINE T == (c \ d) \union (d \ c)
  <2>1. T \in SUBSET Nat /\ T # {}
    BY <1>2, <1>5
  <2>2. IsFiniteSet(T)
    <3>1. IsFiniteSet(c \union d) /\ T \subseteq c \union d
      BY <1>2, FS_Union
    <3> QED
      BY <3>1, FS_Subset
  <2>3. PICK m \in T : \A x \in T : m <= x
    <3> HIDE DEF T
    <3> QED
      BY <2>1, <2>2, LeastOf
  <2> QED
    BY <2>3 DEF LexBefore
<1>6. \A c, d \in Combos :
          <<c, d>> \in GroupOrder
             <=> \/ Cardinality(c) < Cardinality(d)
                 \/ Cardinality(c) = Cardinality(d) /\ LexBefore(c, d)
  BY DEF GroupOrder, Before, LexBefore
<1>7. Orders(GroupOrder, Combos)
  <2>1. \A c \in Combos : <<c, c>> \notin GroupOrder
    BY <1>2, <1>3, <1>6
  <2>2. ASSUME NEW c \in Combos, NEW d \in Combos, NEW e \in Combos,
               <<c, d>> \in GroupOrder, <<d, e>> \in GroupOrder
        PROVE  <<c, e>> \in GroupOrder
    <3> DEFINE nc == Cardinality(c)
               nd == Cardinality(d)
               ne == Cardinality(e)
    <3>1. nc \in Nat /\ nd \in Nat /\ ne \in Nat
      BY <1>2
    <3>2. nc < nd \/ (nc = nd /\ LexBefore(c, d))
      BY <1>6, <2>2
    <3>3. nd < ne \/ (nd = ne /\ LexBefore(d, e))
      BY <1>6, <2>2
    <3>4. nc < ne \/ (nc = ne /\ LexBefore(c, e))
      <4> HIDE DEF nc, nd, ne
      <4> QED
        BY <1>4, <3>1, <3>2, <3>3
    <3> QED
      BY <1>6, <3>4
  <2>3. ASSUME NEW c \in Combos, NEW d \in Combos, c # d
        PROVE  <<c, d>> \in GroupOrder \/ <<d, c>> \in GroupOrder
    <3>1. \/ Cardinality(c) < Cardinality(d) \/ Cardinality(d) < Cardinality(c)
          \/ Cardinality(c) = Cardinality(d)
      BY <1>2
    <3> QED
      BY <1>5, <1>6, <2>3, <3>1
  <2> QED
    BY <2>1, <2>2, <2>3 DEF Orders
<1> QED
  BY <1>2, <1>7

(***************************************************************************)
(* How a worker gets on                                                    *)
(***************************************************************************)

\* From a call of the world, r gets to the next one or into its group.
WorldMove(r, n) ==
    /\ place[r].stage \in WorldStages
    /\ OnLine(n) /\ Round(n) = Round(place[r]) + 1
    /\ \A i \in 1..NumCombos : r \in Combo[i] => Local(n, i) = Local(place[r], i)
    /\ n.stage \in GroupStages => r \in Combo[n.at]

\* From a call of a group, r gets to the next one or to the barrier.
GroupMove(r, n) ==
    /\ place[r].stage \in GroupStages
    /\ OnLine(n) /\ Round(n) = Round(place[r])
    /\ Local(n, place[r].at) = Local(place[r], place[r].at) + 1
    /\ \A i \in 1..NumCombos \ {place[r].at} : Local(n, i) = Local(place[r], i)
    /\ n.stage \in GroupStages => n.at = place[r].at

Moved(r, n) ==
    /\ Met(r)
    /\ passed' = [passed EXCEPT ![r] = @ \union {place[r]}]
    /\ place' = [place EXCEPT ![r] = n]

\* Where the loop over the groups goes.
LEMMA LoopStart ==
  ASSUME NEW r \in Ranks, NEW i \in 1..NumCombos + 1
  PROVE  /\ ComboStart(r, i) \in Calls /\ OnLine(ComboStart(r, i))
         /\ Round(ComboStart(r, i)) = 2 * i - 1
         /\ ComboStart(r, i).stage \notin GroupStages
BY GroupsCounted, AllReduceAssumption
   DEF ComboStart, Call, Calls, Stages, GroupStages, WorldStages, OnLine, Round

\* Each return from a call is a move of one of the two kinds.
LEMMA Moves ==
  ASSUME TypeOK, Placed, NEW r \in Ranks, Work(r)
  PROVE  \/ UNCHANGED <<place, passed>>
         \/ \E n \in Calls : Moved(r, n) /\ (WorldMove(r, n) \/ GroupMove(r, n))
<1> DEFINE p == place[r]
<1> USE GroupsCounted, AllReduceAssumption
<1>0. p \in Calls /\ OnLine(p) /\ (p.stage \in GroupStages => r \in Combo[p.at])
  BY DEF TypeOK, Placed
<1>1. CASE Enter(r)
  BY <1>1 DEF Enter
<1>2. CASE Rendezvous(r)
  <2> DEFINE n == ComboStart(r, 1)
  <2>1. p.stage = "init" /\ Moved(r, n)
    BY <1>2 DEF Rendezvous, Return, Moved
  <2>2. Round(p) = 0 /\ p.stage \in WorldStages /\ p.stage \notin GroupStages
    BY <2>1 DEF Round, WorldStages, GroupStages
  <2>3. WorldMove(r, n)
    BY <1>0, <2>2, LoopStart DEF WorldMove, Local
  <2> QED
    BY <2>1, <2>3, LoopStart
<1>3. CASE NewGroup(r)
  <2> DEFINE i == p.at
             n == IF r \in Combo[i] THEN Call("warm", i, 1) ELSE Call("barrier", i, 0)
  <2>1. p.stage = "new_group" /\ Moved(r, n)
    BY <1>3 DEF NewGroup, Return, Moved
  <2>2. i \in 1..NumCombos /\ p.stage \in WorldStages /\ Round(p) = 2 * i - 1
    BY <1>0, <2>1 DEF OnLine, WorldStages, Round, Calls
  <2>3. n \in Calls /\ OnLine(n) /\ Round(n) = 2 * i /\ (n.stage \in GroupStages => r \in Combo[n.at])
    BY <2>2 DEF Call, Calls, Stages, GroupStages, WorldStages, OnLine, Round
  <2>4. \A j \in 1..NumCombos : r \in Combo[j] => Local(n, j) = Local(p, j)
    BY <2>1, <2>2, <2>3 DEF Local, Call, StageIndex, GroupStages
  <2> QED
    BY <2>1, <2>2, <2>3, <2>4 DEF WorldMove
<1>4. CASE WarmUp(r)
  <2> DEFINE n == [p EXCEPT !.stage = "sync"]
  <2>1. p.stage = "warm" /\ Moved(r, n)
    BY <1>4 DEF WarmUp, Return, Moved
  <2>2. p.stage \in GroupStages /\ p.at \in 1..NumCombos /\ p.size \in 1..NumSizes
    BY <1>0, <2>1 DEF OnLine, GroupStages
  <2>3. n \in Calls /\ OnLine(n) /\ n.at = p.at /\ n.size = p.size /\ n.stage = "sync"
    BY <1>0, <2>1, <2>2 DEF Calls, Stages, GroupStages, WorldStages, OnLine
  <2>4. GroupMove(r, n)
    BY <2>1, <2>2, <2>3 DEF GroupMove, Round, Local, StageIndex, GroupStages
  <2> QED
    BY <2>1, <2>3, <2>4
<1>5. CASE GroupBarrier(r)
  <2> DEFINE n == [p EXCEPT !.stage = "timed"]
  <2>1. p.stage = "sync" /\ Moved(r, n)
    BY <1>5 DEF GroupBarrier, Return, Moved
  <2>2. p.stage \in GroupStages /\ p.at \in 1..NumCombos /\ p.size \in 1..NumSizes
    BY <1>0, <2>1 DEF OnLine, GroupStages
  <2>3. n \in Calls /\ OnLine(n) /\ n.at = p.at /\ n.size = p.size /\ n.stage = "timed"
    BY <1>0, <2>1, <2>2 DEF Calls, Stages, GroupStages, WorldStages, OnLine
  <2>4. GroupMove(r, n)
    BY <2>1, <2>2, <2>3 DEF GroupMove, Round, Local, StageIndex, GroupStages
  <2> QED
    BY <2>1, <2>3, <2>4
<1>6. CASE TimedMore(r)
  <2> DEFINE n == Call("warm", p.at, p.size + 1)
  <2>1. p.stage = "timed" /\ p.size < NumSizes /\ Moved(r, n)
    BY <1>6 DEF TimedMore, Return, Moved
  <2>2. p.stage \in GroupStages /\ p.at \in 1..NumCombos /\ p.size \in 1..NumSizes
    BY <1>0, <2>1 DEF OnLine, GroupStages
  <2>3. n \in Calls /\ OnLine(n) /\ n.at = p.at /\ n.size = p.size + 1 /\ n.stage = "warm"
    BY <2>1, <2>2 DEF Call, Calls, Stages, GroupStages, WorldStages, OnLine
  <2>4. GroupMove(r, n)
    BY <2>1, <2>2, <2>3 DEF GroupMove, Round, Local, StageIndex, GroupStages
  <2> QED
    BY <2>1, <2>3, <2>4
<1>7. CASE TimedLast(r)
  <2> DEFINE n == Call("barrier", p.at, 0)
  <2>1. p.stage = "timed" /\ p.size = NumSizes /\ Moved(r, n)
    BY <1>7 DEF TimedLast, Return, Moved
  <2>2. p.stage \in GroupStages /\ p.at \in 1..NumCombos /\ p.size \in 1..NumSizes
    BY <1>0, <2>1 DEF OnLine, GroupStages
  <2>3. n \in Calls /\ OnLine(n) /\ n.at = p.at /\ n.stage = "barrier"
    BY <2>1, <2>2 DEF Call, Calls, Stages, GroupStages, WorldStages, OnLine
  <2>4. GroupMove(r, n)
    BY <2>1, <2>2, <2>3 DEF GroupMove, Round, Local, StageIndex, GroupStages
  <2> QED
    BY <2>1, <2>3, <2>4
<1>8. CASE Barrier(r)
  <2> DEFINE i == p.at
             n == ComboStart(r, i + 1)
  <2>1. p.stage = "barrier" /\ Moved(r, n)
    BY <1>8 DEF Barrier, Return, Moved
  <2>2. i \in 1..NumCombos /\ p.stage \in WorldStages /\ Round(p) = 2 * i
    BY <1>0, <2>1 DEF OnLine, WorldStages, Round, Calls
  <2>3. /\ n \in Calls /\ OnLine(n) /\ Round(n) = 2 * i + 1
        /\ n.stage \notin GroupStages
    BY <2>2, LoopStart
  <2>4. \A j \in 1..NumCombos : Local(n, j) = Local(p, j)
    BY <2>1, <2>2, <2>3 DEF Local, GroupStages
  <2> QED
    BY <2>1, <2>2, <2>3, <2>4 DEF WorldMove
<1>9. CASE Destroy(r)
  BY <1>9 DEF Destroy
<1> QED
  BY <1>1, <1>2, <1>3, <1>4, <1>5, <1>6, <1>7, <1>8, <1>9 DEF Work

(***************************************************************************)
(* The invariant of the line                                               *)
(***************************************************************************)

\* A move of r from a call of the world keeps the ranks together: everyone it waited for
\* is in that call or past it.
LEMMA WorldMoveKeeps ==
  ASSUME TypeOK, LineInv, NEW r \in Ranks, NEW n \in Calls, Moved(r, n), WorldMove(r, n)
  PROVE  LineInv'
<1> DEFINE p == place[r]
<1> USE GroupsCounted, AllReduceAssumption
<1>1. /\ p \in Calls /\ OnLine(p) /\ p.stage \in WorldStages /\ p.stage \notin GroupStages
      /\ OnLine(n)
  BY DEF LineInv, Placed, TypeOK, WorldMove, WorldStages, GroupStages
<1>2. /\ place'[r] = n /\ passed'[r] = passed[r] \union {p}
      /\ \A m \in Ranks \ {r} : place'[m] = place[m] /\ passed'[m] = passed[m]
  BY DEF Moved, TypeOK
<1>3. \A m \in Ranks : place[m] \in Calls /\ OnLine(place[m])
  BY DEF TypeOK, LineInv, Placed
<1>4. \A m \in Ranks : Round(place[m]) \in Nat /\ Round(p) \in Nat /\ Round(n) = Round(p) + 1
  BY <1>1, <1>3, Measures DEF WorldMove
<1>5. \A m \in Ranks : Round(p) <= Round(place[m])
  <2> TAKE m \in Ranks
  <2>1. place[m] = p \/ p \in passed[m]
    BY <1>1 DEF Moved, Met, Party
  <2>2. p \in passed[m] => Round(p) < Round(place[m])
    BY <1>1 DEF LineInv, Behind
  <2> QED
    BY <1>4, <2>1, <2>2
<1>6. Placed'
  BY <1>1, <1>2 DEF LineInv, Placed, WorldMove
<1>7. Together'
  <2> SUFFICES ASSUME NEW a \in Ranks, NEW b \in Ranks
               PROVE  /\ Round(place'[a]) <= Round(place'[b]) + 1
                      /\ \A i \in 1..NumCombos : a \in Combo[i] /\ b \in Combo[i]
                             => Local(place'[a], i) <= Local(place'[b], i) + 1
    BY DEF Together
  <2>1. Round(place'[a]) <= Round(place'[b]) + 1
    BY <1>2, <1>4, <1>5 DEF LineInv, Together
  <2>2. ASSUME NEW i \in 1..NumCombos, NEW m \in Ranks, m \in Combo[i]
        PROVE  Local(place'[m], i) = Local(place[m], i)
    BY <1>2, <2>2 DEF WorldMove
  <2> QED
    BY <2>1, <2>2 DEF LineInv, Together
<1>8. Behind'
  <2> SUFFICES ASSUME NEW m \in Ranks, NEW c \in Calls, OnLine(c)
               PROVE  /\ c.stage \in WorldStages =>
                             (c \in passed'[m] <=> Round(c) < Round(place'[m]))
                      /\ c.stage \in GroupStages /\ m \in Combo[c.at] =>
                             (c \in passed'[m] <=> Local(c, c.at) < Local(place'[m], c.at))
    BY DEF Behind
  <2>1. ASSUME c.stage \in WorldStages
        PROVE  c \in passed'[m] <=> Round(c) < Round(place'[m])
    <3>1. c \in passed[m] <=> Round(c) < Round(place[m])
      BY <2>1 DEF LineInv, Behind
    <3>2. Round(c) \in Nat /\ (Round(c) = Round(p) => c = p)
      BY <1>1, <2>1, Measures, RoundTells
    <3> QED
      BY <1>2, <1>4, <3>1, <3>2
  <2>2. ASSUME c.stage \in GroupStages, m \in Combo[c.at]
        PROVE  c \in passed'[m] <=> Local(c, c.at) < Local(place'[m], c.at)
    <3>1. c \in passed[m] <=> Local(c, c.at) < Local(place[m], c.at)
      BY <2>2 DEF LineInv, Behind
    <3>2. c.at \in 1..NumCombos /\ c # p
      BY <1>1, <2>2 DEF OnLine
    <3> QED
      BY <1>2, <2>2, <3>1, <3>2 DEF WorldMove
  <2> QED
    BY <2>1, <2>2
<1> QED
  BY <1>6, <1>7, <1>8 DEF LineInv

\* A move of r from a call of a group keeps its members together, and disturbs nobody else.
LEMMA GroupMoveKeeps ==
  ASSUME TypeOK, LineInv, NEW r \in Ranks, NEW n \in Calls, Moved(r, n), GroupMove(r, n)
  PROVE  LineInv'
<1> DEFINE p == place[r]
           g == p.at
<1> USE GroupsCounted, AllReduceAssumption
<1>1. /\ p \in Calls /\ OnLine(p) /\ p.stage \in GroupStages /\ p.stage \notin WorldStages
      /\ OnLine(n) /\ g \in 1..NumCombos /\ r \in Combo[g]
  BY DEF LineInv, Placed, TypeOK, GroupMove, OnLine, WorldStages, GroupStages
<1>2. /\ place'[r] = n /\ passed'[r] = passed[r] \union {p}
      /\ \A m \in Ranks \ {r} : place'[m] = place[m] /\ passed'[m] = passed[m]
  BY DEF Moved, TypeOK
<1>3. \A m \in Ranks : place[m] \in Calls /\ OnLine(place[m])
  BY DEF TypeOK, LineInv, Placed
<1>4. \A m \in Ranks : Round(place'[m]) = Round(place[m])
  BY <1>2 DEF GroupMove
<1>5. /\ \A m \in Ranks, i \in 1..NumCombos : Local(place[m], i) \in Nat
      /\ \A m \in Ranks, i \in 1..NumCombos :
             Local(place'[m], i) = Local(place[m], i) + (IF m = r /\ i = g THEN 1 ELSE 0)
  BY <1>1, <1>2, <1>3, Measures DEF GroupMove
<1>6. \A m \in Ranks : m \in Combo[g] => Local(p, g) <= Local(place[m], g)
  <2> SUFFICES ASSUME NEW m \in Ranks, m \in Combo[g] PROVE Local(p, g) <= Local(place[m], g)
    OBVIOUS
  <2>1. place[m] = p \/ p \in passed[m]
    BY <1>1 DEF Moved, Met, Party
  <2>2. p \in passed[m] => Local(p, g) < Local(place[m], g)
    BY <1>1 DEF LineInv, Behind
  <2> QED
    BY <1>1, <1>5, <2>1, <2>2
<1>7. Placed'
  BY <1>1, <1>2 DEF LineInv, Placed, GroupMove
<1>8. Together'
  <2> SUFFICES ASSUME NEW a \in Ranks, NEW b \in Ranks
               PROVE  /\ Round(place'[a]) <= Round(place'[b]) + 1
                      /\ \A i \in 1..NumCombos : a \in Combo[i] /\ b \in Combo[i]
                             => Local(place'[a], i) <= Local(place'[b], i) + 1
    BY DEF Together
  <2>1. Round(place'[a]) <= Round(place'[b]) + 1
    BY <1>4 DEF LineInv, Together
  <2>2. ASSUME NEW i \in 1..NumCombos, a \in Combo[i], b \in Combo[i]
        PROVE  Local(place'[a], i) <= Local(place'[b], i) + 1
    <3>1. Local(place[a], i) <= Local(place[b], i) + 1
      BY <2>2 DEF LineInv, Together
    <3> QED
      BY <1>5, <1>6, <2>2, <3>1
  <2> QED
    BY <2>1, <2>2
<1>9. Behind'
  <2> SUFFICES ASSUME NEW m \in Ranks, NEW c \in Calls, OnLine(c)
               PROVE  /\ c.stage \in WorldStages =>
                             (c \in passed'[m] <=> Round(c) < Round(place'[m]))
                      /\ c.stage \in GroupStages /\ m \in Combo[c.at] =>
                             (c \in passed'[m] <=> Local(c, c.at) < Local(place'[m], c.at))
    BY DEF Behind
  <2>1. ASSUME c.stage \in WorldStages
        PROVE  c \in passed'[m] <=> Round(c) < Round(place'[m])
    BY <1>1, <1>2, <1>4, <2>1 DEF LineInv, Behind
  <2>2. ASSUME c.stage \in GroupStages, m \in Combo[c.at]
        PROVE  c \in passed'[m] <=> Local(c, c.at) < Local(place'[m], c.at)
    <3>1. c \in passed[m] <=> Local(c, c.at) < Local(place[m], c.at)
      BY <2>2 DEF LineInv, Behind
    <3>2. /\ c.at \in 1..NumCombos /\ Local(c, c.at) \in Nat
          /\ c.at = g /\ Local(c, c.at) = Local(p, g) => c = p
      BY <1>1, <2>2, Measures, LocalTells DEF OnLine
    <3> QED
      BY <1>2, <1>5, <3>1, <3>2
  <2> QED
    BY <2>1, <2>2
<1> QED
  BY <1>7, <1>8, <1>9 DEF LineInv

\* The line starts with everyone before the rendezvous.
LEMMA LineStarts ==
  ASSUME Init
  PROVE  LineInv
<1> USE GroupsCounted, AllReduceAssumption
<1> DEFINE start == Call("init", 0, 0)
<1>1. \A r \in Ranks : place[r] = start /\ passed[r] = {}
  BY DEF Init
<1>2. /\ start \in Calls /\ OnLine(start) /\ start.stage \notin GroupStages
      /\ Round(start) = 0 /\ \A i \in 1..NumCombos : Local(start, i) = 0
  BY DEF Call, Calls, Stages, OnLine, GroupStages, WorldStages, Round, Local
<1>3. Placed
  BY <1>1, <1>2 DEF Placed
<1>4. Together
  <2> HIDE DEF start
  <2> QED
    BY <1>1, <1>2 DEF Together
<1>5. Behind
  <2> HIDE DEF start
  <2>1. \A c \in Calls : OnLine(c) =>
            /\ Round(c) \in Nat
            /\ c.stage \in GroupStages => c.at \in 1..NumCombos /\ Local(c, c.at) \in Nat
    BY Measures DEF OnLine
  <2> QED
    BY <1>1, <1>2, <2>1 DEF Behind
<1> QED
  BY <1>3, <1>4, <1>5 DEF LineInv

\* Every step keeps the invariant of the line: all but returns leave it alone.
LEMMA LineKept ==
  ASSUME TypeOK, LineInv, [Next]_vars
  PROVE  LineInv'
<1>1. ASSUME UNCHANGED <<place, passed>> PROVE LineInv'
  BY <1>1 DEF LineInv, Placed, Behind, Together
<1>2. ASSUME NEW r \in Ranks, Work(r) PROVE LineInv'
  <2>1. Placed
    BY DEF LineInv
  <2> QED
    BY <1>1, <1>2, <2>1, Moves, WorldMoveKeeps, GroupMoveKeeps
<1>3. ASSUME NEW r \in Ranks, Interrupted(r) \/ Terminated(r) \/ TimeOut(r) \/ Crash(r)
      PROVE UNCHANGED <<place, passed>>
  BY <1>3 DEF Interrupted, Terminated, TimeOut, Crash, Ended
<1>4. ASSUME NEW r \in Ranks, Wedge(r) PROVE UNCHANGED <<place, passed>>
  BY <1>4 DEF Wedge
<1>5. ASSUME Start \/ List \/ Join \/ Returns \/ StartFails PROVE UNCHANGED <<place, passed>>
  BY <1>5 DEF Start, List, Join, Returns, StartFails, workerVars
<1>6. ASSUME Terminate \/ Reap \/ KillSurvivor \/ Cleaned PROVE UNCHANGED <<place, passed>>
  BY <1>6 DEF Terminate, Reap, KillSurvivor, Cleaned, workerVars
<1>7. ASSUME Exit \/ Interrupt PROVE UNCHANGED <<place, passed>>
  BY <1>7 DEF Exit, Interrupt, workerVars
<1>8. ASSUME UNCHANGED vars PROVE UNCHANGED <<place, passed>>
  BY <1>8 DEF vars, workerVars
<1> QED
  BY <1>1, <1>2, <1>3, <1>4, <1>5, <1>6, <1>7, <1>8 DEF Next, Parent, Worker

(***************************************************************************)
(* Ranks that all wait                                                     *)
(***************************************************************************)

\* When every running rank is in a call, every other rank is through, and one is in a
\* call, there is one whose call everybody has made.
LEMMA SomeoneMet ==
  ASSUME TypeOK, LineInv,
         \A r \in Ranks : place[r].stage # "destroy" => inside[r],
         NEW w \in Ranks, place[w].stage # "destroy"
  PROVE  \E r \in Ranks : place[r].stage # "destroy" /\ Met(r)
<1> USE GroupsCounted, AllReduceAssumption
<1>1. \A r \in Ranks : /\ place[r] \in Calls /\ OnLine(place[r])
                       /\ place[r].stage \in GroupStages => r \in Combo[place[r].at]
  BY DEF TypeOK, LineInv, Placed
<1>2. \A r \in Ranks : Round(place[r]) \in Nat
  BY <1>1, Measures
<1>3. \A r, m \in Ranks : Round(place[r]) <= Round(place[m]) + 1
  BY DEF LineInv, Together
\* The rank that is behind: at most one round is between any two.
<1>4. PICK b \in Ranks : \A m \in Ranks : Round(place[b]) <= Round(place[m])
  <2>1. CASE \A m \in Ranks : Round(place[w]) <= Round(place[m])
    BY <2>1
  <2>2. CASE \E m \in Ranks : Round(place[m]) < Round(place[w])
    BY <1>2, <1>3, <2>2
  <2> QED
    BY <1>2, <2>1, <2>2
<1>5. \A m \in Ranks : place[m].stage = "destroy" => Round(place[m]) = 2 * NumCombos + 1
  BY <1>1 DEF OnLine, Round
<1>6. Round(place[b]) < 2 * NumCombos + 1
  BY <1>1, <1>2, <1>4 DEF OnLine, Round, Calls, Stages, GroupStages, WorldStages
<1>7. place[b].stage # "destroy"
  BY <1>5, <1>6
<1>8. CASE \A m \in Ranks : Round(place[m]) = Round(place[b]) => place[m].stage \notin GroupStages
  <2>1. place[b].stage \in WorldStages /\ place[b].stage \notin GroupStages
    BY <1>1, <1>7, <1>8 DEF Calls, Stages, GroupStages, WorldStages
  <2>2. ASSUME NEW m \in Ranks
        PROVE  (inside[m] /\ place[m] = place[b]) \/ place[b] \in passed[m]
    <3>1. CASE Round(place[m]) = Round(place[b])
      <4>1. place[m].stage # "destroy" /\ place[m].stage \in WorldStages
        BY <1>1, <1>5, <1>6, <1>8, <3>1 DEF Calls, Stages, GroupStages, WorldStages
      <4> QED
        BY <1>1, <2>1, <3>1, <4>1, RoundTells
    <3>2. CASE Round(place[b]) < Round(place[m])
      BY <1>1, <2>1, <3>2 DEF LineInv, Behind
    <3> QED
      BY <1>2, <1>4, <3>1, <3>2
  <2> QED
    BY <1>7, <2>1, <2>2 DEF Met, Party
<1>9. CASE \E m \in Ranks : Round(place[m]) = Round(place[b]) /\ place[m].stage \in GroupStages
  <2>1. PICK g \in Ranks : Round(place[g]) = Round(place[b]) /\ place[g].stage \in GroupStages
    BY <1>9
  <2> DEFINE i == place[g].at
             In(m) == place[m].stage \in GroupStages /\ place[m].at = i
             At(m) == Local(place[m], i)
  <2>2. i \in 1..NumCombos /\ Round(place[b]) = 2 * i /\ g \in Combo[i]
    BY <1>1, <2>1, Measures DEF OnLine
  <2>3. \A m \in Ranks : At(m) \in Nat
    BY <1>1, <2>2, Measures
  <2>4. \A r, m \in Ranks : r \in Combo[i] /\ m \in Combo[i] => At(r) <= At(m) + 1
    BY <2>2 DEF LineInv, Together
  <2>5. \A m \in Ranks : In(m) => m \in Combo[i] /\ At(m) < 3 * NumSizes
    BY <1>1, Measures DEF OnLine, StageIndex, GroupStages
  <2>6. \A m \in Ranks : m \in Combo[i] /\ ~In(m) => At(m) = 3 * NumSizes
    BY <1>2, <1>4, <2>2 DEF Local
  \* The member that is behind: at most one call is between any two.
  <2>7. PICK l \in Ranks : In(l) /\ \A m \in Ranks : m \in Combo[i] => At(l) <= At(m)
    <3>1. CASE \A m \in Ranks : m \in Combo[i] => At(g) <= At(m)
      BY <3>1, <2>1
    <3>2. CASE \E m \in Ranks : m \in Combo[i] /\ At(m) < At(g)
      <4>1. PICK m \in Ranks : m \in Combo[i] /\ At(m) < At(g)
        BY <3>2
      <4>2. In(m)
        BY <2>1, <2>3, <2>5, <2>6, <4>1
      <4>3. \A k \in Ranks : k \in Combo[i] => At(m) <= At(k)
        <5> HIDE DEF At
        <5> QED
          BY <2>2, <2>3, <2>4, <4>1
      <4> QED
        BY <4>2, <4>3
    <3> QED
      BY <2>2, <2>3, <3>1, <3>2
  <2>8. ASSUME NEW m \in Ranks, m \in Combo[i]
        PROVE  (inside[m] /\ place[m] = place[l]) \/ place[l] \in passed[m]
    <3>1. CASE At(m) = At(l)
      <4>1. In(m)
        BY <2>3, <2>5, <2>6, <2>7, <2>8, <3>1
      <4>2. place[m] = place[l]
        BY <1>1, <2>7, <3>1, <4>1, LocalTells
      <4> QED
        BY <4>1, <4>2 DEF GroupStages
    <3>2. CASE At(l) < At(m)
      BY <1>1, <2>7, <2>8, <3>2 DEF LineInv, Behind
    <3> QED
      BY <2>3, <2>7, <2>8, <3>1, <3>2
  <2> QED
    BY <2>7, <2>8 DEF Met, Party, GroupStages
<1> QED
  BY <1>8, <1>9

(***************************************************************************)
(* The parent                                                              *)
(***************************************************************************)

\* What a worker's own steps, and what befalls it, leave alone.
LEMMA WorkerLeaves ==
  ASSUME NEW r \in Ranks, Worker(r) \/ Crash(r) \/ Wedge(r)
  PROVE  /\ UNCHANGED <<parentVars, asked, hit, interrupts>>
         /\ life[r] = "running"
         /\ \/ UNCHANGED life
            \/ life' = [life EXCEPT ![r] = "finished"]
            \/ life' = [life EXCEPT ![r] = "failed"]
<1>1. CASE Enter(r)
  BY <1>1 DEF Enter, Able, capVars
<1>2. CASE Rendezvous(r) \/ NewGroup(r) \/ WarmUp(r) \/ GroupBarrier(r)
  BY <1>2 DEF Rendezvous, NewGroup, WarmUp, GroupBarrier, Return, Able, capVars
<1>3. CASE TimedMore(r) \/ TimedLast(r) \/ Barrier(r)
  BY <1>3 DEF TimedMore, TimedLast, Barrier, Return, Able, capVars
<1>4. CASE Destroy(r)
  BY <1>4 DEF Destroy, Able, capVars
<1>5. CASE Interrupted(r) \/ Terminated(r) \/ TimeOut(r)
  BY <1>5 DEF Interrupted, Terminated, TimeOut, Ended, capVars
<1>6. CASE Crash(r) \/ Wedge(r)
  BY <1>6 DEF Crash, Wedge, Ended, Able
<1> QED
  BY <1>1, <1>2, <1>3, <1>4, <1>5, <1>6 DEF Worker, Work

\* The bookkeeping of the parent, and what it has killed stays dead.
LEMMA ParentKept ==
  ASSUME TypeOK, ParentInv, NoneSurvive, [Next]_vars
  PROVE  ParentInv' /\ NoneSurvive'
<1> USE AllReduceAssumption DEF ParentInv, NoneSurvive, TypeOK, Ranks
<1>1. CASE Start
  BY <1>1 DEF Start
<1>2. CASE StartFails
  BY <1>2 DEF StartFails, workerVars
<1>3. CASE List
  BY <1>3 DEF List, workerVars
<1>4. CASE Join \/ Returns
  BY <1>4 DEF Join, Returns, workerVars
<1>5. CASE Terminate \/ Reap
  BY <1>5 DEF Terminate, Reap, workerVars
<1>6. CASE KillSurvivor
  <2>1. cursor \in Ranks /\ cursor' = cursor + 1 /\ pc' = "kill" /\ pc = "kill"
    BY <1>6 DEF KillSurvivor
  <2>2. \A r \in Ranks : life'[r] = IF r = cursor /\ Killed(cursor) THEN "failed" ELSE life[r]
    BY <1>6, <2>1 DEF KillSurvivor
  <2>3. \A r \in Ranks : r < cursor + 1 => life'[r] # "running"
    BY <2>1, <2>2 DEF Killed
  <2> QED
    BY <1>6, <2>1, <2>3 DEF KillSurvivor
<1>7. CASE Cleaned
  BY <1>7 DEF Cleaned, workerVars
<1>8. CASE Exit
  BY <1>8 DEF Exit, workerVars, Ending
<1>9. CASE Interrupt
  BY <1>9 DEF Interrupt, workerVars, Ending
<1>10. ASSUME NEW r \in Ranks, Worker(r) \/ Crash(r) \/ Wedge(r)
       PROVE  ParentInv' /\ NoneSurvive'
  <2>1. UNCHANGED <<pc, started, listed, cursor>>
    BY <1>10, WorkerLeaves DEF parentVars
  <2>2. \A m \in Ranks : life[m] # "running" => life'[m] # "running"
    BY <1>10, WorkerLeaves
  <2> QED
    BY <2>1, <2>2
<1>11. CASE UNCHANGED vars
  BY <1>11 DEF vars, parentVars, workerVars
<1> QED
  BY <1>1, <1>2, <1>3, <1>4, <1>5, <1>6, <1>7, <1>8, <1>9, <1>10, <1>11 DEF Next, Parent

(***************************************************************************)
(* Types                                                                   *)
(***************************************************************************)

\* Every step keeps the types.
LEMMA TypesKept ==
  ASSUME TypeOK, Placed, ParentInv, [Next]_vars
  PROVE  TypeOK'
<1> USE AllReduceAssumption, GroupsCounted DEF TypeOK
<1>1. CASE Start
  BY <1>1 DEF Start, ParentInv, capVars, Ranks
<1>2. CASE StartFails
  BY <1>2 DEF StartFails, workerVars
<1>3. CASE List
  BY <1>3 DEF List, ParentInv, workerVars, capVars
<1>4. CASE Join \/ Returns
  <2>1. cursor' \in 0..World
    BY <1>4 DEF Join, Returns
  <2>2. /\ pc' \in {"join", "returned"}
        /\ UNCHANGED <<started, listed, life, place, inside, passed, summary, wedged>>
        /\ UNCHANGED <<asked, hit, faults, interrupts>>
    BY <1>4 DEF Join, Returns, workerVars, capVars
  <2> QED
    BY <2>1, <2>2 DEF Ending
<1>5. CASE Terminate
  <2>1. cursor \in Ranks /\ cursor + 1 \in 0..World
    BY <1>5 DEF Terminate, Ranks
  <2>2. asked' \subseteq Ranks
    BY <1>5, <2>1 DEF Terminate
  <2> QED
    BY <1>5, <2>1, <2>2 DEF Terminate, workerVars, capVars
<1>5a. CASE Reap
  BY <1>5a DEF Reap, workerVars, capVars
<1>6. CASE KillSurvivor
  <2>1. cursor \in Ranks /\ cursor + 1 \in 0..World
    BY <1>6 DEF KillSurvivor, Ranks
  <2>2. /\ life' \in [Ranks -> {"unborn", "running", "finished", "failed"}]
        /\ \A r \in Ranks : life'[r] = "unborn" <=> life[r] = "unborn"
        /\ inside' \in [Ranks -> BOOLEAN]
    BY <1>6, <2>1 DEF KillSurvivor, Killed
  <2> QED
    BY <1>6, <2>1, <2>2 DEF KillSurvivor, capVars
<1>7. CASE Cleaned \/ Exit
  BY <1>7 DEF Cleaned, Exit, workerVars, capVars, Ending
<1>8. CASE Interrupt
  BY <1>8 DEF Interrupt, workerVars, Ending
<1>9. ASSUME NEW r \in Ranks, Worker(r) \/ Crash(r) \/ Wedge(r)
      PROVE  TypeOK'
  <2>1. /\ UNCHANGED <<pc, started, listed, cursor, asked, hit, interrupts>>
        /\ life' \in [Ranks -> {"unborn", "running", "finished", "failed"}]
        /\ \A m \in Ranks : life'[m] = "unborn" <=> life[m] = "unborn"
    BY <1>9, WorkerLeaves DEF parentVars
  <2>2. wedged' \subseteq Ranks /\ faults' \in 0..MaxFaults /\ inside' \in [Ranks -> BOOLEAN]
    <3>1. CASE Work(r)
      BY <3>1 DEF Work, Enter, Rendezvous, NewGroup, WarmUp, GroupBarrier, TimedMore, TimedLast,
                  Barrier, Destroy, Return, capVars
    <3>2. CASE Interrupted(r) \/ Terminated(r) \/ TimeOut(r) \/ Crash(r)
      <4>1. UNCHANGED wedged /\ inside' = [inside EXCEPT ![r] = FALSE]
        BY <3>2 DEF Interrupted, Terminated, TimeOut, Crash, Ended
      <4>2. faults' = faults \/ (faults < MaxFaults /\ faults' = faults + 1)
        BY <3>2 DEF Interrupted, Terminated, TimeOut, Crash, capVars
      <4> QED
        BY <4>1, <4>2
    <3>3. CASE Wedge(r)
      BY <3>3 DEF Wedge
    <3> QED
      BY <1>9, <3>1, <3>2, <3>3 DEF Worker
  <2>3. place' \in [Ranks -> Calls] /\ passed' \in [Ranks -> SUBSET Calls]
    <3>1. CASE Work(r)
      BY <3>1, Moves DEF Moved
    <3>2. CASE Interrupted(r) \/ Terminated(r) \/ TimeOut(r) \/ Crash(r) \/ Wedge(r)
      BY <3>2 DEF Interrupted, Terminated, TimeOut, Crash, Wedge, Ended
    <3> QED
      BY <1>9, <3>1, <3>2 DEF Worker
  <2>4. summary' \in Seq(1..NumCombos)
    <3>1. CASE TimedLast(r)
      <4>1. place[r].at \in 1..NumCombos
        BY <3>1 DEF TimedLast, Placed, OnLine, GroupStages
      <4>2. summary' = Append(summary, place[r].at) \/ summary' = summary
        BY <3>1 DEF TimedLast, Noted
      <4>3. Append(summary, place[r].at) \in Seq(1..NumCombos)
        BY <4>1
      <4> QED
        BY <4>2, <4>3
    <3>2. CASE ~TimedLast(r)
      BY <1>9, <3>2
         DEF Worker, Work, Enter, Rendezvous, NewGroup, WarmUp, GroupBarrier, TimedMore,
             Barrier, Destroy, Interrupted, Terminated, TimeOut, Crash, Wedge, Ended
    <3> QED
      BY <3>1, <3>2
  <2> QED
    BY <2>1, <2>2, <2>3, <2>4
<1>10. CASE UNCHANGED vars
  BY <1>10 DEF vars, parentVars, workerVars, capVars
<1> QED
  BY <1>1, <1>2, <1>3, <1>4, <1>5, <1>5a, <1>6, <1>7, <1>8, <1>9, <1>10 DEF Next, Parent

(***************************************************************************)
(* Where nothing disturbs                                                  *)
(***************************************************************************)

\* No timeout comes: somebody can go on.
LEMMA NoTimeOutDue ==
  ASSUME TypeOK, LineInv, Undisturbed, NoneTimesOut, faults = 0, interrupts = 0,
         NEW r \in Ranks, TimeOut(r)
  PROVE  FALSE
<1>1. wedged = {} /\ started = World /\ place[r].stage # "destroy"
  BY DEF Undisturbed, TimeOut, Able
<1>2. \A m \in Ranks : place[m].stage # "destroy" => life[m] = "running"
  BY <1>1 DEF Undisturbed, NoneTimesOut, TypeOK, Ranks
<1>3. \A m \in Ranks : place[m].stage # "destroy" => inside[m] /\ ~Met(m)
  BY <1>1, <1>2 DEF TimeOut, CanWork, Able
<1> QED
  BY <1>1, <1>3, SomeoneMet

\* Undisturbed workers end only when they are through.
LEMMA UndisturbedKept ==
  ASSUME TypeOK, LineInv, ParentInv, Undisturbed, NoneTimesOut, [Next]_vars
  PROVE  Undisturbed' /\ NoneTimesOut'
<1> USE AllReduceAssumption
<1> SUFFICES ASSUME faults' = 0, interrupts' = 0
             PROVE  Undisturbed' /\ NoneTimesOut'
  BY DEF Undisturbed, NoneTimesOut
<1>0. faults \in Nat /\ interrupts \in Nat
  BY DEF TypeOK
<1>1. CASE Start
  <2>1. started \in Ranks /\ faults = 0 /\ interrupts = 0
    BY <1>1 DEF Start, ParentInv, TypeOK, Ranks, capVars
  <2> QED
    BY <1>1, <2>1 DEF Start, Undisturbed, NoneTimesOut, TypeOK
<1>2. CASE List
  BY <1>2 DEF List, Undisturbed, NoneTimesOut, ParentInv, TypeOK, workerVars, capVars
<1>3. CASE Join \/ Returns \/ Exit
  BY <1>3 DEF Join, Returns, Exit, Ending, Undisturbed, NoneTimesOut, workerVars, capVars
<1>4. CASE Terminate \/ Reap \/ KillSurvivor \/ Cleaned
  BY <1>4 DEF Terminate, Reap, KillSurvivor, Cleaned, Undisturbed, capVars
<1>5. CASE StartFails \/ Interrupt
  BY <1>0, <1>5 DEF StartFails, Interrupt
<1>6. ASSUME NEW r \in Ranks, Crash(r) \/ Wedge(r) PROVE FALSE
  BY <1>0, <1>6 DEF Crash, Wedge
<1>7. ASSUME NEW r \in Ranks, Interrupted(r) \/ Terminated(r) PROVE FALSE
  BY <1>7 DEF Interrupted, Terminated, Undisturbed, capVars
<1>8. ASSUME NEW r \in Ranks, TimeOut(r) PROVE FALSE
  BY <1>8, NoTimeOutDue DEF TimeOut, capVars
<1>9. ASSUME NEW r \in Ranks, Work(r)
      PROVE  Undisturbed' /\ NoneTimesOut'
  <2>1. UNCHANGED <<pc, started, asked, hit, wedged, faults, interrupts>>
    BY <1>9
       DEF Work, Enter, Rendezvous, NewGroup, WarmUp, GroupBarrier, TimedMore, TimedLast,
           Barrier, Destroy, Return, parentVars, capVars
  <2>2. CASE Enter(r)
    BY <2>1, <2>2 DEF Enter, Undisturbed, NoneTimesOut, TypeOK
  <2>3. CASE Destroy(r)
    BY <2>1, <2>3 DEF Destroy, Undisturbed, NoneTimesOut, TypeOK
  <2>4. ASSUME NEW n, Return(r, n)
        PROVE  Undisturbed' /\ NoneTimesOut'
    BY <2>1, <2>4 DEF Return, Able, Undisturbed, NoneTimesOut, TypeOK
  <2>5. Enter(r) \/ Destroy(r) \/ \E n : Return(r, n)
    BY <1>9 DEF Work, Rendezvous, NewGroup, WarmUp, GroupBarrier, TimedMore, TimedLast, Barrier
  <2> QED
    BY <2>2, <2>3, <2>4, <2>5
<1>10. CASE UNCHANGED vars
  BY <1>10 DEF vars, parentVars, workerVars, capVars, Undisturbed, NoneTimesOut
<1> QED
  BY <1>1, <1>2, <1>3, <1>4, <1>5, <1>6, <1>7, <1>8, <1>9, <1>10 DEF Next, Parent, Worker

(***************************************************************************)
(* What rank 0 notes                                                       *)
(***************************************************************************)

\* Rank 0 gets past a call that is no group's last: the summary stays as it is, and so
\* does the part of it that is due.
LEMMA NothingDue ==
  ASSUME TypeOK, Placed, NEW r \in Ranks,
         \/ Rendezvous(r) \/ NewGroup(r) \/ WarmUp(r) \/ GroupBarrier(r) \/ TimedMore(r)
         \/ Barrier(r)
  PROVE  /\ UNCHANGED <<summary, life>>
         /\ place[0].stage = "destroy" => place'[0] = place[0]
         /\ \A i \in 1..NumCombos : 0 \in Combo[i] => (i <= NotedTo' <=> i <= NotedTo)
<1> DEFINE p == place[r]
<1> USE AllReduceAssumption, GroupsCounted
<1>0. p \in Calls /\ OnLine(p) /\ 0 \in Ranks
  BY DEF TypeOK, Placed, Ranks
<1>1. UNCHANGED <<summary, life>> /\ p.stage # "destroy"
  BY DEF Rendezvous, NewGroup, WarmUp, GroupBarrier, TimedMore, Barrier, Return
<1>2. \A m \in Ranks \ {r} : place'[m] = place[m]
  BY DEF Rendezvous, NewGroup, WarmUp, GroupBarrier, TimedMore, Barrier, Return, TypeOK
<1>3. CASE r # 0
  BY <1>0, <1>1, <1>2, <1>3 DEF NotedTo
<1>4. CASE r = 0
  <2> SUFFICES ASSUME NEW i \in 1..NumCombos, 0 \in Combo[i]
               PROVE  i <= NotedTo' <=> i <= NotedTo
    BY <1>1, <1>4
  <2>1. CASE Rendezvous(r)
    BY <1>0, <1>4, <2>1
       DEF Rendezvous, Return, ComboStart, Call, NotedTo, TypeOK, OnLine, WorldStages
  <2>2. CASE NewGroup(r)
    <3>1. place[0].stage = "new_group" /\ place[0].at \in 1..NumCombos
      BY <1>0, <1>4, <2>2 DEF NewGroup, OnLine, WorldStages, Calls
    <3>2. CASE 0 \in Combo[place[0].at]
      BY <1>4, <2>2, <3>1, <3>2 DEF NewGroup, Return, Call, NotedTo, TypeOK
    <3>3. CASE 0 \notin Combo[place[0].at]
      BY <1>4, <2>2, <3>1, <3>3 DEF NewGroup, Return, Call, NotedTo, TypeOK
    <3> QED
      BY <3>2, <3>3
  <2>3. CASE WarmUp(r) \/ GroupBarrier(r)
    <3>1. place' = [place EXCEPT ![0] = [place[0] EXCEPT !.stage = "sync"]]
          \/ place' = [place EXCEPT ![0] = [place[0] EXCEPT !.stage = "timed"]]
      BY <1>4, <2>3 DEF WarmUp, GroupBarrier, Return
    <3>2. place'[0].at = place[0].at /\ place'[0].stage \in {"sync", "timed"}
      BY <1>0, <3>1 DEF TypeOK, Calls
    <3>3. place[0].stage \in {"warm", "sync"}
      BY <1>4, <2>3 DEF WarmUp, GroupBarrier
    <3> QED
      BY <3>2, <3>3 DEF NotedTo
  <2>4. CASE TimedMore(r)
    BY <1>0, <1>4, <2>4 DEF TimedMore, Return, Call, NotedTo, TypeOK, Calls
  <2>5. CASE Barrier(r)
    BY <1>0, <1>4, <2>5 DEF Barrier, Return, ComboStart, Call, NotedTo, TypeOK, Calls
  <2> QED
    BY <2>1, <2>2, <2>3, <2>4, <2>5
<1> QED
  BY <1>3, <1>4

\* Rank 0 notes the group it is done with, the next of its own.
LEMMA OneNoted ==
  ASSUME TypeOK, Placed, RankInv, NEW r \in Ranks, TimedLast(r)
  PROVE  RankInv'
<1> USE AllReduceAssumption, GroupsCounted
<1>1. /\ 0 \in Ranks /\ UNCHANGED life /\ place[r].stage = "timed"
      /\ place' = [place EXCEPT ![r] = Call("barrier", place[r].at, 0)]
      /\ summary' = Noted(r)
  BY DEF TimedLast, Return, Ranks
<1>2. CASE r # 0
  BY <1>1, <1>2 DEF Noted, RankInv, NotedTo, TypeOK
<1>3. CASE r = 0
  <2> DEFINE a == place[0].at
  <2>1. a \in 1..NumCombos /\ 0 \in Combo[a] /\ place[0].stage = "timed"
    BY <1>1, <1>3 DEF Placed, OnLine, GroupStages
  <2>2. NotedTo = a - 1 /\ NotedTo' = a /\ life'[0] # "finished"
    BY <1>1, <1>3, <2>1 DEF NotedTo, Call, TypeOK, RankInv
  <2>3. summary \in Seq(1..NumCombos) /\ summary' = Append(summary, a)
    BY <1>1, <1>3 DEF TypeOK, Noted
  <2>4. /\ Len(summary') = Len(summary) + 1 /\ summary'[Len(summary) + 1] = a
        /\ \A k \in 1..Len(summary) : summary'[k] = summary[k]
        /\ Len(summary) \in Nat
        /\ DOMAIN summary' = 1..Len(summary) + 1 /\ DOMAIN summary = 1..Len(summary)
    BY <2>1, <2>3
  <2>5. \A k \in 1..Len(summary) : summary[k] \in 1..NumCombos /\ summary[k] < a
    <3> SUFFICES ASSUME NEW k \in 1..Len(summary)
                 PROVE  summary[k] \in 1..NumCombos /\ summary[k] < a
      OBVIOUS
    <3>1. summary[k] \in 1..NumCombos /\ k \in DOMAIN summary
      BY <2>3, <2>4
    <3>2. summary[k] <= a - 1
      BY <2>2, <3>1 DEF RankInv
    <3> QED
      BY <2>1, <3>1, <3>2
  <2>6. ASSUME NEW i \in 1..NumCombos
        PROVE  (\E k \in DOMAIN summary' : summary'[k] = i) <=> 0 \in Combo[i] /\ i <= a
    <3>1. (\E k \in DOMAIN summary' : summary'[k] = i)
             <=> (\E k \in DOMAIN summary : summary[k] = i) \/ i = a
      <4>1. \A k \in DOMAIN summary' : k \in DOMAIN summary \/ k = Len(summary) + 1
        BY <2>4
      <4>2. \A k \in DOMAIN summary : k \in DOMAIN summary' /\ summary'[k] = summary[k]
        BY <2>4
      <4>3. Len(summary) + 1 \in DOMAIN summary' /\ summary'[Len(summary) + 1] = a
        BY <2>4
      <4> QED
        BY <4>1, <4>2, <4>3
    <3>2. (\E k \in DOMAIN summary : summary[k] = i) <=> 0 \in Combo[i] /\ i <= a - 1
      BY <2>2 DEF RankInv
    <3> QED
      BY <2>1, <3>1, <3>2
  <2>7. \A k \in 2..Len(summary') : summary'[k - 1] < summary'[k]
    <3> SUFFICES ASSUME NEW k \in 2..Len(summary') PROVE summary'[k - 1] < summary'[k]
      OBVIOUS
    <3>1. k - 1 \in 1..Len(summary) /\ summary'[k - 1] = summary[k - 1]
      BY <2>4
    <3>2. CASE k \in 2..Len(summary)
      <4>1. summary[k - 1] < summary[k] /\ summary'[k] = summary[k]
        BY <2>4, <3>2 DEF RankInv
      <4> QED
        BY <3>1, <4>1
    <3>3. CASE k = Len(summary) + 1
      BY <2>4, <2>5, <3>1, <3>3
    <3> QED
      BY <2>4, <3>2, <3>3
  <2> QED
    BY <2>2, <2>6, <2>7 DEF RankInv
<1> QED
  BY <1>2, <1>3

\* No other step changes the summary, the place of rank 0, or ends rank 0 early.
LEMMA RankKept ==
  ASSUME TypeOK, Placed, RankInv, [Next]_vars
  PROVE  RankInv'
<1>1. 0 \in Ranks
  BY AllReduceAssumption DEF Ranks
<1>2. ASSUME UNCHANGED <<summary, place>>, life'[0] = "finished" => life[0] = "finished"
      PROVE  RankInv'
  BY <1>2 DEF RankInv, NotedTo
<1>3. ASSUME NEW r \in Ranks, Worker(r) \/ Crash(r) \/ Wedge(r)
      PROVE  RankInv'
  <2>1. CASE TimedLast(r)
    BY <2>1, OneNoted
  <2>2. CASE \/ Rendezvous(r) \/ NewGroup(r) \/ WarmUp(r) \/ GroupBarrier(r) \/ TimedMore(r)
             \/ Barrier(r)
    <3>1. /\ UNCHANGED <<summary, life>>
          /\ place[0].stage = "destroy" => place'[0] = place[0]
          /\ \A i \in 1..NumCombos : 0 \in Combo[i] => (i <= NotedTo' <=> i <= NotedTo)
      BY <2>2, NothingDue
    <3>2. life'[0] = "finished" => place'[0].stage = "destroy"
      BY <3>1 DEF RankInv
    <3>3. ASSUME NEW i \in 1..NumCombos
          PROVE  (\E k \in DOMAIN summary' : summary'[k] = i) <=> 0 \in Combo[i] /\ i <= NotedTo'
      BY <3>1 DEF RankInv
    <3> QED
      BY <3>1, <3>2, <3>3 DEF RankInv
  <2>3. CASE Destroy(r)
    BY <1>1, <2>3 DEF Destroy, RankInv, NotedTo, TypeOK
  <2>4. CASE Enter(r) \/ Wedge(r)
    BY <1>2, <2>4 DEF Enter, Wedge
  <2>5. CASE Interrupted(r) \/ Terminated(r) \/ TimeOut(r) \/ Crash(r)
    BY <1>1, <1>2, <2>5 DEF Interrupted, Terminated, TimeOut, Crash, Ended, TypeOK
  <2> QED
    BY <1>3, <2>1, <2>2, <2>3, <2>4, <2>5 DEF Worker, Work
<1>4. CASE Start \/ KillSurvivor
  BY <1>1, <1>2, <1>4 DEF Start, KillSurvivor, TypeOK
<1>5. CASE \/ List \/ Join \/ Returns \/ Terminate \/ Reap \/ Cleaned \/ Exit \/ StartFails
           \/ Interrupt
  BY <1>2, <1>5
     DEF List, Join, Returns, Terminate, Reap, Cleaned, Exit, StartFails, Interrupt, workerVars
<1>6. CASE UNCHANGED vars
  BY <1>2, <1>6 DEF vars, workerVars
<1> QED
  BY <1>3, <1>4, <1>5, <1>6 DEF Next, Parent

(***************************************************************************)
(* The theorems                                                            *)
(***************************************************************************)

\* The inductive invariant holds of every behaviour.
LEMMA Inductive == Spec => []IInv
<1>1. Init => IInv
  <2> SUFFICES ASSUME Init PROVE IInv
    OBVIOUS
  <2>1. TypeOK
    BY AllReduceAssumption, GroupsCounted
       DEF Init, TypeOK, Ranks, Call, Calls, Stages, GroupStages, WorldStages, Ending
  <2>2. ParentInv /\ NoneSurvive /\ Undisturbed /\ NoneTimesOut
    BY AllReduceAssumption DEF Init, ParentInv, NoneSurvive, Undisturbed, NoneTimesOut
  <2> QED
    BY <2>1, <2>2, LineStarts DEF IInv
<1>2. IInv /\ [Next]_vars => IInv'
  <2> SUFFICES ASSUME IInv, [Next]_vars PROVE IInv'
    OBVIOUS
  <2>1. TypeOK'
    BY TypesKept DEF IInv, LineInv
  <2> QED
    BY <2>1, LineKept, ParentKept, UndisturbedKept DEF IInv
<1> QED
  BY <1>1, <1>2, PTL DEF Spec

\* The loop over itertools.combinations visits every group of two or more ranks exactly
\* once, smaller groups first and those of one size in the order of their ranks, however
\* many ranks there are: Combo is what _allreduce_worker's combos is.
THEOREM EveryGroupOnce ==
    /\ \A i \in 1..NumCombos : Combo[i] \in Combos
    /\ \A c \in Combos : \E i \in 1..NumCombos : Combo[i] = c
    /\ \A i, j \in 1..NumCombos : i < j => Before(Combo[i], Combo[j]) /\ Combo[i] # Combo[j]
<1> DEFINE rank(c) == Cardinality({d \in Combos : Before(d, c)})
<1>1. NumCombos \in Nat
  BY GroupsCounted
<1>2. /\ \A i \in 1..NumCombos : \E c \in Combos : rank(c) = i - 1
      /\ \A c \in Combos : rank(c) \in 0..NumCombos - 1
      /\ \A c, d \in Combos : <<c, d>> \in GroupOrder => rank(c) < rank(d)
  <2> DEFINE ordered(c) == RankIn(Combos, GroupOrder, c)
  <2>1. \A c \in Combos : ordered(c) = rank(c)
    <3> SUFFICES ASSUME NEW c \in Combos
                 PROVE  {d \in Combos : <<d, c>> \in GroupOrder} = {d \in Combos : Before(d, c)}
      BY DEF RankIn
    <3> QED
      BY DEF GroupOrder
  <2>2. /\ \A i \in 1..NumCombos : \E c \in Combos : ordered(c) = i - 1
        /\ \A c \in Combos : ordered(c) \in 0..NumCombos - 1
        /\ \A c, d \in Combos : <<c, d>> \in GroupOrder => ordered(c) < ordered(d)
    BY GroupsOrdered, OnePerRank DEF NumCombos
  <2> HIDE DEF rank, ordered
  <2> QED
    BY <2>1, <2>2
<1>3. \A i \in 1..NumCombos : Combo[i] = CHOOSE c \in Combos : rank(c) = i - 1
  BY DEF Combo
<1> HIDE DEF rank
<1>4. \A i \in 1..NumCombos : Combo[i] \in Combos /\ rank(Combo[i]) = i - 1
  BY <1>2, <1>3
<1>5. /\ \A c, d \in Combos : rank(c) = rank(d) => c = d
      /\ \A c, d \in Combos : rank(c) < rank(d) => Before(c, d) /\ c # d
  <2> SUFFICES ASSUME NEW c \in Combos, NEW d \in Combos
               PROVE  /\ rank(c) = rank(d) => c = d
                      /\ rank(c) < rank(d) => Before(c, d) /\ c # d
    OBVIOUS
  <2>1. <<c, d>> \in GroupOrder \/ <<d, c>> \in GroupOrder \/ c = d
    BY GroupsOrdered DEF Orders
  <2>2. rank(c) \in Nat /\ rank(d) \in Nat
    BY <1>1, <1>2
  <2>3. /\ <<c, d>> \in GroupOrder => rank(c) < rank(d)
        /\ <<d, c>> \in GroupOrder => rank(d) < rank(c)
    BY <1>2
  <2>4. <<c, d>> \in GroupOrder => Before(c, d)
    BY DEF GroupOrder
  <2> QED
    BY <2>1, <2>2, <2>3, <2>4
<1>6. ASSUME NEW c \in Combos PROVE \E i \in 1..NumCombos : Combo[i] = c
  <2>1. rank(c) + 1 \in 1..NumCombos /\ rank(c) \in Nat
    BY <1>1, <1>2
  <2>2. Combo[rank(c) + 1] \in Combos /\ rank(Combo[rank(c) + 1]) = rank(c)
    BY <1>4, <2>1
  <2>3. Combo[rank(c) + 1] = c
    BY <1>5, <2>2
  <2> QED
    BY <2>1, <2>3
<1>7. ASSUME NEW i \in 1..NumCombos, NEW j \in 1..NumCombos, i < j
      PROVE  Before(Combo[i], Combo[j]) /\ Combo[i] # Combo[j]
  <2>1. rank(Combo[i]) < rank(Combo[j])
    BY <1>1, <1>4, <1>7
  <2> QED
    BY <1>4, <1>5, <2>1
<1> QED
  BY <1>4, <1>6, <1>7

\* Types, and that exactly the started ranks have had a process.
THEOREM TypeCorrect == Spec => []TypeOK
<1>1. IInv => TypeOK
  BY DEF IInv
<1> QED
  BY <1>1, Inductive, PTL

\* No two groups are measured at one time, however many ranks and sizes there are and
\* whatever fails (bench_allreduce's barrier of the world after each group).
THEOREM MeasuredAlone == Spec => []OneGroupAtATime
<1>1. IInv => OneGroupAtATime
  <2> SUFFICES ASSUME IInv, NEW r \in Ranks, NEW m \in Ranks,
                      place[r].stage \in GroupStages, place[m].stage \in GroupStages
               PROVE  place[r].at = place[m].at
    BY DEF OneGroupAtATime
  <2>1. \A x \in {r, m} : place[x] \in Calls /\ OnLine(place[x]) /\ place[x].at \in 1..NumCombos
    BY DEF IInv, LineInv, Placed, TypeOK, OnLine
  <2>2. \A x \in {r, m} : Round(place[x]) = 2 * place[x].at
    BY <2>1, Measures
  <2>3. Round(place[r]) <= Round(place[m]) + 1 /\ Round(place[m]) <= Round(place[r]) + 1
    BY DEF IInv, LineInv, Together
  <2> QED
    BY <2>1, <2>2, <2>3, GroupsCounted
<1> QED
  BY <1>1, Inductive, PTL

\* _cleanup_processes, run to its end, leaves no listed worker.
THEOREM ListedGone == Spec => []NoneSurvive
<1>1. IInv => NoneSurvive
  BY DEF IInv
<1> QED
  BY <1>1, Inductive, PTL

\* The collectives of _allreduce_worker cannot deadlock: in an undisturbed test no rank
\* runs into NCCL's timeout, for any number of ranks and sizes.
THEOREM NoDeadlock == Spec => []NoneTimesOut
<1>1. IInv => NoneTimesOut
  BY DEF IInv
<1> QED
  BY <1>1, Inductive, PTL

\* The summary of a test that went through ranks each group of rank 0 once and in order,
\* and no other, whatever fails around it (run_group's note, made by rank 0 only).
THEOREM RankedOnce == Spec => []RankedByRankZero
<1>1. Init => RankInv
  <2> SUFFICES ASSUME Init PROVE RankInv
    OBVIOUS
  <2>1. 0 \in Ranks /\ summary = <<>> /\ NotedTo = -1 /\ life[0] # "finished"
    BY AllReduceAssumption DEF Init, Ranks, Call, NotedTo
  <2> QED
    BY <2>1 DEF RankInv
<1>2. IInv /\ RankInv /\ [Next]_vars => RankInv'
  BY RankKept DEF IInv, LineInv
<1>3. IInv /\ RankInv => RankedByRankZero
  <2> SUFFICES ASSUME IInv, RankInv, life[0] = "finished"
               PROVE  {summary[k] : k \in DOMAIN summary} = {i \in 1..NumCombos : 0 \in Combo[i]}
    BY DEF RankedByRankZero, RankInv
  <2>1. NotedTo = NumCombos
    <3>1. 0 \in Ranks
      BY AllReduceAssumption DEF Ranks
    <3>2. OnLine(place[0]) /\ place[0].stage = "destroy"
      BY <3>1 DEF IInv, LineInv, Placed, RankInv
    <3> QED
      BY <3>2, GroupsCounted DEF OnLine, NotedTo
  <2>2. \A k \in DOMAIN summary : summary[k] \in 1..NumCombos
    BY GroupsCounted DEF IInv, TypeOK
  <2>3. \A i \in 1..NumCombos : (\E k \in DOMAIN summary : summary[k] = i) <=> 0 \in Combo[i]
    BY <2>1, GroupsCounted DEF RankInv
  <2> QED
    BY <2>2, <2>3
<1> QED
  BY <1>1, <1>2, <1>3, Inductive, PTL DEF Spec

\* The workers implement the line of collectives of the world that Rounds describes.
THEOREM RefinesRounds == Spec => InLockstep
<1>1. Init => Lockstep!Init
  <2> SUFFICES ASSUME Init PROVE rounds = [r \in Ranks |-> 0]
    BY DEF Lockstep!Init
  <2> QED
    BY DEF Init, rounds, Call, Round
<1>2. ASSUME IInv, [Next]_vars
      PROVE  [Lockstep!Next]_rounds
  <2>1. TypeOK /\ LineInv /\ Placed /\ NumCombos \in Nat
    BY <1>2, GroupsCounted DEF IInv, LineInv
  <2>2. ASSUME UNCHANGED place PROVE UNCHANGED rounds
    BY <2>2 DEF rounds
  <2>3. ASSUME NEW r \in Ranks, NEW n \in Calls, Moved(r, n), GroupMove(r, n)
        PROVE  UNCHANGED rounds
    <3>1. \A m \in Ranks : Round(place'[m]) = Round(place[m])
      BY <2>1, <2>3 DEF Moved, GroupMove, TypeOK
    <3> QED
      BY <3>1 DEF rounds
  <2>4. ASSUME NEW r \in Ranks, NEW n \in Calls, Moved(r, n), WorldMove(r, n)
        PROVE  Lockstep!Next
    <3>1. /\ \A m \in Ranks : Round(place[m]) \in Nat
          /\ Round(place[r]) < 2 * NumCombos + 1
      <4>1. \A m \in Ranks : place[m] \in Calls /\ OnLine(place[m])
        BY <2>1 DEF Placed, TypeOK
      <4>2. Round(n) \in 0..2 * NumCombos + 1 /\ Round(n) = Round(place[r]) + 1
        BY <2>4, Measures DEF WorldMove
      <4> QED
        BY <2>1, <4>1, <4>2, Measures
    <3>2. \A m \in Ranks : Round(place[r]) <= Round(place[m])
      <4> TAKE m \in Ranks
      <4>1. place[r] \in Calls /\ OnLine(place[r])
        BY <2>1 DEF Placed, TypeOK
      <4>2. place[m] = place[r] \/ place[r] \in passed[m]
        BY <2>4 DEF Moved, Met, Party, WorldMove, WorldStages, GroupStages
      <4>3. place[r] \in passed[m] => Round(place[r]) < Round(place[m])
        BY <2>1, <2>4, <4>1 DEF WorldMove, LineInv, Behind
      <4> QED
        BY <3>1, <4>2, <4>3
    <3>3. rounds' = [rounds EXCEPT ![r] = @ + 1]
      <4>1. \A m \in Ranks : Round(place'[m]) = Round(place[m]) + (IF m = r THEN 1 ELSE 0)
        BY <2>1, <2>4, <3>1 DEF Moved, WorldMove, TypeOK
      <4>2. /\ rounds' = [m \in Ranks |-> Round(place'[m])]
            /\ rounds = [m \in Ranks |-> Round(place[m])]
        BY DEF rounds
      <4>3. \A m \in Ranks : rounds'[m] = rounds[m] + (IF m = r THEN 1 ELSE 0)
        BY <4>1, <4>2
      <4>4. /\ \A m \in Ranks : rounds'[m] = [rounds EXCEPT ![r] = @ + 1][m]
            /\ rounds[r] + 0 = rounds[r]
        BY <3>1, <4>2, <4>3
      <4> QED
        BY <4>2, <4>4
    <3>4. Lockstep!Advance(r)
      BY <3>1, <3>2, <3>3 DEF Lockstep!Advance, rounds
    <3> QED
      BY <3>4 DEF Lockstep!Next
  <2>5. ASSUME NEW r \in Ranks, Work(r) PROVE [Lockstep!Next]_rounds
    BY <2>1, <2>2, <2>3, <2>4, <2>5, Moves
  <2>6. ASSUME NEW r \in Ranks, Interrupted(r) \/ Terminated(r) \/ TimeOut(r) \/ Crash(r) \/ Wedge(r)
        PROVE  UNCHANGED place
    BY <2>6 DEF Interrupted, Terminated, TimeOut, Crash, Wedge, Ended
  <2>7. ASSUME Start \/ List \/ Join \/ Returns \/ StartFails \/ Exit \/ Interrupt
        PROVE  UNCHANGED place
    BY <2>7 DEF Start, List, Join, Returns, StartFails, Exit, Interrupt, workerVars
  <2>8. ASSUME Terminate \/ Reap \/ KillSurvivor \/ Cleaned \/ UNCHANGED vars
        PROVE  UNCHANGED place
    BY <2>8 DEF Terminate, Reap, KillSurvivor, Cleaned, vars, workerVars
  <2> QED
    BY <1>2, <2>2, <2>5, <2>6, <2>7, <2>8 DEF Next, Parent, Worker
<1> QED
  BY <1>1, <1>2, Inductive, PTL DEF Spec, InLockstep, Lockstep!Spec
=============================================================================
