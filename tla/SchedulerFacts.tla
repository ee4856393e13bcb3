--------------------------- MODULE SchedulerFacts ----------------------------
(***************************************************************************)
(* What the operators of Scheduler return: queues, which hold a request    *)
(* at most once, sums over the requests, and tokens counted in blocks.     *)
(***************************************************************************)
EXTENDS Scheduler, FiniteSetTheorems, FunctionTheorems, SequenceTheorems, TLAPS

(***************************************************************************)
(* Queues                                                                  *)
(***************************************************************************)

\* A relation that puts the members of a set in an order.
Orders(R, S) ==
    /\ \A x \in S : <<x, x>> \notin R
    /\ \A x, y, z \in S : <<x, y>> \in R /\ <<y, z>> \in R => <<x, z>> \in R
    /\ \A x, y \in S : x # y => <<x, y>> \in R \/ <<y, x>> \in R

\* Arranged lists the members of S once each, in the order R.
LEMMA ArrangedInOrder ==
    ASSUME NEW S, IsFiniteSet(S), NEW R, Orders(R, S)
    PROVE  /\ Arranged(S, R) \in Seq(S)
           /\ ToSet(Arranged(S, R)) = S
           /\ IsInjective(Arranged(S, R))
           /\ \A i, j \in DOMAIN Arranged(S, R) :
                 i < j => <<Arranged(S, R)[i], Arranged(S, R)[j]>> \in R
<1> DEFINE before(x) == {y \in S : <<y, x>> \in R}
           rank(x) == Cardinality(before(x))
           n == Cardinality(S)
           a == Arranged(S, R)
<1>1. n \in Nat
    BY FS_CardinalityType
<1>2. ASSUME NEW x \in S PROVE rank(x) \in 0..(n - 1)
    <2>1. before(x) \in SUBSET S /\ before(x) # S
        BY DEF Orders
    <2>2. IsFiniteSet(before(x))
        BY <2>1, FS_Subset
    <2>3. Cardinality(before(x)) \in Nat
        BY <2>2, FS_CardinalityType
    <2>4. Cardinality(before(x)) <= Cardinality(S) /\ Cardinality(before(x)) # Cardinality(S)
        <3> HIDE DEF before
        <3> QED
            BY <2>1, FS_Subset
    <2> QED
        BY <2>3, <2>4, <1>1
<1>3. ASSUME NEW x \in S, NEW y \in S, <<x, y>> \in R PROVE rank(x) < rank(y)
    <2>1. before(x) \in SUBSET before(y) /\ before(x) # before(y)
        <3>1. x \in before(y) /\ x \notin before(x)
            BY <1>3 DEF Orders
        <3>2. before(x) \subseteq before(y)
            BY <1>3 DEF Orders
        <3> QED
            BY <3>1, <3>2
    <2>2. IsFiniteSet(before(y)) /\ before(y) \in SUBSET S
        BY FS_Subset
    <2>3. rank(x) <= rank(y) /\ rank(x) # rank(y)
        <3> HIDE DEF before
        <3> QED
            BY <2>1, <2>2, FS_Subset
    <2> HIDE DEF rank
    <2> QED
        BY <2>3, <1>2, <1>1
<1>4. \A x, y \in S : rank(x) = rank(y) => x = y
    <2> SUFFICES ASSUME NEW x \in S, NEW y \in S, x # y PROVE rank(x) # rank(y)
        OBVIOUS
    <2>1. <<x, y>> \in R \/ <<y, x>> \in R
        BY DEF Orders
    <2> HIDE DEF rank
    <2>2. rank(x) < rank(y) \/ rank(y) < rank(x)
        BY <1>3, <2>1
    <2> QED
        BY <2>2, <1>2, <1>1
<1>5. \A i \in 1..n : \E x \in S : rank(x) = i - 1
    <2> DEFINE f == [x \in S |-> rank(x) + 1]
    <2> HIDE DEF rank
    <2>1. f \in [S -> 1..n]
        BY <1>1, <1>2
    <2>2. IsInjective(f)
        BY <1>1, <1>2, <1>4 DEF IsInjective
    <2>3. f \in Injection(S, 1..n)
        BY <2>1, <2>2 DEF Injection
    <2>4. IsFiniteSet(1..n) /\ Cardinality(1..n) = n
        BY <1>1, FS_Interval
    <2>5. f \in Surjection(S, 1..n)
        BY <2>3, <2>4, FS_Injection
    <2> SUFFICES ASSUME NEW i \in 1..n PROVE \E x \in S : rank(x) = i - 1
        OBVIOUS
    <2>6. PICK x \in S : f[x] = i
        BY <2>5 DEF Surjection
    <2> QED
        BY <2>6, <1>1, <1>2
<1>6. a = [i \in 1..n |-> CHOOSE x \in S : rank(x) = i - 1]
    BY DEF Arranged
<1> HIDE DEF rank, a, n
<1>7. \A i \in 1..n : a[i] \in S /\ rank(a[i]) = i - 1
    BY <1>5, <1>6
<1>8. DOMAIN a = 1..n /\ a \in Seq(S)
    BY <1>1, <1>6, <1>7
<1>9. IsInjective(a)
    BY <1>1, <1>7, <1>8 DEF IsInjective
<1>10. ToSet(a) = S
    <2>1. \A x \in S : rank(x) + 1 \in 1..n
        BY <1>1, <1>2
    <2>2. \A x \in S : a[rank(x) + 1] = x
        BY <1>1, <1>2, <1>4, <1>7, <2>1
    <2> QED
        BY <1>7, <1>8, <2>1, <2>2 DEF ToSet
<1>11. ASSUME NEW i \in DOMAIN a, NEW j \in DOMAIN a, i < j PROVE <<a[i], a[j]>> \in R
    <2>1. a[i] # a[j] /\ a[i] \in S /\ a[j] \in S
        BY <1>1, <1>7, <1>8, <1>11
    <2>2. ~(rank(a[j]) < rank(a[i]))
        BY <1>1, <1>7, <1>8, <1>11
    <2> QED
        BY <2>1, <2>2, <1>3 DEF Orders
<1> QED
    BY <1>8, <1>9, <1>10, <1>11 DEF a

LEMMA FiniteRequests ==
    /\ IsFiniteSet(Requests) /\ Cardinality(Requests) \in Nat
    /\ Requests = 1..Cardinality(Requests) /\ 1 \in Requests
<1>1. /\ IsFiniteSet(Requests) /\ Cardinality(Requests) \in Nat /\ Requests # {}
      /\ Requests = 1..Cardinality(Requests)
    BY SchedulerAssumption, FS_CardinalityType
<1>2. PICK r : r \in Requests
    BY <1>1
<1>3. r \in 1..Cardinality(Requests)
    BY <1>1, <1>2
<1>4. 1 \in 1..Cardinality(Requests)
    BY <1>1, <1>3
<1> QED
    BY <1>1, <1>4

\* A queue of requests, each at most once.
Queue(q) == q \in Seq(Requests) /\ IsInjective(q)

LEMMA QueueLength ==
    ASSUME NEW q, Queue(q)
    PROVE  /\ ToSet(q) \subseteq Requests /\ IsFiniteSet(ToSet(q))
           /\ DOMAIN q = 1..Len(q) /\ Len(q) \in Nat
           /\ Len(q) = Cardinality(ToSet(q)) /\ Len(q) <= Cardinality(Requests)
<1> USE DEF Queue
<1>1. Len(q) \in Nat /\ DOMAIN q = 1..Len(q)
    OBVIOUS
<1>2. ToSet(q) \subseteq Requests
    BY <1>1 DEF ToSet
<1>3. q \in Bijection(1..Len(q), ToSet(q))
    <2>1. q \in [1..Len(q) -> ToSet(q)]
        BY <1>1 DEF ToSet
    <2>2. \A t \in ToSet(q) : \E s \in 1..Len(q) : q[s] = t
        BY <1>1 DEF ToSet
    <2> QED
        BY <2>1, <2>2 DEF Bijection, Injection, Surjection
<1>4. IsFiniteSet(1..Len(q)) /\ Cardinality(1..Len(q)) = Len(q)
    BY <1>1, FS_Interval
<1>5. ExistsBijection(1..Len(q), ToSet(q))
    BY <1>3 DEF ExistsBijection
<1>6. IsFiniteSet(ToSet(q)) /\ Cardinality(ToSet(q)) = Len(q)
    BY <1>4, <1>5, FS_Bijection
<1>7. Cardinality(ToSet(q)) <= Cardinality(Requests)
    BY <1>2, FiniteRequests, FS_Subset
<1> QED
    BY <1>1, <1>2, <1>6, <1>7

LEMMA LineOrders ==
    ASSUME NEW q, Queue(q), NEW S, S \subseteq ToSet(q)
    PROVE  Orders(Line(q), S)
<1>1. DOMAIN q = 1..Len(q) /\ Len(q) \in Nat
    BY QueueLength
<1>2. \A x, y \in S : <<x, y>> \in Line(q) <=>
                          \E i, j \in DOMAIN q : i < j /\ q[i] = x /\ q[j] = y
    BY DEF Line
<1>3. \A x \in S : \E i \in DOMAIN q : q[i] = x
    BY DEF ToSet
<1>4. \A i, j \in DOMAIN q : q[i] = q[j] => i = j
    BY DEF Queue, IsInjective
<1>5. ASSUME NEW x \in S PROVE <<x, x>> \notin Line(q)
    BY <1>1, <1>2, <1>4
<1>6. ASSUME NEW x \in S, NEW y \in S, NEW z \in S, <<x, y>> \in Line(q), <<y, z>> \in Line(q)
      PROVE  <<x, z>> \in Line(q)
    <2>1. PICK i \in DOMAIN q, j \in DOMAIN q : i < j /\ q[i] = x /\ q[j] = y
        BY <1>2, <1>6
    <2>2. PICK k \in DOMAIN q, l \in DOMAIN q : k < l /\ q[k] = y /\ q[l] = z
        BY <1>2, <1>6
    <2>3. j = k
        BY <2>1, <2>2, <1>4
    <2>4. i < l
        BY <2>1, <2>2, <2>3, <1>1
    <2> QED
        BY <2>1, <2>2, <2>4, <1>2
<1>7. ASSUME NEW x \in S, NEW y \in S, x # y
      PROVE  <<x, y>> \in Line(q) \/ <<y, x>> \in Line(q)
    <2>1. PICK i \in DOMAIN q : q[i] = x
        BY <1>3
    <2>2. PICK j \in DOMAIN q : q[j] = y
        BY <1>3
    <2>3. i < j \/ j < i
        BY <2>1, <2>2, <1>1, <1>7
    <2> QED
        BY <2>1, <2>2, <2>3, <1>2
<1> QED
    BY <1>5, <1>6, <1>7 DEF Orders

LEMMA UrgencyOrders == ASSUME NEW S, S \subseteq Requests PROVE Orders(Urgency, S)
<1>1. \A r \in S : r \in Nat /\ Priority[r] \in Nat
    <2>1. Priority \in [Requests -> Nat]
        BY SchedulerAssumption
    <2>2. Requests \subseteq Nat
        BY FiniteRequests
    <2> QED
        BY <2>1, <2>2
<1>2. \A a, b \in S : <<a, b>> \in Urgency <=> Urgent(a, b)
    BY DEF Urgency
<1> QED
    BY <1>1, <1>2 DEF Orders, Urgent

LEMMA WithoutQueue ==
    ASSUME NEW q, Queue(q), NEW S
    PROVE  /\ Queue(Without(q, S)) /\ ToSet(Without(q, S)) = ToSet(q) \ S
           /\ Len(Without(q, S)) <= Len(q)
           /\ \A i, j \in DOMAIN Without(q, S) : i < j =>
                 \E k, l \in DOMAIN q : k < l /\ q[k] = Without(q, S)[i] /\ q[l] = Without(q, S)[j]
<1> DEFINE T == ToSet(q) \ S
<1>1. T \in SUBSET ToSet(q) /\ T \subseteq Requests /\ IsFiniteSet(ToSet(q)) /\ IsFiniteSet(T)
    BY QueueLength, FS_Subset
<1>2. Orders(Line(q), T)
    BY <1>1, LineOrders
<1>3. Without(q, S) = Arranged(T, Line(q))
    BY DEF Without
<1> HIDE DEF T
<1>4. /\ Without(q, S) \in Seq(T) /\ ToSet(Without(q, S)) = T /\ IsInjective(Without(q, S))
      /\ \A i, j \in DOMAIN Without(q, S) :
            i < j => <<Without(q, S)[i], Without(q, S)[j]>> \in Line(q)
    BY <1>1, <1>2, <1>3, ArrangedInOrder
<1>5. Queue(Without(q, S))
    BY <1>1, <1>4, SeqMonotonic DEF Queue
<1>6. Len(Without(q, S)) <= Len(q)
    BY <1>1, <1>4, <1>5, QueueLength, FS_Subset
<1>7. ASSUME NEW i \in DOMAIN Without(q, S), NEW j \in DOMAIN Without(q, S), i < j
      PROVE  \E k, l \in DOMAIN q : k < l /\ q[k] = Without(q, S)[i] /\ q[l] = Without(q, S)[j]
    BY <1>4, <1>7 DEF Line
<1> QED
    BY <1>4, <1>5, <1>6, <1>7 DEF T

LEMMA RankedQueue ==
    ASSUME NEW S, S \subseteq Requests
    PROVE  Queue(Ranked(S)) /\ ToSet(Ranked(S)) = S
<1>1. IsFiniteSet(S)
    BY FiniteRequests, FS_Subset
<1>2. /\ Ranked(S) \in Seq(S) /\ ToSet(Ranked(S)) = S /\ IsInjective(Ranked(S))
    BY <1>1, UrgencyOrders, ArrangedInOrder DEF Ranked
<1> QED
    BY <1>2, SeqMonotonic DEF Queue

LEMMA ConcatQueue ==
    ASSUME NEW p, Queue(p), NEW q, Queue(q)
    PROVE  /\ p \o q \in Seq(Requests)
           /\ ToSet(p \o q) = ToSet(p) \union ToSet(q)
           /\ ToSet(p) \intersect ToSet(q) = {} => Queue(p \o q)
<1>1. /\ p \in Seq(Requests) /\ q \in Seq(Requests)
      /\ Len(p) \in Nat /\ DOMAIN p = 1..Len(p) /\ Len(q) \in Nat /\ DOMAIN q = 1..Len(q)
    BY QueueLength DEF Queue
<1>2. /\ p \o q \in Seq(Requests) /\ Len(p \o q) = Len(p) + Len(q)
      /\ \A i \in 1..(Len(p) + Len(q)) : (p \o q)[i] = IF i <= Len(p) THEN p[i] ELSE q[i - Len(p)]
    BY <1>1, ConcatProperties
<1>3. DOMAIN (p \o q) = 1..(Len(p) + Len(q))
    BY <1>2
<1>4. ToSet(p \o q) \subseteq ToSet(p) \union ToSet(q)
    BY <1>1, <1>2, <1>3 DEF ToSet
<1>5. ASSUME NEW x \in ToSet(p) PROVE x \in ToSet(p \o q)
    <2>1. PICK i \in DOMAIN p : p[i] = x
        BY DEF ToSet
    <2>2. i \in DOMAIN (p \o q) /\ (p \o q)[i] = x
        BY <1>1, <1>2, <1>3, <2>1
    <2> QED
        BY <2>2 DEF ToSet
<1>6. ASSUME NEW x \in ToSet(q) PROVE x \in ToSet(p \o q)
    <2>1. PICK i \in DOMAIN q : q[i] = x
        BY DEF ToSet
    <2>2. i + Len(p) \in DOMAIN (p \o q) /\ (p \o q)[i + Len(p)] = x
        BY <1>1, <1>2, <1>3, <2>1
    <2> QED
        BY <2>2 DEF ToSet
<1>8. /\ \A i, j \in 1..Len(p) : p[i] = p[j] => i = j
      /\ \A i, j \in 1..Len(q) : q[i] = q[j] => i = j
    BY <1>1 DEF Queue, IsInjective
<1>7. ASSUME ToSet(p) \intersect ToSet(q) = {} PROVE IsInjective(p \o q)
    <2> SUFFICES ASSUME NEW i \in 1..(Len(p) + Len(q)), NEW j \in 1..(Len(p) + Len(q)),
                        (p \o q)[i] = (p \o q)[j]
                 PROVE  i = j
        BY <1>3 DEF IsInjective
    <2>1. /\ (p \o q)[i] = IF i <= Len(p) THEN p[i] ELSE q[i - Len(p)]
          /\ (p \o q)[j] = IF j <= Len(p) THEN p[j] ELSE q[j - Len(p)]
        BY <1>2
    <2>2. CASE i <= Len(p) /\ j <= Len(p)
        <3>1. i \in 1..Len(p) /\ j \in 1..Len(p)
            BY <1>1, <2>2
        <3>2. (p \o q)[i] = p[i] /\ (p \o q)[j] = p[j]
            BY <2>1, <2>2
        <3>3. p[i] = p[j]
            BY <3>2
        <3> QED
            BY <3>1, <3>3, <1>8
    <2>3. CASE ~(i <= Len(p)) /\ ~(j <= Len(p))
        <3>1. i - Len(p) \in 1..Len(q) /\ j - Len(p) \in 1..Len(q)
            BY <1>1, <2>3
        <3>2. (p \o q)[i] = q[i - Len(p)] /\ (p \o q)[j] = q[j - Len(p)]
            BY <2>1, <2>3
        <3>3. q[i - Len(p)] = q[j - Len(p)]
            BY <3>2
        <3>4. i - Len(p) = j - Len(p)
            BY <3>1, <3>3, <1>8
        <3> QED
            BY <3>4, <1>1
    <2>4. CASE i <= Len(p) /\ ~(j <= Len(p))
        <3>1. i \in 1..Len(p) /\ j - Len(p) \in 1..Len(q)
            BY <1>1, <2>4
        <3>2. p[i] \in ToSet(p) /\ q[j - Len(p)] \in ToSet(q)
            BY <1>1, <3>1 DEF ToSet
        <3>3. p[i] = q[j - Len(p)]
            BY <2>1, <2>4
        <3> QED
            BY <1>7, <3>2, <3>3
    <2>5. CASE ~(i <= Len(p)) /\ j <= Len(p)
        <3>1. j \in 1..Len(p) /\ i - Len(p) \in 1..Len(q)
            BY <1>1, <2>5
        <3>2. p[j] \in ToSet(p) /\ q[i - Len(p)] \in ToSet(q)
            BY <1>1, <3>1 DEF ToSet
        <3>3. p[j] = q[i - Len(p)]
            BY <2>1, <2>5
        <3> QED
            BY <1>7, <3>2, <3>3
    <2> QED
        BY <2>2, <2>3, <2>4, <2>5
<1> QED
    BY <1>2, <1>4, <1>5, <1>6, <1>7 DEF Queue

LEMMA SingleQueue == ASSUME NEW r \in Requests PROVE Queue(<<r>>) /\ ToSet(<<r>>) = {r}
BY DEF Queue, ToSet, IsInjective

LEMMA EmptyQueue == Queue(<<>>) /\ ToSet(<<>>) = {}
BY DEF Queue, ToSet, IsInjective

LEMMA ReverseQueue == ASSUME NEW q, Queue(q) PROVE Queue(Reverse(q)) /\ ToSet(Reverse(q)) = ToSet(q)
<1> DEFINE n == Len(q)
           b == Reverse(q)
<1>1. q \in Seq(Requests) /\ n \in Nat /\ DOMAIN q = 1..n
    BY QueueLength DEF Queue
<1>2. b = [i \in 1..n |-> q[(n - i) + 1]]
    BY DEF Reverse
<1>3. \A i \in 1..n : (n - i) + 1 \in 1..n
    BY <1>1
<1>4. b \in Seq(Requests) /\ DOMAIN b = 1..n
    BY <1>1, <1>2, <1>3
<1>5. IsInjective(b)
    <2> SUFFICES ASSUME NEW i \in 1..n, NEW j \in 1..n, b[i] = b[j] PROVE i = j
        BY <1>4 DEF IsInjective
    <2>1. q[(n - i) + 1] = q[(n - j) + 1]
        BY <1>2
    <2>2. (n - i) + 1 = (n - j) + 1
        BY <2>1, <1>1, <1>3 DEF Queue, IsInjective
    <2> QED
        BY <2>2, <1>1
<1>6. ToSet(b) \subseteq ToSet(q)
    BY <1>1, <1>2, <1>3, <1>4 DEF ToSet
<1>7. ASSUME NEW x \in ToSet(q) PROVE x \in ToSet(b)
    <2>1. PICK i \in 1..n : q[i] = x
        BY <1>1 DEF ToSet
    <2>2. (n - i) + 1 \in 1..n /\ (n - ((n - i) + 1)) + 1 = i
        BY <1>1
    <2>3. b[(n - i) + 1] = x
        BY <2>1, <2>2, <1>2
    <2> QED
        BY <2>2, <2>3, <1>4 DEF ToSet
<1> QED
    BY <1>4, <1>5, <1>6, <1>7 DEF Queue

LEMMA AppendQueue ==
    ASSUME NEW q, Queue(q), NEW r \in Requests, r \notin ToSet(q)
    PROVE  Queue(Append(q, r)) /\ ToSet(Append(q, r)) = ToSet(q) \union {r}
<1>1. Append(q, r) = q \o <<r>>
    BY AppendIsConcat DEF Queue
<1>2. ToSet(q) \intersect ToSet(<<r>>) = {}
    BY SingleQueue
<1>3. Queue(<<r>>) /\ ToSet(<<r>>) = {r}
    BY SingleQueue
<1> QED
    BY <1>1, <1>2, <1>3, ConcatQueue

LEMMA EnqueueQueue ==
    ASSUME NEW q, Queue(q), NEW r \in Requests, r \notin ToSet(q)
    PROVE  Queue(Enqueue(q, r)) /\ ToSet(Enqueue(q, r)) = ToSet(q) \union {r}
<1>1. ToSet(q) \union {r} \subseteq Requests
    BY QueueLength
<1> QED
    BY <1>1, AppendQueue, RankedQueue DEF Enqueue

LEMMA PrependQueue ==
    ASSUME NEW q, Queue(q), NEW r \in Requests, r \notin ToSet(q)
    PROVE  Queue(Prepend(q, r)) /\ ToSet(Prepend(q, r)) = ToSet(q) \union {r}
<1>1. ToSet(q) \union {r} \subseteq Requests
    BY QueueLength
<1>2. Queue(<<r>> \o q) /\ ToSet(<<r>> \o q) = ToSet(q) \union {r}
    <2>1. Queue(<<r>>) /\ ToSet(<<r>>) = {r}
        BY SingleQueue
    <2>2. ToSet(<<r>>) \intersect ToSet(q) = {}
        BY <2>1
    <2> QED
        BY <2>1, <2>2, ConcatQueue
<1> QED
    BY <1>1, <1>2, RankedQueue DEF Prepend

LEMMA RequeuedQueue ==
    ASSUME NEW q, Queue(q), NEW b, Queue(b), ToSet(q) \intersect ToSet(b) = {},
           NEW s \in Requeued(q, b)
    PROVE  Queue(s) /\ ToSet(s) = ToSet(q) \union ToSet(b)
<1>1. ToSet(q) \union ToSet(b) \subseteq Requests
    BY QueueLength
<1>2. Queue(b \o q) /\ ToSet(b \o q) = ToSet(q) \union ToSet(b)
    BY ConcatQueue
<1>3. Queue(Reverse(b)) /\ ToSet(Reverse(b)) = ToSet(b)
    BY ReverseQueue
<1>4. Queue(Reverse(b) \o q) /\ ToSet(Reverse(b) \o q) = ToSet(q) \union ToSet(b)
    BY <1>3, ConcatQueue
<1> QED
    BY <1>1, <1>2, <1>4, RankedQueue DEF Requeued

LEMMA TailQueue ==
    ASSUME NEW q, Queue(q), q # <<>>
    PROVE  /\ Queue(Tail(q)) /\ ToSet(Tail(q)) = ToSet(q) \ {Head(q)}
           /\ Head(q) \in ToSet(q)
<1> DEFINE t == Tail(q)
<1>1. /\ q \in Seq(Requests) /\ Len(q) \in Nat \ {0} /\ DOMAIN q = 1..Len(q) /\ Head(q) = q[1]
    BY QueueLength DEF Queue
<1>2. /\ t \in Seq(Requests) /\ Len(t) = Len(q) - 1 /\ \A i \in 1..Len(t) : t[i] = q[i + 1]
    BY <1>1, HeadTailProperties
<1>3. DOMAIN t = 1..(Len(q) - 1)
    BY <1>1, <1>2
<1> HIDE DEF t
<1>4. \A i, j \in DOMAIN q : q[i] = q[j] => i = j
    BY DEF Queue, IsInjective
<1>5. IsInjective(t)
    <2> SUFFICES ASSUME NEW i \in 1..(Len(q) - 1), NEW j \in 1..(Len(q) - 1), t[i] = t[j]
                 PROVE  i = j
        BY <1>3 DEF IsInjective
    <2>1. i + 1 \in DOMAIN q /\ j + 1 \in DOMAIN q /\ q[i + 1] = q[j + 1]
        BY <1>1, <1>2
    <2> QED
        BY <2>1, <1>1, <1>4
<1>6. ASSUME NEW x \in ToSet(t) PROVE x \in ToSet(q) \ {Head(q)}
    <2>1. PICK i \in 1..(Len(q) - 1) : t[i] = x
        BY <1>3 DEF ToSet
    <2>2. i + 1 \in DOMAIN q /\ q[i + 1] = x /\ 1 \in DOMAIN q /\ i + 1 # 1
        BY <1>1, <1>2, <2>1
    <2> QED
        BY <2>2, <1>1, <1>4 DEF ToSet
<1>7. ASSUME NEW x \in ToSet(q), x # Head(q) PROVE x \in ToSet(t)
    <2>1. PICK i \in DOMAIN q : q[i] = x
        BY DEF ToSet
    <2>2. i - 1 \in DOMAIN t /\ t[i - 1] = x
        BY <1>1, <1>2, <1>3, <1>7, <2>1
    <2> QED
        BY <2>2 DEF ToSet
<1>8. Head(q) \in ToSet(q)
    BY <1>1 DEF ToSet
<1> QED
    BY <1>2, <1>5, <1>6, <1>7, <1>8 DEF Queue, t

LEMMA RemoveQueue ==
    ASSUME NEW q, Queue(q), NEW i \in DOMAIN q
    PROVE  /\ Queue(RemoveAt(q, i)) /\ ToSet(RemoveAt(q, i)) = ToSet(q) \ {q[i]}
           /\ Len(RemoveAt(q, i)) = Len(q) - 1
           /\ \A k \in 1..(Len(q) - 1) : RemoveAt(q, i)[k] = IF k < i THEN q[k] ELSE q[k + 1]
<1> DEFINE s == RemoveAt(q, i)
           n == Len(q)
<1>1. q \in Seq(Requests) /\ n \in Nat /\ DOMAIN q = 1..n /\ i \in 1..n
    BY QueueLength DEF Queue
<1>2. /\ SubSeq(q, 1, i - 1) \in Seq(Requests) /\ Len(SubSeq(q, 1, i - 1)) = i - 1
      /\ \A k \in 1..(i - 1) : SubSeq(q, 1, i - 1)[k] = q[k]
    BY <1>1
<1>3. /\ SubSeq(q, i + 1, n) \in Seq(Requests) /\ Len(SubSeq(q, i + 1, n)) = n - i
      /\ \A k \in 1..(n - i) : SubSeq(q, i + 1, n)[k] = q[k + i]
    BY <1>1
<1>4. /\ s \in Seq(Requests) /\ Len(s) = n - 1
      /\ \A k \in 1..(n - 1) : s[k] = IF k < i THEN q[k] ELSE q[k + 1]
    <2>1. s = SubSeq(q, 1, i - 1) \o SubSeq(q, i + 1, n)
        BY DEF RemoveAt
    <2>2. /\ s \in Seq(Requests) /\ Len(s) = (i - 1) + (n - i)
          /\ \A k \in 1..((i - 1) + (n - i)) :
                s[k] = IF k <= i - 1 THEN SubSeq(q, 1, i - 1)[k]
                                     ELSE SubSeq(q, i + 1, n)[k - (i - 1)]
        <3>1. PICK x \in Seq(Requests) : x = SubSeq(q, 1, i - 1) /\ Len(x) = i - 1
            BY <1>2
        <3>2. PICK y \in Seq(Requests) : y = SubSeq(q, i + 1, n) /\ Len(y) = n - i
            BY <1>3
        <3>3. /\ x \o y \in Seq(Requests) /\ Len(x \o y) = Len(x) + Len(y)
              /\ \A k \in 1..(Len(x) + Len(y)) :
                    (x \o y)[k] = IF k <= Len(x) THEN x[k] ELSE y[k - Len(x)]
            BY ConcatProperties
        <3> HIDE DEF s, n
        <3> QED
            BY <2>1, <3>1, <3>2, <3>3
    <2>3. ASSUME NEW k \in 1..(n - 1) PROVE s[k] = IF k < i THEN q[k] ELSE q[k + 1]
        <3>1. CASE k < i
            <4>1. k \in 1..(i - 1) /\ k \in 1..((i - 1) + (n - i)) /\ k <= i - 1
                BY <1>1, <3>1
            <4>2. s[k] = SubSeq(q, 1, i - 1)[k]
                BY <4>1, <2>2
            <4> QED
                BY <4>1, <4>2, <3>1, <1>2
        <3>2. CASE ~(k < i)
            <4>1. k - (i - 1) \in 1..(n - i) /\ k \in 1..((i - 1) + (n - i)) /\ ~(k <= i - 1)
                BY <1>1, <3>2
            <4>2. s[k] = SubSeq(q, i + 1, n)[k - (i - 1)]
                BY <4>1, <2>2
            <4>3. SubSeq(q, i + 1, n)[k - (i - 1)] = q[(k - (i - 1)) + i]
                BY <4>1, <1>3
            <4>4. (k - (i - 1)) + i = k + 1
                BY <1>1
            <4> QED
                BY <4>2, <4>3, <4>4, <3>2
        <3> QED
            BY <3>1, <3>2
    <2> QED
        BY <2>2, <2>3, <1>1
<1>5. DOMAIN s = 1..(n - 1)
    BY <1>1, <1>4
<1> HIDE DEF s
<1>6. \A k, l \in DOMAIN q : q[k] = q[l] => k = l
    BY DEF Queue, IsInjective
<1>7. IsInjective(s)
    <2> SUFFICES ASSUME NEW k \in 1..(n - 1), NEW l \in 1..(n - 1), s[k] = s[l] PROVE k = l
        BY <1>5 DEF IsInjective
    <2>1. k \in DOMAIN q /\ k + 1 \in DOMAIN q /\ l \in DOMAIN q /\ l + 1 \in DOMAIN q
        BY <1>1
    <2>2. /\ s[k] = (IF k < i THEN q[k] ELSE q[k + 1])
          /\ s[l] = (IF l < i THEN q[l] ELSE q[l + 1])
        BY <1>4
    <2>3. CASE k < i /\ l < i
        BY <2>1, <2>2, <2>3, <1>6
    <2>4. CASE k < i /\ ~(l < i)
        <3>1. k = l + 1
            BY <2>1, <2>2, <2>4, <1>6
        <3> QED
            BY <3>1, <2>4, <1>1
    <2>5. CASE ~(k < i) /\ l < i
        <3>1. k + 1 = l
            BY <2>1, <2>2, <2>5, <1>6
        <3> QED
            BY <3>1, <2>5, <1>1
    <2>6. CASE ~(k < i) /\ ~(l < i)
        <3>1. k + 1 = l + 1
            BY <2>1, <2>2, <2>6, <1>6
        <3> QED
            BY <3>1, <1>1
    <2> QED
        BY <2>3, <2>4, <2>5, <2>6
<1>8. ASSUME NEW x \in ToSet(s) PROVE x \in ToSet(q) \ {q[i]}
    <2>1. PICK k \in 1..(n - 1) : s[k] = x
        BY <1>5 DEF ToSet
    <2>2. k \in DOMAIN q /\ k + 1 \in DOMAIN q /\ s[k] = IF k < i THEN q[k] ELSE q[k + 1]
        BY <1>1, <1>4
    <2> QED
        BY <2>1, <2>2, <1>1, <1>6 DEF ToSet
<1>9. ASSUME NEW x \in ToSet(q), x # q[i] PROVE x \in ToSet(s)
    <2>1. PICK k \in DOMAIN q : q[k] = x
        BY DEF ToSet
    <2>2. CASE k < i
        <3>1. k \in 1..(n - 1) /\ s[k] = x
            BY <2>1, <2>2, <1>1, <1>4
        <3> QED
            BY <3>1, <1>5 DEF ToSet
    <2>3. CASE k > i
        <3>1. k - 1 \in 1..(n - 1) /\ ~(k - 1 < i) /\ (k - 1) + 1 = k
            BY <2>1, <2>3, <1>1
        <3>2. s[k - 1] = x
            BY <2>1, <3>1, <1>4
        <3> QED
            BY <3>1, <3>2, <1>5 DEF ToSet
    <2> QED
        BY <2>1, <2>2, <2>3, <1>1, <1>9
<1> QED
    BY <1>4, <1>7, <1>8, <1>9 DEF Queue, s

(***************************************************************************)
(* Sums                                                                    *)
(***************************************************************************)
OwnPart(f, r) == {r} \X (1..f[r])

OtherParts(f, r) == {u \in Units(f) : u[1] # r}

LEMMA UnitsMembers ==
    ASSUME NEW f \in [Requests -> Nat]
    PROVE  Units(f) = {u \in Requests \X Nat : u[2] \in 1..f[u[1]]}
<1>1. \A r \in Requests : f[r] \in Nat
    OBVIOUS
<1>2. ASSUME NEW u \in Units(f) PROVE u \in Requests \X Nat /\ u[2] \in 1..f[u[1]]
    <2>1. PICK r \in Requests : u \in {r} \X (1..f[r])
        BY DEF Units
    <2> QED
        BY <2>1, <1>1
<1>3. ASSUME NEW u \in Requests \X Nat, u[2] \in 1..f[u[1]] PROVE u \in Units(f)
    <2>1. u[1] \in Requests /\ u \in {u[1]} \X (1..f[u[1]])
        BY <1>3
    <2> QED
        BY <2>1 DEF Units
<1> QED
    BY <1>2, <1>3

LEMMA OwnUnits ==
    ASSUME NEW f \in [Requests -> Nat], NEW r \in Requests
    PROVE  IsFiniteSet(OwnPart(f, r)) /\ Cardinality(OwnPart(f, r)) = f[r]
<1> DEFINE g == [i \in 1..f[r] |-> <<r, i>>]
<1>1. f[r] \in Nat
    OBVIOUS
<1>2. IsFiniteSet(1..f[r]) /\ Cardinality(1..f[r]) = f[r]
    BY <1>1, FS_Interval
<1>3. g \in Bijection(1..f[r], OwnPart(f, r))
    <2>1. g \in [1..f[r] -> OwnPart(f, r)]
        BY DEF OwnPart
    <2>2. \A i, j \in 1..f[r] : g[i] = g[j] => i = j
        OBVIOUS
    <2>3. \A u \in OwnPart(f, r) : \E i \in 1..f[r] : g[i] = u
        BY DEF OwnPart
    <2> HIDE DEF g
    <2> QED
        BY <2>1, <2>2, <2>3 DEF Bijection, Injection, Surjection, IsInjective
<1>4. ExistsBijection(1..f[r], OwnPart(f, r))
    BY <1>3 DEF ExistsBijection
<1> QED
    BY <1>2, <1>4, FS_Bijection

LEMMA TotalFinite ==
    ASSUME NEW f \in [Requests -> Nat]
    PROVE  IsFiniteSet(Units(f)) /\ Total(f) \in Nat
<1> DEFINE Part(r) == {r} \X (1..f[r])
           parts == {Part(r) : r \in Requests}
<1>1. \A r \in Requests : IsFiniteSet(Part(r))
    BY OwnUnits DEF OwnPart
<1>2. IsFiniteSet(parts)
    <2> DEFINE part == [r \in Requests |-> Part(r)]
    <2>1. part \in Surjection(Requests, parts)
        BY DEF Surjection
    <2> QED
        BY <2>1, FiniteRequests, FS_Surjection
<1>3. \A p \in parts : IsFiniteSet(p)
    BY <1>1
<1>4. Units(f) = UNION parts
    BY DEF Units
<1> HIDE DEF parts
<1>5. IsFiniteSet(Units(f))
    BY <1>2, <1>3, <1>4, FS_UNION
<1> QED
    BY <1>5, FS_CardinalityType DEF Total

LEMMA TotalParts ==
    ASSUME NEW f \in [Requests -> Nat], NEW r \in Requests
    PROVE  /\ IsFiniteSet(OtherParts(f, r)) /\ Cardinality(OtherParts(f, r)) \in Nat
           /\ Total(f) = f[r] + Cardinality(OtherParts(f, r))
<1>1. Units(f) = OwnPart(f, r) \union OtherParts(f, r)
    BY UnitsMembers DEF OwnPart, OtherParts
<1>2. OwnPart(f, r) \intersect OtherParts(f, r) = {}
    BY DEF OwnPart, OtherParts
<1>3. OtherParts(f, r) \in SUBSET Units(f)
    BY DEF OtherParts
<1>4. IsFiniteSet(OtherParts(f, r))
    BY <1>3, TotalFinite, FS_Subset
<1>5. IsFiniteSet(OwnPart(f, r)) /\ Cardinality(OwnPart(f, r)) = f[r]
    BY OwnUnits
<1>6. Cardinality(OtherParts(f, r)) \in Nat
    BY <1>4, FS_CardinalityType
<1>7. Cardinality(Units(f)) =
          Cardinality(OwnPart(f, r)) + Cardinality(OtherParts(f, r))
          - Cardinality(OwnPart(f, r) \intersect OtherParts(f, r))
    BY <1>1, <1>4, <1>5, FS_Union
<1>8. Cardinality(OwnPart(f, r) \intersect OtherParts(f, r)) = 0
    BY <1>2, FS_EmptySet
<1>9. f[r] \in Nat
    OBVIOUS
<1>10. Cardinality(Units(f)) = f[r] + Cardinality(OtherParts(f, r))
    BY <1>5, <1>6, <1>7, <1>8, <1>9
<1> QED
    BY <1>4, <1>6, <1>10 DEF Total

\* One request's share is part of the sum, and the rest does not depend on it.
LEMMA TotalExcept ==
    ASSUME NEW f \in [Requests -> Nat], NEW r \in Requests, NEW n \in Nat
    PROVE  /\ Total(f) \in Nat /\ f[r] \in Nat /\ f[r] <= Total(f)
           /\ Total([f EXCEPT ![r] = n]) = (Total(f) - f[r]) + n
<1> DEFINE g == [f EXCEPT ![r] = n]
<1>1. g \in [Requests -> Nat] /\ g[r] = n /\ \A q \in Requests : q # r => g[q] = f[q]
    OBVIOUS
<1> HIDE DEF g
<1>2. OtherParts(g, r) = OtherParts(f, r)
    BY <1>1, UnitsMembers DEF OtherParts
<1>3. Total(f) = f[r] + Cardinality(OtherParts(f, r)) /\ Cardinality(OtherParts(f, r)) \in Nat
    BY TotalParts
<1>4. Total(g) = g[r] + Cardinality(OtherParts(f, r))
    BY <1>1, <1>2, TotalParts
<1>5. f[r] \in Nat
    OBVIOUS
<1> QED
    BY <1>1, <1>3, <1>4, <1>5 DEF g

LEMMA TotalZero == Zero \in [Requests -> Nat] /\ Total(Zero) = 0
<1>1. Zero \in [Requests -> Nat] /\ \A r \in Requests : Zero[r] = 0
    BY DEF Zero
<1>2. Units(Zero) = {}
    BY <1>1, UnitsMembers
<1> QED
    BY <1>1, <1>2, FS_EmptySet DEF Total

\* A smaller share of each makes a smaller sum.
LEMMA TotalSmaller ==
    ASSUME NEW f \in [Requests -> Nat], NEW g \in [Requests -> Nat],
           \A r \in Requests : g[r] <= f[r]
    PROVE  Total(g) <= Total(f)
<1>1. \A r \in Requests : f[r] \in Nat /\ g[r] \in Nat
    OBVIOUS
<1>2. Units(g) \in SUBSET Units(f)
    BY <1>1, UnitsMembers
<1> QED
    BY <1>2, TotalFinite, FS_Subset DEF Total

(***************************************************************************)
(* Blocks                                                                  *)
(***************************************************************************)
LEMMA BlockSizes == BlockSize \in Nat \ {0} /\ MaxModelLen \in Nat /\ NumBlocks \in Nat \ {0}
BY SchedulerAssumption

LEMMA Division ==
    ASSUME NEW n \in Int
    PROVE  /\ n \div BlockSize \in Int /\ n % BlockSize \in 0..(BlockSize - 1)
           /\ n = BlockSize * (n \div BlockSize) + (n % BlockSize)
           /\ n >= 0 => n \div BlockSize >= 0
BY BlockSizes

\* Multiples of the block size.
LEMMA Multiple ==
    ASSUME NEW k \in Int
    PROVE  (BlockSize * k) % BlockSize = 0 /\ (k * BlockSize) % BlockSize = 0
BY BlockSizes

LEMMA BlocksMonotone ==
    ASSUME NEW m \in Nat, NEW n \in Nat, m <= n
    PROVE  Blocks(m) \in Nat /\ Blocks(n) \in Nat /\ Blocks(m) <= Blocks(n) /\ Blocks(0) = 0
BY BlockSizes DEF Blocks

LEMMA MinMax ==
    ASSUME NEW a \in Int, NEW b \in Int
    PROVE  /\ Min({a, b}) = IF a <= b THEN a ELSE b
           /\ Max({a, b}) = IF a >= b THEN a ELSE b
BY DEF Min, Max

LEMMA MaxZero ==
    ASSUME NEW n \in Int
    PROVE  Max({n, 0}) = (IF n >= 0 THEN n ELSE 0) /\ Max({0, n}) = (IF n >= 0 THEN n ELSE 0)
BY DEF Max

LEMMA MinOfThree ==
    ASSUME NEW a \in Int, NEW b \in Int, NEW c \in Int
    PROVE  /\ Min({a, b, c}) \in {a, b, c}
           /\ Min({a, b, c}) <= a /\ Min({a, b, c}) <= b /\ Min({a, b, c}) <= c
BY DEF Min

LEMMA MultipleForm ==
    ASSUME NEW n \in Int
    PROVE  n % BlockSize = 0 <=> \E k \in Int : n = BlockSize * k
<1>1. ASSUME n % BlockSize = 0 PROVE \E k \in Int : n = BlockSize * k
    <2>1. n = BlockSize * (n \div BlockSize) + 0 /\ n \div BlockSize \in Int
        BY <1>1, Division
    <2>2. BlockSize * (n \div BlockSize) \in Int
        BY <2>1, BlockSizes
    <2> QED
        BY <2>1, <2>2
<1> QED
    BY <1>1, Multiple

LEMMA MultiplesAdd ==
    ASSUME NEW m \in Int, NEW n \in Int, m % BlockSize = 0, n % BlockSize = 0
    PROVE  (m + n) % BlockSize = 0 /\ (m - n) % BlockSize = 0
<1>1. PICK k \in Int : m = BlockSize * k
    BY MultipleForm
<1>2. PICK l \in Int : n = BlockSize * l
    BY MultipleForm
<1>3. m + n = BlockSize * (k + l) /\ m - n = BlockSize * (k - l)
    BY <1>1, <1>2, BlockSizes
<1> QED
    BY <1>3, MultipleForm

\* A number of tokens rounded down to whole blocks.
LEMMA RoundDown ==
    ASSUME NEW n \in Nat
    PROVE  /\ (n \div BlockSize) * BlockSize \in 0..n
           /\ ((n \div BlockSize) * BlockSize) % BlockSize = 0
           /\ n - (n % BlockSize) = (n \div BlockSize) * BlockSize
<1> DEFINE d == n \div BlockSize
<1>1. d \in Nat /\ n % BlockSize \in 0..(BlockSize - 1) /\ n = BlockSize * d + (n % BlockSize)
    BY Division
<1> HIDE DEF d
<1>2. d * BlockSize = BlockSize * d /\ d * BlockSize \in Nat
    BY <1>1, BlockSizes
<1>3. (d * BlockSize) % BlockSize = 0
    BY <1>1, Multiple
<1>4. d * BlockSize \in 0..n /\ n - (n % BlockSize) = d * BlockSize
    BY <1>1, <1>2
<1> QED
    BY <1>3, <1>4 DEF d

LEMMA LastBlock ==
    ASSUME NEW n \in Nat
    PROVE  LET whole == n - (n % BlockSize)
               last == IF Eagle THEN Max({whole - BlockSize, 0}) ELSE whole
           IN  last \in 0..n /\ last % BlockSize = 0
<1> DEFINE whole == n - (n % BlockSize)
           last == IF Eagle THEN Max({whole - BlockSize, 0}) ELSE whole
<1>1. whole \in 0..n /\ whole % BlockSize = 0
    BY RoundDown
<1> HIDE DEF whole
<1>2. whole - BlockSize \in Int /\ 0 % BlockSize = 0 /\ BlockSize % BlockSize = 0
    BY <1>1, BlockSizes
<1>3. (whole - BlockSize) % BlockSize = 0
    <2>1. whole \in Int /\ BlockSize \in Int
        BY <1>1, BlockSizes
    <2> QED
        BY <2>1, <1>1, <1>2, MultiplesAdd
<1>4. CASE Eagle
    <2>1. last = IF whole - BlockSize >= 0 THEN whole - BlockSize ELSE 0
        BY <1>2, <1>4, MaxZero
    <2> HIDE DEF last
    <2>2. last \in 0..n /\ last % BlockSize = 0
        BY <2>1, <1>1, <1>2, <1>3, BlockSizes
    <2> QED
        BY <2>2 DEF last, whole
<1>5. CASE ~Eagle
    BY <1>1, <1>5 DEF whole
<1> QED
    BY <1>4, <1>5

LEMMA LastPosition ==
    ASSUME NEW r, NumTokens(r) \in Nat
    PROVE  /\ LastCachePosition(r) \in 0..NumTokens(r)
           /\ LastCachePosition(r) % BlockSize = 0
BY LastBlock DEF LastCachePosition

\* A chunk is cut to at most what was asked for; one that starts on a block, before the
\* last cacheable position, ends on a block and not after that position.
LEMMA SplitChunk ==
    ASSUME NEW r, NumTokens(r) \in Nat, NEW n \in Nat, NEW from \in Nat
    PROVE  /\ Split(r, n, from) \in 0..n
           /\ Align /\ Prefilling(r, from) /\ from < LastCachePosition(r)
              /\ from % BlockSize = 0 =>
                 /\ (from + Split(r, n, from)) % BlockSize = 0
                 /\ from + Split(r, n, from) <= LastCachePosition(r)
<1> DEFINE last == LastCachePosition(r)
<1>1. last \in Nat /\ last % BlockSize = 0
    BY LastPosition
<1>2. /\ (n \div BlockSize) * BlockSize \in 0..n
      /\ ((n \div BlockSize) * BlockSize) % BlockSize = 0
    BY RoundDown
<1>3. Split(r, n, from) =
        IF ~Align \/ ~Prefilling(r, from) THEN n
        ELSE IF from + n < last THEN (n \div BlockSize) * BlockSize
        ELSE IF from < last /\ last < from + n THEN last - from
        ELSE n
    BY DEF Split
<1> DEFINE down == (n \div BlockSize) * BlockSize
<1> HIDE DEF last, down
<1>4. Split(r, n, from) \in 0..n
    <2>1. CASE ~Align \/ ~Prefilling(r, from)
        BY <1>3, <2>1
    <2>2. CASE Align /\ Prefilling(r, from) /\ from + n < last
        BY <1>2, <1>3, <2>2 DEF down
    <2>3. CASE Align /\ Prefilling(r, from) /\ ~(from + n < last)
        BY <1>1, <1>3, <2>3
    <2> QED
        BY <2>1, <2>2, <2>3
<1>5. ASSUME Align, Prefilling(r, from), from < last, from % BlockSize = 0
      PROVE  /\ (from + Split(r, n, from)) % BlockSize = 0
             /\ from + Split(r, n, from) <= last
    <2>1. CASE from + n < last
        <3>1. Split(r, n, from) = down
            BY <1>3, <1>5, <2>1 DEF down
        <3>2. down \in 0..n /\ down % BlockSize = 0
            BY <1>2 DEF down
        <3>3. (from + down) % BlockSize = 0
            BY <3>2, <1>5, MultiplesAdd
        <3> QED
            BY <3>1, <3>2, <3>3, <2>1, <1>1
    <2>2. CASE ~(from + n < last)
        <3>1. from + Split(r, n, from) = last
            BY <1>1, <1>3, <1>5, <2>2
        <3> QED
            BY <3>1, <1>1
    <2> QED
        BY <2>1, <2>2
<1> QED
    BY <1>4, <1>5 DEF last

LEMMA CappedBlocks ==
    ASSUME NEW m \in Nat, NEW n \in Nat, m <= n
    PROVE  /\ Blocks(Min({m, MaxModelLen})) \in Nat /\ Blocks(Min({n, MaxModelLen})) \in Nat
           /\ Blocks(Min({m, MaxModelLen})) <= Blocks(Min({n, MaxModelLen}))
           /\ m = 0 => Blocks(Min({m, MaxModelLen})) = 0
<1> DEFINE a == Min({m, MaxModelLen})
           b == Min({n, MaxModelLen})
<1>1. a \in Nat /\ b \in Nat /\ a <= b /\ (m = 0 => a = 0)
    BY BlockSizes, MinMax
<1> HIDE DEF a, b
<1>2. Blocks(a) \in Nat /\ Blocks(b) \in Nat /\ Blocks(a) <= Blocks(b) /\ (m = 0 => Blocks(a) = 0)
    BY <1>1, BlocksMonotone
<1> QED
    BY <1>2 DEF a, b

\* A request never gives blocks back by asking for more, and gets one for every token.
LEMMA NeededBlocks ==
    ASSUME NEW r, held[r] \in Nat, NEW from \in Nat, NEW n \in Nat, NEW look \in Nat
    PROVE  /\ Needed(r, from, n, look) \in Nat /\ Needed(r, from, n, look) >= held[r]
           /\ Needed(r, from, n, look) >= Blocks(Min({from + n, MaxModelLen}))
<1> DEFINE more == Blocks(Min({from + n + look, MaxModelLen}))
           less == Blocks(Min({from + n, MaxModelLen}))
           own == held[r]
<1>1. more \in Nat /\ less \in Nat /\ less <= more
    <2>1. from + n \in Nat /\ from + n + look \in Nat /\ from + n <= from + n + look
        OBVIOUS
    <2> QED
        BY <2>1, CappedBlocks
<1>2. Needed(r, from, n, look) = Max({own, more})
    BY DEF Needed
<1>3. own \in Nat
    OBVIOUS
<1> HIDE DEF more, less, own
<1>4. Needed(r, from, n, look) = IF own >= more THEN own ELSE more
    <2>1. own \in Int /\ more \in Int
        BY <1>1, <1>3
    <2>2. Max({own, more}) = IF own >= more THEN own ELSE more
        BY <2>1, MinMax
    <2> QED
        BY <2>2, <1>2
<1> QED
    BY <1>1, <1>3, <1>4 DEF less, own
=============================================================================
