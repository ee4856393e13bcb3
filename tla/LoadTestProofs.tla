--------------------------- MODULE LoadTestProofs ---------------------------
(***************************************************************************)
(* What holds of the clients for any concurrency, number of requests,      *)
(* lengths, samples and tokenizers: types (TypeCorrect), as many requests  *)
(* in flight as asked for (Bounded), an exit code that tells the truth     *)
(* (HonestExit), agent contexts that only grow (OwnContexts) and prompts   *)
(* as long as asked for (OneCorrection).                                   *)
(*                                                                         *)
(* The invariant counts: permits and requests in flight add up to the      *)
(* concurrency, and how many requests a task has made follows from its     *)
(* state and, for the bench client, from the trial.                        *)
(***************************************************************************)
EXTENDS LoadTest, FiniteSetTheorems, SequenceTheorems, TLAPS

(***************************************************************************)
(* Arithmetic                                                              *)
(***************************************************************************)

\* Rounding up a quotient.
LEMMA CeilDivBounds ==
    ASSUME NEW a \in Nat, NEW b \in Nat \ {0}
    PROVE  /\ CeilDiv(a, b) \in Nat
           /\ b * CeilDiv(a, b) >= a
           /\ b * CeilDiv(a, b) < a + b
BY DEF CeilDiv

LEMMA DivMod ==
    ASSUME NEW a \in Nat, NEW b \in Nat \ {0}
    PROVE  a \div b \in Nat /\ a % b \in 0..b - 1 /\ a = b * (a \div b) + (a % b)
OBVIOUS

\* Numbers less than b apart differ modulo b.
LEMMA ModDiffers ==
    ASSUME NEW a \in Nat, NEW b \in Nat \ {0}, NEW k \in 1..b - 1
    PROVE  (a + k) % b # a % b
<1> DEFINE p == (a + k) \div b
           q == a \div b
<1>1. p \in Nat /\ q \in Nat
    BY DivMod
<1>2. SUFFICES ASSUME (a + k) % b = a % b PROVE FALSE
    OBVIOUS
<1>3. a = b * q + (a % b) /\ a + k = b * p + ((a + k) % b)
    BY DivMod
<1>4. k = b * p - b * q
    BY <1>1, <1>2, <1>3, DivMod
<1> HIDE DEF p, q
<1>5. CASE p <= q
    <2>1. b * p <= b * q
        BY <1>1, <1>5
    <2> QED
        BY <1>1, <1>4, <2>1
<1>6. CASE p >= q + 1
    <2>1. b * p >= b * q + b
        BY <1>1, <1>6
    <2> QED
        BY <1>1, <1>4, <2>1
<1> QED
    BY <1>1, <1>5, <1>6

\* Turns, and requests of all streams together, of an agentic run.
LEMMA TurnsCounted ==
    /\ NumTurns \in Nat \ {0} /\ NumTurns <= Total
    /\ Ccu * NumTurns >= Total /\ Ccu * NumTurns < Total + Ccu
    /\ NumChunks \in Nat \ {0} /\ NumTurns <= NumChunks
<1>1. Ccu \in Nat \ {0} /\ Total \in Nat \ {0}
    BY LoadTestAssumption
<1> DEFINE c == CeilDiv(Total, Ccu)
<1>2. c \in Nat /\ Ccu * c >= Total /\ Ccu * c < Total + Ccu
    BY <1>1, CeilDivBounds
<1> HIDE DEF c
<1>3. c >= 1
    BY <1>1, <1>2
<1>4. c <= Total
    <2>1. SUFFICES ASSUME c >= Total + 1 PROVE FALSE
        BY <1>1, <1>2
    <2>2. Ccu * c >= Ccu * (Total + 1)
        BY <1>1, <1>2, <2>1
    <2>3. Ccu * Total >= Total
        BY <1>1
    <2>4. Ccu * (Total + 1) = Ccu * Total + Ccu
        BY <1>1
    <2> QED
        BY <1>1, <1>2, <2>2, <2>3, <2>4
<1>5. NumTurns = c
    BY <1>2, <1>3 DEF NumTurns, AtLeast, c
<1> QED
    BY <1>1, <1>2, <1>3, <1>4, <1>5 DEF NumChunks, AtLeast

(***************************************************************************)
(* Lengths and weights of texts are natural numbers                        *)
(***************************************************************************)

\* Tokens of a text without the template's, and of c characters of a sample.
Rate(k, w) == w \div k.unit
OfSample(k, s, c) == Rate(k, Weight(s, c))

LEMMA RateIs ==
    ASSUME NEW k \in Tokenizers, NEW w \in Nat
    PROVE  /\ Rate(k, w) \in Nat /\ Tokens(k, w) = k.template + Rate(k, w)
           /\ Tokens(k, w) \in Nat \ {0}
           /\ Rate(k, w) * k.unit <= w /\ w < (Rate(k, w) + 1) * k.unit
           /\ k.template \in Nat \ {0} /\ k.unit \in Nat \ {0}
<1>1. k.template \in Nat \ {0} /\ k.unit \in Nat \ {0}
    BY LoadTestAssumption
<1> DEFINE b == k.unit
<1>2. w \div b \in Nat /\ (w \div b) * b <= w /\ w < (w \div b + 1) * b
    <2> b \in Nat \ {0}
        BY <1>1
    <2> HIDE DEF b
    <2> QED
        OBVIOUS
<1> QED
    BY <1>1, <1>2 DEF Rate, Tokens

LEMMA SampleIs ==
    ASSUME NEW s \in Samples, NEW c \in Nat
    PROVE  /\ s.chars \in Nat \ {0} /\ s.rate \in Nat \ {0}
           /\ Weight(s, c) \in Nat /\ Weight(s, c) = c * s.rate
<1>1. s.chars \in Nat \ {0} /\ s.rate \in Nat \ {0}
    BY LoadTestAssumption
<1>2. c * s.rate \in Nat
    BY <1>1
<1> QED
    BY <1>1, <1>2 DEF Weight

LEMMA MeasuredIs ==
    ASSUME NEW k \in Tokenizers, NEW s \in Samples, NEW c \in Nat
    PROVE  /\ OfSample(k, s, c) \in Nat /\ Measured(k, s, c) = k.template + OfSample(k, s, c)
           /\ Measured(k, s, c) \in Nat \ {0}
           /\ OfSample(k, s, c) * k.unit <= c * s.rate
           /\ c * s.rate < (OfSample(k, s, c) + 1) * k.unit
           /\ k.template \in Nat \ {0} /\ s.rate \in Nat \ {0} /\ k.unit \in Nat \ {0}
           /\ s.rate <= k.unit
BY RateIs, SampleIs, TextAssumption DEF OfSample, Measured

LEMMA PerCopyPositive ==
    ASSUME NEW k \in Tokenizers, NEW s \in Samples
    PROVE  PerCopy(k, s) \in Nat \ {0} /\ Overhead(k, s) \in Nat
<1>1. s.chars \in Nat /\ 2 * s.chars \in Nat
    BY SampleIs
<1>2. Measured(k, s, s.chars) \in Nat \ {0} /\ Measured(k, s, 2 * s.chars) \in Nat \ {0}
    BY <1>1, MeasuredIs
<1>3. PerCopy(k, s) \in Nat \ {0}
    BY <1>2 DEF PerCopy
<1> QED
    BY <1>2, <1>3 DEF Overhead, AtLeast

LEMMA CopiesPositive ==
    ASSUME NEW k \in Tokenizers, NEW s \in Samples, NEW need \in Int
    PROVE  Copies(k, s, need) \in Nat \ {0}
<1>1. AtLeast(1, need) \in Nat
    BY DEF AtLeast
<1>2. CeilDiv(AtLeast(1, need), PerCopy(k, s)) \in Nat
    BY <1>1, PerCopyPositive, CeilDivBounds
<1> QED
    BY <1>2 DEF Copies, AtLeast

\* calibrate_prefix returns a text.
LEMMA PrefixIsText ==
    ASSUME NEW k \in Tokenizers, NEW s \in Samples, NEW n \in Nat
    PROVE  /\ CalibratePrefix(k, s, n) \in Nat
           /\ Weight(s, CalibratePrefix(k, s, n)) \in Nat
<1>1. s.chars \in Nat
    BY SampleIs
<1>2. Measured(k, s, s.chars) \in Nat \ {0}
    BY <1>1, MeasuredIs
<1>3. Trimmed(k, s, n) \in Nat
    <2>1. s.chars * n \in Nat
        BY <1>1
    <2>2. (s.chars * n) \div Measured(k, s, s.chars) \in Nat
        BY <1>2, <2>1, DivMod
    <2> QED
        BY <1>1, <2>2 DEF Trimmed, AtLeast
<1>4. Scaled(k, s, n) \in Nat
    <2> DEFINE body == s.chars * Copies(k, s, n - Overhead(k, s))
    <2>1. Overhead(k, s) \in Nat
        BY PerCopyPositive
    <2>2. body \in Nat
        <3>1. n - Overhead(k, s) \in Int
            BY <2>1
        <3>2. Copies(k, s, n - Overhead(k, s)) \in Nat
            BY <3>1, CopiesPositive
        <3> QED
            BY <1>1, <3>2
    <2>3. Measured(k, s, body) \in Nat \ {0}
        BY <2>2, MeasuredIs
    <2> HIDE DEF body
    <2>4. body * n \in Nat
        BY <2>2
    <2>5. (body * n) \div Measured(k, s, body) \in Nat
        BY <2>3, <2>4, DivMod
    <2>6. ScaleText(s, (body * n) \div Measured(k, s, body)) \in Nat
        BY <1>1, <2>5 DEF ScaleText, AtLeast
    <2> QED
        BY <2>2, <2>6 DEF Scaled, body
<1>5. CalibratePrefix(k, s, n) \in Nat
    BY <1>3, <1>4 DEF CalibratePrefix
<1> QED
    BY <1>5, SampleIs

\* calibrate_prompt returns a text.
LEMMA PromptIsText ==
    ASSUME NEW k \in Tokenizers, NEW s \in Samples, NEW n \in Nat, NEW b \in Nat
    PROVE  CalibratePrompt(k, s, n, b) \in Nat
<1> DEFINE had == IF b > 0 THEN Tokens(k, b) ELSE 0
           once == IF b > 0 THEN 0 ELSE Overhead(k, s)
           more == s.chars * Copies(k, s, n - had - once)
           all == Tokens(k, b + Weight(s, more))
<1>0. s.chars \in Nat
    BY SampleIs
<1>1. had \in Nat
    BY RateIs
<1>2. once \in Nat
    BY PerCopyPositive
<1>3. more \in Nat
    <2>1. n - had - once \in Int
        BY <1>1, <1>2
    <2> HIDE DEF had, once
    <2>2. Copies(k, s, n - had - once) \in Nat
        BY <2>1, CopiesPositive
    <2> QED
        BY <1>0, <2>2
<1>4. all \in Nat
    <2> HIDE DEF more
    <2>1. b + Weight(s, more) \in Nat
        BY <1>3, SampleIs
    <2> QED
        BY <2>1, RateIs
<1>5. AtLeast(1, n - had) \in Nat /\ AtLeast(1, all - had) \in Nat \ {0}
    BY <1>1, <1>4 DEF AtLeast
<1>6. more * AtLeast(1, n - had) \in Nat
    BY <1>3, <1>5
<1>7. (more * AtLeast(1, n - had)) \div AtLeast(1, all - had) \in Nat
    BY <1>5, <1>6, DivMod
<1>8. Extra(k, s, n, b) =
        IF Near(all, n) THEN more
        ELSE AtLeast(s.chars, (more * AtLeast(1, n - had)) \div AtLeast(1, all - had))
    BY DEF Extra
<1> HIDE DEF had, once, more, all
<1>9. Extra(k, s, n, b) \in Nat
    BY <1>0, <1>3, <1>7, <1>8 DEF AtLeast
<1>10. Weight(s, Extra(k, s, n, b)) \in Nat
    BY <1>9, SampleIs
<1> QED
    BY <1>10 DEF CalibratePrompt

(***************************************************************************)
(* How long the calibrated texts are                                       *)
(***************************************************************************)

\* Comparing products.
LEMMA LessOfProducts ==
    ASSUME NEW x \in Int, NEW y \in Int, NEW z \in Nat \ {0}, x * z < y * z
    PROVE  x < y
OBVIOUS

LEMMA ProductsGrow ==
    ASSUME NEW x \in Int, NEW y \in Int, NEW z \in Nat, x <= y
    PROVE  x * z <= y * z
OBVIOUS

LEMMA Regrouped ==
    ASSUME NEW x \in Int, NEW y \in Int, NEW z \in Int
    PROVE  (x * y) * z = (x * z) * y /\ (x * y) * z = (y * z) * x
OBVIOUS

LEMMA Spread ==
    ASSUME NEW x \in Int, NEW y \in Int, NEW z \in Int
    PROVE  (x + y) * z = x * z + y * z /\ (x - y) * z = x * z - y * z
OBVIOUS

\* Heavier texts have more tokens, and two together as many as both, or one more.
LEMMA RateGrows ==
    ASSUME NEW k \in Tokenizers, NEW v \in Nat, NEW w \in Nat
    PROVE  /\ v <= w => Rate(k, v) <= Rate(k, w)
           /\ Rate(k, v + w) \in Rate(k, v) + Rate(k, w)..Rate(k, v) + Rate(k, w) + 1
<1> DEFINE b == k.unit
           rv == Rate(k, v)
           rw == Rate(k, w)
           rs == Rate(k, v + w)
<1>1. b \in Nat \ {0} /\ rv \in Nat /\ rw \in Nat /\ rs \in Nat
    BY RateIs
<1>2. /\ rv * b <= v /\ v < (rv + 1) * b /\ rw * b <= w /\ w < (rw + 1) * b
      /\ rs * b <= v + w /\ v + w < (rs + 1) * b
    BY RateIs
<1> HIDE DEF b, rv, rw, rs
<1>3. ASSUME v <= w PROVE rv <= rw
    <2>1. rv * b < (rw + 1) * b
        BY <1>1, <1>2, <1>3
    <2>2. rv < rw + 1
        BY <1>1, <2>1, LessOfProducts
    <2> QED
        BY <1>1, <2>2
<1>4. rv + rw < rs + 1
    <2>1. (rv + rw) * b = rv * b + rw * b
        BY <1>1
    <2>2. (rv + rw) * b < (rs + 1) * b
        BY <1>1, <1>2, <2>1
    <2> QED
        BY <1>1, <2>2, LessOfProducts
<1>5. rs < rv + rw + 2
    <2>1. (rv + rw + 2) * b = (rv + 1) * b + (rw + 1) * b
        BY <1>1
    <2>2. rs * b < (rv + rw + 2) * b
        BY <1>1, <1>2, <2>1
    <2> QED
        BY <1>1, <2>2, LessOfProducts
<1>6. rs \in rv + rw..rv + rw + 1
    BY <1>1, <1>4, <1>5
<1> QED
    BY <1>3, <1>6 DEF rv, rw, rs

\* More of a sample has more tokens.
LEMMA SampleGrows ==
    ASSUME NEW k \in Tokenizers, NEW s \in Samples, NEW c \in Nat, NEW d \in Nat
    PROVE  /\ c <= d => /\ Weight(s, c) <= Weight(s, d)
                        /\ OfSample(k, s, c) <= OfSample(k, s, d)
           /\ OfSample(k, s, c + d) \in
                  OfSample(k, s, c) + OfSample(k, s, d)..OfSample(k, s, c) + OfSample(k, s, d) + 1
<1>1. /\ Weight(s, c) \in Nat /\ Weight(s, c) = c * s.rate /\ s.rate \in Nat
      /\ Weight(s, d) \in Nat /\ Weight(s, d) = d * s.rate
    BY SampleIs
<1>2. c <= d => Weight(s, c) <= Weight(s, d)
    BY <1>1, ProductsGrow
<1>3. Weight(s, c + d) = Weight(s, c) + Weight(s, d)
    <2>1. Weight(s, c + d) = (c + d) * s.rate
        BY DEF Weight
    <2> QED
        BY <1>1, <2>1, Spread
<1> QED
    BY <1>1, <1>2, <1>3, RateGrows DEF OfSample

LEMMA LessThanSample ==
    ASSUME NEW k \in Tokenizers, NEW s \in Samples, NEW c \in Nat, c < s.chars
    PROVE  OfSample(k, s, c) <= OfSample(k, s, s.chars)
<1> DEFINE d == s.chars
<1>1. d \in Nat /\ c <= d
    BY SampleIs
<1> HIDE DEF d
<1>2. OfSample(k, s, c) <= OfSample(k, s, d)
    BY <1>1, SampleGrows
<1> QED
    BY <1>2 DEF d

\* Scaling L characters of a sample, n tokens by the count of the one who scales, to t
\* tokens: what the result has lies close to the tokens of L scaled by t / n.
LEMMA Corrected ==
    ASSUME NEW k \in Tokenizers, NEW s \in Samples, NEW L \in Nat, NEW t \in Nat \ {0},
           NEW n \in Nat \ {0}
    PROVE  LET c == (L * t) \div n
           IN  /\ c \in Nat
               /\ OfSample(k, s, c) * n < (OfSample(k, s, L) + 1) * t
               /\ OfSample(k, s, L) * t < (OfSample(k, s, c) + 2) * n
<1> DEFINE a == s.rate
           b == k.unit
           y == L * t
           c == y \div n
           l == OfSample(k, s, L)
           r == OfSample(k, s, c)
<1>1. y \in Nat
    OBVIOUS
<1>2. c \in Nat /\ c * n <= y /\ y < (c + 1) * n
    <2> HIDE DEF y
    <2> QED
        BY <1>1
<1>3. /\ a \in Nat \ {0} /\ b \in Nat \ {0} /\ a <= b /\ l \in Nat
      /\ l * b <= L * a /\ L * a < (l + 1) * b
    BY MeasuredIs
<1>4. r \in Nat /\ r * b <= c * a /\ c * a < (r + 1) * b
    <2> HIDE DEF c
    <2> QED
        BY <1>2, MeasuredIs
<1> HIDE DEF a, b, c, l, r
<1>5. r * n < (l + 1) * t
    <2>1. (r * b) * n <= (c * a) * n
        BY <1>2, <1>3, <1>4, ProductsGrow
    <2>2. (c * n) * a <= y * a
        BY <1>1, <1>2, <1>3, ProductsGrow
    <2>3. (L * a) * t < ((l + 1) * b) * t
        <3> DEFINE u == L * a
                   v == (l + 1) * b
        <3>1. u \in Int /\ v \in Int /\ u + 1 <= v
            BY <1>3
        <3> HIDE DEF u, v
        <3>2. (u + 1) * t <= v * t
            BY <3>1, ProductsGrow
        <3>3. (u + 1) * t = u * t + t
            BY <3>1
        <3>4. u * t \in Int /\ v * t \in Int
            BY <3>1
        <3> QED
            BY <3>2, <3>3, <3>4 DEF u, v
    <2>4. /\ (r * b) * n = (r * n) * b /\ (c * a) * n = (c * n) * a
          /\ y * a = (L * a) * t /\ ((l + 1) * b) * t = ((l + 1) * t) * b
        BY <1>2, <1>3, <1>4, Regrouped
    <2>5. /\ (r * n) * b \in Int /\ (c * n) * a \in Int /\ y * a \in Int
          /\ ((l + 1) * t) * b \in Int /\ r * n \in Int /\ (l + 1) * t \in Int
        BY <1>1, <1>2, <1>3, <1>4
    <2>6. (r * n) * b < ((l + 1) * t) * b
        BY <2>1, <2>2, <2>3, <2>4, <2>5
    <2> QED
        BY <1>3, <2>5, <2>6, LessOfProducts
<1>6. l * t < (r + 2) * n
    <2>1. (c * a) * n <= ((r + 1) * b) * n
        BY <1>2, <1>3, <1>4, ProductsGrow
    <2>2. (y - n) * a < (c * n) * a
        <3>1. y - n < c * n
            BY <1>1, <1>2
        <3> DEFINE u == y - n
                   v == c * n
        <3>2. u \in Int /\ v \in Int /\ u + 1 <= v
            BY <1>1, <1>2, <3>1
        <3> HIDE DEF u, v
        <3>3. (u + 1) * a <= v * a
            BY <1>3, <3>2, ProductsGrow
        <3>4. (u + 1) * a = u * a + a /\ u * a \in Int /\ v * a \in Int
            BY <1>3, <3>2
        <3> QED
            BY <1>3, <3>3, <3>4 DEF u, v
    <2>3. (l * b) * t <= (L * a) * t
        BY <1>3, ProductsGrow
    <2>4. n * a <= n * b
        BY <1>3
    <2>5. (y - n) * a = y * a - n * a
        BY <1>1, <1>3, Spread
    <2>6. /\ (c * a) * n = (c * n) * a /\ ((r + 1) * b) * n = ((r + 1) * n) * b
          /\ y * a = (L * a) * t /\ (l * b) * t = (l * t) * b
        BY <1>2, <1>3, <1>4, Regrouped
    <2>7. ((r + 2) * n) * b = ((r + 1) * n) * b + n * b
        <3>1. (r + 2) * n = (r + 1) * n + n
            BY <1>4
        <3> DEFINE w == (r + 1) * n
        <3>2. w \in Int
            BY <1>4
        <3> HIDE DEF w
        <3>3. (w + n) * b = w * b + n * b
            BY <1>3, <3>2
        <3> QED
            BY <3>1, <3>3 DEF w
    <2>8. /\ ((r + 1) * n) * b \in Int /\ (c * n) * a \in Int /\ y * a \in Int
          /\ (l * t) * b \in Int
          /\ n * a \in Int /\ n * b \in Int /\ l * t \in Int /\ (r + 2) * n \in Int
        BY <1>1, <1>2, <1>3, <1>4
    <2>9. (l * t) * b < ((r + 2) * n) * b
        BY <2>1, <2>2, <2>3, <2>4, <2>5, <2>6, <2>7, <2>8
    <2> QED
        BY <1>3, <2>8, <2>9, LessOfProducts
<1> QED
    BY <1>2, <1>5, <1>6 DEF c, l, r

\* Copies of a sample reach what they are made for, in tokens, at least by half, and what
\* is counted once is no more than the template.
LEMMA CopiesReach ==
    ASSUME NEW k \in Tokenizers, NEW s \in Samples, NEW need \in Int
    PROVE  LET L == s.chars * Copies(k, s, need)
           IN  /\ L \in Nat \ {0} /\ OfSample(k, s, L) \in Nat \ {0}
               /\ need <= 2 * OfSample(k, s, L)
               /\ Overhead(k, s) \in 0..k.template
<1> DEFINE b == k.unit
           S == OfSample(k, s, s.chars)
           p == PerCopy(k, s)
           m == Copies(k, s, need)
           L == s.chars * m
           l == OfSample(k, s, L)
<1>1. s.chars \in Nat \ {0} /\ s.chars * s.rate >= k.unit
    BY LoadTestAssumption, TextAssumption
<1>2. /\ S \in Nat /\ Measured(k, s, s.chars) = k.template + S /\ S * b <= s.chars * s.rate
      /\ s.chars * s.rate < (S + 1) * b /\ b \in Nat \ {0} /\ k.template \in Nat \ {0}
      /\ s.rate \in Nat
    BY <1>1, MeasuredIs
<1>3. S >= 1
    <2>1. 1 * b < (S + 1) * b
        BY <1>1, <1>2
    <2> HIDE DEF S, b
    <2>2. 1 < S + 1
        BY <1>2, <2>1, LessOfProducts
    <2> QED
        BY <1>2, <2>2
<1>4. p \in S..S + 1
    <2>1. OfSample(k, s, 2 * s.chars) \in S + S..S + S + 1
        <3> DEFINE d == s.chars
        <3>1. d \in Nat /\ d + d = 2 * d
            BY <1>1
        <3> HIDE DEF d
        <3>2. OfSample(k, s, d + d) \in OfSample(k, s, d) + OfSample(k, s, d)
                                       ..OfSample(k, s, d) + OfSample(k, s, d) + 1
            BY <3>1, SampleGrows
        <3> QED
            BY <3>1, <3>2 DEF d
    <2>2. /\ Measured(k, s, 2 * s.chars) = k.template + OfSample(k, s, 2 * s.chars)
          /\ OfSample(k, s, 2 * s.chars) \in Nat
        BY <1>1, MeasuredIs
    <2> HIDE DEF S
    <2>3. Measured(k, s, 2 * s.chars) - Measured(k, s, s.chars) \in S..S + 1
        BY <1>2, <2>1, <2>2
    <2> QED
        BY <1>2, <1>3, <2>3 DEF PerCopy
<1>5. Overhead(k, s) \in 0..k.template
    <2> HIDE DEF S, p
    <2>1. Measured(k, s, s.chars) - p <= k.template
        BY <1>2, <1>4
    <2> QED
        BY <1>2, <1>4, <2>1 DEF Overhead, AtLeast, p
<1>6. m \in Nat \ {0} /\ p * m >= need
    <2> DEFINE want == AtLeast(1, need)
    <2>1. want \in Nat /\ want >= need
        BY DEF AtLeast
    <2>2. p \in Nat \ {0}
        BY <1>1, PerCopyPositive
    <2> HIDE DEF want, p
    <2>3. CeilDiv(want, p) \in Nat /\ p * CeilDiv(want, p) >= want
        BY <2>1, <2>2, CeilDivBounds
    <2>4. m = AtLeast(1, CeilDiv(want, p))
        BY DEF Copies, want, p
    <2> DEFINE q == CeilDiv(want, p)
    <2>5. q \in Nat /\ m \in Nat \ {0} /\ q <= m
        BY <2>3, <2>4 DEF AtLeast
    <2> HIDE DEF q, m
    <2>6. p * q <= p * m
        BY <2>2, <2>5
    <2>7. p * q \in Int /\ p * m \in Int
        BY <2>2, <2>5
    <2> QED
        BY <2>1, <2>3, <2>5, <2>6, <2>7 DEF q
<1> HIDE DEF m
<1>7. L \in Nat \ {0}
    BY <1>1, <1>6
<1>8. l \in Nat /\ L * s.rate < (l + 1) * b
    BY <1>7, MeasuredIs
<1> HIDE DEF S, p, l, b
<1>9. S * m <= l
    <2>1. (S * b) * m <= (s.chars * s.rate) * m
        BY <1>1, <1>2, <1>6, ProductsGrow
    <2>2. (S * b) * m = (S * m) * b /\ (s.chars * s.rate) * m = (s.chars * m) * s.rate
        BY <1>1, <1>2, <1>6, Regrouped
    <2>3. /\ (S * m) * b \in Int /\ S * m \in Int /\ L * s.rate \in Int
          /\ (l + 1) * b \in Int
        BY <1>1, <1>2, <1>6, <1>7, <1>8
    <2>4. (S * m) * b < (l + 1) * b
        BY <1>8, <2>1, <2>2, <2>3
    <2>5. S * m < l + 1
        BY <1>2, <1>8, <2>3, <2>4, LessOfProducts
    <2> QED
        BY <1>8, <2>3, <2>5
<1>10. p * m <= 2 * (S * m)
    <2>1. p <= 2 * S /\ p \in Int
        BY <1>2, <1>3, <1>4
    <2>2. p * m <= (2 * S) * m
        BY <1>2, <1>6, <2>1, ProductsGrow
    <2>3. (2 * S) * m = 2 * (S * m)
        BY <1>2, <1>6
    <2> QED
        BY <2>2, <2>3
<1>11. S * m >= 1
    BY <1>2, <1>3, <1>6
<1>12. S * m \in Int /\ p * m \in Int
    BY <1>2, <1>4, <1>6
<1>13. need <= 2 * l /\ l >= 1
    BY <1>6, <1>8, <1>9, <1>10, <1>11, <1>12
<1> QED
    BY <1>5, <1>7, <1>8, <1>13 DEF l, m

\* The tokens a text may be away from the target.
SlackFor(k, t) == AtLeast(Tolerance(t), k.template + 1)
Within(k, t, w) == Distance(Tokens(k, w), t) <= SlackFor(k, t)

LEMMA SlackIs ==
    ASSUME NEW k \in Tokenizers, NEW t \in Nat
    PROVE  /\ Tolerance(t) \in Nat /\ Tolerance(t) >= 64
           /\ SlackFor(k, t) \in Nat /\ SlackFor(k, t) >= Tolerance(t)
           /\ SlackFor(k, t) >= k.template + 1
<1>1. t \div 100 \in Nat /\ k.template \in Nat
    BY LoadTestAssumption, DivMod
<1> QED
    BY <1>1 DEF SlackFor, Tolerance, AtLeast

\* What is on target, in numbers.
LEMMA WithinIs ==
    ASSUME NEW k \in Tokenizers, NEW t \in Nat, NEW w \in Nat
    PROVE  /\ Tokens(k, w) \in Nat
           /\ Within(k, t, w) <=> /\ Tokens(k, w) <= t + SlackFor(k, t)
                                  /\ Tokens(k, w) >= t - SlackFor(k, t)
           /\ Near(Tokens(k, w), t) => Within(k, t, w) /\ Tokens(k, w) >= t - SlackFor(k, t)
<1>1. Tokens(k, w) \in Nat
    BY RateIs
<1> QED
    BY <1>1, SlackIs DEF Within, Near, Distance

LEMMA SampleWithin ==
    ASSUME NEW k \in Tokenizers, NEW s \in Samples, NEW t \in Nat, NEW c \in Nat
    PROVE  LET w == Weight(s, c)
           IN  /\ Measured(k, s, c) \in Nat
               /\ Within(k, t, w) <=> /\ Measured(k, s, c) <= t + SlackFor(k, t)
                                      /\ Measured(k, s, c) >= t - SlackFor(k, t)
               /\ Near(Measured(k, s, c), t) =>
                      Within(k, t, w) /\ Measured(k, s, c) >= t - SlackFor(k, t)
BY SampleIs, WithinIs DEF Measured

\* One correction of a text with half the tokens or more: off by the template at most.
LEMMA CorrectionAims ==
    ASSUME NEW k \in Tokenizers, NEW s \in Samples, NEW L \in Nat, NEW t \in Nat \ {0},
           t <= 2 * Measured(k, s, L)
    PROVE  LET c == (L * t) \div Measured(k, s, L)
           IN  /\ c \in Nat /\ Measured(k, s, c) < t + k.template
               /\ Measured(k, s, c) >= t - k.template - 1
<1> DEFINE n == Measured(k, s, L)
           T == k.template
           l == OfSample(k, s, L)
           c == (L * t) \div n
           r == OfSample(k, s, c)
<1>1. n = T + l /\ T \in Nat \ {0} /\ l \in Nat /\ n \in Nat \ {0}
    BY MeasuredIs
<1>2. c \in Nat /\ r * n < (l + 1) * t /\ l * t < (r + 2) * n
    <2> HIDE DEF n
    <2> QED
        BY <1>1, Corrected
<1>3. Measured(k, s, c) = T + r /\ r \in Nat
    <2> HIDE DEF c
    <2> QED
        BY <1>2, MeasuredIs
<1> HIDE DEF n, T, l, c, r
<1>4. r < t
    <2>1. (l + 1) * t <= n * t
        BY <1>1, ProductsGrow
    <2>2. /\ r * n \in Int /\ (l + 1) * t \in Int /\ n * t \in Int /\ t * n \in Int
          /\ n * t = t * n
        BY <1>1, <1>3
    <2>3. r * n < t * n
        BY <1>2, <2>1, <2>2
    <2> QED
        BY <1>1, <1>3, <2>3, LessOfProducts
<1>5. t - 2 * T < r + 2
    <2>1. t * T <= (2 * n) * T
        BY <1>1, ProductsGrow DEF n
    <2>2. (t - 2 * T) * n = t * n - (2 * T) * n
        BY <1>1, Spread
    <2>3. /\ (2 * T) * n = (2 * n) * T /\ t * n = t * T + l * t
          /\ t * n \in Int /\ t * T \in Int /\ l * t \in Int /\ (2 * T) * n \in Int
          /\ (r + 2) * n \in Int /\ (t - 2 * T) * n \in Int
        BY <1>1, <1>3
    <2>4. (t - 2 * T) * n < (r + 2) * n
        BY <1>2, <2>1, <2>2, <2>3
    <2> QED
        BY <1>1, <1>3, <2>4, LessOfProducts
<1>6. T + r < t + T /\ T + r >= t - T - 1
    BY <1>1, <1>3, <1>4, <1>5
<1> QED
    BY <1>2, <1>3, <1>6 DEF n, T, c

\* A sample that is no longer than the target does no harm.
LEMMA SampleAims ==
    ASSUME NEW k \in Tokenizers, NEW s \in Samples, NEW t \in Nat, NEW c \in Nat,
           Within(k, t, Weight(s, c)), Measured(k, s, s.chars) <= t
    PROVE  Within(k, t, Weight(s, AtLeast(s.chars, c)))
<1>0. s.chars \in Nat
    BY SampleIs
<1>1. CASE c < s.chars
    <2>1. OfSample(k, s, c) <= OfSample(k, s, s.chars)
        BY <1>1, LessThanSample
    <2>2. Measured(k, s, c) <= Measured(k, s, s.chars)
        BY <1>0, <2>1, MeasuredIs
    <2>3. AtLeast(s.chars, c) = s.chars
        BY <1>1 DEF AtLeast
    <2>4. /\ Measured(k, s, c) \in Nat /\ Measured(k, s, s.chars) \in Nat
          /\ SlackFor(k, t) \in Nat /\ Measured(k, s, c) >= t - SlackFor(k, t)
        BY <1>0, SampleWithin, SlackIs
    <2>5. /\ Measured(k, s, s.chars) <= t + SlackFor(k, t)
          /\ Measured(k, s, s.chars) >= t - SlackFor(k, t)
        BY <2>2, <2>4
    <2>6. Within(k, t, Weight(s, s.chars))
        BY <1>0, <2>5, SampleWithin
    <2> QED
        BY <2>3, <2>6
<1>2. CASE ~(c < s.chars)
    BY <1>2 DEF AtLeast
<1> QED
    BY <1>1, <1>2

\* calibrate_prefix's result is on target.
LEMMA PrefixAims ==
    ASSUME NEW k \in Tokenizers, NEW s \in Samples, NEW t \in Targets
    PROVE  Within(k, t, Weight(s, CalibratePrefix(k, s, t)))
<1>1. s.chars \in Nat \ {0} /\ t \in Nat \ {0} /\ k.template \in Nat \ {0}
    BY LoadTestAssumption
<1>2. /\ Tolerance(t) \in Nat /\ SlackFor(k, t) \in Nat /\ SlackFor(k, t) >= Tolerance(t)
      /\ SlackFor(k, t) >= k.template + 1
    BY <1>1, SlackIs
<1>3. Measured(k, s, s.chars) \in Nat \ {0}
    BY <1>1, MeasuredIs
<1>4. ASSUME Measured(k, s, s.chars) >= t - Tolerance(t)
      PROVE  Within(k, t, Weight(s, Trimmed(k, s, t)))
    <2>1. CASE Measured(k, s, s.chars) <= t + Tolerance(t)
        BY <1>1, <1>2, <1>3, <1>4, <2>1, SampleWithin DEF Trimmed
    <2>2. CASE ~(Measured(k, s, s.chars) <= t + Tolerance(t))
        <3> DEFINE c == (s.chars * t) \div Measured(k, s, s.chars)
        <3>1. Trimmed(k, s, t) = AtLeast(1, c)
            BY <2>2 DEF Trimmed
        <3>2. t <= 2 * Measured(k, s, s.chars)
            BY <1>1, <1>2, <1>3, <2>2
        <3>3. /\ c \in Nat /\ Measured(k, s, c) < t + k.template
              /\ Measured(k, s, c) >= t - k.template - 1
            BY <1>1, <3>2, CorrectionAims
        <3> HIDE DEF c
        <3>4. Within(k, t, Weight(s, c))
            BY <1>1, <1>2, <3>3, SampleWithin
        <3>5. CASE c >= 1
            BY <3>1, <3>3, <3>4, <3>5 DEF AtLeast
        <3>6. CASE c = 0
            <4>1. /\ OfSample(k, s, 0) <= OfSample(k, s, 1) /\ OfSample(k, s, 1) \in Nat
                  /\ OfSample(k, s, 0) \in Nat
                BY SampleGrows, MeasuredIs
            <4>2. OfSample(k, s, 1) <= 1
                <5> DEFINE r == OfSample(k, s, 1)
                <5>1. /\ r \in Nat /\ r * k.unit <= 1 * s.rate /\ s.rate <= k.unit
                      /\ k.unit \in Nat \ {0} /\ s.rate \in Nat \ {0}
                    BY MeasuredIs
                <5> HIDE DEF r
                <5>2. r * k.unit < 2 * k.unit
                    BY <5>1
                <5>3. r < 2
                    BY <5>1, <5>2, LessOfProducts
                <5> QED
                    BY <5>1, <5>3 DEF r
            <4>3. /\ Measured(k, s, 0) <= Measured(k, s, 1)
                  /\ Measured(k, s, 1) <= k.template + 1 /\ Measured(k, s, 1) \in Nat
                BY <1>1, <4>1, <4>2, MeasuredIs
            <4>4. Within(k, t, Weight(s, 1))
                BY <1>1, <1>2, <3>4, <3>6, <4>3, SampleWithin
            <4> QED
                BY <3>1, <3>6, <4>4 DEF AtLeast
        <3> QED
            BY <3>3, <3>5, <3>6
    <2> QED
        BY <2>1, <2>2
<1>5. ASSUME Measured(k, s, s.chars) < t
      PROVE  Within(k, t, Weight(s, Scaled(k, s, t)))
    <2> DEFINE need == t - Overhead(k, s)
               L == s.chars * Copies(k, s, need)
    <2>1. Overhead(k, s) \in Nat /\ need \in Int
        BY <1>1, PerCopyPositive
    <2>2. /\ L \in Nat \ {0} /\ OfSample(k, s, L) \in Nat /\ need <= 2 * OfSample(k, s, L)
          /\ Overhead(k, s) <= k.template
        <3> HIDE DEF need
        <3> QED
            BY <1>1, <2>1, CopiesReach
    <2>3. CASE Near(Measured(k, s, L), t)
        <3>1. Scaled(k, s, t) = L
            BY <2>3 DEF Scaled
        <3> HIDE DEF L
        <3> QED
            BY <1>1, <2>2, <2>3, <3>1, SampleWithin
    <2>4. CASE ~Near(Measured(k, s, L), t)
        <3> DEFINE c == (L * t) \div Measured(k, s, L)
        <3>1. Scaled(k, s, t) = AtLeast(s.chars, c)
            BY <2>4 DEF Scaled, ScaleText
        <3>2. t <= 2 * Measured(k, s, L)
            <4> HIDE DEF L
            <4>1. Measured(k, s, L) = k.template + OfSample(k, s, L)
                BY <2>2, MeasuredIs
            <4> QED
                BY <1>1, <2>1, <2>2, <4>1
        <3> HIDE DEF L
        <3>3. /\ c \in Nat /\ Measured(k, s, c) < t + k.template
              /\ Measured(k, s, c) >= t - k.template - 1
            BY <1>1, <2>2, <3>2, CorrectionAims
        <3> HIDE DEF c
        <3>4. Within(k, t, Weight(s, c))
            BY <1>1, <1>2, <3>3, SampleWithin
        <3> QED
            BY <1>1, <1>3, <1>5, <3>1, <3>3, <3>4, SampleAims
    <2> QED
        BY <2>3, <2>4
<1> QED
    BY <1>1, <1>2, <1>3, <1>4, <1>5 DEF CalibratePrefix

\* One correction of what is added to a text: off by rounding.
LEMMA AdditionAims ==
    ASSUME NEW k \in Tokenizers, NEW s \in Samples, NEW old \in Nat, NEW L \in Nat,
           NEW d \in Nat \ {0}, OfSample(k, s, L) >= 1, d <= 2 * OfSample(k, s, L)
    PROVE  LET e == Tokens(k, old + Weight(s, L)) - Tokens(k, old)
               c == (L * d) \div e
           IN  /\ e \in Nat \ {0} /\ c \in Nat
               /\ OfSample(k, s, c) >= d - 3 /\ OfSample(k, s, c) <= d + 1
<1> DEFINE e == Tokens(k, old + Weight(s, L)) - Tokens(k, old)
           l == OfSample(k, s, L)
           c == (L * d) \div e
           r == OfSample(k, s, c)
<1>1. l \in Nat
    BY MeasuredIs
<1>2. e \in l..l + 1
    <2> DEFINE W == Weight(s, L)
    <2>0. W \in Nat /\ Rate(k, W) = l
        BY SampleIs DEF OfSample
    <2> HIDE DEF W
    <2>1. /\ Rate(k, old) \in Nat /\ Tokens(k, old) = k.template + Rate(k, old)
          /\ Tokens(k, old + W) = k.template + Rate(k, old + W) /\ k.template \in Nat
        BY <2>0, RateIs
    <2>2. Rate(k, old + W) \in Rate(k, old) + l..Rate(k, old) + l + 1
        BY <2>0, RateGrows
    <2> HIDE DEF l
    <2> QED
        BY <1>1, <2>1, <2>2 DEF W
<1>3. e \in Nat \ {0}
    BY <1>1, <1>2
<1>4. c \in Nat /\ r * e < (l + 1) * d /\ l * d < (r + 2) * e
    <2> HIDE DEF e
    <2> QED
        BY <1>3, Corrected
<1>5. r \in Nat
    <2> HIDE DEF c
    <2> QED
        BY <1>4, MeasuredIs
<1>6. d <= 2 * e
    <2> HIDE DEF e
    <2> QED
        BY <1>1, <1>2
<1> HIDE DEF e, l, c, r
<1>7. r < d + 2
    <2>1. (l + 1) * d <= (e + 1) * d
        BY <1>1, <1>2, <1>3, ProductsGrow
    <2>2. (e + 1) * d = d * e + d /\ (d + 2) * e = d * e + 2 * e
        BY <1>3
    <2>3. r * e \in Int /\ d * e \in Int /\ (l + 1) * d \in Int
        BY <1>1, <1>3, <1>5
    <2>4. r * e < (d + 2) * e
        BY <1>3, <1>4, <1>6, <2>1, <2>2, <2>3
    <2> QED
        BY <1>3, <1>5, <2>4, LessOfProducts
<1>8. d - 2 < r + 2
    <2>1. (e - 1) * d <= l * d
        BY <1>1, <1>2, <1>3, ProductsGrow
    <2>2. (e - 1) * d = d * e - d /\ (d - 2) * e = d * e - 2 * e
        BY <1>3
    <2>3. /\ d * e \in Int /\ l * d \in Int /\ (r + 2) * e \in Int
        BY <1>1, <1>3, <1>5
    <2>4. (d - 2) * e < (r + 2) * e
        BY <1>3, <1>4, <1>6, <2>1, <2>2, <2>3
    <2> QED
        BY <1>3, <1>5, <2>4, LessOfProducts
<1>9. r >= d - 3 /\ r <= d + 1
    BY <1>5, <1>7, <1>8
<1> QED
    BY <1>3, <1>4, <1>9 DEF e, c, r

\* calibrate_prompt keeps the text it extends and is not short of the target, and is on
\* it unless it added no more than a sample.
LEMMA PromptAims ==
    ASSUME NEW k \in Tokenizers, NEW s \in Samples, NEW t \in Targets, NEW old \in Nat
    PROVE  LET c == CalibratePrompt(k, s, t, old)
           IN  /\ c \in Nat /\ c >= old /\ Tokens(k, c) >= t - SlackFor(k, t)
               /\ Within(k, t, c) \/ c <= old + Weight(s, s.chars)
<1>1. /\ s.chars \in Nat \ {0} /\ t \in Nat \ {0} /\ k.template \in Nat \ {0}
      /\ old \in Nat
    BY LoadTestAssumption
<1>2. /\ Tolerance(t) \in Nat /\ SlackFor(k, t) \in Nat /\ SlackFor(k, t) >= Tolerance(t)
      /\ SlackFor(k, t) >= k.template + 1 /\ Tolerance(t) >= 64
    BY <1>1, SlackIs
<1>3. Tokens(k, old) \in Nat \ {0} /\ Tokens(k, old) = k.template + Rate(k, old)
    BY RateIs
<1>4. CASE old > 0 /\ Tokens(k, old) >= t - Tolerance(t)
    <2>1. CalibratePrompt(k, s, t, old) = old
        BY <1>4 DEF CalibratePrompt
    <2>2. old <= old + Weight(s, s.chars)
        <3>1. s.chars \in Nat
            BY <1>1
        <3>2. Weight(s, s.chars) \in Nat
            BY <3>1, SampleIs
        <3> QED
            BY <3>2
    <2> QED
        BY <1>1, <1>2, <1>3, <1>4, <2>1, <2>2
<1>5. CASE old = 0
    <2> DEFINE need == t - Overhead(k, s)
               L == s.chars * Copies(k, s, need)
    <2>1. Overhead(k, s) \in Nat /\ need \in Int /\ need = t - 0 - Overhead(k, s)
        BY <1>1, PerCopyPositive
    <2>2. /\ L \in Nat \ {0} /\ OfSample(k, s, L) \in Nat /\ need <= 2 * OfSample(k, s, L)
          /\ Overhead(k, s) <= k.template
        <3> HIDE DEF need
        <3> QED
            BY <1>1, <2>1, CopiesReach
    <2>3. CalibratePrompt(k, s, t, old) = 0 + Weight(s, Extra(k, s, t, 0))
        BY <1>5 DEF CalibratePrompt
    <2>4. Extra(k, s, t, 0) =
              IF Near(Tokens(k, 0 + Weight(s, L)), t) THEN L
              ELSE AtLeast(s.chars, (L * AtLeast(1, t - 0))
                                        \div AtLeast(1, Tokens(k, 0 + Weight(s, L)) - 0))
        BY <2>1 DEF Extra
    <2> HIDE DEF L
    <2>5. /\ Measured(k, s, L) \in Nat \ {0} /\ 0 + Weight(s, L) = Weight(s, L)
          /\ Tokens(k, 0 + Weight(s, L)) = Measured(k, s, L)
          /\ Weight(s, L) \in Nat /\ Measured(k, s, L) = k.template + OfSample(k, s, L)
        BY <2>2, MeasuredIs, SampleIs DEF Measured
    <2>6. /\ AtLeast(1, t - 0) = t
          /\ AtLeast(1, Tokens(k, 0 + Weight(s, L)) - 0) = Measured(k, s, L)
        BY <1>1, <2>5 DEF AtLeast
    <2>7. CASE Near(Measured(k, s, L), t)
        <3>1. CalibratePrompt(k, s, t, old) = Weight(s, L)
            BY <2>2, <2>3, <2>4, <2>5, <2>7
        <3> QED
            BY <1>1, <1>5, <2>2, <2>7, <3>1, SampleIs, SampleWithin DEF Measured
    <2>8. CASE ~Near(Measured(k, s, L), t)
        <3> DEFINE c == (L * t) \div Measured(k, s, L)
        <3>1. Extra(k, s, t, 0) = AtLeast(s.chars, c)
            BY <2>4, <2>5, <2>6, <2>8
        <3>2. t <= 2 * Measured(k, s, L)
            BY <1>1, <2>1, <2>2, <2>5
        <3>3. /\ c \in Nat /\ Measured(k, s, c) < t + k.template
              /\ Measured(k, s, c) >= t - k.template - 1
            BY <1>1, <2>2, <3>2, CorrectionAims
        <3> HIDE DEF c
        <3>4. /\ Within(k, t, Weight(s, c)) /\ Measured(k, s, c) \in Nat
              /\ Measured(k, s, c) >= t - SlackFor(k, t)
            BY <1>1, <1>2, <3>3, SampleWithin
        <3>5. CASE s.chars <= c
            <4>1. CalibratePrompt(k, s, t, old) = Weight(s, c)
                BY <1>1, <2>3, <3>1, <3>3, <3>5, SampleIs DEF AtLeast
            <4> QED
                BY <1>5, <3>3, <3>4, <4>1, SampleIs DEF Measured
        <3>6. CASE c < s.chars
            <4>1. CalibratePrompt(k, s, t, old) = Weight(s, s.chars)
                BY <1>1, <2>3, <3>1, <3>3, <3>6, SampleIs DEF AtLeast
            <4>2. /\ Measured(k, s, s.chars) >= Measured(k, s, c)
                  /\ Measured(k, s, s.chars) \in Nat
                <5>1. OfSample(k, s, c) <= OfSample(k, s, s.chars)
                    BY <3>3, <3>6, LessThanSample
                <5>2. /\ OfSample(k, s, c) \in Nat
                      /\ Measured(k, s, c) = k.template + OfSample(k, s, c)
                      /\ OfSample(k, s, s.chars) \in Nat /\ Measured(k, s, s.chars) = k.template + OfSample(k, s, s.chars)
                    BY <1>1, <3>3, MeasuredIs
                <5> QED
                    BY <1>1, <5>1, <5>2
            <4>3. Measured(k, s, s.chars) >= t - SlackFor(k, t)
                BY <1>1, <1>2, <3>4, <4>2
            <4> QED
                BY <1>1, <1>5, <4>1, <4>3, SampleIs DEF Measured
        <3> QED
            BY <1>1, <3>3, <3>5, <3>6
    <2> QED
        BY <2>7, <2>8
<1>6. CASE old > 0 /\ Tokens(k, old) < t - Tolerance(t)
    <2> DEFINE d == t - Tokens(k, old)
               L == s.chars * Copies(k, s, d)
               n == Tokens(k, old + Weight(s, L))
    <2>1. d \in Nat \ {0}
        BY <1>1, <1>2, <1>3, <1>6
    <2>2. L \in Nat \ {0} /\ OfSample(k, s, L) \in Nat \ {0} /\ d <= 2 * OfSample(k, s, L)
        <3> HIDE DEF d
        <3> QED
            BY <1>1, <2>1, CopiesReach
    <2>3. CalibratePrompt(k, s, t, old) = old + Weight(s, Extra(k, s, t, old))
        BY <1>1, <1>2, <1>3, <1>6 DEF CalibratePrompt
    <2>4. t - Tokens(k, old) - 0 = d
        BY <2>1, <1>1, <1>3
    <2>5. Extra(k, s, t, old) =
              IF Near(n, t) THEN L
              ELSE AtLeast(s.chars, (L * AtLeast(1, d)) \div AtLeast(1, n - Tokens(k, old)))
        BY <1>6, <2>4 DEF Extra
    <2> HIDE DEF L, d
    <2>6. CASE Near(n, t)
        <3>1. CalibratePrompt(k, s, t, old) = old + Weight(s, L)
            BY <2>3, <2>5, <2>6
        <3>2. old + Weight(s, L) \in Nat /\ old + Weight(s, L) >= old
            BY <1>1, <2>2, SampleIs
        <3> QED
            BY <1>1, <2>6, <3>1, <3>2, WithinIs
    <2>7. CASE ~Near(n, t)
        <3> DEFINE e == n - Tokens(k, old)
                   c == (L * d) \div e
        <3>0. /\ L \in Nat /\ OfSample(k, s, L) >= 1 /\ d \in Nat \ {0}
              /\ d <= 2 * OfSample(k, s, L)
            BY <2>1, <2>2
        <3>1. /\ e \in Nat \ {0} /\ c \in Nat /\ OfSample(k, s, c) >= d - 3
              /\ OfSample(k, s, c) <= d + 1
            BY <1>1, <3>0, AdditionAims
        <3>2. AtLeast(1, d) = d /\ AtLeast(1, n - Tokens(k, old)) = e
            <4> HIDE DEF n
            <4> QED
                BY <2>1, <3>1 DEF AtLeast
        <3>3. Extra(k, s, t, old) = AtLeast(s.chars, c)
            BY <2>5, <2>7, <3>2
        <3> HIDE DEF c, e, n
        <3> DEFINE x == AtLeast(s.chars, c)
        <3>4. x \in Nat /\ x >= c /\ (x = c \/ x = s.chars)
            BY <1>1, <3>1 DEF AtLeast
        <3> HIDE DEF x
        <3>5. CalibratePrompt(k, s, t, old) = old + Weight(s, x)
            BY <2>3, <3>3 DEF x
        <3> DEFINE u == Weight(s, c)
                   v == Weight(s, x)
        <3>6. u \in Nat /\ v \in Nat /\ u <= v /\ Rate(k, u) = OfSample(k, s, c)
            BY <3>1, <3>4, SampleIs, SampleGrows DEF OfSample
        <3> HIDE DEF u, v
        <3>7. /\ Rate(k, u) \in Nat /\ Rate(k, old) \in Nat
              /\ Rate(k, old + v) \in Nat /\ Rate(k, old + u) \in Nat
              /\ Tokens(k, old + v) = k.template + Rate(k, old + v)
            BY <1>1, <3>6, RateIs
        <3>8. /\ Rate(k, old + u) <= Rate(k, old + v)
              /\ Rate(k, old + u) \in Rate(k, old) + Rate(k, u)..Rate(k, old) + Rate(k, u) + 1
            <4>1. old + u <= old + v /\ old + u \in Nat /\ old + v \in Nat
                BY <1>1, <3>6
            <4> QED
                BY <1>1, <3>6, <4>1, RateGrows
        <3>9. Tokens(k, old + v) >= t - 3
            BY <1>1, <1>3, <2>1, <3>1, <3>6, <3>7, <3>8 DEF d
        <3>10. x = c => v = u
            BY DEF u, v
        <3>11. x = c => Tokens(k, old + v) <= t + 2
            BY <1>1, <1>3, <2>1, <3>1, <3>6, <3>7, <3>8, <3>10 DEF d
        <3>12. old + v \in Nat /\ old + v >= old /\ Tokens(k, old + v) \in Nat
            BY <1>1, <3>6, <3>7
        <3>13. x = c => Within(k, t, old + v)
            BY <1>1, <1>2, <3>9, <3>11, <3>12, WithinIs
        <3>14. Tokens(k, old + v) >= t - SlackFor(k, t)
            BY <1>1, <1>2, <3>9, <3>12
        <3>15. x = s.chars => old + v <= old + Weight(s, s.chars)
            BY <1>1, <3>6 DEF v
        <3> QED
            BY <3>4, <3>5, <3>12, <3>13, <3>14, <3>15 DEF v
    <2> QED
        BY <2>6, <2>7
<1> QED
    BY <1>1, <1>2, <1>3, <1>4, <1>5, <1>6
(***************************************************************************)
(* The invariant                                                           *)
(***************************************************************************)
Part == ({"prefix", "text", "message", "chunk"} \X Nat) \union ({"suffix"} \X Nat \X Nat)
Message == Seq(Part)
Result == [ok : BOOLEAN]

SeqInv ==
    /\ sent \in [AllTasks -> Seq(Message)]
    /\ outcome \in [AllTasks -> Seq(Result)]

Busy == {t \in AllTasks : at[t] \in {"open", "stream"}}

\* Nothing is under way but while the tasks run, and then only what the mode runs.
PhaseInv ==
    /\ mode = "none" => pc \in {"args", "over"}
    /\ pc = "args" => mode = "none"
    /\ exit = "none" <=> pc # "over"
    /\ pc \in {"args", "scout", "warm"} =>
           /\ trial = 0
           /\ \A t \in AllTasks : at[t] = "waiting" /\ sent[t] = <<>> /\ outcome[t] = <<>>
    /\ pc # "run" => Busy = {}
    /\ \A t \in AllTasks \ Tasks : at[t] = "waiting" /\ sent[t] = <<>>

PermitInv ==
    /\ free \in Nat
    /\ IF mode = "bench" THEN free = Ccu ELSE free + Cardinality(Busy) = Ccu

Started(t) == IF at[t] = "waiting" THEN 0 ELSE 1

\* An agent stream goes on to its last turn or to the first that fails.
StreamInv(t) ==
    /\ Len(sent[t]) <= NumTurns /\ Len(sent[t]) >= Started(t)
    /\ at[t] = "waiting" => Len(sent[t]) < NumTurns
    /\ \A i \in 1..Len(outcome[t]) :
           outcome[t][i].ok \/ (at[t] = "ended" /\ i = Len(outcome[t]))
    /\ at[t] = "ended" => Len(sent[t]) = NumTurns \/ ~outcome[t][Len(sent[t])].ok

MadeInv ==
    /\ mode = "bench" => \A t \in Tasks : Len(sent[t]) = trial + Started(t)
    /\ mode \in {"pp", "tg", "embed"} => \A t \in AllTasks : Len(sent[t]) = Started(t)
    /\ mode = "agentic" => \A t \in AllTasks : StreamInv(t)

ExitInv ==
    exit = "ok" /\ mode \in StressModes =>
        \A t \in Tasks : at[t] = "ended" /\ \A i \in 1..Len(outcome[t]) : outcome[t][i].ok

SentInv ==
    /\ mode = "agentic" => \A t \in AllTasks :
           \A i \in 1..Len(sent[t]) : sent[t][i] = AgentMessages(t, i - 1)
    /\ mode = "pp" => \A t \in AllTasks :
           \A i \in 1..Len(sent[t]) : sent[t][i] = <<<<"prefix", t - 1>>>>

IInv ==
    TypeOK /\ SeqInv /\ PhaseInv /\ PermitInv /\ MadeInv /\ ExitInv /\ SentInv

(***************************************************************************)
(* What a step does to the tasks                                           *)
(***************************************************************************)

\* A request is sent.
Sends(t, m) ==
    /\ Begin(t, m)
    /\ IF mode = "bench" THEN free' = free ELSE free > 0 /\ free' = free - 1
    /\ mode = "agentic" => m = AgentMessages(t, Len(sent[t]))
    /\ mode = "pp" => m = <<<<"prefix", t - 1>>>>

\* Something of an answer is read.
Reads(t) ==
    /\ t \in InFlight /\ at' = [at EXCEPT ![t] = "stream"]
    /\ UNCHANGED <<mode, exit, pc, trial, free, sent, outcome>>

\* A request ends.
Notes(t, how, ok, again) ==
    /\ Note(t, ok, again)
    /\ free' = IF mode = "bench" THEN free ELSE free + 1
    /\ how \in Ends /\ ok \in BOOLEAN /\ again \in BOOLEAN
    /\ IF mode = "agentic" THEN again = GoesOn(t, ok) ELSE ~again

\* The program goes on without touching a task.
Advances ==
    /\ UNCHANGED <<trial, taskVars>>
    /\ \/ /\ pc = "args" /\ pc' = "scout" /\ mode' \in StressModes /\ UNCHANGED exit
       \/ /\ pc \in {"scout", "warm"} /\ pc' \in {"scout", "warm", "run"}
          /\ UNCHANGED <<mode, exit>>

\* The program ends; if all is well with a stress test, all of its requests are done.
Stops ==
    /\ UNCHANGED <<mode, trial, taskVars>>
    /\ pc # "over" /\ pc' = "over" /\ exit' \in {"ok", "failed"}
    /\ pc = "run" => AllEnded
    /\ exit' = "ok" /\ mode \in StressModes => AllEnded /\ Failures = {}

(***************************************************************************)
(* Messages                                                                *)
(***************************************************************************)

LEMMA TasksAreNumbers ==
    /\ AllTasks \subseteq Nat /\ IsFiniteSet(AllTasks)
    /\ Tasks \subseteq AllTasks
<1>1. AtLeast(Ccu, Total) \in Nat /\ Ccu <= AtLeast(Ccu, Total) /\ Total <= AtLeast(Ccu, Total)
    BY LoadTestAssumption DEF AtLeast
<1>2. IsFiniteSet(AllTasks)
    BY <1>1, FS_Interval DEF AllTasks
<1> QED
    BY <1>1, <1>2, LoadTestAssumption DEF AllTasks, Tasks

LEMMA ChunkIsPart ==
    ASSUME NEW t \in AllTasks, NEW n \in Nat
    PROVE  Chunk(t, n) \in Part /\ Chunk(t, n) = <<"chunk", (t * 1009 + n) % NumChunks>>
<1> DEFINE x == t * 1009 + n
<1>1. x \in Nat
    BY TasksAreNumbers
<1>2. Chunk(t, n) = <<"chunk", x % NumChunks>>
    BY DEF Chunk
<1> HIDE DEF x
<1>3. x % NumChunks \in Nat
    BY <1>1, TurnsCounted, DivMod
<1> QED
    BY <1>2, <1>3 DEF Part, x

\* What a turn sends: the prefix, then the chunks of this turn and of all before it.
LEMMA AgentMessagesAre ==
    ASSUME NEW t \in AllTasks, NEW n \in Nat
    PROVE  /\ AgentMessages(t, n) \in Message
           /\ Len(AgentMessages(t, n)) = n + 2
           /\ AgentMessages(t, n)[1] = <<"prefix", t % Ccu>>
           /\ \A k \in 1..n + 1 : AgentMessages(t, n)[k + 1] = Chunk(t, k - 1)
<1> DEFINE head == <<<<"prefix", t % Ccu>>>>
           tail == [k \in 1..n + 1 |-> Chunk(t, k - 1)]
<1>1. <<"prefix", t % Ccu>> \in Part
    <2>1. t % Ccu \in Nat
        BY TasksAreNumbers, LoadTestAssumption, DivMod
    <2> QED
        BY <2>1 DEF Part
<1>2. head \in Seq(Part) /\ Len(head) = 1 /\ head[1] = <<"prefix", t % Ccu>>
    BY <1>1
<1>3. tail \in Seq(Part) /\ Len(tail) = n + 1 /\ \A k \in 1..n + 1 : tail[k] = Chunk(t, k - 1)
    <2>1. \A k \in 1..n + 1 : Chunk(t, k - 1) \in Part
        BY ChunkIsPart
    <2> QED
        BY <2>1
<1>4. AgentMessages(t, n) = head \o tail
    BY DEF AgentMessages
<1> HIDE DEF head, tail
<1>5. /\ head \o tail \in Seq(Part) /\ Len(head \o tail) = Len(head) + Len(tail)
      /\ \A i \in 1..Len(head) + Len(tail) :
             (head \o tail)[i] = IF i <= Len(head) THEN head[i] ELSE tail[i - Len(head)]
    BY <1>2, <1>3, ConcatProperties
<1>6. (head \o tail)[1] = head[1]
    BY <1>2, <1>3, <1>5
<1>7. ASSUME NEW k \in 1..n + 1 PROVE (head \o tail)[k + 1] = Chunk(t, k - 1)
    <2>1. k + 1 \in 1..Len(head) + Len(tail) /\ ~(k + 1 <= Len(head)) /\ k + 1 - Len(head) = k
        BY <1>2, <1>3
    <2>2. (head \o tail)[k + 1] = tail[k + 1 - Len(head)]
        BY <1>5, <2>1
    <2> QED
        BY <1>3, <2>1, <2>2
<1>8. Len(head \o tail) = n + 2
    BY <1>2, <1>3, <1>5
<1> QED
    BY <1>2, <1>4, <1>5, <1>6, <1>7, <1>8 DEF Message

(***************************************************************************)
(* Every step is of one of these kinds                                     *)
(***************************************************************************)
LEMMA SendsOne ==
    ASSUME TypeOK, SeqInv, NEW t \in AllTasks, Send(t)
    PROVE  \E m \in Message : Sends(t, m)
<1>1. CASE SendRequest(t)
    <2> DEFINE m == IF mode = "pp" THEN <<<<"prefix", t - 1>>>> ELSE <<<<"text", text>>>>
    <2>1. t \in Tasks /\ mode \in {"pp", "tg"}
        BY <1>1 DEF SendRequest, Begin
    <2>2. t - 1 \in Nat /\ text \in Nat
        BY <2>1, LoadTestAssumption DEF Tasks, TypeOK
    <2>3. <<"prefix", t - 1>> \in Part /\ <<"text", text>> \in Part
        BY <2>2 DEF Part
    <2>4. m \in Message
        BY <2>3 DEF Message
    <2> QED
        BY <1>1, <2>1, <2>4 DEF SendRequest, Acquire, Sends
<1>2. CASE SendTurn(t)
    <2>1. Len(sent[t]) \in Nat
        BY DEF SeqInv
    <2> QED
        BY <1>2, <2>1, AgentMessagesAre DEF SendTurn, Acquire, Sends
<1>3. CASE SendEmbedding(t)
    <2>1. <<"message", t>> \in Part
        BY TasksAreNumbers DEF Part
    <2>2. <<<<"message", t>>>> \in Message
        BY <2>1 DEF Message
    <2> QED
        BY <1>3, <2>2 DEF SendEmbedding, Acquire, Sends
<1>4. CASE SendTimed(t)
    <2>1. text \in Nat /\ trial \in Nat /\ t \in Nat
        BY TasksAreNumbers, LoadTestAssumption DEF TypeOK
    <2>2. <<"text", text>> \in Part /\ <<"suffix", t, trial>> \in Part
        BY <2>1 DEF Part
    <2>3. <<<<"text", text>>, <<"suffix", t, trial>>>> \in Message
        BY <2>2 DEF Message
    <2> QED
        BY <1>4, <2>3 DEF SendTimed, Sends
<1> QED
    BY <1>1, <1>2, <1>3, <1>4 DEF Send

LEMMA EndsOne ==
    ASSUME TypeOK, NEW t \in AllTasks, NEW how \in Ends, End(t, how)
    PROVE  \E ok, again \in BOOLEAN : Notes(t, how, ok, again)
<1>1. CASE RequestEnds(t, how)
    <2>1. StreamSuccess(how, chunk[t]) \in BOOLEAN
        BY DEF StreamSuccess
    <2> QED
        BY <1>1, <2>1 DEF RequestEnds, Notes
<1>2. CASE TurnEnds(t, how)
    <2> DEFINE ok == StreamSuccess(how, chunk[t])
    <2>1. ok \in BOOLEAN /\ GoesOn(t, ok) \in BOOLEAN
        BY DEF StreamSuccess, GoesOn
    <2> QED
        BY <1>2, <2>1 DEF TurnEnds, Notes
<1>3. CASE EmbeddingEnds(t, how)
    <2> DEFINE ok == how \in {"json", "error_json"}
    <2>1. ok \in BOOLEAN /\ FALSE \in BOOLEAN
        OBVIOUS
    <2>2. Notes(t, how, ok, FALSE)
        BY <1>3, <2>1 DEF EmbeddingEnds, Notes
    <2> QED
        BY <2>1, <2>2
<1>4. CASE TimedEnds(t, how)
    <2> DEFINE ok == how \in {"eof", "done"}
    <2>1. ok \in BOOLEAN /\ FALSE \in BOOLEAN
        OBVIOUS
    <2>2. Notes(t, how, ok, FALSE)
        BY <1>4, <2>1 DEF TimedEnds, Notes
    <2> QED
        BY <2>1, <2>2
<1> QED
    BY <1>1, <1>2, <1>3, <1>4 DEF End

LEMMA Kinds ==
    ASSUME IInv, Next
    PROVE  \/ \E t \in AllTasks, m \in Message : Sends(t, m)
           \/ \E t \in AllTasks : Reads(t)
           \/ \E t \in AllTasks, how \in Ends, ok, again \in BOOLEAN : Notes(t, how, ok, again)
           \/ NextTrial \/ NextContext \/ Advances \/ Stops
<1> USE DEF IInv
<1>1. CASE \E t \in AllTasks :
               Send(t) \/ Answer(t) \/ Line(t) \/ \E how \in Ends : End(t, how)
    <2>1. ASSUME NEW t \in AllTasks, Answer(t) \/ Line(t) PROVE Reads(t)
        <3>1. CASE Answer(t)
            BY <3>1 DEF Answer, Reads, setupVars
        <3>2. CASE Line(t)
            BY <3>2 DEF Line, Reads, setupVars, TypeOK
        <3> QED
            BY <2>1, <3>1, <3>2
    <2> QED
        BY <1>1, <2>1, SendsOne, EndsOne
<1>2. CASE ChooseMode
    BY <1>2 DEF ChooseMode, Advances, TypeOK, StressModes
<1>3. CASE ScoutPrefix \/ ScoutPrompt \/ ScoutSkips \/ Warm
    BY <1>3 DEF ScoutPrefix, ScoutPrompt, ScoutSkips, TakeContext, Warm, Advances,
               setupVars, aimVars
<1>4. CASE RefuseFlags
    BY <1>4 DEF RefuseFlags, Over, Stops, PhaseInv, StressModes
<1>5. CASE ScoutFails
    BY <1>5 DEF ScoutFails, Over, Stops, StressModes
<1>6. CASE WarmFails
    BY <1>6 DEF WarmFails, Over, Stops
<1>7. CASE Report
    BY <1>7 DEF Report, Over, Stops, ExitCode, AllEnded
<1>8. CASE ReportEmbedding \/ BenchDone
    BY <1>8 DEF ReportEmbedding, BenchDone, CellDone, Over, Stops, StressModes, AllEnded
<1> QED
    BY <1>1, <1>2, <1>3, <1>4, <1>5, <1>6, <1>7, <1>8 DEF Next, Main

(***************************************************************************)
(* The effect of each kind                                                 *)
(***************************************************************************)
LEMMA SendEffect ==
    ASSUME IInv, NEW t \in AllTasks, NEW m \in Message, Sends(t, m)
    PROVE  /\ SeqInv' /\ t \in Tasks /\ at[t] = "waiting" /\ pc = "run"
           /\ at' = [at EXCEPT ![t] = "open"] /\ outcome' = outcome
           /\ UNCHANGED <<mode, exit, pc, trial>>
           /\ Len(sent'[t]) = Len(sent[t]) + 1 /\ sent'[t][Len(sent[t]) + 1] = m
           /\ \A i \in 1..Len(sent[t]) : sent'[t][i] = sent[t][i]
           /\ \A u \in AllTasks \ {t} : sent'[u] = sent[u]
           /\ Busy' = Busy \union {t} /\ Cardinality(Busy') = Cardinality(Busy) + 1
<1> DEFINE s == Append(sent[t], m)
<1>1. sent[t] \in Seq(Message) /\ sent \in [AllTasks -> Seq(Message)]
    BY DEF IInv, SeqInv
<1>2. /\ s \in Seq(Message) /\ Len(s) = Len(sent[t]) + 1 /\ s[Len(sent[t]) + 1] = m
      /\ \A i \in 1..Len(sent[t]) : s[i] = sent[t][i]
    BY <1>1, AppendProperties
<1>3. sent' = [sent EXCEPT ![t] = s]
    BY DEF Sends, Begin
<1> HIDE DEF s
<1>4. sent'[t] = s /\ (\A u \in AllTasks \ {t} : sent'[u] = sent[u])
    BY <1>1, <1>3
<1>5. sent' \in [AllTasks -> Seq(Message)]
    BY <1>1, <1>2, <1>3
<1>6. /\ t \in Tasks /\ at[t] = "waiting" /\ pc = "run" /\ outcome' = outcome
      /\ at' = [at EXCEPT ![t] = "open"] /\ UNCHANGED <<mode, exit, pc, trial>>
    BY DEF Sends, Begin, setupVars, aimVars
<1>7. SeqInv'
    BY <1>5, <1>6, LoadTestAssumption DEF IInv, SeqInv, AllTasks
<1>8. Busy' = Busy \union {t} /\ t \notin Busy
    BY <1>6 DEF Busy, IInv, TypeOK, AllTasks
<1>9. IsFiniteSet(Busy)
    BY TasksAreNumbers, FS_Subset DEF Busy
<1>10. Cardinality(Busy') = Cardinality(Busy) + 1
    BY <1>8, <1>9, FS_AddElement
<1> QED
    BY <1>2, <1>4, <1>6, <1>7, <1>8, <1>10

LEMMA NoteEffect ==
    ASSUME IInv, NEW t \in AllTasks, NEW how \in Ends, NEW ok \in BOOLEAN,
           NEW again \in BOOLEAN, Notes(t, how, ok, again)
    PROVE  /\ SeqInv' /\ t \in InFlight /\ sent' = sent
           /\ at' = [at EXCEPT ![t] = IF again THEN "waiting" ELSE "ended"]
           /\ UNCHANGED <<mode, exit, pc, trial>>
           /\ Len(outcome'[t]) = Len(outcome[t]) + 1
           /\ outcome'[t][Len(outcome[t]) + 1] = [ok |-> ok]
           /\ \A i \in 1..Len(outcome[t]) : outcome'[t][i] = outcome[t][i]
           /\ \A u \in AllTasks \ {t} : outcome'[u] = outcome[u]
           /\ Busy' = Busy \ {t} /\ Cardinality(Busy') = Cardinality(Busy) - 1
<1> DEFINE r == [ok |-> ok]
           s == Append(outcome[t], r)
<1>1. outcome[t] \in Seq(Result) /\ outcome \in [AllTasks -> Seq(Result)] /\ r \in Result
    BY DEF IInv, SeqInv, Result
<1>2. outcome' = [outcome EXCEPT ![t] = s]
    BY DEF Notes, Note
<1> HIDE DEF r
<1>3. /\ s \in Seq(Result) /\ Len(s) = Len(outcome[t]) + 1 /\ s[Len(outcome[t]) + 1] = r
      /\ \A i \in 1..Len(outcome[t]) : s[i] = outcome[t][i]
    BY <1>1, AppendProperties
<1> HIDE DEF s
<1>4. outcome'[t] = s /\ (\A u \in AllTasks \ {t} : outcome'[u] = outcome[u])
    BY <1>1, <1>2
<1>5. outcome' \in [AllTasks -> Seq(Result)]
    BY <1>1, <1>2, <1>3
<1>6. /\ t \in InFlight /\ sent' = sent /\ UNCHANGED <<mode, exit, pc, trial>>
      /\ at' = [at EXCEPT ![t] = IF again THEN "waiting" ELSE "ended"]
    BY DEF Notes, Note, setupVars, aimVars
<1>7. SeqInv'
    BY <1>5, <1>6 DEF IInv, SeqInv, AllTasks
<1>8. Busy' = Busy \ {t} /\ t \in Busy
    BY <1>6 DEF Busy, InFlight, IInv, TypeOK, AllTasks
<1>9. IsFiniteSet(Busy)
    BY TasksAreNumbers, FS_Subset DEF Busy
<1>10. Cardinality(Busy') = Cardinality(Busy) - 1
    BY <1>8, <1>9, FS_RemoveElement
<1> QED
    BY <1>3, <1>4, <1>6, <1>7, <1>8, <1>10 DEF r

\* Reading leaves open what is open.
LEMMA ReadEffect ==
    ASSUME IInv, NEW t \in AllTasks, Reads(t)
    PROVE  /\ SeqInv' /\ Busy' = Busy
           /\ UNCHANGED <<mode, exit, pc, trial, free, sent, outcome>>
           /\ t \in Busy /\ at'[t] = "stream" /\ \A u \in AllTasks \ {t} : at'[u] = at[u]
           /\ \A u \in AllTasks : Started(u)' = Started(u)
<1>1. /\ UNCHANGED <<mode, exit, pc, trial, free, sent, outcome>> /\ t \in Busy
      /\ at' = [at EXCEPT ![t] = "stream"]
    BY DEF Reads, InFlight, Busy
<1>2. at'[t] = "stream" /\ \A u \in AllTasks \ {t} : at'[u] = at[u]
    BY <1>1 DEF IInv, TypeOK
<1>3. Busy' = Busy
    BY <1>1, <1>2 DEF Busy, AllTasks
<1> QED
    BY <1>1, <1>2, <1>3 DEF IInv, SeqInv, AllTasks, Busy, Started

(***************************************************************************)
(* Every step keeps the invariant                                          *)
(***************************************************************************)

\* When all tasks have ended none is busy.
LEMMA EndedNotBusy ==
    ASSUME IInv, AllEnded
    PROVE  Busy = {}
BY DEF IInv, PhaseInv, AllEnded, Busy

LEMMA PhaseKept ==
    ASSUME IInv, Next
    PROVE  PhaseInv'
<1> TypeOK /\ SeqInv /\ PhaseInv /\ PermitInv
    BY DEF IInv
<1>1. ASSUME NEW t \in AllTasks, NEW m \in Message, Sends(t, m) PROVE PhaseInv'
    <2>1. \A u \in AllTasks \ {t} : at'[u] = at[u]
        BY <1>1, SendEffect DEF TypeOK
    <2> QED
        BY <1>1, <2>1, SendEffect DEF PhaseInv, Tasks, AllTasks
<1>2. ASSUME NEW t \in AllTasks, Reads(t) PROVE PhaseInv'
    <2>1. t \in Tasks
        BY <1>2 DEF Reads, InFlight
    <2> QED
        BY <1>2, <2>1, ReadEffect DEF PhaseInv, Tasks, AllTasks, Busy
<1>3. ASSUME NEW t \in AllTasks, NEW how \in Ends, NEW ok \in BOOLEAN, NEW again \in BOOLEAN,
             Notes(t, how, ok, again)
      PROVE  PhaseInv'
    <2>1. /\ t \in InFlight /\ sent' = sent /\ UNCHANGED <<mode, exit, pc, trial>>
          /\ at' = [at EXCEPT ![t] = IF again THEN "waiting" ELSE "ended"]
          /\ Busy' = Busy \ {t}
        BY <1>3, NoteEffect
    <2>2. t \in Tasks /\ t \in Busy
        BY <2>1 DEF InFlight, Busy
    <2>3. \A u \in AllTasks \ {t} : at'[u] = at[u]
        BY <2>1 DEF TypeOK
    <2> QED
        BY <2>1, <2>2, <2>3 DEF PhaseInv, Tasks, AllTasks
<1>4. CASE NextTrial
    <2>1. Busy' = {} /\ UNCHANGED <<mode, exit, pc, sent, outcome>> /\ pc = "run"
        BY <1>4 DEF NextTrial, AllEnded, Busy, AllTasks, setupVars
    <2>2. \A u \in AllTasks : at'[u] = "waiting"
        BY <1>4 DEF NextTrial
    <2> QED
        BY <2>1, <2>2 DEF PhaseInv, Tasks, AllTasks
<1>5. CASE NextContext
    <2>1. \A u \in AllTasks : at'[u] = "waiting" /\ sent'[u] = <<>> /\ outcome'[u] = <<>>
        BY <1>5 DEF NextContext
    <2>2. Busy' = {}
        BY <2>1 DEF Busy, AllTasks
    <2>3. /\ pc = "run" /\ pc' = "scout" /\ trial' = 0 /\ mode = "bench"
          /\ UNCHANGED <<mode, exit>>
        BY <1>5 DEF NextContext, TakeContext, CellDone, AllEnded, setupVars
    <2> QED
        BY <2>1, <2>2, <2>3 DEF PhaseInv, AllTasks, Tasks
<1>6. CASE Advances
    <2>1. Busy' = Busy /\ UNCHANGED <<trial, at, sent, outcome>>
        BY <1>6 DEF Advances, taskVars, Busy, AllTasks
    <2>2. CASE mode' = mode
        <3>1. pc \in {"scout", "warm"} \/ (pc = "args" /\ mode = "none" /\ mode' \in StressModes)
            BY <1>6 DEF Advances, PhaseInv
        <3>2. pc \in {"scout", "warm"} /\ pc' \in {"scout", "warm", "run"} /\ exit' = exit
            BY <1>6, <2>2, <3>1 DEF Advances, StressModes
        <3>3. exit # "none" <=> pc = "over"
            BY DEF PhaseInv
        <3>4. Tasks' = Tasks /\ AllTasks' = AllTasks
            BY <2>2 DEF Tasks, AllTasks
        <3> QED
            BY <2>1, <2>2, <3>2, <3>3, <3>4 DEF PhaseInv
    <2>3. CASE pc = "args"
        BY <1>6, <2>1, <2>3 DEF Advances, PhaseInv, StressModes, AllTasks
    <2> QED
        BY <1>6, <2>2, <2>3 DEF Advances
<1>7. CASE Stops
    <2>1. Busy' = Busy /\ UNCHANGED <<mode, trial, at, sent, outcome>>
        BY <1>7 DEF Stops, taskVars, Busy, AllTasks
    <2>2. Busy = {}
        BY <1>7, EndedNotBusy DEF Stops, PhaseInv
    <2> QED
        BY <1>7, <2>1, <2>2 DEF Stops, PhaseInv, Tasks, AllTasks
<1> QED
    BY <1>1, <1>2, <1>3, <1>4, <1>5, <1>6, <1>7, Kinds

LEMMA PermitsKept ==
    ASSUME IInv, Next
    PROVE  PermitInv'
<1> TypeOK /\ SeqInv /\ PhaseInv /\ PermitInv
    BY DEF IInv
<1>1. IsFiniteSet(Busy) /\ Cardinality(Busy) \in Nat
    BY TasksAreNumbers, FS_Subset, FS_CardinalityType DEF Busy
<1>2. ASSUME NEW t \in AllTasks, NEW m \in Message, Sends(t, m) PROVE PermitInv'
    <2>1. mode' = mode /\ Cardinality(Busy') = Cardinality(Busy) + 1
        BY <1>2, SendEffect
    <2>2. IF mode = "bench" THEN free' = free ELSE free > 0 /\ free' = free - 1
        BY <1>2 DEF Sends
    <2> HIDE DEF Busy
    <2> QED
        BY <1>1, <2>1, <2>2 DEF PermitInv
<1>3. ASSUME NEW t \in AllTasks, Reads(t) PROVE PermitInv'
    BY <1>3, ReadEffect DEF PermitInv
<1>4. ASSUME NEW t \in AllTasks, NEW how \in Ends, NEW ok \in BOOLEAN, NEW again \in BOOLEAN,
             Notes(t, how, ok, again)
      PROVE  PermitInv'
    <2>1. mode' = mode /\ Cardinality(Busy') = Cardinality(Busy) - 1
        BY <1>4, NoteEffect
    <2>2. free' = IF mode = "bench" THEN free ELSE free + 1
        BY <1>4 DEF Notes
    <2> QED
        BY <1>1, <2>1, <2>2 DEF PermitInv
<1>5. CASE NextTrial \/ NextContext
    BY <1>5 DEF NextTrial, NextContext, AllEnded, CellDone, setupVars, PermitInv
<1>6. CASE Advances \/ Stops
    <2>1. Busy' = Busy /\ free' = free
        BY <1>6 DEF Advances, Stops, taskVars, Busy, AllTasks
    <2>2. CASE mode' = mode
        BY <2>1, <2>2 DEF PermitInv
    <2>3. CASE mode' \in StressModes /\ pc = "args"
        BY <2>1, <2>3 DEF PermitInv, PhaseInv, StressModes
    <2> QED
        BY <1>6, <2>2, <2>3 DEF Advances, Stops
<1> QED
    BY <1>2, <1>3, <1>4, <1>5, <1>6, Kinds

LEMMA MadeKept ==
    ASSUME IInv, Next
    PROVE  MadeInv'
<1> TypeOK /\ SeqInv /\ PhaseInv /\ MadeInv
    BY DEF IInv
<1> Ccu \in Nat \ {0} /\ Total \in Nat \ {0} /\ NumTurns \in Nat \ {0}
    BY LoadTestAssumption, TurnsCounted
<1> trial \in Nat /\ \A t \in AllTasks : Len(sent[t]) \in Nat /\ Len(outcome[t]) \in Nat
    BY LoadTestAssumption DEF TypeOK, SeqInv
<1> NumTurns' = NumTurns /\ AllTasks' = AllTasks
    BY DEF NumTurns, AllTasks
<1>1. ASSUME NEW t \in AllTasks, NEW m \in Message, Sends(t, m) PROVE MadeInv'
    <2>1. /\ at[t] = "waiting" /\ outcome' = outcome /\ UNCHANGED <<mode, trial>>
          /\ at' = [at EXCEPT ![t] = "open"] /\ Len(sent'[t]) = Len(sent[t]) + 1
          /\ \A u \in AllTasks \ {t} : sent'[u] = sent[u]
        BY <1>1, SendEffect
    <2>2. at'[t] = "open" /\ \A u \in AllTasks \ {t} : at'[u] = at[u]
        BY <2>1 DEF TypeOK
    <2>3. Tasks' = Tasks /\ Tasks \subseteq AllTasks
        BY <2>1, TasksAreNumbers DEF Tasks
    <2>4. Started(t) = 0 /\ Started(t)' = 1 /\ \A u \in AllTasks \ {t} : Started(u)' = Started(u)
        BY <2>1, <2>2 DEF Started
    <2>5. ASSUME mode = "agentic", NEW u \in AllTasks PROVE StreamInv(u)'
        <3>1. StreamInv(u)
            BY <2>5 DEF MadeInv
        <3>2. CASE u = t
            BY <2>1, <2>2, <2>4, <3>1, <3>2 DEF StreamInv
        <3>3. CASE u # t
            BY <2>1, <2>2, <2>4, <3>1, <3>3 DEF StreamInv
        <3> QED
            BY <3>2, <3>3
    <2> QED
        BY <2>1, <2>3, <2>4, <2>5 DEF MadeInv
<1>2. ASSUME NEW t \in AllTasks, Reads(t) PROVE MadeInv'
    <2>1. /\ UNCHANGED <<mode, trial, sent, outcome>> /\ t \in Busy /\ at'[t] = "stream"
          /\ \A u \in AllTasks \ {t} : at'[u] = at[u]
          /\ \A u \in AllTasks : Started(u)' = Started(u)
        BY <1>2, ReadEffect
    <2>2. Tasks' = Tasks /\ Tasks \subseteq AllTasks
        BY <2>1, TasksAreNumbers DEF Tasks
    <2>3. ASSUME mode = "agentic", NEW u \in AllTasks PROVE StreamInv(u)'
        BY <2>1, <2>3 DEF MadeInv, StreamInv, Busy
    <2> QED
        BY <2>1, <2>2, <2>3 DEF MadeInv
<1>3. ASSUME NEW t \in AllTasks, NEW how \in Ends, NEW ok \in BOOLEAN, NEW again \in BOOLEAN,
             Notes(t, how, ok, again)
      PROVE  MadeInv'
    <2>1. /\ t \in InFlight /\ sent' = sent /\ UNCHANGED <<mode, trial>>
          /\ at' = [at EXCEPT ![t] = IF again THEN "waiting" ELSE "ended"]
          /\ Len(outcome'[t]) = Len(outcome[t]) + 1
          /\ outcome'[t][Len(outcome[t]) + 1] = [ok |-> ok]
          /\ \A i \in 1..Len(outcome[t]) : outcome'[t][i] = outcome[t][i]
          /\ \A u \in AllTasks \ {t} : outcome'[u] = outcome[u]
        BY <1>3, NoteEffect
    <2>2. /\ at[t] \in {"open", "stream"} /\ at'[t] = (IF again THEN "waiting" ELSE "ended")
          /\ \A u \in AllTasks \ {t} : at'[u] = at[u]
        BY <2>1 DEF TypeOK, InFlight
    <2>3. Tasks' = Tasks /\ Tasks \subseteq AllTasks
        BY <2>1, TasksAreNumbers DEF Tasks
    <2>4. IF mode = "agentic" THEN again = GoesOn(t, ok) ELSE ~again
        BY <1>3 DEF Notes
    <2>5. mode # "agentic" => \A u \in AllTasks : Started(u)' = Started(u)
        BY <2>2, <2>4 DEF Started
    <2>6. Len(sent[t]) = Len(outcome[t]) + 1
        BY <2>2 DEF TypeOK
    <2>7. ASSUME mode = "agentic", NEW u \in AllTasks PROVE StreamInv(u)'
        <3>1. StreamInv(u)
            BY <2>7 DEF MadeInv
        <3>2. CASE u # t
            BY <2>1, <2>2, <3>1, <3>2 DEF StreamInv, Started
        <3>3. CASE u = t
            <4>1. \A i \in 1..Len(outcome[t]) : outcome'[t][i].ok
                BY <2>1, <2>2, <3>1, <3>3 DEF StreamInv
            <4>2. Len(outcome'[t]) = Len(sent'[t]) /\ outcome'[t][Len(sent'[t])].ok = ok
                BY <2>1, <2>6
            <4>3. again <=> ok /\ Len(sent'[t]) < NumTurns
                BY <2>1, <2>4, <2>7 DEF GoesOn
            <4>4. Len(sent'[t]) <= NumTurns
                BY <2>1, <3>1, <3>3 DEF StreamInv
            <4>5. ASSUME NEW i \in 1..Len(outcome'[t])
                  PROVE  outcome'[t][i].ok \/ (at'[t] = "ended" /\ i = Len(outcome'[t]))
                <5>1. i \in 1..Len(outcome[t]) \/ i = Len(outcome'[t])
                    BY <2>1
                <5>2. ok \/ at'[t] = "ended"
                    BY <2>2, <4>3
                <5> QED
                    BY <4>1, <4>2, <5>1, <5>2
            <4>6. at'[t] = "waiting" => Len(sent'[t]) < NumTurns
                BY <2>2, <4>3
            <4>7. at'[t] = "ended" => Len(sent'[t]) = NumTurns \/ ~outcome'[t][Len(sent'[t])].ok
                BY <2>1, <2>2, <4>2, <4>3, <4>4
            <4>8. Started(t) = 1 /\ Started(t)' \in {0, 1}
                BY <2>2 DEF Started
            <4>9. Len(sent'[t]) >= Started(t)'
                BY <2>1, <3>1, <3>3, <4>8 DEF StreamInv
            <4> QED
                BY <3>3, <4>4, <4>5, <4>6, <4>7, <4>9 DEF StreamInv
        <3> QED
            BY <3>2, <3>3
    <2> QED
        BY <2>1, <2>3, <2>5, <2>7 DEF MadeInv
<1>4. CASE NextTrial
    <2>1. /\ mode = "bench" /\ UNCHANGED <<mode, sent>> /\ trial' = trial + 1
          /\ \A u \in AllTasks : at'[u] = "waiting"
          /\ \A u \in Tasks : at[u] = "ended"
        BY <1>4 DEF NextTrial, setupVars, AllEnded
    <2>2. Tasks' = Tasks /\ Tasks \subseteq AllTasks
        BY <2>1, TasksAreNumbers DEF Tasks
    <2> QED
        BY <2>1, <2>2 DEF MadeInv, Started
<1>5. CASE NextContext
    <2>1. /\ mode = "bench" /\ mode' = mode /\ trial' = 0
          /\ \A u \in AllTasks : at'[u] = "waiting" /\ sent'[u] = <<>>
        BY <1>5 DEF NextContext, CellDone, setupVars
    <2>2. Tasks' = Tasks /\ Tasks \subseteq AllTasks
        BY <2>1, TasksAreNumbers DEF Tasks
    <2>3. \A u \in AllTasks : Len(sent'[u]) = 0
        BY <2>1
    <2>4. \A u \in AllTasks : Started(u)' = 0
        BY <2>1 DEF Started
    <2> QED
        BY <2>1, <2>2, <2>3, <2>4 DEF MadeInv
<1>6. CASE mode' = mode /\ UNCHANGED <<trial, taskVars>>
    <2>1. /\ UNCHANGED <<mode, trial, at, sent, outcome>> /\ Tasks' = Tasks
          /\ \A u \in AllTasks : Started(u)' = Started(u)
        BY <1>6 DEF taskVars, Tasks, Started
    <2>2. ASSUME mode = "agentic", NEW u \in AllTasks PROVE StreamInv(u)'
        BY <2>1, <2>2 DEF MadeInv, StreamInv
    <2> QED
        BY <2>1, <2>2, TasksAreNumbers DEF MadeInv
<1>7. CASE pc = "args" /\ mode' \in StressModes /\ UNCHANGED <<trial, taskVars>>
    <2>1. UNCHANGED <<at, sent, outcome>>
        BY <1>7 DEF taskVars
    <2>2. \A u \in AllTasks : at[u] = "waiting" /\ sent[u] = <<>> /\ outcome[u] = <<>>
        BY <1>7 DEF PhaseInv
    <2>3. \A u \in AllTasks : Len(sent'[u]) = 0 /\ Len(outcome'[u]) = 0 /\ Started(u)' = 0
        BY <2>1, <2>2 DEF Started
    <2>4. \A u \in AllTasks : StreamInv(u)'
        BY <2>1, <2>2, <2>3 DEF StreamInv
    <2> QED
        BY <1>7, <2>3, <2>4 DEF MadeInv, StressModes
<1> QED
    BY <1>1, <1>2, <1>3, <1>4, <1>5, <1>6, <1>7, Kinds DEF Advances, Stops

LEMMA ExitKept ==
    ASSUME IInv, Next
    PROVE  ExitInv'
<1> PhaseInv /\ SeqInv /\ Tasks \subseteq AllTasks
    BY TasksAreNumbers DEF IInv
<1>1. CASE Stops
    <2>1. SUFFICES ASSUME AllEnded, Failures = {}, mode' = mode, UNCHANGED taskVars
                   PROVE  \A t \in Tasks' :
                              at'[t] = "ended" /\ \A i \in 1..Len(outcome'[t]) : outcome'[t][i].ok
        BY <1>1 DEF Stops, ExitInv
    <2>2. Tasks' = Tasks /\ at' = at /\ outcome' = outcome
        BY <2>1 DEF Tasks, taskVars
    <2>3. ASSUME NEW t \in Tasks, NEW i \in 1..Len(outcome[t]) PROVE outcome[t][i].ok
        <3>1. i \in DOMAIN outcome[t]
            BY DEF SeqInv
        <3> QED
            BY <2>1, <3>1 DEF Failures
    <2> QED
        BY <2>1, <2>2, <2>3 DEF AllEnded
<1>2. CASE pc # "over" /\ exit' = exit
    BY <1>2 DEF ExitInv, PhaseInv
<1>3. ASSUME NEW t \in AllTasks, Reads(t) PROVE pc # "over" /\ exit' = exit
    BY <1>3, ReadEffect DEF PhaseInv
<1>4. ASSUME NEW t \in AllTasks, NEW how \in Ends, NEW ok \in BOOLEAN, NEW again \in BOOLEAN,
             Notes(t, how, ok, again)
      PROVE  pc # "over" /\ exit' = exit
    <2>1. t \in InFlight /\ exit' = exit
        BY <1>4, NoteEffect
    <2>2. t \in Busy
        BY <2>1 DEF InFlight, Busy
    <2> QED
        BY <2>1, <2>2 DEF PhaseInv
<1>5. ASSUME NEW t \in AllTasks, NEW m \in Message, Sends(t, m) PROVE pc # "over" /\ exit' = exit
    BY <1>5, SendEffect
<1>6. CASE NextTrial \/ NextContext \/ Advances
    <2>1. pc # "over" /\ exit' = exit
        BY <1>6 DEF NextTrial, NextContext, CellDone, AllEnded, Advances, setupVars
    <2> QED
        BY <2>1, <1>2
<1> QED
    BY <1>1, <1>2, <1>3, <1>4, <1>5, <1>6, Kinds

LEMMA SentKept ==
    ASSUME IInv, Next
    PROVE  SentInv'
<1> SeqInv /\ PhaseInv /\ SentInv
    BY DEF IInv
<1> NumChunks' = NumChunks /\ AllTasks' = AllTasks
    BY DEF NumChunks, AllTasks
<1> \A t \in AllTasks, n \in Nat : AgentMessages(t, n)' = AgentMessages(t, n)
    BY DEF AgentMessages, Chunk
<1> \A t \in AllTasks : Len(sent[t]) \in Nat
    BY DEF SeqInv
<1>1. ASSUME NEW t \in AllTasks, NEW m \in Message, Sends(t, m) PROVE SentInv'
    <2>1. /\ mode' = mode /\ Len(sent'[t]) = Len(sent[t]) + 1
          /\ sent'[t][Len(sent[t]) + 1] = m
          /\ \A i \in 1..Len(sent[t]) : sent'[t][i] = sent[t][i]
          /\ \A u \in AllTasks \ {t} : sent'[u] = sent[u]
        BY <1>1, SendEffect
    <2>2. /\ mode = "agentic" => m = AgentMessages(t, Len(sent[t]))
          /\ mode = "pp" => m = <<<<"prefix", t - 1>>>>
        BY <1>1 DEF Sends
    <2>3. ASSUME mode = "agentic", NEW u \in AllTasks, NEW i \in 1..Len(sent'[u])
          PROVE  sent'[u][i] = AgentMessages(u, i - 1)
        <3>1. CASE u # t
            BY <2>1, <2>3, <3>1 DEF SentInv
        <3>2. CASE u = t /\ i \in 1..Len(sent[t])
            BY <2>1, <2>3, <3>2 DEF SentInv
        <3>3. CASE u = t /\ i = Len(sent[t]) + 1
            BY <2>1, <2>2, <2>3, <3>3
        <3> QED
            BY <2>1, <3>1, <3>2, <3>3
    <2>4. ASSUME mode = "pp", NEW u \in AllTasks, NEW i \in 1..Len(sent'[u])
          PROVE  sent'[u][i] = <<<<"prefix", u - 1>>>>
        <3>1. CASE u # t
            BY <2>1, <2>4, <3>1 DEF SentInv
        <3>2. CASE u = t /\ i \in 1..Len(sent[t])
            BY <2>1, <2>4, <3>2 DEF SentInv
        <3>3. CASE u = t /\ i = Len(sent[t]) + 1
            BY <2>1, <2>2, <2>4, <3>3
        <3> QED
            BY <2>1, <3>1, <3>2, <3>3
    <2>5. \A u \in AllTasks : \A i \in 1..Len(sent'[u]) : i - 1 \in Nat
        OBVIOUS
    <2> QED
        BY <2>1, <2>3, <2>4, <2>5 DEF SentInv
<1>2. CASE mode' = mode /\ sent' = sent
    <2>1. \A u \in AllTasks : \A i \in 1..Len(sent'[u]) : i - 1 \in Nat
        OBVIOUS
    <2> QED
        BY <1>2, <2>1 DEF SentInv
<1>3. CASE mode = "bench" /\ mode' = mode
    BY <1>3 DEF SentInv
<1>4. CASE pc = "args" /\ sent' = sent
    <2>1. \A u \in AllTasks : Len(sent'[u]) = 0
        BY <1>4 DEF PhaseInv
    <2> QED
        BY <2>1 DEF SentInv
<1>5. ASSUME NEW t \in AllTasks, Reads(t) PROVE mode' = mode /\ sent' = sent
    BY <1>5, ReadEffect
<1>6. ASSUME NEW t \in AllTasks, NEW how \in Ends, NEW ok \in BOOLEAN, NEW again \in BOOLEAN,
             Notes(t, how, ok, again)
      PROVE  mode' = mode /\ sent' = sent
    BY <1>6, NoteEffect
<1>7. CASE NextTrial \/ NextContext
    BY <1>3, <1>7 DEF NextTrial, NextContext, CellDone, setupVars
<1>8. CASE Advances \/ Stops
    BY <1>2, <1>4, <1>8 DEF Advances, Stops, taskVars
<1> QED
    BY <1>1, <1>2, <1>5, <1>6, <1>7, <1>8, Kinds

\* What is set up before a request is sent.
SetupOK ==
    /\ mode \in StressModes \union {"none", "embed", "bench"} /\ flags \subseteq StressModes
    /\ pc \in {"args", "scout", "warm", "run", "over"} /\ exit \in {"none", "ok", "failed"}
    /\ tokenizer \in Tokenizers /\ sample \in Samples \union {NoSample}
    /\ target \in Targets /\ pending \subseteq Targets
    /\ base \in Nat /\ text \in Nat /\ trial \in 0..Trials - 1

\* What is known of each task.
ReadingOK ==
    /\ at \in [AllTasks -> {"waiting", "open", "stream", "ended"}]
    /\ chunk \in [AllTasks -> BOOLEAN] /\ lines \in [AllTasks -> 0..MaxLines]

Counted(t) == Len(sent[t]) = Len(outcome[t]) + (IF at[t] \in {"open", "stream"} THEN 1 ELSE 0)

CountedOK == \A t \in AllTasks : Counted(t)

LEMMA SetupKept ==
    ASSUME SetupOK, Next
    PROVE  SetupOK'
<1> USE DEF SetupOK
<1>1. CASE UNCHANGED <<setupVars, pc, aimVars, trial>>
    BY <1>1 DEF setupVars, aimVars
<1>2. CASE RefuseFlags \/ ScoutFails \/ WarmFails \/ Report \/ ReportEmbedding \/ BenchDone
    <2>1. UNCHANGED <<mode, flags, tokenizer, sample, aimVars, trial>> /\ pc' = "over"
        BY <1>2 DEF RefuseFlags, ScoutFails, WarmFails, Report, ReportEmbedding, BenchDone, Over
    <2>2. exit' \in {"ok", "failed"}
        BY <1>2 DEF RefuseFlags, ScoutFails, WarmFails, Report, ReportEmbedding, BenchDone, Over,
                    ExitCode
    <2> QED
        BY <2>1, <2>2 DEF aimVars
<1>3. CASE ChooseMode
    <2>1. mode' \in StressModes
        BY <1>3 DEF ChooseMode, StressModes
    <2> QED
        BY <1>3, <2>1 DEF ChooseMode, aimVars
<1>4. CASE ScoutPrefix
    <2>1. /\ sample' \in Samples
          /\ text' = Weight(sample', CalibratePrefix(tokenizer, sample', target))
        BY <1>4 DEF ScoutPrefix
    <2>2. text' \in Nat
        BY <2>1, PrefixIsText, LoadTestAssumption
    <2> QED
        BY <1>4, <2>1, <2>2 DEF ScoutPrefix
<1>5. CASE ScoutPrompt
    <2>1. sample' \in Samples /\ text' = CalibratePrompt(tokenizer, sample', target, base)
        BY <1>5 DEF ScoutPrompt
    <2>2. text' \in Nat
        BY <2>1, PromptIsText, LoadTestAssumption
    <2> QED
        BY <1>5, <2>1, <2>2 DEF ScoutPrompt
<1>6. CASE Warm
    BY <1>6 DEF Warm, setupVars, aimVars
<1>7. CASE NextTrial
    BY <1>7, LoadTestAssumption DEF NextTrial, setupVars, aimVars
<1>8. CASE NextContext \/ ScoutSkips
    <2>1. target' \in pending /\ pending' \subseteq pending /\ pc' = "scout"
        BY <1>8 DEF NextContext, ScoutSkips, TakeContext, Following, Shorter
    <2>2. UNCHANGED <<mode, flags, exit, tokenizer, sample, text>>
        BY <1>8 DEF NextContext, ScoutSkips, setupVars
    <2>3. base' \in Nat /\ trial' \in 0..Trials - 1
        BY <1>8, LoadTestAssumption DEF NextContext, ScoutSkips
    <2> QED
        BY <2>1, <2>2, <2>3
<1>9. ASSUME NEW t \in AllTasks,
             Send(t) \/ Answer(t) \/ Line(t) \/ \E how \in Ends : End(t, how)
      PROVE  UNCHANGED <<setupVars, pc, aimVars, trial>>
    <2>1. CASE Send(t)
        BY <2>1 DEF Send, SendRequest, SendTurn, SendEmbedding, SendTimed, Begin
    <2>2. CASE \E how \in Ends : End(t, how)
        BY <2>2 DEF End, RequestEnds, TurnEnds, EmbeddingEnds, TimedEnds, Note
    <2> QED
        BY <1>9, <2>1, <2>2 DEF Answer, Line
<1> QED
    BY <1>1, <1>2, <1>3, <1>4, <1>5, <1>6, <1>7, <1>8, <1>9 DEF Next, Main

LEMMA ReadingKept ==
    ASSUME ReadingOK, Next
    PROVE  ReadingOK'
<1> USE DEF ReadingOK
<1> AllTasks' = AllTasks /\ MaxLines \in Nat
    BY LoadTestAssumption DEF AllTasks
<1>1. ASSUME NEW t \in AllTasks, Send(t) PROVE ReadingOK'
    <2>1. at' = [at EXCEPT ![t] = "open"] /\ UNCHANGED <<chunk, lines>>
        BY <1>1 DEF Send, SendRequest, SendTurn, SendEmbedding, SendTimed, Begin
    <2> QED
        BY <2>1
<1>2. ASSUME NEW t \in AllTasks, Answer(t) PROVE ReadingOK'
    BY <1>2 DEF Answer
<1>3. ASSUME NEW t \in AllTasks, Line(t) PROVE ReadingOK'
    <2>1. at' = at /\ lines[t] < MaxLines /\ lines' = [lines EXCEPT ![t] = lines[t] + 1]
        BY <1>3 DEF Line
    <2>2. chunk' = chunk \/ chunk' = [chunk EXCEPT ![t] = TRUE]
        BY <1>3 DEF Line
    <2>3. chunk' \in [AllTasks -> BOOLEAN]
        BY <2>2
    <2>4. lines' \in [AllTasks -> 0..MaxLines]
        BY <2>1
    <2> QED
        BY <2>1, <2>3, <2>4
<1>4. ASSUME NEW t \in AllTasks, NEW how \in Ends, End(t, how) PROVE ReadingOK'
    <2>1. /\ at' = [at EXCEPT ![t] = "waiting"] \/ at' = [at EXCEPT ![t] = "ended"]
          /\ chunk' = [chunk EXCEPT ![t] = FALSE] /\ lines' = [lines EXCEPT ![t] = 0]
        BY <1>4 DEF End, RequestEnds, TurnEnds, EmbeddingEnds, TimedEnds, Note
    <2> QED
        BY <2>1
<1>5. CASE NextTrial \/ NextContext
    BY <1>5 DEF NextTrial, NextContext
<1>6. CASE UNCHANGED taskVars
    BY <1>6 DEF taskVars
<1> QED
    BY <1>1, <1>2, <1>3, <1>4, <1>5, <1>6
    DEF Next, Main, RefuseFlags, ChooseMode, ScoutPrefix, ScoutPrompt, ScoutSkips, ScoutFails,
        Warm, WarmFails, Report, ReportEmbedding, BenchDone

LEMMA CountsKept ==
    ASSUME IInv, Next
    PROVE  CountedOK'
<1>a. TypeOK /\ PhaseInv /\ \A t \in AllTasks : Counted(t)
    BY DEF IInv, TypeOK, Counted
<1>b. \A t \in AllTasks : Len(sent[t]) \in Nat /\ Len(outcome[t]) \in Nat
    BY DEF IInv, SeqInv
<1> SUFFICES ASSUME NEW u \in AllTasks PROVE Counted(u)'
    BY DEF CountedOK, AllTasks
<1>1. ASSUME NEW t \in AllTasks, NEW m \in Message, Sends(t, m) PROVE Counted(u)'
    <2>1. /\ at[t] = "waiting" /\ at' = [at EXCEPT ![t] = "open"] /\ outcome' = outcome
          /\ Len(sent'[t]) = Len(sent[t]) + 1
          /\ \A v \in AllTasks \ {t} : sent'[v] = sent[v]
        BY <1>1, SendEffect
    <2>2. at'[t] = "open" /\ \A v \in AllTasks \ {t} : at'[v] = at[v]
        BY <1>a, <1>b, <2>1 DEF TypeOK
    <2>3. Counted(t)'
        <3>1. Len(sent[t]) = Len(outcome[t])
            <4>1. at[t] \notin {"open", "stream"} /\ Len(outcome[t]) \in Nat /\ Counted(t)
                BY <1>a, <1>b, <2>1
            <4> QED
                BY <4>1 DEF Counted
        <3>2. Len(sent'[t]) = Len(outcome'[t]) + 1
            BY <1>a, <1>b, <2>1, <3>1
        <3> QED
            BY <2>2, <3>2 DEF Counted
    <2>4. CASE u # t
        BY <1>a, <1>b, <2>1, <2>2, <2>4 DEF Counted
    <2> QED
        BY <2>3, <2>4
<1>2. ASSUME NEW t \in AllTasks, Reads(t) PROVE Counted(u)'
    <2>1. /\ UNCHANGED <<sent, outcome>> /\ t \in Busy /\ at'[t] = "stream"
          /\ \A v \in AllTasks \ {t} : at'[v] = at[v]
        BY <1>2, ReadEffect
    <2> QED
        BY <1>a, <1>b, <2>1 DEF Counted, Busy
<1>3. ASSUME NEW t \in AllTasks, NEW how \in Ends, NEW ok \in BOOLEAN, NEW again \in BOOLEAN,
             Notes(t, how, ok, again)
      PROVE  Counted(u)'
    <2>1. /\ t \in InFlight /\ sent' = sent
          /\ at' = [at EXCEPT ![t] = IF again THEN "waiting" ELSE "ended"]
          /\ Len(outcome'[t]) = Len(outcome[t]) + 1
          /\ outcome'[t][Len(outcome[t]) + 1] = [ok |-> ok]
          /\ \A i \in 1..Len(outcome[t]) : outcome'[t][i] = outcome[t][i]
          /\ \A v \in AllTasks \ {t} : outcome'[v] = outcome[v]
        BY <1>3, NoteEffect
    <2>2. /\ at[t] \in {"open", "stream"} /\ at'[t] = (IF again THEN "waiting" ELSE "ended")
          /\ \A v \in AllTasks \ {t} : at'[v] = at[v]
        BY <1>a, <1>b, <2>1 DEF TypeOK, InFlight
    <2>3. at'[t] \notin {"open", "stream"}
        BY <2>2
    <2>4. Counted(t)'
        <3>1. Len(sent[t]) = Len(outcome[t]) + 1
            BY <1>a, <1>b, <2>2 DEF Counted
        <3>2. Len(sent'[t]) = Len(outcome'[t])
            BY <1>a, <1>b, <2>1, <3>1
        <3>3. Len(outcome'[t]) \in Nat
            BY <1>a, <1>b, <2>1
        <3> QED
            BY <2>3, <3>2, <3>3 DEF Counted
    <2>5. CASE u # t
        BY <1>a, <1>b, <2>1, <2>2, <2>5 DEF Counted
    <2> QED
        BY <2>4, <2>5
<1>4. CASE NextTrial
    <2>1. UNCHANGED <<sent, outcome>> /\ at'[u] = "waiting" /\ at[u] \notin {"open", "stream"}
        BY <1>a, <1>b, <1>4 DEF NextTrial, AllEnded, PhaseInv
    <2> QED
        BY <1>a, <1>b, <2>1 DEF Counted
<1>5. CASE NextContext
    <2>1. at'[u] = "waiting" /\ sent'[u] = <<>> /\ outcome'[u] = <<>>
        BY <1>a, <1>b, <1>5 DEF NextContext
    <2>2. Len(sent'[u]) = 0 /\ Len(outcome'[u]) = 0
        BY <2>1
    <2> QED
        BY <2>1, <2>2 DEF Counted
<1>6. CASE Advances \/ Stops
    BY <1>a, <1>b, <1>6 DEF Advances, Stops, taskVars, Counted
<1> QED
    BY <1>1, <1>2, <1>3, <1>4, <1>5, <1>6, Kinds

LEMMA SeqsKept ==
    ASSUME IInv, Next
    PROVE  SeqInv'
<1> SeqInv
    BY DEF IInv
<1>1. CASE NextContext
    BY <1>1 DEF NextContext, SeqInv, AllTasks
<1>2. CASE UNCHANGED <<sent, outcome>>
    BY <1>2 DEF SeqInv, AllTasks
<1>3. CASE NextTrial \/ Advances \/ Stops
    BY <1>2, <1>3 DEF NextTrial, Advances, Stops, taskVars
<1>4. ASSUME NEW t \in AllTasks, NEW m \in Message, Sends(t, m) PROVE SeqInv'
    BY <1>4, SendEffect
<1>5. ASSUME NEW t \in AllTasks, Reads(t) PROVE SeqInv'
    BY <1>5, ReadEffect
<1>6. ASSUME NEW t \in AllTasks, NEW how \in Ends, NEW ok \in BOOLEAN, NEW again \in BOOLEAN,
             Notes(t, how, ok, again)
      PROVE  SeqInv'
    BY <1>6, NoteEffect
<1> QED
    BY <1>1, <1>3, <1>4, <1>5, <1>6, Kinds

LEMMA Inductive ==
    ASSUME IInv, [Next]_vars
    PROVE  IInv'
<1>1. CASE Next
    <2>1. SeqInv' /\ PhaseInv' /\ PermitInv' /\ MadeInv' /\ ExitInv' /\ SentInv'
        BY <1>1, SeqsKept, PhaseKept, PermitsKept, MadeKept, ExitKept, SentKept
    <2>2. SetupOK /\ ReadingOK
        BY DEF IInv, TypeOK, SetupOK, ReadingOK
    <2>3. SetupOK' /\ ReadingOK' /\ CountedOK'
        BY <1>1, <2>2, SetupKept, ReadingKept, CountsKept
    <2>4. free' \in 0..Ccu
        <3>1. IsFiniteSet(Busy') /\ Cardinality(Busy') \in Nat
            BY TasksAreNumbers, FS_Subset, FS_CardinalityType DEF Busy, AllTasks
        <3> QED
            BY <2>1, <3>1, LoadTestAssumption DEF PermitInv
    <2>5. \A t \in AllTasks : \A i \in DOMAIN outcome'[t] : outcome'[t][i] \in Result
        <3>1. \A t \in AllTasks : outcome'[t] \in Seq(Result)
            BY <2>1 DEF SeqInv, AllTasks
        <3> QED
            BY <3>1, ElementOfSeq
    <2>6. TypeOK'
        BY <2>3, <2>4, <2>5
        DEF TypeOK, SetupOK, ReadingOK, CountedOK, Counted, Result, AllTasks
    <2> QED
        BY <2>1, <2>6 DEF IInv
<1>2. CASE UNCHANGED vars
    BY <1>2
    DEF vars, setupVars, aimVars, taskVars, IInv, TypeOK, SeqInv, PhaseInv, PermitInv, MadeInv,
        ExitInv, SentInv, StreamInv, Started, Busy, Tasks, AllTasks, NumTurns, AgentMessages, Chunk,
        NumChunks
<1> QED
    BY <1>1, <1>2

LEMMA InitHolds ==
    ASSUME Init
    PROVE  IInv
<1> Ccu \in Nat \ {0} /\ Total \in Nat \ {0} /\ Trials \in Nat \ {0} /\ MaxLines \in Nat
    BY LoadTestAssumption
<1>1. /\ \A t \in AllTasks : at[t] = "waiting" /\ sent[t] = <<>> /\ outcome[t] = <<>>
      /\ \A t \in AllTasks : Len(sent[t]) = 0 /\ Len(outcome[t]) = 0 /\ Started(t) = 0
    BY DEF Init, Started
<1>2. SeqInv
    BY DEF Init, SeqInv
<1>3. Busy = {}
    BY <1>1 DEF Busy
<1>4. SetupOK
    BY DEF Init, SetupOK, StressModes
<1>5. ReadingOK
    <2>1. /\ at = [t \in AllTasks |-> "waiting"] /\ chunk = [t \in AllTasks |-> FALSE]
          /\ lines = [t \in AllTasks |-> 0]
        BY DEF Init
    <2>2. chunk \in [AllTasks -> BOOLEAN]
        BY <2>1
    <2>3. at \in [AllTasks -> {"waiting", "open", "stream", "ended"}]
        BY <2>1
    <2>4. lines \in [AllTasks -> 0..MaxLines]
        BY <2>1
    <2> QED
        BY <2>2, <2>3, <2>4 DEF ReadingOK
<1>6. CountedOK
    <2> SUFFICES ASSUME NEW t \in AllTasks PROVE Counted(t)
        BY DEF CountedOK
    <2>1. at[t] \notin {"open", "stream"} /\ Len(sent[t]) = 0 /\ Len(outcome[t]) = 0
        BY <1>1
    <2> QED
        BY <2>1 DEF Counted
<1>7. free = Ccu /\ trial = 0 /\ exit = "none"
    BY DEF Init
<1>8. TypeOK
    <2>1. \A t \in AllTasks : DOMAIN outcome[t] = {}
        BY <1>1
    <2>2. free \in 0..Ccu
        BY <1>7
    <2> QED
        BY <1>4, <1>5, <1>6, <2>1, <2>2 DEF TypeOK, SetupOK, ReadingOK, CountedOK, Counted
<1>9. PhaseInv
    BY <1>1, <1>3, <1>7 DEF Init, PhaseInv
<1>10. PermitInv
    BY <1>3, <1>7, FS_EmptySet DEF PermitInv
<1>11. MadeInv
    <2>1. \A t \in AllTasks : StreamInv(t)
        BY <1>1, TurnsCounted DEF StreamInv
    <2> QED
        BY <1>1, <1>7, <2>1, TasksAreNumbers DEF MadeInv
<1>12. ExitInv
    BY <1>7 DEF ExitInv
<1>13. SentInv
    BY <1>1 DEF SentInv
<1> QED
    BY <1>2, <1>8, <1>9, <1>10, <1>11, <1>12, <1>13 DEF IInv

(***************************************************************************)
(* What follows                                                            *)
(***************************************************************************)

LEMMA Invariant == Spec => []IInv
<1>1. Init => IInv
    BY InitHolds
<1>2. IInv /\ [Next]_vars => IInv'
    BY Inductive
<1> QED
    BY <1>1, <1>2, PTL DEF Spec

\* Types, and an outcome for every request that is not in flight, in all clients.
THEOREM TypeCorrect == Spec => []TypeOK
<1>1. IInv => TypeOK
    BY DEF IInv
<1> QED
    BY <1>1, Invariant, PTL

\* The semaphore, or the number of streams of a trial, bounds what is in flight.
LEMMA InFlightFew ==
    ASSUME IInv
    PROVE  InFlightBounded
<1> Ccu \in Nat \ {0}
    BY LoadTestAssumption
<1>1. IsFiniteSet(Busy) /\ Cardinality(Busy) \in Nat /\ InFlight \subseteq Busy
    BY TasksAreNumbers, FS_Subset, FS_CardinalityType DEF Busy, InFlight
<1>2. Cardinality(InFlight) <= Ccu
    <2>1. CASE mode = "bench"
        <3>1. InFlight \subseteq 0..Ccu - 1
            BY <2>1 DEF InFlight, Tasks
        <3>2. IsFiniteSet(0..Ccu - 1) /\ Cardinality(0..Ccu - 1) = Ccu
            BY FS_Interval
        <3> QED
            BY <3>1, <3>2, FS_Subset
    <2>2. CASE mode # "bench"
        <3>1. Cardinality(Busy) <= Ccu
            BY <1>1, <2>2 DEF IInv, PermitInv
        <3>2. Cardinality(InFlight) <= Cardinality(Busy) /\ Cardinality(InFlight) \in Nat
            BY <1>1, FS_Subset, FS_CardinalityType
        <3> QED
            BY <1>1, <3>1, <3>2
    <2> QED
        BY <2>1, <2>2
<1>3. ASSUME mode = "bench", NEW t \in InFlight PROVE Len(sent[t]) = trial + 1
    BY <1>3 DEF IInv, MadeInv, Started, InFlight
<1> QED
    BY <1>2, <1>3 DEF InFlightBounded

\* Never more requests in flight than the concurrency asked for, and of one trial only.
THEOREM Bounded == Spec => []InFlightBounded
BY Invariant, InFlightFew, PTL

LEMMA ExitTells ==
    ASSUME IInv
    PROVE  CleanExit
<1> DEFINE made == {p \in AllTasks \X (1..Total) : p[2] \in DOMAIN outcome[p[1]]}
           n == IF mode = "agentic" THEN NumTurns ELSE 1
<1> Ccu \in Nat \ {0} /\ Total \in Nat \ {0}
    BY LoadTestAssumption
<1> TypeOK /\ SeqInv /\ PhaseInv /\ MadeInv /\ ExitInv
    BY DEF IInv
<1>1. SUFFICES ASSUME pc = "over", exit = "ok", mode \in StressModes
               PROVE  /\ \A p \in made : outcome[p[1]][p[2]].ok
                      /\ Cardinality(made) >= Total
                      /\ Cardinality(made) < Total + (IF mode = "agentic" THEN Ccu ELSE 1)
    BY DEF CleanExit
<1>2. /\ mode = "agentic" => Tasks = 1..Ccu
      /\ mode # "agentic" => mode \in {"pp", "tg"} /\ Tasks = 1..Total
    BY <1>1 DEF Tasks, StressModes
<1>3. Tasks \subseteq AllTasks /\ n \in 1..Total
    BY TasksAreNumbers, TurnsCounted
<1>4. \A t \in Tasks : at[t] = "ended" /\ \A i \in 1..Len(outcome[t]) : outcome[t][i].ok
    BY <1>1 DEF ExitInv
<1>5. ASSUME NEW t \in AllTasks PROVE DOMAIN outcome[t] = IF t \in Tasks THEN 1..n ELSE {}
    <2>1. /\ DOMAIN outcome[t] = 1..Len(outcome[t]) /\ Len(outcome[t]) \in Nat
          /\ Len(sent[t]) \in Nat
        BY DEF SeqInv
    <2>2. at[t] \notin {"open", "stream"} => Len(sent[t]) = Len(outcome[t])
        <3>1. Len(sent[t]) = Len(outcome[t]) + (IF at[t] \in {"open", "stream"} THEN 1 ELSE 0)
            BY DEF TypeOK
        <3> QED
            BY <2>1, <3>1
    <2>3. CASE t \in Tasks /\ mode # "agentic"
        <3>1. Len(outcome[t]) = 1
            BY <1>2, <1>4, <2>2, <2>3 DEF MadeInv, Started
        <3> QED
            BY <2>1, <2>3, <3>1
    <2>4. CASE t \in Tasks /\ mode = "agentic"
        <3>1. at[t] = "ended" /\ StreamInv(t)
            BY <1>4, <2>4 DEF MadeInv
        <3>2. Len(outcome[t]) = Len(sent[t])
            BY <2>2, <3>1
        <3>3. Len(sent[t]) >= 1
            BY <3>1 DEF StreamInv, Started
        <3>4. outcome[t][Len(sent[t])].ok
            BY <1>4, <2>1, <2>4, <3>2, <3>3
        <3>5. Len(sent[t]) = NumTurns
            BY <3>1, <3>4 DEF StreamInv
        <3> QED
            BY <2>1, <2>4, <3>2, <3>5
    <2>5. CASE t \notin Tasks
        <3>1. at[t] = "waiting" /\ Len(sent[t]) = 0
            BY <2>5 DEF PhaseInv
        <3>2. Len(outcome[t]) = 0
            BY <2>2, <3>1
        <3> QED
            BY <2>1, <2>5, <3>2
    <2> QED
        BY <2>3, <2>4, <2>5
<1>6. made = Tasks \X (1..n)
    BY <1>3, <1>5
<1>7. \A p \in made : outcome[p[1]][p[2]].ok
    <2> SUFFICES ASSUME NEW p \in made PROVE outcome[p[1]][p[2]].ok
        OBVIOUS
    <2>1. p[1] \in Tasks /\ p[2] \in DOMAIN outcome[p[1]]
        BY <1>6
    <2>2. DOMAIN outcome[p[1]] = 1..Len(outcome[p[1]])
        BY <1>3, <2>1 DEF SeqInv
    <2> QED
        BY <1>4, <2>1, <2>2
<1>8. Cardinality(made) = Cardinality(Tasks) * n
    <2>1. IsFiniteSet(Tasks)
        BY <1>3, TasksAreNumbers, FS_Subset
    <2>2. IsFiniteSet(1..n) /\ Cardinality(1..n) = n
        BY <1>3, FS_Interval
    <2> QED
        BY <1>6, <2>1, <2>2, FS_Product
<1>9. CASE mode = "agentic"
    <2>1. Cardinality(Tasks) = Ccu
        BY <1>2, <1>9, FS_Interval
    <2> QED
        BY <1>7, <1>8, <1>9, <2>1, TurnsCounted
<1>10. CASE mode # "agentic"
    <2>1. Cardinality(Tasks) = Total
        BY <1>2, <1>10, FS_Interval
    <2> QED
        BY <1>7, <1>8, <1>10, <2>1
<1> QED
    BY <1>9, <1>10

\* Exit code 0 of a stress test: all requests answered, and as many as were asked for.
THEOREM HonestExit == Spec => []CleanExit
BY Invariant, ExitTells, PTL

\* Chunks that a stream sends in different turns are different.
LEMMA ChunksDiffer ==
    ASSUME NEW t \in AllTasks, NEW i \in 0..NumTurns - 1, NEW j \in 0..NumTurns - 1, i < j
    PROVE  Chunk(t, i) # Chunk(t, j)
<1> DEFINE x == t * 1009 + i
<1>1. x \in Nat
    BY TasksAreNumbers
<1>2. j - i \in 1..NumChunks - 1
    BY TurnsCounted
<1>3. t * 1009 + j = x + (j - i)
    BY <1>1, TasksAreNumbers
<1>4. /\ Chunk(t, i) = <<"chunk", x % NumChunks>>
      /\ Chunk(t, j) = <<"chunk", (x + (j - i)) % NumChunks>>
    BY <1>3, ChunkIsPart
<1> HIDE DEF x
<1>5. (x + (j - i)) % NumChunks # x % NumChunks
    BY <1>1, <1>2, TurnsCounted, ModDiffers
<1> QED
    BY <1>4, <1>5

\* A turn sends all that the turn before it sent, and one chunk more.
LEMMA TurnExtends ==
    ASSUME NEW t \in AllTasks, NEW n \in 1..NumTurns - 1
    PROVE  LET last == AgentMessages(t, n - 1)
               this == AgentMessages(t, n)
           IN  /\ SubSeq(this, 1, Len(this) - 1) = last
               /\ \A k \in DOMAIN last : last[k] # this[Len(this)]
<1> DEFINE last == AgentMessages(t, n - 1)
           this == AgentMessages(t, n)
           cut == SubSeq(this, 1, Len(this) - 1)
<1>1. n \in Nat /\ n - 1 \in Nat
    BY TurnsCounted
<1>2. /\ last \in Seq(Part) /\ Len(last) = n + 1 /\ last[1] = <<"prefix", t % Ccu>>
      /\ \A k \in 1..n : last[k + 1] = Chunk(t, k - 1)
    <2>1. /\ AgentMessages(t, n - 1) \in Message
          /\ Len(AgentMessages(t, n - 1)) = (n - 1) + 2
          /\ AgentMessages(t, n - 1)[1] = <<"prefix", t % Ccu>>
          /\ \A k \in 1..(n - 1) + 1 : AgentMessages(t, n - 1)[k + 1] = Chunk(t, k - 1)
        BY <1>1, AgentMessagesAre
    <2>2. (n - 1) + 2 = n + 1 /\ (n - 1) + 1 = n
        BY <1>1
    <2> QED
        BY <2>1, <2>2 DEF Message
<1>3. /\ this \in Seq(Part) /\ Len(this) = n + 2 /\ this[1] = <<"prefix", t % Ccu>>
      /\ \A k \in 1..n + 1 : this[k + 1] = Chunk(t, k - 1)
    BY <1>1, AgentMessagesAre DEF Message
<1> HIDE DEF last, this
<1>4. \A k \in DOMAIN last : k \in 1..n + 1 /\ (k = 1 \/ (k - 1 \in 1..n /\ last[k] = Chunk(t, k - 2)))
    <2> SUFFICES ASSUME NEW k \in 1..n + 1, k # 1
                 PROVE  k - 1 \in 1..n /\ last[k] = Chunk(t, k - 2)
        BY <1>2
    <2>1. k - 1 \in 1..n /\ (k - 1) + 1 = k /\ (k - 1) - 1 = k - 2
        BY <1>1
    <2>2. last[(k - 1) + 1] = Chunk(t, (k - 1) - 1)
        BY <1>2, <2>1
    <2> QED
        BY <2>1, <2>2
<1>5. \A k \in DOMAIN last : this[k] = last[k]
    <2> SUFFICES ASSUME NEW k \in DOMAIN last PROVE this[k] = last[k]
        OBVIOUS
    <2>1. CASE k = 1
        BY <1>2, <1>3, <2>1
    <2>2. CASE k # 1
        <3>1. /\ k - 1 \in 1..n + 1 /\ (k - 1) + 1 = k /\ (k - 1) - 1 = k - 2
              /\ last[k] = Chunk(t, k - 2)
            BY <1>1, <1>4, <2>2
        <3>2. this[(k - 1) + 1] = Chunk(t, (k - 1) - 1)
            BY <1>3, <3>1
        <3> QED
            BY <3>1, <3>2
    <2> QED
        BY <2>1, <2>2
<1>6. cut = last
    <2>1. \A i \in 1..n + 1 : this[i] \in Part
        BY <1>1, <1>3, ElementOfSeq
    <2>2. /\ cut \in Seq(Part) /\ Len(cut) = n + 1
          /\ \A i \in 1..n + 1 : cut[i] = this[i]
        <3>1. cut = SubSeq(this, 1, n + 1)
            BY <1>1, <1>3
        <3>2. SubSeq(this, 1, n + 1) \in Seq(Part) /\ Len(SubSeq(this, 1, n + 1)) = n + 1
            BY <1>1, <2>1, SubSeqProperties
        <3>3. \A i \in 1..n + 1 : SubSeq(this, 1, n + 1)[i] = this[i]
            BY <1>1, <2>1, SubSeqProperties
        <3> QED
            BY <3>1, <3>2, <3>3
    <2> HIDE DEF cut
    <2>3. \A i \in 1..n + 1 : cut[i] = last[i]
        BY <1>2, <1>5, <2>2
    <2> QED
        BY <1>1, <1>2, <2>2, <2>3, SeqEqual
<1>7. ASSUME NEW k \in DOMAIN last PROVE last[k] # this[Len(this)]
    <2>1. this[Len(this)] = Chunk(t, n)
        <3>1. n + 1 \in 1..n + 1 /\ (n + 1) + 1 = n + 2 /\ (n + 1) - 1 = n
            BY <1>1
        <3>2. this[(n + 1) + 1] = Chunk(t, (n + 1) - 1)
            BY <1>3, <3>1
        <3> QED
            BY <1>3, <3>1, <3>2
    <2>2. CASE k = 1
        <3>1. Chunk(t, n) = <<"chunk", (t * 1009 + n) % NumChunks>>
            BY <1>1, ChunkIsPart
        <3>2. Chunk(t, n)[1] = "chunk" /\ last[k][1] = "prefix"
            BY <1>2, <2>2, <3>1
        <3> QED
            BY <2>1, <3>2
    <2>3. CASE k # 1
        <3>1. k \in 1..n + 1 /\ k - 1 \in 1..n /\ last[k] = Chunk(t, k - 2)
            BY <1>4, <2>3
        <3>2. k - 2 \in 0..NumTurns - 1 /\ n \in 0..NumTurns - 1 /\ k - 2 < n
            BY <1>1, <3>1, TurnsCounted
        <3> QED
            BY <2>1, <3>1, <3>2, ChunksDiffer
    <2> QED
        BY <2>2, <2>3
<1> QED
    BY <1>6, <1>7 DEF last, this

\* Streams have prefixes of their own.
LEMMA PrefixesDiffer ==
    ASSUME NEW t \in 1..Ccu, NEW u \in 1..Ccu, t # u
    PROVE  t % Ccu # u % Ccu
<1>1. Ccu \in Nat \ {0}
    BY LoadTestAssumption
<1>2. ASSUME NEW a \in 1..Ccu, NEW b \in 1..Ccu, a < b PROVE b % Ccu # a % Ccu
    <2>1. a \in Nat /\ b - a \in 1..Ccu - 1 /\ b = a + (b - a)
        BY <1>1, <1>2
    <2>2. (a + (b - a)) % Ccu # a % Ccu
        BY <1>1, <2>1, ModDiffers
    <2> QED
        BY <2>1, <2>2
<1>3. t < u \/ u < t
    OBVIOUS
<1> QED
    BY <1>2, <1>3

LEMMA ContextsGrow ==
    ASSUME IInv
    PROVE  GrowingContexts
<1> TypeOK /\ SeqInv /\ PhaseInv /\ MadeInv /\ SentInv
    BY DEF IInv
<1> \A t \in AllTasks : Len(sent[t]) \in Nat /\ sent[t] \in Seq(Message)
    BY DEF SeqInv
<1>1. ASSUME mode = "agentic", NEW t \in AllTasks, NEW i \in 1..Len(sent[t]) - 1
      PROVE  /\ outcome[t][i].ok
             /\ SubSeq(sent[t][i + 1], 1, Len(sent[t][i + 1]) - 1) = sent[t][i]
             /\ \A k \in DOMAIN sent[t][i] : sent[t][i][k] # sent[t][i + 1][Len(sent[t][i + 1])]
    <2>1. StreamInv(t)
        BY <1>1 DEF MadeInv
    <2>2. i \in 1..Len(sent[t]) /\ i + 1 \in 1..Len(sent[t]) /\ (i + 1) - 1 = i
        OBVIOUS
    <2>3. i \in 1..NumTurns - 1
        BY <2>1, TurnsCounted DEF StreamInv
    <2>4. sent[t][i] = AgentMessages(t, i - 1) /\ sent[t][i + 1] = AgentMessages(t, (i + 1) - 1)
        BY <1>1, <2>2 DEF SentInv
    <2>5. outcome[t][i].ok
        <3>1. Len(outcome[t]) \in Nat
            BY DEF SeqInv
        <3>2. Len(sent[t]) = Len(outcome[t]) + (IF at[t] \in {"open", "stream"} THEN 1 ELSE 0)
            BY DEF TypeOK
        <3>3. i \in 1..Len(outcome[t])
            <4>1. Len(sent[t]) <= Len(outcome[t]) + 1
                BY <3>1, <3>2
            <4> QED
                BY <3>1, <4>1
        <3>4. at[t] = "ended" => i # Len(outcome[t])
            <4>1. SUFFICES ASSUME at[t] = "ended" PROVE Len(outcome[t]) = Len(sent[t])
                BY <2>2
            <4>2. at[t] \notin {"open", "stream"}
                BY <4>1
            <4>3. Len(sent[t]) = Len(outcome[t]) + 0
                BY <3>2, <4>2
            <4> QED
                BY <3>1, <4>3
        <3> QED
            BY <2>1, <3>3, <3>4 DEF StreamInv
    <2> QED
        BY <2>2, <2>3, <2>4, <2>5, TurnExtends
<1>2. ASSUME mode = "pp", NEW t \in AllTasks PROVE 1..Len(sent[t]) - 1 = {}
    <2>1. Len(sent[t]) = Started(t)
        BY <1>2 DEF MadeInv
    <2> QED
        BY <2>1 DEF Started
<1>3. ASSUME NEW t \in AllTasks, sent[t] # <<>> PROVE t \in Tasks /\ 1 \in 1..Len(sent[t])
    <2>1. t \in Tasks
        BY <1>3 DEF PhaseInv
    <2>2. Len(sent[t]) # 0
        BY <1>3, EmptySeq
    <2> QED
        BY <2>1, <2>2
<1>4. ASSUME mode \in {"agentic", "pp"}, NEW t \in AllTasks, NEW u \in AllTasks \ {t},
             sent[t] # <<>>, sent[u] # <<>>
      PROVE  sent[t][1][1] # sent[u][1][1]
    <2>1. t \in Tasks /\ 1 \in 1..Len(sent[t]) /\ u \in Tasks /\ 1 \in 1..Len(sent[u])
        BY <1>3, <1>4
    <2>2. CASE mode = "agentic"
        <3>1. t \in 1..Ccu /\ u \in 1..Ccu
            BY <2>1, <2>2 DEF Tasks
        <3>2. sent[t][1] = AgentMessages(t, 1 - 1) /\ sent[u][1] = AgentMessages(u, 1 - 1)
            BY <2>1, <2>2 DEF SentInv
        <3>3. sent[t][1] = AgentMessages(t, 0) /\ sent[u][1] = AgentMessages(u, 0)
            BY <3>2
        <3>4. sent[t][1][1] = <<"prefix", t % Ccu>> /\ sent[u][1][1] = <<"prefix", u % Ccu>>
            BY <3>3, AgentMessagesAre
        <3> QED
            BY <3>1, <3>4, PrefixesDiffer
    <2>3. CASE mode = "pp"
        <3>1. sent[t][1] = <<<<"prefix", t - 1>>>> /\ sent[u][1] = <<<<"prefix", u - 1>>>>
            BY <2>1, <2>3 DEF SentInv
        <3>2. t \in Nat /\ u \in Nat
            BY TasksAreNumbers
        <3> QED
            BY <3>1, <3>2
    <2> QED
        BY <1>4, <2>2, <2>3
<1> QED
    BY <1>1, <1>2, <1>4 DEF GrowingContexts

\* An agent's context grows by what is new to it, and is its own, however many streams
\* and turns there are.
THEOREM OwnContexts == Spec => []GrowingContexts
BY Invariant, ContextsGrow, PTL

\* Once a text is there, it is what the calibration of this target and base made.
LEMMA AimKept ==
    ASSUME TypeOK, PromptsOnTarget, [Next]_vars
    PROVE  PromptsOnTarget'
<1> USE DEF PromptsOnTarget
<1>1. CASE pc' = pc /\ UNCHANGED <<mode, tokenizer, sample, aimVars>>
    BY <1>1 DEF aimVars, OnTarget, Slack
<1>2. CASE pc' \notin {"warm", "run"}
    BY <1>2
<1>3. CASE ScoutPrefix
    <2>1. /\ tokenizer \in Tokenizers /\ target \in Targets
          /\ UNCHANGED <<mode, tokenizer, target>> /\ mode # "bench" /\ sample' \in Samples
          /\ text' = Weight(sample', CalibratePrefix(tokenizer, sample', target))
        BY <1>3 DEF ScoutPrefix, TypeOK, StressModes
    <2>2. Within(tokenizer, target, text')
        BY <2>1, PrefixAims
    <2> QED
        BY <2>1, <2>2 DEF Within, SlackFor, OnTarget, Slack
<1>4. CASE ScoutPrompt
    <2>1. /\ tokenizer \in Tokenizers /\ target \in Targets /\ base \in Nat
          /\ UNCHANGED <<mode, tokenizer, target, base>> /\ mode \notin StressModes
          /\ sample' \in Samples /\ text' = CalibratePrompt(tokenizer, sample', target, base)
        BY <1>4 DEF ScoutPrompt, TypeOK, StressModes
    <2>2. /\ text' >= base /\ Tokens(tokenizer, text') >= target - SlackFor(tokenizer, target)
          /\ Within(tokenizer, target, text') \/ text' <= base + Weight(sample', sample'.chars)
        BY <2>1, PromptAims
    <2> QED
        BY <2>1, <2>2 DEF Within, SlackFor, OnTarget, Slack
<1>5. CASE Warm
    BY <1>5 DEF Warm, setupVars, aimVars, OnTarget, Slack
<1>6. CASE NextTrial
    BY <1>1, <1>6 DEF NextTrial, setupVars
<1>7. CASE ChooseMode \/ NextContext \/ ScoutSkips
    BY <1>2, <1>7 DEF ChooseMode, NextContext, ScoutSkips, TakeContext
<1>8. CASE RefuseFlags \/ ScoutFails \/ WarmFails \/ Report \/ ReportEmbedding \/ BenchDone
    BY <1>2, <1>8 DEF RefuseFlags, ScoutFails, WarmFails, Report, ReportEmbedding, BenchDone, Over
<1>9. ASSUME NEW t \in AllTasks,
             Send(t) \/ Answer(t) \/ Line(t) \/ \E how \in Ends : End(t, how)
      PROVE  pc' = pc /\ UNCHANGED <<mode, tokenizer, sample, aimVars>>
    <2>1. CASE Send(t)
        BY <2>1 DEF Send, SendRequest, SendTurn, SendEmbedding, SendTimed, Begin, setupVars
    <2>2. CASE \E how \in Ends : End(t, how)
        BY <2>2 DEF End, RequestEnds, TurnEnds, EmbeddingEnds, TimedEnds, Note, setupVars
    <2> QED
        BY <1>9, <2>1, <2>2 DEF Answer, Line, setupVars
<1>10. CASE UNCHANGED vars
    BY <1>1, <1>10 DEF vars, setupVars
<1> QED
    BY <1>1, <1>3, <1>4, <1>5, <1>6, <1>7, <1>8, <1>9, <1>10 DEF Next, Main

\* The calibrated prompts are as long as asked for, whatever the template, the samples,
\* each at a rate of its own, the targets and their order: calibrate_prefix and
\* calibrate_prompt correct their text once, and once is enough, because copies of a
\* sample reach half of what they are made for.
THEOREM OneCorrection == Spec => []PromptsOnTarget
<1>1. Init => PromptsOnTarget
    BY DEF Init, PromptsOnTarget, StressModes
<1>2. TypeOK /\ PromptsOnTarget /\ [Next]_vars => PromptsOnTarget'
    BY AimKept
<1> QED
    BY <1>1, <1>2, TypeCorrect, PTL DEF Spec
=============================================================================
