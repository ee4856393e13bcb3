----------------------------- MODULE Calibration -----------------------------
(***************************************************************************)
(* How the load clients make a text of a wanted number of tokens: they ask *)
(* the server for the token count of a small sample, of two copies and of  *)
(* a scaled text, and correct that once.  stress_test_llm.py scales the    *)
(* text of each request anew, bench/bench_client.py extends the last one.  *)
(*                                                                         *)
(* A sample is random words: it has a length in characters, and a rate of  *)
(* its own at which they count as tokens.  A text is a sample repeated and *)
(* cut, or several of these joined; what matters of it is its weight, the  *)
(* tokens it has in fractions of the tokenizer's unit.                     *)
(***************************************************************************)
EXTENDS Integers

AtLeast(floor, n) == IF n < floor THEN floor ELSE n
CeilDiv(a, b) == (a + b - 1) \div b
Distance(a, b) == IF a < b THEN b - a ELSE a - b

\* The first c characters of copies of the sample s.
Weight(s, c) == c * s.rate

\* What the server reports as prompt_tokens: the chat template has some of its own.
Tokens(k, w) == k.template + w \div k.unit

Measured(k, s, c) == Tokens(k, Weight(s, c))

Tolerance(target) == AtLeast(64, target \div 100)
Near(n, target) == Distance(n, target) <= Tolerance(target)

\* Tokens of one more copy of the sample, and those that are there once.
PerCopy(k, s) ==
    LET once == Measured(k, s, s.chars)
        more == Measured(k, s, 2 * s.chars) - once
    IN  IF more > 0 THEN more ELSE once
Overhead(k, s) == AtLeast(0, Measured(k, s, s.chars) - PerCopy(k, s))

Copies(k, s, need) == AtLeast(1, CeilDiv(AtLeast(1, need), PerCopy(k, s)))

(***************************************************************************)
(* stress_test_llm: lengths of the calibrated text                         *)
(***************************************************************************)

\* scale_text with a target length: copies are cut or added to meet it, but a text is
\* never shorter than its sample.
ScaleText(s, chars) == AtLeast(s.chars, chars)

\* calibrate_prefix, the sample is long enough: it is kept, or cut once.
Trimmed(k, s, target) ==
    LET n == Measured(k, s, s.chars)
    IN  IF n <= target + Tolerance(target) THEN s.chars
        ELSE AtLeast(1, (s.chars * target) \div n)

\* Otherwise: copies of it, scaled once when their count is off.
Scaled(k, s, target) ==
    LET body == s.chars * Copies(k, s, target - Overhead(k, s))
        n    == Measured(k, s, body)
    IN  IF Near(n, target) THEN body ELSE ScaleText(s, (body * target) \div n)

CalibratePrefix(k, s, target) ==
    IF Measured(k, s, s.chars) >= target - Tolerance(target)
    THEN Trimmed(k, s, target) ELSE Scaled(k, s, target)

(***************************************************************************)
(* bench_client: a base of the samples of earlier contexts                 *)
(***************************************************************************)

\* Mutant: the added text is scaled as if it were the whole.
ExtraOfWhole(k, s, target, base) ==
    LET had  == IF base > 0 THEN Tokens(k, base) ELSE 0
        once == IF base > 0 THEN 0 ELSE Overhead(k, s)
        more == s.chars * Copies(k, s, target - had - once)
        n    == Tokens(k, base + Weight(s, more))
    IN  IF Near(n, target) THEN more ELSE AtLeast(s.chars, (more * target) \div n)

\* The characters of a new sample that calibrate_prompt adds to the base.
Extra(k, s, target, base) ==
    LET had  == IF base > 0 THEN Tokens(k, base) ELSE 0
        once == IF base > 0 THEN 0 ELSE Overhead(k, s)
        more == s.chars * Copies(k, s, target - had - once)
        n    == Tokens(k, base + Weight(s, more))
    IN  IF Near(n, target) THEN more
        ELSE AtLeast(s.chars, (more * AtLeast(1, target - had)) \div AtLeast(1, n - had))

\* A base that is long enough is used again as it is.
CalibratePrompt(k, s, target, base) ==
    IF base > 0 /\ Tokens(k, base) >= target - Tolerance(target)
    THEN base ELSE base + Weight(s, Extra(k, s, target, base))

=============================================================================
