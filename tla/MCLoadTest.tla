----------------------------- MODULE MCLoadTest -----------------------------
(* Samples and tokenizers for TLC.                                         *)
EXTENDS LoadTest

\* As many words in more characters: the longer sample has fewer tokens for each.
TwoSamples == {[chars |-> 2900, rate |-> 8], [chars |-> 3100, rate |-> 7]}

\* Four characters a token, more or less, and a template of 12 or 70 tokens.
TwoTokenizers == {[template |-> 12, unit |-> 28], [template |-> 70, unit |-> 32]}
=============================================================================
