---------------------------- MODULE SweepPolicy ----------------------------
(***************************************************************************)
(* What bench/run_sweep.py promises about the configurations it visits,    *)
(* with no session, memory or order: the results file alone decides which  *)
(* configuration may be started, measured or skipped.                      *)
(*                                                                         *)
(* A family is a (tp, pp, dp, kv dtype): it is tried with speculation off, *)
(* with MTP at 1..MaxMtp tokens and with DSpark.                           *)
(***************************************************************************)
EXTENDS Integers

CONSTANTS
    NumFamilies,   \* families the sweep visits, numbered in that order
    MaxMtp,        \* last of MTP_TOKENS_ON
    Contexts,      \* prompt lengths
    NumCcus        \* concurrency levels of --ccu

ASSUME SweepAssumption ==
    /\ NumFamilies \in Nat \ {0} /\ MaxMtp \in Nat \ {0} /\ NumCcus \in Nat \ {0}
    /\ Contexts \subseteq Nat \ {0}

VARIABLES
    failed,    \* configurations with a start_error row
    skipped,   \* configurations with a skipped row
    cells      \* <<configuration, context, ccu>> with a cell row

policyVars == <<failed, skipped, cells>>

Families == 1..NumFamilies
Configs == Families \X (0..(MaxMtp + 1))

Off(k) == <<k, 0>>
IsMtp(c) == c[2] \in 1..MaxMtp
IsDSpark(c) == c[2] = MaxMtp + 1

\* Nothing the results file says rules c out.
Viable(c) ==
    /\ c \notin failed
    /\ Off(c[1]) \notin failed
    /\ IsMtp(c) => \A m \in 1..c[2] : <<c[1], m>> \notin failed

PolicyInit == failed = {} /\ skipped = {} /\ cells = {}

StartError(c) ==
    /\ Viable(c)
    /\ failed' = failed \union {c}
    /\ UNCHANGED <<skipped, cells>>

Skip(c) ==
    /\ c \notin failed /\ ~Viable(c)
    /\ skipped' = skipped \union {c}
    /\ UNCHANGED <<failed, cells>>

Measure(c, x, u) ==
    /\ Viable(c)
    /\ cells' = cells \union {<<c, x, u>>}
    /\ UNCHANGED <<failed, skipped>>

PolicyNext ==
    \E c \in Configs :
        \/ StartError(c)
        \/ Skip(c)
        \/ \E x \in Contexts, u \in 1..NumCcus : Measure(c, x, u)

PolicySpec == PolicyInit /\ [][PolicyNext]_policyVars
=============================================================================
