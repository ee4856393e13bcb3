------------------------------ MODULE MCSweep ------------------------------
(* A small instance of Sweep for TLC: three command lines, of two families *)
(* with MTP counts 0..MaxMtp and DSpark (MaxMtp + 1).                      *)
EXTENDS Sweep

\* --only of a family and of the next family's speculation-off configuration.
Plain == [configs |-> {<<1, 0>>, <<1, MaxMtp + 1>>, <<NumFamilies, 0>>}, contexts |-> {1},
          skipStart |-> FALSE]

\* --only of the MTP configurations of a family, at all contexts.
Mtp == [configs |-> {<<1, 1>>, <<1, MaxMtp>>}, contexts |-> Contexts, skipStart |-> FALSE]

\* --skip-start, of configurations that either of the others may have found unstartable.
Again == [configs |-> {<<1, 0>>, <<1, MaxMtp>>, <<NumFamilies, 1>>}, contexts |-> {1},
          skipStart |-> TRUE]

PlainMtpAgain == {Plain, Mtp, Again}
=============================================================================
