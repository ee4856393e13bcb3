----------------------------- MODULE MCCleaner -----------------------------
(* Small instances of Cleaner for TLC. *)
EXTENDS Cleaner, TLC

CONSTANTS p1, p2, p3, vllm, sglang

\* Two pages in the hashed tree, one in SGLang's flat directory.
MCDirOf == (p1 :> vllm @@ p2 :> vllm @@ p3 :> sglang)
\* Sizes 1 and 2: a batch estimate can pass the need by a page or meet it exactly.
MCSizeOf == (p1 :> 1 @@ p2 :> 2 @@ p3 :> 2)
MCDirOf2 == (p1 :> vllm @@ p2 :> sglang)
MCSizeOf2 == (p1 :> 1 @@ p2 :> 2)
CleanerSymmetry == Permutations(Cleaners)
=============================================================================
