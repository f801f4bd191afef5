--------------------------- MODULE MCBionicMutex ---------------------------
(***************************************************************************)
(* Instances of BionicMutex for TLC: two threads, two words, and memory    *)
(* for two native mutexes.                                                 *)
(***************************************************************************)
EXTENDS BionicMutex, TLC

CONSTANTS t1, t2, p1, p2, a1, a2

TwoThreads == {t1, t2}
TwoWords   == {p1, p2}
TwoNatives == {a1, a2}
Symmetry   == Permutations(TwoNatives) \union Permutations(TwoWords)
                  \union Permutations(TwoThreads)
==============================================================================
