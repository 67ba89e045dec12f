----------------------------- MODULE MCRegistry -----------------------------
(***************************************************************************)
(* Small instances of Registry for TLC.                                    *)
(***************************************************************************)
EXTENDS Registry, TLC

CONSTANTS i1

\* Every connection asks for the same client identifier.
OneId == [c \in Conns |-> i1]

\* Sound where the connections differ in nothing and no liveness is checked.
Alike == Permutations(Conns)
=============================================================================
