-------------------------- MODULE MCSubscriptions --------------------------
(***************************************************************************)
(* A small instance of Subscriptions for TLC: requests about one topic,    *)
(* and requests about this topic and another one.                          *)
(***************************************************************************)
EXTENDS Subscriptions

CONSTANTS t1, t2

ListsOf == [r \in Reqs |-> IF r = 1 THEN {{t1}, {t1, t2}} ELSE {{t1}}]
=============================================================================
