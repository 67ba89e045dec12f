----------------------------- MODULE MCPublish -----------------------------
(***************************************************************************)
(* A small instance of Publish for TLC: one client with two overlapping    *)
(* subscriptions and one with a single subscription.                       *)
(***************************************************************************)
EXTENDS Publish

CONSTANTS c1, c2, h1, h2, h3, s1, s2, q1, x1, d1

OwnerOf == [h \in Handlers |-> IF h = h3 THEN c2 ELSE c1]

\* s1 reaches everybody, s2 the second client, q1 the first one twice, x1 nobody.
MatchesOf ==
  [m \in Msgs |-> CASE m = s1 -> Handlers
                    [] m = s2 -> {h3}
                    [] m = q1 -> {h1, h2}
                    [] OTHER -> {}]

TargetOf == [m \in Direct |-> c1]
BarredPairs == {s1} \X {h1}
RefusedPairs == {s1} \X {c1}
=============================================================================
