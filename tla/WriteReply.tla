----------------------------- MODULE WriteReply -----------------------------
(***************************************************************************)
(* What lib/write.js and Client.waitForDrain promise together to a caller  *)
(* that hands them a packet and a callback: the callback is called, once.  *)
(* mqemitter holds one of its concurrency slots until the callbacks of a   *)
(* message have all been called, so a reply that never comes blocks other  *)
(* clients, and one that comes twice frees a slot that is not held.        *)
(***************************************************************************)
CONSTANT Writes      \* the calls of write(client, packet, done)

VARIABLE reply       \* what each call has got so far

Status == {"unasked", "owed", "given"}

Init == reply = [w \in Writes |-> "unasked"]

\* The caller hands over a packet; its callback is now owed a call.
Ask(w) ==
  /\ reply[w] = "unasked"
  /\ reply' = [reply EXCEPT ![w] = "owed"]

\* One event of the socket may release any number of waiting callbacks.
Give(W) ==
  /\ \A w \in W : reply[w] = "owed"
  /\ reply' = [w \in Writes |-> IF w \in W THEN "given" ELSE reply[w]]

Next ==
  \/ \E w \in Writes : Ask(w)
  \/ \E W \in SUBSET Writes : Give(W)

GiveTo(w) == \E W \in SUBSET Writes : w \in W /\ Give(W)

Safe == Init /\ [][Next]_reply
Spec == Safe /\ \A w \in Writes : WF_reply(GiveTo(w))
=============================================================================
