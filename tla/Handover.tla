------------------------------ MODULE Handover ------------------------------
(***************************************************************************)
(* What MQTT promises about a message that its sender keeps until the      *)
(* receiver has acknowledged it, whichever of the two is the broker: the   *)
(* receiver takes it once, and the sender gives up its copy only then.     *)
(* Inbound implements this with the broker as the receiver, Outgoing with  *)
(* the broker as the sender.                                               *)
(***************************************************************************)
EXTENDS Naturals

CONSTANT Msgs

VARIABLES
  sent,       \* the messages that the sender keeps to send them, or has kept
  taken,      \* how often the receiver has taken each message as a new one
  settled,    \* the messages whose copy the sender has given up
  mayRepeat,  \* those that may be taken again: at least once is all they have
  mayLose,    \* those that may be given up without having been taken
  void        \* two messages were sent under one name: all promises end

vars == <<sent, taken, settled, mayRepeat, mayLose, void>>

Init ==
  /\ sent = {} /\ taken = [m \in Msgs |-> 0] /\ settled = {}
  /\ mayRepeat \subseteq Msgs /\ mayLose \subseteq Msgs /\ void \in BOOLEAN

Send(m) ==
  /\ m \notin sent
  /\ sent' = sent \cup {m} /\ UNCHANGED <<taken, settled>>

Take(m) ==
  /\ m \in sent /\ (taken[m] = 0 \/ m \in mayRepeat')
  /\ taken' = [taken EXCEPT ![m] = @ + 1] /\ UNCHANGED <<sent, settled>>

Settle(m) ==
  /\ m \in sent \ settled /\ (taken[m] > 0 \/ m \in mayLose')
  /\ settled' = settled \cup {m} /\ UNCHANGED <<sent, taken>>

\* Errors may withdraw a promise, in any step and for good.
Withdraw ==
  /\ mayRepeat \subseteq mayRepeat' /\ mayLose \subseteq mayLose'
  /\ void => void'

Next ==
  /\ Withdraw
  /\ \/ UNCHANGED <<sent, taken, settled>>
     \/ \E m \in Msgs : Send(m) \/ Take(m) \/ Settle(m)
     \/ void'

Safe == Init /\ [][Next]_vars

\* What it comes to: as long as nothing withdraws it, a message is taken after
\* it was sent, once, and is not given up before.
Promise ==
  ~void => /\ \A m \in Msgs : taken[m] > 0 => m \in sent
           /\ \A m \in Msgs \ mayRepeat : taken[m] <= 1
           /\ \A m \in settled \ mayLose : taken[m] > 0
=============================================================================
