------------------------------ MODULE MCTopics ------------------------------
(***************************************************************************)
(* An instance of Topics for TLC.  A filter, then a topic are typed        *)
(* character by character, so that the states are all the pairs up to some *)
(* length.                                                                 *)
(***************************************************************************)
EXTENDS Topics

CONSTANTS MaxFilter, MaxTopic  \* bounds: the length of a filter, of a topic

ASSUME MCTopicsAssumption == MaxFilter \in Nat /\ MaxTopic \in Nat

vars == <<filter, topic>>

Init == filter = <<>> /\ topic = <<>>

TypeFilter ==
  /\ topic = <<>> /\ Len(filter) < MaxFilter
  /\ \E c \in FilterChars : filter' = Append(filter, c)
  /\ UNCHANGED topic

TypeTopic ==
  /\ filter # <<>> /\ Len(topic) < MaxTopic
  /\ \E c \in TopicChars : topic' = Append(topic, c)
  /\ UNCHANGED filter

Next == TypeFilter \/ TypeTopic

Spec == Init /\ [][Next]_vars
=============================================================================
