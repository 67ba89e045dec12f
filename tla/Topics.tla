------------------------------- MODULE Topics -------------------------------
(***************************************************************************)
(* Topic names and filters: validateTopic and topicLevelCount (utils.js),  *)
(* the checks of a PUBLISH (handlers/publish.js), and the two places that  *)
(* keep topics with a leading '$' from filters with a leading wildcard:    *)
(* live (handlers/subscribe.js) and when messages are stored (aedes.js).   *)
(*                                                                         *)
(* No state of the program: the definitions and the properties are about   *)
(* any filter and any topic; MCTopics enumerates them up to some length.   *)
(* The router's matching is external and left out.  "SYS" stands for three *)
(* letters.                                                                *)
(***************************************************************************)
EXTENDS Naturals, Sequences, FiniteSets

CONSTANT MaxLevels  \* broker.maxTopicLevels

ASSUME TopicsAssumption == MaxLevels \in Nat \ {0}

FilterChars == {"a", "/", "#", "+"}
TopicChars == {"a", "/", "#", "$", "SYS"}

VARIABLES
  filter,  \* of a SUBSCRIBE or UNSUBSCRIBE
  topic    \* of a PUBLISH

-----------------------------------------------------------------------------
\* The program.  Positions count from 1 here and from 0 in the code.

\* charCodeAt(i) is not '/', which is so outside of the string too.
NotSlash(t, i) == i \notin DOMAIN t \/ t[i] # "/"

\* topicLevelCount: one more than there are slashes.
TopicLevelCount(t) == 1 + Cardinality({i \in DOMAIN t : t[i] = "/"})

\* (faulty variant) the length is not looked at first
SlashInPreEndAlways(t) == NotSlash(t, Len(t) - 1)

\* slashInPreEnd: in fact that there is no slash.
SlashInPreEnd(t) == Len(t) > 2 /\ NotSlash(t, Len(t) - 1)

BadHash(t, i) == t[i] = "#" /\ (i # Len(t) \/ SlashInPreEnd(t))

\* (faulty variant) the bounds are one further inside
BadPlusInside(t, i) ==
  /\ t[i] = "+"
  /\ \/ i < Len(t) - 2 /\ NotSlash(t, i + 1)
     \/ i > 3 /\ NotSlash(t, i - 1)

BadPlus(t, i) ==
  /\ t[i] = "+"
  /\ \/ i < Len(t) - 1 /\ NotSlash(t, i + 1)
     \/ i > 2 /\ NotSlash(t, i - 1)

\* validateTopic
ValidFilter(t) ==
  /\ t # <<>> /\ TopicLevelCount(t) <= MaxLevels
  /\ \A i \in DOMAIN t : ~BadHash(t, i) /\ ~BadPlus(t, i)

\* handlePublish
ValidTopic(t) ==
  /\ t # <<>> /\ TopicLevelCount(t) <= MaxLevels
  /\ \A i \in DOMAIN t : t[i] \notin {"#", "+"}

\* isStartsWithWildcard, and the same test in removeSharp.
StartsWithWildcard(f) == f[1] \in {"#", "+"}

\* blockDollarSignTopics: a connected client is not given the message.
Blocked(f, t) == StartsWithWildcard(f) /\ t[1] = "$"

IsSys(t) == Len(t) >= 3 /\ SubSeq(t, 1, 3) = <<"$", "SYS", "/">>

\* (faulty variant) only '#' is taken for a wildcard
NotStoredSharp(f, t) == IsSys(t) /\ f[1] = "#"

\* doneEnqueue with removeSharp: the message is not stored for the session.
NotStored(f, t) == IsSys(t) /\ StartsWithWildcard(f)

-----------------------------------------------------------------------------
\* The reference, MQTT 3.1.1 section 4.7.1: a wildcard is a whole level, and
\* '#' is the last one.

AloneLeft(t, i) == i = 1 \/ t[i - 1] = "/"
AloneRight(t, i) == i = Len(t) \/ t[i + 1] = "/"
Placed(t, i) ==
  /\ t[i] = "#" => i = Len(t) /\ AloneLeft(t, i)
  /\ t[i] = "+" => AloneLeft(t, i) /\ AloneRight(t, i)
WellFormed(t) == t # <<>> /\ \A i \in DOMAIN t : Placed(t, i)

-----------------------------------------------------------------------------
\* Properties.

\* Every filter that MQTT allows is accepted, up to the limit of levels: the
\* shortest ones included, '#', '+', '/#', '+/' and '/', where the bounds of
\* validateTopic are at their edge (utils.js:34-49).
WellFormedAccepted ==
  WellFormed(filter) /\ TopicLevelCount(filter) <= MaxLevels => ValidFilter(filter)

\* A filter that MQTT does not allow is accepted in three shapes only, where
\* validateTopic does not look: a '#' after one character ('a#'), a '+' after
\* one character ('a+', 'a+/a') and a '+' before the last one ('+a', 'a/+a').
Unseen(t, i) ==
  \/ t[i] = "#" /\ i = 2 /\ Len(t) = 2
  \/ t[i] = "+" /\ (i = 2 \/ AloneLeft(t, i)) /\ (i = Len(t) - 1 \/ AloneRight(t, i))

OnlyUnseenAccepted ==
  ValidFilter(filter) => \A i \in DOMAIN filter : Placed(filter, i) \/ Unseen(filter, i)

\* A message is stored for a session if and only if it would be given to the
\* client when connected, for every accepted topic; except for a topic with a
\* leading '$' that is not the broker's own, which is stored and not given.
StoredAsForwarded ==
  ValidFilter(filter) /\ ValidTopic(topic) =>
    \/ Blocked(filter, topic) <=> NotStored(filter, topic)
    \/ topic[1] = "$" /\ ~IsSys(topic)
=============================================================================
