------------------------- MODULE ClusterWillsProofs -------------------------
(***************************************************************************)
(* Proofs about ClusterWills for any set of brokers and any delay: type    *)
(* correctness, and that the wills of a cluster are not lost, are spared   *)
(* while their broker runs, and are published in time when it has stopped. *)
(***************************************************************************)
EXTENDS ClusterWills, TLAPS

\* The intervals, in heartbeats.
LEMMA Numbers ==
  /\ Delay \in Nat
  /\ Heartbeat = 1 /\ ClearEvery = 4 /\ Forgotten = 4
  /\ Young = 1 + 2 * Delay /\ Overdue = 8 + 2 * Delay /\ Oldest = 9 + 2 * Delay
  BY ClusterAssumption DEF Heartbeat, ClearEvery, Forgotten, Young, Overdue, Oldest

\* Later is a clock that stops at its largest value.
LEMMA LaterCounts ==
  ASSUME NEW STATE max, max \in Nat, NEW STATE n, n \in 0..max
  PROVE  /\ Later(n, max) \in 0..max
         /\ Later(n, max) <= n + 1
         /\ (n = max /\ Later(n, max) = max) \/ Later(n, max) = n + 1
  BY DEF Later

Message == [kind : {"birth", "heartbeat"}, from : Brokers, to : Brokers, age : 0..Delay]
Clearance == [by : Brokers, will : Owners, step : Steps, age : 0..Delay]

\* What TypeOK says of the messages and of the wills being cleared, one by one.
LEMMA Members ==
  ASSUME TypeOK
  PROVE  /\ messages \subseteq Message
         /\ \A c \in clearing : c \in Clearance /\ c.by \in up
  <1>1. up \subseteq Brokers
    BY DEF TypeOK
  <1> QED BY <1>1 DEF TypeOK, Message, Clearance

-----------------------------------------------------------------------------
\* Types.

\* A broker's messages to the others.
LEMMA SendType ==
  ASSUME TypeOK, NEW b \in Brokers, NEW k \in {"birth", "heartbeat"}, Send(k, b)
  PROVE  messages' \subseteq Message
<1>1. Delay \in Nat /\ up \subseteq Brokers /\ messages \subseteq Message
  BY Numbers, Members DEF TypeOK
<1> QED BY <1>1 DEF Send, Message

\* Time passes for what is under way.
LEMMA AgeType ==
  ASSUME TypeOK, Tick
  PROVE  messages' \subseteq Message
         /\ clearing' \subseteq [by : up, will : Owners, step : Steps, age : 0..Delay]
<1>1. Delay \in Nat /\ up \subseteq Brokers
  BY Numbers DEF TypeOK
<1>2. ASSUME NEW m \in messages PROVE [m EXCEPT !.age = @ + 1] \in Message
  <2>1. m \in Message /\ m.age < Delay
    BY <1>2, Members DEF Tick
  <2> QED BY <1>1, <2>1 DEF Message
<1>3. ASSUME NEW c \in clearing
      PROVE  [c EXCEPT !.age = @ + 1] \in [by : up, will : Owners, step : Steps, age : 0..Delay]
  <2>1. c \in [by : up, will : Owners, step : Steps, age : 0..Delay] /\ c.age < Delay
    BY <1>3 DEF Tick, TypeOK
  <2> QED BY <1>1, <2>1
<1> QED BY <1>2, <1>3 DEF Tick

\* Every step keeps the types.
LEMMA NextTypes == TypeOK /\ [Next]_vars => TypeOK'
<1> SUFFICES ASSUME TypeOK, [Next]_vars PROVE TypeOK'
  OBVIOUS
<1> USE Numbers
<1>0. /\ Owners \subseteq Brokers /\ Mortal \subseteq Brokers
      /\ up \cap gone = {} /\ up \cup gone \subseteq Brokers
      /\ age \in [Owners -> 0..Oldest]
      /\ beaten \in [Brokers -> 0..Heartbeat] /\ cleared \in [Brokers -> 0..ClearEvery]
      /\ messages \subseteq Message
      /\ brokers \in [Brokers -> [Owners -> 0..Forgotten]]
      /\ clearing \subseteq [by : up, will : Owners, step : Steps, age : 0..Delay]
      /\ born \in [Brokers -> SUBSET Brokers] /\ witnesses \in [Brokers -> SUBSET up]
      /\ wills \subseteq had /\ published \cup had \cup withdrawn \subseteq Owners
      /\ spurious \subseteq [will : Owners, age : 0..Oldest, born : BOOLEAN]
  BY ClusterAssumption, Members DEF TypeOK
<1>1. ASSUME NEW b \in Brokers, Start(b) PROVE TypeOK'
  <2>1. messages' \subseteq Message
    BY <1>1, SendType DEF Start
  <2>2. age' \in [Owners -> 0..Oldest]
    BY <1>0, <1>1 DEF Start
  <2>3. beaten' \in [Brokers -> 0..Heartbeat] /\ cleared' \in [Brokers -> 0..ClearEvery]
    BY <1>0, <1>1 DEF Start
  <2>4. /\ up' = up \cup {b} /\ b \notin gone
        /\ UNCHANGED <<gone, brokers, wills, clearing, ghosts, witnesses>>
    BY <1>1 DEF Start
  <2>5. clearing' \subseteq [by : up', will : Owners, step : Steps, age : 0..Delay]
    BY <1>0, <2>4
  <2>6. witnesses' \in [Brokers -> SUBSET up']
    BY <1>0, <2>4
  <2> QED BY <1>0, <2>1, <2>2, <2>3, <2>4, <2>5, <2>6 DEF TypeOK, Message, ghosts
<1>2. ASSUME NEW b \in Brokers, Stop(b) PROVE TypeOK'
  <2>1. /\ up' = up \ {b} /\ gone' = gone \cup {b} /\ b \in up
        /\ UNCHANGED <<wills, ghosts>>
        /\ messages' \subseteq messages
        /\ clearing' = {c \in clearing : c.by # b}
        /\ witnesses' = [o \in Brokers |-> IF o = b THEN up \ {b} ELSE witnesses[o] \ {b}]
    BY <1>2 DEF Stop
  <2>2. age' \in [Owners -> 0..Oldest]
    BY <1>0, <1>2 DEF Stop
  <2>3. beaten' \in [Brokers -> 0..Heartbeat] /\ cleared' \in [Brokers -> 0..ClearEvery]
    BY <1>0, <1>2 DEF Stop
  <2>4. brokers' \in [Brokers -> [Owners -> 0..Forgotten]]
    BY <1>0, <1>2 DEF Stop
  <2>5. clearing' \subseteq [by : up', will : Owners, step : Steps, age : 0..Delay]
    BY <1>0, <2>1
  <2>6. witnesses' \in [Brokers -> SUBSET up']
    BY <1>0, <2>1
  <2> QED BY <1>0, <2>1, <2>2, <2>3, <2>4, <2>5, <2>6 DEF TypeOK, Message, ghosts
<1>3. ASSUME NEW b \in Brokers, PutWill(b) \/ Withdraw(b) PROVE TypeOK'
  <2>1. /\ UNCHANGED <<up, gone, timers, messages, brokers, clearing, witnesses,
                       born, published, spurious>>
        /\ wills' \subseteq had' /\ had' \cup withdrawn' \subseteq Owners
    BY <1>0, <1>3 DEF PutWill, Withdraw
  <2> QED BY <1>0, <2>1 DEF TypeOK, Message, timers
<1>4. ASSUME NEW b \in Brokers, Beat(b) PROVE TypeOK'
  <2>1. messages' \subseteq Message
    BY <1>4, SendType DEF Beat
  <2>2. b \in Owners
    BY <1>4 DEF Beat, BeatDue
  <2>3. beaten' \in [Brokers -> 0..Heartbeat] /\ brokers' \in [Brokers -> [Owners -> 0..Forgotten]]
    BY <1>0, <1>4, <2>2 DEF Beat
  <2> QED BY <1>0, <1>4, <2>1, <2>3 DEF Beat, TypeOK, Message, ghosts
<1>5. ASSUME NEW b \in Brokers, ClearWills(b) PROVE TypeOK'
  <2>1. cleared' \in [Brokers -> 0..ClearEvery]
    BY <1>0, <1>5 DEF ClearWills
  <2>2. clearing' \subseteq [by : up, will : Owners, step : Steps, age : 0..Delay]
    BY <1>0, <1>5 DEF ClearWills, ClearDue, Steps
  <2> QED BY <1>0, <1>5, <2>1, <2>2 DEF ClearWills, TypeOK, Message, ghosts
<1>6. ASSUME NEW m \in messages, Receive(m) PROVE TypeOK'
  <2>1. m.to \in Brokers /\ m.from \in Brokers
    BY <1>0 DEF Message
  <2>2. brokers \in [Brokers -> [Owners -> 0..Forgotten]] /\ 0 \in 0..Forgotten
    BY <1>0
  <2>3. brokers' \in [Brokers -> [Owners -> 0..Forgotten]]
    <3>1. \/ brokers' = brokers
          \/ brokers' = [brokers EXCEPT ![m.to] = [brokers[m.to] EXCEPT ![m.from] = 0]]
      BY <1>6 DEF Receive
    <3>2. [brokers[m.to] EXCEPT ![m.from] = 0] \in [Owners -> 0..Forgotten]
      BY <2>1, <2>2
    <3> QED BY <2>1, <2>2, <3>1, <3>2
  <2>4. born' \in [Brokers -> SUBSET Brokers]
    BY <1>0, <1>6, <2>1 DEF Receive
  <2> QED BY <1>0, <1>6, <2>3, <2>4 DEF Receive, TypeOK, Message, timers
<1>7. ASSUME NEW c \in clearing, Check(c) \/ PublishWill(c) \/ DeleteWill(c) PROVE TypeOK'
  <2>1. c \in [by : up, will : Owners, step : Steps, age : 0..Delay]
    BY <1>0
  <2>2. \A s \in Steps : [c EXCEPT !.step = s] \in [by : up, will : Owners, step : Steps, age : 0..Delay]
    BY <2>1
  <2>3. clearing' \subseteq [by : up, will : Owners, step : Steps, age : 0..Delay]
    BY <1>0, <1>7, <2>2 DEF Check, PublishWill, DeleteWill, Steps
  <2>4. /\ UNCHANGED <<up, gone, timers, messages, brokers, born, had, withdrawn, witnesses>>
        /\ wills' \subseteq wills
        /\ published' \subseteq published \cup {c.will}
    BY <1>7 DEF Check, PublishWill, DeleteWill, ghosts
  <2>5. spurious' \subseteq [will : Owners, age : 0..Oldest, born : BOOLEAN]
    <3> DEFINE s == [will |-> c.will, age |-> age[c.will], born |-> c.will \in born[c.by]]
    <3>1. s \in [will : Owners, age : 0..Oldest, born : BOOLEAN]
      BY <1>0, <2>1
    <3>2. spurious' \subseteq spurious \cup {s}
      BY <1>7 DEF Check, PublishWill, DeleteWill, ghosts
    <3> HIDE DEF s
    <3> QED BY <1>0, <3>1, <3>2
  <2> QED BY <1>0, <2>1, <2>3, <2>4, <2>5 DEF TypeOK, Message, timers
<1>8. CASE Tick
  <2>1. /\ messages' \subseteq Message
        /\ clearing' \subseteq [by : up, will : Owners, step : Steps, age : 0..Delay]
    BY <1>8, AgeType
  <2>2. age' \in [Owners -> 0..Oldest]
    <3>0. age \in [Owners -> 0..Oldest] /\ Oldest \in Nat
      BY <1>0
    <3>1. \A o \in Owners : Later(age[o], Oldest) \in 0..Oldest
      BY <3>0, LaterCounts
    <3> QED BY <1>8, <3>1 DEF Tick
  <2>3. beaten' \in [Brokers -> 0..Heartbeat]
    <3>0. /\ beaten \in [Brokers -> 0..Heartbeat] /\ Heartbeat \in Nat
          /\ \A b \in Brokers : ~BeatDue(b)
          /\ beaten' = [b \in Brokers |-> IF b \in up \cap Owners THEN beaten[b] + 1 ELSE 0]
      BY <1>0, <1>8 DEF Tick
    <3> QED BY <3>0 DEF BeatDue
  <2>4. cleared' \in [Brokers -> 0..ClearEvery]
    <3>0. /\ cleared \in [Brokers -> 0..ClearEvery] /\ ClearEvery \in Nat
          /\ \A b \in Brokers : ~ClearDue(b)
          /\ cleared' = [b \in Brokers |-> IF b \in up THEN cleared[b] + 1 ELSE 0]
      BY <1>0, <1>8 DEF Tick
    <3> QED BY <3>0 DEF ClearDue
  <2>5. brokers' \in [Brokers -> [Owners -> 0..Forgotten]]
    <3>1. \A b \in Brokers, o \in Owners : Later(brokers[b][o], Forgotten) \in 0..Forgotten
      <4>1. brokers \in [Brokers -> [Owners -> 0..Forgotten]] /\ Forgotten \in Nat
        BY <1>0
      <4> QED BY <4>1, LaterCounts
    <3> DEFINE row(b) == [o \in Owners |-> Later(brokers[b][o], Forgotten)]
    <3>2. \A b \in Brokers : row(b) \in [Owners -> 0..Forgotten]
      BY <3>1
    <3>3. brokers' = [b \in Brokers |-> row(b)]
      BY <1>8 DEF Tick
    <3> HIDE DEF row
    <3> QED BY <3>2, <3>3
  <2> QED BY <1>0, <1>8, <2>1, <2>2, <2>3, <2>4, <2>5 DEF Tick, TypeOK, Message, ghosts
<1>9. CASE UNCHANGED vars
  BY <1>9 DEF vars, timers, ghosts, TypeOK
<1> QED BY <1>1, <1>2, <1>3, <1>4, <1>5, <1>6, <1>7, <1>8, <1>9 DEF Next

\* Every state is of its type.
LEMMA Types == Spec => []TypeOK
<1>1. Init => TypeOK
  BY Numbers, ClusterAssumption DEF Init, TypeOK
<1> QED BY <1>1, NextTypes, PTL DEF Spec

-----------------------------------------------------------------------------
Alike(m, n) == n.kind = m.kind /\ n.from = m.from /\ n.to = m.to
SameClearing(c, d) == d.by = c.by /\ d.will = c.will

\* One message, or one will being cleared, with another age or step.
LEMMA AgedOne ==
  /\ \A m \in Message : Alike(m, [m EXCEPT !.age = @ + 1]) /\ [m EXCEPT !.age = @ + 1].age = m.age + 1
  /\ \A c \in Clearance :
       LET d == [c EXCEPT !.age = @ + 1]
       IN  SameClearing(c, d) /\ d.step = c.step /\ d.age = c.age + 1
  /\ \A c \in Clearance, s \in Steps :
       LET d == [c EXCEPT !.step = s]
       IN  SameClearing(c, d) /\ d.step = s /\ d.age = c.age
  BY DEF Message, Clearance, Alike, SameClearing

\* Time makes every message and every clearing older, and nothing else.
LEMMA Aged ==
  ASSUME TypeOK, Tick
  PROVE  /\ \A n \in messages' : \E m \in messages : Alike(m, n) /\ n.age = m.age + 1
         /\ \A m \in messages : \E n \in messages' : Alike(m, n) /\ n.age = m.age + 1
         /\ \A d \in clearing' : \E c \in clearing :
              SameClearing(c, d) /\ d.step = c.step /\ d.age = c.age + 1
         /\ \A c \in clearing : \E d \in clearing' : SameClearing(c, d) /\ d.age = c.age + 1
<1>1. /\ messages' = {[m EXCEPT !.age = @ + 1] : m \in messages}
      /\ clearing' = {[c EXCEPT !.age = @ + 1] : c \in clearing}
  BY DEF Tick
<1>2. messages \subseteq Message /\ \A c \in clearing : c \in Clearance
  BY Members
<1>3. ASSUME NEW n \in messages' PROVE \E m \in messages : Alike(m, n) /\ n.age = m.age + 1
  <2>1. PICK m \in messages : n = [m EXCEPT !.age = @ + 1]
    BY <1>1
  <2>2. m \in Message
    BY <1>2
  <2> QED BY <2>1, <2>2, AgedOne
<1>4. ASSUME NEW m \in messages PROVE \E n \in messages' : Alike(m, n) /\ n.age = m.age + 1
  <2>1. [m EXCEPT !.age = @ + 1] \in messages'
    BY <1>1
  <2> QED BY <1>2, <2>1, AgedOne
<1>5. ASSUME NEW d \in clearing'
      PROVE  \E c \in clearing : SameClearing(c, d) /\ d.step = c.step /\ d.age = c.age + 1
  <2>1. PICK c \in clearing : d = [c EXCEPT !.age = @ + 1]
    BY <1>1
  <2>2. c \in Clearance
    BY <1>2
  <2> QED BY <2>1, <2>2, AgedOne
<1>6. ASSUME NEW c \in clearing PROVE \E d \in clearing' : SameClearing(c, d) /\ d.age = c.age + 1
  <2>1. [c EXCEPT !.age = @ + 1] \in clearing'
    BY <1>1
  <2> QED BY <1>2, <2>1, AgedOne
<1> QED BY <1>3, <1>4, <1>5, <1>6

\* A clearing goes on to its next step.
LEMMA Moved ==
  ASSUME TypeOK, NEW c \in clearing, Check(c) \/ PublishWill(c)
  PROVE  /\ \A d \in clearing' :
              \/ d \in clearing
              \/ /\ SameClearing(c, d) /\ d.age = c.age
                 /\ d.step = IF Check(c) THEN "publish" ELSE "delete"
         /\ \A d \in clearing \ {c} : d \in clearing'
         /\ PublishWill(c) \/ Silent(c.by, c.will) =>
              \E d \in clearing' : SameClearing(c, d) /\ d.age = c.age
<1>1. c \in Clearance
  BY Members
<1>2. CASE Check(c)
  <2> DEFINE e == [c EXCEPT !.step = "publish"]
  <2>1. SameClearing(c, e) /\ e.step = "publish" /\ e.age = c.age
    BY <1>1, AgedOne DEF Steps
  <2>2. clearing' = (clearing \ {c}) \cup (IF Silent(c.by, c.will) THEN {e} ELSE {})
        /\ ~PublishWill(c)
    BY <1>2 DEF Check, PublishWill
  <2> HIDE DEF e
  <2> QED BY <1>2, <2>1, <2>2
<1>3. CASE PublishWill(c)
  <2> DEFINE e == [c EXCEPT !.step = "delete"]
  <2>1. SameClearing(c, e) /\ e.step = "delete" /\ e.age = c.age
    BY <1>1, AgedOne DEF Steps
  <2>2. clearing' = (clearing \ {c}) \cup {e} /\ ~Check(c)
    BY <1>3 DEF Check, PublishWill
  <2> HIDE DEF e
  <2> QED BY <1>3, <2>1, <2>2
<1> QED BY <1>2, <1>3

-----------------------------------------------------------------------------
(***************************************************************************)
(* No will is lost.  A will is deleted by a clearing that has published    *)
(* it, and one that stops leaves the will where it was.                    *)
(***************************************************************************)
Lasting ==
  /\ NeverLost
  /\ \A c \in clearing : c.step = "delete" => c.will \in published

\* Every step keeps the wills.
LEMMA NextLasts ==
  ASSUME TypeOK, Lasting, [Next]_vars
  PROVE  Lasting'
<1>1. ASSUME UNCHANGED <<wills, had, published, withdrawn>>, clearing' \subseteq clearing
      PROVE  Lasting'
  BY <1>1 DEF Lasting, NeverLost
<1>2. ASSUME NEW b \in Brokers, Start(b) \/ Stop(b) \/ Beat(b) PROVE Lasting'
  BY <1>1, <1>2 DEF Start, Stop, Beat, ghosts
<1>3. ASSUME NEW b \in Brokers, PutWill(b) \/ Withdraw(b) PROVE Lasting'
  BY <1>3 DEF PutWill, Withdraw, Lasting, NeverLost
<1>4. ASSUME NEW b \in Brokers, ClearWills(b) PROVE Lasting'
  <2>1. /\ UNCHANGED <<wills, had, published, withdrawn>>
        /\ \A c \in clearing' : c \in clearing \/ c.step = "check"
    BY <1>4 DEF ClearWills, ghosts
  <2> QED BY <2>1 DEF Lasting, NeverLost
<1>5. ASSUME NEW m \in messages, Receive(m) PROVE Lasting'
  BY <1>1, <1>5 DEF Receive
<1>6. ASSUME NEW c \in clearing, Check(c) PROVE Lasting'
  <2>1. /\ UNCHANGED <<wills, had, published, withdrawn>>
        /\ \A d \in clearing' : d \in clearing \/ d.step = "publish"
    BY <1>6, Moved DEF Check, ghosts
  <2> QED BY <2>1 DEF Lasting, NeverLost
<1>7. ASSUME NEW c \in clearing, PublishWill(c) PROVE Lasting'
  <2>1. /\ UNCHANGED <<wills, had, withdrawn>> /\ published' = published \cup {c.will}
        /\ \A d \in clearing' : d \in clearing \/ d.will = c.will
    BY <1>7, Moved DEF PublishWill, SameClearing
  <2> QED BY <2>1 DEF Lasting, NeverLost
<1>8. ASSUME NEW c \in clearing, DeleteWill(c) PROVE Lasting'
  BY <1>8 DEF DeleteWill, Lasting, NeverLost, ghosts
<1>9. CASE Tick
  <2>1. UNCHANGED <<wills, had, published, withdrawn>>
    BY <1>9 DEF Tick, ghosts
  <2>2. ASSUME NEW d \in clearing', d.step = "delete" PROVE d.will \in published
    BY <1>9, <2>2, Aged DEF Lasting, SameClearing
  <2> QED BY <2>1, <2>2 DEF Lasting, NeverLost
<1>10. CASE UNCHANGED vars
  BY <1>1, <1>10 DEF vars, ghosts
<1> QED BY <1>2, <1>3, <1>4, <1>5, <1>6, <1>7, <1>8, <1>9, <1>10 DEF Next

\* For any brokers, stopping at any moment, and any delay: a stored will stays
\* until it is published or withdrawn (checkAndPublish, aedes.js:122-136).
THEOREM NeverLostSafe == Spec => [](TypeOK /\ NeverLost)
<1>1. Init => Lasting
  BY DEF Init, Lasting, NeverLost
<1>2. Lasting => NeverLost
  BY DEF Lasting
<1> QED BY <1>1, <1>2, Types, NextLasts, PTL DEF Spec

-----------------------------------------------------------------------------
(***************************************************************************)
(* The wills of a broker that runs are spared.  Broker b takes o to be     *)
(* gone when it has not heard it for Forgotten intervals.  If it has not   *)
(* heard it since it started, or since o started, then the one that        *)
(* started later has not been up for longer than a heartbeat and its way   *)
(* take: a heartbeat sent earlier would have arrived, or be on its way.    *)
(***************************************************************************)
Heartbeats(b, o) == {m \in messages : m.kind = "heartbeat" /\ m.from = o /\ m.to = b}

\* x is less than the time since o sent a heartbeat before the ones under way
Within(x, b, o) == x <= beaten[o] \/ \E m \in Heartbeats(b, o) : x <= m.age + 1

Hears(b, o) ==
  Within(age[o], b, o) \/ Within(cleared[b], b, o) \/ Within(brokers[b][o], b, o)

Heard == \A b \in up, o \in up \cap Owners : Hears(b, o)

\* A step that concerns neither b nor o.
LEMMA HearsStays ==
  ASSUME NEW b \in up, NEW o \in up \cap Owners, Heard, beaten'[o] = beaten[o],
         \A m \in Heartbeats(b, o) : m \in messages',
         age'[o] = age[o], cleared'[b] = cleared[b], brokers'[b][o] = brokers[b][o]
  PROVE  Hears(b, o)'
<1>1. Heartbeats(b, o) \subseteq Heartbeats(b, o)'
  BY DEF Heartbeats
<1>2. Hears(b, o)
  BY DEF Heard
<1> QED BY <1>1, <1>2 DEF Hears, Within

\* The types the arithmetic needs.
LEMMA Clocks ==
  ASSUME TypeOK
  PROVE  /\ up \subseteq Brokers
         /\ beaten \in [Brokers -> 0..1] /\ cleared \in [Brokers -> 0..4]
         /\ age \in [Owners -> 0..(9 + 2 * Delay)]
         /\ brokers \in [Brokers -> [Owners -> 0..4]]
         /\ \A m \in messages : m.age \in 0..Delay
         /\ \A c \in clearing : c.age \in 0..Delay /\ c.will \in Owners /\ c.by \in up
<1>1. messages \subseteq Message /\ \A c \in clearing : c \in Clearance /\ c.by \in up
  BY Members
<1>2. /\ \A m \in messages : m.age \in 0..Delay
      /\ \A c \in clearing : c.age \in 0..Delay /\ c.will \in Owners /\ c.by \in up
  BY <1>1 DEF Message, Clearance
<1> QED BY <1>2, Numbers DEF TypeOK

\* Time passes for every one of the three clocks alike.
LEMMA TickHears ==
  ASSUME TypeOK, Heard, Tick, NEW b \in up, NEW o \in up \cap Owners
  PROVE  Hears(b, o)'
<1>1. /\ b \in Brokers /\ o \in Brokers /\ o \in Owners /\ o \in up
      /\ beaten[o] \in 0..1 /\ cleared[b] \in 0..4 /\ age[o] \in 0..(9 + 2 * Delay)
      /\ brokers[b][o] \in 0..4 /\ Delay \in Nat
  BY Clocks, Numbers
<1>2. /\ beaten'[o] = beaten[o] + 1 /\ cleared'[b] = cleared[b] + 1
      /\ age'[o] = Later(age[o], Oldest) /\ brokers'[b][o] = Later(brokers[b][o], Forgotten)
  BY <1>1 DEF Tick
<1>3. /\ age'[o] \in Nat /\ age'[o] <= age[o] + 1
      /\ brokers'[b][o] \in Nat /\ brokers'[b][o] <= brokers[b][o] + 1
  BY <1>1, <1>2, Numbers, LaterCounts
<1>4. ASSUME NEW x \in Nat, NEW y \in Nat, y <= x + 1, Within(x, b, o) PROVE Within(y, b, o)'
  <2>1. CASE x <= beaten[o]
    BY <1>1, <1>2, <1>4, <2>1 DEF Within
  <2>2. CASE \E m \in Heartbeats(b, o) : x <= m.age + 1
    <3>1. PICK m \in messages : m.kind = "heartbeat" /\ m.from = o /\ m.to = b /\ x <= m.age + 1
      BY <2>2 DEF Heartbeats
    <3>2. m.age \in Nat
      BY Clocks, Numbers
    <3>3. PICK n \in messages' : Alike(m, n) /\ n.age = m.age + 1
      BY Aged
    <3>4. n \in Heartbeats(b, o)' /\ y <= n.age + 1
      BY <1>4, <3>1, <3>2, <3>3 DEF Alike, Heartbeats
    <3> QED BY <3>4 DEF Within
  <2> QED BY <1>4, <2>1, <2>2 DEF Within
<1>5. CASE Within(age[o], b, o)
  BY <1>1, <1>3, <1>4, <1>5 DEF Hears
<1>6. CASE Within(cleared[b], b, o)
  BY <1>1, <1>2, <1>4, <1>6 DEF Hears
<1>7. CASE Within(brokers[b][o], b, o)
  BY <1>1, <1>3, <1>4, <1>7 DEF Hears
<1> QED BY <1>5, <1>6, <1>7 DEF Heard, Hears

\* Every step keeps the brokers that run in touch.
LEMMA NextHears ==
  ASSUME TypeOK, Heard, [Next]_vars
  PROVE  Heard'
<1> USE Numbers
<1>0. /\ up \subseteq Brokers /\ Owners \subseteq Brokers
      /\ beaten \in [Brokers -> 0..1] /\ cleared \in [Brokers -> 0..4]
      /\ age \in [Owners -> 0..(9 + 2 * Delay)] /\ brokers \in [Brokers -> [Owners -> 0..4]]
      /\ messages \subseteq Message
  BY Clocks, ClusterAssumption, Members
<1>1. ASSUME UNCHANGED <<up, age, beaten, cleared, brokers, messages>> PROVE Heard'
  BY <1>1 DEF Heard, Hears, Within, Heartbeats
<1>2. ASSUME NEW s \in Brokers, Start(s), NEW b \in up', NEW o \in up' \cap Owners
      PROVE  Hears(b, o)'
  <2>1. /\ s \notin up /\ up' = up \cup {s} /\ messages \subseteq messages'
        /\ age' = [x \in Owners |-> IF x = s THEN 0 ELSE age[x]]
        /\ beaten' = [beaten EXCEPT ![s] = 0] /\ cleared' = [cleared EXCEPT ![s] = 0]
        /\ brokers' = brokers
    BY <1>2 DEF Start, Send
  <2>2. beaten'[o] \in 0..1 /\ (o # s => beaten'[o] = beaten[o])
    BY <1>0, <2>1
  <2>3. CASE o = s
    BY <2>1, <2>2, <2>3 DEF Hears, Within
  <2>4. CASE b = s
    BY <1>0, <2>1, <2>2, <2>4 DEF Hears, Within
  <2>5. CASE o # s /\ b # s
    <3>1. /\ b \in up /\ o \in up \cap Owners /\ \A m \in Heartbeats(b, o) : m \in messages'
          /\ age'[o] = age[o] /\ cleared'[b] = cleared[b]
      BY <1>0, <2>1, <2>5 DEF Heartbeats
    <3> QED BY <2>1, <2>2, <2>5, <3>1, HearsStays
  <2> QED BY <2>3, <2>4, <2>5
<1>3. ASSUME NEW s \in Brokers, Stop(s), NEW b \in up', NEW o \in up' \cap Owners
      PROVE  Hears(b, o)'
  <2>1. /\ b \in up \ {s} /\ o \in (up \ {s}) \cap Owners
        /\ \A m \in Heartbeats(b, o) : m \in messages'
        /\ age'[o] = age[o] /\ beaten'[o] = beaten[o] /\ cleared'[b] = cleared[b]
        /\ brokers'[b][o] = brokers[b][o]
    BY <1>0, <1>3 DEF Stop, Heartbeats
  <2> QED BY <2>1, HearsStays
<1>4. ASSUME NEW s \in Brokers, Beat(s), NEW b \in up, NEW o \in up \cap Owners
      PROVE  Hears(b, o)'
  <2>1. /\ beaten' = [beaten EXCEPT ![s] = 0] /\ brokers' = [brokers EXCEPT ![s][s] = 0]
        /\ messages' = messages \cup
             [kind : {"heartbeat"}, from : {s} \cap Owners, to : up \ {s}, age : {0}]
        /\ age' = age /\ cleared' = cleared
    BY <1>4 DEF Beat, Send
  <2>2. b \in Brokers /\ o \in Brokers /\ o \in Owners
    BY <1>0
  <2>3. CASE o # s
    <3>1. beaten'[o] = beaten[o] /\ brokers'[b][o] = brokers[b][o]
      BY <1>0, <2>1, <2>2, <2>3
    <3> QED BY <2>1, <3>1, HearsStays DEF Heartbeats
  <2>4. CASE o = s /\ b = s
    <3>1. brokers'[b][o] = 0 /\ beaten'[o] = 0
      BY <1>0, <2>1, <2>2, <2>4
    <3> QED BY <3>1 DEF Hears, Within
  <2>5. CASE o = s /\ b # s
    <3> DEFINE n == [kind |-> "heartbeat", from |-> o, to |-> b, age |-> 0]
    <3>1. n \in Heartbeats(b, o)' /\ n.age = 0
      BY <2>1, <2>2, <2>5 DEF Heartbeats
    <3> HIDE DEF n
    <3>2. brokers'[b][o] = brokers[b][o]
      BY <1>0, <2>1, <2>2, <2>5
    <3>3. ASSUME NEW x, Within(x, b, o) PROVE Within(x, b, o)'
      <4>1. CASE x <= beaten[o]
        <5>1. beaten[o] = 0 \/ beaten[o] = 1
          BY <1>0, <2>2
        <5>2. BeatDue(s) /\ beaten[o] = 1
          BY <1>4, <2>5 DEF Beat, BeatDue
        <5> QED BY <3>1, <4>1, <5>2 DEF Within
      <4>2. CASE \E m \in Heartbeats(b, o) : x <= m.age + 1
        <5>1. Heartbeats(b, o) \subseteq Heartbeats(b, o)'
          BY <2>1 DEF Heartbeats
        <5> QED BY <4>2, <5>1 DEF Within
      <4> QED BY <3>3, <4>1, <4>2 DEF Within
    <3> QED BY <2>1, <3>2, <3>3 DEF Heard, Hears
  <2> QED BY <2>3, <2>4, <2>5
<1>5. ASSUME NEW s \in Brokers, ClearWills(s), NEW b \in up, NEW o \in up \cap Owners
      PROVE  Hears(b, o)'
  <2>1. /\ cleared' = [cleared EXCEPT ![s] = 0]
        /\ UNCHANGED <<up, age, beaten, messages, brokers>>
    BY <1>5 DEF ClearWills
  <2>2. CASE b = s
    <3>1. cleared'[b] = 0 /\ beaten'[o] \in 0..1
      BY <1>0, <2>1, <2>2
    <3> QED BY <3>1 DEF Hears, Within
  <2>3. CASE b # s
    <3>1. cleared'[b] = cleared[b]
      BY <1>0, <2>1, <2>3
    <3> QED BY <2>1, <3>1, HearsStays DEF Heartbeats
  <2> QED BY <2>2, <2>3
<1>6. ASSUME NEW n \in messages, Receive(n), NEW b \in up, NEW o \in up \cap Owners
      PROVE  Hears(b, o)'
  <2>1. /\ messages' = messages \ {n} /\ UNCHANGED <<up, age, beaten, cleared>>
        /\ brokers' = IF n.kind = "heartbeat" THEN [brokers EXCEPT ![n.to][n.from] = 0] ELSE brokers
    BY <1>6 DEF Receive, timers
  <2>2. n.to \in Brokers /\ b \in Brokers /\ o \in Owners
    BY <1>0 DEF Message
  <2>3. CASE n \in Heartbeats(b, o)
    <3>1. brokers'[b][o] = 0 /\ beaten'[o] \in 0..1
      BY <1>0, <2>1, <2>2, <2>3 DEF Heartbeats
    <3> QED BY <3>1 DEF Hears, Within
  <2>4. CASE n \notin Heartbeats(b, o)
    <3>1. brokers'[b][o] = brokers[b][o]
      BY <1>0, <2>1, <2>2, <2>4 DEF Heartbeats
    <3>2. \A m \in Heartbeats(b, o) : m \in messages'
      BY <2>1, <2>4 DEF Heartbeats
    <3> QED BY <2>1, <3>1, <3>2, HearsStays
  <2> QED BY <2>3, <2>4
<1>7. CASE Tick
  BY <1>7, TickHears DEF Tick, Heard
<1>8. CASE \/ \E b \in Brokers : PutWill(b) \/ Withdraw(b)
           \/ \E c \in clearing : Check(c) \/ PublishWill(c) \/ DeleteWill(c)
           \/ UNCHANGED vars
  BY <1>1, <1>8 DEF PutWill, Withdraw, Check, PublishWill, DeleteWill, vars, timers
<1>9. ASSUME up' = up, \A b \in up, o \in up \cap Owners : Hears(b, o)' PROVE Heard'
  BY <1>9 DEF Heard
<1>10. ASSUME NEW s \in Brokers, Start(s) PROVE Heard'
  BY <1>2, <1>10 DEF Heard
<1>11. ASSUME NEW s \in Brokers, Stop(s) PROVE Heard'
  BY <1>3, <1>11 DEF Heard
<1>12. ASSUME NEW s \in Brokers, Beat(s) PROVE Heard'
  BY <1>4, <1>9, <1>12 DEF Beat
<1>13. ASSUME NEW s \in Brokers, ClearWills(s) PROVE Heard'
  BY <1>5, <1>9, <1>13 DEF ClearWills
<1>14. ASSUME NEW n \in messages, Receive(n) PROVE Heard'
  BY <1>6, <1>9, <1>14 DEF Receive
<1> QED BY <1>7, <1>8, <1>10, <1>11, <1>12, <1>13, <1>14 DEF Next

\* A will that is being cleared was stored; if its broker runs, it has not run
\* for longer than its first heartbeat takes, and the clearing.
Spared ==
  /\ LiveSpared /\ had \subseteq up \cup gone
  /\ \A c \in clearing :
       /\ c.will \in had
       /\ c.will \in up => age[c.will] <= Heartbeat + Delay + c.age

\* A will is chosen for clearing only in the first moments of its broker: the
\* clear timer of a broker fires when it has listened for long enough.
LEMMA ChosenYoung ==
  ASSUME TypeOK, Heard, Heartbeat + Delay < Forgotten,
         NEW b \in up, NEW o \in up \cap Owners, ClearDue(b), Silent(b, o)
  PROVE  age[o] <= Heartbeat + Delay
<1> USE Numbers
<1>1. /\ Hears(b, o) /\ cleared[b] = 4 /\ brokers[b][o] = 4 /\ Delay \in Nat /\ Delay < 3
      /\ beaten[o] \in 0..1 /\ age[o] \in Nat
      /\ \A m \in Heartbeats(b, o) : m.age \in 0..Delay
  <2>1. o \in Brokers /\ o \in Owners
    BY Clocks
  <2> QED BY <2>1, Clocks DEF Heard, ClearDue, Silent, Heartbeats
<1>2. ASSUME NEW x \in Nat, Within(x, b, o) PROVE x <= 1 + Delay
  BY <1>1, <1>2 DEF Within
<1> QED BY <1>1, <1>2 DEF Hears

\* Every step spares the wills of the brokers that run.
LEMMA NextSpares ==
  ASSUME TypeOK, Heard, Spared, [Next]_vars, Heartbeat + Delay < Forgotten
  PROVE  Spared'
<1> USE Numbers
<1>0. /\ had \subseteq up \cup gone /\ wills \subseteq had /\ up \subseteq Brokers
      /\ \A c \in clearing : /\ c.will \in had /\ c.will \in Owners /\ c.by \in up /\ c.age \in 0..Delay
                             /\ c.will \in up => age[c.will] <= 1 + Delay + c.age
      /\ \A s \in spurious : s.age <= 1 + 2 * Delay
      /\ age \in [Owners -> 0..(9 + 2 * Delay)]
  BY Clocks DEF Spared, TypeOK, LiveSpared
<1>1. ASSUME UNCHANGED <<up, gone, age, had, spurious>>,
             \A d \in clearing' : d \in clearing \/ \E c \in clearing : SameClearing(c, d) /\ d.age = c.age
      PROVE  Spared'
  BY <1>0, <1>1 DEF Spared, LiveSpared, SameClearing
<1>2. ASSUME NEW s \in Brokers, Start(s) PROVE Spared'
  <2>1. /\ s \notin up \cup gone /\ up' = up \cup {s} /\ UNCHANGED <<gone, had, spurious, clearing>>
        /\ age' = [o \in Owners |-> IF o = s THEN 0 ELSE age[o]]
    BY <1>2 DEF Start, ghosts
  <2>2. ASSUME NEW c \in clearing
        PROVE  c.will \in had /\ c.will \in Owners /\ c.will # s /\ age'[c.will] = age[c.will]
    BY <1>0, <2>1
  <2> QED BY <1>0, <2>1, <2>2 DEF Spared, LiveSpared
<1>3. ASSUME NEW s \in Brokers, Stop(s) PROVE Spared'
  <2>1. /\ up' = up \ {s} /\ gone' = gone \cup {s} /\ UNCHANGED <<had, spurious>>
        /\ clearing' \subseteq clearing
        /\ age' = [o \in Owners |-> IF o = s THEN 0 ELSE age[o]]
    BY <1>3 DEF Stop, ghosts
  <2>2. ASSUME NEW c \in clearing, c.will # s
        PROVE  age'[c.will] = age[c.will]
    BY <1>0, <2>1, <2>2
  <2> QED BY <1>0, <2>1, <2>2 DEF Spared, LiveSpared
<1>4. ASSUME NEW s \in Brokers, PutWill(s) \/ Withdraw(s) \/ Beat(s) PROVE Spared'
  <2>1. /\ UNCHANGED <<up, gone, age, spurious, clearing>>
        /\ had \subseteq had' /\ had' \subseteq had \cup up
    BY <1>4 DEF PutWill, Withdraw, Beat, timers, ghosts
  <2> QED BY <1>0, <2>1 DEF Spared, LiveSpared
<1>5. ASSUME NEW b \in Brokers, ClearWills(b) PROVE Spared'
  <2>1. /\ UNCHANGED <<up, gone, age, had, spurious>> /\ ClearDue(b) /\ b \in up
        /\ \A d \in clearing' : d \in clearing \/ /\ d.will \in wills /\ Silent(b, d.will) /\ d.age = 0
    BY <1>5 DEF ClearWills, ClearDue, ghosts
  <2>2. ASSUME NEW d \in clearing', d \notin clearing
        PROVE  d.will \in had /\ (d.will \in up => age[d.will] <= 1 + Delay + d.age)
    <3>1. d.will \in wills /\ Silent(b, d.will) /\ d.age = 0
      BY <2>1, <2>2
    <3>2. d.will \in Owners
      BY <3>1 DEF TypeOK
    <3>3. d.will \in up => age[d.will] <= 1 + Delay
      BY <2>1, <3>1, <3>2, ChosenYoung
    <3> QED BY <1>0, <3>1, <3>3
  <2> QED BY <1>0, <2>1, <2>2 DEF Spared, LiveSpared
<1>6. ASSUME NEW m \in messages, Receive(m) PROVE Spared'
  BY <1>1, <1>6 DEF Receive, timers
<1>7. ASSUME NEW c \in clearing, Check(c) PROVE Spared'
  <2>1. UNCHANGED <<up, gone, age, had, spurious>>
    BY <1>7 DEF Check, timers, ghosts
  <2> QED BY <1>1, <1>7, <2>1, Moved
<1>8. ASSUME NEW c \in clearing, PublishWill(c) PROVE Spared'
  <2>1. /\ UNCHANGED <<up, gone, age, had>>
        /\ \A s \in spurious' : s \in spurious \/ (c.will \in up /\ s.age = age[c.will])
    BY <1>8 DEF PublishWill, timers
  <2>2. c.will \in up => age[c.will] <= 1 + Delay + c.age
    BY <1>0
  <2>3. \A s \in spurious' : s.age <= 1 + 2 * Delay
    BY <1>0, <2>1, <2>2
  <2>4. \A d \in clearing' : d \in clearing \/ (d.will = c.will /\ d.age = c.age)
    BY <1>8, Moved DEF SameClearing
  <2> QED BY <1>0, <2>1, <2>3, <2>4 DEF Spared, LiveSpared
<1>9. ASSUME NEW c \in clearing, DeleteWill(c) PROVE Spared'
  BY <1>1, <1>9 DEF DeleteWill, timers, ghosts
<1>10. CASE Tick
  <2>1. UNCHANGED <<up, gone, had, spurious>>
    BY <1>10 DEF Tick, ghosts
  <2>2. ASSUME NEW d \in clearing'
        PROVE  d.will \in had /\ (d.will \in up => age'[d.will] <= 1 + Delay + d.age)
    <3>1. PICK c \in clearing : d.will = c.will /\ d.age = c.age + 1
      BY <1>10, Aged DEF SameClearing
    <3>2. c.will \in Owners /\ c.will \in Brokers /\ age[c.will] \in 0..Oldest /\ Oldest \in Nat
      BY <1>0, ClusterAssumption
    <3>3. c.will \in up => age'[c.will] <= age[c.will] + 1 /\ age'[c.will] \in Nat
      BY <1>10, <3>2, LaterCounts DEF Tick
    <3> QED BY <1>0, <3>1, <3>2, <3>3
  <2> QED BY <1>0, <2>1, <2>2 DEF Spared, LiveSpared
<1>11. CASE UNCHANGED vars
  BY <1>1, <1>11 DEF vars, timers, ghosts
<1> QED BY <1>2, <1>3, <1>4, <1>5, <1>6, <1>7, <1>8, <1>9, <1>10, <1>11 DEF Next

\* When the first heartbeat of a broker, however late, arrives before three
\* intervals have passed: the will of a broker that runs is published by
\* another only in its first moments (aedes.js:79-136).  A delay of three
\* intervals is already too long, as a run with Delay = 3 shows.
THEOREM LiveSparedSafe ==
  ASSUME Heartbeat + Delay < Forgotten
  PROVE  Spec => []LiveSpared
<1>1. Init => Heard /\ Spared
  BY DEF Init, Heard, Spared, LiveSpared
<1>2. TypeOK /\ (Heard /\ Spared) /\ [Next]_vars => (Heard /\ Spared)'
  BY NextHears, NextSpares
<1>3. Spared => LiveSpared
  BY DEF Spared
<1> QED BY <1>1, <1>2, <1>3, Types, PTL DEF Spec

-----------------------------------------------------------------------------
(***************************************************************************)
(* The wills of a broker that stopped are published in time.  What a       *)
(* witness w last heard of it is at least as old as its end, but for the   *)
(* way of the message; so w has forgotten it after Forgotten intervals and *)
(* Delay, and the clear timer of w fires, or has fired, in time.           *)
(***************************************************************************)
\* No message of o was sent after o stopped.
Spoken(o) == \A m \in messages : m.from = o => age[o] <= m.age

\* What w heard of o was sent before o stopped.
Remembers(w, o) == Silent(w, o) \/ age[o] <= brokers[w][o] + Delay

\* The clear timer of w has yet to fire in time, or the will is being cleared.
Clears(w, o) ==
  \/ age[o] <= cleared[w] + Forgotten + Delay
  \/ \E c \in clearing : /\ c.by = w /\ c.will = o
                         /\ age[o] <= Forgotten + Delay + ClearEvery + c.age

Timely(o) ==
  /\ Spoken(o)
  /\ \A w \in witnesses[o] : Remembers(w, o) /\ (o \in wills => Clears(w, o))

AllTimely == \A o \in gone \cap Owners : Timely(o)

\* A step that does not concern o, nor what its witnesses know of it.
LEMMA TimelyStays ==
  ASSUME NEW o \in Owners, Timely(o), age'[o] = age[o],
         \A m \in messages' : m.from = o => m \in messages,
         witnesses'[o] \subseteq witnesses[o], o \in wills' => o \in wills,
         \A w \in witnesses'[o] : /\ brokers'[w][o] = brokers[w][o]
                                  /\ cleared'[w] = cleared[w]
                                  /\ \A c \in clearing : c.by = w /\ c.will = o /\ o \in wills' =>
                                       \E d \in clearing' : SameClearing(c, d) /\ d.age = c.age
  PROVE  Timely(o)'
<1>1. Spoken(o)'
  BY DEF Timely, Spoken
<1>2. ASSUME NEW w \in witnesses'[o] PROVE Remembers(w, o)' /\ ((o \in wills)' => Clears(w, o)')
  <2>1. Remembers(w, o) /\ (o \in wills => Clears(w, o))
    BY DEF Timely
  <2>2. Remembers(w, o)'
    BY <2>1 DEF Remembers, Silent
  <2>3. ASSUME o \in wills' PROVE Clears(w, o)'
    <3>1. CASE age[o] <= cleared[w] + Forgotten + Delay
      BY <3>1 DEF Clears
    <3>2. CASE \E c \in clearing : /\ c.by = w /\ c.will = o
                                   /\ age[o] <= Forgotten + Delay + ClearEvery + c.age
      <4>1. PICK c \in clearing : /\ c.by = w /\ c.will = o
                                  /\ age[o] <= Forgotten + Delay + ClearEvery + c.age
        BY <3>2
      <4>2. PICK d \in clearing' : d.by = w /\ d.will = o /\ d.age = c.age
        BY <2>3, <4>1 DEF SameClearing
      <4> QED BY <4>1, <4>2 DEF Clears
    <3> QED BY <2>1, <2>3, <3>1, <3>2 DEF Clears
  <2> QED BY <2>2, <2>3
<1> QED BY <1>1, <1>2 DEF Timely

\* Time passes: a witness forgets, its timer runs, and so does the clearing.
LEMMA TickTimely ==
  ASSUME TypeOK, Tick, NEW o \in gone \cap Owners, Timely(o)
  PROVE  Timely(o)'
<1> USE Numbers
<1>0. /\ o \in Owners /\ o \in Brokers /\ o \in gone /\ witnesses'[o] = witnesses[o]
      /\ wills' = wills /\ witnesses[o] \subseteq up /\ up \subseteq Brokers
  BY ClusterAssumption DEF Tick, TypeOK
<1>1. /\ age[o] \in Nat /\ age'[o] \in Nat /\ age'[o] <= age[o] + 1
  <2>1. age[o] \in 0..Oldest /\ Oldest \in Nat
    BY <1>0 DEF TypeOK
  <2>2. age'[o] = Later(age[o], Oldest)
    BY <1>0 DEF Tick
  <2> QED BY <2>1, <2>2, LaterCounts
<1>2. Spoken(o)'
  <2>1. ASSUME NEW n \in messages', n.from = o PROVE age'[o] <= n.age
    <3>1. PICK m \in messages : m.from = o /\ n.age = m.age + 1
      BY <2>1, Aged DEF Alike
    <3>2. age[o] <= m.age /\ m.age \in Nat
      BY <3>1, Clocks DEF Timely, Spoken
    <3> QED BY <1>1, <3>1, <3>2
  <2> QED BY <2>1 DEF Spoken
<1>3. ASSUME NEW w \in witnesses[o] PROVE Remembers(w, o)' /\ ((o \in wills)' => Clears(w, o)')
  <2>0. /\ w \in up /\ w \in Brokers /\ cleared[w] \in 0..4 /\ cleared'[w] = cleared[w] + 1
        /\ brokers[w][o] \in 0..Forgotten /\ brokers'[w][o] = Later(brokers[w][o], Forgotten)
        /\ Remembers(w, o) /\ (o \in wills => Clears(w, o))
    BY <1>0, Clocks DEF Tick, Timely
  <2>1. Remembers(w, o)'
    <3>1. \/ brokers[w][o] = Forgotten /\ brokers'[w][o] = Forgotten
          \/ brokers'[w][o] = brokers[w][o] + 1
      BY <2>0, LaterCounts
    <3>2. CASE Silent(w, o) \/ brokers'[w][o] = Forgotten
      BY <3>2, <2>0 DEF Remembers, Silent, Later
    <3>3. CASE brokers'[w][o] = brokers[w][o] + 1 /\ age[o] <= brokers[w][o] + Delay
      <4>1. brokers[w][o] \in Nat
        BY <2>0
      <4>2. age'[o] <= brokers'[w][o] + Delay
        BY <1>1, <3>3, <4>1
      <4> QED BY <4>2 DEF Remembers
    <3> QED BY <2>0, <3>1, <3>2, <3>3 DEF Remembers
  <2>2. ASSUME o \in wills PROVE Clears(w, o)'
    <3>1. CASE age[o] <= cleared[w] + Forgotten + Delay
      BY <1>1, <2>0, <3>1 DEF Clears
    <3>2. CASE \E c \in clearing : /\ c.by = w /\ c.will = o
                                   /\ age[o] <= Forgotten + Delay + ClearEvery + c.age
      <4>1. PICK c \in clearing : /\ c.by = w /\ c.will = o
                                  /\ age[o] <= Forgotten + Delay + ClearEvery + c.age
        BY <3>2
      <4>2. PICK d \in clearing' : d.by = w /\ d.will = o /\ d.age = c.age + 1
        BY <4>1, Aged DEF SameClearing
      <4>3. c.age \in Nat
        BY Clocks
      <4>4. age'[o] <= Forgotten + Delay + ClearEvery + d.age
        BY <1>1, <4>1, <4>2, <4>3
      <4> QED BY <4>2, <4>4 DEF Clears
    <3> QED BY <2>0, <2>2, <3>1, <3>2 DEF Clears
  <2> QED BY <1>0, <2>1, <2>2
<1> QED BY <1>0, <1>2, <1>3 DEF Timely

\* Every step keeps the clearing in time.
LEMMA NextTimely ==
  ASSUME TypeOK, AllTimely, [Next]_vars
  PROVE  AllTimely'
<1> USE Numbers
<1>0. /\ up \cap gone = {} /\ up \subseteq Brokers /\ Owners \subseteq Brokers
      /\ age \in [Owners -> Nat] /\ messages \subseteq Message
      /\ cleared \in [Brokers -> 0..4] /\ brokers \in [Brokers -> [Owners -> 0..4]]
      /\ \A o \in Brokers : witnesses[o] \subseteq up
      /\ witnesses \in [Brokers -> SUBSET Brokers]
  BY ClusterAssumption, Members, Clocks DEF TypeOK
<1>1. ASSUME NEW s \in Brokers, Start(s), NEW o \in gone \cap Owners PROVE Timely(o)'
  <2>1. /\ o # s /\ s \notin up /\ UNCHANGED <<witnesses, wills, clearing, brokers>>
        /\ age'[o] = age[o] /\ cleared' = [cleared EXCEPT ![s] = 0]
        /\ \A m \in messages' : m.from = o => m \in messages
    BY <1>0, <1>1 DEF Start, Send
  <2>2. \A w \in witnesses[o] : w \in Brokers /\ cleared'[w] = cleared[w]
    BY <1>0, <2>1
  <2> QED BY <2>1, <2>2, TimelyStays DEF AllTimely, SameClearing
<1>2. ASSUME NEW s \in Brokers, Stop(s), NEW o \in gone' \cap Owners PROVE Timely(o)'
  <2>1. /\ gone' = gone \cup {s} /\ s \in up /\ wills' = wills
        /\ age' = [x \in Owners |-> IF x = s THEN 0 ELSE age[x]]
        /\ cleared' = [cleared EXCEPT ![s] = 0]
        /\ brokers' = [brokers EXCEPT ![s] = [x \in Owners |-> Forgotten]]
        /\ messages' \subseteq messages /\ clearing' = {c \in clearing : c.by # s}
        /\ witnesses' = [x \in Brokers |-> IF x = s THEN up \ {s} ELSE witnesses[x] \ {s}]
    BY <1>2 DEF Stop
  <2>2. /\ o \in Brokers /\ o \in Owners
        /\ witnesses'[o] = (IF o = s THEN up ELSE witnesses[o]) \ {s}
        /\ \A w \in witnesses'[o] : /\ w # s /\ w \in Brokers /\ cleared'[w] = cleared[w]
                                    /\ brokers'[w][o] = brokers[w][o]
    BY <1>0, <2>1
  <2>3. CASE o = s
    <3>1. age'[o] = 0
      BY <2>1, <2>2, <2>3
    <3>2. \A w \in witnesses'[o] : brokers'[w][o] \in Nat /\ cleared'[w] \in Nat
      BY <1>0, <2>2
    <3>3. Spoken(o)'
      BY <1>0, <2>1, <3>1 DEF Spoken, Message
    <3> QED BY <3>1, <3>2, <3>3 DEF Timely, Remembers, Clears
  <2>4. CASE o # s
    <3>1. o \in gone /\ Timely(o) /\ age'[o] = age[o]
      BY <2>1, <2>2, <2>4 DEF AllTimely
    <3>2. \A w \in witnesses'[o] : \A c \in clearing : c.by = w => c \in clearing'
      BY <2>1, <2>2
    <3>3. /\ witnesses'[o] \subseteq witnesses[o] /\ (o \in wills' => o \in wills)
          /\ \A m \in messages' : m.from = o => m \in messages
      BY <2>1, <2>2, <2>4
    <3> QED BY <2>2, <3>1, <3>2, <3>3, TimelyStays DEF SameClearing
  <2> QED BY <2>3, <2>4
<1>3. ASSUME NEW s \in Brokers, PutWill(s) \/ Withdraw(s), NEW o \in gone \cap Owners PROVE Timely(o)'
  <2>1. /\ o # s /\ (o \in wills' => o \in wills)
        /\ UNCHANGED <<age, messages, witnesses, brokers, cleared, clearing>>
    BY <1>0, <1>3 DEF PutWill, Withdraw, timers
  <2> QED BY <2>1, TimelyStays DEF AllTimely, SameClearing
<1>4. ASSUME NEW s \in Brokers, Beat(s), NEW o \in gone \cap Owners PROVE Timely(o)'
  <2>1. /\ o # s /\ UNCHANGED <<age, witnesses, wills, cleared, clearing>>
        /\ brokers' = [brokers EXCEPT ![s][s] = 0]
        /\ \A m \in messages' : m.from = o => m \in messages
    BY <1>0, <1>4 DEF Beat, BeatDue, Send
  <2>2. \A w \in witnesses[o] : brokers'[w][o] = brokers[w][o]
    BY <1>0, <2>1
  <2> QED BY <2>1, <2>2, TimelyStays DEF AllTimely, SameClearing
<1>5. ASSUME NEW b \in Brokers, ClearWills(b), NEW o \in gone \cap Owners PROVE Timely(o)'
  <2>1. /\ cleared' = [cleared EXCEPT ![b] = 0] /\ cleared[b] = 4
        /\ UNCHANGED <<age, messages, witnesses, brokers, wills>>
        /\ \A c \in clearing : c \in clearing'
        /\ o \in wills /\ Silent(b, o) => [by |-> b, will |-> o, step |-> "check", age |-> 0] \in clearing'
    BY <1>5 DEF ClearWills, ClearDue
  <2>2. Timely(o) /\ Spoken(o)'
    BY <2>1 DEF AllTimely, Timely, Spoken
  <2>3. ASSUME NEW w \in witnesses[o], w # b
        PROVE  Remembers(w, o)' /\ ((o \in wills)' => Clears(w, o)')
    <3>1. cleared'[w] = cleared[w] /\ Remembers(w, o) /\ (o \in wills => Clears(w, o))
      BY <1>0, <2>1, <2>2, <2>3 DEF Timely
    <3> QED BY <2>1, <3>1 DEF Remembers, Silent, Clears
  <2>4. ASSUME b \in witnesses[o] PROVE Remembers(b, o)' /\ ((o \in wills)' => Clears(b, o)')
    <3>0. /\ Remembers(b, o) /\ (o \in wills => Clears(b, o)) /\ cleared'[b] = 0
          /\ brokers[b][o] \in 0..4 /\ age[o] \in Nat
      BY <1>0, <2>1, <2>2, <2>4 DEF Timely
    <3>1. Remembers(b, o)'
      BY <2>1, <3>0 DEF Remembers, Silent
    <3>2. CASE ~Silent(b, o)
      <4>1. age'[o] <= cleared'[b] + Forgotten + Delay
        BY <2>1, <3>0, <3>2 DEF Remembers, Silent
      <4> QED BY <3>1, <4>1 DEF Clears
    <3>3. CASE o \in wills /\ Silent(b, o) /\ age[o] <= cleared[b] + Forgotten + Delay
      <4> DEFINE d == [by |-> b, will |-> o, step |-> "check", age |-> 0]
      <4>1. d \in clearing' /\ d.by = b /\ d.will = o /\ d.age = 0
        BY <2>1, <3>3
      <4> HIDE DEF d
      <4>2. age'[o] <= Forgotten + Delay + ClearEvery + d.age
        BY <2>1, <3>0, <3>3, <4>1
      <4> QED BY <3>1, <4>1, <4>2 DEF Clears
    <3>4. CASE \E c \in clearing : /\ c.by = b /\ c.will = o
                                   /\ age[o] <= Forgotten + Delay + ClearEvery + c.age
      BY <2>1, <3>1, <3>4 DEF Clears
    <3> QED BY <2>1, <3>0, <3>1, <3>2, <3>3, <3>4 DEF Clears
  <2> QED BY <2>1, <2>2, <2>3, <2>4 DEF Timely
<1>6. ASSUME NEW n \in messages, Receive(n), NEW o \in gone \cap Owners PROVE Timely(o)'
  <2>1. /\ messages' = messages \ {n} /\ UNCHANGED <<age, cleared, witnesses, wills, clearing>>
        /\ brokers' = IF n.kind = "heartbeat" THEN [brokers EXCEPT ![n.to][n.from] = 0] ELSE brokers
        /\ n.to \in Brokers /\ n.age \in 0..Delay
    BY <1>0, <1>6 DEF Receive, timers, Message
  <2>2. Timely(o) /\ Spoken(o)'
    BY <2>1 DEF AllTimely, Timely, Spoken
  <2>3. ASSUME NEW w \in witnesses[o] PROVE Remembers(w, o)'
    <3>1. w \in Brokers /\ o \in Owners /\ age[o] \in Nat
      BY <1>0
    <3>2. CASE n.kind = "heartbeat" /\ n.to = w /\ n.from = o
      <4>1. brokers'[w][o] = 0 /\ age[o] <= n.age
        BY <1>0, <2>1, <2>2, <3>1, <3>2 DEF Timely, Spoken
      <4> QED BY <2>1, <3>1, <4>1 DEF Remembers
    <3>3. CASE ~(n.kind = "heartbeat" /\ n.to = w /\ n.from = o)
      <4>1. brokers'[w][o] = brokers[w][o]
        BY <1>0, <2>1, <3>1, <3>3
      <4> QED BY <2>1, <2>2, <4>1 DEF Timely, Remembers, Silent
    <3> QED BY <3>2, <3>3
  <2>4. ASSUME NEW w \in witnesses[o], o \in wills PROVE Clears(w, o)'
    BY <2>1, <2>2, <2>4 DEF Timely, Clears
  <2> QED BY <2>1, <2>2, <2>3, <2>4 DEF Timely
<1>7. ASSUME NEW c \in clearing, Check(c), NEW o \in gone \cap Owners PROVE Timely(o)'
  <2>1. /\ UNCHANGED <<age, cleared, messages, brokers, wills, witnesses>>
        /\ \A d \in clearing \ {c} : d \in clearing'
        /\ Silent(c.by, c.will) => \E d \in clearing' : SameClearing(c, d) /\ d.age = c.age
    BY <1>7, Moved DEF Check, timers
  <2>2. CASE c.will = o /\ ~Silent(c.by, o)
    <3>1. Timely(o) /\ Spoken(o)'
      BY <2>1 DEF AllTimely, Timely, Spoken
    <3>2. ASSUME NEW w \in witnesses[o] PROVE Remembers(w, o)' /\ ((o \in wills)' => Clears(w, o)')
      <4>1. Remembers(w, o) /\ (o \in wills => Clears(w, o))
        BY <3>1 DEF Timely
      <4>2. CASE w # c.by
        <5>1. \A d \in clearing : d.by = w => d \in clearing'
          BY <2>1, <4>2
        <5> QED BY <2>1, <4>1, <5>1 DEF Remembers, Silent, Clears
      <4>3. CASE w = c.by
        <5>1. /\ w \in Brokers /\ o \in Owners /\ brokers[w][o] \in 0..4
              /\ age[o] \in Nat /\ cleared[w] \in 0..4
          BY <1>0
        <5>2. age[o] <= cleared[w] + Forgotten + Delay
          BY <2>2, <4>1, <4>3, <5>1 DEF Remembers, Silent
        <5> QED BY <2>1, <4>1, <5>2 DEF Remembers, Silent, Clears
      <4> QED BY <4>2, <4>3
    <3> QED BY <2>1, <3>1, <3>2 DEF Timely
  <2>3. CASE ~(c.will = o /\ ~Silent(c.by, o))
    <3>1. \A d \in clearing : d.will = o =>
            \E e \in clearing' : SameClearing(d, e) /\ e.age = d.age
      BY <2>1, <2>3 DEF SameClearing
    <3> QED BY <2>1, <3>1, TimelyStays DEF AllTimely
  <2> QED BY <2>2, <2>3
<1>8. ASSUME NEW c \in clearing, PublishWill(c), NEW o \in gone \cap Owners PROVE Timely(o)'
  <2>1. UNCHANGED <<age, cleared, messages, brokers, wills, witnesses>>
    BY <1>8 DEF PublishWill, timers
  <2>2. \A d \in clearing : \E e \in clearing' : SameClearing(d, e) /\ e.age = d.age
    BY <1>8, Moved DEF SameClearing
  <2> QED BY <2>1, <2>2, TimelyStays DEF AllTimely
<1>9. ASSUME NEW c \in clearing, DeleteWill(c), NEW o \in gone \cap Owners PROVE Timely(o)'
  <2>1. /\ UNCHANGED <<age, cleared, messages, brokers, witnesses>>
        /\ clearing' = clearing \ {c} /\ wills' = wills \ {c.will}
    BY <1>9 DEF DeleteWill, timers
  <2>2. \A d \in clearing : d.will = o /\ o \in wills' => d \in clearing'
    BY <2>1
  <2> QED BY <2>1, <2>2, TimelyStays DEF AllTimely, SameClearing
<1>10. CASE Tick
  BY <1>10, TickTimely DEF AllTimely, Tick
<1>11. CASE UNCHANGED vars
  <2>1. UNCHANGED <<gone, age, cleared, messages, brokers, wills, witnesses, clearing>>
    BY <1>11 DEF vars, timers
  <2> QED BY <2>1, TimelyStays DEF AllTimely, SameClearing
<1>12. ASSUME NEW b \in Brokers, Start(b) \/ PutWill(b) \/ Withdraw(b) \/ Beat(b) \/ ClearWills(b)
       PROVE  AllTimely'
  <2>1. gone' = gone
    BY <1>12 DEF Start, PutWill, Withdraw, Beat, ClearWills
  <2> QED BY <1>1, <1>3, <1>4, <1>5, <1>12, <2>1 DEF AllTimely
<1>13. ASSUME NEW b \in Brokers, Stop(b) PROVE AllTimely'
  BY <1>2, <1>13 DEF AllTimely
<1>14. ASSUME NEW m \in messages, Receive(m) PROVE AllTimely'
  <2>1. gone' = gone
    BY <1>14 DEF Receive
  <2> QED BY <1>6, <1>14, <2>1 DEF AllTimely
<1>15. ASSUME NEW c \in clearing, Check(c) \/ PublishWill(c) \/ DeleteWill(c) PROVE AllTimely'
  <2>1. gone' = gone
    BY <1>15 DEF Check, PublishWill, DeleteWill
  <2> QED BY <1>7, <1>8, <1>9, <1>15, <2>1 DEF AllTimely
<1> QED BY <1>10, <1>11, <1>12, <1>13, <1>14, <1>15 DEF Next

\* For any brokers and any delay: each broker that was running when another
\* stopped, and still is, publishes the wills of that one in time
\* (_clearWills, aedes.js:122-136).
THEOREM InTimeSafe == Spec => []InTime
<1>1. Init => AllTimely
  BY DEF Init, AllTimely
<1>2. TypeOK /\ AllTimely => InTime
  <2> SUFFICES ASSUME TypeOK, AllTimely, NEW b \in gone \cap wills, NEW w \in witnesses[b]
               PROVE  age[b] <= Overdue
    BY DEF InTime
  <2> USE Numbers
  <2>1. b \in Owners /\ b \in Brokers
    BY ClusterAssumption DEF TypeOK
  <2>2. w \in Brokers /\ age[b] \in Nat /\ cleared[w] \in 0..4 /\ \A c \in clearing : c.age \in 0..Delay
    BY <2>1, Clocks DEF TypeOK
  <2>3. Clears(w, b)
    BY <2>1 DEF AllTimely, Timely
  <2> QED BY <2>2, <2>3 DEF Clears
<1> QED BY <1>1, <1>2, Types, NextTimely, PTL DEF Spec
=============================================================================
