---------------------------- MODULE ClusterWills ----------------------------
(***************************************************************************)
(* Several brokers on one persistence and one emitter: birth and heartbeat *)
(* messages, and the clearing of the wills of brokers that are gone        *)
(* (aedes.js, listen()).                                                   *)
(*                                                                         *)
(* Time counts heartbeat intervals, and every clock stops at the largest   *)
(* value that is told from the others.  What is due happens before time    *)
(* goes on, in any order; a message between brokers, and a will that is    *)
(* being cleared, may take Delay.  Each broker has one client, which may   *)
(* have a will.                                                            *)
(*                                                                         *)
(* Abstracted: broker ids are new at each start, as they are unless the    *)
(* option id is given; wills are not read in batches of 16; authorizePublish*)
(* agrees.                                                                 *)
(***************************************************************************)
EXTENDS Naturals, FiniteSets

CONSTANTS
  Brokers,
  Owners,     \* the brokers that have a client with a will
  Mortal,     \* the brokers that may stop
  Delay       \* how long a message or a will may be under way

ASSUME ClusterAssumption ==
  Owners \subseteq Brokers /\ Mortal \subseteq Brokers /\ Delay \in Nat

Heartbeat == 1
ClearEvery == 4 * Heartbeat
Forgotten == 3 * Heartbeat + 1
Young == Heartbeat + 2 * Delay              \* see LiveSpared
Overdue == Forgotten + ClearEvery + 2 * Delay  \* see InTime
Oldest == Overdue + 1

VARIABLES
  up, gone,   \* the brokers that run, that have stopped
  age,        \* of each owner: since it started, or since it stopped
  beaten,     \* since it last sent its birth or its heartbeat
  cleared,    \* since its clear timer fired, or it started
  messages,   \* births and heartbeats under way
  brokers,    \* brokers[b][o]: since b last heard o; Forgotten is 'undefined'
  wills,      \* the brokers whose client's will is stored
  clearing,   \* checkAndPublish under way
  \* Variables that only the properties read:
  born,       \* born[b]: the births that b received
  had,        \* the brokers whose client had a will
  published,  \* the brokers whose will was published
  withdrawn,  \* the brokers whose client left or whose own broker took it
  spurious,   \* the wills published by another broker while their own runs
  witnesses   \* witnesses[b]: the brokers that have run since b stopped

timers == <<age, beaten, cleared>>
ghosts == <<born, had, published, withdrawn, spurious>>
vars == <<up, gone, timers, messages, brokers, wills, clearing, ghosts, witnesses>>

Steps == {"check", "publish", "delete"}

TypeOK ==
  /\ up \cap gone = {} /\ up \cup gone \subseteq Brokers
  /\ age \in [Owners -> 0..Oldest]
  /\ beaten \in [Brokers -> 0..Heartbeat] /\ cleared \in [Brokers -> 0..ClearEvery]
  /\ messages \subseteq [kind : {"birth", "heartbeat"}, from : Brokers, to : Brokers, age : 0..Delay]
  /\ brokers \in [Brokers -> [Owners -> 0..Forgotten]]
  /\ clearing \subseteq [by : up, will : Owners, step : Steps, age : 0..Delay]
  /\ born \in [Brokers -> SUBSET Brokers] /\ witnesses \in [Brokers -> SUBSET up]
  /\ wills \subseteq had /\ published \cup had \cup withdrawn \subseteq Owners
  /\ spurious \subseteq [will : Owners, age : 0..Oldest, born : BOOLEAN]

Init ==
  /\ up = {} /\ gone = {} /\ wills = {} /\ messages = {} /\ clearing = {}
  /\ age = [b \in Owners |-> 0]
  /\ beaten = [b \in Brokers |-> 0] /\ cleared = beaten
  /\ brokers = [b \in Brokers |-> [o \in Owners |-> Forgotten]]
  /\ born = [b \in Brokers |-> {}] /\ witnesses = born
  /\ had = {} /\ published = {} /\ withdrawn = {} /\ spurious = {}

-----------------------------------------------------------------------------
\* A message of b to the others that run.  (It hears itself at once, and a
\* broker whose client has no will need not be heard.)
Send(kind, b) ==
  messages' = messages \cup [kind : {kind}, from : {b} \cap Owners, to : up \ {b}, age : {0}]

\* listen(): the timers are set and the birth is published.
Start(b) ==
  /\ b \notin up \cup gone
  /\ up' = up \cup {b}
  /\ Send("birth", b)
  /\ age' = [o \in Owners |-> IF o = b THEN 0 ELSE age[o]]
  /\ beaten' = [beaten EXCEPT ![b] = 0] /\ cleared' = [cleared EXCEPT ![b] = 0]
  /\ UNCHANGED <<gone, brokers, wills, clearing, ghosts, witnesses>>

\* The process of a broker stops, with all that it was doing.
Stop(b) ==
  /\ b \in up \cap Mortal
  /\ up' = up \ {b} /\ gone' = gone \cup {b}
  /\ age' = [o \in Owners |-> IF o = b THEN 0 ELSE age[o]]
  /\ beaten' = [beaten EXCEPT ![b] = 0] /\ cleared' = [cleared EXCEPT ![b] = 0]
  /\ brokers' = [brokers EXCEPT ![b] = [o \in Owners |-> Forgotten]]
  /\ messages' = {m \in messages : m.to # b}
  /\ clearing' = {c \in clearing : c.by # b}
  /\ witnesses' = [o \in Brokers |-> IF o = b THEN up \ {b} ELSE witnesses[o] \ {b}]
  /\ UNCHANGED <<wills, ghosts>>

\* The client of b connects with a will; it leaves, or its own broker
\* publishes the will (module Registry).
PutWill(b) ==
  /\ b \in up \cap (Owners \ had)
  /\ wills' = wills \cup {b} /\ had' = had \cup {b}
  /\ UNCHANGED <<up, gone, timers, messages, brokers, clearing, witnesses,
                 born, published, withdrawn, spurious>>

Withdraw(b) ==
  /\ b \in up \cap wills
  /\ wills' = wills \ {b} /\ withdrawn' = withdrawn \cup {b}
  /\ UNCHANGED <<up, gone, timers, messages, brokers, clearing, witnesses,
                 born, had, published, spurious>>

BeatDue(b) == b \in up \cap Owners /\ beaten[b] = Heartbeat
ClearDue(b) == b \in up /\ cleared[b] = ClearEvery

\* heartbeat()
Beat(b) ==
  /\ BeatDue(b)
  /\ beaten' = [beaten EXCEPT ![b] = 0]
  /\ brokers' = [brokers EXCEPT ![b][b] = 0]
  /\ Send("heartbeat", b)
  /\ UNCHANGED <<up, gone, age, cleared, wills, clearing, ghosts, witnesses>>

\* (faulty variant) only the first heartbeat is noted
ReceiveFirst(m) ==
  /\ messages' = messages \ {m}
  /\ brokers' = IF m.kind = "heartbeat" /\ brokers[m.to][m.from] = Forgotten
                THEN [brokers EXCEPT ![m.to][m.from] = 0] ELSE brokers
  /\ UNCHANGED <<up, gone, timers, wills, clearing, ghosts, witnesses>>

\* storeBroker and brokerBorn, which does not change that.brokers.
Receive(m) ==
  /\ messages' = messages \ {m}
  /\ brokers' = IF m.kind = "heartbeat" THEN [brokers EXCEPT ![m.to][m.from] = 0] ELSE brokers
  /\ born' = IF m.kind = "birth" THEN [born EXCEPT ![m.to] = @ \cup {m.from}] ELSE born
  /\ UNCHANGED <<up, gone, timers, wills, clearing, witnesses, had, published, withdrawn, spurious>>

\* b has not heard o for three heartbeats.
Silent(b, o) == brokers[b][o] = Forgotten

\* _clearWills: the wills of all brokers but those heard lately are read.
ClearWills(b) ==
  /\ ClearDue(b)
  /\ cleared' = [cleared EXCEPT ![b] = 0]
  /\ clearing' = clearing \cup
       [by : {b}, will : {o \in wills : Silent(b, o)}, step : {"check"}, age : {0}]
  /\ UNCHANGED <<up, gone, age, beaten, messages, brokers, wills, ghosts, witnesses>>

\* (faulty variant) the will is deleted before it is published
CheckTaking(c) ==
  /\ c.step = "check"
  /\ clearing' = (clearing \ {c}) \cup
       (IF Silent(c.by, c.will) THEN {[c EXCEPT !.step = "publish"]} ELSE {})
  /\ wills' = wills \ {c.will}
  /\ UNCHANGED <<up, gone, timers, messages, brokers, ghosts, witnesses>>

\* (faulty variant) the freshness test is inverted
CheckSwapped(c) ==
  /\ c.step = "check"
  /\ clearing' = (clearing \ {c}) \cup
       (IF Silent(c.by, c.will) THEN {} ELSE {[c EXCEPT !.step = "publish"]})
  /\ UNCHANGED <<up, gone, timers, messages, brokers, wills, ghosts, witnesses>>

\* checkAndPublish: it looks again, then publishes, then deletes the will.
Check(c) ==
  /\ c.step = "check"
  /\ clearing' = (clearing \ {c}) \cup
       (IF Silent(c.by, c.will) THEN {[c EXCEPT !.step = "publish"]} ELSE {})
  /\ UNCHANGED <<up, gone, timers, messages, brokers, wills, ghosts, witnesses>>

PublishWill(c) ==
  /\ c.step = "publish"
  /\ clearing' = (clearing \ {c}) \cup {[c EXCEPT !.step = "delete"]}
  /\ published' = published \cup {c.will}
  /\ spurious' = IF c.will \notin up THEN spurious
                 ELSE spurious \cup {[will |-> c.will, age |-> age[c.will],
                                     born |-> c.will \in born[c.by]]}
  /\ UNCHANGED <<up, gone, timers, messages, brokers, wills, born, had, withdrawn, witnesses>>

DeleteWill(c) ==
  /\ c.step = "delete"
  /\ clearing' = clearing \ {c} /\ wills' = wills \ {c.will}
  /\ UNCHANGED <<up, gone, timers, messages, brokers, ghosts, witnesses>>

\* Time passes when what is due has happened.
Later(n, max) == IF n = max THEN max ELSE n + 1

Tick ==
  /\ \A b \in Brokers : ~BeatDue(b) /\ ~ClearDue(b)
  /\ \A x \in messages \cup clearing : x.age < Delay
  /\ age' = [b \in Owners |-> IF b \in up \cup gone THEN Later(age[b], Oldest) ELSE 0]
  /\ beaten' = [b \in Brokers |-> IF b \in up \cap Owners THEN beaten[b] + 1 ELSE 0]
  /\ cleared' = [b \in Brokers |-> IF b \in up THEN cleared[b] + 1 ELSE 0]
  /\ brokers' = [b \in Brokers |-> [o \in Owners |-> Later(brokers[b][o], Forgotten)]]
  /\ messages' = {[m EXCEPT !.age = @ + 1] : m \in messages}
  /\ clearing' = {[c EXCEPT !.age = @ + 1] : c \in clearing}
  /\ UNCHANGED <<up, gone, wills, ghosts, witnesses>>

Next ==
  \/ \E b \in Brokers : Start(b) \/ Stop(b) \/ PutWill(b) \/ Withdraw(b) \/ Beat(b) \/ ClearWills(b)
  \/ \E m \in messages : Receive(m)
  \/ \E c \in clearing : Check(c) \/ PublishWill(c) \/ DeleteWill(c)
  \/ Tick

Spec == Init /\ [][Next]_vars

-----------------------------------------------------------------------------
\* Properties.

\* The will of a client whose broker runs is published by no other broker, as
\* soon as the first heartbeat of that broker is due to have arrived: neither
\* late heartbeats nor a broker that has just started and knows nobody do it.
LiveSpared == \A s \in spurious : s.age <= Young

\* A will that was stored stays so until it is published or withdrawn, even
\* when the broker that clears it stops in between.
NeverLost == had \ wills \subseteq published \cup withdrawn

\* The wills of a broker that stopped are published in time, by each broker
\* that was running then and still is: the last heartbeat is forgotten after
\* three intervals, and the timer fires every four.
InTime == \A b \in gone \cap wills : witnesses[b] # {} => age[b] <= Overdue

\* aedes.js:103: the birth 'is used to warn other broker instances that this
\* broker is alive': one that was warned spares the wills.
BirthSpares == \A s \in spurious : ~s.born
=============================================================================
