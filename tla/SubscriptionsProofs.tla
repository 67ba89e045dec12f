------------------------ MODULE SubscriptionsProofs ------------------------
(***************************************************************************)
(* Proofs about Subscriptions for any requests, topics and options: that   *)
(* client.subscriptions, mqemitter and the session agree, and that a       *)
(* request that met no other one has its way; and about Topics, for the    *)
(* filters that the requests name.                                         *)
(***************************************************************************)
EXTENDS Subscriptions, Topics, FiniteSetTheorems, TLAPS

-----------------------------------------------------------------------------
\* What a step does, topic by topic.

Rows == Reqs \cup {Closing}
StageType == [Rows -> [Topics -> Stages]]

\* The topics ts of request r come to stage s.
Moved(r, ts, s) ==
  \A q \in Reqs, u \in Topics :
    stage'[q][u] = IF q = r /\ u \in ts THEN s ELSE stage[q][u]

\* close() goes on as it did, or has not begun.
StaysOpen ==
  /\ closed' = closed
  /\ \A u \in Topics : handlers'[u] = handlers[u] /\ stage'[Closing][u] = stage[Closing][u]

\* close() begins.
Closes ==
  /\ ~closed /\ closed'
  /\ \A u \in Topics :
       /\ handlers'[u] = handlers[u] \ {subs[u]}
       /\ stage'[Closing][u] = IF subs[u] # None THEN "unhooking" ELSE "gone"

\* The functions of the topics ts are being removed for request r.
Unhooks(r, ts) ==
  /\ closed' = closed
  /\ \A u \in Topics :
       /\ handlers'[u] = IF u \in ts THEN handlers[u] \ {subs[u]} ELSE handlers[u]
       /\ stage'[Closing][u] = stage[Closing][u]
  /\ \A q \in Reqs, u \in Topics :
       stage'[q][u] = IF q = r /\ u \in ts
                      THEN IF subs[u] # None THEN "unhooking" ELSE "gone"
                      ELSE stage[q][u]

\* The whole packet of r is stored, or nothing.
Stores(r) == \A u \in Topics : stored'[u] = IF Asks(r, u) THEN option[r] ELSE stored[u]
StoresNothing == \A u \in Topics : stored'[u] = stored[u]

\* What addSubs is called after: the session is written, or need not be.
ReadyToAdd(r, t) ==
  /\ StoresNothing
  /\ \/ stage[r][t] = "authorizing" /\ (clean \/ kind[r] = "restore")
     \/ stage[r][t] = "saved"

SameRequests == UNCHANGED <<clean, kind, option, overlapped>>

Comes(r) ==
  /\ kind[r] = "none" /\ \A q \in 0..(r - 1) : kind[q] # "none"
  /\ kind' \in [Reqs -> Kinds] /\ kind'[r] \in {"SUBSCRIBE", "subscribe", "UNSUBSCRIBE", "unsubscribe"}
  /\ option' \in [Reqs -> Options \cup {None}]
  /\ \A q \in Reqs \ {r} : kind'[q] = kind[q] /\ option'[q] = option[q]
  /\ kind'[r] \in {"SUBSCRIBE", "UNSUBSCRIBE"} => ~closed /\ (kind[0] = "restore" => Answered(0))
  /\ UNCHANGED <<clean, subs, stored, clash, broken>>
  /\ overlapped \subseteq overlapped' /\ overlapped' \subseteq Reqs \X Topics
  /\ \E ts \in SUBSET Topics :
       /\ \A u \in ts : (\E q \in 0..(r - 1) : Asks(q, u) /\ Busy(q)) => <<r, u>> \in overlapped'
       /\ \/ /\ Moved(r, ts, "authorizing") /\ StaysOpen /\ option'[r] \in Options
             /\ kind'[r] \in {"SUBSCRIBE", "subscribe"}
          \/ Moved(r, ts, "failed") /\ (StaysOpen \/ Closes)
          \/ Moved(r, ts, "removing") /\ StaysOpen /\ kind'[r] = "UNSUBSCRIBE"
          \/ Unhooks(r, ts) /\ (kind'[r] = "unsubscribe" \/ clean)

\* A topic of a request to subscribe goes on, without a function of its own.
GoesOn(r, t) ==
  /\ SameRequests /\ UNCHANGED <<subs, broken>> /\ StaysOpen /\ clash \subseteq clash'
  /\ clash' \subseteq Topics
  /\ \/ stage[r][t] = "authorizing" /\ Moved(r, {t}, "refused") /\ StoresNothing
     \/ /\ stage[r][t] = "authorizing" /\ Moved(r, {t}, "storing") /\ StoresNothing
        /\ ~clean /\ kind[r] # "restore"
     \/ stage[r][t] = "storing" /\ Moved(r, {t}, "saved") /\ Stores(r)
     \/ ReadyToAdd(r, t) /\ closed /\ Moved(r, {t}, "dropped")
     \/ ReadyToAdd(r, t) /\ ~closed /\ SameOptions(r, t) /\ Moved(r, {t}, "granted")
     \/ stage[r][t] = "hooking" /\ Moved(r, {t}, "granted") /\ StoresNothing

\* It is given one.
GoesIn(r, t) ==
  /\ SameRequests /\ UNCHANGED broken /\ ReadyToAdd(r, t) /\ ~closed /\ ~closed'
  /\ Moved(r, {t}, "hooking") /\ \A u \in Topics : stage'[Closing][u] = stage[Closing][u]
  /\ subs' \in [Topics -> Reqs \cup {None}] /\ handlers' \in [Topics -> SUBSET Reqs]
  /\ subs'[t] = r /\ handlers'[t] = (handlers[t] \ {subs[t]}) \cup {r}
  /\ \A u \in Topics \ {t} : subs'[u] = subs[u] /\ handlers'[u] = handlers[u]
  /\ clash \subseteq clash' /\ clash' \subseteq Topics
  /\ (\E q \in Reqs : stage[q][t] = "unhooking") => t \in clash'

\* Topics of a request fail, which may close the client.
GoesWrong(r, ts) ==
  /\ SameRequests /\ UNCHANGED <<subs, stored, clash>> /\ (broken => broken')
  /\ ts # {} /\ broken' \in BOOLEAN /\ Moved(r, ts, "failed") /\ (StaysOpen \/ Closes)
  /\ kind[r] \in {"subscribe", "unsubscribe"} \/ closed'
  /\ \/ \A u \in ts : stage[r][u] \in {"authorizing", "storing", "saved", "hooking", "removing", "removed"}
     \/ closed' /\ broken' /\ \A u \in ts : stage[r][u] = "unhooking"
  /\ \A u \in ts : stage[r][u] \in {"removing", "removed"} => {v \in Topics : Asks(r, v)} \subseteq ts

\* The session has forgotten the topics of an UNSUBSCRIBE.
Forgets(r) ==
  /\ SameRequests /\ UNCHANGED <<subs, clash, broken>> /\ StaysOpen
  /\ \E t \in Topics : stage[r][t] = "removing"
  /\ Moved(r, {t \in Topics : Asks(r, t)}, "removed")
  /\ \A u \in Topics : stored'[u] = IF Asks(r, u) THEN None ELSE stored[u]

\* The handler of the UNSUBSCRIBE knows of it, and their functions are removed.
Drops(r) ==
  /\ SameRequests /\ UNCHANGED <<subs, stored, clash, broken>>
  /\ \E t \in Topics : stage[r][t] = "removed"
  /\ Unhooks(r, {t \in Topics : Asks(r, t)})

\* mqemitter has dropped the function of t: the entry goes.
GoesOut(r, t) ==
  /\ SameRequests /\ UNCHANGED <<closed, handlers, stored, clash, broken>>
  /\ stage[r][t] = "unhooking"
  /\ subs' \in [Topics -> Reqs \cup {None}] /\ subs'[t] = None
  /\ \A u \in Topics \ {t} : subs'[u] = subs[u]
  /\ \A q \in Rows, u \in Topics :
       stage'[q][u] = IF q = r /\ u = t THEN "gone" ELSE stage[q][u]

\* The same with an error: the client is closed, or it is close() that fails.
CloseFails(t) ==
  /\ SameRequests /\ UNCHANGED <<subs, stored, clash>> /\ broken'
  /\ stage[Closing][t] = "unhooking" /\ closed' /\ closed
  /\ \A u \in Topics : handlers'[u] = handlers[u]
  /\ \A q \in Rows, u \in Topics :
       stage'[q][u] = IF q = Closing /\ u = t THEN "failed" ELSE stage[q][u]

OnlyCloses ==
  /\ SameRequests /\ UNCHANGED <<subs, stored, clash, broken>> /\ Closes
  /\ \A q \in Reqs, u \in Topics : stage'[q][u] = stage[q][u]

\* Nothing is under way for a client that closes before close() does it; the
\* topics of a request are removed from the session together; requests are what
\* their stages say.
Shape ==
  /\ TypeOK
  /\ ~closed => \A u \in Topics : stage[Closing][u] = "none"
  /\ \A r \in Reqs, t, u \in Topics :
       stage[r][t] \in {"removing", "removed"} /\ stage[r][u] # "none" => stage[r][u] = stage[r][t]
  /\ \A r \in Reqs : kind[r] = "none" => \A t \in Topics : stage[r][t] = "none"
  /\ \A t \in Topics : subs[t] # None => kind[subs[t]] # "none"
  /\ \A r \in Reqs, t \in Topics :
       /\ stage[r][t] \in {"authorizing", "storing", "saved"} =>
            option[r] \in Options /\ kind[r] \in {"restore", "SUBSCRIBE", "subscribe"}
       /\ stage[r][t] \in {"storing", "saved"} => kind[r] # "restore"
       /\ stage[r][t] \in {"removing", "removed"} => kind[r] = "UNSUBSCRIBE"

\* The constants, and the types of the variables.
LEMMA Types ==
  ASSUME Shape
  PROVE  /\ clean \in BOOLEAN /\ closed \in BOOLEAN /\ broken \in BOOLEAN
         /\ subs \in [Topics -> Reqs \cup {None}] /\ handlers \in [Topics -> SUBSET Reqs]
         /\ stored \in [Topics -> Options \cup {None}] /\ kind \in [Reqs -> Kinds]
         /\ option \in [Reqs -> Options \cup {None}] /\ stage \in StageType
         /\ clash \subseteq Topics /\ overlapped \subseteq Reqs \X Topics
         /\ None \notin Options /\ None \notin Reqs /\ Closing \notin Reqs /\ First \in Options
         /\ 0 \in Reqs /\ Closing \in Rows /\ Reqs \subseteq Rows /\ Reqs \subseteq Nat
         /\ \A r \in Reqs : \A ts \in Lists[r] : ts \subseteq Topics
BY SubscriptionsAssumption DEF Shape, TypeOK, StageType, Rows, Reqs, Closing

\* What At does.
LEMMA AtIs ==
  ASSUME NEW st \in StageType, NEW r \in Rows, NEW ts, NEW s \in Stages
  PROVE  /\ At(st, r, ts, s) \in StageType
         /\ \A q \in Rows, u \in Topics :
              At(st, r, ts, s)[q][u] = IF q = r /\ u \in ts THEN s ELSE st[q][u]
<1>1. \A q \in Rows : st[q] \in [Topics -> Stages]
  BY DEF StageType
<1>2. [t \in Topics |-> IF t \in ts THEN s ELSE st[r][t]] \in [Topics -> Stages]
  BY <1>1
<1> QED BY <1>1, <1>2 DEF At, StageType

\* What the unsubscription of topics does to the stages.
LEMMA UnhookIs ==
  ASSUME Shape, NEW st \in StageType, NEW r \in Rows, NEW ts
  PROVE  /\ UnhookStage(st, r, ts) \in StageType
         /\ \A q \in Rows, u \in Topics :
              UnhookStage(st, r, ts)[q][u] =
                IF q = r /\ u \in ts THEN IF subs[u] # None THEN "unhooking" ELSE "gone"
                ELSE st[q][u]
<1>1. "gone" \in Stages /\ "unhooking" \in Stages
  BY DEF Stages, InFlight, Settled
<1>2. PICK g \in StageType : /\ g = At(st, r, ts, "gone")
                             /\ \A q \in Rows, u \in Topics :
                                  g[q][u] = IF q = r /\ u \in ts THEN "gone" ELSE st[q][u]
  BY <1>1, AtIs
<1>3. /\ At(g, r, Unhooking(ts), "unhooking") \in StageType
      /\ \A q \in Rows, u \in Topics :
           At(g, r, Unhooking(ts), "unhooking")[q][u] =
             IF q = r /\ u \in Unhooking(ts) THEN "unhooking" ELSE g[q][u]
  BY <1>1, AtIs
<1>4. UnhookStage(st, r, ts) = At(g, r, Unhooking(ts), "unhooking")
  BY <1>2 DEF UnhookStage
<1> QED BY <1>2, <1>3, <1>4 DEF Unhooking

\* What the removal of the functions of topics does with mqemitter.
LEMMA HandlersIs ==
  ASSUME Shape, NEW ts
  PROVE  /\ WithoutHandlers(ts) \in [Topics -> SUBSET Reqs]
         /\ \A u \in Topics :
              WithoutHandlers(ts)[u] = IF u \in ts THEN handlers[u] \ {subs[u]} ELSE handlers[u]
BY Types DEF WithoutHandlers

\* What close() does, with the stages of the requests as they are in st.
LEMMA CloseIs ==
  ASSUME Shape, NEW st \in StageType, CloseWith(st),
         \A u \in Topics : st[Closing][u] = stage[Closing][u]
  PROVE  /\ stage' \in StageType /\ handlers' \in [Topics -> SUBSET Reqs] /\ closed'
         /\ \A q \in Reqs, u \in Topics : stage'[q][u] = st[q][u]
         /\ StaysOpen \/ Closes
<1>1. CASE closed
  BY <1>1, Types DEF CloseWith, StaysOpen
<1>2. CASE ~closed
  <2>1. closed' /\ stage' = UnhookStage(st, Closing, Topics) /\ handlers' = WithoutHandlers(Topics)
    BY <1>2 DEF CloseWith
  <2>2. /\ UnhookStage(st, Closing, Topics) \in StageType
        /\ \A q \in Rows, u \in Topics :
             UnhookStage(st, Closing, Topics)[q][u] =
               IF q = Closing /\ u \in Topics THEN IF subs[u] # None THEN "unhooking" ELSE "gone"
               ELSE st[q][u]
    BY UnhookIs, Types
  <2>3. /\ handlers' \in [Topics -> SUBSET Reqs]
        /\ \A u \in Topics : handlers'[u] = handlers[u] \ {subs[u]}
    BY <2>1, HandlersIs
  <2>4. Closes
    BY <1>2, <2>1, <2>2, <2>3, Types DEF Closes
  <2> QED BY <2>1, <2>2, <2>3, <2>4, Types
<1> QED BY <1>1, <1>2

\* The types of what an action changes besides the requests.
WorkTypes ==
  /\ stage' \in StageType /\ handlers' \in [Topics -> SUBSET Reqs] /\ closed' \in BOOLEAN
  /\ subs' \in [Topics -> Reqs \cup {None}] /\ clash' \subseteq Topics

\* A stage in which topics of a request come, and nothing else happens.
LEMMA MovedIs ==
  ASSUME Shape, NEW r \in Reqs, NEW ts, NEW s \in Stages,
         stage' = At(stage, r, ts, s), UNCHANGED <<closed, handlers>>
  PROVE  stage' \in StageType /\ Moved(r, ts, s) /\ StaysOpen
<1>1. /\ stage' \in StageType
      /\ \A q \in Rows, u \in Topics : stage'[q][u] = IF q = r /\ u \in ts THEN s ELSE stage[q][u]
  BY Types, AtIs
<1> QED BY <1>1, Types DEF Moved, StaysOpen

\* Topics fail, and close() may begin.
LEMMA CloseMoved ==
  ASSUME Shape, NEW r \in Reqs, NEW ts, CloseWith(At(stage, r, ts, "failed"))
  PROVE  /\ stage' \in StageType /\ handlers' \in [Topics -> SUBSET Reqs] /\ closed'
         /\ Moved(r, ts, "failed") /\ (StaysOpen \/ Closes)
<1>1. "failed" \in Stages
  BY DEF Stages
<1>2. PICK st \in StageType :
        /\ st = At(stage, r, ts, "failed")
        /\ \A q \in Rows, u \in Topics : st[q][u] = IF q = r /\ u \in ts THEN "failed" ELSE stage[q][u]
  BY <1>1, Types, AtIs
<1>3. \A u \in Topics : st[Closing][u] = stage[Closing][u]
  BY <1>2, Types
<1>4. /\ stage' \in StageType /\ handlers' \in [Topics -> SUBSET Reqs] /\ closed'
      /\ \A q \in Reqs, u \in Topics : stage'[q][u] = st[q][u]
      /\ StaysOpen \/ Closes
  BY <1>2, <1>3, CloseIs
<1> QED BY <1>2, <1>4, Types DEF Moved

\* Topics of a request fail, with or without the client.
LEMMA FailIs ==
  ASSUME Shape, NEW r \in Reqs, NEW ts, Fail(r, ts)
  PROVE  /\ WorkTypes /\ UNCHANGED <<subs, stored, clash>>
         /\ Moved(r, ts, "failed") /\ (StaysOpen \/ Closes)
         /\ kind[r] \in {"subscribe", "unsubscribe"} \/ closed'
<1>0. UNCHANGED <<subs, stored, clash>> /\ "failed" \in Stages
  BY DEF Fail, Stages
<1>1. CASE kind[r] \in {"subscribe", "unsubscribe"}
  <2>1. stage' = At(stage, r, ts, "failed") /\ UNCHANGED <<closed, handlers>>
    BY <1>1 DEF Fail
  <2>2. stage' \in StageType /\ Moved(r, ts, "failed") /\ StaysOpen
    BY <1>0, <2>1, MovedIs
  <2> QED BY <1>0, <1>1, <2>1, <2>2, Types DEF WorkTypes
<1>2. CASE kind[r] \notin {"subscribe", "unsubscribe"}
  <2>1. CloseWith(At(stage, r, ts, "failed"))
    BY <1>2 DEF Fail
  <2>2. /\ stage' \in StageType /\ handlers' \in [Topics -> SUBSET Reqs] /\ closed'
        /\ Moved(r, ts, "failed") /\ (StaysOpen \/ Closes)
    BY <2>1, CloseMoved
  <2>3. closed' \in BOOLEAN
    BY <2>1, Types DEF CloseWith
  <2> QED BY <1>0, <2>2, <2>3, Types DEF WorkTypes
<1> QED BY <1>1, <1>2

\* addSubs leaves the topic as it is, or gives it a function.
LEMMA AddIs ==
  ASSUME Shape, NEW r \in Reqs, NEW t \in Topics, AddSubs(r, t), UNCHANGED <<closed, broken>>,
         SameRequests, ReadyToAdd(r, t)
  PROVE  WorkTypes /\ (GoesOn(r, t) \/ GoesIn(r, t))
<1>0. "dropped" \in Stages /\ "granted" \in Stages /\ "hooking" \in Stages
  BY DEF Stages, InFlight, Settled
<1>1. CASE closed \/ SameOptions(r, t)
  <2>1. PICK s \in {"dropped", "granted"} :
          /\ LeaveSubs(r, t, s)
          /\ s = "dropped" => closed
          /\ s = "granted" => ~closed /\ SameOptions(r, t)
    BY <1>1 DEF AddSubs
  <2>2. /\ stage' = At(stage, r, {t}, s) /\ UNCHANGED <<subs, handlers>>
        /\ clash \subseteq clash' /\ clash' \subseteq Topics
    BY <2>1, Types DEF LeaveSubs, NoteClash
  <2>3. stage' \in StageType /\ Moved(r, {t}, s) /\ StaysOpen
    BY <1>0, <2>2, MovedIs
  <2> QED BY <2>1, <2>2, <2>3, Types DEF WorkTypes, GoesOn
<1>2. CASE ~closed /\ ~SameOptions(r, t)
  <2>1. Hook(r, t, {subs[t]})
    BY <1>2 DEF AddSubs
  <2>2. /\ subs' = [subs EXCEPT ![t] = r]
        /\ handlers' = [handlers EXCEPT ![t] = (@ \ {subs[t]}) \cup {r}]
        /\ stage' = At(stage, r, {t}, "hooking") /\ NoteClash(t)
    BY <2>1 DEF Hook
  <2>3. /\ subs' \in [Topics -> Reqs \cup {None}] /\ handlers' \in [Topics -> SUBSET Reqs]
        /\ subs'[t] = r /\ handlers'[t] = (handlers[t] \ {subs[t]}) \cup {r}
        /\ \A u \in Topics \ {t} : subs'[u] = subs[u] /\ handlers'[u] = handlers[u]
    BY <2>2, Types
  <2>4. /\ stage' \in StageType
        /\ \A q \in Rows, u \in Topics :
             stage'[q][u] = IF q = r /\ u \in {t} THEN "hooking" ELSE stage[q][u]
    BY <1>0, <2>2, Types, AtIs
  <2>5. /\ clash \subseteq clash' /\ clash' \subseteq Topics
        /\ (\E q \in Reqs : stage[q][t] = "unhooking") => t \in clash'
    BY <1>2, <2>2, Types DEF NoteClash
  <2>6. Moved(r, {t}, "hooking") /\ \A u \in Topics : stage'[Closing][u] = stage[Closing][u]
    BY <2>4, Types DEF Moved
  <2> QED BY <1>2, <2>3, <2>4, <2>5, <2>6, Types DEF WorkTypes, GoesIn
<1> QED BY <1>1, <1>2

StepKind ==
  \/ \E r \in Reqs : Comes(r) \/ Forgets(r) \/ Drops(r)
  \/ \E r \in Reqs, t \in Topics : GoesOn(r, t) \/ GoesIn(r, t)
  \/ \E r \in Reqs, ts \in SUBSET Topics : GoesWrong(r, ts)
  \/ \E r \in Rows, t \in Topics : GoesOut(r, t)
  \/ \E t \in Topics : CloseFails(t)
  \/ OnlyCloses

\* A request arrives.
LEMMA ArrivesIs ==
  ASSUME Shape, NEW r \in Reqs, Subscribe(r) \/ Unsubscribe(r)
  PROVE  TypeOK' /\ Comes(r)
<1>1. PICK k \in {"SUBSCRIBE", "subscribe", "UNSUBSCRIBE", "unsubscribe"}, ts \in Lists[r] :
        /\ Arrives(r, k, ts) /\ UNCHANGED <<subs, stored, clash>>
        /\ \/ /\ k \in {"SUBSCRIBE", "subscribe"}
              /\ \E o \in Options : option' = [option EXCEPT ![r] = o]
              /\ stage' = At(stage, r, ts, "authorizing") /\ UNCHANGED <<closed, handlers>>
           \/ /\ k \in {"UNSUBSCRIBE", "unsubscribe"} /\ option' = option
              /\ \/ stage' = At(stage, r, ts, "failed") /\ UNCHANGED <<closed, handlers>>
                 \/ CloseWith(At(stage, r, ts, "failed"))
                 \/ k = "UNSUBSCRIBE" /\ ~clean /\ stage' = At(stage, r, ts, "removing")
                    /\ UNCHANGED <<closed, handlers>>
                 \/ /\ k = "unsubscribe" \/ clean
                    /\ stage' = UnhookStage(stage, r, ts) /\ handlers' = WithoutHandlers(ts)
                    /\ UNCHANGED closed
  <2>1. CASE Subscribe(r)
    BY <2>1 DEF Subscribe
  <2>2. CASE Unsubscribe(r)
    BY <2>2 DEF Unsubscribe
  <2> QED BY <2>1, <2>2
<1>2. /\ kind[r] = "none" /\ \A q \in 0..(r - 1) : kind[q] # "none"
      /\ kind' = [kind EXCEPT ![r] = k] /\ UNCHANGED <<clean, broken>>
      /\ k \in {"SUBSCRIBE", "UNSUBSCRIBE"} => ~closed /\ (kind[0] = "restore" => Answered(0))
      /\ overlapped' = overlapped \cup
           {<<r, t>> : t \in {u \in ts : \E q \in 0..(r - 1) : Asks(q, u) /\ Busy(q)}}
  BY <1>1 DEF Arrives
<1>3. /\ kind' \in [Reqs -> Kinds] /\ kind'[r] = k /\ \A q \in Reqs \ {r} : kind'[q] = kind[q]
      /\ ts \in SUBSET Topics /\ overlapped \subseteq overlapped' /\ overlapped' \subseteq Reqs \X Topics
      /\ \A u \in ts : (\E q \in 0..(r - 1) : Asks(q, u) /\ Busy(q)) => <<r, u>> \in overlapped'
  BY <1>2, Types DEF Kinds
<1>4. /\ option' \in [Reqs -> Options \cup {None}] /\ \A q \in Reqs \ {r} : option'[q] = option[q]
      /\ k \in {"SUBSCRIBE", "subscribe"} => option'[r] \in Options
  BY <1>1, Types
<1>5. /\ stage' \in StageType /\ handlers' \in [Topics -> SUBSET Reqs] /\ closed' \in BOOLEAN
      /\ \/ Moved(r, ts, "authorizing") /\ StaysOpen /\ k \in {"SUBSCRIBE", "subscribe"}
         \/ Moved(r, ts, "failed") /\ (StaysOpen \/ Closes)
         \/ Moved(r, ts, "removing") /\ StaysOpen /\ k = "UNSUBSCRIBE"
         \/ Unhooks(r, ts) /\ (k = "unsubscribe" \/ clean)
  <2>0. {"authorizing", "failed", "removing"} \subseteq Stages
    BY DEF Stages, InFlight
  <2>1. ASSUME NEW s \in {"authorizing", "failed", "removing"}, stage' = At(stage, r, ts, s),
               UNCHANGED <<closed, handlers>>
        PROVE  /\ stage' \in StageType /\ handlers' \in [Topics -> SUBSET Reqs] /\ closed' \in BOOLEAN
               /\ Moved(r, ts, s) /\ StaysOpen
    BY <2>0, <2>1, MovedIs, Types
  <2>2. ASSUME CloseWith(At(stage, r, ts, "failed"))
        PROVE  /\ stage' \in StageType /\ handlers' \in [Topics -> SUBSET Reqs] /\ closed' \in BOOLEAN
               /\ Moved(r, ts, "failed") /\ (StaysOpen \/ Closes)
    <3>1. closed' \in BOOLEAN
      BY <2>2, Types DEF CloseWith
    <3> QED BY <2>2, <3>1, CloseMoved
  <2>3. ASSUME stage' = UnhookStage(stage, r, ts), handlers' = WithoutHandlers(ts), UNCHANGED closed
        PROVE  /\ stage' \in StageType /\ handlers' \in [Topics -> SUBSET Reqs] /\ closed' \in BOOLEAN
               /\ Unhooks(r, ts)
    <3>1. /\ stage' \in StageType
          /\ \A q \in Rows, u \in Topics :
               stage'[q][u] = IF q = r /\ u \in ts THEN IF subs[u] # None THEN "unhooking" ELSE "gone"
                              ELSE stage[q][u]
      BY <2>3, UnhookIs, Types
    <3>2. /\ handlers' \in [Topics -> SUBSET Reqs]
          /\ \A u \in Topics : handlers'[u] = IF u \in ts THEN handlers[u] \ {subs[u]} ELSE handlers[u]
      BY <2>3, HandlersIs
    <3> QED BY <2>3, <3>1, <3>2, Types DEF Unhooks
  <2> QED BY <1>1, <2>1, <2>2, <2>3
<1>6. TypeOK'
  BY <1>1, <1>2, <1>3, <1>4, <1>5, Types DEF TypeOK, StageType, Rows
<1>7. Comes(r)
  BY <1>1, <1>2, <1>3, <1>4, <1>5 DEF Comes
<1> QED BY <1>6, <1>7

\* The persistence removes the topics of an UNSUBSCRIBE.
LEMMA RemoveIs ==
  ASSUME Shape, NEW r \in Reqs, RemoveSubscriptions(r)
  PROVE  TypeOK' /\ StepKind
<1> DEFINE ts == {t \in Topics : Asks(r, t)}
<1>1. /\ \E t \in Topics : stage[r][t] = "removing"
      /\ stored' = [t \in Topics |-> IF t \in ts THEN None ELSE stored[t]]
      /\ stage' = At(stage, r, ts, "removed")
      /\ UNCHANGED <<clean, closed, subs, handlers, kind, option, clash, broken, overlapped>>
  BY DEF RemoveSubscriptions, notes
<1>2. "removed" \in Stages
  BY DEF Stages, InFlight
<1>3. stage' \in StageType /\ Moved(r, ts, "removed") /\ StaysOpen
  BY <1>1, <1>2, MovedIs
<1>4. \A u \in Topics : stored'[u] = IF Asks(r, u) THEN None ELSE stored[u]
  BY <1>1
<1>5. Forgets(r)
  BY <1>1, <1>3, <1>4 DEF Forgets, SameRequests
<1>6. stored' \in [Topics -> Options \cup {None}]
  BY <1>1, Types
<1>7. TypeOK'
  BY <1>1, <1>3, <1>6, Types DEF TypeOK, StageType, Rows
<1> QED BY <1>5, <1>7 DEF StepKind

\* The persistence has answered.
LEMMA RemovedIs ==
  ASSUME Shape, NEW r \in Reqs, Removed(r)
  PROVE  TypeOK' /\ StepKind
<1> DEFINE ts == {t \in Topics : Asks(r, t)}
<1>0. UNCHANGED <<clean, kind, option, broken, overlapped>>
  BY DEF Removed
<1>1. CASE (\E t \in Topics : stage[r][t] \in {"removing", "removed"}) /\ Fail(r, ts)
  <2>1. /\ WorkTypes /\ UNCHANGED <<subs, stored, clash>>
        /\ Moved(r, ts, "failed") /\ (StaysOpen \/ Closes)
        /\ kind[r] \in {"subscribe", "unsubscribe"} \/ closed'
    BY <1>1, FailIs
  <2>2. ts # {} /\ \A u \in ts : stage[r][u] \in {"removing", "removed"}
    BY <1>1 DEF Shape, Asks
  <2>3. GoesWrong(r, ts)
    BY <1>0, <2>1, <2>2, Types DEF GoesWrong, SameRequests
  <2>4. TypeOK'
    BY <1>0, <2>1, Types DEF TypeOK, WorkTypes, StageType, Rows
  <2> QED BY <2>3, <2>4 DEF StepKind
<1>2. CASE /\ \E t \in Topics : stage[r][t] = "removed"
           /\ handlers' = WithoutHandlers(ts)
           /\ stage' = UnhookStage(stage, r, ts)
           /\ UNCHANGED <<closed, subs, stored, clash>>
  <2>1. /\ stage' \in StageType
        /\ \A q \in Rows, u \in Topics :
             stage'[q][u] = IF q = r /\ u \in ts THEN IF subs[u] # None THEN "unhooking" ELSE "gone"
                            ELSE stage[q][u]
    BY <1>2, UnhookIs, Types
  <2>2. /\ handlers' \in [Topics -> SUBSET Reqs]
        /\ \A u \in Topics : handlers'[u] = IF u \in ts THEN handlers[u] \ {subs[u]} ELSE handlers[u]
    BY <1>2, HandlersIs
  <2>4. Unhooks(r, ts)
    BY <1>2, <2>1, <2>2, Types DEF Unhooks
  <2>6. Drops(r)
    BY <1>0, <1>2, <2>4 DEF Drops, SameRequests
  <2>7. TypeOK'
    BY <1>0, <1>2, <2>1, <2>2, Types DEF TypeOK, StageType, Rows
  <2> QED BY <2>6, <2>7 DEF StepKind
<1> QED BY <1>1, <1>2 DEF Removed

\* A topic of a request to subscribe fails.
LEMMA TopicFails ==
  ASSUME Shape, NEW r \in Reqs, NEW t \in Topics, Fail(r, {t}), SameRequests,
         stage[r][t] \in {"authorizing", "storing", "saved", "hooking"},
         broken' = broken \/ broken' = TRUE
  PROVE  TypeOK' /\ StepKind
<1>1. /\ WorkTypes /\ UNCHANGED <<subs, stored, clash>>
      /\ Moved(r, {t}, "failed") /\ (StaysOpen \/ Closes)
      /\ kind[r] \in {"subscribe", "unsubscribe"} \/ closed'
  BY FailIs
<1>2. GoesWrong(r, {t})
  <2>1. (broken => broken') /\ broken' \in BOOLEAN
    <3>1. broken \in BOOLEAN
      BY Types
    <3>2. CASE broken' = broken
      BY <3>1, <3>2
    <3>3. CASE broken' = TRUE
      BY <3>3
    <3> QED BY <3>2, <3>3
  <2>2. \A u \in {t} : stage[r][u] \in {"authorizing", "storing", "saved", "hooking"}
    OBVIOUS
  <2>3. \A u \in {t} : stage[r][u] \notin {"removing", "removed"}
    OBVIOUS
  <2> QED BY <1>1, <2>1, <2>2, <2>3 DEF GoesWrong
<1>3. TypeOK'
  BY <1>1, Types DEF TypeOK, WorkTypes, StageType, Rows, SameRequests
<1> QED BY <1>2, <1>3 DEF StepKind

\* A topic of a request to subscribe comes to another stage.
LEMMA TopicGoesOn ==
  ASSUME Shape, NEW r \in Reqs, NEW t \in Topics, SameRequests,
         WorkTypes, broken' = broken, stored' \in [Topics -> Options \cup {None}],
         GoesOn(r, t) \/ GoesIn(r, t)
  PROVE  TypeOK' /\ StepKind
<1>1. TypeOK'
  BY Types DEF TypeOK, WorkTypes, StageType, Rows, SameRequests
<1> QED BY <1>1 DEF StepKind

\* A topic is authorized, refused or invalid.
LEMMA AuthorizeIs ==
  ASSUME Shape, NEW r \in Reqs, NEW t \in Topics, Authorize(r, t)
  PROVE  TypeOK' /\ StepKind
<1>0. stage[r][t] = "authorizing" /\ UNCHANGED <<clean, kind, broken, overlapped>>
  BY DEF Authorize
<1>s. "refused" \in Stages /\ "storing" \in Stages
  BY DEF Stages, InFlight, Settled
<1>1. CASE Fail(r, {t}) /\ UNCHANGED option
  BY <1>0, <1>1, TopicFails DEF SameRequests
<1>2. CASE Refuse(r, t)
  <2>1. /\ stage' = At(stage, r, {t}, "refused")
        /\ UNCHANGED <<closed, subs, handlers, stored, clash, option>>
    BY <1>2 DEF Refuse
  <2>2. stage' \in StageType /\ Moved(r, {t}, "refused") /\ StaysOpen
    BY <1>s, <2>1, MovedIs
  <2>3. GoesOn(r, t) /\ SameRequests
    BY <1>0, <2>1, <2>2, Types DEF GoesOn, SameRequests, StoresNothing
  <2>4. WorkTypes /\ stored' \in [Topics -> Options \cup {None}]
    BY <2>1, <2>2, Types DEF WorkTypes
  <2> QED BY <1>0, <2>3, <2>4, TopicGoesOn
<1>3. CASE (clean \/ kind[r] = "restore") /\ AddSubs(r, t) /\ UNCHANGED <<closed, stored, option>>
  <2>1. SameRequests /\ ReadyToAdd(r, t)
    BY <1>0, <1>3 DEF SameRequests, ReadyToAdd, StoresNothing
  <2>2. WorkTypes /\ (GoesOn(r, t) \/ GoesIn(r, t))
    BY <1>0, <1>3, <2>1, AddIs
  <2> QED BY <1>0, <1>3, <2>1, <2>2, Types, TopicGoesOn
<1>4. CASE /\ ~clean /\ kind[r] # "restore" /\ stage' = At(stage, r, {t}, "storing")
           /\ UNCHANGED <<closed, subs, handlers, stored, clash, option>>
  <2>2. stage' \in StageType /\ Moved(r, {t}, "storing") /\ StaysOpen
    BY <1>s, <1>4, MovedIs
  <2>3. GoesOn(r, t) /\ SameRequests
    BY <1>0, <1>4, <2>2, Types DEF GoesOn, SameRequests, StoresNothing
  <2>4. WorkTypes /\ stored' \in [Topics -> Options \cup {None}]
    BY <1>4, <2>2, Types DEF WorkTypes
  <2> QED BY <1>0, <2>3, <2>4, TopicGoesOn
<1> QED BY <1>1, <1>2, <1>3, <1>4 DEF Authorize

\* The persistence stores the subscriptions of a request.
LEMMA StoreIs ==
  ASSUME Shape, NEW r \in Reqs, NEW t \in Topics, StoreSubscriptions(r, t)
  PROVE  TypeOK' /\ StepKind
<1>1. /\ stage[r][t] = "storing" /\ stage' = At(stage, r, {t}, "saved")
      /\ stored' = [u \in Topics |-> IF Asks(r, u) THEN option[r] ELSE stored[u]]
      /\ UNCHANGED <<clean, closed, subs, handlers, kind, option, clash, broken, overlapped>>
  BY DEF StoreSubscriptions, notes
<1>2. "saved" \in Stages
  BY DEF Stages, InFlight
<1>3. stage' \in StageType /\ Moved(r, {t}, "saved") /\ StaysOpen
  BY <1>1, <1>2, MovedIs
<1>4. Stores(r) /\ stored' \in [Topics -> Options \cup {None}]
  BY <1>1, Types DEF Stores
<1>5. GoesOn(r, t) /\ SameRequests
  BY <1>1, <1>3, <1>4, Types DEF GoesOn, SameRequests
<1>6. WorkTypes
  BY <1>1, <1>3, Types DEF WorkTypes
<1> QED BY <1>1, <1>4, <1>5, <1>6, TopicGoesOn

\* It has answered.
LEMMA StoredIs ==
  ASSUME Shape, NEW r \in Reqs, NEW t \in Topics, Stored(r, t)
  PROVE  TypeOK' /\ StepKind
<1>0. UNCHANGED <<clean, kind, option, broken, overlapped>>
  BY DEF Stored
<1>1. CASE stage[r][t] \in {"storing", "saved"} /\ Fail(r, {t})
  BY <1>0, <1>1, TopicFails DEF SameRequests
<1>2. CASE stage[r][t] = "saved" /\ AddSubs(r, t) /\ UNCHANGED <<closed, stored>>
  <2>1. SameRequests /\ ReadyToAdd(r, t) /\ stored' \in [Topics -> Options \cup {None}]
    BY <1>0, <1>2, Types DEF SameRequests, ReadyToAdd, StoresNothing
  <2>2. WorkTypes /\ (GoesOn(r, t) \/ GoesIn(r, t))
    BY <1>0, <1>2, <2>1, AddIs
  <2> QED BY <1>0, <2>1, <2>2, TopicGoesOn
<1> QED BY <1>1, <1>2 DEF Stored

\* mqemitter has answered on().
LEMMA HookedIs ==
  ASSUME Shape, NEW r \in Reqs, NEW t \in Topics, Hooked(r, t)
  PROVE  TypeOK' /\ StepKind
<1>0. stage[r][t] = "hooking" /\ UNCHANGED <<clean, kind, option, overlapped>> /\ SameRequests
  BY DEF Hooked, SameRequests
<1>1. CASE Fail(r, {t}) /\ broken' = TRUE
  BY <1>0, <1>1, TopicFails
<1>2. CASE /\ stage' = At(stage, r, {t}, "granted")
           /\ UNCHANGED <<closed, subs, handlers, stored, clash, broken>>
  <2>1. "granted" \in Stages
    BY DEF Stages, Settled
  <2>2. stage' \in StageType /\ Moved(r, {t}, "granted") /\ StaysOpen
    BY <1>2, <2>1, MovedIs
  <2>3. GoesOn(r, t)
    BY <1>0, <1>2, <2>2, Types DEF GoesOn, StoresNothing
  <2>4. WorkTypes /\ stored' \in [Topics -> Options \cup {None}]
    BY <1>2, <2>2, Types DEF WorkTypes
  <2> QED BY <1>0, <1>2, <2>3, <2>4, TopicGoesOn
<1> QED BY <1>1, <1>2 DEF Hooked

\* mqemitter has dropped the function of a topic, or says it could not.
LEMMA UnhookedIs ==
  ASSUME Shape, NEW r \in Rows, NEW t \in Topics, Unhooked(r, t)
  PROVE  TypeOK' /\ StepKind
<1>0. stage[r][t] = "unhooking" /\ SameRequests /\ UNCHANGED <<stored, clash>>
  BY DEF Unhooked, SameRequests
<1>1. CASE /\ subs' = [subs EXCEPT ![t] = None] /\ stage' = At(stage, r, {t}, "gone")
           /\ UNCHANGED <<closed, handlers, broken>>
  <2>1. "gone" \in Stages
    BY DEF Stages, Settled
  <2>2. /\ stage' \in StageType
        /\ \A q \in Rows, u \in Topics :
             stage'[q][u] = IF q = r /\ u \in {t} THEN "gone" ELSE stage[q][u]
    BY <1>1, <2>1, Types, AtIs
  <2>3. /\ subs' \in [Topics -> Reqs \cup {None}] /\ subs'[t] = None
        /\ \A u \in Topics \ {t} : subs'[u] = subs[u]
    BY <1>1, Types
  <2>4. GoesOut(r, t)
    BY <1>0, <1>1, <2>2, <2>3 DEF GoesOut
  <2>5. TypeOK'
    BY <1>0, <1>1, <2>2, <2>3, Types DEF TypeOK, StageType, Rows, SameRequests
  <2> QED BY <2>4, <2>5 DEF StepKind
<1>2. CASE r \in Reqs /\ CloseWith(At(stage, r, {t}, "failed")) /\ broken' = TRUE /\ UNCHANGED subs
  <2>1. /\ stage' \in StageType /\ handlers' \in [Topics -> SUBSET Reqs] /\ closed'
        /\ Moved(r, {t}, "failed") /\ (StaysOpen \/ Closes)
    BY <1>2, CloseMoved
  <2>2. closed' \in BOOLEAN
    BY <1>2, Types DEF CloseWith
  <2>3. GoesWrong(r, {t})
    BY <1>0, <1>2, <2>1 DEF GoesWrong
  <2>4. TypeOK'
    <3>1. broken' \in BOOLEAN /\ subs' = subs
      BY <1>2
    <3>2. UNCHANGED <<stored, clash, clean, kind, option, overlapped>>
      BY <1>0 DEF SameRequests
    <3>3. stage' \in StageType /\ handlers' \in [Topics -> SUBSET Reqs]
      BY <2>1
    <3> QED BY <2>2, <3>1, <3>2, <3>3, Types DEF TypeOK, StageType, Rows
  <2> QED BY <1>2, <2>3, <2>4 DEF StepKind
<1>3. CASE r \notin Reqs /\ CloseWith(At(stage, r, {t}, "failed")) /\ broken' = TRUE /\ UNCHANGED subs
  <2>1. r = Closing /\ closed
    BY <1>0, <1>3 DEF Rows, Shape
  <2>2. stage' = At(stage, Closing, {t}, "failed") /\ UNCHANGED <<closed, handlers>>
    BY <1>3, <2>1 DEF CloseWith
  <2>3. /\ stage' \in StageType
        /\ \A q \in Rows, u \in Topics :
             stage'[q][u] = IF q = Closing /\ u \in {t} THEN "failed" ELSE stage[q][u]
    <3>1. "failed" \in Stages
      BY DEF Stages
    <3> QED BY <2>2, <3>1, Types, AtIs
  <2>4. CloseFails(t)
    BY <1>0, <1>3, <2>1, <2>2, <2>3 DEF CloseFails
  <2>5. TypeOK'
    BY <1>0, <1>3, <2>2, <2>3, Types DEF TypeOK, StageType, Rows, SameRequests
  <2> QED BY <2>4, <2>5 DEF StepKind
<1> QED BY <1>1, <1>2, <1>3 DEF Unhooked

\* The client is closed for a reason of its own.
LEMMA CloseStepIs ==
  ASSUME Shape, Close
  PROVE  TypeOK' /\ StepKind
<1>1. /\ ~closed /\ CloseWith(stage)
      /\ UNCHANGED <<clean, subs, stored, kind, option, clash, broken, overlapped>>
  BY DEF Close, notes
<1>2. /\ stage' \in StageType /\ handlers' \in [Topics -> SUBSET Reqs] /\ closed'
      /\ \A q \in Reqs, u \in Topics : stage'[q][u] = stage[q][u]
      /\ StaysOpen \/ Closes
  BY <1>1, CloseIs, Types
<1>3. closed' = TRUE /\ Closes
  BY <1>1, <1>2 DEF CloseWith, StaysOpen
<1>4. OnlyCloses
  BY <1>1, <1>2, <1>3 DEF OnlyCloses, SameRequests
<1>5. TypeOK'
  BY <1>1, <1>2, <1>3, Types DEF TypeOK, StageType, Rows
<1> QED BY <1>4, <1>5 DEF StepKind

\* Every step is of one of these kinds.
LEMMA StepKinds ==
  ASSUME Shape, Next
  PROVE  TypeOK' /\ StepKind
<1>1. ASSUME NEW r \in Reqs, Subscribe(r) \/ Unsubscribe(r) PROVE TypeOK' /\ StepKind
  BY <1>1, ArrivesIs DEF StepKind
<1>2. ASSUME NEW r \in Reqs, RemoveSubscriptions(r) \/ Removed(r) PROVE TypeOK' /\ StepKind
  BY <1>2, RemoveIs, RemovedIs
<1>3. ASSUME NEW r \in Reqs, NEW t \in Topics,
             Authorize(r, t) \/ StoreSubscriptions(r, t) \/ Stored(r, t) \/ Hooked(r, t)
      PROVE  TypeOK' /\ StepKind
  BY <1>3, AuthorizeIs, StoreIs, StoredIs, HookedIs
<1>4. ASSUME NEW r \in Rows, NEW t \in Topics, Unhooked(r, t) PROVE TypeOK' /\ StepKind
  BY <1>4, UnhookedIs
<1>5. CASE Close
  BY <1>5, CloseStepIs
<1> QED BY <1>1, <1>2, <1>3, <1>4, <1>5 DEF Next, Rows

-----------------------------------------------------------------------------
(***************************************************************************)
(* The shape of the requests.                                              *)
(***************************************************************************)

\* Whatever closes the client gives close() its stages.
LEMMA ClosingStays ==
  ASSUME Shape, StaysOpen \/ Closes
  PROVE  ~closed' => \A u \in Topics : stage'[Closing][u] = "none"
BY DEF Shape, StaysOpen, Closes

\* Every step keeps the shape.
LEMMA NextShape ==
  ASSUME Shape, Next
  PROVE  Shape'
<1>0. TypeOK' /\ StepKind
  BY StepKinds
<1>t. \A r \in Reqs, t \in Topics : stage[r][t] \in Stages
  BY Types DEF StageType, Rows
<1> DEFINE Together == \A r \in Reqs, t, u \in Topics :
                         stage[r][t] \in {"removing", "removed"} /\ stage[r][u] # "none" =>
                           stage[r][u] = stage[r][t]
           Nothing == \A r \in Reqs : kind[r] = "none" => \A t \in Topics : stage[r][t] = "none"
           Known == \A t \in Topics : subs[t] # None => kind[subs[t]] # "none"
           Asked == \A r \in Reqs, t \in Topics :
                      /\ stage[r][t] \in {"authorizing", "storing", "saved"} =>
                           option[r] \in Options /\ kind[r] \in {"restore", "SUBSCRIBE", "subscribe"}
                      /\ stage[r][t] \in {"storing", "saved"} => kind[r] # "restore"
                      /\ stage[r][t] \in {"removing", "removed"} => kind[r] = "UNSUBSCRIBE"
           Idle == ~closed => \A u \in Topics : stage[Closing][u] = "none"
<1>i. Together /\ Nothing /\ Known /\ Asked /\ Idle
  BY DEF Shape
<1>q. Together' /\ Nothing' /\ Known' /\ Asked' /\ Idle' => Shape'
  BY <1>0 DEF Shape
<1>1. ASSUME NEW r \in Reqs, Comes(r) PROVE Together' /\ Nothing' /\ Known' /\ Asked' /\ Idle'
  <2>1. /\ kind[r] = "none" /\ kind'[r] # "none" /\ subs' = subs /\ \A t \in Topics : stage[r][t] = "none"
        /\ \A q \in Reqs \ {r} : kind'[q] = kind[q] /\ option'[q] = option[q]
    BY <1>1, <1>i DEF Comes
  <2>2. PICK ts \in SUBSET Topics :
           \/ /\ Moved(r, ts, "authorizing") /\ StaysOpen /\ option'[r] \in Options
              /\ kind'[r] \in {"SUBSCRIBE", "subscribe"}
           \/ Moved(r, ts, "failed") /\ (StaysOpen \/ Closes)
           \/ Moved(r, ts, "removing") /\ StaysOpen /\ kind'[r] = "UNSUBSCRIBE"
           \/ Unhooks(r, ts)
    BY <1>1 DEF Comes
  <2>3. \A q \in Reqs \ {r} : \A u \in Topics : stage'[q][u] = stage[q][u]
    BY <2>2 DEF Moved, Unhooks
  <2>4. \/ /\ \A u \in Topics : stage'[r][u] \in {"none", "authorizing"}
           /\ option'[r] \in Options /\ kind'[r] \in {"SUBSCRIBE", "subscribe"}
        \/ \A u \in Topics : stage'[r][u] \in {"none", "failed", "unhooking", "gone"}
        \/ (\A u \in Topics : stage'[r][u] \in {"none", "removing"}) /\ kind'[r] = "UNSUBSCRIBE"
    BY <2>1, <2>2 DEF Moved, Unhooks
  <2>5. Idle'
    BY <2>2, ClosingStays, <1>i DEF Unhooks
  <2>6. Together' /\ Asked'
    BY <1>i, <2>1, <2>3, <2>4
  <2>7. Nothing' /\ Known'
    BY <1>i, <2>1, <2>3, Types
  <2> QED BY <2>5, <2>6, <2>7
<1>2. ASSUME NEW r \in Reqs, Forgets(r) \/ Drops(r)
      PROVE  Together' /\ Nothing' /\ Known' /\ Asked' /\ Idle'
  <2>1. /\ UNCHANGED <<kind, option, subs, closed>> /\ kind[r] = "UNSUBSCRIBE"
        /\ \A u \in Topics : stage'[Closing][u] = stage[Closing][u]
        /\ \A q \in Reqs, u \in Topics : q # r => stage'[q][u] = stage[q][u]
        /\ \A u \in Topics : stage[r][u] = "none" => stage'[r][u] = "none"
    <3>1. CASE Forgets(r)
      <4>1. kind[r] = "UNSUBSCRIBE" /\ SameRequests /\ UNCHANGED subs
        BY <1>i, <3>1 DEF Forgets
      <4>2. StaysOpen /\ Moved(r, {t \in Topics : Asks(r, t)}, "removed")
        BY <3>1 DEF Forgets
      <4> QED BY <4>1, <4>2 DEF Moved, StaysOpen, SameRequests, Asks
    <3>2. CASE Drops(r)
      <4>1. kind[r] = "UNSUBSCRIBE" /\ SameRequests /\ UNCHANGED subs
        BY <1>i, <3>2 DEF Drops
      <4>2. Unhooks(r, {t \in Topics : Asks(r, t)})
        BY <3>2 DEF Drops
      <4> QED BY <4>1, <4>2 DEF Unhooks, SameRequests, Asks
    <3> QED BY <1>2, <3>1, <3>2
  <2>2. \/ \A u \in Topics : stage'[r][u] \in {"none", "removed"}
        \/ \A u \in Topics : stage'[r][u] \in {"none", "unhooking", "gone"}
    BY <1>2 DEF Forgets, Drops, Unhooks, Moved, Asks
  <2>3. Together' /\ Asked'
    BY <1>i, <2>1, <2>2
  <2>4. Nothing' /\ Known' /\ Idle'
    BY <1>i, <2>1
  <2> QED BY <2>3, <2>4
<1>3. ASSUME NEW r \in Reqs, NEW t \in Topics, GoesOn(r, t) \/ GoesIn(r, t)
      PROVE  Together' /\ Nothing' /\ Known' /\ Asked' /\ Idle'
  <2>1. PICK s \in {"refused", "storing", "saved", "dropped", "granted", "hooking"} :
          /\ stage[r][t] \in {"authorizing", "storing", "saved", "hooking"} /\ Moved(r, {t}, s)
          /\ s = "storing" => stage[r][t] = "authorizing" /\ kind[r] # "restore"
          /\ s = "saved" => stage[r][t] = "storing"
    BY <1>3 DEF GoesOn, GoesIn, ReadyToAdd
  <2>2. /\ UNCHANGED <<kind, option>>
        /\ ~closed' => \A u \in Topics : stage'[Closing][u] = "none"
        /\ \A u \in Topics : subs'[u] \in {subs[u], r}
    BY <1>3, <1>i, ClosingStays DEF GoesOn, GoesIn, SameRequests
  <2>3. /\ \A q \in Reqs, u \in Topics : ~(q = r /\ u = t) => stage'[q][u] = stage[q][u]
        /\ stage'[r][t] = s
    BY <2>1 DEF Moved
  <2>4. Together'
    BY <1>i, <2>1, <2>3
  <2>5. Asked'
    <3> SUFFICES ASSUME NEW q \in Reqs, NEW u \in Topics
        PROVE  /\ stage'[q][u] \in {"authorizing", "storing", "saved"} =>
                    option[q] \in Options /\ kind[q] \in {"restore", "SUBSCRIBE", "subscribe"}
               /\ stage'[q][u] \in {"storing", "saved"} => kind[q] # "restore"
               /\ stage'[q][u] \in {"removing", "removed"} => kind[q] = "UNSUBSCRIBE"
      BY <2>2
    <3>1. CASE q = r /\ u = t
      BY <1>i, <2>1, <2>3, <3>1
    <3>2. CASE ~(q = r /\ u = t)
      BY <1>i, <2>3, <3>2
    <3> QED BY <3>1, <3>2
  <2>6. kind[r] # "none"
    BY <1>i, <2>1
  <2>7. Nothing'
    BY <1>i, <2>2, <2>3, <2>6
  <2>8. Known' /\ Idle'
    BY <1>i, <2>2, <2>6
  <2> QED BY <2>4, <2>5, <2>7, <2>8
<1>4. ASSUME NEW r \in Reqs, NEW ts \in SUBSET Topics, GoesWrong(r, ts)
      PROVE  Together' /\ Nothing' /\ Known' /\ Asked' /\ Idle'
  <2>1. /\ UNCHANGED <<kind, option, subs>> /\ Moved(r, ts, "failed") /\ (StaysOpen \/ Closes)
        /\ \A u \in ts : stage[r][u] \in InFlight
    BY <1>4 DEF GoesWrong, SameRequests, InFlight
  <2>2. Idle' /\ Nothing' /\ Known'
    BY <1>i, <2>1, ClosingStays DEF Moved, InFlight
  <2>3. Asked'
    BY <1>i, <2>1 DEF Moved
  <2>4. Together'
    <3> SUFFICES ASSUME NEW q \in Reqs, NEW u \in Topics, NEW v \in Topics,
                        stage'[q][u] \in {"removing", "removed"}, stage'[q][v] # "none"
                 PROVE  stage'[q][v] = stage'[q][u]
      OBVIOUS
    <3>1. stage[q][u] = stage'[q][u] /\ (q = r => u \notin ts)
      BY <2>1 DEF Moved
    <3>2. CASE q # r
      BY <1>i, <2>1, <3>1, <3>2 DEF Moved
    <3>3. CASE q = r
      <4>1. \A w \in ts : stage[r][w] \notin {"removing", "removed"}
        BY <1>4, <3>1, <3>3 DEF GoesWrong, Asks
      <4>2. \A w \in ts : stage[r][w] # "none"
        BY <2>1 DEF InFlight
      <4>3. v \notin ts
        BY <1>i, <3>1, <3>3, <4>1, <4>2
      <4> QED BY <1>i, <2>1, <3>1, <3>3, <4>3 DEF Moved
    <3> QED BY <3>2, <3>3
  <2> QED BY <2>2, <2>3, <2>4
<1>5. ASSUME NEW r \in Rows, NEW t \in Topics, GoesOut(r, t)
      PROVE  Together' /\ Nothing' /\ Known' /\ Asked' /\ Idle'
  <2>1. /\ UNCHANGED <<kind, option, closed>> /\ stage[r][t] = "unhooking"
        /\ \A q \in Rows, u \in Topics :
             stage'[q][u] = IF q = r /\ u = t THEN "gone" ELSE stage[q][u]
        /\ \A u \in Topics : subs'[u] \in {subs[u], None}
    BY <1>5 DEF GoesOut, SameRequests
  <2>2. Together' /\ Asked'
    BY <1>i, <2>1 DEF Rows
  <2>3. Nothing' /\ Known' /\ Idle'
    BY <1>i, <2>1, Types DEF Rows
  <2> QED BY <2>2, <2>3
<1>6. ASSUME (\E t \in Topics : CloseFails(t)) \/ OnlyCloses
      PROVE  Together' /\ Nothing' /\ Known' /\ Asked' /\ Idle'
  <2>1. /\ UNCHANGED <<kind, option, subs>> /\ closed'
        /\ \A q \in Reqs, u \in Topics : stage'[q][u] = stage[q][u]
    BY <1>6, Types DEF CloseFails, OnlyCloses, Closes, SameRequests
  <2>2. Together'
    BY <1>i, <2>1
  <2>3. Nothing' /\ Known'
    BY <1>i, <2>1
  <2>4. Asked'
    BY <1>i, <2>1
  <2>5. Idle'
    BY <2>1
  <2> QED BY <2>2, <2>3, <2>4, <2>5
<1> HIDE DEF Together, Nothing, Known, Asked, Idle
<1> QED BY <1>0, <1>q, <1>1, <1>2, <1>3, <1>4, <1>5, <1>6 DEF StepKind

\* A step that changes nothing keeps whatever holds.
LEMMA SameShape ==
  ASSUME Shape, UNCHANGED vars
  PROVE  Shape'
<1>1. /\ clean' = clean /\ closed' = closed /\ subs' = subs /\ handlers' = handlers
      /\ stored' = stored /\ stage' = stage /\ kind' = kind /\ option' = option
      /\ clash' = clash /\ broken' = broken /\ overlapped' = overlapped
  BY DEF vars, work, notes
<1> QED BY <1>1 DEF Shape, TypeOK

\* The shape holds at first.
LEMMA InitShape ==
  ASSUME Init
  PROVE  Shape
<1>c. /\ First \in Options /\ None \notin Options /\ None \notin Reqs /\ 0 \in Reqs /\ Closing \notin Reqs
      /\ {"none", "authorizing", "granted"} \subseteq Stages
      /\ {"none", "SUBSCRIBE", "restore"} \subseteq Kinds
      /\ \A ts \in Lists[0] \cup {{}} : ts \subseteq Topics
  BY SubscriptionsAssumption DEF Reqs, Closing, Stages, InFlight, Settled, Kinds
<1>1. PICK ts \in Lists[0] \cup {{}}, restoring \in BOOLEAN :
        /\ clean \in BOOLEAN
        /\ stored = [t \in Topics |-> IF t \in ts /\ ~clean THEN First ELSE None]
        /\ kind = [r \in Reqs |-> IF r # 0 THEN "none" ELSE IF restoring THEN "restore" ELSE "SUBSCRIBE"]
        /\ option = [r \in Reqs |-> IF r = 0 THEN First ELSE None]
        /\ stage = [r \in Reqs \cup {Closing} |-> [t \in Topics |->
                      IF r # 0 \/ t \notin ts THEN "none"
                      ELSE IF restoring THEN "authorizing" ELSE "granted"]]
        /\ subs = [t \in Topics |-> IF t \in ts /\ ~restoring THEN 0 ELSE None]
        /\ handlers = [t \in Topics |-> IF t \in ts /\ ~restoring THEN {0} ELSE {}]
        /\ closed = FALSE
        /\ clash = {} /\ broken = FALSE /\ overlapped = {}
  BY DEF Init
<1>2. /\ stored \in [Topics -> Options \cup {None}] /\ option \in [Reqs -> Options \cup {None}]
      /\ subs \in [Topics -> Reqs \cup {None}] /\ handlers \in [Topics -> SUBSET Reqs]
      /\ kind \in [Reqs -> Kinds]
  BY <1>c, <1>1
<1>3. stage \in [Reqs \cup {Closing} -> [Topics -> Stages]]
  BY <1>c, <1>1
<1>4. TypeOK
  BY <1>1, <1>2, <1>3 DEF TypeOK
<1>5. /\ \A q \in Reqs, u \in Topics :
           stage[q][u] = IF q # 0 \/ u \notin ts THEN "none"
                         ELSE IF restoring THEN "authorizing" ELSE "granted"
      /\ \A u \in Topics : stage[Closing][u] = "none"
  BY <1>c, <1>1
<1>6. /\ \A q \in Reqs : /\ kind[q] = IF q # 0 THEN "none" ELSE IF restoring THEN "restore" ELSE "SUBSCRIBE"
                         /\ option[q] = IF q = 0 THEN First ELSE None
      /\ \A u \in Topics : subs[u] = IF u \in ts /\ ~restoring THEN 0 ELSE None
  BY <1>1
<1>7. /\ \A u \in Topics : subs[u] # None => kind[subs[u]] # "none"
      /\ \A q \in Reqs : kind[q] = "none" => \A u \in Topics : stage[q][u] = "none"
  BY <1>c, <1>5, <1>6
<1>8. \A q \in Reqs, u \in Topics :
        /\ stage[q][u] \in {"none", "authorizing", "granted"}
        /\ stage[q][u] = "authorizing" => q = 0 /\ restoring
  BY <1>5
<1> QED BY <1>c, <1>4, <1>5, <1>6, <1>7, <1>8 DEF Shape

\* The shape is never lost.
LEMMA ShapeHolds == Spec => []Shape
<1>1. Init => Shape
  BY InitShape
<1>2. Shape /\ [Next]_vars => Shape'
  BY NextShape, SameShape
<1> QED BY <1>1, <1>2, PTL DEF Spec

-----------------------------------------------------------------------------
(***************************************************************************)
(* client.subscriptions and mqemitter.  Once mqemitter has answered with    *)
(* an error they may disagree, but a closed client still has no handler.    *)
(***************************************************************************)
Pending(t) == \E r \in Rows : stage[r][t] = "unhooking"

Agrees(t) ==
  /\ closed => handlers[t] = {}
  /\ ~closed \/ ~broken => handlers[t] = IF subs[t] = None \/ Pending(t) THEN {} ELSE {subs[t]}

Tracked == \A t \in Topics \ clash : Agrees(t)

\* close() takes what is left.
LEMMA AgreesClosing ==
  ASSUME Shape, NEW t \in Topics, Agrees(t), Closes, UNCHANGED subs
  PROVE  Agrees(t)'
<1>1. /\ ~closed /\ closed' /\ handlers'[t] = handlers[t] \ {subs[t]}
      /\ subs[t] # None => stage'[Closing][t] = "unhooking"
  BY DEF Closes
<1>2. handlers'[t] = {}
  BY <1>1 DEF Agrees
<1>3. subs'[t] = None \/ Pending(t)'
  BY <1>1, Types DEF Pending
<1> QED BY <1>1, <1>2, <1>3 DEF Agrees

\* A step that touches neither of the two for t.
LEMMA AgreesStill ==
  ASSUME Shape, NEW t \in Topics, Agrees(t), closed' = closed, subs'[t] = subs[t], handlers'[t] = handlers[t],
         broken => broken',
         \/ closed' /\ broken'
         \/ \A q \in Rows : stage'[q][t] = "unhooking" <=> stage[q][t] = "unhooking"
  PROVE  Agrees(t)'
<1>1. CASE closed' /\ broken'
  BY <1>1 DEF Agrees
<1>2. CASE \A q \in Rows : stage'[q][t] = "unhooking" <=> stage[q][t] = "unhooking"
  <2>1. Pending(t)' <=> Pending(t)
    BY <1>2 DEF Pending
  <2> QED BY <2>1 DEF Agrees
<1> QED BY <1>1, <1>2

\* The function of t is being removed for a request, or there was none.
LEMMA AgreesUnhooking ==
  ASSUME Shape, NEW t \in Topics, Agrees(t), NEW r \in Reqs, NEW ts, Unhooks(r, ts),
         UNCHANGED <<subs, broken>>, t \in ts => stage[r][t] # "unhooking", t \notin ts \/ t \in ts
  PROVE  Agrees(t)'
<1>1. CASE t \in ts
  <2>1. /\ closed' = closed /\ handlers'[t] = handlers[t] \ {subs[t]}
        /\ subs[t] # None => stage'[r][t] = "unhooking"
    BY <1>1 DEF Unhooks
  <2>2. subs'[t] = None \/ Pending(t)'
    BY <2>1, Types DEF Pending
  <2> QED BY <2>1, <2>2 DEF Agrees
<1>2. CASE t \notin ts
  <2>1. /\ closed' = closed /\ handlers'[t] = handlers[t] /\ subs'[t] = subs[t]
        /\ \A q \in Rows : stage'[q][t] = stage[q][t]
    BY <1>2 DEF Unhooks, Rows
  <2> QED BY <2>1, AgreesStill
<1> QED BY <1>1, <1>2

\* Topics of a request come to a stage that is not the removal of a function.
LEMMA AgreesMoved ==
  ASSUME Shape, NEW t \in Topics, Agrees(t), NEW r \in Reqs, NEW ts, NEW s, Moved(r, ts, s), s # "unhooking",
         StaysOpen \/ Closes, subs' = subs, broken => broken',
         \/ closed' /\ broken'
         \/ \A u \in ts : stage[r][u] # "unhooking"
  PROVE  Agrees(t)'
<1>1. CASE Closes
  BY <1>1, AgreesClosing
<1>2. CASE StaysOpen
  <2>1. /\ closed' = closed /\ handlers'[t] = handlers[t] /\ subs'[t] = subs[t]
        /\ stage'[Closing][t] = stage[Closing][t]
        /\ \A q \in Reqs : stage'[q][t] = IF q = r /\ t \in ts THEN s ELSE stage[q][t]
    BY <1>2 DEF StaysOpen, Moved
  <2>2. \/ closed' /\ broken'
        \/ \A q \in Rows : stage'[q][t] = "unhooking" <=> stage[q][t] = "unhooking"
    BY <2>1 DEF Rows
  <2> QED BY <2>1, <2>2, AgreesStill
<1> QED BY <1>1, <1>2

\* Every step keeps the two in agreement.
LEMMA NextTracked ==
  ASSUME Shape, Tracked, Next
  PROVE  Tracked'
<1>0. TypeOK' /\ StepKind
  BY StepKinds
<1>1. ASSUME NEW r \in Reqs, Comes(r) PROVE Tracked'
  <2>1. UNCHANGED <<subs, clash, broken>> /\ \A u \in Topics : stage[r][u] = "none"
    BY <1>1 DEF Comes, Shape
  <2>2. PICK ts \in SUBSET Topics :
          \/ Moved(r, ts, "authorizing") /\ StaysOpen
          \/ Moved(r, ts, "failed") /\ (StaysOpen \/ Closes)
          \/ Moved(r, ts, "removing") /\ StaysOpen
          \/ Unhooks(r, ts)
    BY <1>1 DEF Comes
  <2>3. ASSUME NEW t \in Topics, Agrees(t) PROVE Agrees(t)'
    <3>1. CASE Unhooks(r, ts)
      BY <2>1, <2>3, <3>1, AgreesUnhooking
    <3>2. ASSUME NEW s \in {"authorizing", "failed", "removing"}, Moved(r, ts, s), StaysOpen \/ Closes
          PROVE  Agrees(t)'
      BY <2>1, <2>3, <3>2, AgreesMoved
    <3> QED BY <2>2, <3>1, <3>2
  <2> QED BY <2>1, <2>3 DEF Tracked
<1>2. ASSUME NEW r \in Reqs, Forgets(r) \/ Drops(r) PROVE Tracked'
  <2>1. /\ UNCHANGED <<subs, clash, broken>>
        /\ \/ Moved(r, {u \in Topics : Asks(r, u)}, "removed") /\ StaysOpen
           \/ Unhooks(r, {u \in Topics : Asks(r, u)})
    BY <1>2 DEF Forgets, Drops
  <2>2. \A u \in {v \in Topics : Asks(r, v)} : stage[r][u] # "unhooking"
    BY <1>2 DEF Forgets, Drops, Shape, Asks
  <2>3. ASSUME NEW t \in Topics, Agrees(t) PROVE Agrees(t)'
    <3>1. CASE Unhooks(r, {u \in Topics : Asks(r, u)})
      BY <2>1, <2>2, <2>3, <3>1, AgreesUnhooking
    <3>2. CASE Moved(r, {u \in Topics : Asks(r, u)}, "removed") /\ StaysOpen
      BY <2>1, <2>2, <2>3, <3>2, AgreesMoved
    <3> QED BY <2>1, <3>1, <3>2
  <2> QED BY <2>1, <2>3 DEF Tracked
<1>3. ASSUME NEW r \in Reqs, NEW t \in Topics, GoesOn(r, t) PROVE Tracked'
  <2>1. /\ UNCHANGED <<subs, broken>> /\ clash \subseteq clash' /\ StaysOpen
        /\ stage[r][t] # "unhooking"
    BY <1>3 DEF GoesOn, ReadyToAdd
  <2>2. PICK s \in {"refused", "storing", "saved", "dropped", "granted"} : Moved(r, {t}, s)
    BY <1>3 DEF GoesOn
  <2>3. ASSUME NEW u \in Topics, Agrees(u) PROVE Agrees(u)'
    BY <2>1, <2>2, <2>3, AgreesMoved
  <2> QED BY <2>1, <2>3 DEF Tracked
<1>4. ASSUME NEW r \in Reqs, NEW t \in Topics, GoesIn(r, t) PROVE Tracked'
  <2>0. ~closed /\ closed' = closed
    <3>1. closed \in BOOLEAN /\ closed' \in BOOLEAN
      BY <1>0, Types DEF TypeOK
    <3> QED BY <1>4, <3>1 DEF GoesIn
  <2>1. /\ ~closed /\ closed' = closed /\ broken' = broken /\ clash \subseteq clash'
        /\ subs'[t] = r /\ handlers'[t] = (handlers[t] \ {subs[t]}) \cup {r}
        /\ \A u \in Topics \ {t} : subs'[u] = subs[u] /\ handlers'[u] = handlers[u]
        /\ (\E q \in Reqs : stage[q][t] = "unhooking") => t \in clash'
    BY <1>4, <2>0 DEF GoesIn
  <2>2. /\ \A q \in Reqs, u \in Topics : stage'[q][u] = IF q = r /\ u \in {t} THEN "hooking" ELSE stage[q][u]
        /\ \A u \in Topics : stage'[Closing][u] = stage[Closing][u] /\ stage[Closing][u] = "none"
    BY <1>4, <2>1 DEF GoesIn, Moved, Shape
  <2>3. ASSUME NEW u \in Topics, u # t, Agrees(u) PROVE Agrees(u)'
    <3>1. \A q \in Rows : stage'[q][u] = stage[q][u]
      BY <2>2, <2>3 DEF Rows
    <3> QED BY <2>1, <2>3, <3>1, AgreesStill
  <2>4. ASSUME Agrees(t), t \notin clash' PROVE Agrees(t)'
    <3>1. \A q \in Rows : stage[q][t] # "unhooking"
      BY <2>1, <2>2, <2>4 DEF Rows
    <3>2. handlers[t] = IF subs[t] = None THEN {} ELSE {subs[t]}
      BY <2>1, <2>4, <3>1 DEF Agrees, Pending
    <3>3. handlers'[t] = {r}
      BY <2>1, <3>2
    <3>4. ~Pending(t)'
      BY <2>2, <3>1 DEF Pending, Rows
    <3>5. subs'[t] = r /\ r # None /\ ~closed'
      BY <2>1, Types
    <3> QED BY <3>3, <3>4, <3>5 DEF Agrees
  <2> QED BY <2>1, <2>3, <2>4 DEF Tracked
<1>5. ASSUME NEW r \in Reqs, NEW ts \in SUBSET Topics, GoesWrong(r, ts) PROVE Tracked'
  <2>1. /\ UNCHANGED <<subs, clash>> /\ (broken => broken') /\ Moved(r, ts, "failed")
        /\ StaysOpen \/ Closes
        /\ (closed' /\ broken') \/ \A u \in ts : stage[r][u] # "unhooking"
    BY <1>5 DEF GoesWrong
  <2>2. ASSUME NEW t \in Topics, Agrees(t) PROVE Agrees(t)'
    BY <2>1, <2>2, AgreesMoved
  <2> QED BY <2>1, <2>2 DEF Tracked
<1>6. ASSUME NEW r \in Rows, NEW t \in Topics, GoesOut(r, t) PROVE Tracked'
  <2>1. /\ UNCHANGED <<closed, handlers, clash, broken>> /\ stage[r][t] = "unhooking"
        /\ subs'[t] = None /\ \A u \in Topics \ {t} : subs'[u] = subs[u]
        /\ \A q \in Rows, u \in Topics : stage'[q][u] = IF q = r /\ u = t THEN "gone" ELSE stage[q][u]
    BY <1>6 DEF GoesOut
  <2>2. ASSUME NEW u \in Topics, u # t, Agrees(u) PROVE Agrees(u)'
    BY <2>1, <2>2, AgreesStill
  <2>3. ASSUME Agrees(t) PROVE Agrees(t)'
    <3>1. Pending(t)
      BY <2>1 DEF Pending
    <3> QED BY <2>1, <2>3, <3>1 DEF Agrees
  <2> QED BY <2>1, <2>2, <2>3 DEF Tracked
<1>7. ASSUME NEW t \in Topics, CloseFails(t) PROVE Tracked'
  <2>1. /\ closed' /\ closed /\ broken' /\ clash' = clash /\ \A u \in Topics : handlers'[u] = handlers[u]
    BY <1>7 DEF CloseFails
  <2> QED BY <2>1 DEF Tracked, Agrees
<1>8. CASE OnlyCloses
  <2>1. clash' = clash /\ Closes /\ UNCHANGED subs
    BY <1>8 DEF OnlyCloses
  <2> QED BY <2>1, AgreesClosing DEF Tracked
<1> QED BY <1>0, <1>1, <1>2, <1>3, <1>4, <1>5, <1>6, <1>7, <1>8 DEF StepKind

\* At first the two agree.
LEMMA InitTracked ==
  ASSUME Init
  PROVE  Tracked
<1>1. PICK ts \in Lists[0] \cup {{}}, restoring \in BOOLEAN :
        /\ stage = [r \in Reqs \cup {Closing} |-> [t \in Topics |->
                      IF r # 0 \/ t \notin ts THEN "none"
                      ELSE IF restoring THEN "authorizing" ELSE "granted"]]
        /\ subs = [t \in Topics |-> IF t \in ts /\ ~restoring THEN 0 ELSE None]
        /\ handlers = [t \in Topics |-> IF t \in ts /\ ~restoring THEN {0} ELSE {}]
        /\ closed = FALSE
  BY DEF Init
<1>2. 0 # None
  BY SubscriptionsAssumption
<1>3. ASSUME NEW t \in Topics PROVE Agrees(t)
  <2>1. ~Pending(t)
    BY <1>1 DEF Pending, Rows
  <2>2. handlers[t] = IF subs[t] = None THEN {} ELSE {subs[t]}
    BY <1>1, <1>2
  <2> QED BY <1>1, <2>1, <2>2 DEF Agrees
<1> QED BY <1>3 DEF Tracked

\* The two always agree.
LEMMA TrackedHolds == Spec => []Tracked
<1>1. Init => Tracked
  BY InitTracked
<1>2. Shape /\ Tracked /\ [Next]_vars => Tracked'
  <2>1. ASSUME Tracked, UNCHANGED vars PROVE Tracked'
    BY <2>1 DEF Tracked, Agrees, Pending, vars, work, notes
  <2> QED BY <2>1, NextTracked
<1> QED BY <1>1, <1>2, ShapeHolds, PTL DEF Spec

\* mqemitter holds the function of the entry of a topic and no other one, as
\* long as it has not answered with an error (addSubs and doUnsubscribe).
THEOREM HandlersTrackedSafe == Spec => []HandlersTracked
<1>1. Shape /\ Tracked => HandlersTracked
  BY DEF Tracked, Agrees, Pending, HandlersTracked, Rows
<1> QED BY <1>1, ShapeHolds, TrackedHolds, PTL

\* close() has left nothing with mqemitter when it is over, however many
\* requests were under way when it began.
THEOREM NoHandlerLeftSafe == Spec => []NoHandlerLeft
<1>1. Shape /\ Tracked => NoHandlerLeft
  <2> SUFFICES ASSUME Shape, Tracked, Answered(Closing) PROVE \A t \in Topics \ clash : handlers[t] = {}
    BY DEF NoHandlerLeft
  <2>1. closed
    BY DEF Answered, Arrived, Asks, Shape
  <2> QED BY <2>1 DEF Tracked, Agrees
<1> QED BY <1>1, ShapeHolds, TrackedHolds, PTL

-----------------------------------------------------------------------------
(***************************************************************************)
(* A request that met no other one about its topic: whoever else asked for *)
(* the topic is through with all of its own, so that nothing changes the   *)
(* entry and the session but the request itself.                           *)
(***************************************************************************)
Quiet(r, t) == LastOn(r, t) /\ <<r, t>> \notin overlapped
Alone(r, t) == \A q \in Reqs \ {r} : Asks(q, t) => ~Busy(q)

Won(r, t) ==
  /\ stage[r][t] \in {"hooking", "granted"} => subs[t] # None /\ option[subs[t]] = option[r]
  /\ stage[r][t] \in {"saved", "hooking", "granted"} /\ ~clean => stored[t] = option[r]
  /\ stage[r][t] = "gone" => subs[t] = None
  /\ stage[r][t] \in {"removed", "unhooking", "gone"} /\ kind[r] = "UNSUBSCRIBE" /\ ~clean => stored[t] = None
  /\ kind[r] = "restore" => stored[t] = option[r]

Ordered == \A q, r \in Reqs : q < r /\ kind[r] # "none" => kind[q] # "none"

Wins ==
  /\ Ordered
  /\ \A r \in Reqs, t \in Topics : Quiet(r, t) => Alone(r, t) /\ (~closed => Won(r, t))

\* A step of request p, which was under way, changes only what p asks for.
Acts(p) ==
  /\ SameRequests /\ (~closed' => ~closed) /\ Busy(p)
  /\ \A q \in Reqs \ {p} : \A u \in Topics : stage'[q][u] = stage[q][u]
  /\ \A u \in Topics : stage'[p][u] = "none" <=> stage[p][u] = "none"
  /\ \A u \in Topics : stage[p][u] = "none" => subs'[u] = subs[u] /\ stored'[u] = stored[u]

\* The steps of a request that was under way.
StepOf(p) ==
  \/ Forgets(p) \/ Drops(p)
  \/ \E t \in Topics : GoesOn(p, t) \/ GoesIn(p, t) \/ GoesOut(p, t)
  \/ \E ts \in SUBSET Topics : GoesWrong(p, ts)

\* close() itself, and what comes after it.
ClosingStep ==
  /\ SameRequests /\ closed'
  /\ \A q \in Reqs, u \in Topics : stage'[q][u] = stage[q][u]

\* Every step is an arrival, a step of close() or a step of a request.
LEMMA WhoseStep ==
  ASSUME Shape, Next
  PROVE  (\E p \in Reqs : Comes(p) \/ StepOf(p)) \/ ClosingStep
<1>0. StepKind
  BY StepKinds
<1>1. ASSUME (\E t \in Topics : CloseFails(t)) \/ OnlyCloses PROVE ClosingStep
  BY <1>1, Types DEF CloseFails, OnlyCloses, Closes, ClosingStep
<1>2. ASSUME NEW t \in Topics, GoesOut(Closing, t) PROVE ClosingStep
  <2>1. /\ SameRequests /\ closed' = closed /\ stage[Closing][t] = "unhooking"
        /\ \A q \in Rows, u \in Topics : stage'[q][u] = IF q = Closing /\ u = t THEN "gone" ELSE stage[q][u]
    BY <1>2 DEF GoesOut
  <2>2. closed
    BY <2>1 DEF Shape
  <2> QED BY <2>1, <2>2, Types DEF ClosingStep
<1>3. ASSUME NEW r \in Rows, NEW t \in Topics, GoesOut(r, t)
      PROVE  ClosingStep \/ \E p \in Reqs : StepOf(p)
  BY <1>2, <1>3 DEF Rows, StepOf
<1> QED BY <1>0, <1>1, <1>3 DEF StepKind, StepOf

\* What a request does is its own business.
LEMMA ActsIs ==
  ASSUME Shape, NEW p \in Reqs, StepOf(p)
  PROVE  Acts(p)
<1>1. CASE Forgets(p) \/ Drops(p)
  <2>1. SameRequests /\ closed' = closed /\ Busy(p) /\ subs' = subs
    BY <1>1 DEF Forgets, Drops, StaysOpen, Unhooks, Busy, InFlight
  <2>2. /\ \A q \in Reqs \ {p} : \A u \in Topics : stage'[q][u] = stage[q][u]
        /\ \A u \in Topics : stage'[p][u] = "none" <=> stage[p][u] = "none"
    BY <1>1 DEF Forgets, Drops, Moved, Unhooks, Asks
  <2>3. \A u \in Topics : stage[p][u] = "none" => stored'[u] = stored[u]
    BY <1>1 DEF Forgets, Drops, Asks
  <2> QED BY <2>1, <2>2, <2>3 DEF Acts
<1>2. ASSUME NEW t \in Topics, GoesOn(p, t) \/ GoesIn(p, t) PROVE Acts(p)
  <2>1. /\ SameRequests /\ (~closed' => ~closed)
        /\ stage[p][t] \in {"authorizing", "storing", "saved", "hooking"}
        /\ StoresNothing \/ Stores(p)
    BY <1>2 DEF GoesOn, GoesIn, ReadyToAdd, StaysOpen
  <2>2. PICK s \in {"refused", "storing", "saved", "dropped", "granted", "hooking"} : Moved(p, {t}, s)
    BY <1>2 DEF GoesOn, GoesIn
  <2>3. \A u \in Topics : u # t => subs'[u] = subs[u]
    BY <1>2 DEF GoesOn, GoesIn
  <2>4. \A u \in Topics : stage[p][u] = "none" => stored'[u] = stored[u]
    BY <2>1 DEF StoresNothing, Stores, Asks
  <2>5. Busy(p)
    BY <2>1 DEF Busy, InFlight
  <2>6. \A q \in Reqs, u \in Topics : stage'[q][u] = IF q = p /\ u = t THEN s ELSE stage[q][u]
    BY <2>2 DEF Moved
  <2>7. stage[p][t] # "none" /\ s # "none"
    BY <2>1
  <2> QED BY <2>1, <2>3, <2>4, <2>5, <2>6, <2>7 DEF Acts
<1>3. ASSUME NEW t \in Topics, GoesOut(p, t) PROVE Acts(p)
  <2>1. /\ SameRequests /\ closed' = closed /\ stored' = stored /\ stage[p][t] = "unhooking"
        /\ \A u \in Topics : u # t => subs'[u] = subs[u]
        /\ \A q \in Reqs, u \in Topics : stage'[q][u] = IF q = p /\ u = t THEN "gone" ELSE stage[q][u]
    BY <1>3 DEF GoesOut, Rows
  <2>2. Busy(p)
    BY <2>1 DEF Busy, InFlight
  <2> QED BY <2>1, <2>2 DEF Acts
<1>4. ASSUME NEW ts \in SUBSET Topics, GoesWrong(p, ts) PROVE Acts(p)
  <2>1. /\ SameRequests /\ (~closed' => ~closed) /\ subs' = subs /\ stored' = stored
        /\ ts # {} /\ \A u \in ts : stage[p][u] \in InFlight
        /\ \A q \in Reqs, u \in Topics : stage'[q][u] = IF q = p /\ u \in ts THEN "failed" ELSE stage[q][u]
    BY <1>4 DEF GoesWrong, StaysOpen, Closes, Moved, InFlight
  <2>2. Busy(p)
    BY <1>4, <2>1 DEF Busy, InFlight
  <2>3. \A u \in ts : stage[p][u] # "none"
    BY <2>1 DEF InFlight
  <2> QED BY <2>1, <2>2, <2>3 DEF Acts
<1> QED BY <1>1, <1>2, <1>3, <1>4 DEF StepOf

\* A request that is alone goes on as it must.
LEMMA OwnStep ==
  ASSUME Shape, NEW r \in Reqs, NEW t \in Topics, StepOf(r), Asks(r, t), Won(r, t), ~closed'
  PROVE  Won(r, t)'
<1>1. CASE Forgets(r)
  <2>1. stored'[t] = None /\ stage'[r][t] = "removed" /\ kind'[r] = "UNSUBSCRIBE"
    BY <1>1 DEF Forgets, Moved, SameRequests, Shape
  <2> QED BY <2>1 DEF Won
<1>2. CASE Drops(r)
  <2>1. /\ clean' = clean /\ kind' = kind /\ kind[r] = "UNSUBSCRIBE" /\ subs' = subs /\ stored' = stored
        /\ stage'[r][t] = IF subs[t] # None THEN "unhooking" ELSE "gone"
    BY <1>2 DEF Drops, Unhooks, SameRequests, Shape
  <2>2. stage[r][t] = "removed"
    BY <1>2 DEF Drops, Shape, Asks
  <2> QED BY <2>1, <2>2 DEF Won
<1>5. ASSUME NEW u \in Topics, GoesOn(r, u) \/ GoesIn(r, u) PROVE Won(r, t)'
  <2>1. /\ clean' = clean /\ kind' = kind /\ option' = option
        /\ StoresNothing \/ (Stores(r) /\ stage[r][u] = "storing")
    BY <1>5 DEF GoesOn, GoesIn, ReadyToAdd, SameRequests
  <2>2. PICK s \in {"refused", "storing", "saved", "dropped", "granted", "hooking"} :
           /\ Moved(r, {u}, s)
           /\ s = "saved" => Stores(r)
           /\ s = "hooking" => GoesIn(r, u)
    BY <1>5 DEF GoesOn, GoesIn
  <2>3. stage'[r][t] = IF t = u THEN s ELSE stage[r][t]
    BY <2>2 DEF Moved
  <2>4. stage[r][u] = "storing" => kind[r] # "UNSUBSCRIBE"
    BY DEF Shape
  <2>5. \/ stored'[t] = stored[t]
        \/ stored'[t] = option[r] /\ kind[r] # "UNSUBSCRIBE"
    BY <2>1, <2>4 DEF StoresNothing, Stores
  <2>6. CASE t # u
    <3>1. subs'[t] = subs[t] /\ stage'[r][t] = stage[r][t]
      BY <1>5, <2>3, <2>6 DEF GoesOn, GoesIn
    <3> QED BY <2>1, <2>5, <3>1 DEF Won
  <2>7. CASE t = u
    <3>1. s \in {"granted", "hooking"} => subs'[t] # None /\ option[subs'[t]] = option[r]
      <4>1. CASE GoesIn(r, t)
        BY <4>1, Types DEF GoesIn
      <4>2. CASE GoesOn(r, t) /\ s \in {"granted", "hooking"}
        <5>1. subs' = subs /\ stage'[r][t] = s
          BY <2>3, <2>7, <4>2 DEF GoesOn
        <5>2. SameOptions(r, t) \/ stage[r][t] = "hooking"
          <6>1. stage'[r][t] \notin {"refused", "storing", "saved", "dropped"}
            BY <4>2, <5>1
          <6> QED BY <4>2, <6>1 DEF GoesOn, Moved
        <5> QED BY <5>1, <5>2 DEF SameOptions, Won
      <4> QED BY <1>5, <2>7, <4>1, <4>2
    <3>2. s \in {"saved", "granted", "hooking"} /\ ~clean => stored'[t] = option[r]
      <4> SUFFICES ASSUME s \in {"saved", "granted", "hooking"}, ~clean PROVE stored'[t] = option[r]
        OBVIOUS
      <4>1. CASE Stores(r)
        BY <4>1 DEF Stores
      <4>2. CASE StoresNothing
        <5>1. stage'[r][t] \notin {"refused", "storing", "dropped"}
          BY <2>3, <2>7
        <5>2. \/ stage[r][t] \in {"saved", "hooking"}
              \/ kind[r] = "restore" \/ Stores(r)
          BY <1>5, <2>7, <5>1 DEF GoesOn, GoesIn, ReadyToAdd, Moved
        <5> QED BY <4>1, <4>2, <5>2 DEF StoresNothing, Won
      <4> QED BY <2>1, <4>1, <4>2
    <3>3. kind[r] = "restore" => stored'[t] = option[r]
      BY <2>5 DEF Won
    <3>4. stage'[r][t] = s
      BY <2>3, <2>7
    <3> QED BY <2>1, <3>1, <3>2, <3>3, <3>4 DEF Won
  <2> QED BY <2>6, <2>7
<1>3. ASSUME NEW u \in Topics, GoesOut(r, u) PROVE Won(r, t)'
  <2>1. /\ clean' = clean /\ kind' = kind /\ option' = option /\ stored' = stored
        /\ stage[r][u] = "unhooking" /\ subs'[u] = None
        /\ \A v \in Topics \ {u} : subs'[v] = subs[v]
        /\ stage'[r][t] = IF t = u THEN "gone" ELSE stage[r][t]
    BY <1>3 DEF GoesOut, SameRequests, Rows
  <2>2. CASE t = u
    BY <2>1, <2>2 DEF Won
  <2>3. CASE t # u
    BY <2>1, <2>3 DEF Won
  <2> QED BY <2>2, <2>3
<1>4. ASSUME NEW ts \in SUBSET Topics, GoesWrong(r, ts) PROVE Won(r, t)'
  <2>1. /\ clean' = clean /\ kind' = kind /\ option' = option /\ stored' = stored /\ subs' = subs
        /\ stage'[r][t] = IF t \in ts THEN "failed" ELSE stage[r][t]
    BY <1>4 DEF GoesWrong, SameRequests, Moved
  <2> QED BY <2>1 DEF Won
<1> QED BY <1>1, <1>2, <1>3, <1>4, <1>5 DEF StepOf

\* A topic that a step leaves alone.
LEMMA WonStill ==
  ASSUME NEW r \in Reqs, NEW t \in Topics, Won(r, t), clean' = clean, kind'[r] = kind[r],
         option'[r] = option[r], subs[t] # None => option'[subs[t]] = option[subs[t]],
         subs'[t] = subs[t], stored'[t] = stored[t], stage'[r][t] = stage[r][t]
  PROVE  Won(r, t)'
BY DEF Won

\* The arrival of a request leaves the others alone.
LEMMA ComesAlone ==
  ASSUME Shape, NEW r \in Reqs, Comes(r)
  PROVE  /\ kind[r] = "none" /\ kind'[r] \in {"SUBSCRIBE", "subscribe", "UNSUBSCRIBE", "unsubscribe"}
         /\ kind'[r] \in {"SUBSCRIBE", "UNSUBSCRIBE"} => ~closed /\ (kind[0] = "restore" => Answered(0))
         /\ \A q \in Reqs \ {r} : kind'[q] = kind[q] /\ option'[q] = option[q]
         /\ UNCHANGED <<clean, subs, stored, clash, broken>> /\ (~closed' => ~closed)
         /\ \A q \in Reqs \ {r} : \A u \in Topics : stage'[q][u] = stage[q][u]
<1>1. PICK ts \in SUBSET Topics :
        \/ Moved(r, ts, "authorizing") /\ StaysOpen
        \/ Moved(r, ts, "failed") /\ (StaysOpen \/ Closes)
        \/ Moved(r, ts, "removing") /\ StaysOpen
        \/ Unhooks(r, ts)
  BY DEF Comes
<1>2. /\ ~closed' => ~closed
      /\ \A q \in Reqs \ {r} : \A u \in Topics : stage'[q][u] = stage[q][u]
  BY <1>1 DEF Moved, Unhooks, StaysOpen, Closes
<1> QED BY <1>2 DEF Comes

\* A request that arrives alone, and what its arrival does to the others.
LEMMA ArrivalWins ==
  ASSUME Shape, Wins, NEW p \in Reqs, Comes(p), NEW r \in Reqs, NEW t \in Topics, Quiet(r, t)'
  PROVE  Alone(r, t)' /\ (~closed' => Won(r, t)')
<1>1. /\ kind[p] = "none" /\ kind'[p] \in {"SUBSCRIBE", "subscribe", "UNSUBSCRIBE", "unsubscribe"}
      /\ \A q \in Reqs \ {p} : kind'[q] = kind[q] /\ option'[q] = option[q]
      /\ UNCHANGED <<clean, subs, stored>> /\ (~closed' => ~closed)
      /\ \A q \in Reqs \ {p} : \A u \in Topics : stage'[q][u] = stage[q][u]
  BY ComesAlone
<1>2. \A u \in Topics : stage[p][u] = "none"
  BY <1>1 DEF Shape
<1>3. \A q \in Reqs : q > p => kind[q] = "none" /\ \A u \in Topics : stage[q][u] = "none"
  <2>1. \A q \in Reqs : q > p => kind[q] = "none"
    BY <1>1, Types DEF Wins, Ordered
  <2> QED BY <2>1 DEF Shape
<1>4. ASSUME NEW q \in Reqs \ {p} PROVE (Asks(q, t)' <=> Asks(q, t)) /\ (Busy(q)' <=> Busy(q))
  BY <1>1 DEF Asks, Busy
<1>5. Asks(r, t)' /\ \A q \in Reqs : q > r => ~Asks(q, t)'
  BY DEF Quiet, LastOn
<1>6. CASE r = p
  <2>1. PICK ts \in SUBSET Topics :
          /\ \A u \in ts : (\E q \in 0..(p - 1) : Asks(q, u) /\ Busy(q)) => <<p, u>> \in overlapped'
          /\ \/ Moved(p, ts, "authorizing")
             \/ Moved(p, ts, "failed")
             \/ Moved(p, ts, "removing")
             \/ Unhooks(p, ts) /\ (kind'[p] = "unsubscribe" \/ clean)
    BY DEF Comes
  <2>2. t \in ts
    BY <1>2, <1>5, <1>6, <2>1 DEF Asks, Moved, Unhooks
  <2>3. \A q \in 0..(p - 1) : Asks(q, t) => ~Busy(q)
    BY <1>6, <2>1, <2>2 DEF Quiet
  <2>4. \A q \in Reqs \ {p} : q \in 0..(p - 1) \/ q > p
    BY DEF Reqs
  <2>5. Alone(r, t)'
    <3>1. ASSUME NEW q \in Reqs \ {p}, Asks(q, t)' PROVE ~Busy(q)'
      <4>1. Asks(q, t) /\ (Busy(q)' <=> Busy(q))
        BY <1>4, <3>1
      <4>2. ~(q > p)
        BY <1>3, <4>1 DEF Asks
      <4> QED BY <2>3, <2>4, <4>1, <4>2
    <3> QED BY <1>6, <3>1 DEF Alone
  <2>6. \/ stage'[p][t] \in {"authorizing", "failed", "removing"}
        \/ /\ stage'[p][t] = IF subs[t] # None THEN "unhooking" ELSE "gone"
           /\ kind'[p] = "unsubscribe" \/ clean
    BY <2>1, <2>2 DEF Moved, Unhooks
  <2>7. Won(r, t)'
    BY <1>1, <1>6, <2>6 DEF Won
  <2> QED BY <2>5, <2>7
<1>7. CASE r # p
  <2>1. ~Asks(p, t)'
    <3>1. Asks(r, t)
      BY <1>4, <1>5, <1>7
    <3>2. ~(r > p)
      BY <1>3, <3>1 DEF Asks
    <3>3. p > r
      BY <1>7, <3>2, Types
    <3> QED BY <1>5, <3>3
  <2>2. Quiet(r, t)
    <3>0. ~Asks(p, t)
      BY <1>2 DEF Asks
    <3>1. Asks(r, t) /\ \A q \in Reqs : q > r => ~Asks(q, t)
      BY <1>4, <1>5, <1>7, <3>0
    <3>2. <<r, t>> \notin overlapped
      BY DEF Quiet, Comes
    <3> QED BY <3>1, <3>2 DEF Quiet, LastOn
  <2>3. Alone(r, t) /\ (~closed => Won(r, t))
    BY <2>2 DEF Wins
  <2>4. Alone(r, t)'
    <3>1. ASSUME NEW q \in Reqs \ {r}, Asks(q, t)' PROVE ~Busy(q)'
      BY <1>4, <2>1, <2>3, <3>1 DEF Alone
    <3> QED BY <3>1 DEF Alone
  <2>5. subs[t] # None => subs[t] \in Reqs \ {p}
    BY <1>1, Types DEF Shape
  <2>6. ASSUME ~closed' PROVE Won(r, t)'
    BY <1>1, <1>7, <2>3, <2>5, <2>6, WonStill
  <2> QED BY <2>4, <2>6
<1> QED BY <1>6, <1>7

\* A step of a request does not disturb one that is alone with its topic.
LEMMA StepWins ==
  ASSUME Shape, Wins, NEW p \in Reqs, StepOf(p), NEW r \in Reqs, NEW t \in Topics, Quiet(r, t)'
  PROVE  Alone(r, t)' /\ (~closed' => Won(r, t)')
<1>1. /\ UNCHANGED <<clean, kind, option, overlapped>> /\ (~closed' => ~closed) /\ Busy(p)
      /\ \A q \in Reqs \ {p} : \A u \in Topics : stage'[q][u] = stage[q][u]
      /\ \A u \in Topics : stage'[p][u] = "none" <=> stage[p][u] = "none"
      /\ \A u \in Topics : stage[p][u] = "none" => subs'[u] = subs[u] /\ stored'[u] = stored[u]
  BY ActsIs DEF Acts, SameRequests
<1>2. \A q \in Reqs, u \in Topics : Asks(q, u)' <=> Asks(q, u)
  BY <1>1 DEF Asks
<1>3. \A q \in Reqs : Busy(q)' => Busy(q)
  BY <1>1 DEF Busy
<1>4. Quiet(r, t)
  BY <1>1, <1>2 DEF Quiet, LastOn
<1>5. Alone(r, t) /\ (~closed => Won(r, t)) /\ Asks(r, t)
  BY <1>4 DEF Wins, Quiet, LastOn
<1>6. Alone(r, t)'
  BY <1>2, <1>3, <1>5 DEF Alone
<1>7. ASSUME ~closed' PROVE Won(r, t)'
  <2>1. Won(r, t)
    BY <1>1, <1>5, <1>7
  <2>2. CASE r = p
    BY <1>5, <1>7, <2>1, <2>2, OwnStep
  <2>3. CASE r # p
    <3>1. stage[p][t] = "none"
      BY <1>1, <1>5, <2>3 DEF Alone, Asks
    <3>2. subs'[t] = subs[t] /\ stored'[t] = stored[t] /\ stage'[r][t] = stage[r][t]
      BY <1>1, <2>3, <3>1
    <3> QED BY <1>1, <2>1, <3>2, WonStill
  <2> QED BY <2>2, <2>3
<1> QED BY <1>6, <1>7

\* Every step lets a request that is alone have its way.
LEMMA NextWins ==
  ASSUME Shape, Wins, Next
  PROVE  Wins'
<1>1. ASSUME NEW p \in Reqs, Comes(p) PROVE Wins'
  <2>1. /\ \A q \in Reqs \ {p} : kind'[q] = kind[q]
        /\ kind'[p] # "none" /\ \A q \in Reqs : q < p => kind[q] # "none"
    <3>1. \A q \in 0..(p - 1) : kind[q] # "none"
      BY <1>1 DEF Comes
    <3>2. \A q \in Reqs : q < p => q \in 0..(p - 1)
      BY DEF Reqs
    <3> QED BY <1>1, <3>1, <3>2, ComesAlone
  <2>2. Ordered'
    <3> SUFFICES ASSUME NEW q \in Reqs, NEW r \in Reqs, q < r, kind'[r] # "none" PROVE kind'[q] # "none"
      BY DEF Ordered
    <3>1. CASE r = p
      BY <2>1, <3>1
    <3>2. CASE r # p
      BY <2>1, <3>2 DEF Wins, Ordered
    <3> QED BY <3>1, <3>2
  <2> QED BY <1>1, <2>2, ArrivalWins DEF Wins
<1>2. ASSUME NEW p \in Reqs, StepOf(p) PROVE Wins'
  <2>1. Ordered'
    <3>1. kind' = kind
      BY <1>2, ActsIs DEF Acts, SameRequests
    <3> QED BY <3>1 DEF Wins, Ordered
  <2> QED BY <1>2, <2>1, StepWins DEF Wins
<1>3. CASE ClosingStep
  <2>1. /\ kind' = kind /\ overlapped' = overlapped /\ closed'
        /\ \A q \in Reqs, u \in Topics : stage'[q][u] = stage[q][u]
    BY <1>3 DEF ClosingStep, SameRequests
  <2>2. Ordered'
    BY <2>1 DEF Wins, Ordered
  <2>3. \A q \in Reqs : (Busy(q)' <=> Busy(q)) /\ \A u \in Topics : Asks(q, u)' <=> Asks(q, u)
    BY <2>1 DEF Busy, Asks
  <2>4. ASSUME NEW r \in Reqs, NEW t \in Topics, Quiet(r, t)' PROVE Alone(r, t)'
    <3>1. Quiet(r, t)
      BY <2>1, <2>3, <2>4 DEF Quiet, LastOn
    <3> QED BY <2>3, <3>1 DEF Wins, Alone
  <2> QED BY <2>1, <2>2, <2>4 DEF Wins
<1> QED BY <1>1, <1>2, <1>3, WhoseStep

\* At first there is at most one request.
LEMMA InitWins ==
  ASSUME Init
  PROVE  Wins
<1>c. First # None /\ 0 \in Reqs /\ Reqs \subseteq Nat /\ 0 # None
  BY SubscriptionsAssumption DEF Reqs
<1>1. PICK ts \in Lists[0] \cup {{}}, restoring \in BOOLEAN :
        /\ restoring => ~clean /\ ts # {}
        /\ stored = [t \in Topics |-> IF t \in ts /\ ~clean THEN First ELSE None]
        /\ kind = [r \in Reqs |-> IF r # 0 THEN "none" ELSE IF restoring THEN "restore" ELSE "SUBSCRIBE"]
        /\ option = [r \in Reqs |-> IF r = 0 THEN First ELSE None]
        /\ stage = [r \in Reqs \cup {Closing} |-> [t \in Topics |->
                      IF r # 0 \/ t \notin ts THEN "none"
                      ELSE IF restoring THEN "authorizing" ELSE "granted"]]
        /\ subs = [t \in Topics |-> IF t \in ts /\ ~restoring THEN 0 ELSE None]
  BY DEF Init
<1>2. \A q \in Reqs, u \in Topics :
        stage[q][u] = IF q # 0 \/ u \notin ts THEN "none" ELSE IF restoring THEN "authorizing" ELSE "granted"
  BY <1>1
<1>3. Ordered
  <2>1. \A q \in Reqs : kind[q] # "none" => q = 0
    BY <1>1
  <2> QED BY <1>c, <2>1 DEF Ordered
<1>4. ASSUME NEW r \in Reqs, NEW t \in Topics, Quiet(r, t) PROVE Alone(r, t) /\ Won(r, t)
  <2>1. r = 0 /\ t \in ts
    BY <1>2, <1>4 DEF Quiet, LastOn, Asks
  <2>2. Alone(r, t)
    BY <1>2, <2>1 DEF Alone, Asks
  <2>3. stored[t] = IF ~clean THEN First ELSE None
    BY <1>1, <2>1
  <2>4. option[r] = First /\ kind[r] = IF restoring THEN "restore" ELSE "SUBSCRIBE"
    BY <1>1, <2>1
  <2>5. stage[r][t] = IF restoring THEN "authorizing" ELSE "granted"
    BY <1>2, <2>1
  <2>6. ~restoring => subs[t] = 0
    BY <1>1, <2>1
  <2>7. Won(r, t)
    <3>1. CASE restoring
      BY <1>1, <2>3, <2>4, <2>5, <3>1 DEF Won
    <3>2. CASE ~restoring
      BY <1>c, <2>1, <2>3, <2>4, <2>5, <2>6, <3>2 DEF Won
    <3> QED BY <3>1, <3>2
  <2> QED BY <2>2, <2>7
<1> QED BY <1>3, <1>4 DEF Wins

\* A request that is alone always has its way.
LEMMA WinsHolds == Spec => []Wins
<1>1. Init => Wins
  BY InitWins
<1>2. Shape /\ Wins /\ [Next]_vars => Wins'
  <2>1. ASSUME Wins, UNCHANGED vars PROVE Wins'
    BY <2>1 DEF Wins, Ordered, Quiet, LastOn, Alone, Won, Asks, Busy, vars, work, notes
  <2> QED BY <2>1, NextWins
<1> QED BY <1>1, <1>2, ShapeHolds, PTL DEF Spec

\* The latest request about a topic that met no other one decides what
\* client.subscriptions, mqemitter and the session hold, whatever was under way
\* for other topics.
THEOREM LastRequestSafe == Spec => []LastRequestWins
<1>1. Shape /\ Tracked /\ Wins => LastRequestWins
  <2> SUFFICES ASSUME Shape, Tracked, Wins, ~closed, ~broken, NEW r \in Reqs, NEW t \in Topics, Quiet(r, t)
               PROVE  /\ stage[r][t] = "granted" =>
                           /\ InSession(t) = option[r] /\ (t \notin clash => Cardinality(handlers[t]) = 1)
                           /\ ~clean => stored[t] = option[r]
                      /\ stage[r][t] = "gone" =>
                           /\ subs[t] = None /\ (t \notin clash => handlers[t] = {})
                           /\ kind[r] = "UNSUBSCRIBE" /\ ~clean => stored[t] = None
    BY DEF LastRequestWins, Quiet
  <2>1. Alone(r, t) /\ Won(r, t)
    BY DEF Wins
  <2>2. ASSUME stage[r][t] = "granted", t \notin clash PROVE Cardinality(handlers[t]) = 1
    <3>1. \A q \in Reqs : stage[q][t] # "unhooking"
      <4>1. \A q \in Reqs : stage[q][t] = "unhooking" => Asks(q, t) /\ Busy(q)
        BY DEF Asks, Busy, InFlight
      <4> QED BY <2>1, <2>2, <4>1 DEF Alone
    <3>2. ~Pending(t)
      BY <3>1 DEF Pending, Rows, Shape
    <3>3. handlers[t] = {subs[t]}
      BY <2>1, <2>2, <3>2 DEF Tracked, Agrees, Won
    <3> QED BY <3>3, FS_Singleton
  <2>3. ASSUME stage[r][t] = "gone", t \notin clash PROVE handlers[t] = {}
    BY <2>1, <2>3 DEF Tracked, Agrees, Won
  <2> QED BY <2>1, <2>2, <2>3 DEF Won, InSession
<1> QED BY <1>1, ShapeHolds, TrackedHolds, WinsHolds, PTL

-----------------------------------------------------------------------------
(***************************************************************************)
(* client.subscriptions and the session.  While a session is restored no   *)
(* packet is handled, so that nothing removes from the session what is     *)
(* about to be subscribed to again.                                        *)
(***************************************************************************)
Restoring ==
  /\ \A r \in Reqs : kind[r] = "restore" => r = 0
  /\ kind[0] # "none"
  /\ kind[0] = "restore" /\ Failed(0) => closed
  /\ kind[0] = "restore" /\ ~closed =>
       \A t \in Topics : stage[0][t] = "authorizing" =>
         /\ stored[t] # None
         /\ \A r \in Reqs : kind[r] \notin {"SUBSCRIBE", "UNSUBSCRIBE"}

\* A request that was still at work when a later one came, about the same topic.
Met ==
  \A q, r \in Reqs, t \in Topics :
    q < r /\ Asks(q, t) /\ Asks(r, t) /\ Busy(q) => <<r, t>> \in overlapped

\* An UNSUBSCRIBE took t from the session while request r was under way, or r
\* came while it was.
TakenFrom(r, t) ==
  \E q \in Reqs : kind[q] = "UNSUBSCRIBE" /\ Asks(q, t) /\ <<IF q > r THEN q ELSE r, t>> \in overlapped

\* The entry of t, and the requests whose session is written, are covered.
Covered(t) ==
  /\ subs[t] # None /\ stored[t] = None => \E q \in Reqs : TakenBy(q, t)
  /\ \A r \in Reqs : stage[r][t] = "saved" /\ stored[t] = None => TakenFrom(r, t)

InStore == ~clean => \A t \in Topics : Covered(t)

\* What the steps after the arrival of a request have in common.
GoesFurther ==
  /\ SameRequests
  /\ ~closed' => ~closed
  /\ \A q \in Reqs, u \in Topics : stage'[q][u] = "authorizing" => stage[q][u] = "authorizing"
  /\ \A q \in Reqs, u \in Topics :
       stage'[q][u] = "failed" =>
         stage[q][u] = "failed" \/ closed' \/ kind[q] \in {"subscribe", "unsubscribe"}
  /\ \A u \in Topics : \/ stored'[u] = stored[u] \/ stored'[u] \in Options
                       \/ \E r \in Reqs : kind[r] = "UNSUBSCRIBE"

\* Every step but the arrival of a request is such a step.
LEMMA FurtherIs ==
  ASSUME Shape, Next
  PROVE  (\E r \in Reqs : Comes(r)) \/ GoesFurther
<1>0. StepKind
  BY StepKinds
<1>1. ASSUME NEW r \in Reqs, Forgets(r) \/ Drops(r) PROVE GoesFurther
  <2>1. SameRequests /\ closed' = closed /\ kind[r] = "UNSUBSCRIBE"
    BY <1>1 DEF Forgets, Drops, StaysOpen, Unhooks, Shape
  <2>2. \A q \in Reqs, u \in Topics : stage'[q][u] \in {stage[q][u], "removed", "unhooking", "gone"}
    BY <1>1 DEF Forgets, Drops, Moved, Unhooks
  <2> QED BY <2>1, <2>2 DEF GoesFurther
<1>2. ASSUME NEW r \in Reqs, NEW t \in Topics, GoesOn(r, t) \/ GoesIn(r, t) PROVE GoesFurther
  <2>1. SameRequests /\ (~closed' => ~closed) /\ (StoresNothing \/ (Stores(r) /\ stage[r][t] = "storing"))
    BY <1>2 DEF GoesOn, GoesIn, ReadyToAdd, StaysOpen
  <2>2. \A u \in Topics : stored'[u] = stored[u] \/ stored'[u] \in Options
    BY <2>1 DEF StoresNothing, Stores, Shape
  <2>3. PICK s \in {"refused", "storing", "saved", "dropped", "granted", "hooking"} : Moved(r, {t}, s)
    BY <1>2 DEF GoesOn, GoesIn
  <2>4. \A q \in Reqs, u \in Topics : stage'[q][u] \in {stage[q][u], s}
    BY <2>3 DEF Moved
  <2> QED BY <2>1, <2>2, <2>4 DEF GoesFurther
<1>3. ASSUME NEW r \in Reqs, NEW ts \in SUBSET Topics, GoesWrong(r, ts) PROVE GoesFurther
  <2>1. /\ SameRequests /\ (~closed' => ~closed) /\ stored' = stored
        /\ kind[r] \in {"subscribe", "unsubscribe"} \/ closed'
    BY <1>3 DEF GoesWrong, StaysOpen, Closes
  <2>2. \A q \in Reqs, u \in Topics :
          stage'[q][u] = stage[q][u] \/ (q = r /\ stage'[q][u] = "failed")
    BY <1>3 DEF GoesWrong, Moved
  <2> QED BY <2>1, <2>2 DEF GoesFurther
<1>4. ASSUME NEW r \in Rows, NEW t \in Topics, GoesOut(r, t) PROVE GoesFurther
  <2>1. SameRequests /\ closed' = closed /\ stored' = stored
    BY <1>4 DEF GoesOut
  <2>2. \A q \in Reqs, u \in Topics : stage'[q][u] \in {stage[q][u], "gone"}
    BY <1>4 DEF GoesOut, Rows
  <2> QED BY <2>1, <2>2 DEF GoesFurther
<1>5. ASSUME (\E t \in Topics : CloseFails(t)) \/ OnlyCloses PROVE GoesFurther
  <2>1. /\ SameRequests /\ closed' /\ stored' = stored
        /\ \A q \in Reqs, u \in Topics : stage'[q][u] = stage[q][u]
    BY <1>5, Types DEF CloseFails, OnlyCloses, Closes
  <2> QED BY <2>1 DEF GoesFurther
<1> QED BY <1>0, <1>1, <1>2, <1>3, <1>4, <1>5 DEF StepKind

\* What is being restored stays in the session until then.
LEMMA NextRestoring ==
  ASSUME Shape, Restoring, Next
  PROVE  Restoring'
<1>0. 0 \in Reqs /\ stored \in [Topics -> Options \cup {None}] /\ None \notin Options
  BY Types
<1>1. ASSUME NEW r \in Reqs, Comes(r) PROVE Restoring'
  <2>1. /\ kind[r] = "none" /\ kind'[r] \in {"SUBSCRIBE", "subscribe", "UNSUBSCRIBE", "unsubscribe"}
        /\ kind'[r] \in {"SUBSCRIBE", "UNSUBSCRIBE"} => (kind[0] = "restore" => Answered(0))
        /\ \A q \in Reqs \ {r} : kind'[q] = kind[q]
        /\ stored' = stored /\ (~closed' => ~closed)
        /\ \A q \in Reqs \ {r} : \A u \in Topics : stage'[q][u] = stage[q][u]
    BY <1>1, ComesAlone
  <2>2. r # 0 /\ kind'[0] = kind[0] /\ \A u \in Topics : stage'[0][u] = stage[0][u]
    BY <1>0, <2>1 DEF Restoring
  <2>3. (\A q \in Reqs : kind'[q] = "restore" => q = 0) /\ kind'[0] # "none"
    BY <2>1, <2>2 DEF Restoring
  <2>4. kind'[0] = "restore" /\ Failed(0)' => closed'
    BY <2>1, <2>2 DEF Restoring, Failed
  <2>5. ASSUME kind'[0] = "restore", ~closed', NEW t \in Topics, stage'[0][t] = "authorizing"
        PROVE  stored'[t] # None /\ \A q \in Reqs : kind'[q] \notin {"SUBSCRIBE", "UNSUBSCRIBE"}
    <3>1. ~Answered(0)
      <4>1. stage[0][t] = "authorizing" /\ ~Failed(0)
        BY <2>1, <2>2, <2>5 DEF Restoring
      <4> QED BY <4>1 DEF Answered, Settled
    <3> QED BY <2>1, <2>2, <2>5, <3>1 DEF Restoring
  <2> QED BY <2>3, <2>4, <2>5 DEF Restoring
<1>2. CASE GoesFurther
  <2>1. /\ kind' = kind /\ (~closed' => ~closed)
        /\ \A u \in Topics : /\ stage'[0][u] = "authorizing" => stage[0][u] = "authorizing"
                             /\ stage'[0][u] = "failed" =>
                                  stage[0][u] = "failed" \/ closed' \/ kind[0] \in {"subscribe", "unsubscribe"}
                             /\ \/ stored'[u] = stored[u] \/ stored'[u] \in Options
                                \/ \E r \in Reqs : kind[r] = "UNSUBSCRIBE"
    BY <1>0, <1>2 DEF GoesFurther, SameRequests
  <2>2. kind'[0] = "restore" /\ Failed(0)' => closed'
    BY <2>1 DEF Restoring, Failed
  <2>3. ASSUME kind'[0] = "restore", ~closed', NEW t \in Topics, stage'[0][t] = "authorizing"
        PROVE  stored'[t] # None /\ \A q \in Reqs : kind'[q] \notin {"SUBSCRIBE", "UNSUBSCRIBE"}
    <3>1. stored[t] # None /\ \A q \in Reqs : kind[q] \notin {"SUBSCRIBE", "UNSUBSCRIBE"}
      BY <2>1, <2>3 DEF Restoring
    <3> QED BY <1>0, <2>1, <3>1
  <2> QED BY <2>1, <2>2, <2>3 DEF Restoring
<1> QED BY <1>1, <1>2, FurtherIs

\* What is known of requests is never forgotten.
LEMMA Lasting ==
  ASSUME Shape, Next
  PROVE  /\ clean' = clean /\ overlapped \subseteq overlapped'
         /\ \A q \in Reqs : kind[q] # "none" => kind'[q] = kind[q]
         /\ \A q \in Reqs, u \in Topics : Asks(q, u) => Asks(q, u)'
<1>1. ASSUME NEW p \in Reqs, Comes(p)
      PROVE  /\ clean' = clean /\ overlapped \subseteq overlapped'
             /\ \A q \in Reqs : kind[q] # "none" => kind'[q] = kind[q]
             /\ \A q \in Reqs, u \in Topics : Asks(q, u) => Asks(q, u)'
  <2>1. clean' = clean /\ overlapped \subseteq overlapped' /\ \A u \in Topics : stage[p][u] = "none"
    BY <1>1 DEF Comes, Shape
  <2> QED BY <1>1, <2>1, ComesAlone DEF Asks
<1>2. ASSUME NEW p \in Reqs, StepOf(p)
      PROVE  /\ clean' = clean /\ overlapped' = overlapped /\ kind' = kind
             /\ \A q \in Reqs, u \in Topics : Asks(q, u) => Asks(q, u)'
  BY <1>2, ActsIs DEF Acts, SameRequests, Asks
<1>3. CASE ClosingStep
  BY <1>3 DEF ClosingStep, SameRequests, Asks
<1> QED BY <1>1, <1>2, <1>3, WhoseStep

\* A request that is at work when another one comes is met by it.
LEMMA NextMet ==
  ASSUME Shape, Wins, Met, Next
  PROVE  Met'
<1> SUFFICES ASSUME NEW q \in Reqs, NEW r \in Reqs, NEW t \in Topics,
                    q < r, Asks(q, t)', Asks(r, t)', Busy(q)'
             PROVE  <<r, t>> \in overlapped'
  BY DEF Met
<1>1. ASSUME NEW p \in Reqs, Comes(p) PROVE <<r, t>> \in overlapped'
  <2>1. /\ \A s \in Reqs \ {p} : \A u \in Topics : stage'[s][u] = stage[s][u]
        /\ kind[p] = "none" /\ \A u \in Topics : stage[p][u] = "none"
    BY <1>1, ComesAlone DEF Shape
  <2>2. q # p
    <3>1. ASSUME q = p PROVE FALSE
      <4>1. kind[r] = "none"
        BY <2>1, <3>1 DEF Wins, Ordered
      <4>2. r # p /\ stage[r][t] = "none"
        BY <3>1, <4>1, Types DEF Shape
      <4> QED BY <2>1, <4>2 DEF Asks
    <3> QED BY <3>1
  <2>3. Asks(q, t) /\ Busy(q)
    BY <2>1, <2>2 DEF Asks, Busy
  <2>4. CASE r # p
    <3>1. Asks(r, t)
      BY <2>1, <2>4 DEF Asks
    <3> QED BY <1>1, <2>3, <3>1, Lasting DEF Met
  <2>5. CASE r = p
    <3>1. PICK ts \in SUBSET Topics :
            /\ \A u \in ts : (\E s \in 0..(r - 1) : Asks(s, u) /\ Busy(s)) => <<r, u>> \in overlapped'
            /\ \/ Moved(r, ts, "authorizing")
               \/ Moved(r, ts, "failed")
               \/ Moved(r, ts, "removing")
               \/ Unhooks(r, ts)
      BY <1>1, <2>5 DEF Comes
    <3>2. t \in ts
      BY <2>1, <2>5, <3>1 DEF Asks, Moved, Unhooks
    <3>3. q \in 0..(r - 1)
      BY DEF Reqs
    <3> QED BY <2>3, <3>1, <3>2, <3>3
  <2> QED BY <2>4, <2>5
<1>2. ASSUME NEW p \in Reqs, StepOf(p) PROVE <<r, t>> \in overlapped'
  <2>1. /\ overlapped' = overlapped /\ Busy(p)
        /\ \A s \in Reqs \ {p} : \A u \in Topics : stage'[s][u] = stage[s][u]
        /\ \A u \in Topics : stage'[p][u] = "none" <=> stage[p][u] = "none"
    BY <1>2, ActsIs DEF Acts, SameRequests
  <2>2. Asks(q, t) /\ Asks(r, t)
    BY <2>1 DEF Asks
  <2>3. Busy(q)
    BY <2>1 DEF Busy
  <2> QED BY <2>1, <2>2, <2>3 DEF Met
<1>3. CASE ClosingStep
  BY <1>3 DEF ClosingStep, SameRequests, Asks, Busy, Met
<1> QED BY <1>1, <1>2, <1>3, WhoseStep

\* The requests an UNSUBSCRIBE took the topic from are not forgotten.
LEMMA TakenFromStays ==
  ASSUME Shape, Next, NEW r \in Reqs, NEW t \in Topics, TakenFrom(r, t)
  PROVE  TakenFrom(r, t)'
<1>1. PICK q \in Reqs : /\ kind[q] = "UNSUBSCRIBE" /\ Asks(q, t)
                        /\ <<IF q > r THEN q ELSE r, t>> \in overlapped
  BY DEF TakenFrom
<1>2. /\ kind'[q] = "UNSUBSCRIBE" /\ Asks(q, t)'
      /\ <<IF q > r THEN q ELSE r, t>> \in overlapped'
  BY <1>1, Lasting
<1> QED BY <1>2 DEF TakenFrom

\* An UNSUBSCRIBE that is at work on a topic, or has failed.
Takes == {"removed", "unhooking", "failed"}

\* Nor is an UNSUBSCRIBE that took the topic of an entry, while it goes on.
LEMMA TakenByStays ==
  ASSUME Shape, Next, NEW t \in Topics, subs[t] # None, subs'[t] = subs[t],
         \E q \in Reqs : TakenBy(q, t),
         \A q \in Reqs : kind[q] = "UNSUBSCRIBE" /\ stage[q][t] \in Takes => stage'[q][t] \in Takes
  PROVE  (\E q \in Reqs : TakenBy(q, t))'
<1>1. PICK q \in Reqs : TakenBy(q, t)
  OBVIOUS
<1>2. kind'[q] = "UNSUBSCRIBE" /\ kind[q] = "UNSUBSCRIBE"
  BY <1>1, Lasting DEF TakenBy
<1>3. CASE stage[q][t] \in Takes
  BY <1>2, <1>3 DEF TakenBy, Takes
<1>4. CASE Asks(q, t) /\ <<IF q > subs[t] THEN q ELSE subs[t], t>> \in overlapped
  <2>1. Asks(q, t)' /\ <<IF q > subs'[t] THEN q ELSE subs'[t], t>> \in overlapped'
    BY <1>4, Lasting
  <2> QED BY <1>2, <2>1 DEF TakenBy
<1> QED BY <1>1, <1>3, <1>4 DEF TakenBy, Takes

\* A step that only moves on the requests about a topic.
LEMMA CoveredStill ==
  ASSUME Shape, Next, NEW t \in Topics, Covered(t),
         stored'[t] = None => stored[t] = None,
         subs'[t] # None => subs'[t] = subs[t],
         \A q \in Reqs : stage'[q][t] = "saved" => stage[q][t] = "saved",
         subs'[t] # None =>
           \A q \in Reqs : kind[q] = "UNSUBSCRIBE" /\ stage[q][t] \in Takes => stage'[q][t] \in Takes
  PROVE  Covered(t)'
<1>1. ASSUME subs'[t] # None, stored'[t] = None PROVE (\E q \in Reqs : TakenBy(q, t))'
  BY <1>1, TakenByStays DEF Covered
<1>2. ASSUME NEW r \in Reqs, stage'[r][t] = "saved", stored'[t] = None PROVE TakenFrom(r, t)'
  BY <1>2, TakenFromStays DEF Covered
<1> QED BY <1>1, <1>2 DEF Covered

\* Every step keeps what the client is subscribed to in its session, unless an
\* UNSUBSCRIBE takes it.
LEMMA NextCovered ==
  ASSUME Shape, Restoring, Met, Next, ~clean, NEW u \in Topics, Covered(u)
  PROVE  Covered(u)'
<1>0. /\ StepKind /\ None \notin Options /\ None \notin Reqs /\ clean' = clean
      /\ Shape' /\ subs \in [Topics -> Reqs \cup {None}]
  BY StepKinds, NextShape, Types, Lasting
<1>1. ASSUME NEW r \in Reqs, Comes(r) PROVE Covered(u)'
  <2>1. /\ subs' = subs /\ stored' = stored /\ kind[r] = "none"
        /\ \A q \in Reqs \ {r} : stage'[q][u] = stage[q][u]
    BY <1>1, ComesAlone
  <2>2. stage'[r][u] # "saved"
    BY <1>1 DEF Comes, Shape, Moved, Unhooks
  <2> QED BY <2>1, <2>2, CoveredStill
<1>2. ASSUME NEW r \in Reqs, Forgets(r) PROVE Covered(u)'
  <2>1. /\ subs' = subs /\ kind' = kind /\ kind[r] = "UNSUBSCRIBE" /\ Busy(r)
        /\ stored'[u] = IF Asks(r, u) THEN None ELSE stored[u]
        /\ \A q \in Reqs : stage'[q][u] = IF q = r /\ Asks(r, u) THEN "removed" ELSE stage[q][u]
    BY <1>2 DEF Forgets, Moved, SameRequests, Shape, Busy, InFlight
  <2>2. CASE ~Asks(r, u)
    BY <2>1, <2>2, CoveredStill
  <2>3. CASE Asks(r, u)
    <3>1. TakenBy(r, u)'
      BY <2>1, <2>3 DEF TakenBy
    <3>2. ASSUME NEW q \in Reqs, stage'[q][u] = "saved" PROVE TakenFrom(q, u)'
      <4>1. q # r /\ Asks(q, u) /\ Busy(q)
        BY <2>1, <2>3, <3>2 DEF Asks, Busy, InFlight
      <4>2. q < r \/ r < q
        BY <4>1, Types
      <4>3. <<IF r > q THEN r ELSE q, u>> \in overlapped
        BY <2>1, <2>3, <4>1, <4>2, Types DEF Met
      <4>4. TakenFrom(q, u)
        BY <2>1, <2>3, <4>3 DEF TakenFrom
      <4> QED BY <4>4, TakenFromStays
    <3> QED BY <3>1, <3>2 DEF Covered
  <2> QED BY <2>2, <2>3
<1>3. ASSUME NEW r \in Reqs, Drops(r) PROVE Covered(u)'
  <2>1. /\ subs' = subs /\ stored' = stored
        /\ \A q \in Reqs : stage'[q][u] = IF q = r /\ Asks(r, u)
                                         THEN IF subs[u] # None THEN "unhooking" ELSE "gone"
                                         ELSE stage[q][u]
    BY <1>3 DEF Drops, Unhooks
  <2> QED BY <2>1, CoveredStill DEF Takes
<1>4. ASSUME NEW r \in Reqs, NEW t \in Topics, GoesOn(r, t) PROVE Covered(u)'
  <2>1. /\ subs' = subs /\ stage[r][t] \notin Takes
        /\ StoresNothing \/ (Stores(r) /\ stage[r][t] = "storing")
    BY <1>4 DEF GoesOn, ReadyToAdd, Takes
  <2>2. /\ \A q \in Reqs : ~(q = r /\ u = t) => stage'[q][u] = stage[q][u]
        /\ stage'[r][t] = "saved" => Stores(r) /\ stage[r][t] = "storing"
    BY <1>4 DEF GoesOn, Moved
  <2>3. stored'[u] = None => stored[u] = None /\ (Stores(r) /\ stage[r][t] = "storing" => ~Asks(r, u))
    BY <1>0, <2>1 DEF StoresNothing, Stores, Shape
  <2>4. u = t /\ stage'[r][t] = "saved" => stored'[u] # None
    BY <2>2, <2>3 DEF Asks
  <2>5. CASE stored'[u] # None
    BY <2>5 DEF Covered
  <2>6. CASE stored'[u] = None
    BY <2>1, <2>2, <2>3, <2>4, <2>6, CoveredStill
  <2> QED BY <2>5, <2>6
<1>5. ASSUME NEW r \in Reqs, NEW t \in Topics, GoesIn(r, t) PROVE Covered(u)'
  <2>1. /\ StoresNothing /\ stage[r][t] \in {"authorizing", "saved"} /\ subs'[t] = r
        /\ stage[r][t] = "authorizing" => kind[r] = "restore" /\ ~closed
        /\ \A q \in Reqs : stage'[q][u] = IF q = r /\ u = t THEN "hooking" ELSE stage[q][u]
        /\ u # t => subs'[u] = subs[u]
    BY <1>5 DEF GoesIn, ReadyToAdd, Moved
  <2>2. CASE u # t
    BY <2>1, <2>2, CoveredStill DEF StoresNothing
  <2>3. CASE u = t
    <3>1. ASSUME stored'[u] = None PROVE (\E q \in Reqs : TakenBy(q, u))'
      <4>1. stored[u] = None
        BY <2>1, <3>1 DEF StoresNothing
      <4>2. stage[r][u] = "saved"
        <5>1. ASSUME stage[r][u] = "authorizing" PROVE FALSE
          BY <2>1, <2>3, <4>1, <5>1 DEF Restoring
        <5> QED BY <2>1, <2>3, <5>1
      <4>3. TakenFrom(r, u)
        BY <4>1, <4>2 DEF Covered
      <4>4. PICK q \in Reqs : /\ kind[q] = "UNSUBSCRIBE" /\ Asks(q, u)
                              /\ <<IF q > r THEN q ELSE r, u>> \in overlapped
        BY <4>3 DEF TakenFrom
      <4>5. kind'[q] = "UNSUBSCRIBE" /\ Asks(q, u)' /\ <<IF q > r THEN q ELSE r, u>> \in overlapped'
        BY <4>4, Lasting
      <4>6. TakenBy(q, u)'
        BY <2>1, <2>3, <4>5 DEF TakenBy
      <4> QED BY <4>6
    <3>2. ASSUME NEW q \in Reqs, stage'[q][u] = "saved", stored'[u] = None PROVE TakenFrom(q, u)'
      <4>1. stage[q][u] = "saved" /\ stored[u] = None
        BY <2>1, <3>2 DEF StoresNothing
      <4>2. TakenFrom(q, u)
        BY <4>1 DEF Covered
      <4> QED BY <4>2, TakenFromStays
    <3> QED BY <3>1, <3>2 DEF Covered
  <2> QED BY <2>2, <2>3
<1>6. ASSUME NEW r \in Reqs, NEW ts \in SUBSET Topics, GoesWrong(r, ts) PROVE Covered(u)'
  <2>1. /\ subs' = subs /\ stored' = stored
        /\ \A q \in Reqs : stage'[q][u] = IF q = r /\ u \in ts THEN "failed" ELSE stage[q][u]
    BY <1>6 DEF GoesWrong, Moved
  <2> QED BY <2>1, CoveredStill DEF Takes
<1>7. ASSUME NEW r \in Rows, NEW t \in Topics, GoesOut(r, t) PROVE Covered(u)'
  <2>1. /\ stored' = stored /\ subs'[t] = None /\ (u # t => subs'[u] = subs[u])
        /\ \A q \in Reqs : /\ u # t => stage'[q][u] = stage[q][u]
                           /\ stage'[q][u] = "saved" => stage[q][u] = "saved"
    BY <1>7 DEF GoesOut, Rows
  <2> QED BY <2>1, CoveredStill
<1>8. ASSUME (\E t \in Topics : CloseFails(t)) \/ OnlyCloses PROVE Covered(u)'
  <2>1. /\ subs' = subs /\ stored' = stored /\ \A q \in Reqs : stage'[q][u] = stage[q][u]
    BY <1>8, Types DEF CloseFails, OnlyCloses
  <2> QED BY <2>1, CoveredStill
<1> QED BY <1>0, <1>1, <1>2, <1>3, <1>4, <1>5, <1>6, <1>7, <1>8 DEF StepKind

\* What is restored at first, or was subscribed to, is in the session.
LEMMA InitInSession ==
  ASSUME Init
  PROVE  Restoring /\ Met /\ InStore
<1>c. First # None /\ 0 \in Reqs
  BY SubscriptionsAssumption DEF Reqs
<1>1. PICK ts \in Lists[0] \cup {{}}, restoring \in BOOLEAN :
        /\ restoring => ~clean /\ ts # {}
        /\ stored = [t \in Topics |-> IF t \in ts /\ ~clean THEN First ELSE None]
        /\ kind = [r \in Reqs |-> IF r # 0 THEN "none" ELSE IF restoring THEN "restore" ELSE "SUBSCRIBE"]
        /\ stage = [r \in Reqs \cup {Closing} |-> [t \in Topics |->
                      IF r # 0 \/ t \notin ts THEN "none"
                      ELSE IF restoring THEN "authorizing" ELSE "granted"]]
        /\ subs = [t \in Topics |-> IF t \in ts /\ ~restoring THEN 0 ELSE None]
  BY DEF Init
<1>2. /\ \A q \in Reqs : kind[q] = IF q # 0 THEN "none" ELSE IF restoring THEN "restore" ELSE "SUBSCRIBE"
      /\ \A u \in Topics :
           /\ stage[0][u] = IF u \notin ts THEN "none" ELSE IF restoring THEN "authorizing" ELSE "granted"
           /\ stored[u] = IF u \in ts /\ ~clean THEN First ELSE None
           /\ subs[u] = IF u \in ts /\ ~restoring THEN 0 ELSE None
  BY <1>c, <1>1
<1>3. InStore
  <2>1. ASSUME ~clean, NEW t \in Topics, subs[t] # None PROVE stored[t] # None
    <3>1. stored[t] = IF t \in ts /\ ~clean THEN First ELSE None
      BY <1>2
    <3>2. subs[t] = IF t \in ts /\ ~restoring THEN 0 ELSE None
      BY <1>2
    <3>3. t \in ts
      BY <2>1, <3>2
    <3> QED BY <1>c, <2>1, <3>1, <3>3
  <2>2. \A r \in Reqs, t \in Topics : stage[r][t] # "saved"
    BY <1>1
  <2> QED BY <2>1, <2>2 DEF InStore, Covered
<1>6. Met
  <2>1. \A r \in Reqs, t \in Topics : Asks(r, t) => r = 0
    BY <1>1 DEF Asks
  <2> QED BY <2>1 DEF Met
<1>4. ~Failed(0)
  BY <1>2 DEF Failed
<1>5. ASSUME NEW t \in Topics, stage[0][t] = "authorizing" PROVE restoring /\ t \in ts /\ ~clean
  <2>1. stage[0][t] = IF t \notin ts THEN "none" ELSE IF restoring THEN "authorizing" ELSE "granted"
    BY <1>2
  <2>2. t \in ts
    BY <1>5, <2>1
  <2>3. restoring
    BY <1>5, <2>1, <2>2
  <2> QED BY <1>1, <2>2, <2>3
<1> QED BY <1>c, <1>2, <1>3, <1>4, <1>5, <1>6 DEF Restoring

\* The session always covers the subscriptions.
LEMMA InSessionHolds == Spec => [](Restoring /\ Met /\ InStore)
<1>1. Init => Restoring /\ Met /\ InStore
  BY InitInSession
<1>2. Shape /\ Wins /\ (Restoring /\ Met /\ InStore) /\ [Next]_vars => (Restoring /\ Met /\ InStore)'
  <2>1. ASSUME Restoring, Met, InStore, UNCHANGED vars PROVE (Restoring /\ Met /\ InStore)'
    BY <2>1 DEF Restoring, Met, InStore, Covered, TakenBy, TakenFrom, Asks, Busy, Failed, vars, work, notes
  <2>2. ASSUME Shape, Restoring, Met, InStore, Next PROVE InStore'
    BY <2>2, NextCovered, Lasting DEF InStore
  <2> QED BY <2>1, <2>2, NextRestoring, NextMet
<1> QED BY <1>1, <1>2, ShapeHolds, WinsHolds, PTL DEF Spec

\* What a persistent client is subscribed to is in its session, for addSubs comes
\* after storeSubscriptions, and restoreSubs before the first packet; unless an
\* UNSUBSCRIBE has taken it that is at work, has failed or met the request of the
\* entry: the orders of effect and answer may then differ.
THEOREM SessionCoversSafe == Spec => []SessionCoversSubscriptions
<1>1. InStore => SessionCoversSubscriptions
  BY DEF InStore, Covered, SessionCoversSubscriptions
<1> QED BY <1>1, InSessionHolds, PTL

-----------------------------------------------------------------------------
(***************************************************************************)
(* The topics of requests: the properties of module Topics.                *)
(***************************************************************************)
\* Any filter and any topic.
Characters == filter \in Seq(FilterChars) /\ topic \in Seq(TopicChars)

\* validateTopic looks where a rule of MQTT may be broken, and sees nothing in a
\* filter that breaks none: its bounds keep it inside of the string.
LEMMA PlacedIsNotBad ==
  ASSUME NEW S, NEW t \in Seq(S), NEW i \in DOMAIN t, Placed(t, i)
  PROVE  ~BadHash(t, i) /\ ~BadPlus(t, i)
<1>1. DOMAIN t = 1..Len(t) /\ Len(t) \in Nat /\ i \in 1..Len(t)
  OBVIOUS
<1>2. ~BadHash(t, i)
  BY <1>1 DEF Placed, AloneLeft, BadHash, SlashInPreEnd, NotSlash
<1>3. ~BadPlus(t, i)
  BY <1>1 DEF Placed, AloneLeft, AloneRight, BadPlus, NotSlash
<1> QED BY <1>2, <1>3

\* Where it sees nothing, a wildcard is placed well or in one of three ways.
LEMMA NotBadIsPlaced ==
  ASSUME NEW S, NEW t \in Seq(S), NEW i \in DOMAIN t, ~BadHash(t, i), ~BadPlus(t, i)
  PROVE  Placed(t, i) \/ Unseen(t, i)
<1>1. DOMAIN t = 1..Len(t) /\ Len(t) \in Nat /\ i \in 1..Len(t)
  OBVIOUS
<1>2. CASE t[i] = "#"
  BY <1>1, <1>2 DEF Placed, Unseen, AloneLeft, BadHash, SlashInPreEnd, NotSlash
<1>3. CASE t[i] = "+"
  BY <1>1, <1>3 DEF Placed, Unseen, AloneLeft, AloneRight, BadPlus, NotSlash
<1> QED BY <1>2, <1>3 DEF Placed

\* For filters of any length: validateTopic accepts what MQTT allows, up to the
\* limit of levels (utils.js:34-49).
THEOREM WellFormedSafe == Characters => WellFormedAccepted
<1> SUFFICES ASSUME Characters, WellFormed(filter), TopicLevelCount(filter) <= MaxLevels
             PROVE  ValidFilter(filter)
  BY DEF WellFormedAccepted
<1> QED BY PlacedIsNotBad DEF Characters, WellFormed, ValidFilter

\* For filters of any length: what it accepts and MQTT does not is one of three
\* shapes (utils.js:34-49).
THEOREM OnlyUnseenSafe == Characters => OnlyUnseenAccepted
BY NotBadIsPlaced DEF Characters, OnlyUnseenAccepted, ValidFilter

\* For filters and topics of any length: a message is stored for a session just
\* when it would be forwarded, but for foreign topics with a leading '$'
\* (subscribe.js:113-122, aedes.js:329-345).
THEOREM StoredSafe == Characters => StoredAsForwarded
<1> SUFFICES ASSUME Characters, ~(topic[1] = "$" /\ ~IsSys(topic))
             PROVE  Blocked(filter, topic) <=> NotStored(filter, topic)
  BY DEF StoredAsForwarded
<1>1. ASSUME IsSys(topic) PROVE topic[1] = "$"
  <2>1. /\ topic \in Seq(TopicChars) /\ Len(topic) >= 3
        /\ SubSeq(topic, 1, 3) = <<"$", "SYS", "/">>
    BY <1>1 DEF Characters, IsSys
  <2>2. SubSeq(topic, 1, 3)[1] = topic[1]
    BY <2>1
  <2>3. <<"$", "SYS", "/">>[1] = "$"
    OBVIOUS
  <2> QED BY <2>1, <2>2, <2>3
<1> QED BY <1>1 DEF Blocked, NotStored
=============================================================================
