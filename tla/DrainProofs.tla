---------------------------- MODULE DrainProofs ----------------------------
(***************************************************************************)
(* Proofs about Drain for any set of writes: type correctness, the safety  *)
(* invariants, and the safety part of the implementation of WriteReply.    *)
(***************************************************************************)
EXTENDS Drain, TLAPS

(***************************************************************************)
(* The inductive invariant.  Accounted alone is not inductive: that the    *)
(* drain event releases everybody depends on the listener being registered *)
(* whenever a callback is parked, and with a drain timeout nobody may be   *)
(* parked on 'drain' directly.                                             *)
(***************************************************************************)
Modes ==
  /\ DrainTimeout => raw = {} /\ (timer <=> pending # {}) /\ bound = IF timer THEN 1 ELSE 0
  /\ ~DrainTimeout => pending = {} /\ ~timer /\ bound = 0

Placed(T, A) ==
  /\ T \subseteq Writes \X BOOLEAN
  /\ A \in [Writes -> Nat]
  /\ \A w \in Writes : A[w] <= 1 /\ PlacedOnce(w, pending, raw, T, A)

Flags ==
  /\ full \in BOOLEAN /\ conn \in {"open", "destroyed"} /\ errored \in BOOLEAN
  /\ writable \in BOOLEAN /\ connectPending \in BOOLEAN

Waiting ==
  /\ requested \subseteq Writes
  /\ pending \subseteq Writes /\ raw \subseteq Writes
  /\ timer \in BOOLEAN /\ bound \in Nat
  /\ phase \in {"open", "closing", "closed"}
  /\ Modes

IInv == Flags /\ Waiting /\ Placed(tasks, answered)

\* The invariant gives what the runs check.
LEMMA InvariantSuffices ==
  IInv => TypeOK /\ AnsweredOnce /\ TimerServesWaiters /\ Accounted
  BY DEF IInv, Flags, Waiting, Modes, Placed, TypeOK, AnsweredOnce, TimerServesWaiters,
         Accounted

-----------------------------------------------------------------------------
\* Calling a set of callbacks that are not placed anywhere else any more.
LEMMA CallType ==
  ASSUME NEW STATE A, A \in [Writes -> Nat], NEW STATE W
  PROVE  /\ Call(A, W) \in [Writes -> Nat]
         /\ \A w \in Writes : Call(A, W)[w] = IF w \in W THEN A[w] + 1 ELSE A[w]
  BY DEF Call

\* DropWaiters, together with whatever a close() does to the listeners.
LEMMA CloseKeepsWaiting ==
  ASSUME Waiting, NEW STATE T, NEW STATE A, Placed(T, A), Close(T, A), requested' = requested
  PROVE  Waiting' /\ Placed(tasks, answered)'
<1>1. CASE phase # "open"
  <2>1. /\ pending' = pending /\ raw' = raw /\ timer' = timer /\ bound' = bound
        /\ phase' = phase /\ tasks' = T /\ answered' = A
    BY <1>1 DEF Close, waiting
  <2>2. Waiting'
    BY <2>1 DEF Waiting, Modes
  <2>3. Placed(tasks, answered)'
    BY <2>1 DEF Placed, PlacedOnce, InTasks
  <2> QED BY <2>2, <2>3
<1>2. CASE phase = "open"
  <2>1. /\ timer' = FALSE /\ pending' = {} /\ tasks' = T \cup (pending \X {TRUE})
        /\ phase' \in {"closing", "closed"}
    BY <1>2 DEF Close, DropWaiters
  <2>2. /\ bound' \in Nat
        /\ DrainTimeout => bound' = 0 /\ raw' = {}
        /\ ~DrainTimeout => bound' = 0
        /\ raw' \subseteq Writes
    BY <1>2 DEF Close, Less, Waiting, Modes
  <2>3. Waiting'
    BY <2>1, <2>2 DEF Waiting, Modes
  <2>4. tasks' \subseteq Writes \X BOOLEAN
    BY <2>1 DEF Placed, Waiting
  <2>5. \/ raw' = raw /\ answered' = A
        \/ raw' = {} /\ answered' = Call(A, raw)
    BY <1>2 DEF Close
  <2>6. answered' \in [Writes -> Nat]
    BY <2>5, CallType DEF Placed
  <2>7. ASSUME NEW w \in Writes
        PROVE  answered'[w] <= 1 /\ PlacedOnce(w, pending, raw, tasks, answered)'
    <3>1. /\ <<w, TRUE>> \in tasks' <=> <<w, TRUE>> \in T \/ w \in pending
          /\ <<w, FALSE>> \in tasks' <=> <<w, FALSE>> \in T
      BY <2>1
    <3>2. A[w] \in Nat /\ A[w] <= 1 /\ PlacedOnce(w, pending, raw, T, A)
      BY DEF Placed
    <3>3. CASE raw' = raw /\ answered' = A
      BY <3>1, <3>2, <3>3, <2>1 DEF PlacedOnce, InTasks
    <3>4. CASE raw' = {} /\ answered' = Call(A, raw)
      <4>1. answered'[w] = IF w \in raw THEN A[w] + 1 ELSE A[w]
        BY <3>4, CallType DEF Placed
      <4>2. w \in raw => A[w] = 0 /\ answered'[w] = 1
        BY <4>1, <3>2 DEF PlacedOnce
      <4>3. w \notin raw => answered'[w] = A[w]
        BY <4>1
      <4>4. answered'[w] <= 1
        BY <4>2, <4>3, <3>2
      <4>5. CASE w \in raw
        BY <4>2, <4>4, <4>5, <3>1, <3>2, <3>4, <2>1 DEF PlacedOnce, InTasks
      <4>6. CASE w \notin raw
        BY <4>3, <4>4, <4>6, <3>1, <3>2, <3>4, <2>1 DEF PlacedOnce, InTasks
      <4> QED BY <4>4, <4>5, <4>6
    <3> QED BY <3>3, <3>4, <2>5
  <2> QED BY <2>3, <2>4, <2>6, <2>7 DEF Placed
<1> QED BY <1>1, <1>2

\* The drain event.
LEMMA EmitDrainKeepsWaiting ==
  ASSUME Waiting, Placed(tasks, answered), EmitDrain, requested' = requested,
         phase' \in {"open", "closing", "closed"}
  PROVE  Waiting' /\ Placed(tasks, answered)' /\ pending' = {} /\ raw' = {}
<1>1. /\ pending' = {} /\ raw' = {} /\ timer' = FALSE /\ bound' = 0
      /\ tasks' = tasks \cup (pending \X {FALSE})
      /\ answered' = Call(answered, raw)
  <2>1. pending = {} => tasks = tasks \cup (pending \X {FALSE})
    OBVIOUS
  <2>2. pending # {} => bound > 0
    BY DEF Waiting, Modes
  <2>3. timer \in BOOLEAN /\ bound \in Nat /\ (timer => bound > 0)
    BY DEF Waiting, Modes
  <2>4. timer' = FALSE
    <3>1. ~(timer /\ bound = 0)
      BY <2>3
    <3> QED BY <3>1, Zenon DEF EmitDrain
  <2>5. CASE bound > 0
    BY <2>4, <2>5 DEF EmitDrain
  <2>6. CASE ~(bound > 0)
    <3>1. pending = {}
      BY <2>2, <2>6
    <3>2. pending' = {} /\ tasks' = tasks
      BY <2>6, <3>1 DEF EmitDrain
    <3> QED BY <2>1, <2>4, <3>1, <3>2 DEF EmitDrain
  <2> QED BY <2>5, <2>6
<1>2. Waiting'
  BY <1>1 DEF Waiting, Modes
<1>3. tasks' \subseteq Writes \X BOOLEAN /\ answered' \in [Writes -> Nat]
  BY <1>1, CallType DEF Placed, Waiting
<1>4. ASSUME NEW w \in Writes
      PROVE  answered'[w] <= 1 /\ PlacedOnce(w, pending, raw, tasks, answered)'
  <2>1. /\ <<w, FALSE>> \in tasks' <=> <<w, FALSE>> \in tasks \/ w \in pending
        /\ <<w, TRUE>> \in tasks' <=> <<w, TRUE>> \in tasks
    BY <1>1
  <2>2. /\ answered[w] \in Nat /\ answered[w] <= 1
        /\ PlacedOnce(w, pending, raw, tasks, answered)
    BY DEF Placed
  <2>3. answered'[w] = IF w \in raw THEN answered[w] + 1 ELSE answered[w]
    BY <1>1, CallType DEF Placed
  <2>4. w \in raw => answered[w] = 0 /\ answered'[w] = 1
    BY <2>2, <2>3 DEF PlacedOnce
  <2>5. answered'[w] <= 1
    BY <2>2, <2>3, <2>4
  <2>6. CASE w \in raw
    BY <2>1, <2>2, <2>4, <2>5, <2>6, <1>1 DEF PlacedOnce, InTasks
  <2>7. CASE w \notin raw
    BY <2>1, <2>2, <2>3, <2>5, <2>7, <1>1 DEF PlacedOnce, InTasks
  <2> QED BY <2>5, <2>6, <2>7
<1> QED BY <1>1, <1>2, <1>3, <1>4 DEF Placed

-----------------------------------------------------------------------------
\* Taking one scheduled callback out of the tasks and calling it.
LEMMA RunTaskPlaces ==
  ASSUME Waiting, Placed(tasks, answered), NEW w \in Writes, NEW err \in BOOLEAN,
         <<w, err>> \in tasks
  PROVE  Placed(tasks \ {<<w, err>>}, Call(answered, {w}))
<1> DEFINE T == tasks \ {<<w, err>>}
           A == Call(answered, {w})
<1>1. T \subseteq Writes \X BOOLEAN
  BY DEF Placed
<1>2. A \in [Writes -> Nat]
  BY CallType DEF Placed
<1>3. ASSUME NEW v \in Writes
      PROVE  A[v] <= 1 /\ PlacedOnce(v, pending, raw, T, A)
  <2>1. A[v] = IF v = w THEN answered[v] + 1 ELSE answered[v]
    BY CallType DEF Placed
  <2>2. answered[v] \in Nat /\ answered[v] <= 1 /\ PlacedOnce(v, pending, raw, tasks, answered)
    BY DEF Placed
  <2>3. CASE v = w
    <3>1. answered[v] = 0 /\ v \in requested /\ v \notin pending \cup raw
      BY <2>2, <2>3 DEF PlacedOnce, InTasks
    <3>2. ~InTasks(v, T)
      BY <2>2, <2>3 DEF PlacedOnce, InTasks
    <3>3. A[v] = 1
      BY <2>1, <2>3, <3>1
    <3> HIDE DEF T, A
    <3> QED BY <3>1, <3>2, <3>3 DEF PlacedOnce, InTasks
  <2>4. CASE v # w
    <3>1. /\ <<v, TRUE>> \in T <=> <<v, TRUE>> \in tasks
          /\ <<v, FALSE>> \in T <=> <<v, FALSE>> \in tasks
      BY <2>4
    <3>2. A[v] = answered[v]
      BY <2>1, <2>4
    <3> QED BY <2>2, <3>1, <3>2 DEF PlacedOnce, InTasks
  <2> QED BY <2>3, <2>4
<1> HIDE DEF T, A
<1>4. Placed(T, A)
  BY <1>1, <1>2, <1>3 DEF Placed
<1> QED BY <1>4 DEF T, A

\* write(): the callback is parked or scheduled, and was in no place before.
LEMMA WriteKeepsWaiting ==
  ASSUME IInv, NEW w \in Writes, Write(w)
  PROVE  Waiting' /\ Placed(tasks, answered)'
<1>1. /\ w \notin requested /\ requested' = requested \cup {w}
      /\ answered' = answered /\ phase' = phase
  BY DEF Write
<1>2. /\ answered[w] = 0 /\ w \notin pending \cup raw /\ ~InTasks(w, tasks)
  <2>1. answered[w] \in Nat /\ answered[w] <= 1 /\ PlacedOnce(w, pending, raw, tasks, answered)
    BY DEF IInv, Placed
  <2> QED BY <1>1, <2>1 DEF PlacedOnce
<1>3. \/ \E err \in BOOLEAN : tasks' = tasks \cup {<<w, err>>} /\ UNCHANGED waiting
      \/ WaitForDrain(w) /\ tasks' = tasks
  BY DEF Write
<1>4. CASE \E err \in BOOLEAN : tasks' = tasks \cup {<<w, err>>} /\ UNCHANGED waiting
  <2>1. PICK err \in BOOLEAN : tasks' = tasks \cup {<<w, err>>} /\ UNCHANGED waiting
    BY <1>4
  <2>2. Waiting'
    BY <1>1, <2>1 DEF IInv, Waiting, Modes, waiting
  <2>3. ASSUME NEW v \in Writes
        PROVE  answered'[v] <= 1 /\ PlacedOnce(v, pending, raw, tasks, answered)'
    BY <1>1, <1>2, <2>1 DEF IInv, Placed, PlacedOnce, InTasks, waiting
  <2> QED BY <1>1, <2>1, <2>2, <2>3 DEF IInv, Placed
<1>5. CASE WaitForDrain(w) /\ tasks' = tasks
  <2>1. \/ /\ DrainTimeout
           /\ pending' = pending \cup {w} /\ timer' = TRUE /\ raw' = raw
           /\ bound' = IF timer THEN bound ELSE bound + 1
        \/ /\ ~DrainTimeout
           /\ raw' = raw \cup {w}
           /\ pending' = pending /\ timer' = timer /\ bound' = bound
    BY <1>5 DEF WaitForDrain
  <2>2. bound' \in Nat /\ pending' \subseteq Writes /\ raw' \subseteq Writes
        /\ requested' \subseteq Writes
    BY <1>1, <2>1 DEF IInv, Waiting
  <2>3. timer' \in BOOLEAN
    BY <2>1 DEF IInv, Waiting
  <2>4. Modes'
    <3>1. CASE DrainTimeout /\ timer
      BY <2>1, <3>1 DEF IInv, Waiting, Modes
    <3>2. CASE DrainTimeout /\ ~timer
      BY <2>1, <3>2 DEF IInv, Waiting, Modes
    <3>3. CASE ~DrainTimeout
      BY <2>1, <3>3 DEF IInv, Waiting, Modes
    <3> QED BY <3>1, <3>2, <3>3
  <2>5. Waiting'
    BY <1>1, <2>2, <2>3, <2>4 DEF IInv, Waiting
  <2>6. ASSUME NEW v \in Writes
        PROVE  answered'[v] <= 1 /\ PlacedOnce(v, pending, raw, tasks, answered)'
    BY <1>1, <1>2, <1>5, <2>1 DEF IInv, Placed, PlacedOnce, InTasks
  <2> QED BY <1>1, <1>5, <2>5, <2>6 DEF IInv, Placed
<1> QED BY <1>3, <1>4, <1>5

\* The drain timer expires.
LEMMA TimeoutKeepsWaiting ==
  ASSUME Waiting, Placed(tasks, answered), HandleDrainTimeout
  PROVE  Waiting' /\ Placed(tasks, answered)'
<1>1. /\ timer /\ timer' = FALSE /\ pending' = {} /\ bound' = Less(bound)
      /\ tasks' = tasks \cup (pending \X {TRUE})
      /\ requested' = requested /\ raw' = raw /\ answered' = answered /\ phase' = phase
  BY DEF HandleDrainTimeout
<1>2. DrainTimeout /\ bound' = 0
  BY <1>1 DEF Waiting, Modes, Less
<1>3. Waiting'
  <2>1. raw' = {}
    BY <1>1, <1>2 DEF Waiting, Modes
  <2>3. Modes'
    BY <1>1, <1>2, <2>1 DEF Modes
  <2>2. bound' \in Nat
    BY <1>2
  <2>4. timer' \in BOOLEAN
    BY <1>1, Zenon
  <2> QED BY <1>1, <2>2, <2>3, <2>4 DEF Waiting
<1>4. ASSUME NEW w \in Writes
      PROVE  answered'[w] <= 1 /\ PlacedOnce(w, pending, raw, tasks, answered)'
  <2>1. /\ <<w, TRUE>> \in tasks' <=> <<w, TRUE>> \in tasks \/ w \in pending
        /\ <<w, FALSE>> \in tasks' <=> <<w, FALSE>> \in tasks
    BY <1>1
  <2>2. answered[w] <= 1 /\ PlacedOnce(w, pending, raw, tasks, answered)
    BY DEF Placed
  <2> QED BY <1>1, <2>1, <2>2 DEF PlacedOnce, InTasks
<1>5. tasks' \subseteq Writes \X BOOLEAN
  BY <1>1 DEF Waiting, Placed
<1> QED BY <1>1, <1>3, <1>4, <1>5 DEF Placed

-----------------------------------------------------------------------------
\* No write has been called at first.
LEMMA InitEstablishes == Init => IInv
<1> SUFFICES ASSUME Init PROVE IInv
  OBVIOUS
<1>1. Flags
  BY DEF Init, Flags
<1>2. Waiting
  BY DEF Init, Waiting, Modes
<1>3. Placed(tasks, answered)
  BY DEF Init, Placed, PlacedOnce, InTasks
<1> QED BY <1>1, <1>2, <1>3 DEF IInv

\* Every step keeps the invariant, one case for each event of the socket.
LEMMA NextKeeps == IInv /\ [Next]_vars => IInv'
<1> SUFFICES ASSUME IInv, [Next]_vars PROVE IInv'
  OBVIOUS
<1> USE DEF IInv
<1>1. ASSUME NEW w \in Writes, Write(w) PROVE IInv'
  <2>1. Flags'
    BY <1>1 DEF Write, Flags
  <2> QED BY <1>1, <2>1, WriteKeepsWaiting
<1>2. ASSUME NEW w \in Writes, NEW err \in BOOLEAN, RunTask(w, err) PROVE IInv'
  <2> DEFINE T == tasks \ {<<w, err>>}
             A == Call(answered, {w})
  <2>1. Placed(T, A)
    BY <1>2, RunTaskPlaces DEF RunTask
  <2>2. requested' = requested /\ full' = full /\ connectPending' = connectPending
    BY <1>2 DEF RunTask
  <2>3. writable' = (writable /\ ~Finishes)
    BY <1>2 DEF RunTask
  <2>4. CASE err
    <3>1. OnError(T, A)
      BY <1>2, <2>4 DEF RunTask
    <3>2. errored' = TRUE /\ conn' = "destroyed" /\ Close(T, A)
      BY <3>1 DEF OnError
    <3> HIDE DEF T, A
    <3>3. Waiting' /\ Placed(tasks, answered)'
      BY <2>1, <2>2, <3>2, CloseKeepsWaiting
    <3>4. Flags'
      BY <2>2, <2>3, <3>2 DEF Flags
    <3> QED BY <3>3, <3>4
  <2>5. CASE ~err
    <3>1. tasks' = T /\ answered' = A /\ UNCHANGED <<waiting, conn, errored, phase>>
      BY <1>2, <2>5 DEF RunTask
    <3> HIDE DEF T, A
    <3>2. Waiting'
      BY <2>2, <3>1 DEF Waiting, Modes, waiting
    <3>3. Placed(tasks, answered)'
      BY <2>1, <2>2, <3>1 DEF Placed, PlacedOnce, InTasks, waiting
    <3>4. Flags'
      BY <2>2, <2>3, <3>1 DEF Flags
    <3> QED BY <3>2, <3>3, <3>4
  <2> QED BY <2>4, <2>5
<1>3. CASE SocketDrain
  <2>1. EmitDrain /\ requested' = requested /\ phase' = phase
    BY <1>3 DEF SocketDrain
  <2>2. Flags'
    BY <1>3 DEF SocketDrain, Flags
  <2>3. phase' \in {"open", "closing", "closed"}
    BY <2>1 DEF Waiting
  <2> QED BY <2>1, <2>2, <2>3, EmitDrainKeepsWaiting
<1>4. CASE HandleDrainTimeout
  <2>1. Flags'
    BY <1>4 DEF HandleDrainTimeout, Flags
  <2> QED BY <1>4, <2>1, TimeoutKeepsWaiting
<1>5. CASE Destroy
  <2>1. Flags' /\ Waiting'
    BY <1>5 DEF Destroy, Flags, Waiting, Modes, waiting
  <2>2. Placed(tasks, answered)'
    BY <1>5 DEF Destroy, Placed, PlacedOnce, InTasks, waiting
  <2> QED BY <2>1, <2>2
<1>6. CASE SocketEvent
  <2>1. Close(tasks, answered) /\ requested' = requested
    BY <1>6 DEF SocketEvent, OnError
  <2>2. Waiting' /\ Placed(tasks, answered)'
    BY <2>1, CloseKeepsWaiting
  <2>3. Flags'
    BY <1>6 DEF SocketEvent, OnError, Flags
  <2> QED BY <2>2, <2>3
<1>7. CASE Finish
  <2>1. EmitDrain /\ requested' = requested /\ phase' = "closed"
    BY <1>7 DEF Finish
  <2>2. Flags'
    BY <1>7 DEF Finish, Flags
  <2> QED BY <2>1, <2>2, EmitDrainKeepsWaiting
<1>8. CASE ConnectDone
  <2>1. requested' = requested /\ full' = full /\ connectPending' = FALSE /\ writable' \in BOOLEAN
    BY <1>8 DEF ConnectDone
  <2>2. CASE UNCHANGED <<waiting, tasks, answered, conn, errored, phase>>
    <3>1. Flags' /\ Waiting'
      BY <2>1, <2>2 DEF Flags, Waiting, Modes, waiting
    <3>2. Placed(tasks, answered)'
      BY <2>1, <2>2 DEF Placed, PlacedOnce, InTasks, waiting
    <3> QED BY <3>1, <3>2
  <2>3. CASE OnError(tasks, answered)
    <3>1. Waiting' /\ Placed(tasks, answered)'
      BY <2>1, <2>3, CloseKeepsWaiting DEF OnError
    <3>2. Flags'
      BY <2>1, <2>3 DEF OnError, Flags
    <3> QED BY <3>1, <3>2
  <2> QED BY <1>8, <2>2, <2>3 DEF ConnectDone
<1>9. CASE UNCHANGED vars
  <2>1. Flags' /\ Waiting'
    BY <1>9 DEF vars, Flags, Waiting, Modes
  <2>2. Placed(tasks, answered)'
    BY <1>9 DEF vars, Placed, PlacedOnce, InTasks
  <2> QED BY <2>1, <2>2
<1> QED BY <1>1, <1>2, <1>3, <1>4, <1>5, <1>6, <1>7, <1>8, <1>9 DEF Next, RunTasks

\* The invariant holds in every reachable state.
LEMMA Invariant == Safe => []IInv
  BY InitEstablishes, NextKeeps, PTL DEF Safe

\* Whatever the number of writes: every callback is in exactly one place, where
\* some event will release it (write.js, waitForDrain, _handleDrain,
\* _handleDrainTimeout and close).
THEOREM WaitersSafe == Safe => [](TypeOK /\ Accounted)
  BY Invariant, InvariantSuffices, PTL

\* Whatever the number of writes, no callback is called twice, whichever drain,
\* timeout, error and close come at it and in whichever order.
THEOREM AnsweredOnceSafe == Safe => []AnsweredOnce
  BY Invariant, InvariantSuffices, PTL

\* Whatever the number of writes, the one timer and the one listener are there
\* exactly while a callback is parked.
THEOREM TimerSafe == Safe => []TimerServesWaiters
  BY Invariant, InvariantSuffices, PTL

-----------------------------------------------------------------------------
(***************************************************************************)
(* After finish().  NoWaiterAfterFinish is not inductive: the last         *)
(* callback of the CONNECT's chain makes the client writable again, and    *)
(* must not come a second time to make it unwritable with callbacks        *)
(* parked meanwhile.                                                       *)
(***************************************************************************)
Drained ==
  phase = "closed" => /\ connectPending => ~writable
                      /\ ~writable => pending \cup raw = {}

\* A close() that runs finish() releases everybody; one on a client that has
\* closed leaves the waiters alone.
LEMMA CloseDrains ==
  ASSUME IInv, NEW STATE T, NEW STATE A, Close(T, A), phase' = "closed"
  PROVE  \/ phase = "closed" /\ pending' = pending /\ raw' = raw
         \/ Finishes /\ pending' \cup raw' = {}
<1>1. CASE phase # "open"
  BY <1>1 DEF Close, waiting
<1>2. CASE phase = "open"
  <2>1. pending' = {} /\ raw' = {}
    BY <1>2 DEF Close, DropWaiters
  <2> QED BY <1>2, <2>1 DEF Finishes
<1> QED BY <1>1, <1>2

\* The drain event releases everybody: whoever is parked has the listener.
LEMMA EmitDrains ==
  ASSUME IInv, EmitDrain
  PROVE  pending' \cup raw' = {}
<1>1. bound = 0 => pending = {}
  BY DEF IInv, Waiting, Modes
<1>2. bound > 0 \/ bound = 0
  BY DEF IInv, Waiting
<1> QED BY <1>1, <1>2 DEF EmitDrain

\* Every step keeps a finished client without waiters, unless it is connected
\* again.
LEMMA DrainedStays ==
  ASSUME IInv, Drained, [Next]_vars
  PROVE  Drained'
<1>0. writable \in BOOLEAN /\ connectPending \in BOOLEAN
  BY DEF IInv, Flags
<1> SUFFICES ASSUME phase' = "closed" PROVE Drained'
  BY DEF Drained
<1>1. ASSUME NEW w \in Writes, Write(w) PROVE Drained'
  <2>1. /\ phase' = phase /\ writable' = writable /\ connectPending' = connectPending
        /\ writable \/ UNCHANGED waiting
    BY <1>1 DEF Write
  <2> QED BY <2>1 DEF Drained, waiting
<1>2. ASSUME NEW STATE T, NEW STATE A, Close(T, A), writable' = (writable /\ ~Finishes),
             connectPending' = connectPending
      PROVE  Drained'
  <2>1. CASE phase = "closed" /\ pending' = pending /\ raw' = raw
    BY <1>0, <1>2, <2>1 DEF Drained, Finishes
  <2>2. CASE Finishes /\ pending' \cup raw' = {}
    BY <1>2, <2>2 DEF Drained
  <2> QED BY <1>2, <2>1, <2>2, CloseDrains
<1>3. ASSUME phase' = phase, writable' = writable, connectPending' = connectPending,
             pending' \cup raw' \subseteq pending \cup raw
      PROVE  Drained'
  BY <1>3 DEF Drained
<1>4. ASSUME NEW w \in Writes, NEW err \in BOOLEAN, RunTask(w, err) PROVE Drained'
  <2>1. connectPending' = connectPending /\ writable' = (writable /\ ~Finishes)
    BY <1>4 DEF RunTask
  <2>2. CASE err
    BY <1>2, <1>4, <2>1, <2>2 DEF RunTask, OnError
  <2>3. CASE ~err
    <3>1. UNCHANGED <<waiting, phase>>
      BY <1>4, <2>3 DEF RunTask
    <3>2. writable' = writable
      BY <1>0, <2>1, <3>1 DEF Finishes
    <3> QED BY <1>3, <2>1, <3>1, <3>2 DEF waiting
  <2> QED BY <2>2, <2>3
<1>5. CASE SocketDrain
  BY <1>3, <1>5, EmitDrains DEF SocketDrain
<1>6. CASE HandleDrainTimeout \/ Destroy
  BY <1>3, <1>6 DEF HandleDrainTimeout, Destroy, waiting
<1>7. CASE SocketEvent
  <2>1. Close(tasks, answered) /\ connectPending' = connectPending
        /\ writable' = (writable /\ ~Finishes)
    BY <1>7 DEF SocketEvent, OnError
  <2> QED BY <1>2, <2>1
<1>8. CASE Finish
  BY <1>8, EmitDrains DEF Finish, Drained
<1>9. CASE ConnectDone
  <2>1. connectPending /\ connectPending' = FALSE
    BY <1>9 DEF ConnectDone
  <2>2. CASE writable' = TRUE
    BY <2>1, <2>2 DEF Drained
  <2>3. CASE OnError(tasks, answered)
    <3>1. \/ phase = "closed" /\ pending' = pending /\ raw' = raw
          \/ pending' \cup raw' = {}
      BY <2>3, CloseDrains DEF OnError
    <3> QED BY <2>1, <3>1 DEF Drained
  <2> QED BY <1>9, <2>2, <2>3 DEF ConnectDone
<1>10. CASE UNCHANGED vars
  BY <1>3, <1>10 DEF vars
<1> QED BY <1>1, <1>4, <1>5, <1>6, <1>7, <1>8, <1>9, <1>10 DEF Next, RunTasks

\* Whatever the number of writes, nobody is left waiting on a socket whose
\* client has finished closing and is not connected (client.js, finish()).
THEOREM NoWaiterSafe == Safe => []NoWaiterAfterFinish
<1>1. Init => Drained
  BY DEF Init, Drained
<1>2. Drained => NoWaiterAfterFinish
  BY DEF Drained, NoWaiterAfterFinish
<1> QED BY <1>1, <1>2, Invariant, DrainedStays, PTL DEF Safe

-----------------------------------------------------------------------------
\* The implementation of WriteReply.  A step either is a write(), or leaves the
\* set of requests alone and takes no answer back.
LEMMA AnswersStay ==
  ASSUME IInv, [Next]_vars
  PROVE  \/ \E w \in Writes : Write(w)
         \/ requested' = requested /\ \A w \in Writes : answered[w] <= answered'[w]
<1>1. answered \in [Writes -> Nat]
  BY DEF IInv, Placed
<1>2. ASSUME NEW STATE A, A \in [Writes -> Nat], NEW STATE W
      PROVE  \A w \in Writes : A[w] <= Call(A, W)[w]
  BY <1>2, CallType
<1>3. ASSUME NEW STATE T, NEW STATE A, A \in [Writes -> Nat], Close(T, A)
      PROVE  \A w \in Writes : A[w] <= answered'[w]
  <2>1. answered' = A \/ answered' = Call(A, raw)
    BY <1>3 DEF Close
  <2>2. CASE answered' = A
    BY <1>3, <2>2
  <2>3. CASE answered' = Call(A, raw)
    BY <1>3, <2>3, <1>2
  <2> QED BY <2>1, <2>2, <2>3
<1>4. ASSUME EmitDrain PROVE \A w \in Writes : answered[w] <= answered'[w]
  BY <1>1, <1>2, <1>4 DEF EmitDrain
<1>5. ASSUME NEW w \in Writes, NEW err \in BOOLEAN, RunTask(w, err)
      PROVE  requested' = requested /\ \A v \in Writes : answered[v] <= answered'[v]
  <2> DEFINE T == tasks \ {<<w, err>>}
             A == Call(answered, {w})
  <2>1. A \in [Writes -> Nat] /\ \A v \in Writes : answered[v] <= A[v]
    BY <1>1, <1>2, CallType
  <2>2. answered' = A \/ Close(T, A)
    BY <1>5 DEF RunTask, OnError
  <2>3. requested' = requested
    BY <1>5 DEF RunTask
  <2> HIDE DEF T, A
  <2>4. CASE answered' = A
    BY <2>1, <2>3, <2>4
  <2>5. CASE Close(T, A)
    <3>1. \A v \in Writes : A[v] <= answered'[v]
      BY <1>3, <2>1, <2>5
    <3>2. answered' \in [Writes -> Nat]
      <4>1. answered' = A \/ answered' = Call(A, raw)
        BY <2>5 DEF Close
      <4> QED BY <4>1, <2>1, CallType
    <3>3. ASSUME NEW v \in Writes PROVE answered[v] <= answered'[v]
      <4>1. answered[v] \in Nat /\ A[v] \in Nat /\ answered'[v] \in Nat
        BY <1>1, <2>1, <3>2
      <4>2. answered[v] <= A[v] /\ A[v] <= answered'[v]
        BY <2>1, <3>1
      <4> QED BY <4>1, <4>2
    <3> QED BY <2>3, <3>3
  <2> QED BY <2>2, <2>4, <2>5
<1>6. ASSUME answered' = answered PROVE \A w \in Writes : answered[w] <= answered'[w]
  BY <1>1, <1>6
<1>7. CASE SocketDrain \/ Finish
  BY <1>4, <1>7 DEF SocketDrain, Finish
<1>8. CASE SocketEvent \/ ConnectDone
  <2>1. requested' = requested
    BY <1>8 DEF SocketEvent, ConnectDone
  <2>2. answered' = answered \/ Close(tasks, answered)
    BY <1>8 DEF SocketEvent, ConnectDone, OnError
  <2> QED BY <1>1, <1>3, <1>6, <2>1, <2>2
<1>9. CASE HandleDrainTimeout \/ Destroy
  BY <1>6, <1>9 DEF HandleDrainTimeout, Destroy
<1>10. CASE UNCHANGED vars
  BY <1>6, <1>10 DEF vars
<1> QED BY <1>5, <1>7, <1>8, <1>9, <1>10 DEF Next, RunTasks

\* Each step of the socket code is a step of WriteReply, or a stutter: write()
\* asks, and every other step gives the answers it adds all at once.
LEMMA StepImplementsReply ==
  ASSUME IInv, IInv', [Next]_vars
  PROVE  [Reply!Next]_[w \in Writes |-> ReplyOf(w)]
<1> DEFINE R == [w \in Writes |-> ReplyOf(w)]
<1>1. \A w \in Writes :
        /\ answered[w] \in {0, 1} /\ answered'[w] \in {0, 1}
        /\ answered[w] = 1 => w \in requested
        /\ answered'[w] = 1 => w \in requested'
  <2> SUFFICES ASSUME NEW w \in Writes
               PROVE  /\ answered[w] \in {0, 1} /\ answered'[w] \in {0, 1}
                      /\ answered[w] = 1 => w \in requested
                      /\ answered'[w] = 1 => w \in requested'
    OBVIOUS
  <2>1. /\ answered[w] \in Nat /\ answered[w] <= 1
        /\ PlacedOnce(w, pending, raw, tasks, answered)
    BY DEF IInv, Placed
  <2>2. /\ answered'[w] \in Nat /\ answered'[w] <= 1
        /\ PlacedOnce(w, pending, raw, tasks, answered)'
    BY DEF IInv, Placed
  <2>3. answered[w] \in {0, 1} /\ answered'[w] \in {0, 1}
    BY <2>1, <2>2
  <2>4. answered[w] = 1 => w \in requested
    BY <2>1 DEF PlacedOnce
  <2>5. answered'[w] = 1 => w \in requested'
    BY <2>2 DEF PlacedOnce
  <2> QED BY <2>3, <2>4, <2>5
<1>2. ASSUME NEW w \in Writes
      PROVE  /\ ReplyOf(w) = IF answered[w] = 1 THEN "given"
                             ELSE IF w \in requested THEN "owed" ELSE "unasked"
             /\ ReplyOf(w)' = IF answered'[w] = 1 THEN "given"
                              ELSE IF w \in requested' THEN "owed" ELSE "unasked"
  BY <1>1 DEF ReplyOf
<1>3. CASE \E w \in Writes : Write(w)
  <2>1. PICK w \in Writes : Write(w)
    BY <1>3
  <2>2. w \notin requested /\ requested' = requested \cup {w} /\ answered' = answered
    BY <2>1 DEF Write
  <2>3. R[w] = "unasked" /\ R' = [R EXCEPT ![w] = "owed"]
    BY <1>1, <1>2, <2>2
  <2> QED BY <2>3 DEF Reply!Next, Reply!Ask
<1>4. CASE requested' = requested /\ \A w \in Writes : answered[w] <= answered'[w]
  <2> DEFINE W == {w \in Writes : answered[w] = 0 /\ answered'[w] = 1}
  <2>1. \A w \in W : R[w] = "owed"
    BY <1>1, <1>2, <1>4
  <2>2. R' = [w \in Writes |-> IF w \in W THEN "given" ELSE R[w]]
    <3>1. ASSUME NEW w \in Writes
          PROVE  ReplyOf(w)' = IF w \in W THEN "given" ELSE ReplyOf(w)
      <4>1. answered[w] <= answered'[w]
        BY <1>4
      <4> QED BY <1>1, <1>2, <1>4, <4>1
    <3> QED BY <3>1
  <2>3. W \in SUBSET Writes
    OBVIOUS
  <2> HIDE DEF W
  <2>4. Reply!Give(W)
    BY <2>1, <2>2 DEF Reply!Give
  <2> QED BY <2>3, <2>4 DEF Reply!Next
<1> QED BY <1>3, <1>4, AnswersStay

\* For any set of writes, with or without a drain timeout, the socket code keeps
\* the safety promise of WriteReply: no callback is called twice, or without
\* having been handed over by write().
THEOREM WriteReplySafe == Safe => Reply!Safe
<1>1. Init => Reply!Init
  BY DEF Init, Reply!Init, ReplyOf
<1> QED BY <1>1, Invariant, StepImplementsReply, PTL DEF Safe, Reply!Safe
=============================================================================
