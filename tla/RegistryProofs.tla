--------------------------- MODULE RegistryProofs ---------------------------
(***************************************************************************)
(* Proofs about Registry for any finite sets of connections and client     *)
(* identifiers: type correctness, the safety properties the runs check,    *)
(* and that no step loses a registration that waits for an older client.   *)
(***************************************************************************)
EXTENDS Registry, FiniteSetTheorems, TLAPS

(***************************************************************************)
(* The inductive invariant.  What the properties say is not inductive: a   *)
(* will stays out of persistence because a chain that goes on after its    *)
(* client has finished finds no will to take over, and the count is exact  *)
(* because an identifier is registered at the end of a chain only.         *)
(***************************************************************************)

\* The stages after authenticate, and those after registerClient.
Late == {"connack", "unwritten", "emptyQueue", "done"}
Admitted == {"fetchSubs", "restoreSubs", "subscribing", "delWill", "putWill",
             "connack", "unwritten", "emptyQueue"}

\* A chain past authenticate belongs to an authorized client, and a finished
\* client has left nothing to authenticate but a chain that is about to drop.
Staged ==
  /\ finished \subseteq closed
  /\ \A c \in Conns : stage[c] \in Admitted => c \in authorized
  /\ \A c \in stash \cap finished : stage[c] \in {"authenticate", "dropped"}

\* Who is in the registry, or about to be.
Owned ==
  /\ \A i \in ClientIds : clients[i] # NoConn =>
       /\ IdOf[clients[i]] = i
       /\ clients[i] \in authorized
       /\ stage[clients[i]] \in Late
  /\ \A d \in Conns : next[d] # NoConn => next[d] \in authorized /\ stage[next[d]] \in Late

\* No two connections ask for the same identifier.
Injective == \A c, d \in Conns : IdOf[c] = IdOf[d] => c = d

Counted ==
  /\ CountCovers
  /\ Injective => /\ connectedClients = Cardinality(Registered)
                  /\ \A d \in Conns : next[d] = NoConn

\* Where a will is, and how often it has been published.
Willed ==
  /\ will \cap finished = {}
  /\ \A i \in ClientIds : stored[i] # NoConn =>
       IdOf[stored[i]] = i /\ (stored[i] \in will \/ departing[stored[i]] # "no")
  /\ \A c \in Conns :
       /\ published[c] <= 1
       /\ published[c] = 1 => c \in finished \ disconnected
       /\ departing[c] = "authorizing" => published[c] = 0 /\ c \in finished \ disconnected

IInv == TypeOK /\ Staged /\ Owned /\ Counted /\ Willed

\* The invariant gives what the runs check.
LEMMA InvariantSuffices ==
  IInv => TypeOK /\ CountCovers /\ CountExact /\ WillPublishedOnce /\ NoOrphanWill
<1> SUFFICES ASSUME IInv
             PROVE  TypeOK /\ CountCovers /\ CountExact /\ WillPublishedOnce /\ NoOrphanWill
  OBVIOUS
<1>1. TypeOK /\ CountCovers /\ CountExact
  BY DEF IInv, Counted, CountExact, Injective
<1>2. WillPublishedOnce
  BY DEF IInv, Willed, WillPublishedOnce
<1>3. NoOrphanWill
  <2> SUFFICES ASSUME NEW i \in ClientIds, stored[i] # NoConn
               PROVE  stored[i] \notin finished \/ departing[stored[i]] # "no"
    BY DEF NoOrphanWill
  <2> QED BY DEF IInv, Willed
<1> QED BY <1>1, <1>2, <1>3

-----------------------------------------------------------------------------
\* The registry's part of Leave: the count is adjusted with the registrations.
LEMMA UpdateRegistryCounts ==
  ASSUME TypeOK, NEW STATE W, W \subseteq Conns, NEW STATE k, k \in Conns \cup {NoConn},
         UpdateRegistry(W, k)
  PROVE  /\ clients' \in [ClientIds -> Conns \cup {NoConn}]
         /\ connectedClients' \in Int
         /\ CountCovers => CountCovers'
         /\ k = NoConn \/ IdOf[k] \notin Registered =>
              (connectedClients = Cardinality(Registered) =>
                connectedClients' = Cardinality(Registered'))
<1> DEFINE G == IdsOf(W \cap authorized) \cap Registered
           T == IF k = NoConn THEN {} ELSE {IdOf[k]}
<1>1. /\ clients' = [i \in ClientIds |-> IF i \in T THEN k
                                         ELSE IF i \in G THEN NoConn ELSE clients[i]]
      /\ connectedClients' = connectedClients - Cardinality(G) + Cardinality(T)
  BY DEF UpdateRegistry
<1>2. T \subseteq ClientIds /\ IsFiniteSet(T) /\ (T # {} => k # NoConn)
  <2>1. CASE k = NoConn
    BY <2>1, FS_EmptySet
  <2>2. CASE k # NoConn
    <3>1. T = {IdOf[k]} /\ IdOf[k] \in ClientIds
      BY <2>2, RegistryAssumption
    <3> QED BY <2>2, <3>1, FS_Singleton
  <2> QED BY <2>1, <2>2
<1>3. IsFiniteSet(Registered) /\ G \subseteq Registered
  BY FS_Subset, RegistryAssumption DEF Registered
<1>4. clients \in [ClientIds -> Conns \cup {NoConn}] /\ connectedClients \in Int
  BY DEF TypeOK
<1>5. k = NoConn \/ IdOf[k] \notin Registered => (Registered \ G) \cap T = {}
  OBVIOUS
<1> HIDE DEF G, T
<1>6. clients' \in [ClientIds -> Conns \cup {NoConn}]
  BY <1>1, <1>4
<1>7. Registered' = (Registered \ G) \cup T
  BY <1>1, <1>2, <1>3, <1>4 DEF Registered
<1>8. /\ Cardinality(Registered) \in Nat /\ Cardinality(G) \in Nat /\ Cardinality(T) \in Nat
      /\ Cardinality(Registered') \in Nat
      /\ Cardinality(Registered') <= Cardinality(Registered) - Cardinality(G) + Cardinality(T)
      /\ k = NoConn \/ IdOf[k] \notin Registered =>
           Cardinality(Registered') = Cardinality(Registered) - Cardinality(G) + Cardinality(T)
  <2> DEFINE R == Registered
             N == Registered'
             S == R \ G
             D == S \cap T
  <2>1. /\ IsFiniteSet(R) /\ G \subseteq R /\ R \cap G = G /\ IsFiniteSet(T)
        /\ N = S \cup T
    BY <1>2, <1>3, <1>7
  <2>2. k = NoConn \/ IdOf[k] \notin R => D = {}
    BY <1>5
  <2> HIDE DEF R, N
  <2>3. /\ Cardinality(R) \in Nat /\ Cardinality(G) \in Nat /\ Cardinality(T) \in Nat
        /\ Cardinality(N) \in Nat /\ Cardinality(D) \in Nat
        /\ Cardinality(N) = Cardinality(R) - Cardinality(G) + Cardinality(T) - Cardinality(D)
    <3>1. IsFiniteSet(G)
      BY <2>1, FS_Subset
    <3>2. IsFiniteSet(S) /\ Cardinality(S) = Cardinality(R) - Cardinality(G)
      BY <2>1, FS_Difference
    <3> HIDE DEF S
    <3>3. IsFiniteSet(N) /\ Cardinality(N) = Cardinality(S) + Cardinality(T) - Cardinality(D)
      BY <2>1, <3>2, FS_Union
    <3>4. IsFiniteSet(D)
      BY <3>2, FS_Intersection
    <3> HIDE DEF D
    <3> QED BY <2>1, <3>1, <3>2, <3>3, <3>4, FS_CardinalityType
  <2> HIDE DEF D
  <2>4. D = {} => Cardinality(D) = 0
    BY FS_EmptySet
  <2> QED BY <2>2, <2>3, <2>4 DEF R, N
<1>9. connectedClients' \in Int
  BY <1>1, <1>4, <1>8
<1>10. CountCovers => CountCovers'
  BY <1>1, <1>4, <1>8 DEF CountCovers
<1> QED BY <1>1, <1>4, <1>5, <1>6, <1>8, <1>9, <1>10

\* The wills' part of Leave: a will that leaves memory is deleted from persistence
\* or on its way to be published, and none is on its way that was published before.
LEMMA LeaveWillsKeeps ==
  ASSUME TypeOK, Staged, Willed, NEW STATE W, W \subseteq Conns \ finished, LeaveWills(W),
         finished' = finished \cup W, disconnected' = disconnected
  PROVE  /\ Willed'
         /\ stash' = stash \ W /\ will' = will \ W
         /\ departing' \in [Conns -> {"no", "authorizing", "publishing"}]
         /\ published' = published
         /\ stored' \in [ClientIds -> Conns \cup {NoConn}]
<1> DEFINE kept == W \cap will \cap disconnected
           due == (W \cap will) \ disconnected
<1>1. /\ stored' = [i \in ClientIds |-> IF i \in IdsOf(kept) THEN NoConn ELSE stored[i]]
      /\ departing' = [c \in Conns |-> IF c \in due THEN "authorizing" ELSE departing[c]]
      /\ will' = will \ W /\ stash' = stash \ W /\ published' = published
  BY DEF LeaveWills
<1>2. /\ stored \in [ClientIds -> Conns \cup {NoConn}]
      /\ departing \in [Conns -> {"no", "authorizing", "publishing"}]
      /\ published \in [Conns -> Nat]
  BY DEF TypeOK
<1>3. will' \cap finished' = {}
  BY <1>1 DEF Willed
<1>4. ASSUME NEW i \in ClientIds, stored'[i] # NoConn
      PROVE  IdOf[stored'[i]] = i /\ (stored'[i] \in will' \/ departing'[stored'[i]] # "no")
  <2>1. stored'[i] = stored[i] /\ i \notin IdsOf(kept)
    BY <1>1, <1>4
  <2>2. /\ stored[i] \in Conns /\ IdOf[stored[i]] = i
        /\ stored[i] \in will \/ departing[stored[i]] # "no"
    BY <1>2, <1>4, <2>1 DEF Willed
  <2>3. stored[i] \notin kept
    BY <2>1, <2>2 DEF IdsOf
  <2>4. CASE stored[i] \in due
    BY <1>1, <2>1, <2>2, <2>4
  <2>5. CASE stored[i] \notin due
    BY <1>1, <2>1, <2>2, <2>3, <2>5
  <2> QED BY <2>4, <2>5
<1>5. ASSUME NEW c \in Conns
      PROVE  /\ published'[c] <= 1
             /\ published'[c] = 1 => c \in finished' \ disconnected'
             /\ departing'[c] = "authorizing" =>
                  published'[c] = 0 /\ c \in finished' \ disconnected'
  <2>1. /\ published[c] \in Nat /\ published[c] <= 1
        /\ published[c] = 1 => c \in finished \ disconnected
        /\ departing[c] = "authorizing" => published[c] = 0 /\ c \in finished \ disconnected
    BY <1>2 DEF Willed
  <2>2. CASE c \in due
    <3>1. published[c] = 0
      BY <2>1, <2>2
    <3> QED BY <1>1, <2>2, <3>1
  <2>3. CASE c \notin due
    BY <1>1, <2>1, <2>3
  <2> QED BY <2>2, <2>3
<1>6. stored' \in [ClientIds -> Conns \cup {NoConn}]
  BY <1>1, <1>2
<1>7. departing' \in [Conns -> {"no", "authorizing", "publishing"}]
  BY <1>1, <1>2
<1>8. Willed'
  BY <1>3, <1>4, <1>5 DEF Willed
<1> QED BY <1>1, <1>6, <1>7, <1>8

-----------------------------------------------------------------------------
\* What a turn that closes or finishes connections does to the chains: none
\* enters the admitted stages unauthorized, and none leaves the last ones.
MovesOn ==
  /\ stage' \in [Conns -> Stages]
  /\ authorized' = authorized /\ disconnected' = disconnected /\ subscribed' = subscribed
  /\ broker' \in {"open", "closing", "closed"} /\ awaited' \subseteq Conns
  /\ \A c \in Conns :
       /\ stage[c] \in Late => stage'[c] \in Late
       /\ stage'[c] \in Admitted => c \in authorized
       /\ stage[c] \in {"authenticate", "dropped"} => stage'[c] = stage[c]

\* k is no connection, or one whose registration is due.
Due(k) == k = NoConn \/ (k \in Conns /\ k \in authorized /\ stage'[k] \in Late)

\* Leave keeps the invariant.
LEMMA LeaveKeeps ==
  ASSUME IInv, MovesOn,
         NEW STATE W, W \subseteq Conns \ finished, NEW STATE k, Due(k),
         NEW STATE ing, ing \subseteq Conns, Leave(W, k, ing),
         closed' \subseteq Conns, closed \cup W \subseteq closed',
         next' \in [Conns -> Conns \cup {NoConn}],
         \A d \in Conns : next'[d] \in {next[d], NoConn},
         Injective => k = NoConn \/ IdOf[k] \notin Registered
  PROVE  IInv'
<1>1. /\ finished' = finished \cup W /\ connecting' = ing \ W /\ connected' = connected \ W
      /\ LeaveWills(W) /\ UpdateRegistry(W, k)
  BY DEF Leave
<1>2. k \in Conns \cup {NoConn} /\ W \subseteq Conns
  BY DEF Due
<1>3. /\ clients' \in [ClientIds -> Conns \cup {NoConn}]
      /\ connectedClients' \in Int
      /\ CountCovers => CountCovers'
      /\ k = NoConn \/ IdOf[k] \notin Registered =>
           (connectedClients = Cardinality(Registered) =>
             connectedClients' = Cardinality(Registered'))
  BY <1>1, <1>2, UpdateRegistryCounts DEF IInv
<1>4. /\ Willed'
      /\ stash' = stash \ W /\ will' = will \ W
      /\ departing' \in [Conns -> {"no", "authorizing", "publishing"}]
      /\ published' = published
      /\ stored' \in [ClientIds -> Conns \cup {NoConn}]
  BY <1>1, LeaveWillsKeeps DEF IInv, MovesOn
<1>5. TypeOK'
  BY <1>1, <1>2, <1>3, <1>4 DEF IInv, TypeOK, MovesOn
<1>6. Staged'
  <2>1. finished' \subseteq closed'
    BY <1>1 DEF IInv, Staged
  <2>2. \A c \in Conns : stage'[c] \in Admitted => c \in authorized'
    BY DEF MovesOn
  <2>3. ASSUME NEW c \in stash' \cap finished' PROVE stage'[c] \in {"authenticate", "dropped"}
    <3>1. c \in stash \cap finished /\ c \in Conns
      BY <1>1, <1>4, <2>3 DEF IInv, TypeOK
    <3> QED BY <3>1 DEF IInv, Staged, MovesOn
  <2> QED BY <2>1, <2>2, <2>3 DEF Staged
<1>7. Owned'
  <2>1. ASSUME NEW i \in ClientIds, clients'[i] # NoConn
        PROVE  /\ IdOf[clients'[i]] = i /\ clients'[i] \in authorized'
               /\ stage'[clients'[i]] \in Late
    <3>1. \/ k # NoConn /\ i = IdOf[k] /\ clients'[i] = k
          \/ clients'[i] = clients[i]
      BY <1>1, <2>1 DEF UpdateRegistry
    <3>2. CASE k # NoConn /\ i = IdOf[k] /\ clients'[i] = k
      BY <3>2 DEF Due, MovesOn
    <3>3. CASE clients'[i] = clients[i]
      <4>1. clients[i] \in Conns
        BY <2>1, <3>3 DEF IInv, TypeOK
      <4>2. /\ IdOf[clients[i]] = i /\ clients[i] \in authorized
            /\ stage[clients[i]] \in Late
        BY <2>1, <3>3 DEF IInv, Owned
      <4> QED BY <3>3, <4>1, <4>2 DEF MovesOn
    <3> QED BY <3>1, <3>2, <3>3
  <2>2. ASSUME NEW d \in Conns, next'[d] # NoConn
        PROVE  next'[d] \in authorized' /\ stage'[next'[d]] \in Late
    <3>1. next'[d] = next[d] /\ next[d] \in Conns
      BY <2>2 DEF IInv, TypeOK
    <3>2. next[d] \in authorized /\ stage[next[d]] \in Late
      BY <2>2, <3>1 DEF IInv, Owned
    <3> QED BY <3>1, <3>2 DEF MovesOn
  <2> QED BY <2>1, <2>2 DEF Owned
<1>8. Counted'
  <2>1. CountCovers'
    BY <1>3 DEF IInv, Counted
  <2>2. ASSUME Injective
        PROVE  /\ connectedClients' = Cardinality(Registered')
               /\ \A d \in Conns : next'[d] = NoConn
    BY <1>3, <2>2 DEF IInv, Counted
  <2> QED BY <2>1, <2>2 DEF Counted, Injective
<1> QED BY <1>4, <1>5, <1>6, <1>7, <1>8 DEF IInv

\* Close keeps the invariant.  A registration that waits is one of two for the
\* same identifier.
LEMMA CloseKeeps ==
  ASSUME IInv, MovesOn, NEW c \in Conns, NEW STATE k, Due(k), Injective => k = NoConn,
         NEW STATE ing, ing \subseteq Conns, Close(c, k, ing)
  PROVE  IInv'
<1>1. CASE c \in closed
  <2>1. Leave({}, k, ing) /\ closed' = closed /\ next' = next
    BY <1>1 DEF Close
  <2>2. closed \subseteq Conns /\ next \in [Conns -> Conns \cup {NoConn}]
    BY DEF IInv, TypeOK
  <2> QED BY <2>1, <2>2, LeaveKeeps
<1>2. CASE c \notin closed /\ c \notin subscribed
  <2>1. Leave({c}, k, ing) /\ closed' = closed \cup {c} /\ next' = next
    BY <1>2 DEF Close
  <2>2. /\ closed \subseteq Conns /\ next \in [Conns -> Conns \cup {NoConn}]
        /\ c \notin finished
    BY <1>2 DEF IInv, TypeOK, Staged
  <2> QED BY <2>1, <2>2, LeaveKeeps
<1>3. CASE c \notin closed /\ c \in subscribed
  <2>1. /\ closed' = closed \cup {c} /\ next' = [next EXCEPT ![c] = k] /\ connecting' = ing
        /\ finished' = finished /\ connected' = connected
        /\ UNCHANGED <<wills, registry>>
    BY <1>3 DEF Close
  <2>2. k \in Conns \cup {NoConn}
    BY DEF Due
  <2>3. TypeOK'
    BY <2>1, <2>2 DEF IInv, TypeOK, MovesOn, wills, registry
  <2>4. Staged'
    BY <2>1 DEF IInv, TypeOK, Staged, MovesOn, wills
  <2>5. Owned'
    <3>1. ASSUME NEW i \in ClientIds, clients'[i] # NoConn
          PROVE  /\ IdOf[clients'[i]] = i /\ clients'[i] \in authorized'
                 /\ stage'[clients'[i]] \in Late
      <4>1. clients'[i] = clients[i] /\ clients[i] \in Conns
        BY <2>1, <3>1 DEF IInv, TypeOK, registry
      <4> QED BY <3>1, <4>1 DEF IInv, Owned, MovesOn
    <3>2. ASSUME NEW d \in Conns, next'[d] # NoConn
          PROVE  next'[d] \in authorized' /\ stage'[next'[d]] \in Late
      <4>1. CASE d = c
        BY <2>1, <3>2, <4>1 DEF IInv, TypeOK, Due, MovesOn
      <4>2. CASE d # c
        <5>1. next'[d] = next[d] /\ next[d] \in Conns
          BY <2>1, <3>2, <4>2 DEF IInv, TypeOK
        <5> QED BY <3>2, <5>1 DEF IInv, Owned, MovesOn
      <4> QED BY <4>1, <4>2
    <3> QED BY <3>1, <3>2 DEF Owned
  <2>6. Counted'
    BY <2>1 DEF IInv, TypeOK, Counted, CountCovers, Registered, Injective, registry
  <2>7. Willed'
    BY <2>1 DEF IInv, Willed, MovesOn, wills
  <2> QED BY <2>3, <2>4, <2>5, <2>6, <2>7 DEF IInv
<1> QED BY <1>1, <1>2, <1>3

\* The registry stays owned while no chain moves back.
LEMMA OwnedStays ==
  ASSUME IInv, clients' = clients, next' = next, authorized \subseteq authorized',
         \A c \in Conns : stage[c] \in Late => stage'[c] \in Late
  PROVE  Owned'
<1>1. ASSUME NEW i \in ClientIds, clients'[i] # NoConn
      PROVE  /\ IdOf[clients'[i]] = i /\ clients'[i] \in authorized'
             /\ stage'[clients'[i]] \in Late
  <2>1. clients'[i] = clients[i] /\ clients[i] \in Conns
    BY <1>1 DEF IInv, TypeOK
  <2> QED BY <1>1, <2>1 DEF IInv, Owned
<1>2. ASSUME NEW d \in Conns, next'[d] # NoConn
      PROVE  next'[d] \in authorized' /\ stage'[next'[d]] \in Late
  <2>1. next'[d] = next[d] /\ next[d] \in Conns
    BY <1>2 DEF IInv, TypeOK
  <2> QED BY <1>2, <2>1 DEF IInv, Owned
<1> QED BY <1>1, <1>2 DEF Owned

\* A turn that leaves alone the registry, the ends of connections and the wills
\* but client._will.
LEMMA QuietKeeps ==
  ASSUME IInv, UNCHANGED <<flags, registry, will, departing, published, stored>>,
         connecting' \subseteq Conns, connected' \subseteq Conns,
         authorized \subseteq authorized', authorized' \subseteq Conns,
         disconnected' \subseteq Conns, disconnected' \cap finished \subseteq disconnected,
         subscribed' \subseteq Conns, stash' \subseteq Conns,
         broker' \in {"open", "closing", "closed"}, awaited' \subseteq Conns,
         stage' \in [Conns -> Stages],
         \A c \in Conns : /\ stage[c] \in Late => stage'[c] \in Late
                          /\ stage'[c] \in Admitted => c \in authorized',
         \A c \in stash' \cap finished : stage'[c] \in {"authenticate", "dropped"}
  PROVE  IInv'
<1>1. TypeOK'
  BY DEF IInv, TypeOK, flags, registry
<1>2. Staged'
  BY DEF IInv, Staged, flags
<1>3. Owned'
  BY OwnedStays DEF flags, registry
<1>4. Counted'
  BY DEF IInv, Counted, CountCovers, Registered, Injective, flags, registry
<1>5. Willed'
  BY DEF IInv, Willed, flags
<1> QED BY <1>1, <1>2, <1>3, <1>4, <1>5 DEF IInv

-----------------------------------------------------------------------------
\* A move of one chain is a move MovesOn describes.
LEMMA GotoMovesOn ==
  ASSUME IInv, NEW c \in Conns, NEW STATE s, s \in Stages, Goto(c, s),
         stage[c] \notin {"authenticate", "dropped"},
         stage[c] \in Late => s \in Late, s \in Admitted => c \in authorized,
         UNCHANGED <<session, server>>
  PROVE  MovesOn
<1>1. stage \in [Conns -> Stages] /\ stage' = [stage EXCEPT ![c] = s]
  BY DEF IInv, TypeOK, Goto
<1>2. ASSUME NEW d \in Conns
      PROVE  /\ stage[d] \in Late => stage'[d] \in Late
             /\ stage'[d] \in Admitted => d \in authorized
             /\ stage[d] \in {"authenticate", "dropped"} => stage'[d] = stage[d]
  BY <1>1 DEF IInv, Staged
<1>3. broker' \in {"open", "closing", "closed"} /\ awaited' \subseteq Conns
  BY DEF IInv, TypeOK, server
<1> QED BY <1>1, <1>2, <1>3 DEF MovesOn, session

\* The end of a chain, with an error or with a refusal.
LEMMA EndKeeps ==
  ASSUME IInv, NEW c \in Conns, stage[c] \notin {"authenticate", "dropped"},
         Goto(c, "done"), NEW STATE ing, ing \subseteq Conns, Close(c, NoConn, ing),
         UNCHANGED <<session, server>>
  PROVE  IInv'
<1>1. MovesOn
  BY GotoMovesOn DEF Stages, Late, Admitted
<1> QED BY <1>1, CloseKeeps DEF Due

\* nextBatch's way to _onError.
LEMMA FailKeeps ==
  ASSUME IInv, NEW c \in Conns, stage[c] \notin {"authenticate", "dropped"}, Fail(c)
  PROVE  IInv'
<1>1. connecting \ {c} \subseteq Conns
  BY DEF IInv, TypeOK
<1> QED BY <1>1, EndKeeps DEF Fail

\* registerClient: the identifiers agree, and without a second connection of the
\* same identifier there is nothing to wait for.
LEMMA RegisterKeeps ==
  ASSUME IInv, NEW c \in Conns, stage[c] \in {"delWill", "putWill"}, Register(c)
  PROVE  IInv'
<1> DEFINE s == IF c \in connecting THEN "connack" ELSE "unwritten"
           old == clients[IdOf[c]]
<1>1. /\ Goto(c, s)
      /\ IF old = NoConn THEN Leave({}, c, connecting) /\ UNCHANGED <<closed, next>>
                         ELSE Close(old, c, connecting)
      /\ UNCHANGED <<session, server>>
  BY DEF Register
<1>2. c \in authorized
  BY DEF IInv, Staged, Admitted
<1>3. s \in Stages /\ s \in Late
  BY DEF Stages, Late
<1>4. MovesOn
  <2> HIDE DEF s
  <2> QED BY <1>1, <1>2, <1>3, GotoMovesOn DEF Late
<1>5. Due(c)
  <2>1. stage' = [stage EXCEPT ![c] = s] /\ stage \in [Conns -> Stages]
    BY <1>1 DEF Goto, IInv, TypeOK
  <2> HIDE DEF s
  <2> QED BY <1>2, <1>3, <2>1 DEF Due
<1>6. /\ connecting \subseteq Conns /\ closed \subseteq Conns
      /\ next \in [Conns -> Conns \cup {NoConn}]
      /\ old \in Conns \cup {NoConn} /\ IdOf[c] \in ClientIds
  BY RegistryAssumption DEF IInv, TypeOK
<1>7. CASE old = NoConn
  <2>1. IdOf[c] \notin Registered
    BY <1>7 DEF Registered
  <2>2. Leave({}, c, connecting) /\ closed' = closed /\ next' = next
    BY <1>1, <1>7
  <2> QED BY <1>4, <1>5, <1>6, <2>1, <2>2, LeaveKeeps
<1>8. CASE old # NoConn
  <2>1. old \in Conns /\ IdOf[old] = IdOf[c] /\ stage[old] \in Late
    BY <1>6, <1>8 DEF IInv, Owned
  <2>2. ~Injective
    BY <2>1 DEF Injective, Late
  <2>3. Close(old, c, connecting)
    BY <1>1, <1>8
  <2> HIDE DEF old
  <2> QED BY <1>4, <1>5, <1>6, <2>1, <2>2, <2>3, CloseKeeps
<1> QED BY <1>7, <1>8

\* storeWill: a chain that gets here after its client has finished finds no will.
LEMMA StoreWillKeeps ==
  ASSUME IInv, NEW c \in Conns, stage[c] \in {"fetchSubs", "restoreSubs", "subscribing"},
         StoreWill(c)
  PROVE  IInv'
<1>1. /\ will' = will \cup (stash \cap {c})
      /\ stored' = [stored EXCEPT ![IdOf[c]] = NoConn]
      /\ stage' = [stage EXCEPT ![c] = "delWill"]
      /\ UNCHANGED <<connecting, connected, flags, session, stash, departing, published,
                     registry, server>>
  BY DEF StoreWill, Goto
<1>2. TypeOK'
  BY <1>1 DEF IInv, TypeOK, Stages, flags, session, registry, server
<1>3. c \in authorized /\ (c \in stash => c \notin finished)
  BY DEF IInv, Staged, Admitted
<1>4. Staged'
  BY <1>1, <1>3 DEF IInv, TypeOK, Staged, flags, session
<1>5. Owned'
  <2>1. \A d \in Conns : stage[d] \in Late => stage'[d] \in Late
    BY <1>1 DEF IInv, TypeOK, Late
  <2> QED BY <1>1, <2>1, OwnedStays DEF flags, session, registry
<1>6. Counted'
  BY <1>1 DEF IInv, Counted, CountCovers, Registered, Injective, flags, registry
<1>7. Willed'
  <2>1. will' \cap finished' = {}
    BY <1>1, <1>3 DEF IInv, Willed, flags
  <2>2. ASSUME NEW i \in ClientIds, stored'[i] # NoConn
        PROVE  IdOf[stored'[i]] = i /\ (stored'[i] \in will' \/ departing'[stored'[i]] # "no")
    BY <1>1, <2>2, RegistryAssumption DEF IInv, TypeOK, Willed
  <2> QED BY <1>1, <2>1, <2>2 DEF IInv, Willed, flags, session
<1> QED BY <1>2, <1>4, <1>5, <1>6, <1>7 DEF IInv

-----------------------------------------------------------------------------
\* Every step keeps the invariant: first the steps of a chain.
LEMMA ChainKeeps ==
  ASSUME IInv, NEW c \in Conns, Chain(c)
  PROVE  IInv'
<1> USE DEF Late, Admitted
<1>0. /\ stage \in [Conns -> Stages] /\ connecting \subseteq Conns /\ connected \subseteq Conns
      /\ authorized \subseteq Conns /\ disconnected \subseteq Conns
      /\ subscribed \subseteq Conns /\ stash \subseteq Conns /\ finished \subseteq closed
      /\ broker \in {"open", "closing", "closed"} /\ awaited \subseteq Conns
      /\ \A d \in Conns : stage[d] \in Admitted => d \in authorized
      /\ \A d \in stash \cap finished : stage[d] \in {"authenticate", "dropped"}
  BY DEF IInv, TypeOK, Staged
<1>1. ASSUME NEW STATE s, s \in Stages, stage[c] # "dropped",
             stage[c] \in Late => s \in Late, s \in Admitted => c \in authorized,
             stage[c] = "authenticate" => c \notin finished \/ s = "dropped", Step(c, s)
      PROVE  IInv'
  <2>1. /\ stage' = [stage EXCEPT ![c] = s]
        /\ UNCHANGED <<connecting, connected, flags, session, wills, registry, server>>
    BY <1>1 DEF Step, Goto
  <2>2. \A d \in Conns : /\ stage[d] \in Late => stage'[d] \in Late
                         /\ stage'[d] \in Admitted => d \in authorized'
    BY <1>0, <1>1, <2>1 DEF session
  <2>3. \A d \in stash' \cap finished : stage'[d] \in {"authenticate", "dropped"}
    BY <1>0, <1>1, <2>1 DEF wills
  <2>4. stage' \in [Conns -> Stages]
    BY <1>0, <1>1, <2>1
  <2> QED BY <1>0, <2>1, <2>2, <2>3, <2>4, QuietKeeps DEF session, wills, server
<1>2. CASE PreConnect(c)
  <2>1. CASE Step(c, "init")
    BY <1>1, <1>2, <2>1 DEF PreConnect, Stages
  <2>2. CASE /\ Goto(c, "idle") /\ connecting' = connecting \ {c}
             /\ UNCHANGED <<connected, flags, session, wills, registry, server>>
    BY <1>0, <1>2, <2>2, QuietKeeps DEF PreConnect, Stages, Goto, session, wills, server
  <2>3. CASE Fail(c)
    BY <1>2, <2>3, FailKeeps DEF PreConnect
  <2> QED BY <1>2, <2>1, <2>2, <2>3 DEF PreConnect
<1>3. CASE InitConnect(c)
  <2>1. CASE Step(c, "refused")
    BY <1>1, <1>3, <2>1 DEF InitConnect, Stages
  <2>2. CASE /\ Goto(c, "authenticate") /\ stash' = stash \cup (WillConns \cap {c})
             /\ UNCHANGED <<connecting, connected, flags, session, will, departing, published,
                            stored, registry, server>>
    BY <1>0, <1>3, <2>2, QuietKeeps DEF InitConnect, Stages, Goto, session, server
  <2> QED BY <1>3, <2>1, <2>2 DEF InitConnect
<1>4. CASE Refuse(c)
  BY <1>0, <1>4, EndKeeps DEF Refuse
<1>5. CASE Authenticate(c)
  <2>1. CASE Step(c, "dropped")
    BY <1>1, <1>5, <2>1 DEF Authenticate, Stages
  <2>2. CASE c \notin closed /\ Step(c, "denied")
    BY <1>0, <1>1, <1>5, <2>2 DEF Authenticate, Stages
  <2>3. CASE /\ c \notin closed /\ Goto(c, "fetchSubs") /\ authorized' = authorized \cup {c}
             /\ UNCHANGED <<connecting, connected, flags, disconnected, subscribed, wills,
                            registry, server>>
    BY <1>0, <1>5, <2>3, QuietKeeps DEF Authenticate, Stages, Goto, wills, server
  <2> QED BY <1>5, <2>1, <2>2, <2>3 DEF Authenticate
<1>6. CASE Deny(c)
  <2>1. connecting \ ({c} \cap closed) \subseteq Conns
    BY <1>0
  <2> QED BY <1>6, <2>1, EndKeeps DEF Deny
<1>7. CASE FetchSubs(c)
  <2>1. c \in authorized
    BY <1>0, <1>7 DEF FetchSubs
  <2>2. CASE Step(c, "restoreSubs")
    BY <1>1, <1>7, <2>1, <2>2 DEF FetchSubs, Stages
  <2>3. CASE StoreWill(c)
    BY <1>7, <2>3, StoreWillKeeps DEF FetchSubs
  <2>4. CASE Fail(c)
    BY <1>7, <2>4, FailKeeps DEF FetchSubs
  <2> QED BY <1>7, <2>2, <2>3, <2>4 DEF FetchSubs
<1>8. CASE RestoreSubs(c)
  <2>1. c \in authorized
    BY <1>0, <1>8 DEF RestoreSubs
  <2>2. CASE Step(c, "dropped")
    BY <1>1, <1>8, <2>1, <2>2 DEF RestoreSubs, Stages
  <2>3. CASE /\ Goto(c, "subscribing") /\ subscribed' = subscribed \cup {c}
             /\ UNCHANGED <<connecting, connected, flags, authorized, disconnected, wills,
                            registry, server>>
    BY <1>0, <1>8, <2>1, <2>3, QuietKeeps DEF RestoreSubs, Stages, Goto, wills, server
  <2>4. CASE StoreWill(c)
    BY <1>8, <2>4, StoreWillKeeps DEF RestoreSubs
  <2>5. CASE Fail(c)
    BY <1>8, <2>5, FailKeeps DEF RestoreSubs
  <2> QED BY <1>8, <2>2, <2>3, <2>4, <2>5 DEF RestoreSubs
<1>9. CASE Subscribing(c)
  BY <1>9, StoreWillKeeps, FailKeeps DEF Subscribing
<1>10. CASE DelWill(c)
  <2>1. CASE c \notin will
    BY <1>10, <2>1, RegisterKeeps DEF DelWill
  <2>2. CASE c \in will
    <3>1. /\ stored' = [stored EXCEPT ![IdOf[c]] = c]
          /\ stage[c] = "delWill" /\ stage' = [stage EXCEPT ![c] = "putWill"]
          /\ UNCHANGED <<connecting, connected, flags, session, stash, will, departing,
                         published, registry, server>>
      BY <1>10, <2>2 DEF DelWill, Goto
    <3>2. TypeOK'
      BY <3>1 DEF IInv, TypeOK, Stages, flags, session, registry, server
    <3>3. Staged'
      BY <1>0, <3>1 DEF IInv, TypeOK, Staged, flags, session
    <3>4. \A d \in Conns : stage[d] \in Late => stage'[d] \in Late
      BY <1>0, <3>1
    <3>5. Owned'
      BY <3>1, <3>4, OwnedStays DEF flags, session, registry
    <3>6. Counted'
      BY <3>1 DEF IInv, Counted, CountCovers, Registered, Injective, flags, registry
    <3>7. Willed'
      BY <2>2, <3>1, RegistryAssumption DEF IInv, TypeOK, Willed, flags, session
    <3> QED BY <3>2, <3>3, <3>5, <3>6, <3>7 DEF IInv
  <2> QED BY <2>1, <2>2
<1>11. CASE PutWill(c)
  BY <1>11, RegisterKeeps, FailKeeps DEF PutWill
<1>12. CASE Connack(c)
  <2>1. CASE stage[c] = "connack" /\ Step(c, "emptyQueue")
    BY <1>0, <1>1, <2>1 DEF Stages
  <2>2. CASE stage[c] \in {"connack", "unwritten"} /\ Fail(c)
    BY <2>2, FailKeeps
  <2> QED BY <1>12, <2>1, <2>2 DEF Connack
<1>13. CASE EmptyQueue(c)
  <2>1. CASE /\ Goto(c, "done") /\ connecting' = connecting \ {c}
             /\ connected' = connected \cup {c}
             /\ UNCHANGED <<flags, session, wills, registry, server>>
    BY <1>0, <1>13, <2>1, QuietKeeps DEF EmptyQueue, Stages, Goto, session, wills, server
  <2>2. CASE Fail(c)
    BY <1>13, <2>2, FailKeeps DEF EmptyQueue
  <2> QED BY <1>13, <2>1, <2>2 DEF EmptyQueue
<1> QED BY <1>2, <1>3, <1>4, <1>5, <1>6, <1>7, <1>8, <1>9, <1>10, <1>11, <1>12, <1>13
        DEF Chain

\* The steps of finish() with the will of its client.
LEMMA WillKeeps ==
  ASSUME IInv, NEW c \in Conns, AuthorizeWill(c) \/ PublishedWill(c)
  PROVE  IInv'
<1>1. UNCHANGED <<stage, connecting, connected, flags, session, stash, will, registry, server>>
  BY DEF AuthorizeWill, PublishedWill
<1>2. /\ departing \in [Conns -> {"no", "authorizing", "publishing"}]
      /\ published \in [Conns -> Nat] /\ stored \in [ClientIds -> Conns \cup {NoConn}]
  BY DEF IInv, TypeOK
<1>3. \/ /\ departing[c] = "authorizing" /\ departing' = [departing EXCEPT ![c] = "publishing"]
         /\ published' = [published EXCEPT ![c] = @ + 1] /\ stored' = stored
      \/ /\ departing' = [departing EXCEPT ![c] = "no"]
         /\ stored' = [stored EXCEPT ![IdOf[c]] = NoConn] /\ published' = published
  BY DEF AuthorizeWill, PublishedWill
<1>4. TypeOK'
  BY <1>1, <1>2, <1>3 DEF IInv, TypeOK, flags, session, registry, server
<1>5. Staged'
  BY <1>1 DEF IInv, Staged, flags, session
<1>6. Owned'
  BY <1>1, OwnedStays DEF flags, session, registry
<1>7. Counted'
  BY <1>1 DEF IInv, Counted, CountCovers, Registered, Injective, flags, registry
<1>8. Willed'
  <2>1. ASSUME NEW i \in ClientIds, stored'[i] # NoConn
        PROVE  IdOf[stored'[i]] = i /\ (stored'[i] \in will' \/ departing'[stored'[i]] # "no")
    <3>1. stored'[i] = stored[i] /\ stored[i] \in Conns
      BY <1>2, <1>3, <2>1
    <3>2. IdOf[stored[i]] = i /\ (stored[i] \in will \/ departing[stored[i]] # "no")
      BY <2>1, <3>1 DEF IInv, Willed
    <3>3. CASE stored[i] = c
      <4>1. IdOf[c] \in ClientIds
        BY RegistryAssumption
      <4> QED BY <1>1, <1>2, <1>3, <2>1, <3>1, <3>2, <3>3, <4>1
    <3>4. CASE stored[i] # c
      BY <1>1, <1>2, <1>3, <3>1, <3>2, <3>4
    <3> QED BY <3>3, <3>4
  <2>2. ASSUME NEW d \in Conns
        PROVE  /\ published'[d] <= 1
               /\ published'[d] = 1 => d \in finished' \ disconnected'
               /\ departing'[d] = "authorizing" =>
                    published'[d] = 0 /\ d \in finished' \ disconnected'
    <3>1. finished' = finished /\ disconnected' = disconnected
      BY <1>1 DEF flags, session
    <3>2. /\ published[d] \in Nat /\ published[d] <= 1
          /\ published[d] = 1 => d \in finished \ disconnected
          /\ departing[d] = "authorizing" =>
               published[d] = 0 /\ d \in finished \ disconnected
      BY <1>2 DEF IInv, Willed
    <3> QED BY <1>2, <1>3, <3>1, <3>2
  <2> QED BY <1>1, <2>1, <2>2 DEF IInv, Willed, flags
<1> QED BY <1>4, <1>5, <1>6, <1>7, <1>8 DEF IInv

\* A turn that moves no chain.
LEMMA StayMovesOn ==
  ASSUME IInv, UNCHANGED <<stage, session>>, broker' \in {"open", "closing", "closed"},
         awaited' \subseteq Conns
  PROVE  MovesOn
  BY DEF IInv, TypeOK, Staged, MovesOn, session

\* The end of a connection, by its socket or by finish().
LEMMA ClosingKeeps ==
  ASSUME IInv, NEW c \in Conns, SocketClose(c) \/ Finish(c)
  PROVE  IInv'
<1>1. /\ MovesOn /\ connecting \subseteq Conns /\ closed \subseteq Conns
      /\ next \in [Conns -> Conns \cup {NoConn}] /\ finished \subseteq closed
  BY StayMovesOn DEF SocketClose, Finish, IInv, TypeOK, Staged, server
<1>2. CASE SocketClose(c)
  BY <1>1, <1>2, CloseKeeps DEF SocketClose, Due
<1>3. CASE Finish(c)
  <2> DEFINE k == next[c]
  <2>1. /\ c \in closed \ finished /\ Leave({c}, k, connecting)
        /\ next' = [next EXCEPT ![c] = NoConn] /\ closed' = closed /\ stage' = stage
    BY <1>3 DEF Finish
  <2>2. Due(k)
    BY <1>1, <2>1 DEF IInv, Owned, Due
  <2>3. Injective => k = NoConn
    BY DEF IInv, Counted
  <2>4. /\ next' \in [Conns -> Conns \cup {NoConn}]
        /\ \A d \in Conns : next'[d] \in {next[d], NoConn}
    BY <1>1, <2>1
  <2> HIDE DEF k
  <2> QED BY <1>1, <2>1, <2>2, <2>3, <2>4, LeaveKeeps
<1> QED BY <1>2, <1>3

\* closeSameClients, whether it finds an open client or a closed one.
LEMMA CloseSameClientsKeeps ==
  ASSUME IInv, NEW i \in ClientIds, CloseSameClients(i)
  PROVE  IInv'
<1>1. /\ clients[i] \in Conns /\ UNCHANGED <<stage, session, server>>
      /\ connecting \subseteq Conns /\ MovesOn
  BY StayMovesOn DEF CloseSameClients, IInv, TypeOK, server
<1>2. CASE clients[i] \notin closed
  <2>1. Close(clients[i], NoConn, connecting)
    BY <1>2 DEF CloseSameClients
  <2> QED BY <1>1, <2>1, CloseKeeps DEF Due
<1>3. CASE clients[i] \in closed
  <2>1. /\ clients' = [clients EXCEPT ![i] = NoConn]
        /\ connectedClients' = connectedClients - 1
        /\ UNCHANGED <<connecting, connected, flags, wills>>
    BY <1>3 DEF CloseSameClients
  <2>2. TypeOK'
    BY <1>1, <2>1 DEF IInv, TypeOK, flags, session, wills, server
  <2>3. Staged'
    BY <1>1, <2>1 DEF IInv, Staged, flags, session, wills
  <2>4. Owned'
    BY <1>1, <2>1 DEF IInv, TypeOK, Owned, flags, session
  <2>5. Willed'
    BY <1>1, <2>1 DEF IInv, Willed, flags, session, wills
  <2>6. Counted'
    <3> DEFINE R == Registered
               N == Registered'
    <3>1. N = R \ {i} /\ i \in R
      BY <1>1, <2>1, RegistryAssumption DEF IInv, TypeOK, Registered
    <3>2. IsFiniteSet(R)
      BY FS_Subset, RegistryAssumption DEF Registered
    <3> HIDE DEF R, N
    <3>3. Cardinality(N) = Cardinality(R) - 1 /\ Cardinality(R) \in Nat
      BY <3>1, <3>2, FS_RemoveElement, FS_CardinalityType
    <3>4. Cardinality(Registered') = Cardinality(Registered) - 1 /\ Cardinality(Registered) \in Nat
      BY <3>3 DEF R, N
    <3>5. connectedClients \in Int
      BY DEF IInv, TypeOK
    <3>6. CountCovers'
      BY <2>1, <3>4, <3>5 DEF IInv, Counted, CountCovers
    <3>7. Injective => /\ connectedClients' = Cardinality(Registered')
                       /\ \A d \in Conns : next'[d] = NoConn
      BY <2>1, <3>4, <3>5 DEF IInv, Counted, flags
    <3> QED BY <3>6, <3>7 DEF Counted, Injective
  <2> QED BY <2>2, <2>3, <2>4, <2>5, <2>6 DEF IInv
<1> QED BY <1>2, <1>3

\* broker.close() finishes clients in one turn, and leaves the others to Finish.
LEMMA BrokerCloseKeeps ==
  ASSUME IInv, BrokerClose
  PROVE  IInv'
<1> DEFINE open == {clients[i] : i \in Registered} \ closed
           later == open \cap subscribed
           W == open \ later
<1>1. /\ broker' = "closing" /\ awaited' = later /\ closed' = closed \cup open
      /\ Leave(W, NoConn, connecting) /\ UNCHANGED <<stage, next, session>>
  BY DEF BrokerClose
<1>2. open \subseteq Conns
  BY DEF IInv, TypeOK, Registered
<1>3. W \subseteq Conns \ finished /\ later \subseteq Conns /\ W \subseteq open
  BY <1>2 DEF IInv, Staged
<1> HIDE DEF open, later, W
<1>4. MovesOn
  BY <1>1, <1>3, StayMovesOn
<1>5. /\ connecting \subseteq Conns /\ closed \subseteq Conns
      /\ next \in [Conns -> Conns \cup {NoConn}]
  BY DEF IInv, TypeOK
<1>6. closed' \subseteq Conns /\ closed \cup W \subseteq closed'
  BY <1>1, <1>2, <1>3, <1>5
<1>7. Due(NoConn)
  BY DEF Due
<1> QED BY <1>1, <1>3, <1>4, <1>5, <1>6, <1>7, LeaveKeeps

-----------------------------------------------------------------------------
\* Nothing is connected, registered or stored at first.
LEMMA InitEstablishes == Init => IInv
<1> SUFFICES ASSUME Init PROVE IInv
  OBVIOUS
<1>1. TypeOK /\ Staged /\ Owned /\ Willed
  BY DEF Init, TypeOK, Stages, Staged, Admitted, Owned, Willed
<1>2. Registered = {} /\ Cardinality({}) = 0
  BY FS_EmptySet DEF Init, Registered
<1>3. Counted
  BY <1>2 DEF Init, Counted, CountCovers
<1> QED BY <1>1, <1>3 DEF IInv

\* Every step keeps the invariant.
LEMMA NextKeeps == IInv /\ [Next]_vars => IInv'
<1> SUFFICES ASSUME IInv, [Next]_vars PROVE IInv'
  OBVIOUS
<1>0. /\ stage \in [Conns -> Stages] /\ connecting \subseteq Conns /\ connected \subseteq Conns
      /\ authorized \subseteq Conns /\ disconnected \subseteq Conns
      /\ subscribed \subseteq Conns /\ stash \subseteq Conns /\ finished \subseteq closed
      /\ broker \in {"open", "closing", "closed"} /\ awaited \subseteq Conns
      /\ \A d \in Conns : stage[d] \in Admitted => d \in authorized
      /\ \A d \in stash \cap finished : stage[d] \in {"authenticate", "dropped"}
  BY DEF IInv, TypeOK, Staged
<1>1. ASSUME NEW c \in Conns, Connect(c) PROVE IInv'
  <2>1. /\ stage[c] = "idle" /\ stage' = [stage EXCEPT ![c] = "preConnect"]
        /\ connecting' = connecting \cup {c}
        /\ UNCHANGED <<connected, flags, session, wills, registry, server>>
    BY <1>1 DEF Connect, Goto
  <2> QED BY <1>0, <2>1, QuietKeeps DEF Stages, Late, Admitted, session, wills, server
<1>2. ASSUME NEW c \in Conns, Disconnect(c) \/ Subscribe(c) \/ Unsubscribe(c) PROVE IInv'
  <2>1. /\ UNCHANGED <<stage, connecting, connected, flags, authorized, wills, registry, server>>
        /\ disconnected' \subseteq Conns /\ disconnected' \cap finished \subseteq disconnected
        /\ subscribed' \subseteq Conns
    BY <1>0, <1>2 DEF Disconnect, Subscribe, Unsubscribe, Listening
  <2> QED BY <1>0, <2>1, QuietKeeps DEF wills, server
<1>3. CASE BrokerClosed
  <2>1. /\ broker' = "closed"
        /\ UNCHANGED <<stage, connecting, connected, flags, session, wills, registry, awaited>>
    BY <1>3 DEF BrokerClosed
  <2> QED BY <1>0, <2>1, QuietKeeps DEF session, wills
<1>4. CASE UNCHANGED vars
  BY <1>0, <1>4, QuietKeeps DEF vars, session, wills, server
<1>5. ASSUME NEW c \in Conns, Ending(c) PROVE IInv'
  BY <1>5, ClosingKeeps, WillKeeps DEF Ending
<1> QED BY <1>1, <1>2, <1>3, <1>4, <1>5, ChainKeeps, ClosingKeeps, CloseSameClientsKeeps,
           BrokerCloseKeeps DEF Next

\* The invariant holds in every reachable state.
LEMMA Invariant == Safe => []IInv
  BY InitEstablishes, NextKeeps, PTL DEF Safe

\* Whatever the number of connections and identifiers: types, and no will stays
\* in persistence when its client is gone (connect.js:194-213, client.js:358-386).
THEOREM NoOrphanSafe == Safe => [](TypeOK /\ NoOrphanWill)
  BY Invariant, InvariantSuffices, PTL

\* Whichever connections share an identifier, the count of clients covers the
\* registered ones, and equals them while no identifier is shared
\* (aedes.js:236-270, client.js:390).
THEOREM CountSafe == Safe => [](CountCovers /\ CountExact)
  BY Invariant, InvariantSuffices, PTL

\* Whatever the number of connections, a will is published at most once, and
\* never after a DISCONNECT (client.js:358-386).
THEOREM PublishedOnceSafe == Safe => []WillPublishedOnce
  BY Invariant, InvariantSuffices, PTL

-----------------------------------------------------------------------------
(***************************************************************************)
(* The will of a client that nobody disturbs.  WillStoredUndisturbed says  *)
(* something of quiet states only; what is inductive is that the will of a *)
(* client whose identifier no other authorized connection has is stored,   *)
(* but for the time its own chain is about to store it.                    *)
(***************************************************************************)
Alone(c) == \A d \in authorized \ {c} : IdOf[d] # IdOf[c]

Promised ==
  /\ will \subseteq authorized
  /\ \A c \in Conns : departing[c] # "no" => c \in authorized \cap finished
  /\ \A c \in will : Alone(c) => stored[IdOf[c]] = c \/ stage[c] = "delWill"

\* A turn that leaves the wills alone, and moves no chain on from delWill whose
\* client still has its will.
LEMMA QuietPromises ==
  ASSUME IInv, Promised, UNCHANGED wills, finished \subseteq finished',
         authorized \subseteq authorized',
         \A c \in will : stage[c] = "delWill" => stage'[c] = "delWill"
  PROVE  Promised'
<1>1. will' = will /\ departing' = departing /\ stored' = stored
  BY DEF wills
<1>2. ASSUME NEW c \in will, Alone(c)' PROVE stored'[IdOf[c]] = c \/ stage'[c] = "delWill"
  <2>1. Alone(c)
    BY <1>2 DEF Alone
  <2> QED BY <1>1, <2>1 DEF Promised
<1> QED BY <1>1, <1>2 DEF Promised

\* finish(): the deletions name identifiers of authorized clients.
LEMMA LeavePromises ==
  ASSUME IInv, Promised, NEW STATE W, W \subseteq Conns, LeaveWills(W),
         finished' = finished \cup W, authorized' = authorized,
         \A c \in will \ W : stage[c] = "delWill" => stage'[c] = "delWill"
  PROVE  Promised'
<1> DEFINE kept == W \cap will \cap disconnected
           due  == (W \cap will) \ disconnected
<1>1. /\ stored' = [i \in ClientIds |-> IF i \in IdsOf(kept) THEN NoConn ELSE stored[i]]
      /\ departing' = [c \in Conns |-> IF c \in due THEN "authorizing" ELSE departing[c]]
      /\ will' = will \ W
  BY DEF LeaveWills
<1>2. will' \subseteq authorized' /\ due \subseteq authorized \cap W /\ kept \subseteq authorized
  BY <1>1 DEF Promised
<1>3. ASSUME NEW c \in Conns, departing'[c] # "no" PROVE c \in authorized' \cap finished'
  BY <1>1, <1>2, <1>3 DEF Promised
<1>4. ASSUME NEW c \in will', Alone(c)' PROVE stored'[IdOf[c]] = c \/ stage'[c] = "delWill"
  <2>1. c \in will \ W /\ c \in Conns /\ Alone(c) /\ IdOf[c] \in ClientIds
    BY <1>1, <1>4, RegistryAssumption DEF Alone, IInv, TypeOK
  <2>2. IdOf[c] \notin IdsOf(kept)
    BY <1>2, <2>1 DEF Alone, IdsOf
  <2>3. stored'[IdOf[c]] = stored[IdOf[c]]
    BY <1>1, <2>1, <2>2
  <2> QED BY <2>1, <2>3 DEF Promised
<1> QED BY <1>2, <1>3, <1>4 DEF Promised

\* close(), whether it finishes the client or not.
LEMMA ClosePromises ==
  ASSUME IInv, Promised, NEW c \in Conns, NEW STATE k, NEW STATE ing, Close(c, k, ing),
         authorized' = authorized,
         \A d \in will : stage[d] = "delWill" => stage'[d] = "delWill"
  PROVE  Promised'
<1>1. CASE c \in closed
  BY <1>1, LeavePromises DEF Close, Leave
<1>2. CASE c \notin closed /\ c \in subscribed
  BY <1>2, QuietPromises DEF Close
<1>3. CASE c \notin closed /\ c \notin subscribed
  BY <1>3, LeavePromises DEF Close, Leave
<1> QED BY <1>1, <1>2, <1>3

\* A move of a chain that is not waiting for delWill, or has no will left.
LEMMA GotoWaits ==
  ASSUME IInv, NEW c \in Conns, NEW STATE s, Goto(c, s), stage[c] # "delWill" \/ c \notin will
  PROVE  \A d \in will : stage[d] = "delWill" => stage'[d] = "delWill"
<1>1. stage \in [Conns -> Stages] /\ will \subseteq Conns
  BY DEF IInv, TypeOK
<1> QED BY <1>1 DEF Goto

\* registerClient.
LEMMA RegisterPromises ==
  ASSUME IInv, Promised, NEW c \in Conns, Register(c), stage[c] # "delWill" \/ c \notin will
  PROVE  Promised'
<1>1. /\ \E s \in {"connack", "unwritten"} : Goto(c, s)
      /\ authorized' = authorized
  BY DEF Register, session
<1>2. \A d \in will : stage[d] = "delWill" => stage'[d] = "delWill"
  BY <1>1, GotoWaits
<1>3. CASE clients[IdOf[c]] = NoConn
  <2>1. Leave({}, c, connecting)
    BY <1>3 DEF Register
  <2> QED BY <1>1, <1>2, <2>1, LeavePromises DEF Leave
<1>4. CASE clients[IdOf[c]] # NoConn
  <2>1. Close(clients[IdOf[c]], c, connecting) /\ clients[IdOf[c]] \in Conns
    BY <1>4, RegistryAssumption DEF Register, IInv, TypeOK
  <2> QED BY <1>1, <1>2, <2>1, ClosePromises
<1> QED BY <1>3, <1>4

\* storeWill and delWill's answer concern one client.  What they change of
\* another one's stored will has the same identifier, and both are authorized.
LEMMA StorePromises ==
  ASSUME IInv, Promised, NEW c \in Conns, stage[c] \in Admitted,
         StoreWill(c) \/ (DelWill(c) /\ c \in will)
  PROVE  Promised'
<1>1. /\ c \in authorized /\ stage \in [Conns -> Stages]
      /\ stored \in [ClientIds -> Conns \cup {NoConn}] /\ will \subseteq Conns
      /\ IdOf[c] \in ClientIds
  BY RegistryAssumption DEF IInv, TypeOK, Staged
<1>2. /\ will \subseteq will' /\ will' \subseteq will \cup {c} /\ departing' = departing
      /\ \E x \in {c, NoConn} : stored' = [stored EXCEPT ![IdOf[c]] = x]
      /\ authorized' = authorized /\ finished' = finished
      /\ stored'[IdOf[c]] = c \/ stage'[c] = "delWill"
      /\ \A d \in Conns \ {c} : stage'[d] = stage[d]
  BY <1>1 DEF StoreWill, DelWill, Goto, session, flags
<1>3. ASSUME NEW d \in will', Alone(d)' PROVE stored'[IdOf[d]] = d \/ stage'[d] = "delWill"
  <2>1. CASE d = c
    BY <1>2, <2>1
  <2>2. CASE d # c
    <3>1. d \in will /\ d \in Conns /\ Alone(d) /\ IdOf[d] # IdOf[c] /\ IdOf[d] \in ClientIds
      BY <1>1, <1>2, <1>3, <2>2, RegistryAssumption DEF Alone
    <3>2. stored'[IdOf[d]] = stored[IdOf[d]]
      BY <1>1, <1>2, <3>1
    <3> QED BY <1>2, <2>2, <3>1, <3>2 DEF Promised
  <2> QED BY <2>1, <2>2
<1> QED BY <1>1, <1>2, <1>3 DEF Promised

\* The end of a will deletes the one its identifier has: a departing client is
\* authorized, and finished.
LEMMA WillEndPromises ==
  ASSUME IInv, Promised, NEW c \in Conns, AuthorizeWill(c) \/ PublishedWill(c)
  PROVE  Promised'
<1>1. /\ departing \in [Conns -> {"no", "authorizing", "publishing"}]
      /\ stored \in [ClientIds -> Conns \cup {NoConn}] /\ will \subseteq Conns
      /\ IdOf[c] \in ClientIds
  BY RegistryAssumption DEF IInv, TypeOK
<1>2. departing[c] # "no"
  BY DEF AuthorizeWill, PublishedWill
<1>3. c \in authorized /\ c \in finished /\ c \notin will
  BY <1>2 DEF Promised, IInv, Willed
<1>4. /\ will' = will /\ stage' = stage /\ authorized' = authorized /\ finished' = finished
      /\ \E s \in {"no", "publishing"} : departing' = [departing EXCEPT ![c] = s]
      /\ stored' = stored \/ stored' = [stored EXCEPT ![IdOf[c]] = NoConn]
  BY DEF AuthorizeWill, PublishedWill, session, flags
<1>5. ASSUME NEW d \in will', Alone(d)' PROVE stored'[IdOf[d]] = d \/ stage'[d] = "delWill"
  <2>1. d \in will /\ d \in Conns /\ Alone(d) /\ d # c
    BY <1>1, <1>3, <1>4, <1>5 DEF Alone
  <2>2. IdOf[d] # IdOf[c] /\ IdOf[d] \in ClientIds
    BY <1>3, <2>1, RegistryAssumption DEF Alone
  <2>3. stored'[IdOf[d]] = stored[IdOf[d]]
    BY <1>1, <1>4, <2>2
  <2> QED BY <1>4, <2>1, <2>3 DEF Promised
<1>6. ASSUME NEW d \in Conns, departing'[d] # "no" PROVE d \in authorized' \cap finished'
  BY <1>1, <1>2, <1>4, <1>6 DEF Promised
<1> QED BY <1>4, <1>5, <1>6 DEF Promised

\* The steps of a chain.
LEMMA ChainPromises ==
  ASSUME IInv, Promised, NEW c \in Conns, Chain(c)
  PROVE  Promised'
<1>1. ASSUME NEW STATE s, Goto(c, s), UNCHANGED <<wills, finished>>, authorized \subseteq authorized',
             stage[c] # "delWill"
      PROVE  Promised'
  BY <1>1, GotoWaits, QuietPromises
<1>2. ASSUME NEW STATE s, Step(c, s), stage[c] # "delWill" PROVE Promised'
  BY <1>1, <1>2 DEF Step, session, flags
<1>3. ASSUME NEW STATE ing, Goto(c, "done"), Close(c, NoConn, ing), UNCHANGED session,
             stage[c] # "delWill"
      PROVE  Promised'
  BY <1>3, GotoWaits, ClosePromises DEF session
<1>4. ASSUME Fail(c), stage[c] # "delWill" PROVE Promised'
  BY <1>3, <1>4 DEF Fail
<1>5. ASSUME StoreWill(c), stage[c] \in Admitted PROVE Promised'
  BY <1>5, StorePromises
<1>6. CASE PreConnect(c)
  BY <1>1, <1>2, <1>4, <1>6 DEF PreConnect, session, flags
<1>7. CASE InitConnect(c)
  <2>1. CASE Step(c, "refused")
    BY <1>2, <1>7, <2>1 DEF InitConnect
  <2>2. CASE /\ Goto(c, "authenticate")
             /\ UNCHANGED <<flags, session, will, departing, published, stored>>
    <3>1. will' = will /\ departing' = departing /\ stored' = stored
          /\ finished' = finished /\ authorized' = authorized
      BY <2>2 DEF flags, session
    <3>2. \A d \in will : stage[d] = "delWill" => stage'[d] = "delWill"
      BY <1>7, <2>2, GotoWaits DEF InitConnect
    <3> QED BY <3>1, <3>2 DEF Promised, Alone
  <2> QED BY <1>7, <2>1, <2>2 DEF InitConnect
<1>8. CASE Refuse(c) \/ Deny(c)
  BY <1>3, <1>8 DEF Refuse, Deny
<1>9. CASE Authenticate(c)
  BY <1>1, <1>2, <1>9 DEF Authenticate, flags
<1>10. CASE FetchSubs(c) \/ Subscribing(c)
  BY <1>2, <1>4, <1>5, <1>10 DEF FetchSubs, Subscribing, Admitted
<1>11. CASE RestoreSubs(c)
  BY <1>1, <1>2, <1>4, <1>5, <1>11 DEF RestoreSubs, Admitted, flags
<1>12. CASE DelWill(c)
  <2>1. CASE c \in will
    BY <1>12, <2>1, StorePromises DEF DelWill, Admitted
  <2>2. CASE c \notin will
    BY <1>12, <2>2, RegisterPromises DEF DelWill
  <2> QED BY <2>1, <2>2
<1>13. CASE PutWill(c)
  BY <1>4, <1>13, RegisterPromises DEF PutWill
<1>14. CASE Connack(c)
  BY <1>2, <1>4, <1>14 DEF Connack
<1>15. CASE EmptyQueue(c)
  BY <1>1, <1>4, <1>15 DEF EmptyQueue, flags, session
<1> QED BY <1>6, <1>7, <1>8, <1>9, <1>10, <1>11, <1>12, <1>13, <1>14, <1>15 DEF Chain

\* Every step keeps the promise.
LEMMA NextPromises ==
  ASSUME IInv, Promised, [Next]_vars
  PROVE  Promised'
<1>1. ASSUME UNCHANGED <<wills, authorized>>, finished' = finished,
             \A d \in will : stage[d] = "delWill" => stage'[d] = "delWill"
      PROVE  Promised'
  BY <1>1, QuietPromises
<1>2. ASSUME NEW c \in Conns, Connect(c) PROVE Promised'
  <2>1. stage[c] # "delWill" /\ Goto(c, "preConnect")
    BY <1>2 DEF Connect
  <2> QED BY <1>1, <1>2, <2>1, GotoWaits DEF Connect, flags, session
<1>3. ASSUME NEW c \in Conns, Disconnect(c) \/ Subscribe(c) \/ Unsubscribe(c) PROVE Promised'
  BY <1>1, <1>3 DEF Disconnect, Subscribe, Unsubscribe, flags
<1>4. ASSUME NEW c \in Conns, SocketClose(c) PROVE Promised'
  BY <1>4, ClosePromises DEF SocketClose, session
<1>5. ASSUME NEW c \in Conns, Ending(c) PROVE Promised'
  <2>1. CASE Finish(c)
    BY <2>1, LeavePromises DEF Finish, Leave, session
  <2> QED BY <1>5, <2>1, WillEndPromises DEF Ending
<1>6. ASSUME NEW i \in ClientIds, CloseSameClients(i) PROVE Promised'
  <2>1. clients[i] \in Conns /\ stage' = stage /\ authorized' = authorized
    BY <1>6 DEF CloseSameClients, IInv, TypeOK, session
  <2>2. CASE clients[i] \in closed
    BY <1>1, <1>6, <2>1, <2>2 DEF CloseSameClients, flags
  <2>3. CASE clients[i] \notin closed
    BY <1>6, <2>1, <2>3, ClosePromises DEF CloseSameClients
  <2> QED BY <2>2, <2>3
<1>7. CASE BrokerClose
  <2> DEFINE open == {clients[i] : i \in Registered} \ closed
             W == open \ (open \cap subscribed)
  <2>1. Leave(W, NoConn, connecting) /\ stage' = stage /\ authorized' = authorized
    BY <1>7 DEF BrokerClose, session
  <2>2. W \subseteq Conns
    BY DEF IInv, TypeOK, Registered
  <2> HIDE DEF W
  <2> QED BY <2>1, <2>2, LeavePromises DEF Leave
<1>8. CASE BrokerClosed \/ UNCHANGED vars
  BY <1>1, <1>8 DEF BrokerClosed, vars, flags, session
<1> QED BY <1>2, <1>3, <1>4, <1>5, <1>6, <1>7, <1>8, ChainPromises DEF Next

\* Whatever the number of connections, the will of a connected client is in
\* persistence whenever nothing is under way, unless another connection was
\* authorized with its identifier (connect.js:194-213, client.js:358-386).
THEOREM WillStoredSafe == Safe => []WillStoredUndisturbed
<1>1. Init => Promised
  BY DEF Init, Promised
<1>2. IInv /\ Promised => WillStoredUndisturbed
  <2> SUFFICES ASSUME IInv, Promised, \A c \in Conns : Settled(c),
                      NEW c \in (connected \cap will) \ closed
               PROVE  \/ stored[IdOf[c]] = c
                      \/ \E d \in authorized \ {c} : IdOf[d] = IdOf[c]
    BY DEF WillStoredUndisturbed
  <2>1. stage[c] # "delWill"
    BY DEF IInv, TypeOK, Settled
  <2> QED BY <2>1 DEF Promised, Alone
<1> QED BY <1>1, <1>2, Invariant, NextPromises, PTL DEF Safe

-----------------------------------------------------------------------------
\* A client that is closed and not authorized is neither registered nor waiting
\* to be, and stays so.
Barred(c) == c \in closed \ authorized
Absent(c) == clients[IdOf[c]] # c /\ \A d \in Conns : next[d] # c

\* Registration is for authorized clients.
LEMMA BarredIsAbsent ==
  ASSUME IInv, NEW c \in Conns, Barred(c)
  PROVE  Absent(c)
<1>1. IdOf[c] \in ClientIds /\ c # NoConn
  BY RegistryAssumption
<1> QED BY <1>1 DEF IInv, Owned, Barred, Absent

\* closed never shrinks, and authorize comes to open clients only.
LEMMA BarredStays ==
  ASSUME NEW c \in Conns, Barred(c), [Next]_vars
  PROVE  Barred(c)'
<1>1. ASSUME NEW d \in Conns, NEW STATE k, NEW STATE ing, Close(d, k, ing)
      PROVE  closed \subseteq closed'
  BY <1>1 DEF Close
<1>2. SUFFICES closed \subseteq closed' /\ authorized' \subseteq authorized \cup (Conns \ closed)
  BY DEF Barred
<1>3. ASSUME NEW d \in Conns, Fail(d) PROVE closed \subseteq closed' /\ authorized' = authorized
  BY <1>1, <1>3 DEF Fail, session
<1>4. ASSUME NEW d \in Conns, Register(d)
      PROVE  closed \subseteq closed' /\ authorized' = authorized
  <2>1. authorized' = authorized
    BY <1>4 DEF Register, session
  <2>2. CASE clients[IdOf[d]] = NoConn
    BY <1>4, <2>1, <2>2 DEF Register
  <2>3. CASE clients[IdOf[d]] # NoConn
    BY <1>4, <2>1, <2>3 DEF Register, Close
  <2> QED BY <2>2, <2>3
<1>5. ASSUME NEW d \in Conns, NEW STATE s, Step(d, s) \/ StoreWill(d)
      PROVE  closed' = closed /\ authorized' = authorized
  BY <1>5 DEF Step, StoreWill, flags, session
<1>6. ASSUME NEW d \in Conns, Chain(d)
      PROVE  closed \subseteq closed' /\ authorized' \subseteq authorized \cup (Conns \ closed)
  <2>1. CASE PreConnect(d) \/ InitConnect(d)
    BY <1>3, <1>5, <2>1 DEF PreConnect, InitConnect, flags, session
  <2>2. CASE Refuse(d) \/ Deny(d)
    BY <1>1, <2>2 DEF Refuse, Deny, session
  <2>3. CASE Authenticate(d)
    BY <1>5, <2>3 DEF Authenticate, flags
  <2>4. CASE FetchSubs(d) \/ Subscribing(d)
    BY <1>3, <1>5, <2>4 DEF FetchSubs, Subscribing
  <2>5. CASE RestoreSubs(d)
    BY <1>3, <1>5, <2>5 DEF RestoreSubs, flags
  <2>6. CASE DelWill(d) \/ PutWill(d)
    BY <1>3, <1>4, <2>6 DEF DelWill, PutWill, flags, session
  <2>7. CASE Connack(d) \/ EmptyQueue(d)
    BY <1>3, <1>5, <2>7 DEF Connack, EmptyQueue, flags, session
  <2> QED BY <1>6, <2>1, <2>2, <2>3, <2>4, <2>5, <2>6, <2>7 DEF Chain
<1>7. ASSUME NEW d \in Conns,
             Connect(d) \/ Disconnect(d) \/ Subscribe(d) \/ Unsubscribe(d) \/ Ending(d)
      PROVE  closed' = closed /\ authorized' = authorized
  BY <1>7 DEF Connect, Disconnect, Subscribe, Unsubscribe, Ending, Finish, AuthorizeWill,
              PublishedWill, flags, session
<1>8. ASSUME NEW d \in Conns, SocketClose(d)
      PROVE  closed \subseteq closed' /\ authorized' = authorized
  BY <1>1, <1>8 DEF SocketClose, session
<1>9. ASSUME NEW i \in ClientIds, CloseSameClients(i)
      PROVE  closed \subseteq closed' /\ authorized' = authorized
  BY <1>9 DEF CloseSameClients, Close, flags, session
<1>10. CASE BrokerClose \/ BrokerClosed
  BY <1>10 DEF BrokerClose, BrokerClosed, flags, session
<1>11. CASE UNCHANGED vars
  BY <1>11 DEF vars, flags, session
<1> QED BY <1>6, <1>7, <1>8, <1>9, <1>10, <1>11 DEF Next

\* Whatever the number of connections: a client that closes before it has been
\* authenticated is never registered, and never waits to be (connect.js:114-119).
THEOREM ClosedEarlySafe == Safe => ClosedEarlyStaysOut
<1>1. ASSUME NEW c \in Conns
      PROVE  Safe => [](c \in closed \ authorized =>
                          [](clients[IdOf[c]] # c /\ \A d \in Conns : next[d] # c))
  <2>1. IInv /\ Barred(c) => Absent(c)
    BY BarredIsAbsent
  <2>2. Barred(c) /\ [Next]_vars => Barred(c)'
    BY BarredStays
  <2>3. Barred(c) <=> c \in closed \ authorized
    BY DEF Barred
  <2>4. Absent(c) <=> clients[IdOf[c]] # c /\ \A d \in Conns : next[d] # c
    BY DEF Absent
  <2> QED BY Invariant, <2>1, <2>2, <2>3, <2>4, PTL DEF Safe
<1> QED BY <1>1 DEF ClosedEarlyStaysOut

-----------------------------------------------------------------------------
\* What a takeover and broker.close() rely on.  A registration waits at a closed
\* client of its own identifier whose finish() is still to come, and what
\* broker.close() awaits has been closed.
Waiting ==
  /\ \A d \in Conns : next[d] # NoConn =>
       d \in closed \ finished /\ IdOf[d] = IdOf[next[d]]
  /\ awaited \subseteq closed

\* A step drops no registration that waits: it waits on, or it is carried out
\* in the turn in which the older client finishes.
Honoured ==
  \A d \in Conns : next[d] # NoConn =>
    \/ next'[d] = next[d]
    \/ d \in finished' /\ next'[d] = NoConn /\ clients'[IdOf[d]] = next[d]

\* A turn that finishes nobody.
LEMMA QuietWaits ==
  ASSUME Waiting, next' = next, finished' = finished, closed \subseteq closed',
         awaited' = awaited
  PROVE  Waiting' /\ Honoured
  BY DEF Waiting, Honoured

\* close(done): a client that is still open keeps nobody waiting, so what it is
\* asked to finish replaces nothing.
LEMMA CloseWaits ==
  ASSUME IInv, Waiting, NEW c \in Conns, NEW STATE k, k = NoConn \/ IdOf[c] = IdOf[k],
         NEW STATE ing, Close(c, k, ing), awaited' = awaited
  PROVE  Waiting' /\ Honoured
<1>0. next \in [Conns -> Conns \cup {NoConn}] /\ finished \subseteq closed
  BY DEF IInv, TypeOK, Staged
<1>1. CASE c \in closed
  <2>1. closed' = closed /\ next' = next /\ finished' = finished
    BY <1>1 DEF Close, Leave
  <2> QED BY <2>1, QuietWaits
<1>2. CASE c \notin closed /\ c \in subscribed
  <2>1. closed' = closed \cup {c} /\ next' = [next EXCEPT ![c] = k] /\ finished' = finished
    BY <1>2 DEF Close
  <2>2. next[c] = NoConn
    BY <1>2 DEF Waiting
  <2>3. c \notin finished
    BY <1>0, <1>2
  <2>4. Waiting'
    BY <1>0, <2>1, <2>3 DEF Waiting
  <2>5. Honoured
    BY <1>0, <2>1, <2>2 DEF Honoured
  <2> QED BY <2>4, <2>5
<1>3. CASE c \notin closed /\ c \notin subscribed
  <2>1. closed' = closed \cup {c} /\ next' = next /\ finished' = finished \cup {c}
    BY <1>3 DEF Close, Leave
  <2>2. next[c] = NoConn
    BY <1>3 DEF Waiting
  <2>3. Waiting'
    BY <2>1, <2>2 DEF Waiting
  <2>4. Honoured
    BY <2>1 DEF Honoured
  <2> QED BY <2>3, <2>4
<1> QED BY <1>1, <1>2, <1>3

\* registerClient waits for a client of its own identifier only.
LEMMA RegisterWaits ==
  ASSUME IInv, Waiting, NEW c \in Conns, Register(c)
  PROVE  Waiting' /\ Honoured
<1>1. awaited' = awaited /\ IdOf[c] \in ClientIds
  BY RegistryAssumption DEF Register, server
<1>2. CASE clients[IdOf[c]] = NoConn
  <2>1. closed' = closed /\ next' = next /\ finished' = finished
    BY <1>2 DEF Register, Leave
  <2> QED BY <1>1, <2>1, QuietWaits
<1>3. CASE clients[IdOf[c]] # NoConn
  <2> DEFINE old == clients[IdOf[c]]
  <2>1. old \in Conns /\ IdOf[old] = IdOf[c] /\ Close(old, c, connecting)
    BY <1>1, <1>3 DEF Register, IInv, TypeOK, Owned
  <2> HIDE DEF old
  <2> QED BY <1>1, <2>1, CloseWaits
<1> QED BY <1>2, <1>3

\* finish(): the registration that waited is carried out.
LEMMA FinishWaits ==
  ASSUME IInv, Waiting, NEW c \in Conns, Finish(c)
  PROVE  Waiting' /\ Honoured
<1>1. /\ next' = [next EXCEPT ![c] = NoConn] /\ finished' = finished \cup {c}
      /\ closed' = closed /\ awaited' = awaited
      /\ UpdateRegistry({c}, next[c])
  BY DEF Finish, Leave, server
<1>2. next \in [Conns -> Conns \cup {NoConn}] /\ IdOf[c] \in ClientIds
  BY RegistryAssumption DEF IInv, TypeOK
<1>3. next[c] # NoConn => clients'[IdOf[c]] = next[c]
  <2>1. SUFFICES ASSUME next[c] # NoConn PROVE clients'[IdOf[c]] = next[c]
    OBVIOUS
  <2>2. IdOf[c] = IdOf[next[c]]
    BY <2>1 DEF Waiting
  <2> QED BY <1>1, <1>2, <2>1, <2>2 DEF UpdateRegistry
<1>4. Waiting'
  BY <1>1, <1>2 DEF Waiting
<1>5. Honoured
  BY <1>1, <1>2, <1>3 DEF Honoured
<1> QED BY <1>4, <1>5

\* The steps of a chain.
LEMMA ChainWaits ==
  ASSUME IInv, Waiting, NEW c \in Conns, Chain(c)
  PROVE  Waiting' /\ Honoured
<1>1. ASSUME UNCHANGED <<flags, server>> PROVE Waiting' /\ Honoured
  BY <1>1, QuietWaits DEF flags, server
<1>2. ASSUME NEW s \in Stages, Step(c, s) PROVE Waiting' /\ Honoured
  BY <1>1, <1>2 DEF Step
<1>3. ASSUME NEW STATE ing, Close(c, NoConn, ing), UNCHANGED server
      PROVE  Waiting' /\ Honoured
  BY <1>3, CloseWaits DEF server
<1>4. ASSUME Fail(c) PROVE Waiting' /\ Honoured
  BY <1>3, <1>4 DEF Fail
<1>5. ASSUME StoreWill(c) PROVE Waiting' /\ Honoured
  BY <1>1, <1>5 DEF StoreWill
<1>6. CASE PreConnect(c) \/ InitConnect(c)
  BY <1>1, <1>4, <1>6 DEF PreConnect, InitConnect, Step
<1>7. CASE Refuse(c) \/ Deny(c)
  BY <1>3, <1>7 DEF Refuse, Deny
<1>8. CASE Authenticate(c)
  BY <1>1, <1>8 DEF Authenticate, Step
<1>9. CASE FetchSubs(c) \/ RestoreSubs(c) \/ Subscribing(c)
  BY <1>1, <1>4, <1>5, <1>9 DEF FetchSubs, RestoreSubs, Subscribing, Step
<1>10. CASE DelWill(c) \/ PutWill(c)
  BY <1>1, <1>4, <1>10, RegisterWaits DEF DelWill, PutWill
<1>11. CASE Connack(c) \/ EmptyQueue(c)
  BY <1>1, <1>4, <1>11 DEF Connack, EmptyQueue, Step
<1> QED BY <1>6, <1>7, <1>8, <1>9, <1>10, <1>11 DEF Chain

\* Every step, those of the sockets, the packets and the broker included.
LEMMA NextWaits ==
  ASSUME IInv, Waiting, [Next]_vars
  PROVE  Waiting' /\ Honoured
<1>1. ASSUME UNCHANGED <<flags, awaited>> PROVE Waiting' /\ Honoured
  BY <1>1, QuietWaits DEF flags
<1>2. ASSUME NEW c \in Conns,
             Connect(c) \/ Disconnect(c) \/ Subscribe(c) \/ Unsubscribe(c)
      PROVE  Waiting' /\ Honoured
  BY <1>1, <1>2 DEF Connect, Disconnect, Subscribe, Unsubscribe, server
<1>3. ASSUME NEW c \in Conns, SocketClose(c) PROVE Waiting' /\ Honoured
  BY <1>3, CloseWaits DEF SocketClose, server
<1>4. ASSUME NEW c \in Conns, Ending(c) PROVE Waiting' /\ Honoured
  BY <1>1, <1>4, FinishWaits DEF Ending, AuthorizeWill, PublishedWill, server
<1>5. ASSUME NEW i \in ClientIds, CloseSameClients(i) PROVE Waiting' /\ Honoured
  <2>1. clients[i] \in Conns /\ awaited' = awaited
    BY <1>5 DEF CloseSameClients, IInv, TypeOK, server
  <2>2. CASE clients[i] \in closed
    BY <1>1, <1>5, <2>1, <2>2 DEF CloseSameClients
  <2>3. CASE clients[i] \notin closed
    <3>1. Close(clients[i], NoConn, connecting)
      BY <1>5, <2>3 DEF CloseSameClients
    <3> QED BY <2>1, <3>1, CloseWaits
  <2> QED BY <2>2, <2>3
<1>6. CASE BrokerClose
  <2> DEFINE open  == {clients[i] : i \in Registered} \ closed
             later == open \cap subscribed
  <2>1. /\ awaited' = later /\ closed' = closed \cup open /\ next' = next
        /\ finished' = finished \cup (open \ later)
    BY <1>6 DEF BrokerClose, Leave
  <2>2. open \cap closed = {} /\ later \subseteq open
    OBVIOUS
  <2> HIDE DEF open, later
  <2> QED BY <2>1, <2>2 DEF Waiting, Honoured
<1>7. CASE BrokerClosed \/ UNCHANGED vars
  BY <1>1, <1>7 DEF BrokerClosed, vars, server
<1> QED BY <1>2, <1>3, <1>4, <1>5, <1>6, <1>7, ChainWaits DEF Next

\* The safety half of TakeoverCompletes and BrokerCloses, for any number of
\* connections: a waiting registration and a waiting broker.close() need nothing
\* but the finish() of closed clients, and a registration is not lost on the way,
\* whoever else closes those clients meanwhile (aedes.js:236-250, client.js:352-411).
THEOREM TakeoverSafe == Safe => []Waiting /\ [][Honoured]_vars
<1>1. Init => Waiting
  BY DEF Init, Waiting
<1> QED BY <1>1, Invariant, NextWaits, PTL DEF Safe
=============================================================================
