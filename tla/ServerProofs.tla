----------------------------- MODULE ServerProofs -----------------------------
(***************************************************************************)
(* For any number of peers and any connection limit: permits are never     *)
(* lost, ids never repeat, and a stopped server has no task left.          *)
(***************************************************************************)
EXTENDS Server, FiniteSetTheorems, TLAPS

(* Live connections are finitely many. *)
LEMMA LiveFinite ==
    IsFiniteSet(Live) /\ Cardinality(Live) \in Nat
<1>1. Live \subseteq Peer
  BY DEF Live
<1> QED
  BY <1>1, ServerAssumption, FS_Subset, FS_CardinalityType

(* How a change of one peer's state changes the set of live connections. *)
LEMMA BecomesLive ==
    ASSUME TypeOK, NEW p \in Peer, NEW s \in Busy, peer[p] \notin Busy, Become(p, s)
    PROVE  Live' = Live \cup {p} /\ Cardinality(Live') = Cardinality(Live) + 1
<1>1. Live' = Live \cup {p} /\ p \notin Live
  BY DEF Live, TypeOK, Become
<1> QED
  BY <1>1, LiveFinite, FS_AddElement

LEMMA NoLongerLive ==
    ASSUME TypeOK, NEW p \in Peer, peer[p] \in Busy, Become(p, "ended")
    PROVE  Live' = Live \ {p} /\ Cardinality(Live') = Cardinality(Live) - 1
<1>1. Live' = Live \ {p} /\ p \in Live
  BY DEF Live, TypeOK, Become, Busy
<1> QED
  BY <1>1, LiveFinite, FS_RemoveElement

LEMMA LiveStays ==
    ASSUME TypeOK, NEW p \in Peer, NEW s, Become(p, s), peer[p] \in Busy <=> s \in Busy
    PROVE  Live' = Live
BY DEF Live, TypeOK, Become

-----------------------------------------------------------------------------
(* A task that ends returns its permit. *)
LEMMA EndTaskPreserves ==
    ASSUME IndInv, NEW p \in Peer, peer[p] \in Busy, EndTask(p),
           UNCHANGED <<phase, shutdown, next_id, id, tasks>>
    PROVE  IndInv'
<1>1. Live' = Live \ {p} /\ Cardinality(Live') = Cardinality(Live) - 1
  BY NoLongerLive DEF IndInv, EndTask
<1>2. TypeOK'
  BY DEF IndInv, TypeOK, EndTask, Become, PeerState
<1>3. PermitsAccounted'
  BY <1>1, LiveFinite, ServerAssumption DEF IndInv, TypeOK, PermitsAccounted, EndTask
<1>4. UniqueIds'
  BY DEF IndInv, UniqueIds
<1> QED
  BY <1>1, <1>2, <1>3, <1>4 DEF IndInv

(* A step that moves one peer between states without a permit changing hands. *)
LEMMA MovePreserves ==
    ASSUME IndInv, NEW p \in Peer, NEW s \in PeerState, Become(p, s),
           peer[p] \in Busy <=> s \in Busy,
           UNCHANGED <<phase, shutdown, permits, next_id, id, tasks>>
    PROVE  IndInv'
<1>1. Live' = Live
  BY LiveStays DEF IndInv
<1>2. TypeOK'
  BY DEF IndInv, TypeOK, Become
<1> QED
  BY <1>1, <1>2 DEF IndInv, PermitsAccounted, UniqueIds

LEMMA SpawnPreserves ==
    ASSUME IndInv, NEW p \in Peer, SpawnConnection(p)
    PROVE  IndInv'
<1>1. Live' = Live \cup {p} /\ Cardinality(Live') = Cardinality(Live) + 1
  BY BecomesLive DEF IndInv, SpawnConnection, Busy
<1>2. TypeOK'
  BY DEF IndInv, TypeOK, SpawnConnection, Become, PeerState, Busy
<1>3. PermitsAccounted'
  BY <1>1, LiveFinite, ServerAssumption DEF IndInv, TypeOK, PermitsAccounted, SpawnConnection
<1>4. Live' \subseteq tasks' /\ (phase' = "stopped" => tasks' = {})
  BY <1>1 DEF IndInv, SpawnConnection
<1>5. (\A q \in Peer : id'[q] < next_id') /\ UniqueIds'
  BY DEF IndInv, TypeOK, UniqueIds, SpawnConnection
<1> QED
  BY <1>2, <1>3, <1>4, <1>5 DEF IndInv

LEMMA StepPreserves == IndInv /\ [Next]_vars => IndInv'
<1> SUFFICES ASSUME IndInv, [Next]_vars PROVE IndInv'
  OBVIOUS
<1> USE DEF Busy, PeerState
<1>1. CASE UNCHANGED vars
  BY <1>1 DEF vars, IndInv, TypeOK, PermitsAccounted, UniqueIds, Live
<1>2. CASE RequestShutdown \/ LoopSeesShutdown \/ Stop
  <2>1. UNCHANGED <<permits, next_id, peer, id, tasks>> /\ Live' = Live
    BY <1>2 DEF RequestShutdown, LoopSeesShutdown, Stop, Live
  <2>2. TypeOK' /\ (phase' = "stopped" => tasks' = {})
    BY <1>2, <2>1 DEF RequestShutdown, LoopSeesShutdown, Stop, IndInv, TypeOK
  <2> QED
    BY <2>1, <2>2 DEF IndInv, PermitsAccounted, UniqueIds
<1>3. ASSUME NEW p \in Peer, PeerStep(p) PROVE IndInv'
  <2>1. CASE PeerConnects(p)
    BY <2>1, MovePreserves DEF PeerConnects
  <2>2. CASE SpawnConnection(p)
    BY <2>2, SpawnPreserves
  <2>3. CASE RejectConnection(p)
    BY <2>3, MovePreserves DEF RejectConnection
  <2>4. CASE JoinNext(p)
    <3>1. Live' = Live /\ p \notin Live /\ tasks' = tasks \ {p}
      BY <2>4 DEF JoinNext, Live
    <3> QED
      BY <2>4, <3>1 DEF JoinNext, IndInv, TypeOK, PermitsAccounted, UniqueIds
  <2>5. CASE HandshakeDone(p)
    BY <2>5, MovePreserves DEF HandshakeDone
  <2>6. CASE HandshakeFails(p) \/ HandshakeTimesOut(p)
    BY <2>6, EndTaskPreserves DEF HandshakeFails, HandshakeTimesOut
  <2>7. CASE CommandArrives(p)
    BY <2>7, MovePreserves DEF CommandArrives
  <2>8. CASE CommandAnswered(p)
    BY <2>8, MovePreserves DEF CommandAnswered
  <2>9. CASE ConnectionEnds(p)
    BY <2>9, EndTaskPreserves DEF ConnectionEnds
  <2>10. CASE TaskSeesShutdown(p)
    BY <2>10, EndTaskPreserves DEF TaskSeesShutdown
  <2> QED
    BY <1>3, <2>1, <2>2, <2>3, <2>4, <2>5, <2>6, <2>7, <2>8, <2>9, <2>10 DEF PeerStep
<1> QED
  BY <1>1, <1>2, <1>3 DEF Next

(***************************************************************************)
(* The inductive invariant of the server's life cycle.                     *)
(***************************************************************************)
THEOREM ServerInvariant == Spec => []IndInv
<1>1. Init => IndInv
  <2> SUFFICES ASSUME Init PROVE IndInv
    OBVIOUS
  <2>1. Live = {}
    BY DEF Init, Live, Busy
  <2>2. Cardinality(Live) = 0
    BY <2>1, FS_EmptySet
  <2>3. TypeOK
    <3>1. peer \in [Peer -> PeerState] /\ id \in [Peer -> Nat] /\ tasks \subseteq Peer
      BY DEF Init, PeerState
    <3>2. permits \in Nat /\ next_id \in Nat \ {0}
      BY ServerAssumption DEF Init
    <3>3. shutdown \in BOOLEAN /\ phase \in {"accepting", "joining", "stopped"}
      BY DEF Init
    <3> QED
      BY <3>1, <3>2, <3>3 DEF TypeOK
  <2>4. PermitsAccounted
    BY <2>2, ServerAssumption DEF Init, PermitsAccounted
  <2> QED
    BY <2>1, <2>3, <2>4 DEF Init, IndInv, UniqueIds
<1> QED
  BY <1>1, StepPreserves, PTL DEF Spec

(***************************************************************************)
(* Whichever way connections end, free permits and live connections add up *)
(* to max_connections.                                                     *)
(***************************************************************************)
THEOREM PermitsNeverLost == Spec => []PermitsAccounted
<1>1. IndInv => PermitsAccounted
  BY DEF IndInv
<1> QED
  BY <1>1, ServerInvariant, PTL

(* Connection ids are never given out twice. *)
THEOREM IdsNeverRepeat == Spec => []UniqueIds
<1>1. IndInv => UniqueIds
  BY DEF IndInv
<1> QED
  BY <1>1, ServerInvariant, PTL

(* When Server::run has returned, every connection task has ended. *)
THEOREM ReturnsOnlyWhenQuiet == Spec => []StoppedMeansQuiet
<1>1. IndInv => StoppedMeansQuiet
  BY DEF IndInv, StoppedMeansQuiet
<1> QED
  BY <1>1, ServerInvariant, PTL

(***************************************************************************)
(* A peer is turned away only while the server is full, by the permits     *)
(* invariant: no permit left means max_connections live connections.       *)
(***************************************************************************)
THEOREM RejectsOnlyWhenFull == Spec => RejectOnlyWhenFull
<1> DEFINE Justified == \A p \in Peer : peer[p] # "rejected" /\ peer'[p] = "rejected"
                                          => Cardinality(Live) = MaxConnections
<1>1. IndInv /\ [Next]_vars => [Justified]_vars
  <2> SUFFICES ASSUME IndInv, Next, NEW p \in Peer,
                      peer[p] # "rejected", peer'[p] = "rejected"
               PROVE  Cardinality(Live) = MaxConnections
    BY DEF vars
  <2>1. permits = 0
    BY DEF Next, PeerStep, RequestShutdown, LoopSeesShutdown, Stop, PeerConnects,
           SpawnConnection, RejectConnection, JoinNext, HandshakeDone, HandshakeFails,
           HandshakeTimesOut, CommandArrives, CommandAnswered, ConnectionEnds, TaskSeesShutdown,
           EndTask, Become, IndInv, TypeOK
  <2> QED
    BY <2>1, LiveFinite, ServerAssumption DEF IndInv, PermitsAccounted
<1> QED
  BY <1>1, ServerInvariant, PTL DEF Spec, RejectOnlyWhenFull
=============================================================================
