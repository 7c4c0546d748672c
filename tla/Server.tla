------------------------------- MODULE Server -------------------------------
(***************************************************************************)
(* server/src/server.rs and the life cycle of server/src/connection.rs:    *)
(* the accept loop, the semaphore that limits connections, one task per    *)
(* connection, and the shutdown that cancels and joins them all.  What a   *)
(* connection does with its commands is in module Connection; here a       *)
(* command only keeps its task busy.                                       *)
(***************************************************************************)
EXTENDS Integers, FiniteSets

CONSTANTS
    Peer,             \* the TCP connections that ever reach the listener
    MaxConnections    \* ServerConfig.max_connections

ASSUME ServerAssumption == IsFiniteSet(Peer) /\ MaxConnections \in Nat

VARIABLES
    phase,            \* where Server::run is: its loop, the final join, returned
    shutdown,         \* whether the CancellationToken is cancelled
    permits,          \* permits left in connection_limiter
    next_id,          \* the AtomicU64 that numbers connections
    peer,             \* per peer, the state of its connection
    id,               \* per peer, its connection id, 0 before it has one
    tasks             \* the JoinSet: spawned tasks that were not joined yet

vars == <<phase, shutdown, permits, next_id, peer, id, tasks>>

(* The states in which a connection has a task that holds a permit. *)
Busy == {"handshaking", "serving", "sending"}
PeerState == Busy \cup {"idle", "pending", "rejected", "ended"}
Live == {p \in Peer : peer[p] \in Busy}

Init ==
    /\ phase = "accepting"
    /\ shutdown = FALSE
    /\ permits = MaxConnections
    /\ next_id = 1
    /\ peer = [p \in Peer |-> "idle"]
    /\ id = [p \in Peer |-> 0]
    /\ tasks = {}

Become(p, state) == peer' = [peer EXCEPT ![p] = state]

(* A client's connect is queued by the listening socket. *)
PeerConnects(p) ==
    /\ peer[p] = "idle"
    /\ Become(p, "pending")
    /\ UNCHANGED <<phase, shutdown, permits, next_id, id, tasks>>

(* spawn_connection with a permit: the task owns the permit from here on. *)
SpawnConnection(p) ==
    /\ phase = "accepting" /\ peer[p] = "pending"
    /\ permits > 0
    /\ permits' = permits - 1
    /\ id' = [id EXCEPT ![p] = next_id]
    /\ next_id' = next_id + 1
    /\ tasks' = tasks \cup {p}
    /\ Become(p, "handshaking")
    /\ UNCHANGED <<phase, shutdown>>

(* spawn_connection without a permit: the stream is dropped. *)
RejectConnectionEarly(p) ==   \* mutant: one permit is kept in reserve
    /\ phase = "accepting" /\ peer[p] = "pending"
    /\ permits <= 1
    /\ Become(p, "rejected")
    /\ UNCHANGED <<phase, shutdown, permits, next_id, id, tasks>>

RejectConnection(p) ==
    /\ phase = "accepting" /\ peer[p] = "pending"
    /\ permits = 0
    /\ Become(p, "rejected")
    /\ UNCHANGED <<phase, shutdown, permits, next_id, id, tasks>>

(* The task returns, however it came to that, and drops its permit. *)
EndTaskKeepingPermit(p) == Become(p, "ended") /\ UNCHANGED permits   \* mutant
EndTask(p) ==
    /\ Become(p, "ended")
    /\ permits' = permits + 1

(* accept_with_identity succeeds within handshake_timeout ... *)
HandshakeDone(p) ==
    /\ peer[p] = "handshaking"
    /\ Become(p, "serving")
    /\ UNCHANGED <<phase, shutdown, permits, next_id, id, tasks>>

(* ... or fails because of what the peer sent, or because it left ... *)
HandshakeFails(p) ==
    /\ peer[p] = "handshaking"
    /\ EndTask(p)
    /\ UNCHANGED <<phase, shutdown, next_id, id, tasks>>

(* ... or times out.  A handshake does not look at the shutdown token. *)
HandshakeNeverTimesOut(p) == FALSE /\ UNCHANGED vars   \* mutant
HandshakeTimesOut(p) ==
    /\ peer[p] = "handshaking"
    /\ EndTask(p)
    /\ UNCHANGED <<phase, shutdown, next_id, id, tasks>>

(* run: a command was received; handling it and sending its responses is    *)
(* outside the select!, and no timeout applies to it.                       *)
CommandArrives(p) ==
    /\ peer[p] = "serving"
    /\ Become(p, "sending")
    /\ UNCHANGED <<phase, shutdown, permits, next_id, id, tasks>>

CommandAnswered(p) ==
    /\ peer[p] = "sending"
    /\ Become(p, "serving")
    /\ UNCHANGED <<phase, shutdown, permits, next_id, id, tasks>>

(* The peer closed, was idle too long, sent Terminate, or a send failed. *)
ConnectionEnds(p) ==
    /\ peer[p] \in {"serving", "sending"}
    /\ EndTask(p)
    /\ UNCHANGED <<phase, shutdown, next_id, id, tasks>>

(* run: select! picks the cancelled token. *)
TaskIgnoresShutdown(p) == FALSE /\ UNCHANGED vars   \* mutant: no shutdown branch
TaskSeesShutdown(p) ==
    /\ peer[p] = "serving" /\ shutdown
    /\ EndTask(p)
    /\ UNCHANGED <<phase, shutdown, next_id, id, tasks>>

(* ServerHandle::shutdown, from the Ctrl+C task. *)
RequestShutdown ==
    /\ ~shutdown
    /\ shutdown' = TRUE
    /\ UNCHANGED <<phase, permits, next_id, peer, id, tasks>>

(* Server::run: select! picks the cancelled token; no accept after this. *)
LoopSeesShutdown ==
    /\ phase = "accepting" /\ shutdown
    /\ phase' = "joining"
    /\ UNCHANGED <<shutdown, permits, next_id, peer, id, tasks>>

(* join_next, in the loop and after it. *)
JoinNext(p) ==
    /\ phase \in {"accepting", "joining"}
    /\ p \in tasks /\ peer[p] = "ended"
    /\ tasks' = tasks \ {p}
    /\ UNCHANGED <<phase, shutdown, permits, next_id, peer, id>>

StopWithoutJoining ==   \* mutant: run returns from its loop without the final join
    /\ phase = "joining"
    /\ phase' = "stopped"
    /\ UNCHANGED <<shutdown, permits, next_id, peer, id, tasks>>

Stop ==
    /\ phase = "joining" /\ tasks = {}
    /\ phase' = "stopped"
    /\ UNCHANGED <<shutdown, permits, next_id, peer, id, tasks>>

PeerStep(p) ==
    \/ PeerConnects(p)
    \/ SpawnConnection(p) \/ RejectConnection(p) \/ JoinNext(p)
    \/ HandshakeDone(p) \/ HandshakeFails(p) \/ HandshakeTimesOut(p)
    \/ CommandArrives(p) \/ CommandAnswered(p) \/ ConnectionEnds(p)
    \/ TaskSeesShutdown(p)

Next == RequestShutdown \/ LoopSeesShutdown \/ Stop \/ \E p \in Peer : PeerStep(p)

Spec == Init /\ [][Next]_vars

(***************************************************************************)
(* What the runtime guarantees: the accept loop and the join make          *)
(* progress; the timeout of a handshake that has not ended fires; select!   *)
(* picks at random among its ready branches, so a token that stays         *)
(* cancelled is picked after finitely many commands (strong fairness).     *)
(* Nothing is assumed of peers: one that stops reading can keep its task   *)
(* in a send for ever.                                                     *)
(***************************************************************************)
FairSpec ==
    /\ Spec
    /\ WF_vars(LoopSeesShutdown) /\ WF_vars(Stop)
    /\ \A p \in Peer :
          /\ WF_vars(SpawnConnection(p) \/ RejectConnection(p))
          /\ WF_vars(JoinNext(p))
          /\ WF_vars(HandshakeTimesOut(p))
          /\ SF_vars(TaskSeesShutdown(p))

-----------------------------------------------------------------------------
(* Every variable has its type. *)
TypeOK ==
    /\ phase \in {"accepting", "joining", "stopped"}
    /\ shutdown \in BOOLEAN
    /\ permits \in Nat
    /\ next_id \in Nat \ {0}
    /\ peer \in [Peer -> PeerState]
    /\ id \in [Peer -> Nat]
    /\ tasks \subseteq Peer

(***************************************************************************)
(* No permit is lost or invented on any way out of a connection (failed or *)
(* timed-out handshake, closed peer, failed send, shutdown): free permits  *)
(* and live connections always add up to max_connections.  So at most      *)
(* max_connections are live, and a full server becomes free again.         *)
(***************************************************************************)
PermitsAccounted == permits + Cardinality(Live) = MaxConnections

(***************************************************************************)
(* Connection ids are never given twice, also when connections end and     *)
(* their permits are used again.                                           *)
(***************************************************************************)
UniqueIds == \A p, q \in Peer : p # q /\ id[p] # 0 => id[p] # id[q]

(***************************************************************************)
(* When Server::run has returned, no connection task is running any more.  *)
(***************************************************************************)
StoppedMeansQuiet == phase = "stopped" => Live = {}

(***************************************************************************)
(* A peer is turned away only while max_connections connections are live.  *)
(***************************************************************************)
RejectOnlyWhenFull ==
    [][\A p \in Peer : peer[p] # "rejected" /\ peer'[p] = "rejected"
          => Cardinality(Live) = MaxConnections]_vars

(***************************************************************************)
(* A peer that connects and then says nothing does not hold its permit for *)
(* ever: every handshake ends.                                             *)
(***************************************************************************)
HandshakesEnd == \A p \in Peer : peer[p] = "handshaking" ~> peer[p] # "handshaking"

(***************************************************************************)
(* A requested shutdown completes, although clients keep connecting and    *)
(* sending commands, unless some connection is stuck for ever in a send to *)
(* a peer that no longer reads.                                            *)
(***************************************************************************)
ShutdownCompletes ==
    <>shutdown => \/ <>(phase = "stopped")
                  \/ \E p \in Peer : <>[](peer[p] = "sending")

(* The inductive invariant of the proofs. *)
IndInv ==
    /\ TypeOK
    /\ PermitsAccounted
    /\ Live \subseteq tasks
    /\ phase = "stopped" => tasks = {}
    /\ \A p \in Peer : id[p] < next_id
    /\ UniqueIds
=============================================================================
