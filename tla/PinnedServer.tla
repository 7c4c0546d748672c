---------------------------- MODULE PinnedServer ----------------------------
(***************************************************************************)
(* server/src/main.rs with identity.rs and secure_channel.rs: a server     *)
(* process that comes up with the key of its file, dies and is started     *)
(* again, and clients that connect to it one after the other, each with    *)
(* the identity it was told to pin.  A server of the library may also run  *)
(* without an identity, and a client may connect without a pin or reach    *)
(* another server than it meant to.                                        *)
(***************************************************************************)
EXTENDS Identity, SecureChannel

(* What a server generates is an identity that a client can pin. *)
ASSUME PinnedAssumption == Key \subseteq Identity

VARIABLE vanished     \* the server's end is gone without a word to the client

pinnedVars == <<key_file, durable, pc, own, generated, announced, refused, lostKey,
                expected, identity, claim, idle_timeout, at, peer_key, claimed, wire, key,
                sent, received, vanished>>

NoConnection ==
    /\ expected = None /\ identity = None /\ claim = None /\ idle_timeout = TRUE
    /\ at = [e \in End |-> "closed"]
    /\ peer_key = [e \in End |-> None] /\ claimed = None
    /\ wire = [e \in End |-> << >>] /\ key = [e \in End |-> NoKey]
    /\ sent = [e \in End |-> << >>] /\ received = [e \in End |-> << >>]

PinnedInit == IdentityInit /\ NoConnection /\ vanished = FALSE

(* A client connects, and what is left of the connection before this one is  *)
(* gone.  It is answered by the running server, or at that address by        *)
(* another one, which holds another key or none and claims any identity.     *)
ThisServer == pc = "up" /\ identity' \in {own, None} /\ claim' = identity'
AnotherServer ==
    /\ identity' \in (Identity \cup {None}) \ {own}
    /\ claim' \in Identity \ {identity'}

Connect ==
    /\ \A e \in End : Closed(e)
    /\ ThisServer \/ AnotherServer
    /\ expected' \in Identity \cup {None} /\ idle_timeout' \in BOOLEAN
    /\ at' = [e \in End |-> "hello"]
    /\ peer_key' = [e \in End |-> None] /\ claimed' = None
    /\ wire' = [e \in End |-> << >>] /\ key' = [e \in End |-> NoKey]
    /\ sent' = [e \in End |-> << >>] /\ received' = [e \in End |-> << >>]
    /\ vanished' = FALSE
    /\ UNCHANGED identityVars

(* The server's end of a connection dies with the process, and the kernel    *)
(* closes the stream; a machine that loses power closes nothing.             *)
EndDies ==
    IF Closed("server") THEN UNCHANGED channelVars ELSE Close("server")

ProcessEnds == Crash /\ EndDies /\ UNCHANGED vanished

MachineEnds ==
    /\ PowerLoss /\ EndDies
    /\ vanished' = (vanished \/ ~Closed("server"))

ProcessStep ==
    /\ LoadKey \/ GenerateKey \/ OpenKeyFile \/ WriteKeyFile \/ SaveFails \/ Announce \/ Writeback
    /\ UNCHANGED <<channelVars, vanished>>

ConnectionStep(step) == step /\ UNCHANGED <<identityVars, vanished>>

PinnedNext ==
    \/ ProcessStep \/ ProcessEnds \/ MachineEnds \/ Connect
    \/ ConnectionStep(ChannelNext)

PinnedSpec == PinnedInit /\ [][PinnedNext]_pinnedVars

(* The ends of a connection keep running, the server's timers fire, and a    *)
(* closed stream is noticed, but not one whose other end just vanished.      *)
FairPinnedSpec ==
    /\ PinnedSpec
    /\ WF_pinnedVars(ConnectionStep(ClientHandshake))
    /\ WF_pinnedVars(ConnectionStep(ServerHandshake))
    /\ WF_pinnedVars(ConnectionStep(HandshakeTimesOut))
    /\ WF_pinnedVars(ConnectionStep(IdleTimesOut))
    /\ \A e \in End : /\ WF_pinnedVars(ConnectionStep(ReceiveMsg(e)))
                      /\ WF_pinnedVars(~vanished /\ ConnectionStep(ReceiveFails(e)))

-----------------------------------------------------------------------------
(***************************************************************************)
(* A client that pins an identity this server has printed, and is answered *)
(* by this server, is refused only after a power loss took the unsynced    *)
(* key file: through crashes, failed starts and restarts the server keeps  *)
(* proving the same identity.                                              *)
(***************************************************************************)
PinStaysGood ==
    [][ClientReceivesSignature /\ at'["client"] = "closed" /\ Genuine /\ expected \in announced
          => lostKey]_pinnedVars

(***************************************************************************)
(* A client's handshake ends, although the client has no timeout of its    *)
(* own: the server's timeouts free it.  Two cases are left, and in both it *)
(* can wait for ever: it expects an identity of a server that runs the     *)
(* plain handshake and has no idle timeout, or the server's machine lost   *)
(* power.                                                                  *)
(***************************************************************************)
Connecting == at["client"] \notin {"open", "closed"}
LeftWaiting == vanished \/ (expected # None /\ claim = None /\ ~idle_timeout)
ConnectEnds == Connecting ~> ~Connecting \/ LeftWaiting
=============================================================================
