--------------------------- MODULE SecureChannel ---------------------------
(***************************************************************************)
(* common/src/secure_channel.rs over framing.rs: the two ends of one TCP   *)
(* connection, their handshake, plain or authenticated, and the messages   *)
(* they exchange.  Cryptography is symbolic: a shared secret is the pair   *)
(* of ephemeral keys it comes from, a derived key the secret and the       *)
(* context, a signature the signer and the transcript.  A frame is         *)
(* received whole or not at all (read_exact).  The server's end may also   *)
(* be another program, one that claims an identity it has no key for.      *)
(***************************************************************************)
EXTENDS Naturals, SequencesExt

CONSTANTS
    Identity,         \* the servers' identity keys
    None,             \* no identity: the unauthenticated handshake
    Message,          \* what send_msg is called with
    Oversized,        \* the messages whose packet exceeds max_frame_size
    Script            \* bound: the messages an end may send first, second and so on

ASSUME ChannelAssumption ==
    /\ None \notin Identity /\ Oversized \subseteq Message /\ Script \in Seq(SUBSET Message)

End == {"client", "server"}
Peer(e) == IF e = "client" THEN "server" ELSE "client"

VARIABLES
    expected,         \* the identity the client pins, or None
    identity,         \* the identity key the server's end holds, or None
    claim,            \* the identity it shows in its handshake; None: a plain one
    idle_timeout,     \* whether the server's configuration has an idle timeout
    at,               \* per end, what it does next
    peer_key,         \* per end, the ephemeral public key it received
    claimed,          \* the identity the client received, until it is checked
    wire,             \* per end, the frames on their way to it
    key,              \* per end, the key of its SecureChannel
    sent, received    \* observer: per end, messages sent and opened

parties == <<expected, identity, claim, idle_timeout>>
channelVars == <<expected, identity, claim, idle_timeout, at, peer_key, claimed, wire, key,
                 sent, received>>

NoKey == [secret |-> {}, context |-> << >>]

(* A server of this code shows the identity whose key it holds; another one *)
(* may show any.                                                            *)
Genuine == claim = identity
ChannelInit ==
    /\ expected \in Identity \cup {None} /\ idle_timeout \in BOOLEAN
    /\ identity \in Identity \cup {None}
    /\ Genuine \/ claim \in Identity
    /\ at = [client |-> "hello", server |-> "hello"]
    /\ peer_key = [e \in End |-> None] /\ claimed = None
    /\ wire = [e \in End |-> << >>] /\ key = [e \in End |-> NoKey]
    /\ sent = [e \in End |-> << >>] /\ received = [e \in End |-> << >>]

Closed(e) == at[e] = "closed"
Open(e) == at[e] = "open"

Frame(kind, content) == [kind |-> kind, content |-> content]
Goto(e, step) == at' = [at EXCEPT ![e] = step]
Push(e, frame) == wire' = [wire EXCEPT ![Peer(e)] = Append(@, frame)]
Pop(e) == wire' = [wire EXCEPT ![e] = Tail(@)]
Arrived(e) == wire[e] # << >>

-----------------------------------------------------------------------------
(* server_identity_transcript and what is derived from it. *)
Transcript(clientKey, serverKey, id) == <<clientKey, serverKey, id>>
PlainContext == <<"fenris-aes-key">>

ContextWithoutTranscript(transcript) == PlainContext   \* mutant: both handshakes use one context
AuthenticatedContext(transcript) == <<"authenticated", transcript>>

(* An end's ephemeral key is called by its name; of the secret the other    *)
(* public key is the one that arrived.                                      *)
DeriveKey(e, peerKey, context) ==
    key' = [key EXCEPT ![e] = [secret |-> {e, peerKey}, context |-> context]]

(* client_handshake and client_handshake_authenticated *)
ClientHello ==
    /\ at["client"] = "hello"
    /\ Push("client", Frame("ephemeral", "client"))
    /\ Goto("client", "ephemeral")
    /\ UNCHANGED <<parties, peer_key, claimed, key, sent, received>>

ClientReceivesKey ==
    /\ at["client"] = "ephemeral" /\ Arrived("client")
    /\ Pop("client")
    /\ LET serverKey == Head(wire["client"]).content
       IN  /\ peer_key' = [peer_key EXCEPT !["client"] = serverKey]
           /\ IF expected = None
              THEN Goto("client", "open") /\ DeriveKey("client", serverKey, PlainContext)
              ELSE Goto("client", "identity") /\ UNCHANGED key
    /\ UNCHANGED <<parties, claimed, sent, received>>

ClientReceivesIdentity ==
    /\ at["client"] = "identity" /\ Arrived("client")
    /\ Pop("client")
    /\ IF Head(wire["client"]).kind = "identity"
       THEN Goto("client", "signature") /\ claimed' = Head(wire["client"]).content
       ELSE Goto("client", "closed") /\ UNCHANGED claimed
    /\ UNCHANGED <<parties, peer_key, key, sent, received>>

Signature(signer, transcript) == Frame("signature", <<signer, transcript>>)

ClientTranscript == Transcript("client", peer_key["client"], claimed)
AcceptsUnsigned(signature) == claimed = expected   \* mutant: the signature is not verified
Accepts(signature) ==
    claimed = expected /\ signature = Signature(claimed, ClientTranscript)

ClientReceivesSignature ==
    /\ at["client"] = "signature" /\ Arrived("client")
    /\ Pop("client")
    /\ IF Accepts(Head(wire["client"]))
       THEN /\ Goto("client", "open")
            /\ DeriveKey("client", peer_key["client"], AuthenticatedContext(ClientTranscript))
       ELSE Goto("client", "closed") /\ UNCHANGED key
    /\ UNCHANGED <<parties, peer_key, claimed, sent, received>>

(* server_handshake and server_handshake_authenticated *)
ServerReceivesHello ==
    /\ at["server"] = "hello" /\ Arrived("server")
    /\ wire' = [client |-> Append(wire["client"], Frame("ephemeral", "server")),
                server |-> Tail(wire["server"])]
    /\ LET clientKey == Head(wire["server"]).content
       IN  /\ peer_key' = [peer_key EXCEPT !["server"] = clientKey]
           /\ IF claim = None
              THEN Goto("server", "open") /\ DeriveKey("server", clientKey, PlainContext)
              ELSE Goto("server", "identity") /\ UNCHANGED key
    /\ UNCHANGED <<parties, claimed, sent, received>>

ServerSendsIdentity ==
    /\ at["server"] = "identity"
    /\ Push("server", Frame("identity", claim))
    /\ Goto("server", "signature")
    /\ UNCHANGED <<parties, peer_key, claimed, key, sent, received>>

(* A server without a key can only repeat a signature it has seen, which is *)
(* about another connection and so about another key of the client.         *)
ServerTranscript == Transcript(peer_key["server"], "server", claim)
Proof ==
    IF identity = None THEN Signature(claim, Transcript("earlier", "server", claim))
                       ELSE Signature(identity, ServerTranscript)

ServerSendsSignature ==
    /\ at["server"] = "signature"
    /\ Push("server", Proof)
    /\ Goto("server", "open")
    /\ DeriveKey("server", peer_key["server"], AuthenticatedContext(ServerTranscript))
    /\ UNCHANGED <<parties, peer_key, claimed, sent, received>>

-----------------------------------------------------------------------------
(* send_msg: an oversized frame is refused before anything is written.  The  *)
(* server speaks when spoken to, and gives up the connection on an error;    *)
(* the client keeps its channel.                                             *)
MaySend(e) == Open(e) /\ Len(sent[e]) < Len(Script) /\ (e = "server" => received[e] # << >>)

SendMsg(e) ==
    /\ MaySend(e)
    /\ \E m \in Script[Len(sent[e]) + 1] \ Oversized :
          /\ Push(e, Frame("packet", <<key[e], m>>))
          /\ sent' = [sent EXCEPT ![e] = Append(@, m)]
    /\ UNCHANGED <<parties, peer_key, claimed, at, key, received>>

ServerSendsTooLarge ==
    /\ MaySend("server") /\ Oversized # {}
    /\ Goto("server", "closed")
    /\ UNCHANGED <<parties, peer_key, claimed, wire, key, sent, received>>

(* recv_msg: opens with the receiver's key what the sender's key sealed. *)
OpensAnyPacket(e, frame) == frame.kind = "packet"   \* mutant: the tag is not checked
Opens(e, frame) == frame.kind = "packet" /\ frame.content[1] = key[e]

ReceiveMsg(e) ==
    /\ Open(e) /\ Arrived(e)
    /\ Pop(e)
    /\ LET frame == Head(wire[e])
       IN  IF Opens(e, frame)
           THEN /\ received' = [received EXCEPT ![e] = Append(@, frame.content[2])]
                /\ UNCHANGED at
           ELSE /\ UNCHANGED received
                /\ IF e = "server" THEN Goto(e, "closed") ELSE UNCHANGED at
    /\ UNCHANGED <<parties, peer_key, claimed, key, sent>>

-----------------------------------------------------------------------------
(* An end goes away; of what it sent, some of the last frames may be lost. *)
Close(e) ==
    /\ ~Closed(e)
    /\ Goto(e, "closed")
    /\ \E n \in 0..Len(wire[Peer(e)]) : wire' = [wire EXCEPT ![Peer(e)] = SubSeq(@, 1, n)]
    /\ UNCHANGED <<parties, peer_key, claimed, key, sent, received>>

(* A read of a stream that the peer closed, once everything was read. *)
ReceivesAt == [client |-> {"ephemeral", "identity", "signature", "open"},
               server |-> {"hello", "open"}]

ReceiveFails(e) ==
    /\ at[e] \in ReceivesAt[e] /\ ~Arrived(e) /\ Closed(Peer(e))
    /\ Goto(e, "closed")
    /\ UNCHANGED <<parties, peer_key, claimed, wire, key, sent, received>>

(* The server's timeouts: of the handshake, and of waiting for a command. *)
HandshakeTimesOut ==
    /\ at["server"] \in {"hello", "identity", "signature"}
    /\ Goto("server", "closed")
    /\ UNCHANGED <<parties, peer_key, claimed, wire, key, sent, received>>

NeverTimesOut == FALSE /\ UNCHANGED channelVars   \* mutant: no idle timeout
IdleTimesOut ==
    /\ idle_timeout /\ Open("server") /\ ~Arrived("server")
    /\ Goto("server", "closed")
    /\ UNCHANGED <<parties, peer_key, claimed, wire, key, sent, received>>

ClientHandshake == ClientHello \/ ClientReceivesKey
                   \/ ClientReceivesIdentity \/ ClientReceivesSignature
ServerHandshake == ServerReceivesHello \/ ServerSendsIdentity \/ ServerSendsSignature

ChannelNext ==
    \/ ClientHandshake \/ ServerHandshake
    \/ HandshakeTimesOut \/ IdleTimesOut \/ ServerSendsTooLarge
    \/ \E e \in End : SendMsg(e) \/ ReceiveMsg(e) \/ ReceiveFails(e) \/ Close(e)

ChannelSpec == ChannelInit /\ [][ChannelNext]_channelVars

-----------------------------------------------------------------------------
(***************************************************************************)
(* Two ends that finished their handshakes have the same key exactly when  *)
(* both ran the same one: a plain end and an authenticated one never talk. *)
(***************************************************************************)
KeysAgree ==
    Open("client") /\ Open("server") =>
        (key["client"] = key["server"] <=> (expected = None <=> claim = None))

(***************************************************************************)
(* A client that pins an identity opens its channel only with a server     *)
(* that holds that identity's key, also when another server claims it and  *)
(* signs with a key of its own or repeats a signature of an earlier        *)
(* connection.                                                             *)
(***************************************************************************)
PinHolds == Open("client") /\ expected # None => identity = expected

(***************************************************************************)
(* What an end has opened is what the other end sent, in order and without *)
(* gaps, whatever handshake frames precede it on the stream and wherever   *)
(* the connection is cut; and the server, which gets no confirmation of    *)
(* its handshake, takes no command from a client that did not accept it.   *)
(***************************************************************************)
DeliveredInOrder ==
    /\ \A e \in End : IsPrefix(received[e], sent[Peer(e)])
    /\ received["server"] # << >> => key["client"] = key["server"] /\ key["client"] # NoKey
=============================================================================
