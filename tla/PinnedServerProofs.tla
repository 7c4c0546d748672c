------------------------- MODULE PinnedServerProofs -------------------------
(***************************************************************************)
(* Proofs about the secure channel and the server's identity, for any keys *)
(* and messages and any number of connections, crashes, power losses and   *)
(* restarts: what the two ends agree on, what a pin guarantees and what is *)
(* delivered.                                                              *)
(***************************************************************************)
EXTENDS PinnedServer, SequenceTheorems, TLAPS

-----------------------------------------------------------------------------
(* The server's identity key, by itself. *)

(* The file is empty and nothing is announced when the first start begins. *)
LEMMA InitIdentityInv == IdentityInit => IdentityInv
  BY IdentityAssumption
     DEF IdentityInit, IdentityInv, IdentityTypeOK, IdentityKept, Content

(* Every step of a start, crash, writeback or power loss keeps IdentityInv. *)
LEMMA NextIdentityInv == IdentityInv /\ [IdentityNext]_identityVars => IdentityInv'
<1> SUFFICES ASSUME IdentityInv, [IdentityNext]_identityVars
             PROVE  IdentityInv'
    OBVIOUS
<1> USE IdentityAssumption DEF IdentityInv, IdentityTypeOK, IdentityKept, Content, Down
<1>1. CASE LoadKey
      BY <1>1 DEF LoadKey, Parses
<1>2. CASE GenerateKey
  (* The file is absent, so what was announced is lost or there was nothing. *)
  <2>1. announced = {} \/ lostKey
        BY <1>2 DEF GenerateKey
  <2>2. PICK k \in Key \ generated : generated' = generated \cup {k} /\ own' = k
        BY <1>2 DEF GenerateKey
  <2>3. QED
        BY <1>2, <2>1, <2>2 DEF GenerateKey
<1>3. CASE OpenKeyFile
      BY <1>3 DEF OpenKeyFile
<1>4. CASE WriteKeyFile
      BY <1>4 DEF WriteKeyFile
<1>5. CASE SaveFails
      BY <1>5 DEF SaveFails
<1>6. CASE Announce
      BY <1>6 DEF Announce
<1>7. CASE Crash
      BY <1>7 DEF Crash
<1>8. CASE Writeback
      BY <1>8 DEF Writeback
<1>9. CASE PowerLoss
  <2>1. PICK content \in durable :
           /\ key_file' = content /\ durable' = {content}
           /\ lostKey' = (lostKey \/ (announced # {} /\ content # key_file))
        BY <1>9 DEF PowerLoss
  <2>2. \A k \in announced' : key_file' = k \/ lostKey'
        BY <1>9, <2>1 DEF PowerLoss
  <2>3. lostKey' \in BOOLEAN
        BY <2>1
  <2>4. QED
        BY <1>9, <2>1, <2>2, <2>3 DEF PowerLoss
<1>10. CASE UNCHANGED identityVars
       BY <1>10 DEF identityVars
<1>11. QED
       BY <1>1, <1>2, <1>3, <1>4, <1>5, <1>6, <1>7, <1>8, <1>9, <1>10 DEF IdentityNext

(***************************************************************************)
(* load_or_generate with crashes and power losses keeps IdentityInv: a     *)
(* process past it has the key that is in the file, and a file is written  *)
(* only before any identity was announced.                                 *)
(***************************************************************************)
THEOREM IdentityCorrect == IdentitySpec => []IdentityInv
<1>1. IdentityInit => IdentityInv
      BY InitIdentityInv
<1>2. IdentityInv /\ [IdentityNext]_identityVars => IdentityInv'
      BY NextIdentityInv
<1>3. QED
      BY <1>1, <1>2, PTL DEF IdentitySpec

(* An announced identity stays in the key file until a power loss takes it. *)
THEOREM AnnouncedIdentityKept == IdentitySpec => []IdentityKept
<1>1. IdentityInv => IdentityKept
      BY DEF IdentityInv
<1>2. QED
      BY <1>1, IdentityCorrect, PTL

-----------------------------------------------------------------------------
(* The inductive invariant of the channel. *)

(* The key an end derives from a handshake about id. *)
ContextOf(id) ==
    IF id = None THEN PlainContext ELSE AuthenticatedContext(Transcript("client", "server", id))
ChannelKey(id) == [secret |-> End, context |-> ContextOf(id)]
Packet(k, m) == Frame("packet", <<k, m>>)

AllKeys == {NoKey} \cup {ChannelKey(id) : id \in Identity \cup {None}}
AllFrames ==
    {Frame("ephemeral", e) : e \in End} \cup {Frame("identity", id) : id \in Identity}
    \cup {Signature(signer, Transcript(c, "server", id)) :
              signer \in Identity, c \in {"client", "earlier"}, id \in Identity}
    \cup {Packet(k, m) : k \in AllKeys, m \in Message}

Step == {"hello", "ephemeral", "identity", "signature", "open", "closed"}

ChannelTypeOK ==
    /\ expected \in Identity \cup {None} /\ identity \in Identity \cup {None}
    /\ claim \in Identity \cup {None}
    /\ at \in [End -> Step]
    /\ at["server"] # "ephemeral"
    /\ wire \in [End -> Seq(AllFrames)] /\ key \in [End -> AllKeys]
    /\ sent \in [End -> Seq(Message)] /\ received \in [End -> Seq(Message)]

(* Both ends have the same key. *)
Agreed == key["client"] = key["server"] /\ key["client"] # NoKey

(* The frames of the server's handshake, and how many there are of them,    *)
(* how many the client has read and how many the server has sent.           *)
HandshakeFrame(n) ==
    IF n = 1 THEN Frame("ephemeral", "server")
    ELSE IF n = 2 THEN Frame("identity", claim)
    ELSE IF identity = None THEN Signature(claim, Transcript("earlier", "server", claim))
    ELSE Signature(identity, Transcript("client", "server", claim))
HandshakeLen == IF claim = None THEN 1 ELSE 3
FramesRead == IF at["client"] = "signature" THEN 2 ELSE IF at["client"] = "identity" THEN 1 ELSE 0
FramesSent ==
    IF at["server"] = "hello" THEN 0 ELSE IF at["server"] = "identity" THEN 1
    ELSE IF at["server"] = "signature" THEN 2 ELSE HandshakeLen

(* An end has a key once it is through its handshake, the one of its own    *)
(* side; a client gets as far only with a server that got there before it,  *)
(* or with one that speaks the other handshake, and with a pin only with    *)
(* one that has the pinned key.                                             *)
KeyInv ==
    /\ key["client"] \in {NoKey, ChannelKey(expected)}
    /\ key["server"] \in {NoKey, ChannelKey(claim)}
    /\ \A e \in End : /\ at[e] = "open" => key[e] # NoKey
                      /\ at[e] \notin {"open", "closed"} => key[e] = NoKey
    /\ key["client"] # NoKey /\ expected # None => claim = expected /\ identity = expected
    /\ key["client"] # NoKey /\ expected = claim => key["server"] # NoKey
    /\ at["server"] = "hello" => key["client"] = NoKey
    /\ at["server"] \in {"identity", "signature"} => claim # None

(* While the client is in its handshake, what is on its way to it is the    *)
(* part of the server's handshake that the server sent and it did not read. *)
HandshakeInv ==
    /\ Connecting =>
        /\ FramesRead + Len(wire["client"]) <= HandshakeLen
        /\ \A i \in 1..Len(wire["client"]) : wire["client"][i] = HandshakeFrame(FramesRead + i)
        /\ at["server"] # "closed" => FramesRead + Len(wire["client"]) = FramesSent
        /\ FramesRead + Len(wire["client"]) = HandshakeLen => key["server"] # NoKey
    /\ at["client"] = "hello" => at["server"] \in {"hello", "closed"}
    /\ at["client"] \in {"identity", "signature"} => expected # None
    /\ at["client"] = "signature" => claimed = claim /\ claim # None

(* What is on its way to a client with the server's key is what the server  *)
(* sent and the client did not open; to any other client the server sends   *)
(* nothing but its handshake.                                               *)
ToClientInv ==
    /\ Agreed =>
        /\ Len(received["client"]) + Len(wire["client"]) <= Len(sent["server"])
        /\ \A i \in 1..Len(wire["client"]) :
              wire["client"][i] =
                  Packet(key["server"], sent["server"][Len(received["client"]) + i])
        /\ at["server"] # "closed" =>
              Len(received["client"]) + Len(wire["client"]) = Len(sent["server"])
    /\ ~Agreed =>
        /\ Len(sent["server"]) = 0 /\ Len(received["server"]) = 0 /\ Len(received["client"]) = 0
        /\ \A i \in 1..Len(wire["client"]) : wire["client"][i].kind # "packet"

(* What is on its way to a server past the client's hello are the packets   *)
(* that the client sent and the server did not read.                        *)
ToServerInv ==
    /\ key["client"] = NoKey => Len(sent["client"]) = 0
    /\ at["server"] = "hello" =>
        /\ Len(received["server"]) = 0 /\ Len(wire["server"]) <= 1
        /\ at["client"] = "hello" => Len(wire["server"]) = 0
    /\ at["server"] \in {"identity", "signature", "open"} =>
        /\ Len(received["server"]) + Len(wire["server"]) <= Len(sent["client"])
        /\ \A i \in 1..Len(wire["server"]) :
              wire["server"][i] =
                  Packet(key["client"], sent["client"][Len(received["server"]) + i])
        /\ at["client"] # "closed" =>
              Len(received["server"]) + Len(wire["server"]) = Len(sent["client"])

(* What an end opened is the beginning of what the other sent. *)
OpenedInv ==
    \A e \in End :
        /\ Len(received[e]) <= Len(sent[Peer(e)])
        /\ \A i \in 1..Len(received[e]) : received[e][i] = sent[Peer(e)][i]

ChannelInv ==
    ChannelTypeOK /\ KeyInv /\ HandshakeInv /\ ToClientInv /\ ToServerInv /\ OpenedInv

(* What each end took for the other's ephemeral key is that key, and a      *)
(* server that waits for the client's hello finds nothing else.             *)
PeerKeyInv ==
    /\ peer_key \in [End -> End \cup {None}]
    /\ at["client"] \in {"identity", "signature"} => peer_key["client"] = "server"
    /\ at["server"] \in {"identity", "signature"} => peer_key["server"] = "client"
    /\ at["server"] = "hello" =>
          \A i \in 1..Len(wire["server"]) : wire["server"][i] = Frame("ephemeral", "client")

(* This server proves identities that it has announced. *)
PinInv ==
    /\ pc = "up" => own \in announced
    /\ Genuine /\ identity # None => identity \in announced

PinnedInv == IdentityInv /\ ChannelInv /\ PeerKeyInv /\ PinInv

-----------------------------------------------------------------------------
(* Facts about keys and frames. *)

(* The context tells the handshakes of different identities apart. *)
LEMMA KeysDiffer ==
    ASSUME NEW a \in Identity \cup {None}, NEW b \in Identity \cup {None}
    PROVE  /\ ChannelKey(a) # NoKey
           /\ ChannelKey(a) = ChannelKey(b) <=> a = b
<1>1. ChannelKey(a) # NoKey
  BY DEF ChannelKey, NoKey, End
<1>2. ASSUME ChannelKey(a) = ChannelKey(b) PROVE ContextOf(a) = ContextOf(b)
  BY <1>2 DEF ChannelKey
<1>3. ASSUME ContextOf(a) = ContextOf(b) PROVE a = b
  BY <1>3, ChannelAssumption DEF ContextOf, PlainContext, AuthenticatedContext, Transcript
<1> QED
  BY <1>1, <1>2, <1>3

LEMMA DerivedKey ==
    ASSUME NEW e \in End, NEW id, key \in [End -> AllKeys],
           DeriveKey(e, Peer(e), ContextOf(id))
    PROVE  /\ key'[e] = ChannelKey(id) /\ key'[Peer(e)] = key[Peer(e)]
           /\ id \in Identity \cup {None} => key' \in [End -> AllKeys]
BY DEF DeriveKey, ChannelKey, End, Peer, AllKeys

(* Frames carry what they were made of. *)
LEMMA FrameFields ==
    ASSUME NEW kind, NEW content
    PROVE  Frame(kind, content).kind = kind /\ Frame(kind, content).content = content
BY DEF Frame

LEMMA PacketFields ==
    ASSUME NEW k, NEW m
    PROVE  /\ Packet(k, m).kind = "packet"
           /\ Packet(k, m).content[1] = k /\ Packet(k, m).content[2] = m
BY FrameFields DEF Packet

LEMMA FrameTypes ==
    /\ \A e \in End : Frame("ephemeral", e) \in AllFrames
    /\ \A id \in Identity : Frame("identity", id) \in AllFrames
    /\ \A signer, id \in Identity, c \in {"client", "earlier"} :
          Signature(signer, Transcript(c, "server", id)) \in AllFrames
    /\ \A k \in AllKeys, m \in Message : Packet(k, m) \in AllFrames
BY DEF AllFrames

LEMMA NoneIsEmpty ==
    ASSUME ChannelTypeOK, NEW e \in End
    PROVE  /\ Len(wire[e]) \in Nat /\ Len(sent[e]) \in Nat /\ Len(received[e]) \in Nat
           /\ Arrived(e) <=> Len(wire[e]) # 0
           /\ received[e] = << >> <=> Len(received[e]) = 0
<1>1. wire[e] \in Seq(AllFrames) /\ sent[e] \in Seq(Message) /\ received[e] \in Seq(Message)
  BY DEF ChannelTypeOK
<1> QED
  BY <1>1, EmptySeq DEF Arrived

LEMMA NatFacts ==
    /\ \A n \in Nat : n # 0 /\ n <= 1 => n = 1
    /\ \A m, n \in Nat : m + n <= 0 => m = 0 /\ n = 0
    /\ \A m, n, k : m = 0 /\ n = 0 /\ k = 0 => m + n <= k /\ m + n = k /\ 1..n = {}
OBVIOUS

LEMMA Shorter ==
    ASSUME NEW m \in Nat, NEW n \in Nat, NEW r \in Nat, NEW l \in Nat, m <= n, r + n <= l
    PROVE  r + m <= l /\ (r + m = l => r + n = l)
OBVIOUS

LEMMA TheEnds == /\ "client" \in End /\ "server" \in End
                 /\ Peer("client") = "server" /\ Peer("server") = "client"
BY DEF End, Peer

(* What sending, receiving and proceeding do. *)
LEMMA WentTo ==
    ASSUME ChannelTypeOK, NEW e \in End, NEW step \in Step, Goto(e, step)
    PROVE  /\ at' \in [End -> Step]
           /\ at'[e] = step /\ at'[Peer(e)] = at[Peer(e)]
BY DEF ChannelTypeOK, Goto, End, Peer

LEMMA Pushed ==
    ASSUME ChannelTypeOK, NEW e \in End, NEW frame \in AllFrames, Push(e, frame)
    PROVE  LET n == Len(wire[Peer(e)])
           IN  /\ wire' \in [End -> Seq(AllFrames)] /\ wire'[e] = wire[e]
               /\ n \in Nat /\ Len(wire'[Peer(e)]) = n + 1
               /\ \A i \in 1..n : wire'[Peer(e)][i] = wire[Peer(e)][i]
               /\ wire'[Peer(e)][n + 1] = frame
<1>1. wire[Peer(e)] \in Seq(AllFrames) /\ Peer(e) \in End /\ Peer(e) # e
  BY DEF ChannelTypeOK, End, Peer
<1>2. wire'[Peer(e)] = Append(wire[Peer(e)], frame) /\ wire'[e] = wire[e]
  BY <1>1 DEF ChannelTypeOK, Push
<1>3. wire' \in [End -> Seq(AllFrames)]
  BY <1>1, AppendProperties DEF ChannelTypeOK, Push
<1> QED
  BY <1>1, <1>2, <1>3, AppendProperties

LEMMA Popped ==
    ASSUME ChannelTypeOK, NEW e \in End, Arrived(e), Pop(e)
    PROVE  /\ wire' \in [End -> Seq(AllFrames)] /\ wire'[Peer(e)] = wire[Peer(e)]
           /\ Len(wire[e]) \in Nat \ {0} /\ Len(wire'[e]) = Len(wire[e]) - 1
           /\ \A i \in 1..Len(wire'[e]) : wire'[e][i] = wire[e][i + 1]
           /\ Head(wire[e]) = wire[e][1]
<1>1. wire[e] \in Seq(AllFrames) /\ wire[e] # << >> /\ Peer(e) \in End /\ Peer(e) # e
  BY DEF ChannelTypeOK, End, Peer, Arrived
<1>2. wire'[e] = Tail(wire[e]) /\ wire'[Peer(e)] = wire[Peer(e)]
  BY <1>1 DEF ChannelTypeOK, Pop
<1>3. wire' \in [End -> Seq(AllFrames)]
  BY <1>1, HeadTailProperties DEF ChannelTypeOK, Pop
<1>4. Len(wire[e]) \in Nat \ {0}
  BY <1>1, EmptySeq
<1> QED
  BY <1>1, <1>2, <1>3, <1>4, HeadTailProperties

LEMMA HandshakeFrames ==
    /\ HandshakeFrame(1) = Frame("ephemeral", "server")
    /\ HandshakeFrame(2) = Frame("identity", claim)
    /\ HandshakeFrame(3) =
          IF identity = None THEN Signature(claim, Transcript("earlier", "server", claim))
                             ELSE Signature(identity, Transcript("client", "server", claim))
    /\ \A n : HandshakeFrame(n).kind # "packet"
    /\ \A n : HandshakeFrame(n).kind = "identity" <=> n = 2
BY FrameFields DEF HandshakeFrame, Signature

-----------------------------------------------------------------------------
(* Each step of the two ends keeps the invariant. *)

LEMMA ClientHelloKeeps == ASSUME ChannelInv, ClientHello PROVE ChannelInv'
<1>1. /\ at' \in [End -> Step]
      /\ at["client"] = "hello" /\ at'["client"] = "ephemeral" /\ at'["server"] = at["server"]
  BY DEF ChannelInv, ChannelTypeOK, ClientHello, Goto, End, Step
<1>2. /\ wire' \in [End -> Seq(AllFrames)] /\ wire'["client"] = wire["client"]
      /\ Len(wire'["server"]) = Len(wire["server"]) + 1
  BY FrameTypes, AppendProperties DEF ChannelInv, ChannelTypeOK, ClientHello, Push, Peer, End
<1>3. UNCHANGED <<expected, identity, claim, claimed, key, sent, received>>
  BY DEF ClientHello, parties
<1>4. ChannelTypeOK'
  BY <1>1, <1>2, <1>3 DEF ChannelInv, ChannelTypeOK
<1>5. KeyInv'
  BY <1>1, <1>3 DEF ChannelInv, KeyInv, End
<1>6. HandshakeInv'
  BY <1>1, <1>2, <1>3
  DEF ChannelInv, HandshakeInv, Connecting, FramesRead, FramesSent, HandshakeLen, HandshakeFrame
<1>7. ToClientInv'
  BY <1>1, <1>2, <1>3 DEF ChannelInv, ToClientInv, Agreed
<1>8. ToServerInv'
  <2>1. at["server"] \in {"hello", "closed"}
    BY <1>1 DEF ChannelInv, HandshakeInv
  <2>2. at["server"] = "hello" => Len(wire'["server"]) <= 1
    BY <1>1, <1>2 DEF ChannelInv, ToServerInv
  <2> QED
    BY <1>1, <1>3, <2>1, <2>2 DEF ChannelInv, ToServerInv
<1>9. OpenedInv'
  BY <1>3 DEF ChannelInv, OpenedInv
<1> QED
  BY <1>4, <1>5, <1>6, <1>7, <1>8, <1>9 DEF ChannelInv

(* What a client in its handshake finds on the wire. *)
LEMMA NextHandshakeFrame ==
    ASSUME ChannelInv, Connecting, Arrived("client")
    PROVE  /\ wire["client"][1] = HandshakeFrame(FramesRead + 1)
           /\ FramesRead + 1 <= HandshakeLen
           /\ FramesRead + 1 = HandshakeLen => Len(wire["client"]) = 1
           /\ at["server"] # "hello"
           /\ key["client"] = NoKey /\ ~Agreed
<1>1. Len(wire["client"]) \in Nat /\ Len(wire["client"]) # 0
  BY NoneIsEmpty, TheEnds DEF ChannelInv
<1>2. FramesRead \in {0, 1, 2} /\ HandshakeLen \in {1, 3}
  BY DEF FramesRead, HandshakeLen
<1>3. FramesRead + Len(wire["client"]) <= HandshakeLen
  BY DEF ChannelInv, HandshakeInv
<1>4. \A n \in Nat : n # 0 /\ FramesRead + n <= HandshakeLen
                     => /\ FramesRead + 1 <= HandshakeLen
                        /\ FramesRead + 1 = HandshakeLen => n = 1
                        /\ 1 \in 1..n /\ FramesRead + n # 0
  BY <1>2
<1>5. /\ FramesRead + 1 <= HandshakeLen /\ 1 \in 1..Len(wire["client"])
      /\ FramesRead + 1 = HandshakeLen => Len(wire["client"]) = 1
      /\ FramesRead + Len(wire["client"]) # 0
  BY <1>1, <1>3, <1>4
<1>6. at["server"] # "hello"
  BY <1>5 DEF ChannelInv, HandshakeInv, FramesSent
<1>7. key["client"] = NoKey
  BY TheEnds DEF ChannelInv, KeyInv, Connecting
<1> QED
  BY <1>5, <1>6, <1>7 DEF ChannelInv, HandshakeInv, Agreed

(* A client that read a frame of the handshake and is not through with it. *)
LEMMA ClientGoesOn ==
    ASSUME ChannelInv, Connecting, Arrived("client"), Pop("client"),
           NEW step \in {"identity", "signature", "closed"}, Goto("client", step),
           UNCHANGED <<expected, identity, claim, key, sent, received>>
    PROVE  ChannelTypeOK' /\ KeyInv' /\ ToClientInv' /\ ToServerInv' /\ OpenedInv'
<1>0. ChannelTypeOK /\ KeyInv /\ HandshakeInv /\ ToClientInv /\ ToServerInv /\ OpenedInv
  BY DEF ChannelInv
<1>1. /\ wire' \in [End -> Seq(AllFrames)] /\ wire'["server"] = wire["server"]
      /\ Len(wire["client"]) \in Nat \ {0} /\ Len(wire'["client"]) = Len(wire["client"]) - 1
      /\ \A i \in 1..Len(wire'["client"]) : wire'["client"][i] = wire["client"][i + 1]
  BY <1>0, Popped, TheEnds
<1>2. at' \in [End -> Step] /\ at'["client"] = step /\ at'["server"] = at["server"]
  BY <1>0, WentTo, TheEnds DEF Step
<1>3. at["server"] # "hello" /\ key["client"] = NoKey /\ ~Agreed
  BY NextHandshakeFrame
<1>4. ChannelTypeOK'
  BY <1>0, <1>1, <1>2 DEF ChannelTypeOK
<1>5. KeyInv'
  BY <1>0, <1>2, <1>3 DEF KeyInv, End
<1>6. ToClientInv'
  <2>1. \A i \in 1..Len(wire'["client"]) : wire'["client"][i].kind # "packet"
    <3>1. \A i \in 1..Len(wire'["client"]) : i + 1 \in 1..Len(wire["client"])
      BY <1>1
    <3>2. \A i \in 1..Len(wire["client"]) : wire["client"][i].kind # "packet"
      BY <1>0, <1>3 DEF ToClientInv
    <3> QED
      BY <1>1, <3>1, <3>2
  <2>2. ~Agreed'
    BY <1>3 DEF Agreed
  <2> QED
    BY <1>0, <1>3, <2>1, <2>2 DEF ToClientInv
<1>7. ToServerInv'
  BY <1>0, <1>1, <1>2, <1>3 DEF ToServerInv, Connecting
<1>8. OpenedInv'
  BY <1>0 DEF OpenedInv
<1> QED
  BY <1>4, <1>5, <1>6, <1>7, <1>8

(* A client that read the last frame it expects, of the server it expects   *)
(* or without expecting one.                                                *)
LEMMA ClientOpens ==
    ASSUME ChannelInv, Connecting, Arrived("client"), Pop("client"), Goto("client", "open"),
           DeriveKey("client", "server", ContextOf(expected)),
           UNCHANGED <<expected, identity, claim, sent, received>>,
           expected = None \/ (claim = expected /\ identity = expected),
           expected = claim => FramesRead + 1 = HandshakeLen
    PROVE  ChannelInv'
<1>0. ChannelTypeOK /\ KeyInv /\ HandshakeInv /\ ToClientInv /\ ToServerInv /\ OpenedInv
  BY DEF ChannelInv
<1>1. /\ wire' \in [End -> Seq(AllFrames)] /\ wire'["server"] = wire["server"]
      /\ Len(wire["client"]) \in Nat \ {0} /\ Len(wire'["client"]) = Len(wire["client"]) - 1
      /\ \A i \in 1..Len(wire'["client"]) : wire'["client"][i] = wire["client"][i + 1]
  BY <1>0, Popped, TheEnds
<1>2. at' \in [End -> Step] /\ at'["client"] = "open" /\ at'["server"] = at["server"]
  BY <1>0, WentTo, TheEnds DEF Step
<1>3. at["server"] # "hello" /\ key["client"] = NoKey /\ ~Agreed
  BY NextHandshakeFrame
<1>4. /\ key' \in [End -> AllKeys] /\ key'["client"] = ChannelKey(expected)
      /\ key'["server"] = key["server"]
  BY <1>0, DerivedKey, TheEnds DEF ChannelTypeOK
<1>5. /\ ChannelKey(expected) # NoKey
      /\ ChannelKey(expected) = ChannelKey(claim) <=> expected = claim
  BY <1>0, KeysDiffer DEF ChannelTypeOK
<1>6. expected = claim => key["server"] # NoKey /\ Len(wire["client"]) = 1
  BY <1>0, NextHandshakeFrame DEF HandshakeInv
<1>7. ChannelTypeOK'
  BY <1>0, <1>1, <1>2, <1>4 DEF ChannelTypeOK
<1>8. KeyInv'
  BY <1>0, <1>2, <1>3, <1>4, <1>5, <1>6 DEF KeyInv, End
<1>9. HandshakeInv'
  BY <1>2 DEF HandshakeInv, Connecting
<1>10. ToClientInv'
  <2>1. \A i \in 1..Len(wire'["client"]) : wire'["client"][i].kind # "packet"
    <3>1. \A i \in 1..Len(wire'["client"]) : i + 1 \in 1..Len(wire["client"])
      BY <1>1
    <3>2. \A i \in 1..Len(wire["client"]) : wire["client"][i].kind # "packet"
      BY <1>0, <1>3 DEF ToClientInv
    <3> QED
      BY <1>1, <3>1, <3>2
  <2>2. Agreed' => expected = claim
    BY <1>0, <1>4, <1>5 DEF Agreed, KeyInv
  <2>3. Agreed' => Len(wire'["client"]) = 0
    BY <1>1, <1>6, <2>2
  <2>4. Len(sent'["server"]) = 0 /\ Len(received'["server"]) = 0 /\ Len(received'["client"]) = 0
    BY <1>0, <1>3 DEF ToClientInv
  <2> QED
    BY <2>1, <2>3, <2>4, NatFacts DEF ToClientInv
<1>11. ToServerInv'
  <2>1. Len(sent["client"]) = 0
    BY <1>0, <1>3 DEF ToServerInv
  <2>2. Len(wire["server"]) \in Nat /\ Len(received["server"]) \in Nat
    BY <1>0, NoneIsEmpty, TheEnds
  <2>3. at["server"] \in {"identity", "signature", "open"} =>
           Len(received["server"]) + Len(wire["server"]) <= Len(sent["client"])
    BY <1>0 DEF ToServerInv
  <2>4. at'["server"] \in {"identity", "signature", "open"} =>
           Len(wire'["server"]) = 0 /\ Len(received'["server"]) = 0
    BY <1>1, <1>2, <2>1, <2>2, <2>3, NatFacts
  <2> QED
    BY <1>2, <1>3, <2>1, <2>4, NatFacts DEF ToServerInv
<1>12. OpenedInv'
  BY <1>0 DEF OpenedInv
<1> QED
  BY <1>7, <1>8, <1>9, <1>10, <1>11, <1>12 DEF ChannelInv

(* The first frame of the server's handshake is its ephemeral key. *)
LEMMA KeyOfServer ==
    ASSUME ChannelInv, at["client"] = "ephemeral", Arrived("client")
    PROVE  Head(wire["client"]).content = "server"
<1>1. Connecting /\ FramesRead = 0
  BY DEF Connecting, FramesRead
<1>2. wire["client"][1] = Frame("ephemeral", "server")
  BY <1>1, NextHandshakeFrame, HandshakeFrames
<1>3. wire["client"] \in Seq(AllFrames) /\ wire["client"] # << >>
  BY TheEnds DEF ChannelInv, ChannelTypeOK, Arrived
<1> QED
  BY <1>2, <1>3, FrameFields, HeadTailProperties

LEMMA ClientReceivesKeyKeeps == ASSUME ChannelInv, ClientReceivesKey PROVE ChannelInv'
<1>1. /\ at["client"] = "ephemeral" /\ Arrived("client") /\ Pop("client")
      /\ UNCHANGED <<expected, identity, claim, claimed, sent, received>>
  BY DEF ClientReceivesKey, parties
<1>2. Connecting /\ FramesRead = 0
  BY <1>1 DEF Connecting, FramesRead
<1>3. CASE expected = None
  <2>1. Goto("client", "open") /\ DeriveKey("client", "server", ContextOf(expected))
    BY <1>3, KeyOfServer DEF ClientReceivesKey, ContextOf
  <2>2. expected = claim => FramesRead + 1 = HandshakeLen
    BY <1>2, <1>3 DEF HandshakeLen
  <2> QED
    BY <1>1, <1>2, <1>3, <2>1, <2>2, ClientOpens
<1>4. CASE expected # None
  <2>1. Goto("client", "identity") /\ UNCHANGED key
    BY <1>4 DEF ClientReceivesKey
  <2>2. ChannelTypeOK' /\ KeyInv' /\ ToClientInv' /\ ToServerInv' /\ OpenedInv'
    BY <1>1, <1>2, <2>1, ClientGoesOn
  <2>3. /\ Len(wire["client"]) \in Nat \ {0} /\ Len(wire'["client"]) = Len(wire["client"]) - 1
        /\ \A i \in 1..Len(wire'["client"]) : wire'["client"][i] = wire["client"][i + 1]
    BY <1>1, Popped, TheEnds DEF ChannelInv
  <2>4. at'["client"] = "identity" /\ at'["server"] = at["server"]
    BY <2>1, WentTo, TheEnds DEF Step, ChannelInv
  <2>5. HandshakeInv'
    BY <1>1, <1>2, <1>4, <2>1, <2>3, <2>4
    DEF ChannelInv, HandshakeInv, Connecting, FramesRead, FramesSent, HandshakeLen, HandshakeFrame
  <2> QED
    BY <2>2, <2>5 DEF ChannelInv
<1> QED
  BY <1>3, <1>4

LEMMA ClientReceivesIdentityKeeps ==
    ASSUME ChannelInv, ClientReceivesIdentity PROVE ChannelInv'
<1>1. /\ at["client"] = "identity" /\ Arrived("client") /\ Pop("client")
      /\ UNCHANGED <<expected, identity, claim, key, sent, received>>
  BY DEF ClientReceivesIdentity, parties
<1>2. Connecting /\ FramesRead = 1
  BY <1>1 DEF Connecting, FramesRead
<1>3. wire["client"][1] = HandshakeFrame(2) /\ claim # None
  BY <1>1, <1>2, NextHandshakeFrame DEF HandshakeLen
<1>4. /\ Len(wire["client"]) \in Nat \ {0} /\ Len(wire'["client"]) = Len(wire["client"]) - 1
      /\ \A i \in 1..Len(wire'["client"]) : wire'["client"][i] = wire["client"][i + 1]
      /\ Head(wire["client"]) = wire["client"][1]
  BY <1>1, Popped, TheEnds DEF ChannelInv
<1>5. Goto("client", "signature") /\ claimed' = claim
  BY <1>3, <1>4, HandshakeFrames, FrameFields DEF ClientReceivesIdentity
<1>6. ChannelTypeOK' /\ KeyInv' /\ ToClientInv' /\ ToServerInv' /\ OpenedInv'
  BY <1>1, <1>2, <1>5, ClientGoesOn
<1>7. at'["client"] = "signature" /\ at'["server"] = at["server"]
  BY <1>5, WentTo, TheEnds DEF Step, ChannelInv
<1>8. HandshakeInv'
  BY <1>1, <1>2, <1>3, <1>4, <1>5, <1>7
  DEF ChannelInv, HandshakeInv, Connecting, FramesRead, FramesSent, HandshakeLen, HandshakeFrame
<1> QED
  BY <1>6, <1>8 DEF ChannelInv

(* A signature that the client accepts was made by the server it talks to,  *)
(* with the key of the identity it claims.                                  *)
LEMMA SignerChecked ==
    ASSUME ChannelInv, PeerKeyInv, at["client"] = "signature", Arrived("client"),
           Accepts(Head(wire["client"]))
    PROVE  identity = claim /\ expected = claim
<1>1. Connecting /\ FramesRead = 2 /\ claimed = claim
  BY DEF Connecting, FramesRead, ChannelInv, HandshakeInv
<1>2. wire["client"][1] = HandshakeFrame(3)
  BY <1>1, NextHandshakeFrame
<1>3. wire["client"] \in Seq(AllFrames) /\ wire["client"] # << >>
  BY TheEnds DEF ChannelInv, ChannelTypeOK, Arrived
<1>4. Head(wire["client"]) = HandshakeFrame(3)
  BY <1>2, <1>3, HeadTailProperties
<1>5. expected = claim /\ HandshakeFrame(3) = Signature(claim, Transcript("client", "server", claim))
  BY <1>1, <1>4 DEF Accepts, ClientTranscript, PeerKeyInv
<1> QED
  BY <1>5, HandshakeFrames DEF Signature, Frame, Transcript

(* The client compares what it was sent with the identity it pins. *)
LEMMA ClientReceivesSignatureKeeps ==
    ASSUME ChannelInv, PeerKeyInv, ClientReceivesSignature PROVE ChannelInv'
<1>1. /\ at["client"] = "signature" /\ Arrived("client") /\ Pop("client")
      /\ UNCHANGED <<expected, identity, claim, claimed, sent, received>>
  BY DEF ClientReceivesSignature, parties
<1>2. Connecting /\ FramesRead = 2
  BY <1>1 DEF Connecting, FramesRead
<1>3. claimed = claim /\ expected # None /\ HandshakeLen = 3
  BY <1>1 DEF ChannelInv, HandshakeInv, HandshakeLen
<1>4. CASE Accepts(Head(wire["client"]))
  <2>1. /\ expected = claim /\ Goto("client", "open")
        /\ DeriveKey("client", "server", ContextOf(expected))
    BY <1>1, <1>3, <1>4
    DEF ClientReceivesSignature, Accepts, PeerKeyInv, ClientTranscript, ContextOf
  <2>2. identity = expected
    BY <1>1, <1>3, <1>4, SignerChecked
  <2> QED
    BY <1>1, <1>2, <1>3, <2>1, <2>2, ClientOpens
<1>5. CASE ~Accepts(Head(wire["client"]))
  <2>1. Goto("client", "closed") /\ UNCHANGED key
    BY <1>5 DEF ClientReceivesSignature
  <2>2. ChannelTypeOK' /\ KeyInv' /\ ToClientInv' /\ ToServerInv' /\ OpenedInv'
    BY <1>1, <1>2, <2>1, ClientGoesOn
  <2>3. at'["client"] = "closed"
    BY <2>1, WentTo, TheEnds DEF Step, ChannelInv
  <2>4. HandshakeInv'
    BY <2>3 DEF HandshakeInv, Connecting
  <2> QED
    BY <2>2, <2>4 DEF ChannelInv
<1> QED
  BY <1>4, <1>5

(* The server sends the next frame of its handshake. *)
LEMMA HandshakeExtended ==
    ASSUME ChannelInv, at["server"] \in {"hello", "identity", "signature"},
           at["client"] # "hello", at'["client"] = at["client"],
           Len(wire'["client"]) = Len(wire["client"]) + 1,
           \A i \in 1..Len(wire["client"]) : wire'["client"][i] = wire["client"][i],
           wire'["client"][Len(wire["client"]) + 1] = HandshakeFrame(FramesSent + 1),
           FramesSent' = FramesSent + 1, FramesSent + 1 <= HandshakeLen,
           FramesSent + 1 = HandshakeLen => key'["server"] # NoKey,
           ~Agreed', UNCHANGED <<expected, identity, claim, claimed, sent, received>>
    PROVE  HandshakeInv' /\ ToClientInv' /\ OpenedInv'
<1>0. ChannelTypeOK /\ KeyInv /\ HandshakeInv /\ ToClientInv /\ ToServerInv /\ OpenedInv
  BY DEF ChannelInv
<1>1. Len(wire["client"]) \in Nat /\ FramesRead \in Nat
  BY <1>0, NoneIsEmpty, TheEnds DEF FramesRead
<1>2. ~Agreed
  BY <1>0, TheEnds DEF KeyInv, Agreed
<1>3. \A i \in 1..Len(wire'["client"]) :
         i \in 1..Len(wire["client"]) \/ i = Len(wire["client"]) + 1
  BY <1>1
<1>4. HandshakeLen' = HandshakeLen /\ FramesRead' = FramesRead /\ Connecting' = Connecting
  BY DEF HandshakeLen, FramesRead, Connecting
<1>5. \A n : HandshakeFrame(n)' = HandshakeFrame(n)
  BY DEF HandshakeFrame
<1>6. ASSUME Connecting
      PROVE  /\ FramesRead + Len(wire'["client"]) = FramesSent + 1
             /\ \A i \in 1..Len(wire'["client"]) :
                   wire'["client"][i] = HandshakeFrame(FramesRead + i)
  <2>1. FramesRead + Len(wire["client"]) = FramesSent
    BY <1>0, <1>6 DEF HandshakeInv
  <2>2. FramesRead + (Len(wire["client"]) + 1) = FramesSent + 1
    BY <1>1, <2>1
  <2>3. \A i \in 1..Len(wire["client"]) : wire["client"][i] = HandshakeFrame(FramesRead + i)
    BY <1>0, <1>6 DEF HandshakeInv
  <2> QED
    BY <1>3, <2>2, <2>3
<1>7. HandshakeInv'
  <2>1. Connecting' =>
           /\ FramesRead' + Len(wire'["client"]) <= HandshakeLen'
           /\ \A i \in 1..Len(wire'["client"]) :
                 wire'["client"][i] = HandshakeFrame(FramesRead + i)'
           /\ FramesRead' + Len(wire'["client"]) = FramesSent'
           /\ FramesRead' + Len(wire'["client"]) = HandshakeLen' => key'["server"] # NoKey
    BY <1>4, <1>5, <1>6
  <2> QED
    BY <1>0, <2>1 DEF HandshakeInv
<1>8. ToClientInv'
  <2>1. HandshakeFrame(FramesSent + 1).kind # "packet"
    BY HandshakeFrames
  <2>2. \A i \in 1..Len(wire'["client"]) : wire'["client"][i].kind # "packet"
    BY <1>0, <1>2, <1>3, <2>1 DEF ToClientInv
  <2> QED
    BY <1>0, <1>2, <2>2 DEF ToClientInv
<1>9. OpenedInv'
  BY <1>0 DEF OpenedInv
<1> QED
  BY <1>7, <1>8, <1>9

(* What a server waiting for a hello receives is the client's ephemeral key. *)
LEMMA KeyOfClient ==
    ASSUME ChannelInv, PeerKeyInv, at["server"] = "hello", Arrived("server")
    PROVE  Head(wire["server"]).content = "client"
<1>1. wire["server"] \in Seq(AllFrames) /\ wire["server"] # << >>
  BY TheEnds DEF ChannelInv, ChannelTypeOK, Arrived
<1>2. Len(wire["server"]) \in Nat /\ Len(wire["server"]) # 0
  BY NoneIsEmpty, TheEnds DEF ChannelInv
<1>3. wire["server"][1] = Frame("ephemeral", "client")
  BY <1>2 DEF PeerKeyInv
<1> QED
  BY <1>1, <1>3, FrameFields, HeadTailProperties

LEMMA ServerReceivesHelloKeeps ==
    ASSUME ChannelInv, PeerKeyInv, ServerReceivesHello PROVE ChannelInv'
<1>0. ChannelTypeOK /\ KeyInv /\ HandshakeInv /\ ToClientInv /\ ToServerInv /\ OpenedInv
  BY DEF ChannelInv
<1>1. /\ at["server"] = "hello" /\ Arrived("server")
      /\ UNCHANGED <<expected, identity, claim, claimed, sent, received>>
  BY DEF ServerReceivesHello, parties
<1>2. wire["client"] \in Seq(AllFrames) /\ wire["server"] \in Seq(AllFrames)
  BY <1>0, TheEnds DEF ChannelTypeOK
<1>3. /\ wire'["client"] = Append(wire["client"], Frame("ephemeral", "server"))
      /\ wire'["server"] = Tail(wire["server"])
      /\ DOMAIN wire' = End /\ wire' = [e \in End |-> wire'[e]]
  BY DEF ServerReceivesHello, End
<1>4. wire["server"] # << >> /\ Len(wire["server"]) \in Nat /\ Len(wire["server"]) # 0
  BY <1>0, <1>1, NoneIsEmpty, TheEnds DEF Arrived
<1>5. Len(wire["server"]) = 1 /\ at["client"] # "hello" /\ key["client"] = NoKey
  BY <1>0, <1>1, <1>4, NatFacts DEF ToServerInv, KeyInv
<1>6. Len(wire'["server"]) = 0 /\ Tail(wire["server"]) \in Seq(AllFrames)
  BY <1>2, <1>3, <1>4, <1>5, HeadTailProperties
<1>7. /\ wire'["client"] \in Seq(AllFrames) /\ Len(wire'["client"]) = Len(wire["client"]) + 1
      /\ \A i \in 1..Len(wire["client"]) : wire'["client"][i] = wire["client"][i]
      /\ wire'["client"][Len(wire["client"]) + 1] = Frame("ephemeral", "server")
  BY <1>2, <1>3, FrameTypes, TheEnds, AppendProperties
<1>8. wire' \in [End -> Seq(AllFrames)]
  <2>1. \A e \in End : wire'[e] \in Seq(AllFrames)
    BY <1>3, <1>6, <1>7 DEF End
  <2> QED
    BY <1>3, <2>1
<1>9. /\ at' \in [End -> Step] /\ at'["client"] = at["client"]
      /\ at'["server"] = IF claim = None THEN "open" ELSE "identity"
  BY <1>0, WentTo, TheEnds DEF ServerReceivesHello, Step
<1>10. /\ key' \in [End -> AllKeys] /\ key'["client"] = key["client"]
       /\ key'["server"] = IF claim = None THEN ChannelKey(claim) ELSE NoKey
  <2>1. key["server"] = NoKey
    BY <1>0, <1>1, TheEnds DEF KeyInv
  <2>2. CASE claim = None
    <3>1. DeriveKey("server", "client", ContextOf(claim))
      BY <1>1, <2>2, KeyOfClient DEF ServerReceivesHello, ContextOf
    <3> QED
      BY <1>0, <2>2, <3>1, DerivedKey, TheEnds DEF ChannelTypeOK
  <2>3. CASE claim # None
    BY <1>0, <2>1, <2>3 DEF ServerReceivesHello, ChannelTypeOK
  <2> QED
    BY <2>2, <2>3
<1>11. ChannelKey(claim) # NoKey
  BY <1>0, KeysDiffer DEF ChannelTypeOK
<1>12. ChannelTypeOK'
  BY <1>0, <1>1, <1>8, <1>9, <1>10 DEF ChannelTypeOK
<1>13. KeyInv'
  BY <1>0, <1>1, <1>5, <1>9, <1>10, <1>11 DEF KeyInv, End
<1>14. HandshakeInv' /\ ToClientInv' /\ OpenedInv'
  <2>1. FramesSent = 0 /\ FramesSent' = FramesSent + 1 /\ FramesSent + 1 <= HandshakeLen
    BY <1>1, <1>9 DEF FramesSent, HandshakeLen
  <2>2. FramesSent + 1 = HandshakeLen => key'["server"] # NoKey
    BY <1>10, <1>11, <2>1 DEF HandshakeLen
  <2>3. wire'["client"][Len(wire["client"]) + 1] = HandshakeFrame(FramesSent + 1)
    BY <1>7, <2>1, HandshakeFrames
  <2>4. ~Agreed'
    BY <1>5, <1>10 DEF Agreed
  <2> QED
    BY <1>1, <1>5, <1>7, <1>9, <2>1, <2>2, <2>3, <2>4, HandshakeExtended
<1>15. ToServerInv'
  <2>1. Len(sent'["client"]) = 0 /\ Len(received'["server"]) = 0 /\ at'["server"] # "hello"
    BY <1>0, <1>1, <1>5, <1>9 DEF ToServerInv
  <2> QED
    BY <1>6, <2>1, NatFacts DEF ToServerInv
<1> QED
  BY <1>12, <1>13, <1>14, <1>15 DEF ChannelInv

LEMMA ServerSendsIdentityKeeps == ASSUME ChannelInv, ServerSendsIdentity PROVE ChannelInv'
<1>0. ChannelTypeOK /\ KeyInv /\ HandshakeInv /\ ToClientInv /\ ToServerInv /\ OpenedInv
  BY DEF ChannelInv
<1>1. /\ at["server"] = "identity" /\ Push("server", Frame("identity", claim))
      /\ Goto("server", "signature")
      /\ UNCHANGED <<expected, identity, claim, claimed, key, sent, received>>
  BY DEF ServerSendsIdentity, parties
<1>2. claim \in Identity /\ at["client"] # "hello" /\ key["server"] = NoKey
  BY <1>0, <1>1, TheEnds DEF ChannelTypeOK, KeyInv, HandshakeInv
<1>3. /\ wire' \in [End -> Seq(AllFrames)] /\ wire'["server"] = wire["server"]
      /\ Len(wire'["client"]) = Len(wire["client"]) + 1
      /\ \A i \in 1..Len(wire["client"]) : wire'["client"][i] = wire["client"][i]
      /\ wire'["client"][Len(wire["client"]) + 1] = Frame("identity", claim)
  <2>1. Frame("identity", claim) \in AllFrames
    BY <1>2, FrameTypes
  <2> QED
    BY <1>0, <1>1, <2>1, TheEnds, Pushed
<1>4. at' \in [End -> Step] /\ at'["client"] = at["client"] /\ at'["server"] = "signature"
  BY <1>0, <1>1, WentTo, TheEnds DEF Step
<1>5. ChannelTypeOK'
  BY <1>0, <1>1, <1>3, <1>4 DEF ChannelTypeOK
<1>6. KeyInv'
  BY <1>0, <1>1, <1>4 DEF KeyInv, End
<1>7. HandshakeInv' /\ ToClientInv' /\ OpenedInv'
  <2>1. FramesSent = 1 /\ FramesSent' = FramesSent + 1 /\ HandshakeLen = 3
    BY <1>1, <1>2, <1>4, ChannelAssumption DEF FramesSent, HandshakeLen
  <2>2. wire'["client"][Len(wire["client"]) + 1] = HandshakeFrame(FramesSent + 1)
    BY <1>3, <2>1, HandshakeFrames
  <2>3. ~Agreed'
    BY <1>1, <1>2 DEF Agreed
  <2> QED
    BY <1>1, <1>2, <1>3, <1>4, <2>1, <2>2, <2>3, HandshakeExtended
<1>8. ToServerInv'
  BY <1>0, <1>1, <1>3, <1>4 DEF ToServerInv
<1> QED
  BY <1>5, <1>6, <1>7, <1>8 DEF ChannelInv

LEMMA ServerSendsSignatureKeeps ==
    ASSUME ChannelInv, PeerKeyInv, ServerSendsSignature PROVE ChannelInv'
<1>0. ChannelTypeOK /\ KeyInv /\ HandshakeInv /\ ToClientInv /\ ToServerInv /\ OpenedInv
  BY DEF ChannelInv
<1>1. /\ at["server"] = "signature" /\ Push("server", HandshakeFrame(3))
      /\ Goto("server", "open") /\ DeriveKey("server", "client", ContextOf(claim))
      /\ UNCHANGED <<expected, identity, claim, claimed, sent, received>>
  <2>1. peer_key["server"] = "client" /\ claim # None
    BY DEF ServerSendsSignature, PeerKeyInv, ChannelInv, KeyInv
  <2> QED
    BY <2>1, HandshakeFrames
    DEF ServerSendsSignature, Proof, ServerTranscript, ContextOf, parties
<1>2. claim \in Identity /\ at["client"] # "hello" /\ key["server"] = NoKey
  BY <1>0, <1>1, TheEnds DEF ChannelTypeOK, KeyInv, HandshakeInv
<1>3. /\ wire' \in [End -> Seq(AllFrames)] /\ wire'["server"] = wire["server"]
      /\ Len(wire'["client"]) = Len(wire["client"]) + 1
      /\ \A i \in 1..Len(wire["client"]) : wire'["client"][i] = wire["client"][i]
      /\ wire'["client"][Len(wire["client"]) + 1] = HandshakeFrame(3)
  <2>1. HandshakeFrame(3) \in AllFrames
    BY <1>0, <1>2, HandshakeFrames, FrameTypes DEF ChannelTypeOK
  <2> QED
    BY <1>0, <1>1, <2>1, TheEnds, Pushed
<1>4. at' \in [End -> Step] /\ at'["client"] = at["client"] /\ at'["server"] = "open"
  BY <1>0, <1>1, WentTo, TheEnds DEF Step
<1>5. /\ key' \in [End -> AllKeys] /\ key'["client"] = key["client"]
      /\ key'["server"] = ChannelKey(claim)
  BY <1>0, <1>1, <1>2, DerivedKey, TheEnds DEF ChannelTypeOK
<1>6. /\ ChannelKey(claim) # NoKey
      /\ ChannelKey(expected) = ChannelKey(claim) <=> expected = claim
  BY <1>0, KeysDiffer DEF ChannelTypeOK
<1>7. key["client"] # ChannelKey(claim)
  BY <1>0, <1>2, <1>6 DEF KeyInv
<1>8. ChannelTypeOK'
  BY <1>0, <1>1, <1>3, <1>4, <1>5 DEF ChannelTypeOK
<1>9. KeyInv'
  BY <1>0, <1>1, <1>4, <1>5, <1>6 DEF KeyInv, End
<1>10. HandshakeInv' /\ ToClientInv' /\ OpenedInv'
  <2>1. FramesSent = 2 /\ FramesSent' = FramesSent + 1 /\ HandshakeLen = 3
    BY <1>1, <1>2, <1>4, ChannelAssumption DEF FramesSent, HandshakeLen
  <2>2. wire'["client"][Len(wire["client"]) + 1] = HandshakeFrame(FramesSent + 1)
    BY <1>3, <2>1, HandshakeFrames
  <2>3. ~Agreed'
    BY <1>5, <1>7 DEF Agreed
  <2> QED
    BY <1>1, <1>2, <1>3, <1>4, <1>5, <1>6, <2>1, <2>2, <2>3, HandshakeExtended
<1>11. ToServerInv'
  BY <1>0, <1>1, <1>3, <1>4, <1>5 DEF ToServerInv
<1> QED
  BY <1>8, <1>9, <1>10, <1>11 DEF ChannelInv

(* An end goes away; what it sent arrives up to some frame. *)
LEMMA ClientShuts ==
    ASSUME ChannelInv, Goto("client", "closed"), wire' \in [End -> Seq(AllFrames)],
           wire'["client"] = wire["client"], Len(wire'["server"]) <= Len(wire["server"]),
           \A i \in 1..Len(wire'["server"]) : wire'["server"][i] = wire["server"][i],
           UNCHANGED <<expected, identity, claim, claimed, key, sent, received>>
    PROVE  ChannelInv'
<1>0. ChannelTypeOK /\ KeyInv /\ HandshakeInv /\ ToClientInv /\ ToServerInv /\ OpenedInv
  BY DEF ChannelInv
<1>1. at' \in [End -> Step] /\ at'["client"] = "closed" /\ at'["server"] = at["server"]
  BY <1>0, WentTo, TheEnds DEF Step
<1>2. ChannelTypeOK'
  BY <1>0, <1>1 DEF ChannelTypeOK
<1>3. KeyInv'
  BY <1>0, <1>1 DEF KeyInv, End
<1>4. HandshakeInv'
  BY <1>1 DEF HandshakeInv, Connecting
<1>5. ToClientInv'
  BY <1>0, <1>1 DEF ToClientInv, Agreed
<1>6. ToServerInv'
  <2>1. /\ Len(wire["server"]) \in Nat /\ Len(wire'["server"]) \in Nat
        /\ Len(received["server"]) \in Nat /\ Len(sent["client"]) \in Nat
    BY <1>0, <1>2, NoneIsEmpty, TheEnds DEF ChannelTypeOK
  <2>2. \A i \in 1..Len(wire'["server"]) : i \in 1..Len(wire["server"])
    BY <2>1
  <2>3. at["server"] = "hello" => Len(wire'["server"]) <= 1
    BY <1>0, <2>1 DEF ToServerInv
  <2>4. at["server"] \in {"identity", "signature", "open"} =>
           Len(received["server"]) + Len(wire'["server"]) <= Len(sent["client"])
    <3>1. at["server"] \in {"identity", "signature", "open"} =>
             Len(received["server"]) + Len(wire["server"]) <= Len(sent["client"])
      BY <1>0 DEF ToServerInv
    <3> QED
      BY <2>1, <3>1, Shorter
  <2> QED
    BY <1>0, <1>1, <2>2, <2>3, <2>4 DEF ToServerInv
<1>7. OpenedInv'
  BY <1>0 DEF OpenedInv
<1> QED
  BY <1>2, <1>3, <1>4, <1>5, <1>6, <1>7 DEF ChannelInv

LEMMA ServerShuts ==
    ASSUME ChannelInv, Goto("server", "closed"), wire' \in [End -> Seq(AllFrames)],
           Len(wire'["client"]) <= Len(wire["client"]),
           \A i \in 1..Len(wire'["client"]) : wire'["client"][i] = wire["client"][i],
           UNCHANGED <<expected, identity, claim, claimed, key, sent, received>>
    PROVE  ChannelInv'
<1>0. ChannelTypeOK /\ KeyInv /\ HandshakeInv /\ ToClientInv /\ ToServerInv /\ OpenedInv
  BY DEF ChannelInv
<1>1. at' \in [End -> Step] /\ at'["client"] = at["client"] /\ at'["server"] = "closed"
  BY <1>0, WentTo, TheEnds DEF Step
<1>2. ChannelTypeOK'
  BY <1>0, <1>1 DEF ChannelTypeOK
<1>3. KeyInv'
  BY <1>0, <1>1 DEF KeyInv, End
<1>4. /\ Len(wire["client"]) \in Nat /\ Len(wire'["client"]) \in Nat /\ FramesRead \in Nat
      /\ Len(received["client"]) \in Nat /\ Len(sent["server"]) \in Nat
      /\ HandshakeLen \in Nat
  BY <1>0, <1>2, NoneIsEmpty, TheEnds DEF ChannelTypeOK, FramesRead, HandshakeLen
<1>5. \A i \in 1..Len(wire'["client"]) : i \in 1..Len(wire["client"])
  BY <1>4
<1>6. HandshakeInv'
  <2>1. HandshakeLen' = HandshakeLen /\ FramesRead' = FramesRead /\ Connecting' = Connecting
    BY <1>1 DEF HandshakeLen, FramesRead, Connecting
  <2>2. \A n : HandshakeFrame(n)' = HandshakeFrame(n)
    BY DEF HandshakeFrame
  <2>3. Connecting => FramesRead + Len(wire["client"]) <= HandshakeLen
    BY <1>0 DEF HandshakeInv
  <2>4. Connecting => /\ FramesRead + Len(wire'["client"]) <= HandshakeLen
                      /\ (FramesRead + Len(wire'["client"]) = HandshakeLen =>
                            FramesRead + Len(wire["client"]) = HandshakeLen)
    <3> DEFINE r == FramesRead
               m == Len(wire'["client"])
               n == Len(wire["client"])
               l == HandshakeLen
    <3>1. m \in Nat /\ n \in Nat /\ r \in Nat /\ l \in Nat /\ m <= n
      BY <1>4
    <3>2. Connecting => r + n <= l
      BY <2>3
    <3> HIDE DEF r, m, n, l
    <3>3. Connecting => r + m <= l /\ (r + m = l => r + n = l)
      BY <3>1, <3>2, Shorter
    <3> QED
      BY <3>3 DEF r, m, n, l
  <2>5. Connecting => \A i \in 1..Len(wire'["client"]) :
                         wire'["client"][i] = HandshakeFrame(FramesRead + i)
    BY <1>0, <1>5 DEF HandshakeInv
  <2> QED
    BY <1>0, <1>1, <2>1, <2>2, <2>4, <2>5 DEF HandshakeInv
<1>7. ToClientInv'
  <2>1. Agreed' <=> Agreed
    BY DEF Agreed
  <2>2. Agreed => Len(received["client"]) + Len(wire'["client"]) <= Len(sent["server"])
    <3>1. Agreed => Len(received["client"]) + Len(wire["client"]) <= Len(sent["server"])
      BY <1>0 DEF ToClientInv
    <3> QED
      BY <1>4, <3>1, Shorter
  <2> QED
    BY <1>0, <1>1, <1>5, <2>1, <2>2 DEF ToClientInv
<1>8. ToServerInv'
  BY <1>0, <1>1 DEF ToServerInv
<1>9. OpenedInv'
  BY <1>0 DEF OpenedInv
<1> QED
  BY <1>2, <1>3, <1>6, <1>7, <1>8, <1>9 DEF ChannelInv

(* Nothing is lost when an end goes away without taking anything back. *)
LEMMA ShutsKeepingAll ==
    ASSUME ChannelInv, NEW e \in End, Goto(e, "closed"),
           UNCHANGED <<expected, identity, claim, claimed, wire, key, sent, received>>
    PROVE  ChannelInv'
<1>1. /\ wire' \in [End -> Seq(AllFrames)]
      /\ \A d \in End : Len(wire'[d]) <= Len(wire[d])
  BY NoneIsEmpty DEF ChannelInv, ChannelTypeOK
<1>2. e \in {"client", "server"}
  BY DEF End
<1> QED
  BY <1>1, <1>2, TheEnds, ClientShuts, ServerShuts

LEMMA CloseKeeps == ASSUME ChannelInv, NEW e \in End, Close(e) PROVE ChannelInv'
<1>1. wire \in [End -> Seq(AllFrames)] /\ Peer(e) \in End /\ Peer(e) # e
  BY DEF ChannelInv, ChannelTypeOK, End, Peer
<1>2. PICK n \in 0..Len(wire[Peer(e)]) :
          wire' = [wire EXCEPT ![Peer(e)] = SubSeq(@, 1, n)]
  BY DEF Close, parties
<1> DEFINE w == wire[Peer(e)]
<1>3. w \in Seq(AllFrames) /\ n \in Nat /\ n <= Len(w)
  BY <1>1
<1>4. /\ SubSeq(w, 1, n) \in Seq(AllFrames) /\ Len(SubSeq(w, 1, n)) = n
      /\ \A i \in 1..n : SubSeq(w, 1, n)[i] = w[i]
  BY <1>3
<1>5. /\ wire' \in [End -> Seq(AllFrames)] /\ wire'[e] = wire[e]
      /\ wire'[Peer(e)] = SubSeq(w, 1, n)
  BY <1>1, <1>2, <1>4
<1>6. /\ Len(wire'[Peer(e)]) <= Len(w)
      /\ \A i \in 1..Len(wire'[Peer(e)]) : wire'[Peer(e)][i] = w[i]
  BY <1>3, <1>4, <1>5
<1>7. /\ Goto(e, "closed")
      /\ UNCHANGED <<expected, identity, claim, claimed, key, sent, received>>
  BY DEF Close, parties
<1>8. CASE e = "client"
  BY <1>5, <1>6, <1>7, <1>8, TheEnds, ClientShuts
<1>9. CASE e = "server"
  BY <1>5, <1>6, <1>7, <1>9, TheEnds, ServerShuts
<1> QED
  BY <1>8, <1>9 DEF End

(* A message is recorded as sent and put on the wire behind the others. *)
LEMMA MessageSent ==
    ASSUME ChannelTypeOK, NEW e \in End, NEW p \in End, p = Peer(e), SendMsg(e)
    PROVE  \E m \in Message :
              LET n == Len(wire[p])
                  k == Len(sent[e])
              IN  /\ wire' \in [End -> Seq(AllFrames)] /\ wire'[e] = wire[e]
                  /\ n \in Nat /\ Len(wire'[p]) = n + 1
                  /\ \A i \in 1..n : wire'[p][i] = wire[p][i]
                  /\ wire'[p][n + 1] = Packet(key[e], m)
                  /\ sent' \in [End -> Seq(Message)] /\ sent'[p] = sent[p]
                  /\ k \in Nat /\ Len(sent'[e]) = k + 1
                  /\ \A i \in 1..k : sent'[e][i] = sent[e][i]
                  /\ sent'[e][k + 1] = m
<1>0. Script[Len(sent[e]) + 1] \subseteq Message
  <2>1. sent[e] \in Seq(Message) /\ Len(sent[e]) < Len(Script)
    BY DEF ChannelTypeOK, SendMsg, MaySend
  <2>2. Len(sent[e]) + 1 \in 1..Len(Script) /\ Script \in Seq(SUBSET Message)
    BY <2>1, ChannelAssumption
  <2> QED
    BY <2>2
<1>1. PICK m \in Message : /\ Push(e, Packet(key[e], m))
                           /\ sent' = [sent EXCEPT ![e] = Append(@, m)]
  BY <1>0 DEF SendMsg, Packet
<1>2. Packet(key[e], m) \in AllFrames
  BY FrameTypes DEF ChannelTypeOK
<1>3. sent[e] \in Seq(Message) /\ Peer(e) \in End /\ Peer(e) # e
  BY DEF ChannelTypeOK, End, Peer
<1>4. sent'[e] = Append(sent[e], m) /\ sent'[Peer(e)] = sent[Peer(e)]
  BY <1>1, <1>3 DEF ChannelTypeOK
<1>5. sent' \in [End -> Seq(Message)]
  BY <1>1, <1>3, AppendProperties DEF ChannelTypeOK
<1>6. /\ Len(sent[e]) \in Nat /\ Len(sent'[e]) = Len(sent[e]) + 1
      /\ \A i \in 1..Len(sent[e]) : sent'[e][i] = sent[e][i]
      /\ sent'[e][Len(sent[e]) + 1] = m
  BY <1>3, <1>4, AppendProperties
<1> QED
  BY <1>1, <1>2, <1>4, <1>5, <1>6, Pushed

(* One more of the same on both sides. *)
LEMMA OneMore ==
    ASSUME NEW r \in Nat, NEW w \in Nat, NEW l \in Nat
    PROVE  /\ r + w <= l => r + (w + 1) <= l + 1
           /\ r + w = l => r + (w + 1) = l + 1
           /\ r + w <= l => \A i \in 1..w : r + i \in 1..l
           /\ r <= l => 1..r \subseteq 1..l /\ r <= l + 1
           /\ \A i \in 1..(w + 1) : i \in 1..w \/ i = w + 1
OBVIOUS

LEMMA ClientSends == ASSUME ChannelInv, SendMsg("client") PROVE ChannelInv'
<1>0. ChannelTypeOK /\ KeyInv /\ HandshakeInv /\ ToClientInv /\ ToServerInv /\ OpenedInv
  BY DEF ChannelInv
<1>1. /\ at["client"] = "open"
      /\ UNCHANGED <<expected, identity, claim, claimed, at, key, received>>
  BY DEF SendMsg, MaySend, Open, parties
<1> DEFINE w == Len(wire["server"])
           l == Len(sent["client"])
           r == Len(received["server"])
<1>2. PICK m \in Message :
          /\ wire' \in [End -> Seq(AllFrames)] /\ wire'["client"] = wire["client"]
          /\ w \in Nat /\ Len(wire'["server"]) = w + 1
          /\ \A i \in 1..w : wire'["server"][i] = wire["server"][i]
          /\ wire'["server"][w + 1] = Packet(key["client"], m)
          /\ sent' \in [End -> Seq(Message)] /\ sent'["server"] = sent["server"]
          /\ l \in Nat /\ Len(sent'["client"]) = l + 1
          /\ \A i \in 1..l : sent'["client"][i] = sent["client"][i]
          /\ sent'["client"][l + 1] = m
  BY <1>0, MessageSent, TheEnds
<1>3. r \in Nat
  BY <1>0, NoneIsEmpty, TheEnds
<1>4. key["client"] # NoKey /\ at["server"] # "hello"
  BY <1>0, <1>1, TheEnds DEF KeyInv
<1>5. ChannelTypeOK'
  BY <1>0, <1>1, <1>2 DEF ChannelTypeOK
<1>6. KeyInv'
  BY <1>0, <1>1 DEF KeyInv
<1>7. HandshakeInv'
  BY <1>1 DEF HandshakeInv, Connecting
<1>8. ToClientInv'
  BY <1>0, <1>1, <1>2 DEF ToClientInv, Agreed
<1>9. ToServerInv'
  <2>1. ASSUME at["server"] \in {"identity", "signature", "open"}
        PROVE  /\ r + w = l
               /\ \A i \in 1..w : wire["server"][i] = Packet(key["client"], sent["client"][r + i])
    BY <1>0, <1>1, <2>1 DEF ToServerInv
  <2> HIDE DEF w, l, r
  <2>2. ASSUME at["server"] \in {"identity", "signature", "open"}
        PROVE  /\ r + (w + 1) = l + 1 /\ r + (w + 1) <= l + 1
               /\ \A i \in 1..(w + 1) :
                     wire'["server"][i] = Packet(key["client"], sent'["client"][r + i])
    <3>1. r + (w + 1) = l + 1 /\ r + (w + 1) <= l + 1
      BY <1>2, <1>3, <2>1, <2>2, OneMore
    <3>2. \A i \in 1..w : wire'["server"][i] = Packet(key["client"], sent'["client"][r + i])
      BY <1>2, <1>3, <2>1, <2>2, OneMore
    <3>3. wire'["server"][w + 1] = Packet(key["client"], sent'["client"][r + (w + 1)])
      BY <1>2, <3>1
    <3> QED
      BY <1>2, <1>3, <3>1, <3>2, <3>3, OneMore
  <2> QED
    BY <1>1, <1>2, <1>4, <2>2 DEF ToServerInv, w, l, r
<1>10. OpenedInv'
  <2>1. r <= l /\ \A i \in 1..r : received["server"][i] = sent["client"][i]
    BY <1>0, TheEnds DEF OpenedInv
  <2> HIDE DEF w, l, r
  <2>2. r <= l + 1 /\ \A i \in 1..r : received["server"][i] = sent'["client"][i]
    BY <1>2, <1>3, <2>1, OneMore
  <2> QED
    BY <1>0, <1>1, <1>2, <2>2, TheEnds DEF OpenedInv, End, l, r
<1> QED
  BY <1>5, <1>6, <1>7, <1>8, <1>9, <1>10 DEF ChannelInv

(* The server answers only a client that has its key: it received something. *)
LEMMA ServerSends == ASSUME ChannelInv, SendMsg("server") PROVE ChannelInv'
<1>0. ChannelTypeOK /\ KeyInv /\ HandshakeInv /\ ToClientInv /\ ToServerInv /\ OpenedInv
  BY DEF ChannelInv
<1>1. /\ at["server"] = "open" /\ received["server"] # << >>
      /\ UNCHANGED <<expected, identity, claim, claimed, at, key, received>>
  BY DEF SendMsg, MaySend, Open, parties
<1> DEFINE w == Len(wire["client"])
           l == Len(sent["server"])
           r == Len(received["client"])
<1>2. PICK m \in Message :
          /\ wire' \in [End -> Seq(AllFrames)] /\ wire'["server"] = wire["server"]
          /\ w \in Nat /\ Len(wire'["client"]) = w + 1
          /\ \A i \in 1..w : wire'["client"][i] = wire["client"][i]
          /\ wire'["client"][w + 1] = Packet(key["server"], m)
          /\ sent' \in [End -> Seq(Message)] /\ sent'["client"] = sent["client"]
          /\ l \in Nat /\ Len(sent'["server"]) = l + 1
          /\ \A i \in 1..l : sent'["server"][i] = sent["server"][i]
          /\ sent'["server"][l + 1] = m
  BY <1>0, MessageSent, TheEnds
<1>3. r \in Nat
  BY <1>0, NoneIsEmpty, TheEnds
<1>4. Agreed
  BY <1>0, <1>1, NoneIsEmpty, TheEnds DEF ToClientInv
<1>5. at["client"] \in {"open", "closed"}
  BY <1>0, <1>4, TheEnds DEF KeyInv, Agreed
<1>6. ChannelTypeOK'
  BY <1>0, <1>1, <1>2 DEF ChannelTypeOK
<1>7. KeyInv'
  BY <1>0, <1>1 DEF KeyInv
<1>8. HandshakeInv'
  BY <1>1, <1>5 DEF HandshakeInv, Connecting
<1>9. ToClientInv'
  <2>1. /\ r + w = l
        /\ \A i \in 1..w : wire["client"][i] = Packet(key["server"], sent["server"][r + i])
    BY <1>0, <1>1, <1>4 DEF ToClientInv
  <2> HIDE DEF w, l, r
  <2>2. r + (w + 1) = l + 1 /\ r + (w + 1) <= l + 1
    BY <1>2, <1>3, <2>1, OneMore
  <2>3. \A i \in 1..w : wire'["client"][i] = Packet(key["server"], sent'["server"][r + i])
    BY <1>2, <1>3, <2>1, OneMore
  <2>4. wire'["client"][w + 1] = Packet(key["server"], sent'["server"][r + (w + 1)])
    BY <1>2, <2>2
  <2>5. \A i \in 1..(w + 1) :
           wire'["client"][i] = Packet(key["server"], sent'["server"][r + i])
    BY <1>2, <1>3, <2>3, <2>4, OneMore
  <2>6. Agreed'
    BY <1>1, <1>4 DEF Agreed
  <2> QED
    BY <1>1, <1>2, <2>2, <2>5, <2>6 DEF ToClientInv, w, l, r
<1>10. ToServerInv'
  BY <1>0, <1>1, <1>2 DEF ToServerInv
<1>11. OpenedInv'
  <2>1. r <= l /\ \A i \in 1..r : received["client"][i] = sent["server"][i]
    BY <1>0, TheEnds DEF OpenedInv
  <2> HIDE DEF w, l, r
  <2>2. r <= l + 1 /\ \A i \in 1..r : received["client"][i] = sent'["server"][i]
    BY <1>2, <1>3, <2>1, OneMore
  <2> QED
    BY <1>0, <1>1, <1>2, <2>2, TheEnds DEF OpenedInv, End, l, r
<1> QED
  BY <1>6, <1>7, <1>8, <1>9, <1>10, <1>11 DEF ChannelInv

(* One read and opened: less on the wire, more received. *)
LEMMA OneRead ==
    ASSUME NEW r \in Nat, NEW w \in Nat \ {0}, NEW l \in Nat, r + w <= l
    PROVE  /\ (r + 1) + (w - 1) <= l
           /\ r + w = l => (r + 1) + (w - 1) = l
           /\ \A i \in 1..(w - 1) : i + 1 \in 1..w /\ r + (i + 1) = (r + 1) + i
           /\ 1 \in 1..w /\ r + 1 \in 1..l /\ r + 1 <= l
           /\ \A i \in 1..(r + 1) : i \in 1..r \/ i = r + 1
OBVIOUS

(* A message is opened: it is appended to what was received. *)
LEMMA MessageOpened ==
    ASSUME ChannelTypeOK, NEW e \in End, NEW p \in End, p = Peer(e), NEW m \in Message,
           received' = [received EXCEPT ![e] = Append(@, m)]
    PROVE  LET r == Len(received[e])
           IN  /\ received' \in [End -> Seq(Message)] /\ received'[p] = received[p]
               /\ r \in Nat /\ Len(received'[e]) = r + 1
               /\ \A i \in 1..r : received'[e][i] = received[e][i]
               /\ received'[e][r + 1] = m
<1>1. received[e] \in Seq(Message) /\ p # e
  BY DEF ChannelTypeOK, End, Peer
<1>2. received'[e] = Append(received[e], m) /\ received'[p] = received[p]
  BY <1>1 DEF ChannelTypeOK
<1>3. received' \in [End -> Seq(Message)]
  BY <1>1, AppendProperties DEF ChannelTypeOK
<1> QED
  BY <1>1, <1>2, <1>3, AppendProperties

LEMMA ServerReceives == ASSUME ChannelInv, ReceiveMsg("server") PROVE ChannelInv'
<1>0. ChannelTypeOK /\ KeyInv /\ HandshakeInv /\ ToClientInv /\ ToServerInv /\ OpenedInv
  BY DEF ChannelInv
<1>1. /\ at["server"] = "open" /\ Arrived("server") /\ Pop("server")
      /\ UNCHANGED <<expected, identity, claim, claimed, key, sent>>
  BY DEF ReceiveMsg, Open, parties
<1> DEFINE w == Len(wire["server"])
           l == Len(sent["client"])
           r == Len(received["server"])
           frame == Head(wire["server"])
<1>2. /\ wire' \in [End -> Seq(AllFrames)] /\ wire'["client"] = wire["client"]
      /\ w \in Nat \ {0} /\ Len(wire'["server"]) = w - 1
      /\ \A i \in 1..Len(wire'["server"]) : wire'["server"][i] = wire["server"][i + 1]
      /\ frame = wire["server"][1]
  BY <1>0, <1>1, Popped, TheEnds
<1>3. r \in Nat /\ l \in Nat /\ sent["client"] \in Seq(Message)
  BY <1>0, NoneIsEmpty, TheEnds DEF ChannelTypeOK
<1>4. /\ r + w <= l /\ (at["client"] # "closed" => r + w = l)
      /\ \A i \in 1..w : wire["server"][i] = Packet(key["client"], sent["client"][r + i])
  BY <1>0, <1>1 DEF ToServerInv
<1>5. frame = Packet(key["client"], sent["client"][r + 1]) /\ sent["client"][r + 1] \in Message
  <2> HIDE DEF w, l, r, frame
  <2>1. 1 \in 1..w /\ r + 1 \in 1..l
    BY <1>2, <1>3, <1>4, OneRead
  <2>2. frame = Packet(key["client"], sent["client"][r + 1])
    BY <1>2, <1>4, <2>1
  <2> QED
    BY <1>3, <2>1, <2>2 DEF l
<1>6. key["server"] # NoKey
  BY <1>0, <1>1, TheEnds DEF KeyInv
<1>7. CASE Opens("server", frame)
  <2>1. /\ received' = [received EXCEPT !["server"] = Append(@, sent["client"][r + 1])]
        /\ UNCHANGED at
    BY <1>5, <1>7, PacketFields DEF ReceiveMsg
  <2>2. Agreed
    BY <1>5, <1>6, <1>7, PacketFields DEF Opens, Agreed
  <2>3. /\ received' \in [End -> Seq(Message)] /\ received'["client"] = received["client"]
        /\ Len(received'["server"]) = r + 1
        /\ \A i \in 1..r : received'["server"][i] = received["server"][i]
        /\ received'["server"][r + 1] = sent["client"][r + 1]
    <3>1. PICK m : m = sent["client"][r + 1]
      OBVIOUS
    <3>2. m \in Message /\ received' = [received EXCEPT !["server"] = Append(@, m)]
      BY <1>5, <2>1, <3>1
    <3>3. /\ received' \in [End -> Seq(Message)] /\ received'["client"] = received["client"]
          /\ Len(received'["server"]) = r + 1
          /\ \A i \in 1..r : received'["server"][i] = received["server"][i]
          /\ received'["server"][r + 1] = m
      BY <1>0, <3>2, MessageOpened, TheEnds
    <3> QED
      BY <3>1, <3>3
  <2>4. Agreed' /\ Agreed
    BY <1>1, <2>2 DEF Agreed
  <2>5. ChannelTypeOK'
    BY <1>0, <1>1, <1>2, <2>1, <2>3 DEF ChannelTypeOK
  <2>6. KeyInv'
    BY <1>0, <1>1, <2>1 DEF KeyInv
  <2>7. HandshakeInv'
    BY <1>0, <1>1, <1>2, <2>1
    DEF HandshakeInv, Connecting, FramesRead, FramesSent, HandshakeLen, HandshakeFrame
  <2>8. ToClientInv'
    BY <1>0, <1>1, <1>2, <2>1, <2>3, <2>4 DEF ToClientInv
  <2>9. ToServerInv'
    <3> HIDE DEF w, l, r, frame
    <3>1. (r + 1) + (w - 1) <= l /\ (at["client"] # "closed" => (r + 1) + (w - 1) = l)
      BY <1>2, <1>3, <1>4, OneRead
    <3>2. \A i \in 1..(w - 1) :
             wire'["server"][i] = Packet(key["client"], sent["client"][(r + 1) + i])
      BY <1>2, <1>3, <1>4, OneRead
    <3>3. key["client"] # NoKey
      BY <2>4 DEF Agreed
    <3> QED
      BY <1>1, <1>2, <2>1, <2>3, <3>1, <3>2, <3>3 DEF ToServerInv, l
  <2>10. OpenedInv'
    <3>1. r <= l /\ \A i \in 1..r : received["server"][i] = sent["client"][i]
      BY <1>0, TheEnds DEF OpenedInv
    <3> HIDE DEF w, l, r, frame
    <3>2. r + 1 <= l /\ \A i \in 1..(r + 1) : i \in 1..r \/ i = r + 1
      BY <1>2, <1>3, <1>4, OneRead
    <3>3. \A i \in 1..(r + 1) : received'["server"][i] = sent["client"][i]
      BY <2>3, <3>1, <3>2
    <3>4. /\ Len(received'["server"]) <= Len(sent'["client"])
          /\ \A i \in 1..Len(received'["server"]) : received'["server"][i] = sent'["client"][i]
      BY <1>1, <2>3, <3>2, <3>3 DEF l
    <3>5. /\ Len(received'["client"]) <= Len(sent'["server"])
          /\ \A i \in 1..Len(received'["client"]) : received'["client"][i] = sent'["server"][i]
      <4>1. received'["client"] = received["client"] /\ sent'["server"] = sent["server"]
        BY <1>1, <2>3
      <4>2. /\ Len(received["client"]) <= Len(sent["server"])
            /\ \A i \in 1..Len(received["client"]) : received["client"][i] = sent["server"][i]
        BY <1>0, TheEnds DEF OpenedInv
      <4> QED
        BY <4>1, <4>2
    <3> QED
      BY <3>4, <3>5, TheEnds DEF OpenedInv, End
  <2> QED
    BY <2>5, <2>6, <2>7, <2>8, <2>9, <2>10 DEF ChannelInv
<1>8. CASE ~Opens("server", frame)
  <2>1. UNCHANGED received /\ Goto("server", "closed")
    BY <1>8 DEF ReceiveMsg
  <2>2. Len(wire'["client"]) <= Len(wire["client"])
    BY <1>0, <1>2, NoneIsEmpty, TheEnds
  <2> QED
    BY <1>1, <1>2, <2>1, <2>2, ServerShuts
<1> QED
  BY <1>7, <1>8

LEMMA ClientReceives == ASSUME ChannelInv, ReceiveMsg("client") PROVE ChannelInv'
<1>0. ChannelTypeOK /\ KeyInv /\ HandshakeInv /\ ToClientInv /\ ToServerInv /\ OpenedInv
  BY DEF ChannelInv
<1>1. /\ at["client"] = "open" /\ Arrived("client") /\ Pop("client")
      /\ UNCHANGED <<expected, identity, claim, claimed, key, sent, at>>
  BY DEF ReceiveMsg, Open, parties
<1> DEFINE w == Len(wire["client"])
           l == Len(sent["server"])
           r == Len(received["client"])
           frame == Head(wire["client"])
<1>2. /\ wire' \in [End -> Seq(AllFrames)] /\ wire'["server"] = wire["server"]
      /\ w \in Nat \ {0} /\ Len(wire'["client"]) = w - 1
      /\ \A i \in 1..Len(wire'["client"]) : wire'["client"][i] = wire["client"][i + 1]
      /\ frame = wire["client"][1]
  BY <1>0, <1>1, Popped, TheEnds
<1>3. r \in Nat /\ l \in Nat /\ sent["server"] \in Seq(Message)
  BY <1>0, NoneIsEmpty, TheEnds DEF ChannelTypeOK
<1>4. KeyInv'
  BY <1>0, <1>1 DEF KeyInv
<1>5. HandshakeInv'
  BY <1>1 DEF HandshakeInv, Connecting
<1>6. CASE Agreed
  <2>1. /\ r + w <= l /\ (at["server"] # "closed" => r + w = l)
        /\ \A i \in 1..w : wire["client"][i] = Packet(key["server"], sent["server"][r + i])
    BY <1>0, <1>6 DEF ToClientInv
  <2>2. frame = Packet(key["server"], sent["server"][r + 1]) /\ sent["server"][r + 1] \in Message
    <3> HIDE DEF w, l, r, frame
    <3>1. 1 \in 1..w /\ r + 1 \in 1..l
      BY <1>2, <1>3, <2>1, OneRead
    <3>2. frame = Packet(key["server"], sent["server"][r + 1])
      BY <1>2, <2>1, <3>1
    <3> QED
      BY <1>3, <3>1, <3>2 DEF l
  <2>3. received' = [received EXCEPT !["client"] = Append(@, sent["server"][r + 1])]
    BY <1>6, <2>2, PacketFields DEF ReceiveMsg, Opens, Agreed
  <2>4. /\ received' \in [End -> Seq(Message)] /\ received'["server"] = received["server"]
        /\ Len(received'["client"]) = r + 1
        /\ \A i \in 1..r : received'["client"][i] = received["client"][i]
        /\ received'["client"][r + 1] = sent["server"][r + 1]
    <3>1. PICK m : m = sent["server"][r + 1]
      OBVIOUS
    <3>2. m \in Message /\ received' = [received EXCEPT !["client"] = Append(@, m)]
      BY <2>2, <2>3, <3>1
    <3>3. /\ received' \in [End -> Seq(Message)] /\ received'["server"] = received["server"]
          /\ Len(received'["client"]) = r + 1
          /\ \A i \in 1..r : received'["client"][i] = received["client"][i]
          /\ received'["client"][r + 1] = m
      BY <1>0, <3>2, MessageOpened, TheEnds
    <3> QED
      BY <3>1, <3>3
  <2>5. ChannelTypeOK'
    BY <1>0, <1>1, <1>2, <2>4 DEF ChannelTypeOK
  <2>6. ToClientInv'
    <3> HIDE DEF w, l, r, frame
    <3>1. (r + 1) + (w - 1) <= l /\ (at["server"] # "closed" => (r + 1) + (w - 1) = l)
      BY <1>2, <1>3, <2>1, OneRead
    <3>2. \A i \in 1..(w - 1) :
             wire'["client"][i] = Packet(key["server"], sent["server"][(r + 1) + i])
      BY <1>2, <1>3, <2>1, OneRead
    <3>3. Agreed'
      BY <1>1, <1>6 DEF Agreed
    <3> QED
      BY <1>1, <1>2, <2>4, <3>1, <3>2, <3>3 DEF ToClientInv, l
  <2>7. ToServerInv'
    BY <1>0, <1>1, <1>2, <2>4 DEF ToServerInv
  <2>8. OpenedInv'
    <3>1. r <= l /\ \A i \in 1..r : received["client"][i] = sent["server"][i]
      BY <1>0, TheEnds DEF OpenedInv
    <3> HIDE DEF w, l, r, frame
    <3>2. r + 1 <= l /\ \A i \in 1..(r + 1) : i \in 1..r \/ i = r + 1
      BY <1>2, <1>3, <2>1, OneRead
    <3>3. \A i \in 1..(r + 1) : received'["client"][i] = sent["server"][i]
      BY <2>4, <3>1, <3>2
    <3>4. /\ Len(received'["client"]) <= Len(sent'["server"])
          /\ \A i \in 1..Len(received'["client"]) : received'["client"][i] = sent'["server"][i]
      BY <1>1, <2>4, <3>2, <3>3 DEF l
    <3>5. /\ Len(received'["server"]) <= Len(sent'["client"])
          /\ \A i \in 1..Len(received'["server"]) : received'["server"][i] = sent'["client"][i]
      <4>1. received'["server"] = received["server"] /\ sent'["client"] = sent["client"]
        BY <1>1, <2>4
      <4>2. /\ Len(received["server"]) <= Len(sent["client"])
            /\ \A i \in 1..Len(received["server"]) : received["server"][i] = sent["client"][i]
        BY <1>0, TheEnds DEF OpenedInv
      <4> QED
        BY <4>1, <4>2
    <3> QED
      BY <3>4, <3>5, TheEnds DEF OpenedInv, End
  <2> QED
    BY <1>4, <1>5, <2>5, <2>6, <2>7, <2>8 DEF ChannelInv
<1>7. CASE ~Agreed
  <2>1. \A i \in 1..w : wire["client"][i].kind # "packet"
    BY <1>0, <1>7 DEF ToClientInv
  <2>2. 1 \in 1..w /\ \A i \in 1..(w - 1) : i + 1 \in 1..w
    BY <1>2
  <2>3. UNCHANGED received
    BY <1>2, <2>1, <2>2 DEF ReceiveMsg, Opens
  <2>4. ToClientInv'
    <3>1. ~Agreed'
      BY <1>1, <1>7 DEF Agreed
    <3>2. \A i \in 1..Len(wire'["client"]) : wire'["client"][i].kind # "packet"
      BY <1>2, <2>1, <2>2
    <3> QED
      BY <1>0, <1>1, <1>7, <2>3, <3>1, <3>2 DEF ToClientInv
  <2>5. ChannelTypeOK'
    BY <1>0, <1>1, <1>2, <2>3 DEF ChannelTypeOK
  <2>6. ToServerInv'
    BY <1>0, <1>1, <1>2, <2>3 DEF ToServerInv
  <2>7. OpenedInv'
    BY <1>0, <1>1, <2>3 DEF OpenedInv
  <2> QED
    BY <1>4, <1>5, <2>4, <2>5, <2>6, <2>7 DEF ChannelInv
<1> QED
  BY <1>6, <1>7

LEMMA ChannelUntouched == ASSUME ChannelInv, UNCHANGED channelVars PROVE ChannelInv'
<1> USE DEF channelVars
<1>1. ChannelTypeOK' /\ KeyInv' /\ OpenedInv'
  BY DEF ChannelInv, ChannelTypeOK, KeyInv, OpenedInv
<1>2. HandshakeInv'
  BY DEF ChannelInv, HandshakeInv, Connecting, FramesRead, FramesSent, HandshakeLen, HandshakeFrame
<1>3. ToClientInv' /\ ToServerInv'
  BY DEF ChannelInv, ToClientInv, ToServerInv, Agreed
<1> QED
  BY <1>1, <1>2, <1>3 DEF ChannelInv

LEMMA ChannelStepKeeps == ASSUME ChannelInv, PeerKeyInv, ChannelNext PROVE ChannelInv'
<1>1. CASE ClientHandshake
  BY <1>1, ClientHelloKeeps, ClientReceivesKeyKeeps, ClientReceivesIdentityKeeps,
     ClientReceivesSignatureKeeps
  DEF ClientHandshake
<1>2. CASE ServerHandshake
  BY <1>2, ServerReceivesHelloKeeps, ServerSendsIdentityKeeps, ServerSendsSignatureKeeps
  DEF ServerHandshake
<1>3. CASE HandshakeTimesOut \/ IdleTimesOut \/ ServerSendsTooLarge
  BY <1>3, ShutsKeepingAll, TheEnds
  DEF HandshakeTimesOut, IdleTimesOut, ServerSendsTooLarge, parties
<1>4. ASSUME NEW e \in End, SendMsg(e) \/ ReceiveMsg(e) PROVE ChannelInv'
  BY <1>4, ClientSends, ServerSends, ClientReceives, ServerReceives DEF End
<1>5. ASSUME NEW e \in End, ReceiveFails(e) PROVE ChannelInv'
  BY <1>5, ShutsKeepingAll DEF ReceiveFails, parties
<1>6. ASSUME NEW e \in End, Close(e) PROVE ChannelInv'
  BY <1>6, CloseKeeps
<1> QED
  BY <1>1, <1>2, <1>3, <1>4, <1>5, <1>6 DEF ChannelNext

(* What is on its way to a server that waits for a hello only gets shorter. *)
LEMMA PeerKeysUntouched ==
    ASSUME ChannelInv, PeerKeyInv, UNCHANGED peer_key,
           \A e \in End : at'[e] = at[e] \/ at'[e] \in {"ephemeral", "open", "closed"}
                                        \/ (at[e] = "identity" /\ at'[e] = "signature"),
           at["server"] = "hello" =>
              /\ Len(wire'["server"]) \in Nat /\ Len(wire'["server"]) <= Len(wire["server"])
              /\ \A i \in 1..Len(wire'["server"]) : wire'["server"][i] = wire["server"][i]
    PROVE  PeerKeyInv'
<1>1. Len(wire["server"]) \in Nat
  BY NoneIsEmpty, TheEnds DEF ChannelInv
<1>2. at'["server"] = "hello" => at["server"] = "hello"
  BY TheEnds
<1>3. at'["server"] = "hello" =>
         \A i \in 1..Len(wire'["server"]) : wire'["server"][i] = Frame("ephemeral", "client")
  BY <1>1, <1>2 DEF PeerKeyInv
<1> QED
  BY <1>3, TheEnds DEF PeerKeyInv

LEMMA PeerKeysClose == ASSUME ChannelInv, PeerKeyInv, NEW e \in End, Close(e) PROVE PeerKeyInv'
<1>1. wire \in [End -> Seq(AllFrames)] /\ Peer(e) \in End
  BY DEF ChannelInv, ChannelTypeOK, End, Peer
<1>2. PICK n \in 0..Len(wire[Peer(e)]) :
          wire' = [wire EXCEPT ![Peer(e)] = SubSeq(@, 1, n)]
  BY DEF Close
<1>3. at' = [at EXCEPT ![e] = "closed"] /\ UNCHANGED peer_key
  BY DEF Close, Goto
<1>4. \A d \in End : at'[d] = at[d] \/ at'[d] = "closed"
  BY <1>3 DEF ChannelInv, ChannelTypeOK
<1>5. wire["server"] \in Seq(AllFrames) /\ Len(wire["server"]) \in Nat
  BY <1>1, TheEnds
<1>6. \/ wire'["server"] = wire["server"]
      \/ Peer(e) = "server" /\ wire'["server"] = SubSeq(wire["server"], 1, n)
  BY <1>1, <1>2, TheEnds
<1>7. /\ Len(wire'["server"]) \in Nat /\ Len(wire'["server"]) <= Len(wire["server"])
      /\ \A i \in 1..Len(wire'["server"]) : wire'["server"][i] = wire["server"][i]
  BY <1>2, <1>5, <1>6
<1> QED
  BY <1>3, <1>4, <1>7, PeerKeysUntouched

LEMMA PeerKeyStepKeeps == ASSUME ChannelInv, PeerKeyInv, ChannelNext PROVE PeerKeyInv'
<1>0. /\ at \in [End -> Step] /\ wire \in [End -> Seq(AllFrames)]
      /\ peer_key \in [End -> End \cup {None}] /\ Len(wire["server"]) \in Nat
  BY NoneIsEmpty, TheEnds DEF ChannelInv, ChannelTypeOK, PeerKeyInv
<1>1. CASE ClientHello
  <2>1. /\ at' = [at EXCEPT !["client"] = "ephemeral"] /\ UNCHANGED peer_key
        /\ wire'["server"] = Append(wire["server"], Frame("ephemeral", "client"))
    BY <1>0, <1>1, TheEnds DEF ClientHello, Push, Goto
  <2>2. at'["client"] = "ephemeral" /\ at'["server"] = at["server"]
    BY <1>0, <2>1, TheEnds
  <2>3. at["server"] = "hello" => Len(wire["server"]) = 0
    BY <1>1 DEF ChannelInv, ToServerInv, ClientHello
  <2>4. at["server"] = "hello" =>
           \A i \in 1..Len(wire'["server"]) : wire'["server"][i] = Frame("ephemeral", "client")
    BY <1>0, <2>1, <2>3, TheEnds
  <2> QED
    BY <2>1, <2>2, <2>4 DEF PeerKeyInv
<1>2. CASE ClientReceivesKey
  <2>1. /\ peer_key' = [peer_key EXCEPT !["client"] = "server"]
        /\ wire'["server"] = wire["server"]
        /\ at'["server"] = at["server"]
    BY <1>0, <1>2, KeyOfServer, TheEnds DEF ClientReceivesKey, Pop, Goto
  <2> QED
    BY <1>0, <2>1, TheEnds DEF PeerKeyInv
<1>3. CASE ClientReceivesIdentity \/ ClientReceivesSignature
  <2>1. /\ UNCHANGED peer_key /\ wire'["server"] = wire["server"]
        /\ at'["server"] = at["server"]
        /\ at'["client"] \in {"open", "closed"} \/ (at["client"] = "identity" /\ at'["client"] = "signature")
    BY <1>0, <1>3, TheEnds DEF ClientReceivesIdentity, ClientReceivesSignature, Pop, Goto
  <2> QED
    BY <1>0, <2>1 DEF PeerKeyInv
<1>4. CASE ServerReceivesHello
  <2>1. /\ peer_key' = [peer_key EXCEPT !["server"] = "client"]
        /\ at'["client"] = at["client"] /\ at'["server"] # "hello"
    BY <1>0, <1>4, KeyOfClient, TheEnds DEF ServerReceivesHello, Goto
  <2> QED
    BY <1>0, <2>1, TheEnds DEF PeerKeyInv
<1>5. CASE ServerSendsIdentity \/ ServerSendsSignature
  <2>1. /\ UNCHANGED peer_key /\ at'["client"] = at["client"]
        /\ at'["server"] = "open" \/ (at["server"] = "identity" /\ at'["server"] = "signature")
    BY <1>0, <1>5, TheEnds DEF ServerSendsIdentity, ServerSendsSignature, Goto
  <2> QED
    BY <2>1 DEF PeerKeyInv
<1>6. CASE HandshakeTimesOut \/ IdleTimesOut \/ ServerSendsTooLarge
  <2>1. /\ UNCHANGED <<peer_key, wire>> /\ at'["client"] = at["client"] /\ at'["server"] = "closed"
    BY <1>0, <1>6, TheEnds DEF HandshakeTimesOut, IdleTimesOut, ServerSendsTooLarge, Goto
  <2> QED
    BY <2>1 DEF PeerKeyInv
<1>7. ASSUME NEW e \in End, ReceiveFails(e) PROVE PeerKeyInv'
  <2>1. UNCHANGED <<peer_key, wire>> /\ \A d \in End : at'[d] = at[d] \/ at'[d] = "closed"
    BY <1>0, <1>7 DEF ReceiveFails, Goto
  <2> QED
    BY <1>0, <2>1, PeerKeysUntouched
<1>8. ASSUME NEW e \in End, SendMsg(e) PROVE PeerKeyInv'
  <2>1. UNCHANGED <<peer_key, at>> /\ Open(e)
    BY <1>8 DEF SendMsg, MaySend
  <2>2. at["server"] # "hello"
    BY <2>1, TheEnds DEF ChannelInv, KeyInv, Open, End
  <2> QED
    BY <2>1, <2>2 DEF PeerKeyInv
<1>9. ASSUME NEW e \in End, ReceiveMsg(e) PROVE PeerKeyInv'
  <2>1. UNCHANGED peer_key /\ Open(e) /\ \A d \in End : at'[d] = at[d] \/ at'[d] = "closed"
    BY <1>0, <1>9 DEF ReceiveMsg, Goto
  <2>2. e = "client" => wire'["server"] = wire["server"]
    BY <1>0, <1>9, TheEnds DEF ReceiveMsg, Pop
  <2>3. e = "server" => at["server"] # "hello"
    BY <2>1 DEF Open
  <2>4. e = "client" \/ e = "server"
    BY DEF End
  <2> QED
    BY <1>0, <2>1, <2>2, <2>3, <2>4, PeerKeysUntouched
<1>10. ASSUME NEW e \in End, Close(e) PROVE PeerKeyInv'
  BY <1>10, PeerKeysClose
<1> QED
  BY <1>1, <1>2, <1>3, <1>4, <1>5, <1>6, <1>7, <1>8, <1>9, <1>10
  DEF ChannelNext, ClientHandshake, ServerHandshake

LEMMA PeerKeysStay ==
    ASSUME PeerKeyInv, UNCHANGED <<at, wire, peer_key>> PROVE PeerKeyInv'
BY DEF PeerKeyInv

(* A connection before anything was sent on it. *)
FreshChannel ==
    /\ expected \in Identity \cup {None} /\ identity \in Identity \cup {None}
    /\ claim \in Identity \cup {None} /\ peer_key = [e \in End |-> None]
    /\ at \in {[e \in End |-> "closed"], [client |-> "hello", server |-> "hello"]}
    /\ wire = [e \in End |-> << >>] /\ key = [e \in End |-> NoKey]
    /\ sent = [e \in End |-> << >>] /\ received = [e \in End |-> << >>]

LEMMA FreshPeerKeys == ASSUME FreshChannel PROVE PeerKeyInv
<1>1. /\ peer_key \in [End -> End \cup {None}] /\ wire["server"] = << >>
      /\ at["client"] \in {"hello", "closed"} /\ at["server"] \in {"hello", "closed"}
  BY TheEnds DEF FreshChannel
<1> QED
  BY <1>1 DEF PeerKeyInv

LEMMA FreshChannelInv == ASSUME FreshChannel PROVE ChannelInv
<1> USE DEF FreshChannel
<1>1. /\ wire["client"] = << >> /\ wire["server"] = << >>
      /\ sent["client"] = << >> /\ sent["server"] = << >>
      /\ received["client"] = << >> /\ received["server"] = << >>
      /\ key["client"] = NoKey /\ key["server"] = NoKey
  BY TheEnds
<1>2. at \in [End -> {"hello", "closed"}] /\ at["client"] = at["server"]
  BY DEF End
<1>3. \/ at["client"] = "hello" /\ at["server"] = "hello"
      \/ at["client"] = "closed" /\ at["server"] = "closed"
  BY <1>2, TheEnds
<1>4. ChannelTypeOK
  <2>1. << >> \in Seq(AllFrames) /\ << >> \in Seq(Message) /\ NoKey \in AllKeys
    BY DEF AllKeys
  <2> QED
    BY <1>2, <1>3, <2>1 DEF ChannelTypeOK, Step
<1> HIDE DEF FreshChannel
<1>5. KeyInv
  BY <1>1, <1>3 DEF KeyInv, End
<1>6. HandshakeInv
  <2>1. FramesRead = 0 /\ HandshakeLen \in {1, 3} /\ Len(wire["client"]) = 0
    BY <1>1, <1>3 DEF FramesRead, HandshakeLen
  <2>2. at["server"] = "hello" => FramesSent = 0
    BY DEF FramesSent
  <2> QED
    BY <1>3, <2>1, <2>2 DEF HandshakeInv, Connecting
<1>7. /\ Len(wire["client"]) = 0 /\ Len(wire["server"]) = 0
      /\ Len(sent["client"]) = 0 /\ Len(sent["server"]) = 0
      /\ Len(received["client"]) = 0 /\ Len(received["server"]) = 0
  BY <1>1
<1>8. ToClientInv /\ ToServerInv
  BY <1>1, <1>3, <1>7 DEF ToClientInv, ToServerInv, Agreed
<1>9. OpenedInv
  BY <1>7, TheEnds DEF OpenedInv, End
<1> QED
  BY <1>4, <1>5, <1>6, <1>8, <1>9 DEF ChannelInv

-----------------------------------------------------------------------------
(* One connection, of any client with any server. *)

LEMMA KeysAgreeHolds == ASSUME ChannelInv PROVE KeysAgree
<1> SUFFICES ASSUME ChannelInv, at["client"] = "open", at["server"] = "open"
             PROVE  key["client"] = key["server"] <=> (expected = None <=> claim = None)
  BY DEF KeysAgree, Open
<1>1. key["client"] = ChannelKey(expected) /\ key["server"] = ChannelKey(claim)
  BY TheEnds DEF ChannelInv, KeyInv
<1>2. ChannelKey(expected) = ChannelKey(claim) <=> expected = claim
  BY KeysDiffer DEF ChannelInv, ChannelTypeOK
<1>3. expected # None => claim = expected
  BY TheEnds DEF ChannelInv, KeyInv
<1> QED
  BY <1>1, <1>2, <1>3

LEMMA PinHoldsHolds == ASSUME ChannelInv PROVE PinHolds
BY TheEnds DEF ChannelInv, KeyInv, PinHolds, Open

LEMMA DeliveredInOrderHolds == ASSUME ChannelInv PROVE DeliveredInOrder
<1>1. ASSUME NEW e \in End PROVE IsPrefix(received[e], sent[Peer(e)])
  <2> DEFINE r == received[e]
             s == sent[Peer(e)]
  <2>1. r \in Seq(Message) /\ s \in Seq(Message)
    BY DEF ChannelInv, ChannelTypeOK, End, Peer
  <2>2. Len(r) <= Len(s) /\ \A i \in 1..Len(r) : r[i] = s[i]
    BY DEF ChannelInv, OpenedInv
  <2> HIDE DEF r, s
  <2>3. /\ SubSeq(r, 1, Len(r)) \in Seq(Message) /\ Len(SubSeq(r, 1, Len(r))) = Len(r)
        /\ \A i \in 1..Len(r) : SubSeq(r, 1, Len(r))[i] = r[i]
    BY <2>1
  <2>4. /\ SubSeq(s, 1, Len(r)) \in Seq(Message) /\ Len(SubSeq(s, 1, Len(r))) = Len(r)
        /\ \A i \in 1..Len(r) : SubSeq(s, 1, Len(r))[i] = s[i]
    BY <2>1, <2>2
  <2>5. SubSeq(r, 1, Len(r)) = SubSeq(s, 1, Len(r))
    BY <2>2, <2>3, <2>4, SeqEqual
  <2>6. IsPrefix(r, s)
    BY <2>2, <2>5 DEF IsPrefix
  <2> QED
    BY <2>6 DEF r, s
<1>2. received["server"] # << >> => Agreed
  BY NoneIsEmpty, TheEnds DEF ChannelInv, ToClientInv
<1> QED
  BY <1>1, <1>2 DEF DeliveredInOrder, Agreed

(***************************************************************************)
(* The inductive invariant of a connection, plain or authenticated, with a *)
(* server of this code or with another one.                                *)
(***************************************************************************)
THEOREM ChannelCorrect == ChannelSpec => [](ChannelInv /\ PeerKeyInv)
<1>1. ChannelInit => ChannelInv /\ PeerKeyInv
  <2>1. ChannelInit => FreshChannel
    BY DEF ChannelInit, FreshChannel, Genuine
  <2> QED
    BY <2>1, FreshChannelInv, FreshPeerKeys
<1>2. ChannelInv /\ PeerKeyInv /\ [ChannelNext]_channelVars => (ChannelInv /\ PeerKeyInv)'
  <2>1. ASSUME ChannelInv, PeerKeyInv, UNCHANGED channelVars PROVE ChannelInv' /\ PeerKeyInv'
    BY <2>1, ChannelUntouched, PeerKeysStay DEF channelVars
  <2> QED
    BY <2>1, ChannelStepKeeps, PeerKeyStepKeeps
<1> QED
  BY <1>1, <1>2, PTL DEF ChannelSpec

(***************************************************************************)
(* Two ends that finished their handshakes have the same key exactly when  *)
(* both ran the plain handshake or both the authenticated one.             *)
(***************************************************************************)
THEOREM SameHandshakeSameKey == ChannelSpec => []KeysAgree
<1>1. ChannelInv => KeysAgree
  BY KeysAgreeHolds
<1> QED
  BY <1>1, ChannelCorrect, PTL

(***************************************************************************)
(* A client with a pin has an open channel only with a server that has the *)
(* key it pinned, although any server may claim that identity, sign with   *)
(* another key or repeat a signature it saw on another connection.         *)
(***************************************************************************)
THEOREM OpensOnlyWithPinned == ChannelSpec => []PinHolds
<1>1. ChannelInv => PinHolds
  BY PinHoldsHolds
<1> QED
  BY <1>1, ChannelCorrect, PTL

(***************************************************************************)
(* What either end opens is what the other sent, in order and without      *)
(* gaps, wherever the connection is cut, and a server takes a command only *)
(* from a client that accepted its handshake.                              *)
(***************************************************************************)
THEOREM NothingLostOrReordered == ChannelSpec => []DeliveredInOrder
<1>1. ChannelInv => DeliveredInOrder
  BY DeliveredInOrderHolds
<1> QED
  BY <1>1, ChannelCorrect, PTL

-----------------------------------------------------------------------------
(* The server process and its connections together. *)

LEMMA PinnedInitInv == PinnedInit => PinnedInv
<1> SUFFICES ASSUME PinnedInit PROVE PinnedInv
  OBVIOUS
<1>1. IdentityInv
  BY InitIdentityInv DEF PinnedInit
<1>2. ChannelInv /\ PeerKeyInv
  BY FreshChannelInv, FreshPeerKeys DEF PinnedInit, NoConnection, FreshChannel
<1>3. PinInv
  BY DEF PinnedInit, IdentityInit, NoConnection, PinInv
<1> QED
  BY <1>1, <1>2, <1>3 DEF PinnedInv

(* Whatever the connection does, the process makes one of its steps or none. *)
LEMMA PinnedStepsIdentity == PinnedNext => [IdentityNext]_identityVars
BY DEF PinnedNext, ProcessStep, ProcessEnds, MachineEnds, Connect, ConnectionStep, IdentityNext

(* Whatever the process does, the connection makes one of its steps or none, *)
(* or there is a new connection.                                             *)
LEMMA PinnedStepsChannel ==
    ASSUME PinnedNext
    PROVE  UNCHANGED channelVars \/ ChannelNext \/ Close("server") \/ Connect
BY DEF PinnedNext, ProcessStep, ProcessEnds, MachineEnds, EndDies, ConnectionStep

LEMMA PartiesStay == ASSUME ChannelNext PROVE UNCHANGED <<identity, claim>>
BY DEF ChannelNext, ClientHandshake, ServerHandshake, ClientHello, ClientReceivesKey,
       ClientReceivesIdentity, ClientReceivesSignature, ServerReceivesHello,
       ServerSendsIdentity, ServerSendsSignature, HandshakeTimesOut, IdleTimesOut,
       ServerSendsTooLarge, SendMsg, ReceiveMsg, ReceiveFails, Close, parties

LEMMA PinnedNextInv == PinnedInv /\ [PinnedNext]_pinnedVars => PinnedInv'
<1> SUFFICES ASSUME PinnedInv, [PinnedNext]_pinnedVars PROVE PinnedInv'
  OBVIOUS
<1>0. IdentityInv /\ ChannelInv /\ PeerKeyInv /\ PinInv
  BY DEF PinnedInv
<1>1. IdentityInv'
  <2>1. CASE PinnedNext
    BY <1>0, <2>1, PinnedStepsIdentity, NextIdentityInv
  <2>2. CASE UNCHANGED pinnedVars
    BY <1>0, <2>2, NextIdentityInv DEF pinnedVars, identityVars
  <2> QED
    BY <2>1, <2>2
<1>2. ChannelInv' /\ PeerKeyInv'
  <2>1. CASE UNCHANGED channelVars
    BY <1>0, <2>1, ChannelUntouched, PeerKeysStay DEF channelVars
  <2>2. CASE ChannelNext
    BY <1>0, <2>2, ChannelStepKeeps, PeerKeyStepKeeps
  <2>3. CASE Close("server")
    BY <1>0, <2>3, CloseKeeps, PeerKeysClose, TheEnds
  <2>4. CASE Connect
    <3>1. pc = "up" => own \in Identity
      BY <1>0, PinnedAssumption DEF IdentityInv, IdentityTypeOK
    <3>2. identity' \in Identity \cup {None} /\ claim' \in Identity \cup {None}
      BY <2>4, <3>1 DEF Connect, ThisServer, AnotherServer
    <3>3. FreshChannel'
      BY <2>4, <3>2 DEF Connect, FreshChannel, End
    <3> QED
      BY <3>3, FreshChannelInv, FreshPeerKeys, PTL
  <2>5. CASE UNCHANGED pinnedVars
    BY <2>1, <2>5 DEF pinnedVars, channelVars
  <2> QED
    BY <2>1, <2>2, <2>3, <2>4, <2>5, PinnedStepsChannel
<1>3. PinInv'
  <2>1. announced \subseteq announced'
    BY DEF PinnedNext, ProcessStep, ProcessEnds, MachineEnds, ConnectionStep, Connect, LoadKey,
           GenerateKey, OpenKeyFile, WriteKeyFile, SaveFails, Announce, Writeback, Crash,
           PowerLoss, identityVars, pinnedVars
  <2>2. pc' = "up" => own' \in announced'
    <3>1. CASE Announce
      BY <3>1 DEF Announce
    <3>2. CASE UNCHANGED <<pc, own>>
      BY <1>0, <2>1, <3>2 DEF PinInv
    <3>3. CASE pc' # "up"
      BY <3>3
    <3> QED
      BY <3>1, <3>2, <3>3
      DEF PinnedNext, ProcessStep, ProcessEnds, MachineEnds, ConnectionStep, Connect, LoadKey,
          GenerateKey, OpenKeyFile, Down, WriteKeyFile, SaveFails, Writeback, Crash, PowerLoss,
          identityVars, pinnedVars
  <2>3. Genuine' /\ identity' # None => identity' \in announced'
    <3>1. CASE Connect
      BY <1>0, <2>1, <3>1 DEF Connect, ThisServer, AnotherServer, PinInv, Genuine
    <3>2. CASE UNCHANGED <<identity, claim>>
      BY <1>0, <2>1, <3>2 DEF PinInv, Genuine
    <3>3. UNCHANGED channelVars \/ Close("server") \/ UNCHANGED pinnedVars
          => UNCHANGED <<identity, claim>>
      BY DEF Close, channelVars, pinnedVars, parties
    <3> QED
      BY <3>1, <3>2, <3>3, PinnedStepsChannel, PartiesStay
  <2> QED
    BY <2>2, <2>3 DEF PinInv
<1> QED
  BY <1>1, <1>2, <1>3 DEF PinnedInv

(***************************************************************************)
(* The inductive invariant of a server and the connections made to it, one *)
(* after the other.                                                        *)
(***************************************************************************)
THEOREM PinnedCorrect == PinnedSpec => []PinnedInv
BY PinnedInitInv, PinnedNextInv, PTL DEF PinnedSpec

(***************************************************************************)
(* An announced identity stays in the key file until a power loss takes    *)
(* it, whatever clients connect meanwhile.                                 *)
(***************************************************************************)
THEOREM ServerKeepsIdentity == PinnedSpec => []IdentityKept
<1>1. PinnedInv => IdentityKept
  BY DEF PinnedInv, IdentityInv
<1> QED
  BY <1>1, PinnedCorrect, PTL

(***************************************************************************)
(* On each connection of a server that comes and goes, the two ends agree  *)
(* on a key, a pin holds and messages are delivered as on a single one.    *)
(***************************************************************************)
THEOREM EachConnectionKeepsItsPromises ==
    PinnedSpec => [](KeysAgree /\ PinHolds /\ DeliveredInOrder)
<1>1. PinnedInv => KeysAgree /\ PinHolds /\ DeliveredInOrder
  BY KeysAgreeHolds, PinHoldsHolds, DeliveredInOrderHolds DEF PinnedInv
<1> QED
  BY <1>1, PinnedCorrect, PTL

(***************************************************************************)
(* A client that pins an identity this server has printed, and is answered *)
(* by this server, is refused only after a power loss took the key file.   *)
(***************************************************************************)
THEOREM PinRefusedOnlyAfterLoss == PinnedSpec => PinStaysGood
<1>1. ASSUME PinnedInv, ClientReceivesSignature, at'["client"] = "closed", Genuine,
             expected \in announced, ~lostKey
      PROVE  FALSE
  <2>1. at["client"] = "signature" /\ Arrived("client") /\ Pop("client")
    BY <1>1 DEF ClientReceivesSignature
  <2>2. Connecting /\ FramesRead = 2
    BY <2>1 DEF Connecting, FramesRead
  <2>3. claimed = claim /\ claim # None /\ identity = claim /\ peer_key["client"] = "server"
    BY <1>1, <2>1 DEF PinnedInv, ChannelInv, HandshakeInv, PeerKeyInv, Genuine
  <2>4. wire["client"][1] = Signature(claimed, ClientTranscript)
    BY <1>1, <2>1, <2>2, <2>3, NextHandshakeFrame, HandshakeFrames
    DEF PinnedInv, ClientTranscript
  <2>5. Head(wire["client"]) = Signature(claimed, ClientTranscript)
    BY <1>1, <2>1, <2>4, Popped, TheEnds DEF PinnedInv, ChannelInv
  <2>6. claimed = expected
    BY <1>1, <2>3 DEF PinnedInv, PinInv, IdentityInv, IdentityKept
  <2>7. Goto("client", "open")
    BY <1>1, <2>5, <2>6 DEF ClientReceivesSignature, Accepts
  <2>8. at'["client"] = "open"
    BY <1>1, <2>7, WentTo, TheEnds DEF PinnedInv, ChannelInv, Step
  <2> QED
    BY <1>1, <2>8
<1>2. PinnedInv /\ [PinnedNext]_pinnedVars =>
         [ClientReceivesSignature /\ at'["client"] = "closed" /\ Genuine /\ expected \in announced
             => lostKey]_pinnedVars
  BY <1>1
<1> QED
  BY <1>2, PinnedCorrect, PTL DEF PinnedSpec, PinStaysGood
=============================================================================
