--------------------------- MODULE SessionProofs ---------------------------
(***************************************************************************)
(* Clients and server stay in step, for any number of sessions, any chunk  *)
(* size, any payloads and any interleaving, with connections cut at any    *)
(* point.  The invariant says, for each place a client can be in, what is  *)
(* in flight on its session and what the server holds of its transfer.     *)
(***************************************************************************)
EXTENDS Session, CodecProofs, MemoryStorageProofs

(* What a session has in flight: nothing, one request, or one response. *)
Quiet(c) == req[c] = << >> /\ resp[c] = << >> /\ srv[c] # "streaming"
Dead(c) == Quiet(c) /\ srv[c] = "closed"
Asking(c, msg) == req[c] = <<EncodeCommand(msg)>> /\ resp[c] = << >> /\ srv[c] = "receiving"
Told(c, output) == req[c] = << >> /\ resp[c] = <<EncodeOutput(output)>> /\ srv[c] # "streaming"

Accepted == [type |-> "TransferReady", chunk_size |-> ChunkSize]
Progressed(offset) == [type |-> "TransferProgress", offset |-> offset]
Done == [type |-> "Success", message |-> Text]
Refused == [type |-> "Error", message |-> Text]
Content(chunk) == [type |-> "ObjectContentChunk", chunk |-> chunk]

(* The server holds the transfer of the client's command, with the first    *)
(* offset bytes of its data stored.                                         *)
Holding(c, offset) ==
    /\ active_write[c] = [path |-> cmd[c].path, expected_offset |-> offset,
                          total_size |-> cmd[c].total]
    /\ ghost[c].path = cmd[c].path
    /\ ghost[c].got = SubSeq(cmd[c].data, 1, offset)
HoldingIfUp(c, offset) == srv[c] # "closed" => Holding(c, offset)

(* No command on its way uses the server's transfer. *)
Unused(c) == Transferring(c) => localFailure[c]

Delivered(c) ==
    ghost[c].got = SubSeq(cmd[c].data, 1, cmd[c].total) /\ Len(ghost[c].got) = cmd[c].total

(* The loop of send_bytes_as_chunks and send_upload. *)
InLoop(c) ==
    /\ cmd[c].kind \in Transfers
    /\ sent[c] \in 0..Len(cmd[c].data)
    /\ cmd[c].total = 0 => sent[c] = 0
    /\ cmd[c].chunk_size \in 1..ChunkSize

ChunkSent(c, offset) ==
    [type |-> "WriteObjectChunk",
     chunk |-> [offset |-> offset, data |-> SubSeq(cmd[c].data, offset + 1, sent[c]),
                is_last |-> sent[c] = cmd[c].total, total_size |-> cmd[c].total]]

(* A response after which receive_chunked_read waits for another. *)
More(bytes) ==
    DecodeOutput(bytes).type = "ObjectContentChunk" /\ ~DecodeOutput(bytes).chunk.is_last

Chunk == [offset : Nat, data : Seq(Byte), is_last : BOOLEAN, total_size : Nat]
ReadAnswer == {EncodeOutput(Content(chunk)) : chunk \in Chunk} \cup {EncodeOutput(Refused)}

ReadFlow(c) ==
    /\ req[c] = << >>
    /\ resp[c] \in Seq(ReadAnswer)
    /\ srv[c] = "streaming" => \A i \in 1..Len(resp[c]) : More(resp[c][i])
    /\ srv[c] # "streaming" => \A i \in 1..(Len(resp[c]) - 1) : More(resp[c][i])
    /\ srv[c] = "receiving" => Len(resp[c]) > 0 /\ ~More(resp[c][Len(resp[c])])

-----------------------------------------------------------------------------
(* Where the client is, and what follows for its session. *)
ReadyInv(c) == pc[c] = "ready" => Quiet(c) /\ Unused(c)

BeginInv(c) ==
    pc[c] = "begin" =>
        /\ cmd[c].kind \in Transfers
        /\ sent[c] = 0
        /\ \/ Dead(c)
           \/ Asking(c, FirstRequest(cmd[c])) /\ Unused(c)
           \/ Told(c, Accepted) /\ HoldingIfUp(c, 0)
           \/ Told(c, Refused) /\ Unused(c)

SendInv(c) ==
    pc[c] \in {"open", "send"} =>
        /\ InLoop(c)
        /\ pc[c] = "open" => cmd[c].kind = "upload" /\ sent[c] = 0
        /\ Quiet(c) /\ HoldingIfUp(c, sent[c])

ChunkInv(c) ==
    pc[c] \in {"chunk", "last"} =>
        /\ InLoop(c)
        /\ pc[c] = "last" <=> sent[c] = cmd[c].total
        /\ \/ Dead(c)
           \/ \E offset \in 0..sent[c] :
                 /\ sent[c] - offset <= ChunkSize
                 /\ Asking(c, ChunkSent(c, offset)) /\ Holding(c, offset)
           \/ pc[c] = "chunk" /\ Told(c, Progressed(sent[c])) /\ HoldingIfUp(c, sent[c])
           \/ pc[c] = "last" /\ Told(c, Done) /\ Delivered(c) /\ ~Transferring(c)
           \/ Told(c, Refused) /\ ~Transferring(c)

SingleInv(c) ==
    pc[c] = "single" =>
        /\ cmd[c].kind \in {"terminate", "ping"} \cup DOMAIN SingleType
        /\ Unused(c)
        /\ \/ Dead(c)
           \/ Asking(c, FirstRequest(cmd[c]))
           \/ \E output \in {Done, Refused, [type |-> "Pong"], [type |-> "Terminated"]} :
                 Told(c, output)

ReadInv(c) ==
    pc[c] = "read" =>
        /\ cmd[c].kind = "read"
        /\ Unused(c)
        /\ Asking(c, FirstRequest(cmd[c])) \/ ReadFlow(c)

(* Whatever the client does, also once it is gone. *)
Fitting(c, msg) ==
    msg.type = "WriteObjectChunk" =>
        /\ msg.chunk \in Chunk
        /\ Transferring(c) /\ ChunkFits(active_write[c], msg.chunk)
        /\ ghost[c].path = active_write[c].path

ServerInv(c) ==
    /\ srv[c] \in {"receiving", "streaming", "closed"}
    /\ srv[c] = "closed" => ~Transferring(c)
    /\ \/ req[c] = << >>
       \/ srv[c] = "receiving" /\ req[c] = <<Head(req[c])>> /\ Fitting(c, Command(c))

ResultInv(c) ==
    result[c].type = "Success" =>
        pc[c] = "ready" /\ (cmd[c].kind \in Transfers => Delivered(c))

Phases == {"ready", "begin", "open", "send", "chunk", "last", "single", "read", "gone"}

SessionInv(c) ==
    /\ pc[c] \in Phases
    /\ ReadyInv(c) /\ BeginInv(c) /\ SendInv(c) /\ ChunkInv(c) /\ SingleInv(c) /\ ReadInv(c)
    /\ ServerInv(c) /\ ResultInv(c)

-----------------------------------------------------------------------------
(* Types: only what the steps below read. *)
Shape ==
    /\ DOMAIN req = Client /\ DOMAIN resp = Client /\ DOMAIN srv = Client
    /\ DOMAIN active_write = Client /\ DOMAIN stream = Client
    /\ DOMAIN pc = Client /\ DOMAIN cmd = Client /\ DOMAIN sent = Client
    /\ DOMAIN preview = Client /\ DOMAIN result = Client
    /\ DOMAIN ghost = Client /\ DOMAIN localFailure = Client

PlanType == [kind : Kind \cup {"none"}, path : RawPath \cup {Root}, data : Seq(Byte), total : Nat,
             chunk_size : Nat]

Typed(c) ==
    /\ cmd[c] \in PlanType
    /\ ghost[c] = [path |-> ghost[c].path, base |-> ghost[c].base, got |-> ghost[c].got,
                   clean |-> ghost[c].clean]
    /\ ghost[c].base \in Seq(Byte) /\ ghost[c].got \in Seq(Byte)
    /\ stream[c] = [path |-> stream[c].path, offset |-> stream[c].offset]
    /\ stream[c].offset \in Nat

-----------------------------------------------------------------------------
(* A channel with one message. *)
LEMMA OneMessage ==
    ASSUME NEW x
    PROVE  /\ Head(<<x>>) = x /\ Tail(<<x>>) = << >> /\ Append(<< >>, x) = <<x>>
           /\ SubSeq(<<x>>, 1, 0) = << >> /\ SubSeq(<<x>>, 1, 1) = <<x>>
           /\ Len(<<x>>) = 1 /\ <<x>> # << >> /\ Len(<< >>) = 0
<1>1. <<x>> \in Seq({x}) /\ Len(<<x>>) = 1 /\ <<x>>[1] = x
  OBVIOUS
<1>2. Tail(<<x>>) \in Seq({x}) /\ Len(Tail(<<x>>)) = 0
  BY <1>1
<1>3. << >> \in Seq({x}) /\ Len(<< >>) = 0
  OBVIOUS
<1>4. Append(<< >>, x) \in Seq({x}) /\ Len(Append(<< >>, x)) = 1 /\ Append(<< >>, x)[1] = x
  BY <1>3, AppendProperties
<1>5. Append(<< >>, x) = <<x>>
  BY <1>1, <1>4, SeqEqual
<1>6. SubSeq(<<x>>, 1, 0) = << >>
  BY <1>1, PrefixIsSeq, EmptySeq
<1>7. SubSeq(<<x>>, 1, 1) = <<x>>
  BY <1>1, SubSeqFull
<1> QED
  BY <1>1, <1>2, <1>3, <1>5, <1>6, <1>7, EmptySeq

(* The plans of the commands, and what the server hears of them. *)
LEMMA Kinds ==
    Transfers = {"write", "append", "upload"}
        /\ DOMAIN SingleType = {"create", "rm", "mkdir", "rmdir"}
BY DEF Transfers, Inline, SingleType

LEMMA FirstOfTransfer ==
    ASSUME NEW plan, plan.kind \in Transfers
    PROVE  /\ FirstRequest(plan) = [type |-> "BeginObjectWrite", path |-> plan.path,
                                    mode |-> ModeOf(plan.kind), total_size |-> plan.total]
           /\ DecodeCommand(EncodeCommand(FirstRequest(plan))) = FirstRequest(plan)
<1>1. FirstRequest(plan) = [type |-> "BeginObjectWrite", path |-> plan.path,
                            mode |-> ModeOf(plan.kind), total_size |-> plan.total]
  BY DEF FirstRequest, Transfers, Inline, SingleType
<1>2. ModeOf(plan.kind) \in {"Write", "Append", "Upload"}
  BY Kinds DEF ModeOf
<1> QED
  BY <1>1, <1>2, BeginRoundTrip

LEMMA FirstOfRead ==
    ASSUME NEW plan, plan.kind = "read"
    PROVE  /\ FirstRequest(plan) = [type |-> "ReadObject", path |-> plan.path]
           /\ DecodeCommand(EncodeCommand(FirstRequest(plan))) = FirstRequest(plan)
<1>1. FirstRequest(plan) = [type |-> "ReadObject", path |-> plan.path]
  BY DEF FirstRequest, Transfers, Inline, SingleType
<1> QED
  BY <1>1, PathRoundTrip DEF PathCommand

LEMMA FirstOfSingle ==
    ASSUME NEW plan, plan.kind \in {"terminate", "ping"} \cup DOMAIN SingleType
    PROVE  /\ FirstRequest(plan).type \in SingleCommand \cup {"Terminate"}
           /\ DecodeCommand(EncodeCommand(FirstRequest(plan))) = FirstRequest(plan)
<1>1. CASE plan.kind \in {"terminate", "ping"}
  <2>1. \/ FirstRequest(plan) = [type |-> "Terminate"]
        \/ FirstRequest(plan) = [type |-> "Ping"]
    BY <1>1 DEF FirstRequest, Transfers, Inline, SingleType
  <2> QED
    BY <2>1, BareRoundTrip DEF BareCommand, SingleCommand
<1>2. CASE plan.kind \in DOMAIN SingleType
  <2>1. FirstRequest(plan) = [type |-> SingleType[plan.kind], path |-> plan.path]
    BY <1>2 DEF FirstRequest, Transfers, Inline, SingleType
  <2>2. SingleType[plan.kind]
            \in {"CreateObject", "DeleteObject", "CreateNamespace", "DeleteNamespace"}
    BY <1>2 DEF SingleType
  <2> QED
    BY <2>1, <2>2, PathRoundTrip DEF PathCommand, SingleCommand
<1> QED
  BY <1>1, <1>2


LEMMA ChunkHeard ==
    ASSUME NEW c, NEW offset
    PROVE  DecodeCommand(EncodeCommand(ChunkSent(c, offset))) = ChunkSent(c, offset)
BY ChunkRoundTrip DEF ChunkSent

(* The outputs, and what the client hears of them. *)
LEMMA PlainHeard ==
    ASSUME NEW output \in {Done, Refused, [type |-> "Pong"], [type |-> "Terminated"]}
    PROVE  DecodeOutput(EncodeOutput(output)) = output
BY PlainOutputRoundTrip DEF Done, Refused

LEMMA AcceptedHeard ==
    DecodeOutput(EncodeOutput(Accepted)) = [type |-> "TransferReady",
                                            chunk_size |-> ClampU32(ChunkSize)]
BY DetailedOutputRoundTrip DEF Accepted

LEMMA ProgressHeard ==
    ASSUME NEW offset
    PROVE  DecodeOutput(EncodeOutput(Progressed(offset))) = Progressed(offset)
BY DetailedOutputRoundTrip DEF Progressed

LEMMA ContentHeard ==
    ASSUME NEW chunk \in Chunk
    PROVE  /\ DecodeOutput(EncodeOutput(Content(chunk))) = Content(chunk)
           /\ More(EncodeOutput(Content(chunk))) <=> ~chunk.is_last
<1>1. IsChunk(chunk)
  <2>1. chunk = [offset |-> chunk.offset, data |-> chunk.data, is_last |-> chunk.is_last,
                 total_size |-> chunk.total_size]
    BY DEF Chunk
  <2> QED
    BY <2>1 DEF IsChunk
<1>2. DecodeOutput(EncodeOutput(Content(chunk))) = Content(chunk)
  BY <1>1, DetailedOutputRoundTrip DEF Content
<1> QED
  BY <1>2 DEF More, Content

LEMMA RefusedIsFinal == ~More(EncodeOutput(Refused))
BY PlainHeard DEF More, Refused

(* The client never sends more than the server takes. *)
LEMMA ChunkSizeAgreed == Clamped(ClampU32(ChunkSize)) \in 1..ChunkSize
BY ChunkAssumption, CodecAssumption DEF Clamped, ClampU32, Smaller

-----------------------------------------------------------------------------
(* A step of one session leaves the others where they are; it can only make *)
(* them lose clean.                                                         *)
Same(d) ==
    /\ req'[d] = req[d] /\ resp'[d] = resp[d] /\ srv'[d] = srv[d]
    /\ active_write'[d] = active_write[d] /\ stream'[d] = stream[d]
    /\ pc'[d] = pc[d] /\ cmd'[d] = cmd[d] /\ sent'[d] = sent[d]
    /\ preview'[d] = preview[d] /\ result'[d] = result[d]
    /\ localFailure'[d] = localFailure[d]
    /\ ghost'[d].path = ghost[d].path /\ ghost'[d].base = ghost[d].base
    /\ ghost'[d].got = ghost[d].got
    /\ ghost'[d].clean => ghost[d].clean

LEMMA SameKeepsFlow ==
    ASSUME NEW d, Same(d)
    PROVE  /\ (Quiet(d)' <=> Quiet(d)) /\ (Dead(d)' <=> Dead(d))
           /\ \A msg : Asking(d, msg)' <=> Asking(d, msg)
           /\ \A output : Told(d, output)' <=> Told(d, output)
           /\ (Transferring(d)' <=> Transferring(d)) /\ (Unused(d)' <=> Unused(d))
           /\ \A offset : Holding(d, offset)' <=> Holding(d, offset)
           /\ \A offset : HoldingIfUp(d, offset)' <=> HoldingIfUp(d, offset)
           /\ (Delivered(d)' <=> Delivered(d)) /\ (InLoop(d)' <=> InLoop(d))
           /\ \A offset : ChunkSent(d, offset)' = ChunkSent(d, offset)
           /\ ReadFlow(d)' <=> ReadFlow(d)
<1>1. /\ (Quiet(d)' <=> Quiet(d)) /\ (Dead(d)' <=> Dead(d))
      /\ \A msg : Asking(d, msg)' <=> Asking(d, msg)
      /\ \A output : Told(d, output)' <=> Told(d, output)
      /\ (Transferring(d)' <=> Transferring(d)) /\ (Unused(d)' <=> Unused(d))
  BY DEF Same, Quiet, Dead, Asking, Told, Transferring, Unused
<1>2. /\ \A offset : Holding(d, offset)' <=> Holding(d, offset)
      /\ \A offset : HoldingIfUp(d, offset)' <=> HoldingIfUp(d, offset)
  BY DEF Same, Holding, HoldingIfUp
<1>3. (Delivered(d)' <=> Delivered(d)) /\ (InLoop(d)' <=> InLoop(d))
  BY DEF Same, Delivered, InLoop
<1>4. \A offset : ChunkSent(d, offset)' = ChunkSent(d, offset)
  BY DEF Same, ChunkSent
<1>5. ReadFlow(d)' <=> ReadFlow(d)
  BY DEF Same, ReadFlow
<1> QED
  BY <1>1, <1>2, <1>3, <1>4, <1>5

LEMMA OthersStay ==
    ASSUME NEW d, Same(d), SessionInv(d)
    PROVE  SessionInv(d)'
<1> USE SameKeepsFlow
<1>1. /\ pc'[d] = pc[d] /\ cmd'[d] = cmd[d] /\ sent'[d] = sent[d] /\ srv'[d] = srv[d]
      /\ req'[d] = req[d] /\ result'[d] = result[d] /\ active_write'[d] = active_write[d]
      /\ ghost'[d].path = ghost[d].path
  BY DEF Same
<1>2. ReadyInv(d)' /\ BeginInv(d)' /\ SendInv(d)'
  BY <1>1 DEF SessionInv, ReadyInv, BeginInv, SendInv
<1>3. ChunkInv(d)'
  BY <1>1 DEF SessionInv, ChunkInv
<1>4. SingleInv(d)' /\ ReadInv(d)'
  BY <1>1 DEF SessionInv, SingleInv, ReadInv
<1>5. ServerInv(d)'
  BY <1>1 DEF SessionInv, ServerInv, Command, Fitting
<1>6. ResultInv(d)' /\ (pc[d] \in Phases)'
  BY <1>1 DEF SessionInv, ResultInv
<1> QED
  BY <1>2, <1>3, <1>4, <1>5, <1>6 DEF SessionInv


-----------------------------------------------------------------------------
(* What the server can have received, by where the client is. *)
LEMMA InFlight ==
    ASSUME NEW c, SessionInv(c), Arrived(c)
    PROVE  /\ req[c] = <<Head(req[c])>> /\ Tail(req[c]) = << >>
           /\ srv[c] = "receiving" /\ Fitting(c, Command(c))
           /\ pc[c] \in {"begin", "chunk", "last", "single", "read", "gone"}
           /\ pc[c] # "gone" => resp[c] = << >>
           /\ pc[c] = "begin" =>
                 /\ cmd[c].kind \in Transfers /\ sent[c] = 0 /\ Unused(c)
                 /\ Command(c) = FirstRequest(cmd[c]) /\ Command(c).type = "BeginObjectWrite"
           /\ pc[c] \in {"chunk", "last"} =>
                 /\ InLoop(c) /\ (pc[c] = "last" <=> sent[c] = cmd[c].total)
                 /\ Command(c).type = "WriteObjectChunk"
                 /\ \E offset \in 0..sent[c] :
                       /\ sent[c] - offset <= ChunkSize
                       /\ Command(c) = ChunkSent(c, offset) /\ Holding(c, offset)
           /\ pc[c] = "single" =>
                 /\ cmd[c].kind \in {"terminate", "ping"} \cup DOMAIN SingleType /\ Unused(c)
                 /\ Command(c) = FirstRequest(cmd[c])
                 /\ Command(c).type \in SingleCommand \cup {"Terminate"}
           /\ pc[c] = "read" =>
                 /\ cmd[c].kind = "read" /\ Unused(c)
                 /\ Command(c) = FirstRequest(cmd[c]) /\ Command(c).type = "ReadObject"
<1>1. req[c] = <<Head(req[c])>> /\ Tail(req[c]) = << >> /\ req[c] # << >>
      /\ srv[c] = "receiving" /\ Fitting(c, Command(c))
  BY OneMessage DEF SessionInv, ServerInv, Arrived
<1>2. pc[c] \in {"begin", "chunk", "last", "single", "read", "gone"}
  BY <1>1 DEF SessionInv, ReadyInv, SendInv, Quiet, Phases
<1>3. ASSUME NEW msg, Asking(c, msg), DecodeCommand(EncodeCommand(msg)) = msg
      PROVE  Command(c) = msg /\ resp[c] = << >>
  BY <1>3, OneMessage DEF Asking, Command
<1>4. CASE pc[c] = "begin"
  <2>1. cmd[c].kind \in Transfers /\ sent[c] = 0 /\ Asking(c, FirstRequest(cmd[c])) /\ Unused(c)
    BY <1>1, <1>4 DEF SessionInv, BeginInv, Dead, Quiet, Told
  <2>2. Command(c) = FirstRequest(cmd[c]) /\ resp[c] = << >>
    BY <2>1, <1>3, FirstOfTransfer
  <2> QED
    BY <1>1, <1>4, <2>1, <2>2, FirstOfTransfer
<1>5. CASE pc[c] \in {"chunk", "last"}
  <2>1. PICK offset \in 0..sent[c] :
            /\ sent[c] - offset <= ChunkSize
            /\ Asking(c, ChunkSent(c, offset)) /\ Holding(c, offset)
    BY <1>1, <1>5 DEF SessionInv, ChunkInv, Dead, Quiet, Told
  <2>2. Command(c) = ChunkSent(c, offset) /\ resp[c] = << >>
    BY <2>1, <1>3, ChunkHeard
  <2>3. Command(c).type = "WriteObjectChunk"
    BY <2>2 DEF ChunkSent
  <2>4. InLoop(c) /\ (pc[c] = "last" <=> sent[c] = cmd[c].total)
    BY <1>5 DEF SessionInv, ChunkInv
  <2> QED
    BY <1>1, <1>5, <2>1, <2>2, <2>3, <2>4
<1>6. CASE pc[c] = "single"
  <2>1. /\ cmd[c].kind \in {"terminate", "ping"} \cup DOMAIN SingleType /\ Unused(c)
        /\ Asking(c, FirstRequest(cmd[c]))
    BY <1>1, <1>6 DEF SessionInv, SingleInv, Dead, Quiet, Told
  <2>2. Command(c) = FirstRequest(cmd[c]) /\ resp[c] = << >>
    BY <2>1, <1>3, FirstOfSingle
  <2> QED
    BY <1>1, <1>6, <2>1, <2>2, FirstOfSingle
<1>7. CASE pc[c] = "read"
  <2>1. cmd[c].kind = "read" /\ Unused(c) /\ Asking(c, FirstRequest(cmd[c]))
    BY <1>1, <1>7 DEF SessionInv, ReadInv, ReadFlow
  <2>2. Command(c) = FirstRequest(cmd[c]) /\ resp[c] = << >>
    BY <2>1, <1>3, FirstOfRead
  <2> QED
    BY <1>1, <1>7, <2>1, <2>2, FirstOfRead
<1>8. CASE pc[c] = "gone"
  BY <1>1, <1>8
<1> QED
  BY <1>2, <1>4, <1>5, <1>6, <1>7, <1>8

(* A request that is taken was the only one. *)
LEMMA Taken ==
    ASSUME NEW c \in Client, Shape, SessionInv(c), Arrived(c), NEW msg, NEW types,
           Receive(c, msg, types)
    PROVE  req'[c] = << >>
<1>1. Tail(req[c]) = << >>
  BY InFlight
<1> QED
  BY <1>1 DEF Shape, Receive

(* The answer to a request is alone on its way. *)
LEMMA Answered ==
    ASSUME NEW c \in Client, Shape, SessionInv(c), Arrived(c), NEW output,
           Send(c, output), pc[c] # "gone"
    PROVE  resp'[c] = <<EncodeOutput(output)>>
<1>1. resp[c] = << >>
  BY InFlight
<1>2. resp'[c] = Append(resp[c], EncodeOutput(output))
  BY DEF Shape, Send
<1> QED
  BY <1>1, <1>2, OneMessage


(* Observing a step of somebody else. *)
LEMMA Watched ==
    ASSUME NEW d, Typed(d)
    PROVE  /\ Watch(d).path = ghost[d].path /\ Watch(d).base = ghost[d].base
           /\ Watch(d).got = ghost[d].got
           /\ Watch(d).clean =>
                 /\ ghost[d].clean
                 /\ \A path \in {ghost[d].path} : GetObject(path)' = GetObject(path)
           /\ Watch(d) = [path |-> ghost[d].path, base |-> ghost[d].base, got |-> ghost[d].got,
                          clean |-> Watch(d).clean]
<1> DEFINE clean == ghost[d].clean
                       /\ \A path \in {ghost[d].path} : GetObject(path)' = GetObject(path)
<1>1. Watch(d) = [ghost[d] EXCEPT !.clean = clean]
  BY DEF Watch
<1>2. clean => \A path \in {ghost[d].path} : GetObject(path)' = GetObject(path)
  OBVIOUS
<1>3. clean => ghost[d].clean
  OBVIOUS
<1> HIDE DEF clean
<1>4. Watch(d) = [path |-> ghost[d].path, base |-> ghost[d].base, got |-> ghost[d].got,
                  clean |-> clean]
  BY <1>1 DEF Typed
<1> QED
  BY <1>2, <1>3, <1>4


(* Only the part of the invariant for the client's place says anything. *)
LEMMA OtherPhases ==
    ASSUME NEW c
    PROVE  /\ pc'[c] # "ready" => ReadyInv(c)'
           /\ pc'[c] # "begin" => BeginInv(c)'
           /\ pc'[c] \notin {"open", "send"} => SendInv(c)'
           /\ pc'[c] \notin {"chunk", "last"} => ChunkInv(c)'
           /\ pc'[c] # "single" => SingleInv(c)'
           /\ pc'[c] # "read" => ReadInv(c)'
           /\ result'[c].type # "Success" => ResultInv(c)'
BY DEF ReadyInv, BeginInv, SendInv, ChunkInv, SingleInv, ReadInv, ResultInv

ClientStays == UNCHANGED <<pc, cmd, sent, preview, result, issued, localFailure>>

-----------------------------------------------------------------------------
(* The server's steps. *)
LEMMA BeginServed ==
    ASSUME NEW c \in Client, Shape, Typed(c), SessionInv(c), Arrived(c),
           ServeBegin(c, Command(c)), ObserveBegin(c, Command(c)), ClientStays
    PROVE  SessionInv(c)'
<1> DEFINE msg == Command(c)
<1>1. /\ pc[c] \in {"begin", "gone"} /\ srv[c] = "receiving"
      /\ pc[c] = "begin" =>
            /\ cmd[c].kind \in Transfers /\ sent[c] = 0 /\ Unused(c)
            /\ msg = FirstRequest(cmd[c])
  <2>1. msg.type = "BeginObjectWrite"
    BY DEF ServeBegin, Receive
  <2> QED
    BY <2>1, InFlight DEF SingleCommand
<1>2. /\ pc'[c] = pc[c] /\ cmd'[c] = cmd[c] /\ sent'[c] = sent[c] /\ result'[c] = result[c]
      /\ localFailure'[c] = localFailure[c] /\ srv'[c] = srv[c]
  BY DEF ClientStays, ServeBegin
<1>3. result'[c].type # "Success"
  BY <1>1, <1>2 DEF SessionInv, ResultInv
<1>4. Receive(c, msg, {"BeginObjectWrite"})
  BY DEF ServeBegin
<1>5. CASE Transferring(c) \/ ~MayPut(msg.path)
  <2>1. Send(c, Refused) /\ active_write' = active_write
    BY <1>5 DEF ServeBegin, Fail, Refused
  <2>2. req'[c] = << >> /\ (pc[c] # "gone" => resp'[c] = <<EncodeOutput(Refused)>>)
    <3>1. req'[c] = << >>
      BY <1>4, Taken
    <3>2. ASSUME pc[c] # "gone" PROVE resp'[c] = <<EncodeOutput(Refused)>>
      BY <2>1, <3>2, Answered
    <3> QED
      BY <3>1, <3>2
  <2>3. ServerInv(c)'
    BY <1>1, <1>2, <2>1, <2>2 DEF ServerInv
  <2>4. BeginInv(c)'
    BY <1>1, <1>2, <2>1, <2>2 DEF BeginInv, Told, Unused, Transferring
  <2> QED
    BY <1>1, <1>2, <1>3, <2>3, <2>4, OtherPhases DEF SessionInv, Phases
<1>6. CASE ~Transferring(c) /\ MayPut(msg.path)
  <2> DEFINE transfer == [path |-> msg.path, expected_offset |-> 0, total_size |-> msg.total_size]
  <2>1. Send(c, Accepted) /\ active_write' = [active_write EXCEPT ![c] = transfer]
    BY <1>6 DEF ServeBegin, Ready, Accepted, SetTransfer
  <2>2. req'[c] = << >> /\ (pc[c] # "gone" => resp'[c] = <<EncodeOutput(Accepted)>>)
    <3>1. req'[c] = << >>
      BY <1>4, Taken
    <3>2. ASSUME pc[c] # "gone" PROVE resp'[c] = <<EncodeOutput(Accepted)>>
      BY <2>1, <3>2, Answered
    <3> QED
      BY <3>1, <3>2
  <2>3. active_write'[c] = transfer
    BY <2>1 DEF Shape
  <2>4. ghost'[c].path = msg.path /\ ghost'[c].got = << >>
    BY <1>6 DEF ObserveBegin, Observe
  <2>5. ServerInv(c)'
    BY <1>1, <1>2, <2>2 DEF ServerInv
  <2>6. ASSUME pc[c] = "begin" PROVE Holding(c, 0)'
    <3>1. msg.path = cmd[c].path /\ msg.total_size = cmd[c].total
      BY <1>1, <2>6, FirstOfTransfer
    <3>2. SubSeq(cmd[c].data, 1, 0) = << >>
      BY PrefixIsSeq, EmptySeq DEF Typed, PlanType
    <3> QED
      BY <1>2, <2>3, <2>4, <3>1, <3>2 DEF Holding
  <2>7. BeginInv(c)'
    BY <1>1, <1>2, <2>2, <2>6 DEF BeginInv, Told, HoldingIfUp
  <2> QED
    BY <1>1, <1>2, <1>3, <2>5, <2>7, OtherPhases DEF SessionInv, Phases
<1> QED
  BY <1>5, <1>6


(* The bytes of a chunk continue the bytes before it. *)
LEMMA SliceLen ==
    ASSUME NEW S, NEW s \in Seq(S), NEW m \in Nat, NEW n \in Nat, m <= n, n <= Len(s)
    PROVE  /\ SubSeq(s, m + 1, n) \in Seq(S) /\ Len(SubSeq(s, m + 1, n)) = n - m
           /\ \A i \in 1..(n - m) : SubSeq(s, m + 1, n)[i] = s[m + i]
OBVIOUS

LEMMA SliceJoins ==
    ASSUME NEW S, NEW s \in Seq(S), NEW m \in Nat, NEW n \in Nat, m <= n, n <= Len(s)
    PROVE  SubSeq(s, 1, m) \o SubSeq(s, m + 1, n) = SubSeq(s, 1, n)
<1>1. 1 \in 1..(Len(s) + 1) /\ m \in (1 - 1)..Len(s) /\ n \in m..Len(s)
  OBVIOUS
<1> QED
  BY <1>1, ConcatAdjacentSubSeq

(* Handling a chunk that the server may store. *)
LEMMA ChunkStored ==
    ASSUME NEW c \in Client, Shape, Typed(c), SessionInv(c), Arrived(c),
           pc[c] \in {"chunk", "last"},
           AcceptChunk(c, Command(c).chunk),
           ghost'[c] = [ghost[c] EXCEPT !.got = @ \o Command(c).chunk.data]
    PROVE  /\ pc[c] = "last" => /\ Send(c, Done) /\ active_write'[c] = NoTransfer
                                /\ Len(ghost'[c].got) = cmd[c].total
                                /\ ghost'[c].got = SubSeq(cmd[c].data, 1, cmd[c].total)
           /\ pc[c] = "chunk" =>
                 /\ Send(c, Progressed(sent[c]))
                 /\ active_write'[c] = [path |-> cmd[c].path, expected_offset |-> sent[c],
                                        total_size |-> cmd[c].total]
                 /\ ghost'[c].path = cmd[c].path
                 /\ ghost'[c].got = SubSeq(cmd[c].data, 1, sent[c])
           /\ \A d \in Client \ {c} : active_write'[d] = active_write[d]
<1> DEFINE chunk == Command(c).chunk
           data == cmd[c].data
           transfer == Written(active_write[c], chunk)
<1>1. PICK offset \in 0..sent[c] :
          /\ sent[c] - offset <= ChunkSize
          /\ Command(c) = ChunkSent(c, offset) /\ Holding(c, offset)
  BY InFlight
<1>2. /\ sent[c] \in Nat /\ sent[c] <= Len(data) /\ data \in Seq(Byte) /\ cmd[c].total \in Nat
      /\ offset \in Nat /\ offset <= sent[c] /\ (pc[c] = "last" <=> sent[c] = cmd[c].total)
  BY <1>1, InFlight DEF InLoop, Typed, PlanType
<1>3. /\ chunk.data = SubSeq(data, offset + 1, sent[c])
      /\ chunk.is_last = (sent[c] = cmd[c].total)
  BY <1>1 DEF ChunkSent
<1>4. Len(chunk.data) = sent[c] - offset
  BY <1>2, <1>3, SliceLen
<1>5. transfer = [path |-> cmd[c].path, expected_offset |-> sent[c], total_size |-> cmd[c].total]
  <2>1. offset + Len(chunk.data) = sent[c]
    BY <1>2, <1>4
  <2> HIDE DEF chunk
  <2>2. transfer = [path |-> cmd[c].path, expected_offset |-> offset + Len(chunk.data),
                    total_size |-> cmd[c].total]
    BY <1>1 DEF Written, Holding
  <2> QED
    BY <2>1, <2>2
<1>6. ghost'[c].got = SubSeq(data, 1, sent[c]) /\ ghost'[c].path = cmd[c].path
  <2>1. ghost'[c].got = ghost[c].got \o chunk.data /\ ghost'[c].path = ghost[c].path
    BY DEF Typed
  <2>2. ghost[c].got = SubSeq(data, 1, offset) /\ ghost[c].path = cmd[c].path
    BY <1>1 DEF Holding
  <2> HIDE DEF data, chunk
  <2>3. SubSeq(data, 1, offset) \o SubSeq(data, offset + 1, sent[c]) = SubSeq(data, 1, sent[c])
    BY <1>2, SliceJoins
  <2>4. ghost[c].got \o chunk.data = SubSeq(data, 1, sent[c])
    BY <1>3, <2>2, <2>3, Zenon
  <2> QED
    BY <2>1, <2>2, <2>4
<1>7. /\ transfer.expected_offset = sent[c] /\ transfer.total_size = cmd[c].total
  BY <1>5
<1> HIDE DEF transfer, chunk
<1>8. \/ chunk.is_last /\ SetTransfer(c, NoTransfer) /\ Send(c, Done)
      \/ ~chunk.is_last /\ SetTransfer(c, transfer) /\ Send(c, Progressed(sent[c]))
  BY <1>3, <1>7 DEF AcceptChunk, Succeed, Done, Progress, Progressed, transfer, chunk
<1>9. CASE sent[c] = cmd[c].total
  <2>1. SetTransfer(c, NoTransfer) /\ Send(c, Done) /\ pc[c] = "last"
    BY <1>2, <1>3, <1>8, <1>9
  <2>2. /\ active_write'[c] = NoTransfer
        /\ \A d \in Client \ {c} : active_write'[d] = active_write[d]
    BY <2>1 DEF SetTransfer, Shape
  <2>3. Len(SubSeq(data, 1, sent[c])) = sent[c]
    BY <1>2, PrefixIsSeq
  <2> QED
    BY <1>6, <1>9, <2>1, <2>2, <2>3
<1>10. CASE sent[c] # cmd[c].total
  <2>1. SetTransfer(c, transfer) /\ Send(c, Progressed(sent[c])) /\ pc[c] = "chunk"
    BY <1>2, <1>3, <1>8, <1>10
  <2>2. /\ active_write'[c] = transfer
        /\ \A d \in Client \ {c} : active_write'[d] = active_write[d]
    BY <2>1 DEF SetTransfer, Shape
  <2> QED
    BY <1>5, <1>6, <2>1, <2>2
<1> QED
  BY <1>9, <1>10


LEMMA ChunkServed ==
    ASSUME NEW c \in Client, Shape, Typed(c), SessionInv(c), Arrived(c),
           ServeChunk(c, Command(c)), ObserveChunk(c, Command(c)), ClientStays
    PROVE  SessionInv(c)'
<1> DEFINE msg == Command(c)
<1>1. /\ pc[c] \in {"chunk", "last", "gone"} /\ srv[c] = "receiving"
      /\ pc[c] # "gone" => InLoop(c) /\ (pc[c] = "last" <=> sent[c] = cmd[c].total)
  <2>1. msg.type = "WriteObjectChunk"
    BY DEF ServeChunk, Receive
  <2> QED
    BY <2>1, InFlight DEF SingleCommand
<1>2. /\ pc'[c] = pc[c] /\ cmd'[c] = cmd[c] /\ sent'[c] = sent[c] /\ result'[c] = result[c]
      /\ localFailure'[c] = localFailure[c] /\ srv'[c] = srv[c]
  BY DEF ClientStays, ServeChunk
<1>3. result'[c].type # "Success"
  BY <1>1, <1>2 DEF SessionInv, ResultInv
<1>4. Receive(c, msg, {"WriteObjectChunk"})
  BY DEF ServeChunk
<1>5. pc[c] # "gone" => InLoop(c)'
  BY <1>1, <1>2 DEF InLoop
<1>6. CASE ~Acceptable(c, msg.chunk)
  <2>1. Send(c, Refused) /\ active_write'[c] = NoTransfer
    BY <1>6 DEF ServeChunk, RefuseChunk, Fail, Refused, SetTransfer, Shape
  <2>2. req'[c] = << >> /\ (pc[c] # "gone" => resp'[c] = <<EncodeOutput(Refused)>>)
    <3>1. req'[c] = << >>
      BY <1>4, Taken
    <3>2. ASSUME pc[c] # "gone" PROVE resp'[c] = <<EncodeOutput(Refused)>>
      BY <2>1, <3>2, Answered
    <3> QED
      BY <3>1, <3>2
  <2>3. ServerInv(c)'
    BY <1>1, <1>2, <2>1, <2>2 DEF ServerInv
  <2>4. ChunkInv(c)'
    BY <1>1, <1>2, <1>5, <2>1, <2>2 DEF ChunkInv, Told, Transferring
  <2> QED
    BY <1>1, <1>2, <1>3, <2>3, <2>4, OtherPhases DEF SessionInv, Phases
<1>7. CASE Acceptable(c, msg.chunk)
  <2>1. AcceptChunk(c, msg.chunk)
    BY <1>7 DEF ServeChunk
  <2>2. ghost'[c] = [ghost[c] EXCEPT !.got = @ \o msg.chunk.data]
    BY <1>7 DEF ObserveChunk, Observe
  <2>4. req'[c] = << >>
    BY <1>4, Taken
  <2>5. ServerInv(c)'
    BY <1>1, <1>2, <2>4 DEF ServerInv
  <2>6. CASE pc[c] = "gone"
    BY <1>1, <1>2, <1>3, <2>5, <2>6, OtherPhases DEF SessionInv, Phases
  <2>7. CASE pc[c] = "last"
    <3>1. /\ Send(c, Done) /\ active_write'[c] = NoTransfer
          /\ Len(ghost'[c].got) = cmd[c].total
          /\ ghost'[c].got = SubSeq(cmd[c].data, 1, cmd[c].total)
      BY <2>1, <2>2, <2>7, ChunkStored
    <3>2. resp'[c] = <<EncodeOutput(Done)>>
      <4>1. Send(c, Done)
        BY <3>1
      <4> QED
        BY <2>7, <4>1, Answered
    <3>3. Told(c, Done)' /\ Delivered(c)' /\ ~Transferring(c)'
      BY <1>1, <1>2, <2>4, <3>1, <3>2 DEF Told, Delivered, Transferring
    <3>4. ChunkInv(c)'
      BY <1>1, <1>2, <1>5, <2>7, <3>3 DEF ChunkInv
    <3> QED
      BY <1>1, <1>2, <1>3, <2>5, <3>4, OtherPhases DEF SessionInv, Phases
  <2>8. CASE pc[c] = "chunk"
    <3>1. /\ Send(c, Progressed(sent[c]))
          /\ active_write'[c] = [path |-> cmd[c].path, expected_offset |-> sent[c],
                                 total_size |-> cmd[c].total]
          /\ ghost'[c].path = cmd[c].path
          /\ ghost'[c].got = SubSeq(cmd[c].data, 1, sent[c])
      BY <2>1, <2>2, <2>8, ChunkStored
    <3>2. resp'[c] = <<EncodeOutput(Progressed(sent[c]))>>
      <4>1. Send(c, Progressed(sent[c]))
        BY <3>1
      <4>2. pc[c] # "gone"
        BY <2>8
      <4> QED
        BY <4>1, <4>2, Answered
    <3>3. Told(c, Progressed(sent[c]))' /\ Holding(c, sent[c])'
      BY <1>1, <1>2, <2>4, <3>1, <3>2 DEF Told, Holding
    <3>4. ChunkInv(c)'
      BY <1>1, <1>2, <1>5, <2>8, <3>3 DEF ChunkInv, HoldingIfUp
    <3> QED
      BY <1>1, <1>2, <1>3, <2>5, <3>4, OtherPhases DEF SessionInv, Phases
  <2> QED
    BY <1>1, <2>6, <2>7, <2>8
<1> QED
  BY <1>6, <1>7


LEMMA ReadServed ==
    ASSUME NEW c \in Client, Shape, Typed(c), SessionInv(c), Arrived(c),
           ServeRead(c, Command(c)), ClientStays
    PROVE  SessionInv(c)'
<1> DEFINE msg == Command(c)
<1>1. /\ pc[c] \in {"read", "gone"} /\ srv[c] = "receiving"
      /\ pc[c] = "read" => cmd[c].kind = "read" /\ Unused(c) /\ resp[c] = << >>
  <2>1. msg.type = "ReadObject"
    BY DEF ServeRead, Receive
  <2> QED
    BY <2>1, InFlight DEF SingleCommand
<1>2. /\ pc'[c] = pc[c] /\ cmd'[c] = cmd[c] /\ result'[c] = result[c]
      /\ localFailure'[c] = localFailure[c] /\ active_write'[c] = active_write[c]
      /\ resp'[c] = resp[c]
  BY DEF ClientStays, ServeRead
<1>3. result'[c].type # "Success"
  BY <1>1, <1>2 DEF SessionInv, ResultInv
<1>4. req'[c] = << >> /\ srv'[c] = "streaming"
  BY InFlight DEF ServeRead, Receive, Shape
<1>5. ServerInv(c)'
  BY <1>4 DEF ServerInv
<1>6. ASSUME pc[c] = "read" PROVE ReadFlow(c)'
  <2>1. resp'[c] = << >>
    BY <1>1, <1>2, <1>6
  <2>2. << >> \in Seq(ReadAnswer) /\ Len(<< >>) = 0
    OBVIOUS
  <2>3. \A i \in 1..Len(resp'[c]) : FALSE
    BY <2>1, <2>2
  <2> QED
    BY <1>4, <2>1, <2>2, <2>3 DEF ReadFlow
<1>7. ReadInv(c)'
  BY <1>1, <1>2, <1>6 DEF ReadInv, Unused, Transferring
<1> QED
  BY <1>1, <1>2, <1>3, <1>5, <1>7, OtherPhases DEF SessionInv, Phases

LEMMA SingleServed ==
    ASSUME NEW c \in Client, Shape, Typed(c), SessionInv(c), Arrived(c),
           ServeSingle(c, Command(c)), ClientStays
    PROVE  SessionInv(c)'
<1> DEFINE msg == Command(c)
<1>1. /\ pc[c] \in {"single", "gone"} /\ srv[c] = "receiving"
      /\ pc[c] = "single" =>
            /\ cmd[c].kind \in {"terminate", "ping"} \cup DOMAIN SingleType
            /\ Unused(c)
  <2>1. msg.type \in SingleCommand
    BY DEF ServeSingle, Receive
  <2> QED
    BY <2>1, InFlight DEF SingleCommand
<1>2. /\ pc'[c] = pc[c] /\ cmd'[c] = cmd[c] /\ result'[c] = result[c]
      /\ localFailure'[c] = localFailure[c] /\ active_write'[c] = active_write[c]
      /\ srv'[c] = srv[c]
  BY DEF ClientStays, ServeSingle, connectionVars
<1>3. result'[c].type # "Success"
  BY <1>1, <1>2 DEF SessionInv, ResultInv
<1>4. Receive(c, msg, SingleCommand)
  BY DEF ServeSingle
<1>5. PICK output \in {Done, Refused, [type |-> "Pong"], [type |-> "Terminated"]} :
          Send(c, output)
  BY DEF ServeSingle, SingleOutput, Fail, Done, Refused
<1> HIDE DEF msg
<1>6. req'[c] = << >> /\ (pc[c] # "gone" => resp'[c] = <<EncodeOutput(output)>>)
  <2>1. req'[c] = << >>
    BY <1>4, Taken
  <2>2. ASSUME pc[c] # "gone" PROVE resp'[c] = <<EncodeOutput(output)>>
    BY <1>5, <2>2, Answered
  <2> QED
    BY <2>1, <2>2
<1>7. ServerInv(c)'
  BY <1>1, <1>2, <1>6 DEF ServerInv
<1>8. pc[c] = "single" => Told(c, output)'
  BY <1>1, <1>2, <1>6 DEF Told
<1>9. SingleInv(c)'
  BY <1>1, <1>2, <1>8 DEF SingleInv, Unused, Transferring
<1> QED
  BY <1>1, <1>2, <1>3, <1>7, <1>9, OtherPhases DEF SessionInv, Phases

LEMMA TerminateServed ==
    ASSUME NEW c \in Client, Shape, Typed(c), SessionInv(c), Arrived(c),
           ServeTerminate(c, Command(c)), ClientStays
    PROVE  SessionInv(c)'
<1> DEFINE msg == Command(c)
           output == [type |-> "Terminated"]
<1>1. /\ pc[c] \in {"single", "gone"}
      /\ pc[c] = "single" => cmd[c].kind \in {"terminate", "ping"} \cup DOMAIN SingleType
  <2>1. msg.type = "Terminate"
    BY DEF ServeTerminate, Receive
  <2> QED
    BY <2>1, InFlight DEF SingleCommand
<1>2. pc'[c] = pc[c] /\ cmd'[c] = cmd[c] /\ result'[c] = result[c]
  BY DEF ClientStays
<1>3. result'[c].type # "Success"
  BY <1>1, <1>2 DEF SessionInv, ResultInv
<1>4. srv'[c] = "closed" /\ active_write'[c] = NoTransfer
  BY DEF ServeTerminate, EndTask, Shape
<1>5. Receive(c, msg, {"Terminate"}) /\ Send(c, output)
  BY DEF ServeTerminate
<1> HIDE DEF msg, output
<1>6. req'[c] = << >> /\ (pc[c] # "gone" => resp'[c] = <<EncodeOutput(output)>>)
  <2>1. req'[c] = << >>
    BY <1>5, Taken
  <2>2. ASSUME pc[c] # "gone" PROVE resp'[c] = <<EncodeOutput(output)>>
    BY <1>5, <2>2, Answered
  <2> QED
    BY <2>1, <2>2
<1>7. ServerInv(c)'
  BY <1>4, <1>6 DEF ServerInv, Transferring
<1>8. pc[c] = "single" => Told(c, output)'
  BY <1>1, <1>4, <1>6 DEF Told
<1>9. SingleInv(c)'
  BY <1>1, <1>2, <1>4, <1>8 DEF SingleInv, Unused, Transferring, output
<1> QED
  BY <1>1, <1>2, <1>3, <1>7, <1>9, OtherPhases DEF SessionInv, Phases


(* A slice of an object is a chunk. *)
LEMMA ChunkAtIsChunk ==
    ASSUME NEW data \in Seq(Byte), NEW offset \in Nat
    PROVE  ChunkAt(data, offset, ChunkSize) \in Chunk
<1> DEFINE end == IF offset + ChunkSize < Len(data) THEN offset + ChunkSize ELSE Len(data)
<1>1. Len(data) \in Nat /\ end \in Nat /\ end <= Len(data)
  BY ChunkAssumption
<1>2. CASE offset >= Len(data)
  BY <1>1, <1>2 DEF ChunkAt, Chunk
<1>3. CASE offset < Len(data)
  <2>1. offset <= end
    BY <1>1, <1>3, ChunkAssumption
  <2>2. SubSeq(data, offset + 1, end) \in Seq(Byte)
    BY <1>1, <2>1, SliceLen
  <2>3. ~(offset >= Len(data))
    BY <1>1, <1>3
  <2>4. ChunkAt(data, offset, ChunkSize)
            = [offset |-> offset, data |-> SubSeq(data, offset + 1, end),
               is_last |-> end = Len(data), total_size |-> Len(data)]
    BY <2>3 DEF ChunkAt
  <2> HIDE DEF end
  <2> QED
    BY <1>1, <2>2, <2>4 DEF Chunk
<1> QED
  BY <1>1, <1>2, <1>3

LEMMA ObjectIsBytes ==
    ASSUME StorageTypeOK, NEW path, NEW data \in GetObject(path)
    PROVE  data \in Seq(Byte)
BY DEF StorageTypeOK, GetObject

(* A further response of a read. *)
LEMMA FlowGrows ==
    ASSUME NEW s \in Seq(ReadAnswer), NEW x \in ReadAnswer,
           \A i \in 1..Len(s) : More(s[i])
    PROVE  /\ Append(s, x) \in Seq(ReadAnswer)
           /\ Len(Append(s, x)) > 0
           /\ Append(s, x)[Len(Append(s, x))] = x
           /\ \A i \in 1..(Len(Append(s, x)) - 1) : More(Append(s, x)[i])
           /\ More(x) => \A i \in 1..Len(Append(s, x)) : More(Append(s, x)[i])
<1> DEFINE t == Append(s, x)
<1>1. /\ t \in Seq(ReadAnswer) /\ Len(t) = Len(s) + 1
      /\ \A i \in 1..Len(s) : t[i] = s[i]
      /\ t[Len(s) + 1] = x /\ Len(s) \in Nat
  BY AppendProperties
<1> HIDE DEF t
<1>2. t[Len(t)] = x /\ Len(t) > 0
  BY <1>1
<1>3. \A i \in 1..(Len(t) - 1) : i \in 1..Len(s)
  BY <1>1
<1>4. \A i \in 1..(Len(t) - 1) : More(t[i])
  BY <1>1, <1>3
<1>5. \A i \in 1..Len(t) : i \in 1..(Len(t) - 1) \/ i = Len(t)
  BY <1>1
<1> QED
  BY <1>1, <1>2, <1>4, <1>5 DEF t

LEMMA ContentSent ==
    ASSUME NEW c \in Client, Shape, Typed(c), SessionInv(c), StorageTypeOK,
           SendContentChunk(c), ClientStays
    PROVE  SessionInv(c)'
<1>1. /\ srv[c] = "streaming" /\ req[c] = << >>
      /\ pc[c] \in {"read", "gone"}
      /\ pc[c] = "read" => cmd[c].kind = "read" /\ Unused(c) /\ ReadFlow(c)
  BY OneMessage DEF SendContentChunk, SessionInv, ServerInv, ReadyInv, BeginInv, SendInv, ChunkInv,
     SingleInv, ReadInv, Dead, Quiet, Asking, Told, Phases
<1>2. /\ pc'[c] = pc[c] /\ cmd'[c] = cmd[c] /\ result'[c] = result[c]
      /\ localFailure'[c] = localFailure[c] /\ active_write'[c] = active_write[c]
      /\ req'[c] = req[c]
  BY DEF ClientStays, SendContentChunk
<1>3. result'[c].type # "Success"
  BY <1>1, <1>2 DEF SessionInv, ResultInv
<1>4. PICK x \in ReadAnswer :
          /\ resp' = [resp EXCEPT ![c] = Append(@, x)]
          /\ More(x) => srv'[c] = "streaming"
          /\ ~More(x) => srv'[c] = "receiving"
  <2>1. CASE Fail(c) /\ EndStream(c)
    BY <2>1, RefusedIsFinal DEF Fail, Refused, Send, EndStream, ReadAnswer, Shape
  <2>2. CASE ~(Fail(c) /\ EndStream(c))
    <3>1. PICK chunk \in GetObjectChunk(stream[c].path, stream[c].offset, ChunkSize) :
              /\ Send(c, Content(chunk))
              /\ chunk.is_last => EndStream(c)
              /\ ~chunk.is_last => UNCHANGED srv
      BY <2>2 DEF SendContentChunk, Content
    <3>2. chunk \in Chunk
      BY ChunkAtIsChunk, ObjectIsBytes DEF GetObjectChunk, Typed
    <3>3. More(EncodeOutput(Content(chunk))) <=> ~chunk.is_last
      BY <3>2, ContentHeard
    <3>4. EncodeOutput(Content(chunk)) \in ReadAnswer
      BY <3>2 DEF ReadAnswer
    <3> QED
      BY <1>1, <3>1, <3>3, <3>4 DEF Send, EndStream, Shape
  <2> QED
    BY <2>1, <2>2
<1>5. srv'[c] \in {"streaming", "receiving"}
  BY <1>4
<1>6. ServerInv(c)'
  BY <1>1, <1>2, <1>5 DEF ServerInv
<1>7. ASSUME pc[c] = "read" PROVE ReadFlow(c)'
  <2>1. resp'[c] = Append(resp[c], x)
    BY <1>4 DEF Shape
  <2>2. resp[c] \in Seq(ReadAnswer) /\ \A i \in 1..Len(resp[c]) : More(resp[c][i])
    BY <1>1, <1>7 DEF ReadFlow
  <2>3. /\ resp'[c] \in Seq(ReadAnswer)
        /\ Len(resp'[c]) > 0
        /\ resp'[c][Len(resp'[c])] = x
        /\ \A i \in 1..(Len(resp'[c]) - 1) : More(resp'[c][i])
        /\ More(x) => \A i \in 1..Len(resp'[c]) : More(resp'[c][i])
    BY <2>1, <2>2, FlowGrows
  <2> QED
    BY <1>1, <1>2, <1>4, <2>3 DEF ReadFlow
<1>8. ReadInv(c)'
  BY <1>1, <1>2, <1>7 DEF ReadInv, Unused, Transferring
<1> QED
  BY <1>1, <1>2, <1>3, <1>6, <1>8, OtherPhases DEF SessionInv, Phases


(* What is left of the responses when the connection is cut. *)
LEMMA CutShort ==
    ASSUME NEW s, NEW n \in 0..Len(s)
    PROVE  /\ s = << >> => SubSeq(s, 1, n) = << >>
           /\ \A x : s = <<x>> => SubSeq(s, 1, n) \in {<< >>, <<x>>}
           /\ s \in Seq(ReadAnswer) =>
                 /\ SubSeq(s, 1, n) \in Seq(ReadAnswer) /\ Len(SubSeq(s, 1, n)) = n
                 /\ \A i \in 1..n : SubSeq(s, 1, n)[i] = s[i]
<1>1. ASSUME s = << >> PROVE SubSeq(s, 1, n) = << >>
  <2>1. << >> \in Seq({}) /\ n = 0
    BY <1>1
  <2> QED
    BY <1>1, <2>1, PrefixIsSeq, EmptySeq
<1>2. ASSUME NEW x, s = <<x>> PROVE SubSeq(s, 1, n) \in {<< >>, <<x>>}
  <2>1. n = 0 \/ n = 1
    BY <1>2
  <2> QED
    BY <1>2, <2>1, OneMessage
<1>3. ASSUME s \in Seq(ReadAnswer)
      PROVE  /\ SubSeq(s, 1, n) \in Seq(ReadAnswer) /\ Len(SubSeq(s, 1, n)) = n
             /\ \A i \in 1..n : SubSeq(s, 1, n)[i] = s[i]
  BY <1>3
<1> QED
  BY <1>1, <1>2, <1>3

LEMMA Closed ==
    ASSUME NEW c \in Client, Shape, Typed(c), SessionInv(c), CloseConnection(c), ClientStays,
           UNCHANGED ghost
    PROVE  SessionInv(c)'
<1>1. /\ pc'[c] = pc[c] /\ cmd'[c] = cmd[c] /\ sent'[c] = sent[c] /\ result'[c] = result[c]
      /\ ghost'[c] = ghost[c]
  BY DEF ClientStays
<1>2. /\ srv'[c] = "closed" /\ active_write'[c] = NoTransfer /\ req'[c] = << >>
  BY DEF CloseConnection, EndTask, Shape
<1>3. PICK n \in 0..Len(resp[c]) : resp'[c] = SubSeq(resp[c], 1, n)
  BY DEF CloseConnection, Shape
<1>4. resp[c] = << >> => Dead(c)'
  BY <1>2, <1>3, CutShort DEF Dead, Quiet
<1>5. ASSUME NEW output, Told(c, output)
      PROVE  Dead(c)' \/ Told(c, output)'
  <2>1. resp'[c] \in {<< >>, <<EncodeOutput(output)>>}
    BY <1>3, <1>5, CutShort DEF Told
  <2> QED
    BY <1>2, <2>1 DEF Dead, Quiet, Told
<1>6. Unused(c)' /\ ~Transferring(c)' /\ \A offset : HoldingIfUp(c, offset)'
  BY <1>2 DEF Unused, Transferring, HoldingIfUp
<1>7. ServerInv(c)'
  BY <1>2, <1>6 DEF ServerInv
<1>8. ReadyInv(c)'
  BY <1>1, <1>4, <1>6 DEF SessionInv, ReadyInv, Quiet, Dead
<1>9. BeginInv(c)'
  <2>1. ASSUME pc[c] = "begin"
        PROVE  Dead(c)' \/ Told(c, Accepted)' \/ Told(c, Refused)'
    BY <2>1, <1>4, <1>5 DEF SessionInv, BeginInv, Dead, Quiet, Asking
  <2> QED
    BY <1>1, <1>6, <2>1 DEF SessionInv, BeginInv
<1>10. InLoop(c) => InLoop(c)'
  BY <1>1 DEF InLoop
<1>11. SendInv(c)'
  BY <1>1, <1>4, <1>6, <1>10 DEF SessionInv, SendInv, Quiet, Dead
<1>12. ChunkInv(c)'
  <2>1. Delivered(c)' <=> Delivered(c)
    BY <1>1 DEF Delivered
  <2>2. ASSUME Told(c, Progressed(sent[c]))
        PROVE  Dead(c)' \/ Told(c, Progressed(sent[c]))'
    BY <1>1, <1>5, <2>2
  <2> QED
    BY <1>1, <1>4, <1>5, <1>6, <1>10, <2>1, <2>2 DEF SessionInv, ChunkInv, Dead, Quiet, Asking
<1>13. SingleInv(c)'
  BY <1>1, <1>4, <1>5, <1>6 DEF SessionInv, SingleInv, Dead, Quiet, Asking
<1>14. ReadInv(c)'
  <2>1. ASSUME ReadFlow(c) PROVE ReadFlow(c)'
    <3>1. /\ resp'[c] \in Seq(ReadAnswer) /\ Len(resp'[c]) = n
          /\ \A i \in 1..n : resp'[c][i] = resp[c][i]
      BY <1>3, <2>1, CutShort DEF ReadFlow
    <3>2. \A i \in 1..(Len(resp[c]) - 1) : More(resp[c][i])
      BY <2>1 DEF ReadFlow
    <3>3. \A i \in 1..(n - 1) : i \in 1..n /\ i \in 1..(Len(resp[c]) - 1)
      BY <1>3, <2>1 DEF ReadFlow
    <3>4. \A i \in 1..(Len(resp'[c]) - 1) : More(resp'[c][i])
      BY <3>1, <3>2, <3>3
    <3> QED
      BY <1>2, <3>1, <3>4 DEF ReadFlow
  <2>2. ASSUME Dead(c)' PROVE ReadFlow(c)'
    <3>1. resp'[c] = << >> /\ req'[c] = << >>
      BY <2>2 DEF Dead, Quiet
    <3>2. << >> \in Seq(ReadAnswer) /\ Len(<< >>) = 0
      OBVIOUS
    <3>3. \A i \in 1..(Len(resp'[c]) - 1) : FALSE
      BY <3>1, <3>2
    <3> QED
      BY <1>2, <3>1, <3>2, <3>3 DEF ReadFlow
  <2> QED
    BY <1>1, <1>4, <1>6, <2>1, <2>2 DEF SessionInv, ReadInv, Asking
<1>15. ResultInv(c)' /\ (pc[c] \in Phases)'
  BY <1>1 DEF SessionInv, ResultInv, Delivered
<1> QED
  BY <1>7, <1>8, <1>9, <1>11, <1>12, <1>13, <1>14, <1>15 DEF SessionInv


-----------------------------------------------------------------------------
(* The client's steps. *)
ServerStays == UNCHANGED <<srv, active_write, stream, ghost>>

LEMMA ServerUnaffected ==
    ASSUME NEW c, SessionInv(c), ServerStays, req'[c] = req[c]
    PROVE  ServerInv(c)'
BY DEF SessionInv, ServerInv, ServerStays, Command, Fitting, Transferring

LEMMA Hears ==
    ASSUME NEW c \in Client, Shape, NEW output, Told(c, output), Take(c)
    PROVE  Output(c) = DecodeOutput(EncodeOutput(output)) /\ resp'[c] = << >>
BY OneMessage DEF Shape, Told, Take, Output

LEMMA BeginAnswered ==
    ASSUME NEW c \in Client, Shape, Typed(c), SessionInv(c), resp[c] # << >>,
           BeginResponse(c, Output(c)), ServerStays, UNCHANGED localFailure
    PROVE  SessionInv(c)'
<1>1. /\ cmd[c].kind \in Transfers /\ sent[c] = 0
      /\ \/ Told(c, Accepted) /\ HoldingIfUp(c, 0)
         \/ Told(c, Refused) /\ Unused(c)
  BY DEF BeginResponse, SessionInv, BeginInv, Dead, Quiet, Asking
<1>2. /\ req'[c] = req[c] /\ sent'[c] = sent[c] /\ srv'[c] = srv[c]
      /\ active_write'[c] = active_write[c] /\ ghost'[c] = ghost[c]
      /\ localFailure'[c] = localFailure[c]
  BY DEF BeginResponse, ServerStays
<1>3. ServerInv(c)'
  BY <1>2, ServerUnaffected
<1>4. req[c] = << >> /\ srv[c] # "streaming" /\ result[c].type # "Success"
  BY <1>1 DEF Told, BeginResponse, SessionInv, ResultInv
<1>5. CASE Told(c, Accepted) /\ HoldingIfUp(c, 0)
  <2>1. /\ Output(c) = [type |-> "TransferReady", chunk_size |-> ClampU32(ChunkSize)]
        /\ resp'[c] = << >>
    BY <1>5, Hears, AcceptedHeard DEF BeginResponse
  <2> DEFINE size == Clamped(ClampU32(ChunkSize))
  <2>2. /\ pc'[c] = IF cmd[c].kind = "upload" THEN "open" ELSE "send"
        /\ cmd' = [cmd EXCEPT ![c].chunk_size = size]
        /\ result'[c] = result[c]
    BY <2>1 DEF BeginResponse, Shape
  <2>3. size \in 1..ChunkSize
    BY ChunkSizeAgreed
  <2> HIDE DEF size
  <2>4. /\ cmd'[c].kind = cmd[c].kind /\ cmd'[c].path = cmd[c].path
        /\ cmd'[c].data = cmd[c].data /\ cmd'[c].total = cmd[c].total
        /\ cmd'[c].chunk_size = size
    BY <2>2 DEF Shape, Typed, PlanType
  <2>5. InLoop(c)'
    BY <1>1, <1>2, <2>3, <2>4 DEF InLoop, Typed, PlanType
  <2>6. Quiet(c)' /\ HoldingIfUp(c, sent[c])'
    BY <1>1, <1>2, <1>4, <1>5, <2>1, <2>4 DEF Quiet, HoldingIfUp, Holding
  <2>7. SendInv(c)'
    BY <1>1, <1>2, <2>2, <2>4, <2>5, <2>6 DEF SendInv
  <2>8. pc'[c] \in {"open", "send"} /\ result'[c].type # "Success"
    BY <1>4, <2>2
  <2> QED
    BY <1>3, <2>7, <2>8, OtherPhases DEF SessionInv, Phases
<1>6. CASE Told(c, Refused) /\ Unused(c)
  <2>1. Output(c) = Refused /\ resp'[c] = << >>
    BY <1>6, Hears, PlainHeard DEF BeginResponse
  <2>2. pc'[c] = "ready" /\ result'[c] = [type |-> "Err"]
    BY <2>1 DEF BeginResponse, Refused, Return, Shape
  <2>3. ReadyInv(c)'
    BY <1>2, <1>4, <1>6, <2>1 DEF ReadyInv, Quiet, Unused, Transferring
  <2> QED
    BY <1>3, <2>2, <2>3, OtherPhases DEF SessionInv, Phases
<1> QED
  BY <1>1, <1>5, <1>6

LEMMA ChunkAnswered ==
    ASSUME NEW c \in Client, Shape, Typed(c), SessionInv(c), resp[c] # << >>,
           ChunkResponse(c, Output(c)), ServerStays, UNCHANGED localFailure
    PROVE  SessionInv(c)'
<1>1. /\ InLoop(c) /\ Take(c)
      /\ \/ pc[c] = "chunk" /\ Told(c, Progressed(sent[c])) /\ HoldingIfUp(c, sent[c])
         \/ pc[c] = "last" /\ Told(c, Done) /\ Delivered(c) /\ ~Transferring(c)
         \/ pc[c] \in {"chunk", "last"} /\ Told(c, Refused) /\ ~Transferring(c)
  BY DEF ChunkResponse, SessionInv, ChunkInv, Dead, Quiet, Asking
<1>2. /\ req'[c] = req[c] /\ sent'[c] = sent[c] /\ cmd'[c] = cmd[c] /\ srv'[c] = srv[c]
      /\ active_write'[c] = active_write[c] /\ ghost'[c] = ghost[c]
  BY DEF ChunkResponse, ServerStays
<1>3. ServerInv(c)'
  BY <1>2, ServerUnaffected
<1>4. req[c] = << >> /\ srv[c] # "streaming"
  BY <1>1 DEF Told
<1>5. ASSUME pc[c] = "chunk", Told(c, Progressed(sent[c])), HoldingIfUp(c, sent[c])
      PROVE  SessionInv(c)'
  <2>1. Output(c).type = "TransferProgress" /\ resp'[c] = << >>
    BY <1>1, <1>5, Hears, ProgressHeard DEF Progressed
  <2>2. pc'[c] = "send" /\ result'[c] = result[c]
    BY <1>5, <2>1 DEF ChunkResponse, Shape
  <2>3. SendInv(c)'
    BY <1>1, <1>2, <1>4, <1>5, <2>1, <2>2 DEF SendInv, InLoop, Quiet, HoldingIfUp, Holding
  <2>4. result'[c].type # "Success"
    BY <1>5, <2>2 DEF SessionInv, ResultInv
  <2> QED
    BY <1>3, <2>2, <2>3, <2>4, OtherPhases DEF SessionInv, Phases
<1>6. ASSUME NEW output \in {Done, Refused}, Told(c, output), ~Transferring(c),
             output = Done => pc[c] = "last" /\ Delivered(c)
      PROVE  SessionInv(c)'
  <2>1. Output(c) = output /\ resp'[c] = << >>
    BY <1>1, <1>6, Hears, PlainHeard
  <2>2. output.type # "TransferProgress"
    BY DEF Done, Refused
  <2>3. pc'[c] = "ready" /\ result'[c] \in {output, [type |-> "Err"]}
    BY <2>1, <2>2 DEF ChunkResponse, Return, Shape
  <2>4. ReadyInv(c)'
    BY <1>2, <1>4, <1>6, <2>1 DEF ReadyInv, Quiet, Unused, Transferring
  <2>5. ResultInv(c)'
    <3>1. CASE output = Done
      BY <1>2, <1>6, <2>3, <3>1 DEF ResultInv, Delivered
    <3>2. CASE output = Refused
      BY <2>3, <3>2 DEF ResultInv, Refused
    <3> QED
      BY <3>1, <3>2
  <2> QED
    BY <1>3, <2>3, <2>4, <2>5, OtherPhases DEF SessionInv, Phases
<1>7. Done # Refused
  BY DEF Done, Refused
<1> QED
  BY <1>1, <1>5, <1>6, <1>7


LEMMA OneLeft == \A n \in Nat : n > 0 /\ 1 \notin 1..(n - 1) => n = 1
OBVIOUS

(* Taking a response of a read. *)
LEMMA FlowShrinks ==
    ASSUME NEW s \in Seq(ReadAnswer), s # << >>
    PROVE  /\ Tail(s) \in Seq(ReadAnswer) /\ Len(Tail(s)) = Len(s) - 1
           /\ \A i \in 1..(Len(s) - 1) : Tail(s)[i] = s[i + 1]
           /\ Head(s) = s[1] /\ Len(s) \in Nat /\ Len(s) > 0
           /\ Len(s) = 1 => Tail(s) = << >>
<1>1. /\ Tail(s) \in Seq(ReadAnswer) /\ Len(Tail(s)) = Len(s) - 1
      /\ \A i \in 1..(Len(s) - 1) : Tail(s)[i] = s[i + 1]
      /\ Head(s) = s[1]
  BY HeadTailProperties
<1>2. Len(s) \in Nat /\ Len(s) > 0
  BY EmptySeq
<1>3. ASSUME Len(s) = 1 PROVE Tail(s) = << >>
  <2>1. s = <<s[1]>>
    <3>1. <<s[1]>> \in Seq(ReadAnswer) /\ Len(<<s[1]>>) = 1 /\ <<s[1]>>[1] = s[1]
      BY <1>2
    <3> QED
      BY <1>3, <3>1, SeqEqual
  <2> QED
    BY <2>1, OneMessage
<1> QED
  BY <1>1, <1>2, <1>3

LEMMA ReadAnswered ==
    ASSUME NEW c \in Client, Shape, Typed(c), SessionInv(c), resp[c] # << >>,
           ReadResponse(c, Output(c)), ServerStays, UNCHANGED localFailure
    PROVE  SessionInv(c)'
<1>1. pc[c] = "read" /\ cmd[c].kind = "read" /\ Unused(c) /\ ReadFlow(c) /\ Take(c)
  BY DEF ReadResponse, SessionInv, ReadInv, Asking
<1>2. /\ req'[c] = req[c] /\ cmd'[c] = cmd[c] /\ srv'[c] = srv[c]
      /\ active_write'[c] = active_write[c] /\ localFailure'[c] = localFailure[c]
  BY DEF ReadResponse, ServerStays
<1>3. ServerInv(c)'
  BY <1>2, ServerUnaffected
<1>4. req[c] = << >> /\ result[c].type # "Success"
  BY <1>1 DEF ReadFlow, SessionInv, ResultInv
<1>5. /\ resp'[c] = Tail(resp[c]) /\ resp[c] \in Seq(ReadAnswer)
      /\ Output(c) = DecodeOutput(resp[c][1])
  BY <1>1, FlowShrinks DEF Take, Shape, ReadFlow, Output
<1>6. CASE More(resp[c][1])
  <2>1. Output(c).type = "ObjectContentChunk" /\ ~Output(c).chunk.is_last
    BY <1>5, <1>6 DEF More
  <2>2. pc'[c] = "read" /\ result'[c] = result[c]
    BY <1>1, <2>1 DEF ReadResponse
  <2>3. ReadFlow(c)'
    <3> DEFINE s == resp[c]
               t == Tail(resp[c])
    <3>1. /\ t \in Seq(ReadAnswer) /\ Len(t) = Len(s) - 1
          /\ \A i \in 1..(Len(s) - 1) : t[i] = s[i + 1]
          /\ Len(s) \in Nat /\ Len(s) > 0
      BY <1>5, FlowShrinks
    <3>2. /\ srv[c] = "streaming" => \A i \in 1..Len(s) : More(s[i])
          /\ srv[c] # "streaming" => \A i \in 1..(Len(s) - 1) : More(s[i])
          /\ srv[c] = "receiving" => ~More(s[Len(s)])
      BY <1>1 DEF ReadFlow
    <3>3. More(s[1])
      BY <1>6
    <3> HIDE DEF s, t
    <3>4. ASSUME srv[c] = "streaming", NEW i \in 1..Len(t) PROVE More(t[i])
      <4>1. i \in 1..(Len(s) - 1) /\ i + 1 \in 1..Len(s)
        BY <3>1, <3>4
      <4> QED
        BY <3>1, <3>2, <3>4, <4>1
    <3>5. ASSUME srv[c] # "streaming", NEW i \in 1..(Len(t) - 1) PROVE More(t[i])
      <4>1. i \in 1..(Len(s) - 1) /\ i + 1 \in 1..(Len(s) - 1)
        BY <3>1, <3>5
      <4> QED
        BY <3>1, <3>2, <3>5, <4>1
    <3>6. ASSUME srv[c] = "receiving" PROVE Len(t) > 0 /\ ~More(t[Len(t)])
      <4>1. Len(s) # 1
        BY <3>2, <3>3, <3>6
      <4>2. Len(t) > 0 /\ Len(t) \in 1..(Len(s) - 1) /\ Len(t) + 1 = Len(s)
        BY <3>1, <4>1
      <4>3. t[Len(t)] = s[Len(t) + 1]
        BY <3>1, <4>2
      <4>4. s[Len(t) + 1] = s[Len(s)]
        BY <4>2
      <4> QED
        BY <3>2, <3>6, <4>2, <4>3, <4>4
    <3>7. resp'[c] = t /\ req'[c] = << >> /\ srv'[c] = srv[c]
      BY <1>2, <1>4, <1>5 DEF t
    <3> QED
      BY <3>1, <3>4, <3>5, <3>6, <3>7 DEF ReadFlow
  <2>4. ReadInv(c)'
    BY <1>1, <1>2, <2>3 DEF ReadInv, Unused, Transferring
  <2> QED
    BY <1>3, <1>4, <2>2, <2>4, OtherPhases DEF SessionInv, Phases
<1>7. CASE ~More(resp[c][1])
  <2>1. ~(Output(c).type = "ObjectContentChunk" /\ ~Output(c).chunk.is_last)
    BY <1>5, <1>7 DEF More
  <2>2. pc'[c] = "ready" /\ result'[c].type # "Success"
    <3>1. CASE Output(c).type = "ObjectContentChunk"
      BY <2>1, <3>1 DEF ReadResponse, Return, Shape
    <3>2. CASE Output(c).type # "ObjectContentChunk"
      BY <3>2 DEF ReadResponse, Return, Shape
    <3> QED
      BY <3>1, <3>2
  <2>3. Len(resp[c]) \in Nat /\ Len(resp[c]) > 0
    BY <1>5, FlowShrinks
  <2>4. srv[c] # "streaming"
    <3>1. 1 \in 1..Len(resp[c])
      BY <2>3
    <3> QED
      BY <1>1, <1>7, <3>1 DEF ReadFlow
  <2>5. Len(resp[c]) = 1
    <3>1. 1 \notin 1..(Len(resp[c]) - 1)
      BY <1>1, <1>7, <2>4 DEF ReadFlow
    <3> QED
      BY <2>3, <3>1, OneLeft
  <2>6. resp'[c] = << >>
    BY <1>5, <2>5, FlowShrinks
  <2>7. ReadyInv(c)'
    BY <1>1, <1>2, <1>4, <2>4, <2>6 DEF ReadyInv, Quiet, Unused, Transferring
  <2> QED
    BY <1>3, <2>2, <2>7, OtherPhases DEF SessionInv, Phases
<1> QED
  BY <1>6, <1>7

LEMMA SingleAnswered ==
    ASSUME NEW c \in Client, Shape, Typed(c), SessionInv(c), resp[c] # << >>,
           SingleResponse(c, Output(c)), ServerStays, UNCHANGED localFailure
    PROVE  SessionInv(c)'
<1>1. /\ cmd[c].kind \in {"terminate", "ping"} \cup DOMAIN SingleType
      /\ Unused(c) /\ req[c] = << >> /\ srv[c] # "streaming" /\ Take(c)
      /\ \E output : Told(c, output)
  BY DEF SingleResponse, SessionInv, SingleInv, Dead, Quiet, Asking, Told
<1>2. /\ req'[c] = req[c] /\ cmd'[c] = cmd[c] /\ srv'[c] = srv[c]
      /\ active_write'[c] = active_write[c] /\ localFailure'[c] = localFailure[c]
  BY DEF SingleResponse, ServerStays
<1>3. ServerInv(c)'
  BY <1>2, ServerUnaffected
<1>4. resp'[c] = << >>
  BY <1>1, Hears
<1>5. pc'[c] = "ready"
  BY DEF SingleResponse, Return, Shape
<1>6. ReadyInv(c)'
  BY <1>1, <1>2, <1>4 DEF ReadyInv, Quiet, Unused, Transferring
<1>7. ResultInv(c)'
  BY <1>1, <1>2, <1>5, Kinds DEF ResultInv
<1> QED
  BY <1>3, <1>5, <1>6, <1>7, OtherPhases DEF SessionInv, Phases


LEMMA FileOpened ==
    ASSUME NEW c \in Client, Shape, Typed(c), SessionInv(c), OpenLocalFile(c), ServerStays,
           UNCHANGED localFailure
    PROVE  SessionInv(c)'
<1>1. /\ pc[c] = "open" /\ InLoop(c) /\ sent[c] = 0
      /\ Quiet(c) /\ HoldingIfUp(c, 0)
  BY DEF OpenLocalFile, SessionInv, SendInv
<1>2. /\ req'[c] = req[c] /\ resp'[c] = resp[c] /\ sent'[c] = sent[c] /\ srv'[c] = srv[c]
      /\ active_write'[c] = active_write[c] /\ ghost'[c] = ghost[c] /\ result'[c] = result[c]
  BY DEF OpenLocalFile, ServerStays
<1>3. ServerInv(c)'
  BY <1>2, ServerUnaffected
<1>4. PICK content \in Seq(Byte) : cmd' = [cmd EXCEPT ![c].data = content]
  BY StorageAssumption DEF OpenLocalFile
<1>5. /\ cmd'[c].kind = cmd[c].kind /\ cmd'[c].path = cmd[c].path
      /\ cmd'[c].data = content /\ cmd'[c].total = cmd[c].total
      /\ cmd'[c].chunk_size = cmd[c].chunk_size
  BY <1>4 DEF Shape, Typed, PlanType
<1>6. SubSeq(cmd[c].data, 1, 0) = << >> /\ SubSeq(content, 1, 0) = << >>
  BY PrefixIsSeq, EmptySeq DEF Typed, PlanType
<1>7. pc'[c] = "send"
  BY DEF OpenLocalFile, Shape
<1>8. InLoop(c)'
  BY <1>1, <1>2, <1>5 DEF InLoop
<1>9. Quiet(c)' /\ HoldingIfUp(c, sent[c])'
  BY <1>1, <1>2, <1>5, <1>6 DEF Quiet, HoldingIfUp, Holding
<1>10. SendInv(c)'
  BY <1>7, <1>8, <1>9 DEF SendInv
<1>11. result'[c].type # "Success"
  BY <1>1, <1>2 DEF SessionInv, ResultInv
<1> QED
  BY <1>3, <1>7, <1>10, <1>11, OtherPhases DEF SessionInv, Phases

LEMMA FileFailed ==
    ASSUME NEW c \in Client, Shape, SessionInv(c), LocalFileFails(c), ServerStays,
           localFailure' = [localFailure EXCEPT ![c] = TRUE]
    PROVE  SessionInv(c)'
<1>1. Quiet(c)
  BY DEF LocalFileFails, SessionInv, SendInv
<1>2. /\ req'[c] = req[c] /\ resp'[c] = resp[c] /\ srv'[c] = srv[c] /\ localFailure'[c] = TRUE
  BY DEF LocalFileFails, ServerStays, Shape
<1>3. ServerInv(c)'
  BY <1>2, ServerUnaffected
<1>4. pc'[c] = "ready" /\ result'[c] = [type |-> "LocalErr"]
  BY DEF LocalFileFails, Return, Shape
<1>5. ReadyInv(c)'
  BY <1>1, <1>2 DEF ReadyInv, Quiet, Unused
<1> QED
  BY <1>3, <1>4, <1>5, OtherPhases DEF SessionInv, Phases

LEMMA ConnectionLost ==
    ASSUME NEW c \in Client, Shape, SessionInv(c), LoseConnection(c), ServerStays
    PROVE  SessionInv(c)'
<1>1. pc'[c] = "gone" /\ result'[c] = [type |-> "NetworkError"] /\ req'[c] = req[c]
  BY DEF LoseConnection, Shape
<1>2. ServerInv(c)'
  BY <1>1, ServerUnaffected
<1> QED
  BY <1>1, <1>2, OtherPhases DEF SessionInv, Phases

LEMMA Disconnected ==
    ASSUME NEW c \in Client, Shape, SessionInv(c), Disconnect(c), ServerStays
    PROVE  SessionInv(c)'
<1>1. pc'[c] = "gone" /\ result'[c] = [type |-> "None"] /\ req'[c] = req[c]
  BY DEF Disconnect, Shape, NoResult
<1>2. ServerInv(c)'
  BY <1>1, ServerUnaffected
<1> QED
  BY <1>1, <1>2, OtherPhases DEF SessionInv, Phases

(* What the next chunk can be. *)
LEMMA NextLenBounds ==
    ASSUME NEW c, Typed(c), InLoop(c), NEW n \in NextLen(c)
    PROVE  /\ n \in Nat /\ n <= ChunkSize /\ sent[c] + n <= Len(cmd[c].data)
           /\ cmd[c].total = 0 => sent[c] + n = 0
<1>1. /\ sent[c] \in Nat /\ sent[c] <= Len(cmd[c].data) /\ Len(cmd[c].data) \in Nat
      /\ cmd[c].chunk_size \in Nat /\ cmd[c].chunk_size <= ChunkSize
      /\ (cmd[c].total = 0 => sent[c] = 0)
  BY DEF InLoop, Typed, PlanType
<1>2. CASE cmd[c].total = 0
  BY <1>1, <1>2, ChunkAssumption DEF NextLen
<1>3. CASE cmd[c].total # 0
  BY <1>1, <1>3, ChunkAssumption DEF NextLen, Left, Smaller
<1> QED
  BY <1>2, <1>3

LEMMA ChunkPosted ==
    ASSUME NEW c \in Client, Shape, Typed(c), SessionInv(c), SendChunk(c), ServerStays,
           UNCHANGED localFailure
    PROVE  SessionInv(c)'
<1>1. /\ pc[c] = "send" /\ InLoop(c) /\ Quiet(c) /\ HoldingIfUp(c, sent[c])
  BY DEF SendChunk, SessionInv, SendInv
<1>2. /\ resp'[c] = resp[c] /\ cmd'[c] = cmd[c] /\ srv'[c] = srv[c]
      /\ active_write'[c] = active_write[c] /\ ghost'[c] = ghost[c] /\ result'[c] = result[c]
  BY DEF SendChunk, ServerStays
<1>3. PICK n \in NextLen(c) :
          /\ Request(c, [type |-> "WriteObjectChunk", chunk |-> NextChunk(c, n)])
          /\ pc' = [pc EXCEPT ![c] = IF NextChunk(c, n).is_last THEN "last" ELSE "chunk"]
          /\ sent' = [sent EXCEPT ![c] = @ + n]
  BY DEF SendChunk
<1>0. PICK old : old = sent[c]
  OBVIOUS
<1> DEFINE data == cmd[c].data
<1>4. /\ n \in Nat /\ n <= ChunkSize /\ old + n <= Len(data)
      /\ cmd[c].total = 0 => old + n = 0
  BY <1>0, <1>1, NextLenBounds
<1>5. old \in Nat /\ Len(data) \in Nat /\ data \in Seq(Byte) /\ cmd[c].total \in Nat
  BY <1>0, <1>1 DEF InLoop, Typed, PlanType
<1>6. sent'[c] = old + n
  BY <1>0, <1>3 DEF Shape
<1>7. /\ pc'[c] \in {"chunk", "last"}
      /\ (pc[c] = "last" <=> sent[c] = cmd[c].total)'
  BY <1>0, <1>2, <1>3, <1>6 DEF NextChunk, Shape
<1>8. InLoop(c)'
  BY <1>1, <1>2, <1>4, <1>5, <1>6 DEF InLoop
<1>9. result'[c].type # "Success"
  BY <1>1, <1>2 DEF SessionInv, ResultInv
<1>10. CASE srv[c] = "closed"
  <2>1. req'[c] = req[c]
    BY <1>3, <1>10 DEF Request, Shape
  <2>2. ServerInv(c)'
    BY <2>1, ServerUnaffected
  <2>3. Dead(c)'
    BY <1>1, <1>2, <1>10, <2>1 DEF Dead, Quiet
  <2>4. ChunkInv(c)'
    BY <1>7, <1>8, <2>3 DEF ChunkInv
  <2> QED
    BY <1>7, <1>9, <2>2, <2>4, OtherPhases DEF SessionInv, Phases
<1>11. CASE srv[c] # "closed"
  <2>1. srv[c] = "receiving" /\ req[c] = << >> /\ resp[c] = << >>
    BY <1>1, <1>11 DEF SessionInv, ServerInv, Quiet
  <2>2. [type |-> "WriteObjectChunk", chunk |-> NextChunk(c, n)] = ChunkSent(c, old)'
    BY <1>0, <1>2, <1>6 DEF NextChunk, ChunkSent
  <2>3. req'[c] = <<EncodeCommand([type |-> "WriteObjectChunk", chunk |-> NextChunk(c, n)])>>
    BY <1>3, <1>11, <2>1, OneMessage DEF Request, Shape
  <2>4. Asking(c, ChunkSent(c, old))'
    BY <1>2, <2>1, <2>2, <2>3 DEF Asking
  <2>5. Holding(c, old) /\ Holding(c, old)'
    BY <1>0, <1>1, <1>2, <1>11 DEF HoldingIfUp, Holding
  <2> DEFINE chunk == NextChunk(c, n)
  <2>6. Command(c)' = [type |-> "WriteObjectChunk", chunk |-> chunk]
    BY <2>3, OneMessage, ChunkRoundTrip DEF Command, NextChunk
  <2>7. /\ chunk.offset = old /\ chunk.total_size = cmd[c].total /\ chunk.is_last \in BOOLEAN
        /\ chunk.data = SubSeq(data, old + 1, old + n)
        /\ chunk = [offset |-> chunk.offset, data |-> chunk.data, is_last |-> chunk.is_last,
                    total_size |-> chunk.total_size]
    BY <1>0 DEF NextChunk
  <2>8. chunk.data \in Seq(Byte) /\ Len(chunk.data) <= ChunkSize
    <3>1. old + n \in Nat /\ old <= old + n /\ (old + n) - old = n
      BY <1>4, <1>5
    <3>2. /\ SubSeq(data, old + 1, old + n) \in Seq(Byte)
          /\ Len(SubSeq(data, old + 1, old + n)) = n
      BY <1>4, <1>5, <3>1, SliceLen
    <3> QED
      BY <1>4, <2>7, <3>2
  <2> HIDE DEF chunk
  <2>9. chunk \in Chunk
    BY <1>5, <2>7, <2>8 DEF Chunk
  <2>10. /\ active_write'[c].expected_offset = old /\ active_write'[c].total_size = cmd[c].total
         /\ ghost'[c].path = active_write'[c].path /\ active_write'[c] # NoTransfer
    BY <1>2, <2>5 DEF Holding, NoTransfer
  <2>11. Fitting(c, Command(c))'
    BY <2>6, <2>7, <2>8, <2>9, <2>10 DEF Fitting, Transferring, ChunkFits
  <2>12. ServerInv(c)'
    BY <1>2, <2>1, <2>3, <2>10, <2>11, OneMessage DEF ServerInv, Transferring
  <2>13. old \in 0..sent'[c] /\ sent'[c] - old <= ChunkSize
    BY <1>4, <1>5, <1>6
  <2>14. ChunkInv(c)'
    BY <1>7, <1>8, <2>4, <2>5, <2>13 DEF ChunkInv
  <2> QED
    BY <1>7, <1>9, <2>12, <2>14, OtherPhases DEF SessionInv, Phases
<1> QED
  BY <1>10, <1>11


LEMMA PlanIsTyped ==
    ASSUME NEW kind \in Kind, NEW plan \in Plan(kind)
    PROVE  plan \in PlanType /\ plan.kind = kind
<1>1. PICK path \in RawPath, data \in PlanData(kind) : plan = PlanOf(kind, path, data)
  BY DEF Plan
<1>2. data \in Seq(Byte) /\ Len(data) \in Nat
  <2>1. Data \subseteq Seq(Byte) /\ << >> \in Seq(Byte)
    BY StorageAssumption
  <2>2. data \in Data \/ data = << >>
    BY DEF PlanData
  <2>3. data \in Seq(Byte)
    BY <2>1, <2>2
  <2> QED
    BY <2>3
<1>3. plan = [kind |-> kind, path |-> path, data |-> data, total |-> Len(data), chunk_size |-> 0]
  BY <1>1 DEF PlanOf, NoCommand
<1> QED
  BY <1>2, <1>3 DEF PlanType

LEMMA DeadReadFlow ==
    ASSUME NEW c, Dead(c)
    PROVE  ReadFlow(c)
<1>1. resp[c] = << >> /\ req[c] = << >> /\ srv[c] = "closed"
  BY DEF Dead, Quiet
<1>2. << >> \in Seq(ReadAnswer) /\ Len(<< >>) = 0
  OBVIOUS
<1>3. \A i \in 1..(Len(resp[c]) - 1) : FALSE
  BY <1>1, <1>2
<1> QED
  BY <1>1, <1>2, <1>3 DEF ReadFlow

LEMMA CommandStarted ==
    ASSUME NEW c \in Client, Shape, Typed(c), SessionInv(c), NEW kind \in Kind,
           NEW plan \in Plan(kind), StartCommand(c, plan), ServerStays, UNCHANGED localFailure
    PROVE  SessionInv(c)'
<1>1. pc[c] = "ready" /\ Quiet(c) /\ Unused(c)
  BY DEF StartCommand, SessionInv, ReadyInv
<1>2. /\ resp'[c] = resp[c] /\ srv'[c] = srv[c] /\ active_write'[c] = active_write[c]
      /\ localFailure'[c] = localFailure[c]
  BY DEF StartCommand, ServerStays
<1>3. /\ cmd'[c] = plan /\ sent'[c] = 0 /\ result'[c] = [type |-> "None"]
      /\ pc'[c] = Waiting(plan)
  BY DEF StartCommand, Shape, NoResult
<1>4. plan.kind \in Transfers \cup {"read", "terminate", "ping"} \cup DOMAIN SingleType
  BY PlanIsTyped, ManagerAssumption
<1>5. /\ DecodeCommand(EncodeCommand(FirstRequest(plan))) = FirstRequest(plan)
      /\ FirstRequest(plan).type # "WriteObjectChunk"
  <2>1. CASE plan.kind \in Transfers
    BY <2>1, FirstOfTransfer
  <2>2. CASE plan.kind = "read"
    BY <2>2, FirstOfRead
  <2>3. CASE plan.kind \in {"terminate", "ping"} \cup DOMAIN SingleType
    BY <2>3, FirstOfSingle DEF SingleCommand
  <2> QED
    BY <1>4, <2>1, <2>2, <2>3
<1>6. Unused(c)'
  BY <1>1, <1>2 DEF Unused, Transferring
<1>7. /\ Dead(c)' \/ Asking(c, FirstRequest(cmd[c]))'
      /\ ServerInv(c)'
  <2>1. CASE srv[c] = "closed"
    <3>1. req'[c] = req[c]
      BY <2>1 DEF StartCommand, Request, Shape
    <3> QED
      BY <1>1, <1>2, <2>1, <3>1, ServerUnaffected DEF Dead, Quiet
  <2>2. CASE srv[c] # "closed"
    <3>1. srv[c] = "receiving" /\ req[c] = << >> /\ resp[c] = << >>
      BY <1>1, <2>2 DEF SessionInv, ServerInv, Quiet
    <3>2. req'[c] = <<EncodeCommand(FirstRequest(plan))>>
      BY <2>2, <3>1, OneMessage DEF StartCommand, Request, Shape
    <3>3. Asking(c, FirstRequest(cmd[c]))'
      BY <1>2, <1>3, <3>1, <3>2 DEF Asking
    <3>4. Command(c)' = FirstRequest(plan)
      BY <1>5, <3>2, OneMessage DEF Command
    <3>5. Fitting(c, Command(c))'
      BY <1>5, <3>4 DEF Fitting
    <3>6. ServerInv(c)'
      BY <1>2, <3>1, <3>2, <3>5, OneMessage DEF ServerInv
    <3> QED
      BY <3>3, <3>6
  <2> QED
    BY <2>1, <2>2
<1>8. CASE plan.kind \in Transfers
  <2>1. pc'[c] = "begin"
    BY <1>3, <1>8 DEF Waiting
  <2>2. BeginInv(c)'
    BY <1>3, <1>6, <1>7, <1>8 DEF BeginInv
  <2> QED
    BY <1>3, <1>7, <2>1, <2>2, OtherPhases DEF SessionInv, Phases
<1>9. CASE plan.kind = "read"
  <2>1. pc'[c] = "read"
    BY <1>3, <1>9, Kinds DEF Waiting
  <2>2. Dead(c)' => ReadFlow(c)'
    BY DeadReadFlow, PTL
  <2>3. ReadInv(c)'
    BY <1>3, <1>6, <1>7, <1>9, <2>2 DEF ReadInv
  <2> QED
    BY <1>3, <1>7, <2>1, <2>3, OtherPhases DEF SessionInv, Phases
<1>10. CASE plan.kind \in {"terminate", "ping"} \cup DOMAIN SingleType
  <2>1. pc'[c] = "single"
    BY <1>3, <1>10, Kinds DEF Waiting
  <2>2. SingleInv(c)'
    BY <1>3, <1>6, <1>7, <1>10 DEF SingleInv
  <2> QED
    BY <1>3, <1>7, <2>1, <2>2, OtherPhases DEF SessionInv, Phases
<1> QED
  BY <1>4, <1>8, <1>9, <1>10


-----------------------------------------------------------------------------
(* The storage behind the sessions. *)

(* A path has one normal form. *)
LEMMA OneNormalForm ==
    ASSUME NEW path, NEW p \in NormalizePath(path)
    PROVE  NormalizePath(path) = {p}
BY DEF NormalizePath

LEMMA GetObjectOf ==
    ASSUME NEW path, NEW p \in NormalizePath(path)
    PROVE  /\ p \in DOMAIN objects => GetObject(path) = {objects[p]}
           /\ p \notin DOMAIN objects => GetObject(path) = {}
           /\ IsObject(path) <=> p \in DOMAIN objects
BY OneNormalForm DEF GetObject, IsObject

LEMMA OldContentOf ==
    ASSUME NEW path, NEW p \in NormalizePath(path)
    PROVE  OldContent(path) = ContentOrEmpty(p)
<1>1. CASE p \in DOMAIN objects
  <2>1. GetObject(path) = {objects[p]} /\ IsObject(path)
    BY <1>1, GetObjectOf
  <2>2. (CHOOSE d \in GetObject(path) : TRUE) = objects[p]
    BY <2>1
  <2> QED
    BY <1>1, <2>1, <2>2 DEF OldContent, ContentOrEmpty
<1>2. CASE p \notin DOMAIN objects
  BY <1>2, GetObjectOf DEF OldContent, ContentOrEmpty
<1> QED
  BY <1>1, <1>2

LEMMA OldContentIsBytes ==
    ASSUME StorageTypeOK, NEW path
    PROVE  OldContent(path) \in Seq(Byte)
<1>1. CASE IsObject(path)
  <2>1. PICK p \in NormalizePath(path) : TRUE
    BY <1>1 DEF IsObject
  <2> QED
    BY <2>1, OldContentOf, ContentIsBytes
<1>2. CASE ~IsObject(path)
  BY <1>2 DEF OldContent
<1> QED
  BY <1>1, <1>2

LEMMA ObjectHolds ==
    ASSUME NEW path, IsObject(path)
    PROVE  GetObject(path) = {OldContent(path)}
<1>1. PICK p \in NormalizePath(path) : p \in DOMAIN objects
  BY DEF IsObject
<1> QED
  BY <1>1, GetObjectOf, OldContentOf DEF ContentOrEmpty

LEMMA InsertHolds ==
    ASSUME NEW path, NEW p \in NormalizePath(path), NEW data, Insert(p, data)
    PROVE  GetObject(path)' = {data}
<1>1. p \in DOMAIN objects' /\ objects'[p] = data
  BY DEF Insert
<1>2. NormalizePath(path) = {p}
  BY OneNormalForm
<1> QED
  BY <1>1, <1>2 DEF GetObject

LEMMA PutHolds ==
    ASSUME NEW path, NEW data, PutObject(path, data)
    PROVE  GetObject(path)' = {data}
BY InsertHolds DEF PutObject

LEMMA AppendHolds ==
    ASSUME NEW path, NEW data, AppendObject(path, data)
    PROVE  GetObject(path)' = {OldContent(path) \o data}
<1>1. PICK p \in NormalizePath(path) : Insert(p, ContentOrEmpty(p) \o data)
  BY DEF AppendObject
<1>2. OldContent(path) = ContentOrEmpty(p)
  BY OldContentOf
<1> QED
  BY <1>1, <1>2, InsertHolds

LEMMA Untouched ==
    ASSUME UNCHANGED storage
    PROVE  \A path : GetObject(path)' = GetObject(path)
BY DEF storage, GetObject

(* Whatever a session does, the tree stays a tree. *)
LEMMA ServedTree ==
    ASSUME NEW c \in Client, SessionInv(c), Arrived(c), TreeInv, HandleCommand(c, Command(c))
    PROVE  TreeInv'
<1> DEFINE msg == Command(c)
<1>0. ASSUME UNCHANGED storage PROVE TreeInv'
  BY <1>0 DEF storage, TreeInv, StorageTypeOK, NoOrphans, KindsDisjoint
<1>1. << >> \in Seq(Byte)
  OBVIOUS
<1>2. CASE ServeBegin(c, msg)
  <2>1. UNCHANGED storage \/ PutObject(msg.path, << >>) \/ AppendObject(msg.path, << >>)
    BY <1>2 DEF ServeBegin, OpenForWrite, storage
  <2> QED
    BY <1>0, <1>1, <2>1, PutObjectPreservesTree, AppendObjectPreservesTree
<1>3. CASE ServeChunk(c, msg)
  <2>1. msg.chunk \in Chunk
    BY <1>3, InFlight DEF ServeChunk, Receive, Fitting
  <2>2. msg.chunk.data \in Seq(Byte)
    BY <2>1 DEF Chunk
  <2>3. UNCHANGED storage \/ AppendObject(active_write[c].path, msg.chunk.data)
    BY <1>3 DEF ServeChunk, RefuseChunk, AcceptChunk, storage
  <2> QED
    BY <1>0, <2>2, <2>3, AppendObjectPreservesTree
<1>4. CASE ServeRead(c, msg)
  BY <1>0, <1>4 DEF ServeRead, storage
<1>5. CASE ServeSingle(c, msg)
  <2>1. \/ UNCHANGED storage \/ PutObject(msg.path, << >>) \/ DeleteObject(msg.path)
        \/ CreateNamespace(msg.path) \/ DeleteNamespace(msg.path)
    BY <1>5 DEF ServeSingle, SingleEffect
  <2> QED
    BY <1>0, <1>1, <2>1, PutObjectPreservesTree, DeleteObjectPreservesTree,
       CreateNamespacePreservesTree, DeleteNamespacePreservesTree
<1>6. CASE ServeTerminate(c, msg)
  BY <1>0, <1>6 DEF ServeTerminate, EndTask
<1> QED
  BY <1>2, <1>3, <1>4, <1>5, <1>6 DEF HandleCommand


-----------------------------------------------------------------------------
(* The steps of one session, seen from the others. *)
AllTyped == \A d \in Client : Typed(d)

LEMMA ObservedByOthers ==
    ASSUME AllTyped, NEW c \in Client, NEW own,
           Observe(c, own) \/ (UNCHANGED ghost /\ own = ghost[c]), DOMAIN ghost = Client
    PROVE  /\ DOMAIN ghost' = Client /\ ghost'[c] = own
           /\ \A d \in Client \ {c} :
                 /\ ghost'[d].path = ghost[d].path /\ ghost'[d].base = ghost[d].base
                 /\ ghost'[d].got = ghost[d].got
                 /\ ghost'[d].clean => ghost[d].clean
                 /\ ghost'[d] = [path |-> ghost[d].path, base |-> ghost[d].base,
                                 got |-> ghost[d].got, clean |-> ghost'[d].clean]
<1>1. CASE UNCHANGED ghost /\ own = ghost[c]
  BY <1>1 DEF AllTyped, Typed
<1>2. CASE Observe(c, own)
  <2>1. DOMAIN ghost' = Client /\ ghost'[c] = own
    BY <1>2 DEF Observe
  <2>2. \A d \in Client \ {c} : ghost'[d] = Watch(d)
    BY <1>2 DEF Observe
  <2> QED
    BY <2>1, <2>2, Watched DEF AllTyped
<1> QED
  BY <1>1, <1>2

(* The variables of the server, for the sessions other than c. *)
LEMMA ServedOthers ==
    ASSUME NEW c \in Client, Shape, HandleCommand(c, Command(c))
    PROVE  /\ DOMAIN req' = Client /\ DOMAIN resp' = Client /\ DOMAIN srv' = Client
           /\ DOMAIN active_write' = Client /\ DOMAIN stream' = Client
           /\ \A d \in Client \ {c} :
                 /\ req'[d] = req[d] /\ resp'[d] = resp[d] /\ srv'[d] = srv[d]
                 /\ active_write'[d] = active_write[d] /\ stream'[d] = stream[d]
<1> DEFINE msg == Command(c)
<1>1. \E types : Receive(c, msg, types)
  BY DEF HandleCommand, ServeBegin, ServeChunk, ServeRead, ServeSingle, ServeTerminate
<1>2. DOMAIN req' = Client /\ \A d \in Client \ {c} : req'[d] = req[d]
  BY <1>1 DEF Receive, Shape
<1>3. \/ UNCHANGED <<resp, active_write>> /\ ServeRead(c, msg)
      \/ \E output : Send(c, output)
  BY DEF HandleCommand, ServeBegin, ServeChunk, ServeRead, ServeSingle, ServeTerminate,
     Fail, Ready, RefuseChunk, AcceptChunk, Succeed, Progress
<1>4. DOMAIN resp' = Client /\ \A d \in Client \ {c} : resp'[d] = resp[d]
  BY <1>3 DEF Send, Shape
<1>5. \/ UNCHANGED active_write
      \/ \E transfer : SetTransfer(c, transfer)
  BY DEF HandleCommand, ServeBegin, ServeChunk, ServeRead, ServeSingle, ServeTerminate,
     RefuseChunk, AcceptChunk, EndTask, connectionVars, SetTransfer
<1>6. DOMAIN active_write' = Client /\ \A d \in Client \ {c} : active_write'[d] = active_write[d]
  BY <1>5 DEF SetTransfer, Shape
<1>7. /\ UNCHANGED srv \/ \E state : srv' = [srv EXCEPT ![c] = state]
      /\ UNCHANGED stream \/ \E position : stream' = [stream EXCEPT ![c] = position]
  BY DEF HandleCommand, ServeBegin, ServeChunk, ServeRead, ServeSingle, ServeTerminate,
     EndTask, connectionVars
<1>8. /\ DOMAIN srv' = Client /\ \A d \in Client \ {c} : srv'[d] = srv[d]
      /\ DOMAIN stream' = Client /\ \A d \in Client \ {c} : stream'[d] = stream[d]
  BY <1>7 DEF Shape
<1> QED
  BY <1>2, <1>4, <1>6, <1>8

(* What the session's own observation becomes. *)
GhostType(own) ==
    /\ own = [path |-> own.path, base |-> own.base, got |-> own.got, clean |-> own.clean]
    /\ own.base \in Seq(Byte) /\ own.got \in Seq(Byte)

LEMMA OwnObservation ==
    ASSUME NEW c \in Client, Shape, AllTyped, SessionInv(c), Arrived(c), StorageTypeOK,
           HandleCommand(c, Command(c))
    PROVE  \E own : /\ Observe(c, own) \/ (UNCHANGED ghost /\ own = ghost[c])
                    /\ GhostType(own)
<1> DEFINE msg == Command(c)
<1>1. GhostType(ghost[c]) /\ GhostType(Watch(c))
  BY Watched DEF GhostType, AllTyped, Typed
<1>2. << >> \in Seq(Byte) /\ OldContent(msg.path) \in Seq(Byte)
  BY OldContentIsBytes
<1>3. CASE ObserveBegin(c, msg)
  <2> DEFINE base == IF msg.mode = "Append" THEN OldContent(msg.path) ELSE << >>
             fresh == [path |-> msg.path, base |-> base, got |-> << >>, clean |-> TRUE]
  <2>1. base \in Seq(Byte)
    BY <1>2
  <2>2. Observe(c, Watch(c)) \/ Observe(c, fresh)
    BY <1>3 DEF ObserveBegin
  <2> HIDE DEF base
  <2>3. GhostType(fresh)
    BY <1>2, <2>1 DEF GhostType
  <2> QED
    BY <1>1, <2>2, <2>3
<1>4. CASE ServeChunk(c, msg) /\ ObserveChunk(c, msg)
  <2> DEFINE got == ghost[c].got \o msg.chunk.data
             longer == [ghost[c] EXCEPT !.got = got]
  <2>1. msg.chunk.data \in Seq(Byte)
    BY <1>4, InFlight DEF ServeChunk, Receive, Fitting, Chunk
  <2>2. got \in Seq(Byte)
    BY <1>1, <2>1, ConcatProperties DEF GhostType
  <2>3. Observe(c, Watch(c)) \/ Observe(c, longer)
    BY <1>4 DEF ObserveChunk
  <2> HIDE DEF got
  <2>4. longer = [path |-> ghost[c].path, base |-> ghost[c].base, got |-> got,
                  clean |-> ghost[c].clean]
    <3>1. Typed(c)
      BY DEF AllTyped
    <3> QED
      BY <3>1 DEF Typed
  <2> HIDE DEF longer
  <2>5. GhostType(longer)
    BY <1>1, <2>2, <2>4 DEF GhostType
  <2> QED
    BY <1>1, <2>3, <2>5
<1>5. CASE ObserveRead(c, msg)
  <2> DEFINE fresh == [path |-> msg.path, base |-> OldContent(msg.path), got |-> << >>,
                       clean |-> IsObject(msg.path)]
  <2>1. Observe(c, fresh)
    BY <1>5 DEF ObserveRead
  <2>2. GhostType(fresh)
    BY <1>2 DEF GhostType
  <2> QED
    BY <2>1, <2>2
<1>6. CASE Observe(c, Watch(c)) \/ UNCHANGED ghost
  BY <1>1, <1>6
<1> QED
  BY <1>3, <1>4, <1>5, <1>6 DEF HandleCommand


(* Every step keeps the shapes, and leaves the other sessions alone. *)
Framed(c) == Shape' /\ AllTyped' /\ \A d \in Client \ {c} : Same(d)

StreamType(position) ==
    /\ position = [path |-> position.path, offset |-> position.offset]
    /\ position.offset \in Nat

LEMMA ServedFramed ==
    ASSUME NEW c \in Client, Shape, AllTyped, SessionInv(c), Arrived(c), StorageTypeOK,
           HandleCommand(c, Command(c)), ClientStays
    PROVE  Framed(c)
<1>1. PICK own : /\ Observe(c, own) \/ (UNCHANGED ghost /\ own = ghost[c])
                 /\ GhostType(own)
  BY OwnObservation
<1>2. /\ DOMAIN ghost' = Client /\ ghost'[c] = own
      /\ \A d \in Client \ {c} :
            /\ ghost'[d].path = ghost[d].path /\ ghost'[d].base = ghost[d].base
            /\ ghost'[d].got = ghost[d].got
            /\ ghost'[d].clean => ghost[d].clean
            /\ ghost'[d] = [path |-> ghost[d].path, base |-> ghost[d].base,
                            got |-> ghost[d].got, clean |-> ghost'[d].clean]
  BY <1>1, ObservedByOthers DEF Shape
<1>3. /\ DOMAIN req' = Client /\ DOMAIN resp' = Client /\ DOMAIN srv' = Client
      /\ DOMAIN active_write' = Client /\ DOMAIN stream' = Client
      /\ \A d \in Client \ {c} :
            /\ req'[d] = req[d] /\ resp'[d] = resp[d] /\ srv'[d] = srv[d]
            /\ active_write'[d] = active_write[d] /\ stream'[d] = stream[d]
  BY ServedOthers
<1>4. StreamType(stream'[c])
  <2>1. \/ stream'[c] = stream[c] \/ stream'[c] = NoStream
        \/ \E path : stream'[c] = [path |-> path, offset |-> 0]
    BY DEF Shape, HandleCommand, ServeBegin, ServeChunk, ServeRead, ServeSingle, ServeTerminate,
       EndTask, connectionVars
  <2>2. StreamType(stream[c])
    BY DEF AllTyped, Typed, StreamType
  <2>3. \A path : StreamType([path |-> path, offset |-> 0])
    BY DEF StreamType
  <2>4. StreamType(NoStream)
    BY DEF StreamType, NoStream
  <2> QED
    BY <2>1, <2>2, <2>3, <2>4
<1>5. Shape'
  BY <1>2, <1>3 DEF Shape, ClientStays
<1>6. ASSUME NEW d \in Client \ {c} PROVE Same(d) /\ Typed(d)'
  BY <1>2, <1>3 DEF Same, Typed, AllTyped, ClientStays
<1>7. Typed(c)'
  BY <1>1, <1>2, <1>4 DEF Typed, AllTyped, ClientStays, GhostType, StreamType
<1> QED
  BY <1>5, <1>6, <1>7 DEF Framed, AllTyped

LEMMA ContentFramed ==
    ASSUME NEW c \in Client, Shape, AllTyped, StorageTypeOK, SendContentChunk(c), ClientStays,
           UNCHANGED ghost
    PROVE  Framed(c)
<1>1. /\ DOMAIN resp' = Client /\ DOMAIN srv' = Client /\ DOMAIN stream' = Client
      /\ \A d \in Client \ {c} :
            resp'[d] = resp[d] /\ srv'[d] = srv[d] /\ stream'[d] = stream[d]
  BY DEF SendContentChunk, Fail, Send, EndStream, Shape
<1>2. UNCHANGED <<req, active_write>>
  BY DEF SendContentChunk
<1>3. StreamType(stream'[c])
  <2>1. StreamType(stream[c]) /\ StreamType(NoStream)
    BY DEF AllTyped, Typed, StreamType, NoStream
  <2>2. CASE EndStream(c)
    BY <2>1, <2>2 DEF EndStream, Shape
  <2>3. CASE ~EndStream(c)
    <3>1. PICK chunk \in GetObjectChunk(stream[c].path, stream[c].offset, ChunkSize) :
              stream' = [stream EXCEPT ![c].offset = NextOffset(chunk)]
      BY <2>3 DEF SendContentChunk
    <3>2. chunk \in Chunk
      BY <2>1, ChunkAtIsChunk, ObjectIsBytes DEF GetObjectChunk, StreamType
    <3>3. chunk.offset \in Nat /\ chunk.data \in Seq(Byte)
      BY <3>2 DEF Chunk
    <3>4. NextOffset(chunk) \in Nat
      <4>1. Len(chunk.data) \in Nat
        BY <3>3
      <4> QED
        BY <3>3, <4>1 DEF NextOffset
    <3>5. stream'[c] = [stream[c] EXCEPT !.offset = NextOffset(chunk)]
      BY <3>1 DEF Shape
    <3> QED
      BY <2>1, <3>4, <3>5 DEF StreamType
  <2> QED
    BY <2>2, <2>3
<1>4. Shape'
  BY <1>1, <1>2 DEF Shape, ClientStays
<1>5. \A d \in Client \ {c} : Same(d)
  BY <1>1, <1>2 DEF Same, ClientStays
<1>6. ASSUME NEW d \in Client PROVE Typed(d)'
  BY <1>1, <1>3 DEF Typed, AllTyped, ClientStays, StreamType
<1> QED
  BY <1>4, <1>5, <1>6 DEF Framed, AllTyped

LEMMA CloseFramed ==
    ASSUME NEW c \in Client, Shape, AllTyped, CloseConnection(c), ClientStays, UNCHANGED ghost
    PROVE  Framed(c)
<1>1. /\ DOMAIN req' = Client /\ DOMAIN resp' = Client /\ DOMAIN srv' = Client
      /\ DOMAIN active_write' = Client /\ DOMAIN stream' = Client
      /\ \A d \in Client \ {c} :
            /\ req'[d] = req[d] /\ resp'[d] = resp[d] /\ srv'[d] = srv[d]
            /\ active_write'[d] = active_write[d] /\ stream'[d] = stream[d]
  BY DEF CloseConnection, EndTask, Shape
<1>2. stream'[c] = NoStream
  BY DEF CloseConnection, EndTask, Shape
<1>3. Shape'
  BY <1>1 DEF Shape, ClientStays
<1>4. \A d \in Client \ {c} : Same(d)
  BY <1>1 DEF Same, ClientStays
<1>5. ASSUME NEW d \in Client PROVE Typed(d)'
  <2>1. StreamType(NoStream)
    BY DEF StreamType, NoStream
  <2>2. StreamType(stream[d])
    BY DEF AllTyped, Typed, StreamType
  <2>3. StreamType(stream'[d])
    BY <1>1, <1>2, <2>1, <2>2
  <2> QED
    BY <2>3 DEF Typed, AllTyped, ClientStays, StreamType
<1> QED
  BY <1>3, <1>4, <1>5 DEF Framed, AllTyped


LEMMA AgreedChunkSize ==
    ASSUME NEW c \in Client, Shape, cmd[c] \in PlanType, SessionInv(c), resp[c] # << >>,
           BeginResponse(c, Output(c))
    PROVE  UNCHANGED cmd \/ \E plan \in PlanType : cmd' = [cmd EXCEPT ![c] = plan]
<1>1. Told(c, Accepted) \/ Told(c, Refused)
  BY DEF BeginResponse, SessionInv, BeginInv, Dead, Quiet, Asking
<1>2. CASE Told(c, Accepted)
  <2> DEFINE size == Clamped(ClampU32(ChunkSize))
  <2>1. Output(c) = [type |-> "TransferReady", chunk_size |-> ClampU32(ChunkSize)]
    BY <1>2, Hears, AcceptedHeard DEF BeginResponse
  <2>2. cmd' = [cmd EXCEPT ![c].chunk_size = size]
    BY <2>1 DEF BeginResponse
  <2>3. size \in Nat
    BY ChunkSizeAgreed, ChunkAssumption
  <2> HIDE DEF size
  <2>4. [cmd[c] EXCEPT !.chunk_size = size] \in PlanType
    BY <2>3 DEF PlanType
  <2> QED
    BY <2>2, <2>4
<1>3. CASE Told(c, Refused)
  <2>1. Output(c) = Refused
    BY <1>3, Hears, PlainHeard DEF BeginResponse
  <2> QED
    BY <2>1 DEF BeginResponse, Refused
<1> QED
  BY <1>1, <1>2, <1>3

LEMMA ClientFramed ==
    ASSUME NEW c \in Client, Shape, AllTyped, SessionInv(c),
           ClientStep(c) \/ UserStep(c)
    PROVE  Framed(c)
<1>1. UNCHANGED <<srv, active_write, stream, ghost>>
  BY DEF ClientStep, UserStep
<1>2. \/ UNCHANGED req
      \/ \E requests : req' = [req EXCEPT ![c] = requests]
  BY DEF ClientStep, UserStep, HandleResponse, BeginResponse, ChunkResponse, ReadResponse,
     SingleResponse, OpenLocalFile, SendChunk, LoseConnection, LocalFileFails, StartCommand,
     Disconnect, Request
<1>3. \/ UNCHANGED resp
      \/ \E responses : resp' = [resp EXCEPT ![c] = responses]
  BY DEF ClientStep, UserStep, HandleResponse, BeginResponse, ChunkResponse, ReadResponse,
     SingleResponse, OpenLocalFile, SendChunk, LoseConnection, LocalFileFails, StartCommand,
     Disconnect, Take
<1>4. /\ UNCHANGED pc \/ \E place : pc' = [pc EXCEPT ![c] = place]
      /\ UNCHANGED result \/ \E value : result' = [result EXCEPT ![c] = value]
  BY DEF ClientStep, UserStep, HandleResponse, BeginResponse, ChunkResponse, ReadResponse,
     SingleResponse, OpenLocalFile, SendChunk, LoseConnection, LocalFileFails, StartCommand,
     Disconnect, Return
<1>5. /\ UNCHANGED sent \/ \E offset : sent' = [sent EXCEPT ![c] = offset]
      /\ UNCHANGED preview \/ \E bytes : preview' = [preview EXCEPT ![c] = bytes]
  BY DEF ClientStep, UserStep, HandleResponse, BeginResponse, ChunkResponse, ReadResponse,
     SingleResponse, OpenLocalFile, SendChunk, LoseConnection, LocalFileFails, StartCommand,
     Disconnect
<1>6. UNCHANGED localFailure \/ localFailure' = [localFailure EXCEPT ![c] = TRUE]
  BY DEF ClientStep, UserStep
<1>7. UNCHANGED cmd \/ \E plan \in PlanType : cmd' = [cmd EXCEPT ![c] = plan]
  <2>1. cmd[c] \in PlanType
    BY DEF AllTyped, Typed
  <2>2. CASE resp[c] # << >> /\ BeginResponse(c, Output(c))
    BY <2>1, <2>2, AgreedChunkSize
  <2>3. CASE OpenLocalFile(c)
    <3>1. PICK content \in Seq(Byte) : cmd' = [cmd EXCEPT ![c].data = content]
      BY <2>3, StorageAssumption DEF OpenLocalFile
    <3>2. [cmd[c] EXCEPT !.data = content] \in PlanType
      BY <2>1 DEF PlanType
    <3> QED
      BY <3>1, <3>2
  <2>4. CASE \E kind \in Kind : \E plan \in Plan(kind) : StartCommand(c, plan)
    <3>1. PICK kind \in Kind : \E plan \in Plan(kind) : StartCommand(c, plan)
      BY <2>4
    <3>2. PICK plan \in Plan(kind) : StartCommand(c, plan)
      BY <3>1
    <3> QED
      BY <3>2, PlanIsTyped DEF StartCommand
  <2>5. CASE Disconnect(c)
    <3>1. NoCommand \in PlanType
      <4>1. << >> \in Seq(Byte)
        OBVIOUS
      <4> QED
        BY <4>1 DEF NoCommand, PlanType
    <3> QED
      BY <2>5, <3>1 DEF Disconnect
  <2>6. CASE \/ ChunkResponse(c, Output(c)) \/ ReadResponse(c, Output(c))
             \/ SingleResponse(c, Output(c)) \/ SendChunk(c) \/ LoseConnection(c)
             \/ LocalFileFails(c)
    BY <2>6 DEF ChunkResponse, ReadResponse, SingleResponse, SendChunk, LoseConnection,
       LocalFileFails
  <2> QED
    BY <2>2, <2>3, <2>4, <2>5, <2>6 DEF ClientStep, UserStep, HandleResponse
<1>8. /\ DOMAIN req' = Client /\ DOMAIN resp' = Client /\ DOMAIN pc' = Client
      /\ DOMAIN result' = Client /\ DOMAIN sent' = Client /\ DOMAIN preview' = Client
      /\ DOMAIN localFailure' = Client /\ DOMAIN cmd' = Client
  BY <1>2, <1>3, <1>4, <1>5, <1>6, <1>7 DEF Shape
<1>9. \A d \in Client \ {c} :
         /\ req'[d] = req[d] /\ resp'[d] = resp[d] /\ pc'[d] = pc[d] /\ result'[d] = result[d]
         /\ sent'[d] = sent[d] /\ preview'[d] = preview[d] /\ cmd'[d] = cmd[d]
         /\ localFailure'[d] = localFailure[d]
  BY <1>2, <1>3, <1>4, <1>5, <1>6, <1>7 DEF Shape
<1>10. cmd'[c] \in PlanType
  BY <1>7 DEF Shape, AllTyped, Typed
<1>11. Shape'
  BY <1>1, <1>8 DEF Shape
<1>12. \A d \in Client \ {c} : Same(d)
  BY <1>1, <1>9 DEF Same
<1>13. ASSUME NEW d \in Client PROVE Typed(d)'
  <2>1. cmd'[d] \in PlanType
    BY <1>9, <1>10 DEF AllTyped, Typed
  <2> QED
    BY <1>1, <2>1 DEF Typed, AllTyped
<1> QED
  BY <1>11, <1>12, <1>13 DEF Framed, AllTyped


-----------------------------------------------------------------------------
(* The whole system: the storage is a tree, and every session is where its  *)
(* client and its server both think it is.                                  *)
CoreInv == Shape /\ AllTyped /\ TreeInv /\ \A c \in Client : SessionInv(c)

LEMMA CoreInit == Init => CoreInv
<1> SUFFICES ASSUME Init PROVE CoreInv
  OBVIOUS
<1>1. TreeInv
  BY InitEstablishesTree DEF Init
<1>2. Shape
  BY DEF Init, ConnectionInit, ClientInit, Shape
<1>3. << >> \in Seq(Byte)
  OBVIOUS
<1>4. ASSUME NEW c \in Client PROVE Typed(c) /\ SessionInv(c)
  <2>1. /\ req[c] = << >> /\ resp[c] = << >> /\ srv[c] = "receiving"
        /\ active_write[c] = NoTransfer /\ stream[c] = NoStream /\ pc[c] = "ready"
        /\ cmd[c] = NoCommand /\ result[c] = NoResult /\ ghost[c] = NoGhost
    BY DEF Init, ConnectionInit, ClientInit
  <2>2. Typed(c)
    BY <1>3, <2>1 DEF Typed, NoCommand, PlanType, NoGhost, NoStream
  <2>3. ReadyInv(c) /\ ServerInv(c) /\ ResultInv(c)
    BY <2>1 DEF ReadyInv, Quiet, Unused, Transferring, ServerInv, ResultInv, NoResult
  <2> QED
    BY <2>1, <2>2, <2>3 DEF SessionInv, Phases, BeginInv, SendInv, ChunkInv, SingleInv, ReadInv
<1> QED
  BY <1>1, <1>2, <1>4 DEF CoreInv, AllTyped

(* The storage is changed only by the commands the server handles. *)
LEMMA TreeUnchanged ==
    ASSUME TreeInv, UNCHANGED <<objects, namespaces>>
    PROVE  TreeInv'
BY DEF TreeInv, StorageTypeOK, NoOrphans, KindsDisjoint

LEMMA StepKeepsCore ==
    ASSUME CoreInv, NEW c \in Client,
           ServerStep(c) \/ ServerCloses(c) \/ ClientStep(c) \/ UserStep(c)
    PROVE  CoreInv'
<1> USE DEF CoreInv
<1>1. Typed(c) /\ SessionInv(c) /\ StorageTypeOK
  BY DEF AllTyped, TreeInv
<1>2. ASSUME Framed(c), SessionInv(c)', TreeInv' PROVE CoreInv'
  BY <1>2, OthersStay DEF Framed
<1>3. CASE Arrived(c) /\ HandleCommand(c, Command(c)) /\ ClientStays
  <2>1. SessionInv(c)'
    BY <1>1, <1>3, BeginServed, ChunkServed, ReadServed, SingleServed, TerminateServed
       DEF HandleCommand
  <2> QED
    BY <1>1, <1>2, <1>3, <2>1, ServedFramed, ServedTree
<1>4. CASE SendContentChunk(c) /\ UNCHANGED ghost /\ ClientStays
  <2>1. UNCHANGED <<objects, namespaces>>
    BY <1>4 DEF SendContentChunk
  <2> QED
    BY <1>1, <1>2, <1>4, <2>1, ContentSent, ContentFramed, TreeUnchanged
<1>5. CASE ServerCloses(c)
  <2>1. CloseConnection(c) /\ ClientStays /\ UNCHANGED ghost
    BY <1>5 DEF ServerCloses, ClientStays
  <2>2. UNCHANGED <<objects, namespaces>>
    BY <2>1 DEF CloseConnection, EndTask, storage
  <2> QED
    BY <1>1, <1>2, <2>1, <2>2, Closed, CloseFramed, TreeUnchanged
<1>6. CASE ClientStep(c)
  <2>1. ServerStays /\ UNCHANGED <<objects, namespaces>>
    BY <1>6 DEF ClientStep, ServerStays
  <2>2. SessionInv(c)'
    BY <1>1, <1>6, <2>1, BeginAnswered, ChunkAnswered, ReadAnswered, SingleAnswered, FileOpened,
       FileFailed, ConnectionLost, ChunkPosted DEF ClientStep, HandleResponse
  <2> QED
    BY <1>1, <1>2, <1>6, <2>1, <2>2, ClientFramed, TreeUnchanged
<1>7. CASE UserStep(c)
  <2>1. ServerStays /\ UNCHANGED <<objects, namespaces>> /\ UNCHANGED localFailure
    BY <1>7 DEF UserStep, ServerStays
  <2>2. SessionInv(c)'
    BY <1>1, <1>7, <2>1, CommandStarted, Disconnected DEF UserStep
  <2> QED
    BY <1>1, <1>2, <1>7, <2>1, <2>2, ClientFramed, TreeUnchanged
<1>8. ServerStep(c) => \/ Arrived(c) /\ HandleCommand(c, Command(c)) /\ ClientStays
                       \/ SendContentChunk(c) /\ UNCHANGED ghost /\ ClientStays
  BY DEF ServerStep, ClientStays
<1> QED
  BY <1>3, <1>4, <1>5, <1>6, <1>7, <1>8

LEMMA CoreStutter ==
    ASSUME CoreInv, UNCHANGED sessionVars
    PROVE  CoreInv'
<1>1. /\ UNCHANGED <<objects, namespaces, req, resp, srv, active_write, stream>>
      /\ UNCHANGED <<pc, cmd, sent, preview, result, ghost, localFailure>>
  BY DEF sessionVars
<1>2. \A d \in Client : Same(d)
  BY <1>1 DEF Same
<1>3. Shape' /\ AllTyped'
  BY <1>1 DEF CoreInv, Shape, AllTyped, Typed
<1> QED
  BY <1>1, <1>2, <1>3, OthersStay, TreeUnchanged DEF CoreInv

(***************************************************************************)
(* In every reachable state of any number of clients on one server, the    *)
(* storage is a tree and every session is in one of the situations         *)
(* SessionInv lists: what is in flight, what the server holds of the       *)
(* transfer, and where send_command is, all agree.                         *)
(***************************************************************************)
THEOREM SessionCorrect == Spec => []CoreInv
<1>1. CoreInv /\ [Next]_sessionVars => CoreInv'
  BY StepKeepsCore, CoreStutter DEF Next
<1> QED
  BY CoreInit, <1>1, PTL DEF Spec


-----------------------------------------------------------------------------
(* What the users and the server rely on, read off SessionInv. *)

(***************************************************************************)
(* Requests and responses stay paired on every session, for any number of  *)
(* clients: a client between commands has nothing in flight on a live      *)
(* session, so recv_msg never hands it the answer to an earlier request.   *)
(***************************************************************************)
THEOREM AlwaysPaired == Spec => []Paired
<1>1. CoreInv => Paired
  BY DEF CoreInv, SessionInv, ReadyInv, ServerInv, Quiet, Paired
<1> QED
  BY <1>1, SessionCorrect, PTL

(***************************************************************************)
(* Every chunk on its way to write_object_chunk is the one the server's    *)
(* transfer expects, whatever was cut or refused before, and also on a     *)
(* session whose client is gone.                                           *)
(***************************************************************************)
THEOREM AlwaysInStep == Spec => []InStep
<1>1. CoreInv => InStep
  <2> SUFFICES ASSUME CoreInv, NEW c \in Client, NEW i \in 1..Len(req[c]),
                      DecodeCommand(req[c][i]).type = "WriteObjectChunk"
               PROVE  Transferring(c) /\ ChunkFits(active_write[c], DecodeCommand(req[c][i]).chunk)
    BY DEF InStep
  <2>1. req[c] = << >> \/ (req[c] = <<Head(req[c])>> /\ Fitting(c, Command(c)))
    BY DEF CoreInv, SessionInv, ServerInv
  <2>2. req[c] = <<Head(req[c])>> /\ Fitting(c, Command(c))
    <3>1. req[c] = << >> => Len(req[c]) = 0
      OBVIOUS
    <3> QED
      BY <2>1, <3>1
  <2>3. PICK bytes : req[c] = <<bytes>> /\ Command(c) = DecodeCommand(bytes)
    BY <2>2 DEF Command
  <2>4. i = 1 /\ req[c][i] = bytes
    BY <2>3
  <2> QED
    BY <2>2, <2>3, <2>4 DEF Fitting
<1> QED
  BY <1>1, SessionCorrect, PTL

(***************************************************************************)
(* What handle_command decodes is what the client's send_command meant,    *)
(* for every payload, also the empty ones and the zero fields Protobuf     *)
(* does not send.                                                          *)
(***************************************************************************)
THEOREM AlwaysHeardAsMeant == Spec => []HeardAsMeant
<1>1. CoreInv => HeardAsMeant
  <2> SUFFICES ASSUME CoreInv, NEW c \in Client, req[c] # << >>, pc[c] # "gone"
               PROVE  IF pc[c] \in {"chunk", "last"}
                      THEN LET chunk == Command(c).chunk
                           IN  /\ chunk.data = SubSeq(cmd[c].data, chunk.offset + 1, sent[c])
                               /\ chunk.offset + Len(chunk.data) = sent[c]
                               /\ chunk.is_last <=> pc[c] = "last"
                      ELSE Command(c) = FirstRequest(cmd[c])
    BY DEF HeardAsMeant
  <2>1. SessionInv(c) /\ Typed(c) /\ Arrived(c)
    BY DEF CoreInv, AllTyped, SessionInv, ServerInv, Arrived
  <2>2. CASE pc[c] \in {"chunk", "last"}
    <3>1. PICK offset \in 0..sent[c] : Command(c) = ChunkSent(c, offset)
      BY <2>1, <2>2, InFlight
    <3>2. InLoop(c) /\ (pc[c] = "last" <=> sent[c] = cmd[c].total)
      BY <2>1, <2>2, InFlight
    <3>3. /\ sent[c] \in Nat /\ sent[c] <= Len(cmd[c].data) /\ cmd[c].data \in Seq(Byte)
          /\ offset \in Nat /\ offset <= sent[c]
      BY <2>1, <3>1, <3>2 DEF InLoop, Typed, PlanType
    <3>4. Len(SubSeq(cmd[c].data, offset + 1, sent[c])) = sent[c] - offset
      BY <3>3, SliceLen
    <3>5. /\ Command(c).chunk.offset = offset
          /\ Command(c).chunk.data = SubSeq(cmd[c].data, offset + 1, sent[c])
      BY <3>1 DEF ChunkSent
    <3>6. Command(c).chunk.is_last = (sent[c] = cmd[c].total)
      BY <3>1 DEF ChunkSent
    <3>7. Command(c).chunk.is_last <=> pc[c] = "last"
      BY <3>2, <3>6
    <3>8. offset + (sent[c] - offset) = sent[c]
      BY <3>3
    <3> QED
      BY <2>2, <3>4, <3>5, <3>7, <3>8
  <2>3. CASE pc[c] \notin {"chunk", "last"}
    BY <2>1, <2>3, InFlight
  <2> QED
    BY <2>2, <2>3
<1> QED
  BY <1>1, SessionCorrect, PTL

(***************************************************************************)
(* A session refuses further writes because of a transfer nobody finishes  *)
(* only if an upload failed on the client: no refusal, cut connection or   *)
(* interleaving leaves active_write set behind a finished command.         *)
(***************************************************************************)
THEOREM StuckOnlyAfterLocalFailure == Spec => []StuckOnlyByLocalFailure
<1>1. CoreInv => StuckOnlyByLocalFailure
  BY DEF CoreInv, SessionInv, ReadyInv, Unused, StuckOnlyByLocalFailure
<1> QED
  BY <1>1, SessionCorrect, PTL

(***************************************************************************)
(* Success of a write, append or upload means that exactly the announced   *)
(* bytes were stored, in order, for any payload and any chunk size.        *)
(***************************************************************************)
THEOREM SuccessIsDelivery == Spec => []SuccessMeansDelivered
<1>1. CoreInv => SuccessMeansDelivered
  BY DEF CoreInv, SessionInv, ResultInv, Delivered, SuccessMeansDelivered
<1> QED
  BY <1>1, SessionCorrect, PTL

(***************************************************************************)
(* Concurrent sessions keep the storage one tree: each command of each     *)
(* session is one operation under the mutex, transfers and reads included. *)
(***************************************************************************)
THEOREM SharedTreeStaysWhole == Spec => []TreeInv
<1>1. CoreInv => TreeInv
  BY DEF CoreInv
<1> QED
  BY <1>1, SessionCorrect, PTL


-----------------------------------------------------------------------------
(* What an object nobody else touches holds. *)
Undisturbed(d) ==
    ghost[d].clean => GetObject(ghost[d].path) = {ghost[d].base \o ghost[d].got}

LEMMA WatchedUndisturbed ==
    ASSUME NEW d, Typed(d), Undisturbed(d), ghost'[d] = Watch(d)
    PROVE  Undisturbed(d)'
<1> SUFFICES ASSUME ghost'[d].clean
             PROVE  GetObject(ghost[d].path)' = {ghost'[d].base \o ghost'[d].got}
  BY DEF Undisturbed
<1>1. PICK path : path = ghost[d].path
  OBVIOUS
<1>2. /\ ghost'[d].path = path /\ ghost'[d].base = ghost[d].base /\ ghost'[d].got = ghost[d].got
      /\ ghost[d].clean /\ GetObject(path)' = GetObject(path)
  BY <1>1, Watched
<1>3. GetObject(path) = {ghost[d].base \o ghost[d].got}
  BY <1>1, <1>2 DEF Undisturbed
<1>4. GetObject(ghost[d].path)' = GetObject(path)'
  BY <1>2 DEF GetObject
<1> QED
  BY <1>2, <1>3, <1>4

(* The bytes this session's own step accounts for. *)
LEMMA OwnUndisturbed ==
    ASSUME NEW d, NEW path, NEW base, NEW got, GetObject(path)' = {base \o got},
           ghost'[d].path = path, ghost'[d].base = base, ghost'[d].got = got
    PROVE  Undisturbed(d)'
<1>1. GetObject(ghost[d].path)' = GetObject(path)'
  BY DEF GetObject
<1> QED
  BY <1>1 DEF Undisturbed

LEMMA BeginUndisturbed ==
    ASSUME NEW c \in Client, Shape, Typed(c), StorageTypeOK, Undisturbed(c),
           ServeBegin(c, Command(c)), ObserveBegin(c, Command(c))
    PROVE  Undisturbed(c)'
<1>1. PICK msg : msg = Command(c)
  OBVIOUS
<1>2. CASE Transferring(c) \/ ~MayPut(msg.path)
  BY <1>1, <1>2, WatchedUndisturbed DEF ObserveBegin, Observe
<1>3. CASE ~Transferring(c) /\ MayPut(msg.path)
  <2>1. PICK path, base : path = msg.path
                          /\ base = IF msg.mode = "Append" THEN OldContent(path) ELSE << >>
    OBVIOUS
  <2>2. ghost'[c] = [path |-> path, base |-> base, got |-> << >>, clean |-> TRUE]
    BY <1>1, <1>3, <2>1 DEF ObserveBegin, Observe
  <2>3. OpenForWrite(msg)
    BY <1>1, <1>3 DEF ServeBegin
  <2>4. GetObject(path)' = {base \o << >>}
    <3>1. CASE msg.mode = "Append"
      BY <2>1, <2>3, <3>1, AppendHolds DEF OpenForWrite
    <3>2. CASE msg.mode # "Append"
      <4>1. GetObject(path)' = {<< >>} /\ base = << >>
        BY <2>1, <2>3, <3>2, PutHolds DEF OpenForWrite
      <4>2. << >> \in Seq(Byte)
        OBVIOUS
      <4>3. << >> \o << >> = << >>
        BY <4>2, ConcatEmptySeq
      <4> QED
        BY <4>1, <4>3
    <3> QED
      BY <3>1, <3>2
  <2>5. ghost'[c].path = path /\ ghost'[c].base = base /\ ghost'[c].got = << >>
    BY <2>2
  <2> QED
    BY <2>4, <2>5, OwnUndisturbed
<1> QED
  BY <1>2, <1>3

LEMMA ChunkUndisturbed ==
    ASSUME NEW c \in Client, Shape, Typed(c), SessionInv(c), Arrived(c), Undisturbed(c),
           ServeChunk(c, Command(c)), ObserveChunk(c, Command(c))
    PROVE  Undisturbed(c)'
<1>1. PICK chunk : chunk = Command(c).chunk
  OBVIOUS
<1>2. chunk \in Chunk /\ ghost[c].path = active_write[c].path
  BY <1>1, InFlight DEF ServeChunk, Receive, Fitting
<1>3. CASE ~Acceptable(c, chunk)
  BY <1>1, <1>3, WatchedUndisturbed DEF ObserveChunk, Observe
<1>4. CASE Acceptable(c, chunk)
  <2>1. PICK path, base, got : path = ghost[c].path /\ base = ghost[c].base /\ got = ghost[c].got
    OBVIOUS
  <2>2. base \in Seq(Byte) /\ got \in Seq(Byte) /\ chunk.data \in Seq(Byte)
    BY <1>2, <2>1 DEF Typed, Chunk
  <2>3. ghost'[c] = [ghost[c] EXCEPT !.got = @ \o chunk.data]
    BY <1>1, <1>4 DEF ObserveChunk, Observe
  <2>4. /\ ghost'[c].path = path /\ ghost'[c].base = base /\ ghost'[c].got = got \o chunk.data
        /\ ghost'[c].clean = ghost[c].clean
    BY <2>1, <2>3 DEF Typed
  <2>5. CASE ghost[c].clean
    <3>1. AppendObject(path, chunk.data)
      BY <1>1, <1>2, <1>4, <2>1 DEF ServeChunk, AcceptChunk
    <3>2. GetObject(path) = {base \o got}
      BY <2>1, <2>5 DEF Undisturbed
    <3>3. IsObject(path)
      BY <3>2 DEF GetObject, IsObject
    <3>4. OldContent(path) = base \o got
      BY <3>2, <3>3, ObjectHolds
    <3>5. GetObject(path)' = {(base \o got) \o chunk.data}
      BY <3>1, <3>4, AppendHolds
    <3>6. (base \o got) \o chunk.data = base \o (got \o chunk.data)
      <4>1. \A a, b, d \in Seq(Byte) : (a \o b) \o d = a \o (b \o d)
        OBVIOUS
      <4> QED
        BY <2>2, <4>1
    <3>7. PICK more : more = got \o chunk.data
      OBVIOUS
    <3>8. GetObject(path)' = {base \o more}
      BY <3>5, <3>6, <3>7
    <3>9. ghost'[c].path = path /\ ghost'[c].base = base /\ ghost'[c].got = more
      BY <2>4, <3>7
    <3> HIDE <3>5, <3>6
    <3> QED
      BY <3>8, <3>9, OwnUndisturbed
  <2>6. CASE ~ghost[c].clean
    BY <2>4, <2>6 DEF Undisturbed
  <2> QED
    BY <2>5, <2>6
<1> QED
  BY <1>3, <1>4

LEMMA ReadUndisturbed ==
    ASSUME NEW c \in Client, Shape, StorageTypeOK,
           ServeRead(c, Command(c)), ObserveRead(c, Command(c))
    PROVE  Undisturbed(c)'
<1>1. PICK path, base : path = Command(c).path /\ base = OldContent(path)
  OBVIOUS
<1>2. ghost'[c] = [path |-> path, base |-> base, got |-> << >>, clean |-> IsObject(path)]
  BY <1>1 DEF ObserveRead, Observe
<1>3. CASE IsObject(path)
  <2>1. base \o << >> = base
    BY <1>1, OldContentIsBytes, ConcatEmptySeq
  <2>2. GetObject(path)' = {base \o << >>}
    BY <1>1, <1>3, <2>1, ObjectHolds DEF ServeRead, GetObject
  <2>3. ghost'[c].path = path /\ ghost'[c].base = base /\ ghost'[c].got = << >>
    BY <1>2
  <2> QED
    BY <2>2, <2>3, OwnUndisturbed
<1>4. CASE ~IsObject(path)
  BY <1>2, <1>4 DEF Undisturbed
<1> QED
  BY <1>3, <1>4

LEMMA UndisturbedStep ==
    ASSUME CoreInv, \A d \in Client : Undisturbed(d), [Next]_sessionVars
    PROVE  \A d \in Client : Undisturbed(d)'
<1>1. ASSUME UNCHANGED <<objects, namespaces, ghost>>
      PROVE  \A d \in Client : Undisturbed(d)'
  BY <1>1 DEF Undisturbed, GetObject
<1>2. CASE UNCHANGED sessionVars
  BY <1>1, <1>2 DEF sessionVars
<1>3. ASSUME NEW c \in Client, Arrived(c), HandleCommand(c, Command(c))
      PROVE  \A d \in Client : Undisturbed(d)'
  <2>1. Shape /\ Typed(c) /\ SessionInv(c) /\ StorageTypeOK /\ Undisturbed(c) /\ Arrived(c)
    BY <1>3 DEF CoreInv, AllTyped, TreeInv
  <2>2. CASE ServeTerminate(c, Command(c)) /\ UNCHANGED ghost
    BY <1>1, <2>2 DEF ServeTerminate, EndTask, storage
  <2>3. CASE ~(ServeTerminate(c, Command(c)) /\ UNCHANGED ghost)
    <3>1. PICK own : Observe(c, own)
      BY <1>3, <2>3 DEF HandleCommand, ObserveBegin, ObserveChunk, ObserveRead
    <3>2. ASSUME NEW d \in Client \ {c} PROVE Undisturbed(d)'
      <4>1. ghost'[d] = Watch(d)
        BY <3>1 DEF Observe
      <4> QED
        BY <4>1, WatchedUndisturbed DEF CoreInv, AllTyped
    <3>3. Undisturbed(c)'
      <4>1. CASE Observe(c, Watch(c))
        BY <2>1, <4>1, WatchedUndisturbed DEF Observe
      <4> QED
        BY <1>3, <2>1, <2>3, <4>1, BeginUndisturbed, ChunkUndisturbed, ReadUndisturbed
           DEF HandleCommand
    <3> QED
      BY <3>2, <3>3
  <2> QED
    BY <2>2, <2>3
<1>4. ASSUME NEW c \in Client, ServerStep(c) \/ ServerCloses(c) \/ ClientStep(c) \/ UserStep(c)
      PROVE  \/ Arrived(c) /\ HandleCommand(c, Command(c))
             \/ UNCHANGED <<objects, namespaces, ghost>>
  BY <1>4 DEF ServerStep, ServerCloses, ClientStep, UserStep, SendContentChunk, CloseConnection,
     EndTask, storage
<1> QED
  BY <1>1, <1>2, <1>3, <1>4 DEF Next

(***************************************************************************)
(* While nobody else changes an object, it holds at every moment what it   *)
(* held at the start of the command followed by the bytes of the chunks    *)
(* accepted so far: for any payload, chunk size and number of sessions,    *)
(* and wherever the transfer is cut.                                       *)
(***************************************************************************)
THEOREM NothingElseInObject == Spec => []UndisturbedObject
<1> DEFINE All == \A d \in Client : Undisturbed(d)
<1>1. Init => All
  BY DEF Init, NoGhost, Undisturbed
<1>2. CoreInv /\ All /\ [Next]_sessionVars => All'
  BY UndisturbedStep
<1>3. All => UndisturbedObject
  BY DEF Undisturbed, UndisturbedObject
<1> QED
  BY <1>1, <1>2, <1>3, SessionCorrect, PTL DEF Spec


-----------------------------------------------------------------------------
(* What an undisturbed read has in flight: consecutive chunks of the        *)
(* object, from where the preview ends to where the server goes on.         *)
OffsetOf(bytes) == DecodeOutput(bytes).chunk.offset
SliceAt(base, offset) == EncodeOutput(Content(ChunkAt(base, offset, ChunkSize)))

Slices(s, base) ==
    /\ \A i \in 1..Len(s) : OffsetOf(s[i]) \in Nat /\ s[i] = SliceAt(base, OffsetOf(s[i]))
    /\ \A i \in 1..(Len(s) - 1) : OffsetOf(s[i + 1]) = OffsetOf(s[i]) + ChunkSize

ReadFrom(c) == IF resp[c] = << >> THEN stream[c].offset ELSE OffsetOf(resp[c][1])

Streams(c) ==
    /\ ghost[c].got = << >>
    /\ stream[c].path = ghost[c].path
    /\ stream[c].offset \in 0..Len(ghost[c].base)
    /\ resp[c] # << >> => stream[c].offset = OffsetOf(resp[c][Len(resp[c])]) + ChunkSize

Previewed(c) ==
    /\ ReadFrom(c) \in 0..Len(ghost[c].base)
    /\ preview[c] = SubSeq(ghost[c].base, 1, Smaller(ReadFrom(c), PreviewLimit))

PreviewInv(c) ==
    pc[c] = "read" =>
        /\ req[c] # << >> => preview[c] = << >>
        /\ req[c] = << >> /\ ghost[c].clean =>
              /\ Slices(resp[c], ghost[c].base)
              /\ srv[c] = "streaming" => Streams(c)
              /\ srv[c] = "streaming" \/ resp[c] # << >> => Previewed(c)

Shown(value, base) ==
    /\ value.data = SubSeq(base, 1, Smaller(Len(base), PreviewLimit))
    /\ value.total_size = Len(base)
    /\ value.truncated <=> Len(value.data) # Len(base)

ReadResult(c) ==
    result[c].type = "ObjectContent" =>
        pc[c] = "ready" /\ (ghost[c].clean => Shown(result[c], ghost[c].base))

ReadsInv == \A c \in Client : PreviewInv(c) /\ ReadResult(c)

LEMMA SliceHeard ==
    ASSUME NEW base \in Seq(Byte), NEW offset \in Nat
    PROVE  /\ SliceAt(base, offset) \in ReadAnswer
           /\ DecodeOutput(SliceAt(base, offset)) = Content(ChunkAt(base, offset, ChunkSize))
           /\ OffsetOf(SliceAt(base, offset)) = offset
<1>1. PICK chunk \in Chunk : chunk = ChunkAt(base, offset, ChunkSize)
  BY ChunkAtIsChunk
<1>2. chunk.offset = offset
  BY <1>1 DEF ChunkAt
<1>3. SliceAt(base, offset) = EncodeOutput(Content(chunk)) /\ Content(chunk).chunk = chunk
  BY <1>1 DEF SliceAt, Content
<1>4. DecodeOutput(EncodeOutput(Content(chunk))) = Content(chunk)
  BY ContentHeard
<1>5. EncodeOutput(Content(chunk)) \in ReadAnswer
  BY DEF ReadAnswer
<1> QED
  BY <1>1, <1>2, <1>3, <1>4, <1>5 DEF OffsetOf

LEMMA SlicesGrow ==
    ASSUME NEW base \in Seq(Byte), NEW offset \in Nat, NEW s \in Seq(ReadAnswer), Slices(s, base),
           s # << >> => offset = OffsetOf(s[Len(s)]) + ChunkSize
    PROVE  LET t == Append(s, SliceAt(base, offset))
           IN  /\ Slices(t, base) /\ t # << >> /\ OffsetOf(t[Len(t)]) = offset
               /\ OffsetOf(t[1]) = IF s = << >> THEN offset ELSE OffsetOf(s[1])
<1> DEFINE x == SliceAt(base, offset)
           t == Append(s, x)
<1>1. x \in ReadAnswer /\ OffsetOf(x) = offset /\ x = SliceAt(base, OffsetOf(x))
  BY SliceHeard
<1> HIDE DEF x
<1>2. /\ t \in Seq(ReadAnswer) /\ Len(t) = Len(s) + 1 /\ Len(s) \in Nat
      /\ \A i \in 1..Len(s) : t[i] = s[i]
      /\ t[Len(s) + 1] = x
  BY <1>1, AppendProperties
<1>3. s = << >> <=> Len(s) = 0
  BY EmptySeq
<1> HIDE DEF t
<1>4. t # << >> /\ t[Len(t)] = x
  BY <1>2, EmptySeq
<1>5. \A i \in 1..Len(t) : i \in 1..Len(s) \/ i = Len(s) + 1
  BY <1>2
<1>6. \A i \in 1..Len(t) : OffsetOf(t[i]) \in Nat /\ t[i] = SliceAt(base, OffsetOf(t[i]))
  <2>1. \A i \in 1..Len(s) : OffsetOf(s[i]) \in Nat /\ s[i] = SliceAt(base, OffsetOf(s[i]))
    BY DEF Slices
  <2> QED
    BY <1>1, <1>2, <1>5, <2>1
<1>7. ASSUME NEW i \in 1..(Len(t) - 1) PROVE OffsetOf(t[i + 1]) = OffsetOf(t[i]) + ChunkSize
  <2>1. CASE i = Len(s)
    <3>1. s # << >> /\ i \in 1..Len(s)
      BY <1>2, <1>3, <2>1
    <3> QED
      BY <1>1, <1>2, <2>1, <3>1
  <2>2. CASE i # Len(s)
    <3>1. i \in 1..(Len(s) - 1) /\ i \in 1..Len(s) /\ i + 1 \in 1..Len(s)
      BY <1>2, <2>2
    <3> QED
      BY <1>2, <3>1 DEF Slices
  <2> QED
    BY <2>1, <2>2
<1>8. OffsetOf(t[1]) = IF s = << >> THEN offset ELSE OffsetOf(s[1])
  <2>1. CASE s = << >>
    BY <1>1, <1>2, <1>3, <2>1
  <2>2. CASE s # << >>
    <3>1. 1 \in 1..Len(s)
      BY <1>2, <1>3, <2>2
    <3> QED
      BY <1>2, <2>2, <3>1
  <2> QED
    BY <2>1, <2>2
<1>9. Slices(t, base)
  BY <1>6, <1>7 DEF Slices
<1> QED
  BY <1>1, <1>4, <1>8, <1>9 DEF t, x

LEMMA SlicesShrink ==
    ASSUME NEW base, NEW s \in Seq(ReadAnswer), s # << >>, Slices(s, base)
    PROVE  /\ Slices(Tail(s), base)
           /\ Tail(s) # << >> => /\ OffsetOf(Tail(s)[1]) = OffsetOf(s[1]) + ChunkSize
                                 /\ Tail(s)[Len(Tail(s))] = s[Len(s)]
           /\ Tail(s) = << >> => Len(s) = 1
<1> DEFINE t == Tail(s)
<1>1. /\ t \in Seq(ReadAnswer) /\ Len(t) = Len(s) - 1
      /\ \A i \in 1..(Len(s) - 1) : t[i] = s[i + 1]
      /\ Len(s) \in Nat /\ Len(s) > 0
  BY FlowShrinks
<1>2. t = << >> <=> Len(t) = 0
  BY <1>1, EmptySeq
<1> HIDE DEF t
<1>3. ASSUME NEW i \in 1..Len(t)
      PROVE  OffsetOf(t[i]) \in Nat /\ t[i] = SliceAt(base, OffsetOf(t[i]))
  <2>1. i \in 1..(Len(s) - 1) /\ i + 1 \in 1..Len(s)
    BY <1>1
  <2> QED
    BY <1>1, <2>1 DEF Slices
<1>4. ASSUME NEW i \in 1..(Len(t) - 1) PROVE OffsetOf(t[i + 1]) = OffsetOf(t[i]) + ChunkSize
  <2>1. i \in 1..(Len(s) - 1) /\ i + 1 \in 1..(Len(s) - 1)
    BY <1>1
  <2>2. t[i] = s[i + 1] /\ t[i + 1] = s[(i + 1) + 1]
    BY <1>1, <2>1
  <2> QED
    BY <2>1, <2>2 DEF Slices
<1>5. ASSUME t # << >>
      PROVE  OffsetOf(t[1]) = OffsetOf(s[1]) + ChunkSize /\ t[Len(t)] = s[Len(s)]
  <2>1. 1 \in 1..(Len(s) - 1) /\ Len(t) \in 1..(Len(s) - 1) /\ Len(t) + 1 = Len(s)
    BY <1>1, <1>2, <1>5
  <2>2. t[1] = s[1 + 1] /\ t[Len(t)] = s[Len(t) + 1]
    BY <1>1, <2>1
  <2> QED
    BY <2>1, <2>2 DEF Slices
<1>6. t = << >> => Len(s) = 1
  BY <1>1, <1>2
<1> QED
  BY <1>3, <1>4, <1>5, <1>6 DEF Slices, t

LEMMA SlicesCut ==
    ASSUME NEW base, NEW s \in Seq(ReadAnswer), Slices(s, base), NEW n \in 0..Len(s)
    PROVE  /\ Slices(SubSeq(s, 1, n), base)
           /\ SubSeq(s, 1, n) # << >> => s # << >> /\ SubSeq(s, 1, n)[1] = s[1]
<1> DEFINE t == SubSeq(s, 1, n)
<1>1. /\ t \in Seq(ReadAnswer) /\ Len(t) = n /\ \A i \in 1..n : t[i] = s[i]
      /\ Len(s) \in Nat /\ n \in Nat /\ n <= Len(s)
  BY CutShort
<1>2. (t = << >> <=> Len(t) = 0) /\ (s = << >> <=> Len(s) = 0)
  BY <1>1, EmptySeq
<1> HIDE DEF t
<1>3. ASSUME NEW i \in 1..Len(t)
      PROVE  OffsetOf(t[i]) \in Nat /\ t[i] = SliceAt(base, OffsetOf(t[i]))
  <2>1. i \in 1..n /\ i \in 1..Len(s)
    BY <1>1
  <2> QED
    BY <1>1, <2>1 DEF Slices
<1>4. ASSUME NEW i \in 1..(Len(t) - 1) PROVE OffsetOf(t[i + 1]) = OffsetOf(t[i]) + ChunkSize
  <2>1. i \in 1..n /\ i + 1 \in 1..n /\ i \in 1..(Len(s) - 1)
    BY <1>1
  <2> QED
    BY <1>1, <2>1 DEF Slices
<1>5. ASSUME t # << >> PROVE s # << >> /\ t[1] = s[1]
  <2>1. 1 \in 1..n /\ Len(s) # 0
    BY <1>1, <1>2, <1>5
  <2> QED
    BY <1>1, <1>2, <2>1
<1> QED
  BY <1>3, <1>4, <1>5 DEF Slices, t


(* What a slice says of the object. *)
LEMMA SliceOf ==
    ASSUME NEW base \in Seq(Byte), NEW offset \in 0..Len(base)
    PROVE  LET chunk == ChunkAt(base, offset, ChunkSize)
           IN  /\ chunk.offset = offset /\ chunk.total_size = Len(base)
               /\ chunk.is_last => chunk.data = SubSeq(base, offset + 1, Len(base))
               /\ ~chunk.is_last => /\ offset + ChunkSize <= Len(base)
                                    /\ chunk.data = SubSeq(base, offset + 1, offset + ChunkSize)
                                    /\ Len(chunk.data) = ChunkSize
<1> DEFINE chunk == ChunkAt(base, offset, ChunkSize)
           total == Len(base)
           end == IF offset + ChunkSize < total THEN offset + ChunkSize ELSE total
<1>1. total \in Nat /\ offset \in Nat /\ offset <= total /\ ChunkSize \in Nat \ {0}
  BY ChunkAssumption
<1>2. CASE offset = total
  <2>1. chunk = [offset |-> offset, data |-> << >>, is_last |-> TRUE, total_size |-> total]
    BY <1>1, <1>2 DEF ChunkAt
  <2>2. SubSeq(base, offset + 1, total) = << >>
    <3>1. Len(SubSeq(base, offset + 1, total)) = total - offset
      BY <1>1, SliceLen
    <3>2. SubSeq(base, offset + 1, total) \in Seq(Byte)
      BY <1>1, SliceLen
    <3> QED
      BY <1>1, <1>2, <3>1, <3>2, EmptySeq
  <2> HIDE DEF chunk
  <2>3. /\ chunk.offset = offset /\ chunk.total_size = total /\ chunk.data = << >>
        /\ chunk.is_last
    BY <2>1
  <2> QED
    BY <2>2, <2>3 DEF chunk
<1>3. CASE offset # total
  <2>1. ~(offset >= total) /\ end \in Nat /\ (end # total => end = offset + ChunkSize /\ end <= total)
    BY <1>1, <1>3
  <2>2. chunk = [offset |-> offset, data |-> SubSeq(base, offset + 1, end),
                 is_last |-> end = total, total_size |-> total]
    BY <2>1 DEF ChunkAt
  <2> HIDE DEF chunk, end
  <2>3. chunk.offset = offset /\ chunk.total_size = total
        /\ chunk.data = SubSeq(base, offset + 1, end) /\ chunk.is_last = (end = total)
    BY <2>2
  <2>4. CASE end = total
    <3>1. chunk.is_last
      BY <2>3, <2>4
    <3> QED
      BY <2>3, <2>4, <3>1 DEF chunk
  <2>5. CASE end # total
    <3>1. ~chunk.is_last
      BY <2>3, <2>5
    <3>2. Len(SubSeq(base, offset + 1, offset + ChunkSize)) = ChunkSize
      <4>1. offset + ChunkSize \in Nat /\ offset <= offset + ChunkSize /\ offset + ChunkSize <= total
            /\ (offset + ChunkSize) - offset = ChunkSize
        BY <1>1, <2>1, <2>5
      <4> QED
        BY <1>1, <4>1, SliceLen
    <3> QED
      BY <2>1, <2>3, <2>5, <3>1, <3>2 DEF chunk
  <2> QED
    BY <2>4, <2>5
<1> QED
  BY <1>2, <1>3

LEMMA SliceOfSlice ==
    ASSUME NEW base \in Seq(Byte), NEW from \in Nat, NEW to \in Nat, NEW k \in Nat,
           from <= to, to <= Len(base), from + k <= to
    PROVE  SubSeq(SubSeq(base, from + 1, to), 1, k) = SubSeq(base, from + 1, from + k)
<1> DEFINE s == SubSeq(base, from + 1, to)
           t == SubSeq(s, 1, k)
           u == SubSeq(base, from + 1, from + k)
<1>1. s \in Seq(Byte) /\ Len(s) = to - from /\ \A i \in 1..(to - from) : s[i] = base[from + i]
  BY SliceLen
<1>2. /\ u \in Seq(Byte) /\ Len(u) = k /\ \A i \in 1..k : u[i] = base[from + i]
  <2>1. PICK end : end = from + k
    OBVIOUS
  <2>2. end \in Nat /\ from <= end /\ end <= Len(base) /\ end - from = k
    BY <2>1
  <2>3. /\ SubSeq(base, from + 1, end) \in Seq(Byte)
        /\ Len(SubSeq(base, from + 1, end)) = end - from
        /\ \A i \in 1..(end - from) : SubSeq(base, from + 1, end)[i] = base[from + i]
    BY <2>2, SliceLen
  <2> QED
    BY <2>1, <2>2, <2>3
<1> HIDE DEF s, u
<1>3. t \in Seq(Byte) /\ Len(t) = k /\ \A i \in 1..k : t[i] = s[i]
  <2>1. k <= Len(s)
    BY <1>1
  <2> QED
    BY <1>1, <2>1
<1> HIDE DEF t
<1>4. \A i \in 1..k : t[i] = u[i]
  <2>1. \A i \in 1..k : i \in 1..(to - from)
    OBVIOUS
  <2> QED
    BY <1>1, <1>2, <1>3, <2>1
<1>5. t = u
  BY <1>2, <1>3, <1>4, SeqEqual
<1> QED
  BY <1>5 DEF s, t, u

(* What receive_chunked_read makes of the preview and a further chunk. *)
Extended(seen, data) == seen \o SubSeq(data, 1, Smaller(Len(data), PreviewLimit - Len(seen)))

LEMMA PreviewGrows ==
    ASSUME NEW base \in Seq(Byte), NEW from \in Nat, NEW to \in Nat, from <= to, to <= Len(base)
    PROVE  Extended(SubSeq(base, 1, Smaller(from, PreviewLimit)), SubSeq(base, from + 1, to))
               = SubSeq(base, 1, Smaller(to, PreviewLimit))
<1> SUFFICES ASSUME NEW seen, seen = SubSeq(base, 1, Smaller(from, PreviewLimit)),
                    NEW data, data = SubSeq(base, from + 1, to)
             PROVE  seen \o SubSeq(data, 1, Smaller(Len(data), PreviewLimit - Len(seen)))
                        = SubSeq(base, 1, Smaller(to, PreviewLimit))
  BY DEF Extended
<1>1. PreviewLimit \in Nat /\ Len(base) \in Nat
  BY ManagerAssumption
<1>2. Len(data) = to - from /\ data \in Seq(Byte)
  BY SliceLen
<1>3. seen \in Seq(Byte) /\ Len(seen) = Smaller(from, PreviewLimit)
  <2>1. Smaller(from, PreviewLimit) \in Nat /\ Smaller(from, PreviewLimit) <= Len(base)
    BY <1>1 DEF Smaller
  <2> QED
    BY <2>1, PrefixIsSeq
<1>4. CASE PreviewLimit <= from
  <2>1. Len(seen) = PreviewLimit /\ Smaller(to, PreviewLimit) = PreviewLimit
        /\ Smaller(from, PreviewLimit) = PreviewLimit
    BY <1>1, <1>3, <1>4 DEF Smaller
  <2>2. Smaller(Len(data), PreviewLimit - Len(seen)) = 0
    BY <1>1, <1>2, <2>1 DEF Smaller
  <2>3. SubSeq(data, 1, 0) = << >>
    BY <1>2, PrefixIsSeq, EmptySeq
  <2>4. seen \o << >> = seen
    BY <1>3, ConcatEmptySeq
  <2> QED
    BY <2>1, <2>2, <2>3, <2>4
<1>5. CASE from < PreviewLimit
  <2> DEFINE k == Smaller(to - from, PreviewLimit - from)
  <2>1. /\ k \in Nat /\ from + k = Smaller(to, PreviewLimit) /\ from + k <= to
        /\ Smaller(from, PreviewLimit) = from
    BY <1>1, <1>5 DEF Smaller
  <2>2. Smaller(Len(data), PreviewLimit - Len(seen)) = k
    BY <1>2, <1>3, <2>1
  <2> HIDE DEF k
  <2>3. SubSeq(data, 1, k) = SubSeq(base, from + 1, from + k)
    BY <2>1, SliceOfSlice
  <2>4. SubSeq(base, 1, from) \o SubSeq(base, from + 1, from + k) = SubSeq(base, 1, from + k)
    <3>1. from + k \in Nat /\ from <= from + k /\ from + k <= Len(base)
      BY <1>1, <2>1
    <3> QED
      BY <3>1, SliceJoins
  <2> QED
    BY <2>1, <2>2, <2>3, <2>4
<1>6. PreviewLimit <= from \/ from < PreviewLimit
  BY <1>1
<1> QED
  BY <1>4, <1>5, <1>6


(* Steps that have nothing to do with this session's read. *)
LEMMA OthersRead ==
    ASSUME NEW d, Same(d), PreviewInv(d), ReadResult(d)
    PROVE  PreviewInv(d)' /\ ReadResult(d)'
<1>1. /\ pc'[d] = pc[d] /\ req'[d] = req[d] /\ resp'[d] = resp[d] /\ srv'[d] = srv[d]
      /\ stream'[d] = stream[d] /\ preview'[d] = preview[d] /\ result'[d] = result[d]
      /\ ghost'[d].path = ghost[d].path /\ ghost'[d].base = ghost[d].base
      /\ ghost'[d].got = ghost[d].got /\ (ghost'[d].clean => ghost[d].clean)
  BY DEF Same
<1>2. (Streams(d) => Streams(d)') /\ (Previewed(d) => Previewed(d)')
  BY <1>1 DEF Streams, Previewed, ReadFrom
<1>3. PreviewInv(d)'
  BY <1>1, <1>2 DEF PreviewInv
<1>4. ReadResult(d)'
  BY <1>1 DEF ReadResult
<1> QED
  BY <1>3, <1>4

LEMMA NotReading ==
    ASSUME NEW c, pc'[c] # "read", result'[c].type # "ObjectContent"
    PROVE  PreviewInv(c)' /\ ReadResult(c)'
BY DEF PreviewInv, ReadResult

LEMMA ReadBegins ==
    ASSUME NEW c \in Client, Shape, Typed(c), StorageTypeOK, SessionInv(c), Arrived(c),
           PreviewInv(c), ReadResult(c), ServeRead(c, Command(c)), ObserveRead(c, Command(c)),
           ClientStays
    PROVE  PreviewInv(c)' /\ ReadResult(c)'
<1>1. pc[c] \in {"read", "gone"} /\ (pc[c] = "read" => resp[c] = << >>)
      /\ Tail(req[c]) = << >> /\ req[c] # << >>
  BY InFlight DEF ServeRead, Receive, SingleCommand, Arrived
<1>2. /\ pc'[c] = pc[c] /\ result'[c] = result[c] /\ preview'[c] = preview[c]
      /\ result'[c].type # "ObjectContent"
  BY <1>1 DEF ClientStays, ReadResult
<1>3. CASE pc[c] = "gone"
  BY <1>2, <1>3, NotReading
<1>4. CASE pc[c] = "read"
  <2>1. PICK path : path = Command(c).path
    OBVIOUS
  <2>2. /\ req'[c] = << >> /\ resp'[c] = << >> /\ srv'[c] = "streaming"
        /\ stream'[c] = [path |-> path, offset |-> 0]
    BY <1>1, <1>4, <2>1 DEF ServeRead, Receive, Shape
  <2>3. PICK base : base = OldContent(path)
    OBVIOUS
  <2>4. ghost'[c].path = path /\ ghost'[c].base = base /\ ghost'[c].got = << >>
    BY <2>1, <2>3 DEF ObserveRead, Observe
  <2>5. base \in Seq(Byte)
    BY <2>3, OldContentIsBytes
  <2>6. Slices(<< >>, base)
    <3>1. Len(<< >>) = 0
      OBVIOUS
    <3> QED
      BY <3>1 DEF Slices
  <2>7. 0 \in 0..Len(base) /\ Smaller(0, PreviewLimit) = 0
    <3>1. Len(base) \in Nat
      BY <2>5
    <3> QED
      BY <3>1, ManagerAssumption DEF Smaller
  <2>8. preview[c] = << >> /\ SubSeq(base, 1, 0) = << >>
    BY <1>1, <1>4, <2>5, PrefixIsSeq, EmptySeq DEF PreviewInv
  <2>9. Streams(c)'
    BY <2>2, <2>4, <2>7 DEF Streams
  <2>10. Previewed(c)'
    BY <1>2, <2>2, <2>4, <2>7, <2>8 DEF Previewed, ReadFrom
  <2>11. PreviewInv(c)'
    BY <2>2, <2>4, <2>6, <2>9, <2>10 DEF PreviewInv
  <2> QED
    BY <1>2, <2>11 DEF ReadResult
<1> QED
  BY <1>1, <1>3, <1>4

LEMMA OtherCommands ==
    ASSUME NEW c \in Client, SessionInv(c), Arrived(c), ReadResult(c), ClientStays,
           HandleCommand(c, Command(c)), ~ServeRead(c, Command(c))
    PROVE  PreviewInv(c)' /\ ReadResult(c)'
<1>1. Command(c).type # "ReadObject"
  BY DEF HandleCommand, ServeBegin, ServeChunk, ServeSingle, ServeTerminate, Receive, SingleCommand
<1>2. pc[c] \notin {"read", "ready"}
  BY <1>1, InFlight
<1>3. pc'[c] = pc[c] /\ result'[c] = result[c]
  BY DEF ClientStays
<1>4. result[c].type # "ObjectContent"
  BY <1>2 DEF ReadResult
<1> QED
  BY <1>2, <1>3, <1>4, NotReading

(* The chunk the server reads now continues the ones before it. *)
LEMMA ContentContinues ==
    ASSUME NEW c \in Client, Shape, Typed(c), SessionInv(c), Undisturbed(c),
           PreviewInv(c), ReadResult(c), SendContentChunk(c), ClientStays, UNCHANGED ghost
    PROVE  PreviewInv(c)' /\ ReadResult(c)'
<1>1. /\ srv[c] = "streaming" /\ req[c] = << >> /\ req'[c] = req[c]
      /\ pc[c] \in {"read", "gone"} /\ (pc[c] = "read" => resp[c] \in Seq(ReadAnswer))
  BY OneMessage DEF SendContentChunk, SessionInv, ServerInv, ReadyInv, BeginInv, SendInv, ChunkInv,
     SingleInv, ReadInv, ReadFlow, Dead, Quiet, Asking, Told, Phases
<1>2. /\ pc'[c] = pc[c] /\ result'[c] = result[c] /\ preview'[c] = preview[c]
      /\ ghost'[c] = ghost[c] /\ result'[c].type # "ObjectContent"
  BY <1>1 DEF ClientStays, ReadResult
<1>3. CASE pc[c] = "gone" \/ ~ghost[c].clean
  BY <1>1, <1>2, <1>3 DEF PreviewInv, ReadResult
<1>4. CASE pc[c] = "read" /\ ghost[c].clean
  <2>1. PICK base, offset, s : base = ghost[c].base /\ offset = stream[c].offset /\ s = resp[c]
    OBVIOUS
  <2>2. Slices(s, base) /\ Streams(c) /\ Previewed(c)
    BY <1>1, <1>4, <2>1 DEF PreviewInv
  <2>3. /\ base \in Seq(Byte) /\ Len(base) \in Nat /\ offset \in 0..Len(base) /\ offset \in Nat
        /\ s \in Seq(ReadAnswer)
        /\ s # << >> => offset = OffsetOf(s[Len(s)]) + ChunkSize
    BY <1>1, <1>4, <2>1, <2>2 DEF Typed, Streams
  <2>4. GetObject(stream[c].path) = {base}
    <3>1. GetObject(ghost[c].path) = {base \o << >>}
      BY <1>4, <2>1, <2>2 DEF Undisturbed, Streams
    <3>2. base \o << >> = base
      BY <2>3, ConcatEmptySeq
    <3> QED
      BY <2>2, <3>1, <3>2 DEF Streams
  <2>5. PICK chunk : chunk = ChunkAt(base, offset, ChunkSize)
    OBVIOUS
  <2>6. GetObjectChunk(stream[c].path, stream[c].offset, ChunkSize) = {chunk}
    BY <2>1, <2>4, <2>5 DEF GetObjectChunk
  <2>7. /\ Send(c, Content(chunk))
        /\ chunk.is_last => EndStream(c)
        /\ ~chunk.is_last => /\ stream' = [stream EXCEPT ![c].offset = NextOffset(chunk)]
                             /\ UNCHANGED srv
    BY <2>6 DEF SendContentChunk, Content
  <2>8. resp'[c] = Append(s, SliceAt(base, offset))
    BY <2>1, <2>5, <2>7 DEF Send, SliceAt, Shape
  <2>9. /\ Slices(resp'[c], base) /\ resp'[c] # << >>
        /\ OffsetOf(resp'[c][Len(resp'[c])]) = offset
        /\ OffsetOf(resp'[c][1]) = IF s = << >> THEN offset ELSE OffsetOf(s[1])
    BY <2>2, <2>3, <2>8, SlicesGrow
  <2>10. ReadFrom(c)' = ReadFrom(c)
    BY <2>1, <2>9 DEF ReadFrom
  <2>11. Previewed(c)'
    BY <1>2, <2>2, <2>10 DEF Previewed
  <2>12. ASSUME srv'[c] = "streaming" PROVE Streams(c)'
    <3>1. ~chunk.is_last
      BY <2>7, <2>12 DEF EndStream, Shape
    <3>2. offset + ChunkSize <= Len(base) /\ NextOffset(chunk) = offset + ChunkSize
      BY <2>3, <2>5, <3>1, SliceOf DEF NextOffset
    <3>3. stream'[c] = [stream[c] EXCEPT !.offset = offset + ChunkSize]
      BY <2>7, <3>1, <3>2 DEF Shape
    <3>4. stream'[c].path = stream[c].path /\ stream'[c].offset = offset + ChunkSize
      BY <3>3 DEF Typed
    <3>5. offset + ChunkSize \in 0..Len(base)
      BY <2>3, <3>2, ChunkAssumption
    <3> QED
      BY <1>2, <2>1, <2>2, <2>9, <3>4, <3>5 DEF Streams
  <2>13. PreviewInv(c)'
    BY <1>1, <1>2, <2>1, <2>9, <2>11, <2>12 DEF PreviewInv
  <2> QED
    BY <1>2, <2>13 DEF ReadResult
<1> QED
  BY <1>1, <1>3, <1>4

(* A cut connection delivers a prefix of the chunks. *)
LEMMA CutRead ==
    ASSUME NEW c \in Client, Shape, Typed(c), SessionInv(c), PreviewInv(c), ReadResult(c),
           CloseConnection(c), ClientStays, UNCHANGED ghost
    PROVE  PreviewInv(c)' /\ ReadResult(c)'
<1>1. /\ pc'[c] = pc[c] /\ result'[c] = result[c] /\ preview'[c] = preview[c]
      /\ ghost'[c] = ghost[c] /\ req'[c] = << >> /\ srv'[c] = "closed"
  BY DEF ClientStays, CloseConnection, EndTask, Shape
<1>2. ReadResult(c)'
  BY <1>1 DEF ReadResult
<1>3. ASSUME pc[c] = "read", ghost[c].clean
      PROVE  /\ Slices(resp'[c], ghost[c].base)
             /\ resp'[c] # << >> => Previewed(c)'
  <2>1. PICK n \in 0..Len(resp[c]) : resp'[c] = SubSeq(resp[c], 1, n)
    BY DEF CloseConnection, Shape
  <2>2. CASE req[c] = << >>
    <3>1. resp[c] \in Seq(ReadAnswer)
      BY <1>3, <2>2, OneMessage DEF SessionInv, ReadInv, ReadFlow, Asking
    <3>2. /\ Slices(resp[c], ghost[c].base)
          /\ resp[c] # << >> => Previewed(c)
      BY <1>3, <2>2 DEF PreviewInv
    <3>3. /\ Slices(resp'[c], ghost[c].base)
          /\ resp'[c] # << >> => resp[c] # << >> /\ resp'[c][1] = resp[c][1]
      BY <2>1, <3>1, <3>2, SlicesCut
    <3> QED
      BY <1>1, <3>2, <3>3 DEF Previewed, ReadFrom
  <2>3. CASE req[c] # << >>
    <3>1. resp[c] = << >>
      BY <1>3, <2>3 DEF SessionInv, ReadInv, ReadFlow, Asking
    <3>2. resp'[c] = << >>
      BY <2>1, <3>1, CutShort
    <3>3. Len(<< >>) = 0
      OBVIOUS
    <3> QED
      BY <3>2, <3>3 DEF Slices
  <2> QED
    BY <2>2, <2>3
<1>4. PreviewInv(c)'
  BY <1>1, <1>3 DEF PreviewInv
<1> QED
  BY <1>2, <1>4


(* A response arrives: the preview takes the slice it has room for. *)
LEMMA SliceShown ==
    ASSUME NEW c \in Client, Shape, Typed(c), SessionInv(c), resp[c] # << >>,
           PreviewInv(c), ReadResult(c), ReadResponse(c, Output(c)), ServerStays,
           ghost[c].clean
    PROVE  PreviewInv(c)' /\ ReadResult(c)'
<1>1. pc[c] = "read" /\ ReadFlow(c) /\ Take(c)
  BY DEF ReadResponse, SessionInv, ReadInv, Asking
<1>2. /\ req[c] = << >> /\ req'[c] = req[c] /\ srv'[c] = srv[c] /\ stream'[c] = stream[c]
      /\ ghost'[c] = ghost[c] /\ result[c].type # "ObjectContent"
  BY <1>1 DEF ReadFlow, ReadResponse, ServerStays, ReadResult
<1>3. PICK base, s, from, seen : /\ base = ghost[c].base /\ s = resp[c]
                                 /\ from = OffsetOf(s[1]) /\ seen = preview[c]
  OBVIOUS
<1>4. Slices(s, base) /\ Previewed(c) /\ (srv[c] = "streaming" => Streams(c))
  BY <1>1, <1>2, <1>3 DEF PreviewInv
<1>5. /\ resp'[c] = Tail(s) /\ s \in Seq(ReadAnswer) /\ Output(c) = DecodeOutput(s[1])
      /\ Len(s) \in Nat /\ Len(s) > 0 /\ 1 \in 1..Len(s)
  BY <1>1, <1>3, FlowShrinks DEF Take, Shape, ReadFlow, Output
<1>6. /\ base \in Seq(Byte) /\ Len(base) \in Nat /\ from \in 0..Len(base) /\ from \in Nat
      /\ seen = SubSeq(base, 1, Smaller(from, PreviewLimit))
  <2>1. ReadFrom(c) = from
    BY <1>3 DEF ReadFrom
  <2>2. from \in 0..Len(base) /\ seen = SubSeq(base, 1, Smaller(from, PreviewLimit))
    BY <1>3, <1>4, <2>1 DEF Previewed
  <2>3. base \in Seq(Byte)
    BY <1>3 DEF Typed
  <2>4. Len(base) \in Nat
    BY <2>3
  <2> QED
    BY <2>2, <2>3, <2>4
<1>7. PICK chunk : chunk = ChunkAt(base, from, ChunkSize)
  OBVIOUS
<1>8. s[1] = SliceAt(base, from)
  BY <1>3, <1>4, <1>5 DEF Slices
<1>9. Output(c) = Content(chunk)
  BY <1>5, <1>6, <1>7, <1>8, SliceHeard
<1>10. Output(c).type = "ObjectContentChunk" /\ Output(c).chunk = chunk
  BY <1>9 DEF Content
<1>11. PICK kept : kept = Extended(seen, chunk.data)
  OBVIOUS
<1>12. kept = seen \o Kept(c, chunk.data)
  BY <1>3, <1>11 DEF Kept, Room, Extended
<1>13. /\ preview' = [preview EXCEPT ![c] = kept]
       /\ chunk.is_last => Return(c, [type |-> "ObjectContent", data |-> kept,
                                      total_size |-> chunk.total_size,
                                      truncated |-> Len(kept) # chunk.total_size])
       /\ ~chunk.is_last => UNCHANGED <<pc, result>>
  BY <1>3, <1>10, <1>12 DEF ReadResponse
<1>14. /\ chunk.total_size = Len(base)
       /\ chunk.is_last => chunk.data = SubSeq(base, from + 1, Len(base))
       /\ ~chunk.is_last => /\ from + ChunkSize <= Len(base)
                            /\ chunk.data = SubSeq(base, from + 1, from + ChunkSize)
  BY <1>6, <1>7, SliceOf
<1>15. preview'[c] = kept
  BY <1>13 DEF Shape
<1>16. CASE chunk.is_last
  <2>1. kept = SubSeq(base, 1, Smaller(Len(base), PreviewLimit))
    <3>1. from <= Len(base) /\ Len(base) <= Len(base)
      BY <1>6
    <3> QED
      BY <1>6, <1>11, <1>14, <1>16, <3>1, PreviewGrows
  <2>2. /\ pc'[c] = "ready"
        /\ result'[c] = [type |-> "ObjectContent", data |-> kept, total_size |-> Len(base),
                         truncated |-> Len(kept) # Len(base)]
    BY <1>13, <1>14, <1>16 DEF Return, Shape
  <2>3. /\ result'[c].data = kept /\ result'[c].total_size = Len(base)
        /\ result'[c].truncated = (Len(kept) # Len(base))
    BY <2>2
  <2>4. Shown(result'[c], base)
    BY <2>1, <2>3 DEF Shown
  <2> QED
    BY <1>2, <1>3, <2>2, <2>4 DEF PreviewInv, ReadResult
<1>17. CASE ~chunk.is_last
  <2>1. pc'[c] = "read" /\ result'[c] = result[c]
    BY <1>1, <1>13, <1>17
  <2>2. kept = SubSeq(base, 1, Smaller(from + ChunkSize, PreviewLimit))
    <3>1. from + ChunkSize \in Nat /\ from <= from + ChunkSize
      BY <1>6, ChunkAssumption
    <3> QED
      BY <1>6, <1>11, <1>14, <1>17, <3>1, PreviewGrows
  <2>3. /\ Slices(Tail(s), base)
        /\ Tail(s) # << >> => /\ OffsetOf(Tail(s)[1]) = from + ChunkSize
                              /\ Tail(s)[Len(Tail(s))] = s[Len(s)]
        /\ Tail(s) = << >> => Len(s) = 1
    BY <1>3, <1>4, <1>5, SlicesShrink
  <2>4. ASSUME srv[c] = "streaming" PROVE stream[c].offset = OffsetOf(s[Len(s)]) + ChunkSize
    BY <1>3, <1>4, <2>4 DEF Streams
  <2>5. ASSUME srv[c] = "streaming" PROVE Streams(c)'
    BY <1>2, <1>4, <1>5, <2>3, <2>4, <2>5 DEF Streams
  <2>6. ASSUME srv[c] = "streaming" \/ Tail(s) # << >> PROVE ReadFrom(c)' = from + ChunkSize
    <3>1. CASE Tail(s) # << >>
      BY <1>5, <2>3, <3>1 DEF ReadFrom
    <3>2. CASE Tail(s) = << >>
      BY <1>2, <1>3, <1>5, <2>3, <2>4, <2>6, <3>2 DEF ReadFrom
    <3> QED
      BY <3>1, <3>2
  <2>7. ASSUME srv[c] = "streaming" \/ Tail(s) # << >> PROVE Previewed(c)'
    <3>1. from + ChunkSize \in 0..Len(base)
      BY <1>6, <1>14, <1>17, ChunkAssumption
    <3> QED
      BY <1>2, <1>3, <1>15, <2>2, <2>6, <2>7, <3>1 DEF Previewed
  <2>8. PreviewInv(c)'
    BY <1>2, <1>3, <1>5, <2>3, <2>5, <2>7 DEF PreviewInv
  <2> QED
    BY <1>2, <2>1, <2>8 DEF ReadResult
<1> QED
  BY <1>16, <1>17

(* Once the object has changed, only that a result belongs to the user. *)
LEMMA DisturbedRead ==
    ASSUME NEW c \in Client, Shape, SessionInv(c), resp[c] # << >>,
           PreviewInv(c), ReadResult(c), ReadResponse(c, Output(c)), ServerStays,
           ~ghost[c].clean
    PROVE  PreviewInv(c)' /\ ReadResult(c)'
<1>1. pc[c] = "read" /\ ReadFlow(c)
  BY DEF ReadResponse, SessionInv, ReadInv, Asking
<1>2. req'[c] = << >> /\ ghost'[c] = ghost[c] /\ result[c].type # "ObjectContent"
  BY <1>1 DEF ReadFlow, ReadResponse, ServerStays, ReadResult
<1>3. result'[c] = result[c] \/ pc'[c] = "ready"
  BY DEF ReadResponse, Return, Shape
<1> QED
  BY <1>2, <1>3 DEF PreviewInv, ReadResult

(* The client's other steps start a read or leave one. *)
LEMMA OtherResponses ==
    ASSUME NEW c \in Client, Shape, SessionInv(c), ReadResult(c),
           \/ resp[c] # << >> /\ \/ BeginResponse(c, Output(c)) \/ ChunkResponse(c, Output(c))
                                 \/ SingleResponse(c, Output(c))
           \/ OpenLocalFile(c) \/ SendChunk(c) \/ LoseConnection(c) \/ LocalFileFails(c)
           \/ Disconnect(c)
    PROVE  PreviewInv(c)' /\ ReadResult(c)'
<1>1. ASSUME pc[c] # "ready" PROVE result[c].type # "ObjectContent"
  BY <1>1 DEF ReadResult
<1>2. CASE resp[c] # << >> /\ BeginResponse(c, Output(c))
  BY <1>1, <1>2, NotReading DEF BeginResponse, Return, Shape
<1>3. CASE resp[c] # << >> /\ ChunkResponse(c, Output(c))
  <2>1. PICK output : Told(c, output) /\ DecodeOutput(EncodeOutput(output)) = output
                      /\ output.type # "ObjectContent"
    BY <1>3, PlainHeard, ProgressHeard DEF ChunkResponse, SessionInv, ChunkInv, Dead, Quiet, Asking,
       Done, Refused, Progressed
  <2>2. Output(c).type # "ObjectContent"
    BY <1>3, <2>1, Hears DEF ChunkResponse
  <2> QED
    BY <1>1, <1>3, <2>2, NotReading DEF ChunkResponse, Return, Shape
<1>4. CASE resp[c] # << >> /\ SingleResponse(c, Output(c))
  <2>1. PICK output \in {Done, Refused, [type |-> "Pong"], [type |-> "Terminated"]} :
            Told(c, output)
    BY <1>4 DEF SingleResponse, SessionInv, SingleInv, Dead, Quiet, Asking
  <2>2. Output(c) = output /\ output.type # "ObjectContent"
    BY <1>4, <2>1, Hears, PlainHeard DEF SingleResponse, Done, Refused
  <2> QED
    BY <1>4, <2>2, NotReading DEF SingleResponse, Return, Shape
<1>5. CASE OpenLocalFile(c) \/ SendChunk(c)
  BY <1>1, <1>5, NotReading DEF OpenLocalFile, SendChunk, Shape
<1>6. CASE LoseConnection(c) \/ LocalFileFails(c) \/ Disconnect(c)
  BY <1>6, NotReading DEF LoseConnection, LocalFileFails, Disconnect, Return, NoResult, Shape
<1> QED
  BY <1>2, <1>3, <1>4, <1>5, <1>6

LEMMA ReadStarts ==
    ASSUME NEW c \in Client, Shape, SessionInv(c), NEW plan, StartCommand(c, plan), ServerStays
    PROVE  PreviewInv(c)' /\ ReadResult(c)'
<1>1. Quiet(c) /\ pc[c] = "ready"
  BY DEF StartCommand, SessionInv, ReadyInv
<1>2. /\ preview'[c] = << >> /\ resp'[c] = << >> /\ result'[c].type # "ObjectContent"
      /\ srv'[c] = srv[c] /\ srv[c] # "streaming"
  BY <1>1 DEF StartCommand, Quiet, ServerStays, NoResult, Shape
<1>3. \A base : Slices(<< >>, base)
  <2>1. Len(<< >>) = 0
    OBVIOUS
  <2> QED
    BY <2>1 DEF Slices
<1> QED
  BY <1>2, <1>3 DEF PreviewInv, ReadResult


LEMMA ReadsStep ==
    ASSUME CoreInv, \A d \in Client : Undisturbed(d), ReadsInv, [Next]_sessionVars
    PROVE  ReadsInv'
<1>1. CASE UNCHANGED sessionVars
  <2>1. \A d \in Client : Same(d)
    BY <1>1 DEF sessionVars, Same
  <2> QED
    BY <2>1, OthersRead DEF ReadsInv
<1>2. ASSUME NEW c \in Client, Framed(c), PreviewInv(c)' /\ ReadResult(c)'
      PROVE  ReadsInv'
  BY <1>2, OthersRead DEF ReadsInv, Framed
<1>3. ASSUME NEW c \in Client, ServerStep(c) \/ ServerCloses(c) \/ ClientStep(c) \/ UserStep(c)
      PROVE  ReadsInv'
  <2>1. /\ Shape /\ AllTyped /\ Typed(c) /\ SessionInv(c) /\ StorageTypeOK /\ Undisturbed(c)
        /\ PreviewInv(c) /\ ReadResult(c)
    BY DEF CoreInv, AllTyped, TreeInv, ReadsInv
  <2>2. CASE Arrived(c) /\ HandleCommand(c, Command(c)) /\ ClientStays
    <3>1. CASE ServeRead(c, Command(c))
      <4>1. ObserveRead(c, Command(c))
        <5>1. Command(c).type = "ReadObject"
          BY <3>1 DEF ServeRead, Receive
        <5> QED
          BY <2>2, <5>1 DEF HandleCommand, ServeBegin, ServeChunk, ServeSingle, ServeTerminate,
             Receive, SingleCommand
      <4> QED
        BY <1>2, <2>1, <2>2, <3>1, <4>1, ReadBegins, ServedFramed
    <3>2. CASE ~ServeRead(c, Command(c))
      BY <1>2, <2>1, <2>2, <3>2, OtherCommands, ServedFramed
    <3> QED
      BY <3>1, <3>2
  <2>3. CASE SendContentChunk(c) /\ UNCHANGED ghost /\ ClientStays
    BY <1>2, <2>1, <2>3, ContentContinues, ContentFramed
  <2>4. CASE ServerCloses(c)
    <3>1. CloseConnection(c) /\ ClientStays /\ UNCHANGED ghost
      BY <2>4 DEF ServerCloses, ClientStays
    <3> QED
      BY <1>2, <2>1, <3>1, CutRead, CloseFramed
  <2>5. CASE ClientStep(c)
    <3>1. ServerStays
      BY <2>5 DEF ClientStep, ServerStays
    <3>2. CASE resp[c] # << >> /\ ReadResponse(c, Output(c))
      BY <1>2, <2>1, <2>5, <3>1, <3>2, SliceShown, DisturbedRead, ClientFramed
    <3>3. CASE ~(resp[c] # << >> /\ ReadResponse(c, Output(c)))
      <4>1. \/ resp[c] # << >> /\ \/ BeginResponse(c, Output(c)) \/ ChunkResponse(c, Output(c))
                                  \/ SingleResponse(c, Output(c))
            \/ OpenLocalFile(c) \/ SendChunk(c) \/ LoseConnection(c) \/ LocalFileFails(c)
        BY <2>5, <3>3 DEF ClientStep, HandleResponse
      <4> QED
        BY <1>2, <2>1, <2>5, <4>1, OtherResponses, ClientFramed
    <3> QED
      BY <3>2, <3>3
  <2>6. CASE UserStep(c)
    <3>1. ServerStays
      BY <2>6 DEF UserStep, ServerStays
    <3>2. (\E plan : StartCommand(c, plan)) \/ Disconnect(c)
      BY <2>6 DEF UserStep
    <3>3. PreviewInv(c)' /\ ReadResult(c)'
      BY <2>1, <3>1, <3>2, ReadStarts, OtherResponses
    <3> QED
      BY <1>2, <2>1, <2>6, <3>3, ClientFramed
  <2>7. ServerStep(c) => \/ Arrived(c) /\ HandleCommand(c, Command(c)) /\ ClientStays
                         \/ SendContentChunk(c) /\ UNCHANGED ghost /\ ClientStays
    BY DEF ServerStep, ClientStays
  <2> QED
    BY <1>3, <2>2, <2>3, <2>4, <2>5, <2>6, <2>7
<1> QED
  BY <1>1, <1>3 DEF Next

(***************************************************************************)
(* A read of an object nobody changes meanwhile shows its first            *)
(* PreviewLimit bytes and its true size, and says truncated exactly when   *)
(* bytes are missing: for any object, chunk size and preview limit, and    *)
(* whatever the other sessions do between the server's storage reads.      *)
(***************************************************************************)
THEOREM ReadIsTrue == Spec => []ReadShowsObject
<1> DEFINE All == \A d \in Client : Undisturbed(d)
<1>1. Init => All /\ ReadsInv
  <2>1. Init => All
    BY DEF Init, NoGhost, Undisturbed
  <2>2. Init => ReadsInv
    BY DEF Init, ClientInit, NoResult, ReadsInv, PreviewInv, ReadResult
  <2> QED
    BY <2>1, <2>2
<1>2. CoreInv /\ All /\ [Next]_sessionVars => All'
  BY UndisturbedStep
<1>3. CoreInv /\ All /\ ReadsInv /\ [Next]_sessionVars => ReadsInv'
  BY ReadsStep
<1>4. CoreInv /\ ReadsInv => ReadShowsObject
  <2> SUFFICES ASSUME CoreInv, ReadsInv, NEW c \in Client,
                      result[c].type = "ObjectContent", ghost[c].clean
               PROVE  /\ IsPrefix(result[c].data, ghost[c].base)
                      /\ result[c].total_size = Len(ghost[c].base)
                      /\ result[c].truncated <=> Len(ghost[c].base) > PreviewLimit
                      /\ ~result[c].truncated => result[c].data = ghost[c].base
    BY DEF ReadShowsObject
  <2>1. PICK base, data : base = ghost[c].base /\ data = result[c].data
    OBVIOUS
  <2>2. PICK n : n = Smaller(Len(base), PreviewLimit)
    OBVIOUS
  <2>3. base \in Seq(Byte)
    BY <2>1 DEF CoreInv, AllTyped, Typed
  <2>4. /\ data = SubSeq(base, 1, n) /\ result[c].total_size = Len(base)
        /\ result[c].truncated <=> Len(data) # Len(base)
    BY <2>1, <2>2 DEF ReadsInv, ReadResult, Shown
  <2>5. /\ Len(base) \in Nat /\ n \in Nat /\ n <= Len(base) /\ PreviewLimit \in Nat
        /\ n # Len(base) <=> Len(base) > PreviewLimit
    <3>1. Len(base) \in Nat /\ PreviewLimit \in Nat
      BY <2>3, ManagerAssumption
    <3> QED
      BY <2>2, <3>1 DEF Smaller
  <2>6. data \in Seq(Byte) /\ Len(data) = n
    BY <2>3, <2>4, <2>5, PrefixIsSeq
  <2>7. IsPrefix(data, base)
    <3>1. SubSeq(data, 1, n) = data
      BY <2>6, SubSeqFull
    <3> QED
      BY <2>4, <2>5, <2>6, <3>1 DEF IsPrefix
  <2>8. SubSeq(base, 1, Len(base)) = base
    BY <2>3, SubSeqFull
  <2> QED
    BY <2>1, <2>4, <2>5, <2>6, <2>7, <2>8
<1>5. Spec => [](All /\ ReadsInv)
  <2> HIDE DEF All
  <2> QED
    BY <1>1, <1>2, <1>3, SessionCorrect, PTL DEF Spec
<1> QED
  BY <1>4, <1>5, SessionCorrect, PTL
=============================================================================
