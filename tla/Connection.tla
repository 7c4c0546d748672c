----------------------------- MODULE Connection -----------------------------
(***************************************************************************)
(* server/src/connection.rs with the transfer half of request_handler.rs:  *)
(* the server end of each session, after its handshake.  A connection task *)
(* receives one command, answers it completely, and receives the next; a   *)
(* chunked write spans several commands (active_write), a chunked read     *)
(* answers one command with several responses (stream).  The tasks of all  *)
(* sessions run concurrently on one storage.                               *)
(***************************************************************************)
EXTENDS MemoryStorage, Codec

CONSTANTS
    Client,           \* the sessions
    ChunkSize         \* DEFAULT_TRANSFER_CHUNK_SIZE, in bytes of the model

ASSUME ChunkAssumption == ChunkSize \in Nat \ {0}

VARIABLES
    req,              \* per session, encoded commands on their way to the server
    resp,             \* per session, encoded outputs on their way to the client
    srv,              \* per session, what its task is doing
    active_write,     \* per session, the Option<ActiveWriteTransfer>
    stream            \* per session, path and offset of the read being sent

connectionVars == <<srv, active_write, stream>>

NoTransfer == [none |-> TRUE]
NoStream == [path |-> Root, offset |-> 0]

Mode == {"Write", "Upload", "Append"}

ConnectionInit ==
    /\ req = [c \in Client |-> << >>]
    /\ resp = [c \in Client |-> << >>]
    /\ srv = [c \in Client |-> "receiving"]
    /\ active_write = [c \in Client |-> NoTransfer]
    /\ stream = [c \in Client |-> NoStream]

Transferring(c) == active_write[c] # NoTransfer

(* receive_command: the task takes and decodes the next command of its      *)
(* session.                                                                 *)
Command(c) == DecodeCommand(Head(req[c]))

Arrived(c) == srv[c] = "receiving" /\ req[c] # << >>

Receive(c, msg, types) ==
    /\ msg.type \in types
    /\ req' = [req EXCEPT ![c] = Tail(@)]

Send(c, output) == resp' = [resp EXCEPT ![c] = Append(@, EncodeOutput(output))]

(* The texts of Success and Error messages are left out. *)
Text == <<"text">>
Succeed(c) == Send(c, [type |-> "Success", message |-> Text])
Fail(c) == Send(c, [type |-> "Error", message |-> Text])

SetTransfer(c, transfer) == active_write' = [active_write EXCEPT ![c] = transfer]

-----------------------------------------------------------------------------
(* begin_object_write: Write and Upload empty the object, Append makes sure *)
(* it exists.                                                               *)
OpenForWriteAppending(msg) == AppendObject(msg.path, << >>)   \* mutant: write does not truncate
OpenForWrite(msg) ==
    IF msg.mode = "Append" THEN AppendObject(msg.path, << >>) ELSE PutObject(msg.path, << >>)

Ready(c) == Send(c, [type |-> "TransferReady", chunk_size |-> ChunkSize])

ServeBeginSilently(c, msg) ==   \* mutant: a refused begin is not answered
    /\ Receive(c, msg, {"BeginObjectWrite"})
    /\ UNCHANGED <<srv, stream>>
    /\ IF Transferring(c) \/ ~MayPut(msg.path)
       THEN UNCHANGED <<objects, namespaces, active_write, resp>>
       ELSE /\ OpenForWrite(msg)
            /\ SetTransfer(c, [path |-> msg.path, expected_offset |-> 0,
                               total_size |-> msg.total_size])
            /\ Ready(c)

ServeBegin(c, msg) ==
    /\ Receive(c, msg, {"BeginObjectWrite"})
    /\ UNCHANGED <<srv, stream>>
    /\ \/ /\ Transferring(c)                       \* "Transfer already active"
          /\ Fail(c)
          /\ UNCHANGED <<objects, namespaces, active_write>>
       \/ /\ ~Transferring(c) /\ ~MayPut(msg.path)
          /\ Fail(c)
          /\ UNCHANGED <<objects, namespaces, active_write>>
       \/ /\ ~Transferring(c) /\ MayPut(msg.path)
          /\ OpenForWrite(msg)
          /\ SetTransfer(c, [path |-> msg.path, expected_offset |-> 0,
                             total_size |-> msg.total_size])
          /\ Ready(c)

(* The checks write_object_chunk makes before it touches the storage. *)
ChunkFits(transfer, chunk) ==
    /\ Len(chunk.data) <= ChunkSize
    /\ chunk.offset = transfer.expected_offset
    /\ chunk.total_size = transfer.total_size

WrittenByChunkSize(transfer, chunk) ==   \* mutant: counts a full chunk
    [transfer EXCEPT !.expected_offset = @ + ChunkSize]
Written(transfer, chunk) == [transfer EXCEPT !.expected_offset = @ + Len(chunk.data)]

(* write_object_chunk: the transfer is taken out of active_write, and only  *)
(* a TransferProgress puts it back.                                         *)
RefuseChunk(c) ==
    /\ UNCHANGED <<objects, namespaces>>
    /\ SetTransfer(c, NoTransfer)
    /\ Fail(c)

Progress(c, transfer) ==
    Send(c, [type |-> "TransferProgress", offset |-> transfer.expected_offset])

AcceptChunkKeepingTransfer(c, chunk) ==   \* mutant: Success does not clear it
    LET transfer == Written(active_write[c], chunk)
    IN  /\ AppendObject(active_write[c].path, chunk.data)
        /\ SetTransfer(c, transfer)
        /\ IF chunk.is_last THEN Succeed(c) ELSE Progress(c, transfer)

AcceptChunk(c, chunk) ==
    LET transfer == Written(active_write[c], chunk)
        complete == transfer.expected_offset = transfer.total_size
    IN  /\ AppendObject(active_write[c].path, chunk.data)
        /\ \/ chunk.is_last /\ complete  /\ SetTransfer(c, NoTransfer) /\ Succeed(c)
           \/ chunk.is_last /\ ~complete /\ SetTransfer(c, NoTransfer) /\ Fail(c)
           \/ ~chunk.is_last /\ SetTransfer(c, transfer) /\ Progress(c, transfer)

Acceptable(c, chunk) ==
    Transferring(c) /\ ChunkFits(active_write[c], chunk) /\ MayPut(active_write[c].path)

ServeChunk(c, msg) ==
    /\ Receive(c, msg, {"WriteObjectChunk"})
    /\ UNCHANGED <<srv, stream>>
    /\ \/ ~Acceptable(c, msg.chunk) /\ RefuseChunk(c)
       \/ Acceptable(c, msg.chunk) /\ AcceptChunk(c, msg.chunk)

-----------------------------------------------------------------------------
(* send_object_content_chunks: one storage read and one response per turn,  *)
(* with the other sessions running in between.                              *)
ServeRead(c, msg) ==
    /\ Receive(c, msg, {"ReadObject"})
    /\ stream' = [stream EXCEPT ![c] = [path |-> msg.path, offset |-> 0]]
    /\ srv' = [srv EXCEPT ![c] = "streaming"]
    /\ UNCHANGED <<objects, namespaces, resp, active_write>>

EndStream(c) ==
    /\ stream' = [stream EXCEPT ![c] = NoStream]
    /\ srv' = [srv EXCEPT ![c] = "receiving"]

NextOffsetFixedStride(chunk) == chunk.offset + ChunkSize - 1   \* mutant: off by one
NextOffset(chunk) == chunk.offset + Len(chunk.data)

SendContentChunk(c) ==
    LET chunks == GetObjectChunk(stream[c].path, stream[c].offset, ChunkSize)
    IN  /\ srv[c] = "streaming"
        /\ UNCHANGED <<objects, namespaces, req, active_write>>
        /\ \/ /\ chunks = {}
              /\ Fail(c)
              /\ EndStream(c)
           \/ \E chunk \in chunks :
                 /\ Send(c, [type |-> "ObjectContentChunk", chunk |-> chunk])
                 /\ IF chunk.is_last
                    THEN EndStream(c)
                    ELSE /\ stream' = [stream EXCEPT ![c].offset = NextOffset(chunk)]
                         /\ UNCHANGED srv

-----------------------------------------------------------------------------
(* The single-response commands that write.  The others leave the storage   *)
(* alone, and ping stands for them.                                         *)
SingleCommand == {"CreateObject", "DeleteObject", "CreateNamespace", "DeleteNamespace", "Ping"}

SingleMay(msg) ==
    CASE msg.type = "CreateObject"    -> MayPut(msg.path)
      [] msg.type = "DeleteObject"    -> IsObject(msg.path)
      [] msg.type = "CreateNamespace" -> MayMakeNamespace(msg.path)
      [] msg.type = "DeleteNamespace" -> MayRemoveNamespace(msg.path)
      [] msg.type = "Ping"            -> TRUE

SingleEffect(msg) ==
    \/ msg.type = "CreateObject"    /\ PutObject(msg.path, << >>)
    \/ msg.type = "DeleteObject"    /\ DeleteObject(msg.path)
    \/ msg.type = "CreateNamespace" /\ CreateNamespace(msg.path)
    \/ msg.type = "DeleteNamespace" /\ DeleteNamespace(msg.path)
    \/ msg.type = "Ping"            /\ UNCHANGED storage

SingleOutput(msg) ==
    IF msg.type = "Ping" THEN [type |-> "Pong"] ELSE [type |-> "Success", message |-> Text]

ServeSingle(c, msg) ==
    /\ Receive(c, msg, SingleCommand)
    /\ UNCHANGED connectionVars
    /\ \/ SingleMay(msg) /\ SingleEffect(msg) /\ Send(c, SingleOutput(msg))
       \/ ~SingleMay(msg) /\ UNCHANGED storage /\ Fail(c)

(* The task ends: its Connection is dropped, and with it the transfer. *)
EndTask(c) ==
    /\ srv' = [srv EXCEPT ![c] = "closed"]
    /\ active_write' = [active_write EXCEPT ![c] = NoTransfer]
    /\ stream' = [stream EXCEPT ![c] = NoStream]
    /\ UNCHANGED storage

(* run: Terminate is answered and ends the task. *)
ServeTerminate(c, msg) ==
    /\ Receive(c, msg, {"Terminate"})
    /\ Send(c, [type |-> "Terminated"])
    /\ EndTask(c)

(* run: the peer is gone, the idle timeout has passed, the server shuts     *)
(* down, or a send failed.  What was in flight may be lost.                 *)
CloseConnection(c) ==
    /\ srv[c] # "closed"
    /\ EndTask(c)
    /\ req' = [req EXCEPT ![c] = << >>]
    /\ \E n \in 0..Len(resp[c]) : resp' = [resp EXCEPT ![c] = SubSeq(@, 1, n)]
=============================================================================
