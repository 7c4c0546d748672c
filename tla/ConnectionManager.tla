-------------------------- MODULE ConnectionManager --------------------------
(***************************************************************************)
(* client/src/connection_manager.rs: the client end of each session, a     *)
(* sequential program that sends a request and waits for the response.     *)
(* RequestManager turns a command line into a plan; a plan is a command    *)
(* record here.                                                            *)
(***************************************************************************)
EXTENDS Connection

CONSTANTS
    Kind,             \* the commands the users issue
    PreviewLimit,     \* READ_PREVIEW_LIMIT, in bytes of the model
    MaxCommands       \* bound: commands issued by all sessions together

VARIABLES
    pc,               \* per session, where send_command is
    cmd,              \* per session, the plan being executed
    sent,             \* per session, the offset of the transfer loop
    preview,          \* per session, the bytes of a read kept for display
    result,           \* per session, what the last command returned
    issued            \* commands issued so far by all sessions

clientVars == <<pc, cmd, sent, preview, result, issued>>

Inline == {"write", "append"}
Transfers == Inline \cup {"upload"}
SingleType == [create |-> "CreateObject", rm |-> "DeleteObject", mkdir |-> "CreateNamespace",
               rmdir |-> "DeleteNamespace"]

ASSUME ManagerAssumption ==
    /\ Kind \subseteq Transfers \cup {"read", "terminate", "ping"} \cup DOMAIN SingleType
    /\ PreviewLimit \in Nat
    /\ MaxCommands \in Nat

NoCommand == [kind |-> "none", path |-> Root, data |-> << >>, total |-> 0, chunk_size |-> 0]
NoResult == [type |-> "None"]

ClientInit ==
    /\ pc = [c \in Client |-> "ready"]
    /\ cmd = [c \in Client |-> NoCommand]
    /\ sent = [c \in Client |-> 0]
    /\ preview = [c \in Client |-> << >>]
    /\ result = [c \in Client |-> NoResult]
    /\ issued = 0

ModeOf(kind) == CASE kind = "write" -> "Write" [] kind = "append" -> "Append"
                  [] kind = "upload" -> "Upload"

(* What build_request can plan: inline data is never empty, and an upload's *)
(* total is the size the local file has now.                                *)
(* No command text gives a Terminate: a caller of the public                *)
(* send_request_receive_response can send one.                              *)
PlanOf(kind, path, data) ==
    [NoCommand EXCEPT !.kind = kind, !.path = path, !.data = data, !.total = Len(data)]

PlanData(kind) ==
    IF kind \in Inline THEN Data \ {<< >>} ELSE IF kind \in Transfers THEN Data ELSE {<< >>}

Plan(kind) == {PlanOf(kind, path, data) : path \in RawPath, data \in PlanData(kind)}

FirstRequest(plan) ==
    CASE plan.kind \in Transfers -> [type |-> "BeginObjectWrite", path |-> plan.path,
                                     mode |-> ModeOf(plan.kind), total_size |-> plan.total]
      [] plan.kind = "read"      -> [type |-> "ReadObject", path |-> plan.path]
      [] plan.kind = "terminate" -> [type |-> "Terminate"]
      [] plan.kind = "ping"      -> [type |-> "Ping"]
      [] plan.kind \in DOMAIN SingleType -> [type |-> SingleType[plan.kind], path |-> plan.path]

Waiting(plan) == IF plan.kind \in Transfers THEN "begin"
                 ELSE IF plan.kind = "read" THEN "read" ELSE "single"

Request(c, msg) ==
    req' = [req EXCEPT ![c] = IF srv[c] = "closed" THEN @ ELSE Append(@, EncodeCommand(msg))]

(* send_command: plan the command, send its first request. *)
StartCommand(c, plan) ==
    /\ pc[c] = "ready"
    /\ issued < MaxCommands
    /\ pc' = [pc EXCEPT ![c] = Waiting(plan)]
    /\ cmd' = [cmd EXCEPT ![c] = plan]
    /\ sent' = [sent EXCEPT ![c] = 0]
    /\ preview' = [preview EXCEPT ![c] = << >>]
    /\ result' = [result EXCEPT ![c] = NoResult]
    /\ issued' = issued + 1
    /\ Request(c, FirstRequest(plan))
    /\ UNCHANGED resp

(* recv_msg: the next response of the session. *)
Output(c) == DecodeOutput(Head(resp[c]))

Take(c) == resp' = [resp EXCEPT ![c] = Tail(@)]

Smaller(m, n) == IF m < n THEN m ELSE n

Return(c, value) ==
    /\ pc' = [pc EXCEPT ![c] = "ready"]
    /\ result' = [result EXCEPT ![c] = value]

(* begin_transfer: TransferReady, or an error that ends the command. *)
Clamped(n) == IF n < 1 THEN 1 ELSE Smaller(n, ChunkSize)

BeginResponse(c, output) ==
    /\ pc[c] = "begin"
    /\ Take(c)
    /\ \/ /\ output.type = "TransferReady"
          /\ pc' = [pc EXCEPT ![c] = IF cmd[c].kind = "upload" THEN "open" ELSE "send"]
          /\ cmd' = [cmd EXCEPT ![c].chunk_size = Clamped(output.chunk_size)]
          /\ UNCHANGED result
       \/ /\ output.type # "TransferReady"
          /\ Return(c, [type |-> "Err"])
          /\ UNCHANGED cmd
    /\ UNCHANGED <<req, sent, preview, issued>>

(* send_upload opens the file only now: it may be gone, unreadable, or hold *)
(* other bytes than when it was planned.                                    *)
OpenLocalFile(c) ==
    /\ pc[c] = "open"
    /\ \E content \in Data :
          /\ cmd' = [cmd EXCEPT ![c].data = content]
          /\ pc' = [pc EXCEPT ![c] = "send"]
    /\ UNCHANGED <<req, resp, sent, preview, result, issued>>

(* The open or a read fails, or a read returns 0 before total bytes. *)
LocalFileFails(c) ==
    /\ \/ pc[c] = "open"
       \/ pc[c] = "send" /\ cmd[c].kind = "upload" /\ cmd[c].total > 0
    /\ Return(c, [type |-> "LocalErr"])
    /\ UNCHANGED <<req, resp, cmd, sent, preview, issued>>

(* How many bytes the next chunk has: a slice of inline data is as long as  *)
(* it can be, while a read of the local file may return fewer bytes.        *)
Left(c) == Len(cmd[c].data) - sent[c]
NextLen(c) ==
    IF cmd[c].total = 0 THEN {0}
    ELSE LET most == Smaller(Left(c), cmd[c].chunk_size)
         IN  {n \in 1..most : cmd[c].kind = "upload" \/ n = most}

(* send_transfer_chunk, as send_bytes_as_chunks and send_upload call it. *)
NextChunkFromStart(c, n) ==   \* mutant: the slice does not advance with the offset
    [offset |-> sent[c],
     data |-> SubSeq(cmd[c].data, 1, n),
     is_last |-> sent[c] + n = cmd[c].total,
     total_size |-> cmd[c].total]

NextChunk(c, n) ==
    [offset |-> sent[c],
     data |-> SubSeq(cmd[c].data, sent[c] + 1, sent[c] + n),
     is_last |-> sent[c] + n = cmd[c].total,
     total_size |-> cmd[c].total]

(* A file that has grown steps over its planned size, and one that ends     *)
(* early leaves nothing to send: LocalFileFails is then the only way on.    *)
SendChunk(c) ==
    /\ pc[c] = "send"
    /\ \E n \in NextLen(c) :
          /\ Request(c, [type |-> "WriteObjectChunk", chunk |-> NextChunk(c, n)])
          /\ pc' = [pc EXCEPT ![c] = IF NextChunk(c, n).is_last THEN "last" ELSE "chunk"]
          /\ sent' = [sent EXCEPT ![c] = @ + n]
    /\ UNCHANGED <<resp, cmd, preview, result, issued>>

(* The answer to the last chunk is the command's output; any other chunk    *)
(* must be answered by TransferProgress.                                    *)
ChunkResponse(c, output) ==
    /\ pc[c] \in {"chunk", "last"}
    /\ Take(c)
    /\ \/ pc[c] = "last" /\ Return(c, output)
       \/ /\ pc[c] = "chunk" /\ output.type = "TransferProgress"
          /\ pc' = [pc EXCEPT ![c] = "send"]
          /\ UNCHANGED result
       \/ /\ pc[c] = "chunk" /\ output.type # "TransferProgress"
          /\ Return(c, [type |-> "Err"])
    /\ UNCHANGED <<req, cmd, sent, preview, issued>>

(* receive_chunked_read *)
Room(c) == PreviewLimit - Len(preview[c])
Kept(c, data) == SubSeq(data, 1, Smaller(Len(data), Room(c)))

ReadResponseEarly(c, output) ==   \* mutant: stops listening once the preview is full
    LET chunk == output.chunk
        seen == preview[c] \o Kept(c, chunk.data)
    IN  /\ pc[c] = "read"
        /\ Take(c)
        /\ IF output.type = "ObjectContentChunk"
           THEN /\ preview' = [preview EXCEPT ![c] = seen]
                /\ IF chunk.is_last \/ Len(seen) = PreviewLimit
                   THEN Return(c, [type |-> "ObjectContent", data |-> seen,
                                   total_size |-> chunk.total_size,
                                   truncated |-> Len(seen) # chunk.total_size])
                   ELSE UNCHANGED <<pc, result>>
           ELSE Return(c, [type |-> "Err"]) /\ UNCHANGED preview
        /\ UNCHANGED <<req, cmd, sent, issued>>

ReadResponse(c, output) ==
    /\ pc[c] = "read"
    /\ Take(c)
    /\ \/ /\ output.type = "ObjectContentChunk"
          /\ LET chunk == output.chunk
                 seen == preview[c] \o Kept(c, chunk.data)
             IN  /\ preview' = [preview EXCEPT ![c] = seen]
                 /\ IF chunk.is_last
                    THEN Return(c, [type |-> "ObjectContent", data |-> seen,
                                    total_size |-> chunk.total_size,
                                    truncated |-> Len(seen) # chunk.total_size])
                    ELSE UNCHANGED <<pc, result>>
       \/ /\ output.type # "ObjectContentChunk"
          /\ Return(c, IF output.type \in {"ObjectContent", "Error"} THEN output
                                                             ELSE [type |-> "Err"])
          /\ UNCHANGED preview
    /\ UNCHANGED <<req, cmd, sent, issued>>

(* send_request_receive_response *)
SingleResponse(c, output) ==
    /\ pc[c] = "single"
    /\ Take(c)
    /\ Return(c, output)
    /\ UNCHANGED <<req, cmd, sent, preview, issued>>

(* recv_msg finds the connection closed: the command fails, and so will     *)
(* every later one on this channel.                                         *)
LoseConnection(c) ==
    /\ pc[c] \notin {"ready", "gone"}
    /\ resp[c] = << >>
    /\ srv[c] = "closed"
    /\ pc' = [pc EXCEPT ![c] = "gone"]
    /\ result' = [result EXCEPT ![c] = [type |-> "NetworkError"]]
    /\ UNCHANGED <<req, resp, cmd, sent, preview, issued>>

(* disconnect, or the client process ends, at any point of a command; what  *)
(* the command had in memory is gone with it.                               *)
Disconnect(c) ==
    /\ pc[c] # "gone"
    /\ pc' = [pc EXCEPT ![c] = "gone"]
    /\ resp' = [resp EXCEPT ![c] = << >>]
    /\ cmd' = [cmd EXCEPT ![c] = NoCommand]
    /\ sent' = [sent EXCEPT ![c] = 0]
    /\ preview' = [preview EXCEPT ![c] = << >>]
    /\ result' = [result EXCEPT ![c] = NoResult]
    /\ UNCHANGED <<req, issued>>
=============================================================================
