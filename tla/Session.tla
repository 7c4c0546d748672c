------------------------------- MODULE Session -------------------------------
(***************************************************************************)
(* Clients and server together: sessions that run chunked writes, appends, *)
(* uploads, reads and single commands on one shared storage, and that may  *)
(* be cut at any point.  A client that reconnects is a further session.    *)
(*                                                                         *)
(* The variable ghost observes each session's current command for the      *)
(* properties: the object it works on, its content when the command took   *)
(* hold of it (base), the bytes this transfer has added since (got), and   *)
(* whether nobody else has changed the object meanwhile (clean).           *)
(***************************************************************************)
EXTENDS ConnectionManager

VARIABLES
    ghost,            \* per session, the observations described above
    localFailure      \* per session, whether an upload failed on the client

sessionVars == <<objects, namespaces, req, resp, srv, active_write, stream,
                 pc, cmd, sent, preview, result, issued, ghost, localFailure>>

NoGhost == [path |-> << >>, base |-> << >>, got |-> << >>, clean |-> FALSE]

Init ==
    /\ StorageInit /\ ConnectionInit /\ ClientInit
    /\ ghost = [c \in Client |-> NoGhost]
    /\ localFailure = [c \in Client |-> FALSE]

-----------------------------------------------------------------------------
(* Observing. *)

OldContent(path) == IF IsObject(path) THEN CHOOSE d \in GetObject(path) : TRUE ELSE << >>

(* Somebody's step: clean is lost when it changes what the object holds. *)
Watch(d) ==
    [ghost[d] EXCEPT
        !.clean = @ /\ \A path \in {ghost[d].path} : GetObject(path)' = GetObject(path)]

Observe(c, own) == ghost' = [d \in Client |-> IF d = c THEN own ELSE Watch(d)]

ObserveBegin(c, msg) ==
    Observe(c, IF Transferring(c) \/ ~MayPut(msg.path) THEN Watch(c)
               ELSE [path |-> msg.path,
                     base |-> IF msg.mode = "Append" THEN OldContent(msg.path) ELSE << >>,
                     got |-> << >>, clean |-> TRUE])

ObserveChunk(c, msg) ==
    Observe(c, IF Acceptable(c, msg.chunk) THEN [ghost[c] EXCEPT !.got = @ \o msg.chunk.data]
                                           ELSE Watch(c))

ObserveRead(c, msg) ==
    Observe(c, [path |-> msg.path, base |-> OldContent(msg.path), got |-> << >>,
                clean |-> IsObject(msg.path)])

-----------------------------------------------------------------------------
HandleCommand(c, msg) ==
    \/ ServeBegin(c, msg) /\ ObserveBegin(c, msg)
    \/ ServeChunk(c, msg) /\ ObserveChunk(c, msg)
    \/ ServeRead(c, msg) /\ ObserveRead(c, msg)
    \/ ServeSingle(c, msg) /\ Observe(c, Watch(c))
    \/ ServeTerminate(c, msg) /\ UNCHANGED ghost

ServerStep(c) ==
    /\ \/ Arrived(c) /\ \E msg \in {Command(c)} : HandleCommand(c, msg)
       \/ SendContentChunk(c) /\ UNCHANGED ghost
    /\ UNCHANGED <<pc, cmd, sent, preview, result, issued, localFailure>>

ServerCloses(c) ==
    /\ CloseConnection(c)
    /\ UNCHANGED <<pc, cmd, sent, preview, result, issued, ghost, localFailure>>

HandleResponse(c, output) ==
    \/ BeginResponse(c, output) \/ ChunkResponse(c, output)
    \/ ReadResponse(c, output) \/ SingleResponse(c, output)

ClientStep(c) ==
    /\ \/ /\ \/ resp[c] # << >> /\ \E output \in {Output(c)} : HandleResponse(c, output)
             \/ OpenLocalFile(c) \/ SendChunk(c) \/ LoseConnection(c)
          /\ UNCHANGED localFailure
       \/ LocalFileFails(c) /\ localFailure' = [localFailure EXCEPT ![c] = TRUE]
    /\ UNCHANGED <<objects, namespaces, srv, active_write, stream, ghost>>

UserStep(c) ==
    /\ \/ \E kind \in Kind : \E plan \in Plan(kind) : StartCommand(c, plan)
       \/ Disconnect(c)
    /\ UNCHANGED <<objects, namespaces, srv, active_write, stream, ghost, localFailure>>

Next == \E c \in Client : ServerStep(c) \/ ServerCloses(c) \/ ClientStep(c) \/ UserStep(c)

Spec == Init /\ [][Next]_sessionVars

(* A connection task and a client keep running while they have work: tokio  *)
(* polls every ready task, and the client awaits nothing else.  Users,      *)
(* timeouts and failures owe us nothing.                                    *)
FairSpec ==
    Spec /\ \A c \in Client : WF_sessionVars(ServerStep(c)) /\ WF_sessionVars(ClientStep(c))

-----------------------------------------------------------------------------
(***************************************************************************)
(* While nobody else touches an object, it holds at every moment what it   *)
(* held when the command took hold of it (nothing for write and upload,    *)
(* the old content for append) followed by the bytes transferred so far,   *)
(* whatever cut the transfer short.                                        *)
(***************************************************************************)
UndisturbedObject ==
    \A c \in Client : ghost[c].clean =>
        GetObject(ghost[c].path) = {ghost[c].base \o ghost[c].got}

(***************************************************************************)
(* A transfer that returns Success to the user has stored exactly the      *)
(* announced number of bytes, the ones the client read, in order: the      *)
(* checks of write_object_chunk on every chunk add up to this.             *)
(***************************************************************************)
SuccessMeansDelivered ==
    \A c \in Client :
        cmd[c].kind \in Transfers /\ result[c].type = "Success" =>
            ghost[c].got = SubSeq(cmd[c].data, 1, cmd[c].total)
                /\ Len(ghost[c].got) = cmd[c].total

(***************************************************************************)
(* A read of an object nobody changes meanwhile shows its first bytes and  *)
(* its size, and says truncated exactly when bytes are missing.            *)
(***************************************************************************)
ReadShowsObject ==
    \A c \in Client :
        result[c].type = "ObjectContent" /\ ghost[c].clean =>
            /\ IsPrefix(result[c].data, ghost[c].base)
            /\ result[c].total_size = Len(ghost[c].base)
            /\ result[c].truncated <=> Len(ghost[c].base) > PreviewLimit
            /\ ~result[c].truncated => result[c].data = ghost[c].base

(***************************************************************************)
(* Requests and responses stay paired: a client that is between commands   *)
(* on a live session has nothing in flight either way, so the next         *)
(* response it receives answers its next request.                          *)
(***************************************************************************)
Paired ==
    \A c \in Client :
        pc[c] = "ready" /\ srv[c] # "closed" =>
            req[c] = << >> /\ resp[c] = << >> /\ srv[c] = "receiving"

(***************************************************************************)
(* Client and server agree on where a transfer is: a chunk in flight is    *)
(* the one the server expects, so a client of this repository is never     *)
(* told "unexpected chunk offset", "transfer size changed" or "No active   *)
(* transfer".                                                              *)
(***************************************************************************)
InStep ==
    \A c \in Client : \A i \in 1..Len(req[c]) :
        DecodeCommand(req[c][i]).type = "WriteObjectChunk" =>
            Transferring(c) /\ ChunkFits(active_write[c], DecodeCommand(req[c][i]).chunk)

(***************************************************************************)
(* What the server decodes from a request in flight is what the client     *)
(* meant by it: the first request of the command under way, or the slice   *)
(* of its data that ends at the offset the client counts with.  It holds   *)
(* for empty payloads and offset 0 too, which Protobuf does not send.      *)
(***************************************************************************)
HeardAsMeant ==
    \A c \in Client : req[c] # << >> /\ pc[c] # "gone" =>
        IF pc[c] \in {"chunk", "last"}
        THEN LET chunk == Command(c).chunk
             IN  /\ chunk.data = SubSeq(cmd[c].data, chunk.offset + 1, sent[c])
                 /\ chunk.offset + Len(chunk.data) = sent[c]
                 /\ chunk.is_last <=> pc[c] = "last"
        ELSE Command(c) = FirstRequest(cmd[c])

(***************************************************************************)
(* A session is left with a transfer that no command will finish, and so   *)
(* refuses all further writes, only after an upload failed on the client.  *)
(***************************************************************************)
StuckOnlyByLocalFailure ==
    \A c \in Client : pc[c] = "ready" /\ Transferring(c) => localFailure[c]

(***************************************************************************)
(* Every command comes to an end: it returns to the user, or the session   *)
(* is gone.                                                                *)
(***************************************************************************)
CommandEnds ==
    \A c \in Client : pc[c] # "ready" ~> pc[c] \in {"ready", "gone"}

(***************************************************************************)
(* "write <path> <data>  Replace an object with inline data" (README.md):  *)
(* when every client has written and been told Success, the object is what *)
(* one of them wrote.                                                      *)
(***************************************************************************)
WriteReplacesWhole ==
    (\A c \in Client : cmd[c].kind = "write" /\ result[c].type = "Success") =>
        \E c \in Client : GetObject(cmd[c].path) = {cmd[c].data}
=============================================================================
