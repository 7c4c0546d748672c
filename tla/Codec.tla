------------------------------- MODULE Codec -------------------------------
(***************************************************************************)
(* common/src/domain.rs and protocol.rs: a FenrisCommand or FenrisOutput,  *)
(* a record with a type here, becomes the Request or Response of the       *)
(* Protobuf schema and its bytes, and back.  What Protobuf does to a       *)
(* message matters and its byte layout does not: a field that has its      *)
(* default value is not sent, an absent field is read as its default, and  *)
(* an enum travels as its number.  The bytes of a message are therefore    *)
(* the function of its non-default fields.                                 *)
(*                                                                         *)
(* Paths come from text typed by users, so to_string_lossy keeps them.  Of *)
(* an entry's metadata, times and permissions are left out.                *)
(***************************************************************************)
EXTENDS Naturals, Sequences

CONSTANT U32Max       \* u32::MAX, the largest chunk_size the schema can carry

ASSUME CodecAssumption == U32Max \in Nat

Invalid == [type |-> "Invalid"]        \* decode returned an error
NoDetails == [kind |-> "none"]
NoPath == << >>

(* prost: only the fields that differ from their default are written. *)
Bytes(message, default) ==
    [f \in {g \in DOMAIN message : message[g] # default[g]} |-> message[f]]
Parse(bytes, default) ==
    [f \in DOMAIN default |-> IF f \in DOMAIN bytes THEN bytes[f] ELSE default[f]]

(* An enum value is its position in the schema, the first one being 0. *)
NumberOf(enum, name) == (CHOOSE i \in DOMAIN enum : enum[i] = name) - 1
Known(enum, number) == number + 1 \in DOMAIN enum
NameOf(enum, number) == enum[number + 1]

FieldOr(record, field, default) == IF field \in DOMAIN record THEN record[field] ELSE default

-----------------------------------------------------------------------------
(* The messages nested in a Request or Response.  A nested message is sent  *)
(* even when all of its fields have their defaults.                         *)
TransferMode == <<"Unspecified", "Write", "Append", "Upload">>

StartDefault == [filename |-> NoPath, mode |-> 0, total_size |-> 0]
ChunkDefault == [offset |-> 0, data |-> << >>, is_last |-> FALSE, total_size |-> 0]
AckDefault == [offset |-> 0, chunk_size |-> 0]
InfoDefault == [name |-> "", size |-> 0, is_namespace |-> FALSE]

Details(kind, message, default) == [kind |-> kind, body |-> Bytes(message, default)]
ListingDetails(entries) ==
    [kind |-> "directory_listing",
     body |-> [i \in DOMAIN entries |-> Bytes(entries[i], InfoDefault)]]

-----------------------------------------------------------------------------
(* From<FenrisCommand> for Request, TryFrom<Request> for FenrisCommand. *)
RequestType == <<"Ping", "CreateObject", "ReadObject", "WriteObject", "AppendObject",
                 "DeleteObject", "ObjectInfo", "CreateNamespace", "ListNamespace",
                 "ChangeNamespace", "DeleteNamespace", "UploadObject", "Terminate",
                 "BeginObjectWrite", "WriteObjectChunk">>

RequestDefault == [command |-> 0, filename |-> NoPath, data |-> << >>, details |-> NoDetails]

CommandDetails(cmd) ==
    CASE cmd.type = "BeginObjectWrite" ->
            Details("transfer_start", [filename |-> cmd.path,
                                       mode |-> NumberOf(TransferMode, cmd.mode),
                                       total_size |-> cmd.total_size], StartDefault)
      [] cmd.type = "WriteObjectChunk" -> Details("transfer_chunk", cmd.chunk, ChunkDefault)
      [] OTHER -> NoDetails

ToRequest(cmd) ==
    [command |-> NumberOf(RequestType, cmd.type),
     filename |-> FieldOr(cmd, "path", NoPath),
     data |-> FieldOr(cmd, "data", << >>),
     details |-> CommandDetails(cmd)]

BeginFromAlwaysWrite(start) ==   \* mutant: the mode is not read
    [type |-> "BeginObjectWrite", path |-> start.filename, mode |-> "Write",
     total_size |-> start.total_size]

BeginFrom(start) ==
    IF Known(TransferMode, start.mode) /\ start.mode # 0
    THEN [type |-> "BeginObjectWrite", path |-> start.filename,
          mode |-> NameOf(TransferMode, start.mode), total_size |-> start.total_size]
    ELSE Invalid

FromRequest(request) ==
    LET type == NameOf(RequestType, request.command)
        kind == request.details.kind
    IN  IF ~Known(RequestType, request.command) THEN Invalid
        ELSE
        CASE type \in {"Ping", "Terminate"} -> [type |-> type]
          [] type \in {"WriteObject", "AppendObject", "UploadObject"} ->
                [type |-> type, path |-> request.filename, data |-> request.data]
          [] type = "BeginObjectWrite" ->
                IF kind = "transfer_start"
                THEN BeginFrom(Parse(request.details.body, StartDefault)) ELSE Invalid
          [] type = "WriteObjectChunk" ->
                IF kind = "transfer_chunk"
                THEN [type |-> type, chunk |-> Parse(request.details.body, ChunkDefault)]
                ELSE Invalid
          [] OTHER -> [type |-> type, path |-> request.filename]

EncodeCommand(cmd) == Bytes(ToRequest(cmd), RequestDefault)
DecodeCommand(bytes) == FromRequest(Parse(bytes, RequestDefault))

-----------------------------------------------------------------------------
(* From<FenrisOutput> for Response, TryFrom<Response> for FenrisOutput. *)
ResponseType == <<"Pong", "ObjectInfo", "ObjectContent", "NamespaceListing", "Success",
                  "Error", "Terminated", "NamespaceChanged", "TransferReady",
                  "TransferProgress", "ObjectContentChunk">>

ResponseDefault == [type |-> 0, success |-> FALSE, error_message |-> << >>,
                    data |-> << >>, details |-> NoDetails]

ClampU32(n) == IF n < U32Max THEN n ELSE U32Max

OutputDetails(out) ==
    CASE out.type = "ObjectInfo" -> Details("file_info", out.metadata, InfoDefault)
      [] out.type = "NamespaceListing" -> ListingDetails(out.entries)
      [] out.type = "TransferReady" ->
            Details("transfer_ack", [offset |-> 0, chunk_size |-> ClampU32(out.chunk_size)],
                    AckDefault)
      [] out.type = "TransferProgress" ->
            Details("transfer_ack", [offset |-> out.offset, chunk_size |-> 0], AckDefault)
      [] out.type = "ObjectContentChunk" -> Details("transfer_chunk", out.chunk, ChunkDefault)
      [] OTHER -> NoDetails

OutputData(out) ==
    CASE out.type = "Success" -> out.message
      [] out.type = "ObjectContent" -> out.data
      [] out.type = "ObjectContentChunk" -> out.chunk.data
      [] out.type = "NamespaceChanged" -> out.path
      [] OTHER -> << >>

ToResponseSuccessOnly(out) ==   \* mutant: only Success is marked as successful
    [type |-> NumberOf(ResponseType, out.type),
     success |-> out.type = "Success",
     error_message |-> IF out.type = "Error" THEN out.message ELSE << >>,
     data |-> OutputData(out),
     details |-> OutputDetails(out)]

ToResponse(out) ==
    [type |-> NumberOf(ResponseType, out.type),
     success |-> out.type # "Error",
     error_message |-> IF out.type = "Error" THEN out.message ELSE << >>,
     data |-> OutputData(out),
     details |-> OutputDetails(out)]

(* The outputs that need details, and the kind they need. *)
DetailKind == [ObjectInfo |-> "file_info", NamespaceListing |-> "directory_listing",
               TransferReady |-> "transfer_ack", TransferProgress |-> "transfer_ack",
               ObjectContentChunk |-> "transfer_chunk"]

FromDetails(type, body) ==
    CASE type = "ObjectInfo" -> [type |-> type, metadata |-> Parse(body, InfoDefault)]
      [] type = "NamespaceListing" ->
            [type |-> type, entries |-> [i \in DOMAIN body |-> Parse(body[i], InfoDefault)]]
      [] type = "TransferReady" ->
            [type |-> type, chunk_size |-> Parse(body, AckDefault).chunk_size]
      [] type = "TransferProgress" -> [type |-> type, offset |-> Parse(body, AckDefault).offset]
      [] type = "ObjectContentChunk" -> [type |-> type, chunk |-> Parse(body, ChunkDefault)]

(* An unsuccessful response is an Error whatever its type.  ObjectContent   *)
(* has nowhere to carry its size: it is taken to be whole.                  *)
FromResponse(response) ==
    LET type == NameOf(ResponseType, response.type)
    IN  IF ~response.success THEN [type |-> "Error", message |-> response.error_message]
        ELSE IF ~Known(ResponseType, response.type) THEN Invalid
        ELSE
        CASE type = "Error" -> [type |-> type, message |-> response.error_message]
          [] type = "Success" -> [type |-> type, message |-> response.data]
          [] type = "NamespaceChanged" -> [type |-> type, path |-> response.data]
          [] type = "ObjectContent" ->
                [type |-> type, data |-> response.data, total_size |-> Len(response.data),
                 truncated |-> FALSE]
          [] type \in DOMAIN DetailKind ->
                IF response.details.kind = DetailKind[type]
                THEN FromDetails(type, response.details.body) ELSE Invalid
          [] OTHER -> [type |-> type]

EncodeOutput(out) == Bytes(ToResponse(out), ResponseDefault)
DecodeOutput(bytes) == FromResponse(Parse(bytes, ResponseDefault))
=============================================================================
