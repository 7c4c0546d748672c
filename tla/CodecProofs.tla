---------------------------- MODULE CodecProofs ----------------------------
(***************************************************************************)
(* What goes through the Protobuf schema comes out of it: for every path,  *)
(* payload, offset and size, the command a server decodes is the command   *)
(* the client encoded, and the output a client decodes is the one the      *)
(* server encoded, but for the fields the schema has no room for.          *)
(***************************************************************************)
EXTENDS Codec, TLAPS

(* Dropping the fields with default values loses nothing. *)
LEMMA ParsesWhatWasWritten ==
    ASSUME NEW S, NEW T, NEW message \in [S -> T], NEW default, DOMAIN default = S
    PROVE  Parse(Bytes(message, default), default) = message
BY DEF Parse, Bytes

(* The enums list their values without repetition. *)
LEMMA RequestNumbers ==
    /\ DOMAIN RequestType = 1..15
    /\ \A i \in 1..15 : NumberOf(RequestType, RequestType[i]) = i - 1
<1>1. DOMAIN RequestType = 1..15
  BY DEF RequestType
<1>2. \A i, j \in 1..15 : RequestType[i] = RequestType[j] => i = j
  BY DEF RequestType
<1> QED
  BY <1>1, <1>2 DEF NumberOf

LEMMA ResponseNumbers ==
    /\ DOMAIN ResponseType = 1..11
    /\ \A i \in 1..11 : NumberOf(ResponseType, ResponseType[i]) = i - 1
<1>1. DOMAIN ResponseType = 1..11
  BY DEF ResponseType
<1>2. \A i, j \in 1..11 : ResponseType[i] = ResponseType[j] => i = j
  BY DEF ResponseType
<1> QED
  BY <1>1, <1>2 DEF NumberOf

LEMMA ModeNumbers ==
    /\ DOMAIN TransferMode = 1..4
    /\ \A i \in 1..4 : NumberOf(TransferMode, TransferMode[i]) = i - 1
<1>1. DOMAIN TransferMode = 1..4
  BY DEF TransferMode
<1>2. \A i, j \in 1..4 : TransferMode[i] = TransferMode[j] => i = j
  BY DEF TransferMode
<1> QED
  BY <1>1, <1>2 DEF NumberOf

LEMMA RequestReadBack ==
    ASSUME NEW type \in {RequestType[i] : i \in 1..15}
    PROVE  LET n == NumberOf(RequestType, type)
           IN  Known(RequestType, n) /\ NameOf(RequestType, n) = type
BY RequestNumbers DEF Known, NameOf

LEMMA ResponseReadBack ==
    ASSUME NEW type \in {ResponseType[i] : i \in 1..11}
    PROVE  LET n == NumberOf(ResponseType, type)
           IN  Known(ResponseType, n) /\ NameOf(ResponseType, n) = type
BY ResponseNumbers DEF Known, NameOf

LEMMA ModeReadBack ==
    ASSUME NEW mode \in {"Write", "Append", "Upload"}
    PROVE  LET n == NumberOf(TransferMode, mode)
           IN  Known(TransferMode, n) /\ NameOf(TransferMode, n) = mode /\ n # 0
<1>1. \E i \in 2..4 : mode = TransferMode[i]
  BY DEF TransferMode
<1> QED
  BY <1>1, ModeNumbers DEF Known, NameOf

(* A message with all of its fields comes back. *)
LEMMA RequestParses ==
    ASSUME NEW cmd
    PROVE  Parse(EncodeCommand(cmd), RequestDefault) = ToRequest(cmd)
BY DEF EncodeCommand, Parse, Bytes, ToRequest, RequestDefault

LEMMA ResponseParses ==
    ASSUME NEW out
    PROVE  Parse(EncodeOutput(out), ResponseDefault) = ToResponse(out)
BY DEF EncodeOutput, Parse, Bytes, ToResponse, ResponseDefault

LEMMA StartParses ==
    ASSUME NEW filename, NEW mode, NEW total
    PROVE  LET start == [filename |-> filename, mode |-> mode, total_size |-> total]
           IN  Parse(Bytes(start, StartDefault), StartDefault) = start
BY DEF Parse, Bytes, StartDefault

LEMMA ChunkParses ==
    ASSUME NEW offset, NEW data, NEW last, NEW total
    PROVE  LET chunk == [offset |-> offset, data |-> data, is_last |-> last, total_size |-> total]
           IN  Parse(Bytes(chunk, ChunkDefault), ChunkDefault) = chunk
BY DEF Parse, Bytes, ChunkDefault

LEMMA AckParses ==
    ASSUME NEW offset, NEW size
    PROVE  LET ack == [offset |-> offset, chunk_size |-> size]
           IN  Parse(Bytes(ack, AckDefault), AckDefault) = ack
BY DEF Parse, Bytes, AckDefault

LEMMA InfoParses ==
    ASSUME NEW name, NEW size, NEW isNamespace
    PROVE  LET info == [name |-> name, size |-> size, is_namespace |-> isNamespace]
           IN  Parse(Bytes(info, InfoDefault), InfoDefault) = info
BY DEF Parse, Bytes, InfoDefault

-----------------------------------------------------------------------------
(* The commands, by the fields they have. *)
BareCommand == {"Ping", "Terminate"}
DataCommand == {"WriteObject", "AppendObject", "UploadObject"}
PathCommand == {"CreateObject", "ReadObject", "DeleteObject", "ObjectInfo", "CreateNamespace",
                "ListNamespace", "ChangeNamespace", "DeleteNamespace"}

LEMMA CommandTypes ==
    BareCommand \cup DataCommand \cup PathCommand \cup {"BeginObjectWrite", "WriteObjectChunk"}
        \subseteq {RequestType[i] : i \in 1..15}
<1>1. \A type \in BareCommand \cup DataCommand \cup PathCommand
                  \cup {"BeginObjectWrite", "WriteObjectChunk"} :
         \E i \in 1..15 : type = RequestType[i]
  BY DEF RequestType, BareCommand, DataCommand, PathCommand
<1> QED
  BY <1>1

(* A command without fields arrives as itself. *)
LEMMA BareRoundTrip ==
    ASSUME NEW type \in BareCommand
    PROVE  DecodeCommand(EncodeCommand([type |-> type])) = [type |-> type]
<1> DEFINE cmd == [type |-> type]
           request == ToRequest(cmd)
<1>1. request.command = NumberOf(RequestType, type)
  BY DEF ToRequest
<1>2. Known(RequestType, request.command) /\ NameOf(RequestType, request.command) = type
  BY <1>1, RequestReadBack, CommandTypes
<1> HIDE DEF request
<1>3. FromRequest(request) = cmd
  BY <1>2 DEF FromRequest, BareCommand
<1> QED
  BY <1>3, RequestParses DEF DecodeCommand, request

(* A command on a path arrives with that path, whichever it is: the root,   *)
(* which is not sent, too.                                                  *)
LEMMA PathRoundTrip ==
    ASSUME NEW type \in PathCommand, NEW path
    PROVE  DecodeCommand(EncodeCommand([type |-> type, path |-> path]))
               = [type |-> type, path |-> path]
<1> DEFINE cmd == [type |-> type, path |-> path]
           request == ToRequest(cmd)
<1>1. request.command = NumberOf(RequestType, type) /\ request.filename = path
  BY DEF ToRequest, FieldOr
<1>2. Known(RequestType, request.command) /\ NameOf(RequestType, request.command) = type
  BY <1>1, RequestReadBack, CommandTypes
<1> HIDE DEF request
<1>3. FromRequest(request) = cmd
  BY <1>1, <1>2 DEF FromRequest, PathCommand
<1> QED
  BY <1>3, RequestParses DEF DecodeCommand, request

(* A command with a payload arrives with its path and its bytes, none too. *)
LEMMA DataRoundTrip ==
    ASSUME NEW type \in DataCommand, NEW path, NEW data
    PROVE  DecodeCommand(EncodeCommand([type |-> type, path |-> path, data |-> data]))
               = [type |-> type, path |-> path, data |-> data]
<1> DEFINE cmd == [type |-> type, path |-> path, data |-> data]
           request == ToRequest(cmd)
<1>1. /\ request.command = NumberOf(RequestType, type)
      /\ request.filename = path /\ request.data = data
  BY DEF ToRequest, FieldOr
<1>2. Known(RequestType, request.command) /\ NameOf(RequestType, request.command) = type
  BY <1>1, RequestReadBack, CommandTypes
<1> HIDE DEF request
<1>3. FromRequest(request) = cmd
  BY <1>1, <1>2 DEF FromRequest, DataCommand
<1> QED
  BY <1>3, RequestParses DEF DecodeCommand, request

(* A chunked write begins with the path, mode and size it was meant to      *)
(* have, size 0 included.                                                   *)
LEMMA BeginRoundTrip ==
    ASSUME NEW path, NEW mode \in {"Write", "Append", "Upload"}, NEW total
    PROVE  LET cmd == [type |-> "BeginObjectWrite", path |-> path, mode |-> mode,
                       total_size |-> total]
           IN  DecodeCommand(EncodeCommand(cmd)) = cmd
<1> DEFINE cmd == [type |-> "BeginObjectWrite", path |-> path, mode |-> mode,
                   total_size |-> total]
           start == [filename |-> path, mode |-> NumberOf(TransferMode, mode),
                     total_size |-> total]
           request == ToRequest(cmd)
<1>1. /\ request.command = NumberOf(RequestType, "BeginObjectWrite")
      /\ request.details = [kind |-> "transfer_start", body |-> Bytes(start, StartDefault)]
  BY DEF ToRequest, CommandDetails, Details
<1>2. /\ Known(RequestType, request.command)
      /\ NameOf(RequestType, request.command) = "BeginObjectWrite"
  BY <1>1, RequestReadBack, CommandTypes
<1>3. Parse(request.details.body, StartDefault) = start
  BY <1>1, StartParses
<1>4. BeginFrom(start) = cmd
  BY ModeReadBack DEF BeginFrom
<1> HIDE DEF request, start, cmd
<1>5. FromRequest(request) = cmd
  BY <1>1, <1>2, <1>3, <1>4 DEF FromRequest
<1> QED
  BY <1>5, RequestParses DEF DecodeCommand, request, cmd

(* A chunk arrives with its offset, bytes, size and mark of the last one,   *)
(* also when each has its default value.                                    *)
LEMMA ChunkRoundTrip ==
    ASSUME NEW offset, NEW data, NEW last, NEW total
    PROVE  LET cmd == [type |-> "WriteObjectChunk",
                       chunk |-> [offset |-> offset, data |-> data, is_last |-> last,
                                  total_size |-> total]]
           IN  DecodeCommand(EncodeCommand(cmd)) = cmd
<1> DEFINE chunk == [offset |-> offset, data |-> data, is_last |-> last, total_size |-> total]
           cmd == [type |-> "WriteObjectChunk", chunk |-> chunk]
           request == ToRequest(cmd)
<1>1. /\ request.command = NumberOf(RequestType, "WriteObjectChunk")
      /\ request.details = [kind |-> "transfer_chunk", body |-> Bytes(chunk, ChunkDefault)]
  BY DEF ToRequest, CommandDetails, Details
<1>2. /\ Known(RequestType, request.command)
      /\ NameOf(RequestType, request.command) = "WriteObjectChunk"
  BY <1>1, RequestReadBack, CommandTypes
<1>3. Parse(request.details.body, ChunkDefault) = chunk
  BY <1>1, ChunkParses
<1> HIDE DEF request, chunk
<1>4. FromRequest(request) = cmd
  BY <1>1, <1>2, <1>3 DEF FromRequest
<1> QED
  BY <1>4, RequestParses DEF DecodeCommand, request, chunk

(* What a FenrisCommand can be, with any path, bytes and sizes. *)
IsCommand(cmd) ==
    \/ \E type \in BareCommand : cmd = [type |-> type]
    \/ \E type \in PathCommand : \E path : cmd = [type |-> type, path |-> path]
    \/ \E type \in DataCommand : \E path, data : cmd = [type |-> type, path |-> path, data |-> data]
    \/ \E mode \in {"Write", "Append", "Upload"} : \E path, total :
          cmd = [type |-> "BeginObjectWrite", path |-> path, mode |-> mode, total_size |-> total]
    \/ \E offset, data, last, total :
          cmd = [type |-> "WriteObjectChunk",
                 chunk |-> [offset |-> offset, data |-> data, is_last |-> last,
                            total_size |-> total]]

(***************************************************************************)
(* The server decodes every command to what the client encoded, although   *)
(* Protobuf sends no empty path, no empty payload, no 0 and no FALSE.      *)
(***************************************************************************)
THEOREM CommandRoundTrip ==
    ASSUME NEW cmd, IsCommand(cmd)
    PROVE  DecodeCommand(EncodeCommand(cmd)) = cmd
BY BareRoundTrip, PathRoundTrip, DataRoundTrip, BeginRoundTrip, ChunkRoundTrip DEF IsCommand

-----------------------------------------------------------------------------
(* The outputs, and what the client reads back: the schema has no room for  *)
(* the size of an ObjectContent, and a u32 for the chunk size.              *)
IsChunk(chunk) ==
    \E offset, data, last, total :
        chunk = [offset |-> offset, data |-> data, is_last |-> last, total_size |-> total]
IsInfo(info) ==
    \E name, size, isNamespace :
        info = [name |-> name, size |-> size, is_namespace |-> isNamespace]

LEMMA OutputTypes ==
    {"Pong", "Terminated", "Success", "Error", "NamespaceChanged", "ObjectContent", "ObjectInfo",
     "NamespaceListing", "TransferReady", "TransferProgress", "ObjectContentChunk"}
        \subseteq {ResponseType[i] : i \in 1..11}
<1>1. \A type \in {"Pong", "Terminated", "Success", "Error", "NamespaceChanged",
                   "ObjectContent", "ObjectInfo", "NamespaceListing", "TransferReady",
                   "TransferProgress", "ObjectContentChunk"} :
         \E i \in 1..11 : type = ResponseType[i]
  BY DEF ResponseType
<1> QED
  BY <1>1

(* Every response names the type of its output, and says that it is one. *)
LEMMA ResponseHead ==
    ASSUME NEW out, out.type \in {ResponseType[i] : i \in 1..11}
    PROVE  LET response == ToResponse(out)
           IN  /\ Known(ResponseType, response.type)
               /\ NameOf(ResponseType, response.type) = out.type
               /\ response.success <=> out.type # "Error"
               /\ response.data = OutputData(out) /\ response.details = OutputDetails(out)
               /\ out.type = "Error" => response.error_message = out.message
BY ResponseReadBack DEF ToResponse

LEMMA DecodesResponse ==
    ASSUME NEW out
    PROVE  DecodeOutput(EncodeOutput(out)) = FromResponse(ToResponse(out))
BY ResponseParses DEF DecodeOutput

(* Outputs without details. *)
LEMMA PlainOutputRoundTrip ==
    /\ \A type \in {"Pong", "Terminated"} :
          DecodeOutput(EncodeOutput([type |-> type])) = [type |-> type]
    /\ \A type \in {"Success", "Error"} : \A message :
          DecodeOutput(EncodeOutput([type |-> type, message |-> message]))
              = [type |-> type, message |-> message]
    /\ \A path :
          DecodeOutput(EncodeOutput([type |-> "NamespaceChanged", path |-> path]))
              = [type |-> "NamespaceChanged", path |-> path]
    /\ \A data, total, truncated :
          DecodeOutput(EncodeOutput([type |-> "ObjectContent", data |-> data,
                                     total_size |-> total, truncated |-> truncated]))
              = [type |-> "ObjectContent", data |-> data, total_size |-> Len(data),
                 truncated |-> FALSE]
<1>1. ASSUME NEW type \in {"Pong", "Terminated"}
      PROVE  FromResponse(ToResponse([type |-> type])) = [type |-> type]
  <2> DEFINE out == [type |-> type]
             response == ToResponse(out)
  <2>1. /\ Known(ResponseType, response.type) /\ NameOf(ResponseType, response.type) = type
        /\ response.success
    BY ResponseHead, OutputTypes
  <2> HIDE DEF response
  <2>2. FromResponse(response) = out
    BY <2>1 DEF FromResponse, DetailKind
  <2> QED
    BY <2>2 DEF response
<1>2. ASSUME NEW type \in {"Success", "Error"}, NEW message
      PROVE  FromResponse(ToResponse([type |-> type, message |-> message]))
                 = [type |-> type, message |-> message]
  <2> DEFINE out == [type |-> type, message |-> message]
             response == ToResponse(out)
  <2>1. /\ Known(ResponseType, response.type) /\ NameOf(ResponseType, response.type) = type
        /\ response.success <=> type # "Error"
        /\ response.data = OutputData(out)
        /\ type = "Error" => response.error_message = message
    BY ResponseHead, OutputTypes
  <2>2. type = "Success" => OutputData(out) = message
    BY DEF OutputData
  <2> HIDE DEF response
  <2>3. FromResponse(response) = out
    BY <2>1, <2>2 DEF FromResponse, DetailKind
  <2> QED
    BY <2>3 DEF response
<1>3. ASSUME NEW path
      PROVE  FromResponse(ToResponse([type |-> "NamespaceChanged", path |-> path]))
                 = [type |-> "NamespaceChanged", path |-> path]
  <2> DEFINE out == [type |-> "NamespaceChanged", path |-> path]
             response == ToResponse(out)
  <2>1. /\ Known(ResponseType, response.type)
        /\ NameOf(ResponseType, response.type) = "NamespaceChanged"
        /\ response.success /\ response.data = OutputData(out)
    BY ResponseHead, OutputTypes
  <2>2. OutputData(out) = path
    BY DEF OutputData
  <2> HIDE DEF response
  <2>3. FromResponse(response) = out
    BY <2>1, <2>2 DEF FromResponse, DetailKind
  <2> QED
    BY <2>3 DEF response
<1>4. ASSUME NEW data, NEW total, NEW truncated
      PROVE  FromResponse(ToResponse([type |-> "ObjectContent", data |-> data,
                                      total_size |-> total, truncated |-> truncated]))
                 = [type |-> "ObjectContent", data |-> data, total_size |-> Len(data),
                    truncated |-> FALSE]
  <2> DEFINE out == [type |-> "ObjectContent", data |-> data,
                     total_size |-> total, truncated |-> truncated]
             response == ToResponse(out)
  <2>1. /\ Known(ResponseType, response.type)
        /\ NameOf(ResponseType, response.type) = "ObjectContent"
        /\ response.success /\ response.data = OutputData(out)
    BY ResponseHead, OutputTypes
  <2>2. OutputData(out) = data
    BY DEF OutputData
  <2> HIDE DEF response
  <2>3. FromResponse(response) = [type |-> "ObjectContent", data |-> data,
                                  total_size |-> Len(data), truncated |-> FALSE]
    BY <2>1, <2>2 DEF FromResponse, DetailKind
  <2> QED
    BY <2>3 DEF response
<1> QED
  BY <1>1, <1>2, <1>3, <1>4, DecodesResponse

(* Outputs with details. *)
LEMMA DetailedResponse ==
    ASSUME NEW out, out.type \in DOMAIN DetailKind, NEW body,
           OutputDetails(out) = [kind |-> DetailKind[out.type], body |-> body]
    PROVE  DecodeOutput(EncodeOutput(out)) = FromDetails(out.type, body)
<1> DEFINE response == ToResponse(out)
<1>1. out.type \in {"ObjectInfo", "NamespaceListing", "TransferReady", "TransferProgress",
                    "ObjectContentChunk"}
  BY DEF DetailKind
<1>2. /\ Known(ResponseType, response.type) /\ NameOf(ResponseType, response.type) = out.type
      /\ response.success /\ response.details = OutputDetails(out)
  BY <1>1, ResponseHead, OutputTypes
<1> HIDE DEF response
<1>3. FromResponse(response) = FromDetails(out.type, body)
  BY <1>1, <1>2 DEF FromResponse
<1> QED
  BY <1>3, DecodesResponse DEF response

LEMMA DetailedOutputRoundTrip ==
    /\ \A info : IsInfo(info) =>
          DecodeOutput(EncodeOutput([type |-> "ObjectInfo", metadata |-> info]))
              = [type |-> "ObjectInfo", metadata |-> info]
    /\ \A size :
          DecodeOutput(EncodeOutput([type |-> "TransferReady", chunk_size |-> size]))
              = [type |-> "TransferReady", chunk_size |-> ClampU32(size)]
    /\ \A offset :
          DecodeOutput(EncodeOutput([type |-> "TransferProgress", offset |-> offset]))
              = [type |-> "TransferProgress", offset |-> offset]
    /\ \A chunk : IsChunk(chunk) =>
          DecodeOutput(EncodeOutput([type |-> "ObjectContentChunk", chunk |-> chunk]))
              = [type |-> "ObjectContentChunk", chunk |-> chunk]
<1>1. ASSUME NEW info, IsInfo(info)
      PROVE  DecodeOutput(EncodeOutput([type |-> "ObjectInfo", metadata |-> info]))
                 = [type |-> "ObjectInfo", metadata |-> info]
  <2> DEFINE out == [type |-> "ObjectInfo", metadata |-> info]
  <2>1. OutputDetails(out) = [kind |-> DetailKind[out.type], body |-> Bytes(info, InfoDefault)]
    BY DEF OutputDetails, Details, DetailKind
  <2>2. Parse(Bytes(info, InfoDefault), InfoDefault) = info
    BY <1>1, InfoParses DEF IsInfo
  <2>3. out.type \in DOMAIN DetailKind /\ out.type = "ObjectInfo"
    BY DEF DetailKind
  <2> HIDE DEF out
  <2>4. DecodeOutput(EncodeOutput(out)) = FromDetails("ObjectInfo", Bytes(info, InfoDefault))
    BY <2>1, <2>3, DetailedResponse
  <2> QED
    BY <2>2, <2>4 DEF FromDetails, out
<1>2. ASSUME NEW size
      PROVE  DecodeOutput(EncodeOutput([type |-> "TransferReady", chunk_size |-> size]))
                 = [type |-> "TransferReady", chunk_size |-> ClampU32(size)]
  <2> DEFINE out == [type |-> "TransferReady", chunk_size |-> size]
             ack == [offset |-> 0, chunk_size |-> ClampU32(size)]
  <2>1. OutputDetails(out) = [kind |-> DetailKind[out.type], body |-> Bytes(ack, AckDefault)]
    BY DEF OutputDetails, Details, DetailKind
  <2>2. Parse(Bytes(ack, AckDefault), AckDefault).chunk_size = ClampU32(size)
    BY AckParses
  <2>3. out.type \in DOMAIN DetailKind /\ out.type = "TransferReady"
    BY DEF DetailKind
  <2> HIDE DEF out, ack
  <2>4. DecodeOutput(EncodeOutput(out)) = FromDetails("TransferReady", Bytes(ack, AckDefault))
    BY <2>1, <2>3, DetailedResponse
  <2> QED
    BY <2>2, <2>4 DEF FromDetails, out
<1>3. ASSUME NEW offset
      PROVE  DecodeOutput(EncodeOutput([type |-> "TransferProgress", offset |-> offset]))
                 = [type |-> "TransferProgress", offset |-> offset]
  <2> DEFINE out == [type |-> "TransferProgress", offset |-> offset]
             ack == [offset |-> offset, chunk_size |-> 0]
  <2>1. OutputDetails(out) = [kind |-> DetailKind[out.type], body |-> Bytes(ack, AckDefault)]
    BY DEF OutputDetails, Details, DetailKind
  <2>2. Parse(Bytes(ack, AckDefault), AckDefault).offset = offset
    BY AckParses
  <2>3. out.type \in DOMAIN DetailKind /\ out.type = "TransferProgress"
    BY DEF DetailKind
  <2> HIDE DEF out, ack
  <2>4. DecodeOutput(EncodeOutput(out)) = FromDetails("TransferProgress", Bytes(ack, AckDefault))
    BY <2>1, <2>3, DetailedResponse
  <2> QED
    BY <2>2, <2>4 DEF FromDetails, out
<1>4. ASSUME NEW chunk, IsChunk(chunk)
      PROVE  DecodeOutput(EncodeOutput([type |-> "ObjectContentChunk", chunk |-> chunk]))
                 = [type |-> "ObjectContentChunk", chunk |-> chunk]
  <2> DEFINE out == [type |-> "ObjectContentChunk", chunk |-> chunk]
  <2>1. OutputDetails(out) = [kind |-> DetailKind[out.type], body |-> Bytes(chunk, ChunkDefault)]
    BY DEF OutputDetails, Details, DetailKind
  <2>2. Parse(Bytes(chunk, ChunkDefault), ChunkDefault) = chunk
    BY <1>4, ChunkParses DEF IsChunk
  <2>3. out.type \in DOMAIN DetailKind /\ out.type = "ObjectContentChunk"
    BY DEF DetailKind
  <2> HIDE DEF out
  <2>4. DecodeOutput(EncodeOutput(out))
            = FromDetails("ObjectContentChunk", Bytes(chunk, ChunkDefault))
    BY <2>1, <2>3, DetailedResponse
  <2> QED
    BY <2>2, <2>4 DEF FromDetails, out
<1> QED
  BY <1>1, <1>2, <1>3, <1>4

LEMMA ListingRoundTrip ==
    ASSUME NEW S, \A info \in S : IsInfo(info), NEW entries \in Seq(S)
    PROVE  DecodeOutput(EncodeOutput([type |-> "NamespaceListing", entries |-> entries]))
               = [type |-> "NamespaceListing", entries |-> entries]
<1> DEFINE out == [type |-> "NamespaceListing", entries |-> entries]
           body == [i \in DOMAIN entries |-> Bytes(entries[i], InfoDefault)]
<1>1. OutputDetails(out) = [kind |-> DetailKind[out.type], body |-> body]
  BY DEF OutputDetails, ListingDetails, DetailKind
<1>2. \A i \in DOMAIN entries : Parse(Bytes(entries[i], InfoDefault), InfoDefault) = entries[i]
  BY InfoParses DEF IsInfo
<1>3. [i \in DOMAIN body |-> Parse(body[i], InfoDefault)] = entries
  BY <1>2
<1>4. out.type \in DOMAIN DetailKind /\ out.type = "NamespaceListing"
  BY DEF DetailKind
<1> HIDE DEF out, body
<1>5. DecodeOutput(EncodeOutput(out)) = FromDetails("NamespaceListing", body)
  BY <1>1, <1>4, DetailedResponse
<1> QED
  BY <1>3, <1>5 DEF FromDetails, out


(* The outputs of the server. *)
IsOutput(out) ==
    \/ \E type \in {"Pong", "Terminated"} : out = [type |-> type]
    \/ \E type \in {"Success", "Error"} : \E message : out = [type |-> type, message |-> message]
    \/ \E path : out = [type |-> "NamespaceChanged", path |-> path]
    \/ \E data, size, truncated :
          out = [type |-> "ObjectContent", data |-> data, total_size |-> size,
                 truncated |-> truncated]
    \/ \E info : IsInfo(info) /\ out = [type |-> "ObjectInfo", metadata |-> info]
    \/ \E size : out = [type |-> "TransferReady", chunk_size |-> size]
    \/ \E offset : out = [type |-> "TransferProgress", offset |-> offset]
    \/ \E chunk : IsChunk(chunk) /\ out = [type |-> "ObjectContentChunk", chunk |-> chunk]
    \/ \E S : \E entries \in Seq(S) :
          (\A info \in S : IsInfo(info)) /\ out = [type |-> "NamespaceListing", entries |-> entries]

(* What the schema does to an output: the size of an ObjectContent is read  *)
(* off its bytes, a chunk size is cut to 32 bits, nothing else changes.     *)
ReadBack(out) ==
    IF out.type = "ObjectContent"
    THEN [out EXCEPT !.total_size = Len(out.data), !.truncated = FALSE]
    ELSE IF out.type = "TransferReady" THEN [out EXCEPT !.chunk_size = ClampU32(@)]
    ELSE out

(***************************************************************************)
(* The output a client decodes is the output the server encoded, with all  *)
(* of its fields, whatever they are; only the size and the truncation mark *)
(* of an ObjectContent and a chunk size beyond u32::MAX do not survive.    *)
(***************************************************************************)
THEOREM OutputRoundTrip ==
    ASSUME NEW out, IsOutput(out)
    PROVE  DecodeOutput(EncodeOutput(out)) = ReadBack(out)
<1>1. CASE \E data, size, truncated :
               out = [type |-> "ObjectContent", data |-> data, total_size |-> size,
                      truncated |-> truncated]
  <2>1. PICK data, size, truncated :
               out = [type |-> "ObjectContent", data |-> data, total_size |-> size,
                      truncated |-> truncated]
    BY <1>1
  <2>2. ReadBack(out) = [type |-> "ObjectContent", data |-> data, total_size |-> Len(data),
                         truncated |-> FALSE]
    BY <2>1 DEF ReadBack
  <2> QED
    BY <2>1, <2>2, PlainOutputRoundTrip
<1>2. CASE \E size : out = [type |-> "TransferReady", chunk_size |-> size]
  BY <1>2, DetailedOutputRoundTrip DEF ReadBack
<1>3. CASE \E S : \E entries \in Seq(S) :
               /\ \A info \in S : IsInfo(info)
               /\ out = [type |-> "NamespaceListing", entries |-> entries]
  BY <1>3, ListingRoundTrip DEF ReadBack
<1>4. CASE \/ \E type \in {"Pong", "Terminated"} : out = [type |-> type]
           \/ \E type \in {"Success", "Error"} : \E message :
                 out = [type |-> type, message |-> message]
           \/ \E path : out = [type |-> "NamespaceChanged", path |-> path]
  BY <1>4, PlainOutputRoundTrip DEF ReadBack
<1>5. CASE \/ \E info : IsInfo(info) /\ out = [type |-> "ObjectInfo", metadata |-> info]
           \/ \E offset : out = [type |-> "TransferProgress", offset |-> offset]
           \/ \E chunk : IsChunk(chunk) /\ out = [type |-> "ObjectContentChunk", chunk |-> chunk]
  BY <1>5, DetailedOutputRoundTrip DEF ReadBack
<1> QED
  BY <1>1, <1>2, <1>3, <1>4, <1>5 DEF IsOutput
=============================================================================
