----------------------------- MODULE ClientLink -----------------------------
(***************************************************************************)
(* What the two frontends of the client share: the ConnectionManager as    *)
(* they use it (connect, disconnect, send_command), the ResponseManager    *)
(* that formats an output for them, and the far end of the connection.     *)
(* Single commands go through the codec.  The steps of a transfer or of a  *)
(* chunked read are in ConnectionManager; here such a command is under way *)
(* until it ends one way or another.  The server session is there for its  *)
(* current directory, and it may be lost at any time.                      *)
(***************************************************************************)
EXTENDS Codec

CONSTANTS
    Dir,              \* the directories a session can change to
    Meaning,          \* what the command texts mean, by text
    Entry             \* the metadata of the entries the server may show

Root == << >>

(* The commands that are one exchange: all but exit, transfers and reads. *)
PathRequest == {"ChangeNamespace", "ListNamespace", "ObjectInfo", "CreateObject",
                "DeleteObject", "CreateNamespace", "DeleteNamespace"}
IsSingle(cmd) ==
    \/ cmd = [type |-> "Ping"]
    \/ cmd.type \in PathRequest /\ cmd = [type |-> cmd.type, path |-> cmd.path]

ASSUME LinkAssumption ==
    /\ Root \in Dir
    /\ \A text \in DOMAIN Meaning : Meaning[text].kind = "single" =>
          /\ IsSingle(Meaning[text].command)
          /\ Meaning[text].command.type = "ChangeNamespace" => Meaning[text].command.path \in Dir
    /\ \A e \in Entry : e = [name |-> e.name, size |-> e.size, is_namespace |-> e.is_namespace]

VARIABLES
    channel,          \* None, an open session, or one whose server end is gone
    exchange,         \* the command under way: where it is, and its message
    server_dir,       \* the session's current directory on the server
    built, heard      \* observer: the command under way, as built and as the server decoded it

linkVars == <<channel, exchange, server_dir, built, heard>>

Idle == [at |-> "idle", msg |-> NoDetails]
IsIdle == exchange.at = "idle"
NoCommand == [type |-> "None"]

LinkInit ==
    /\ channel = "none" /\ exchange = Idle /\ server_dir = Root
    /\ built = NoCommand /\ heard = NoCommand

(* connect succeeded: a new session starts in the root. *)
OpenChannel ==
    /\ channel' = "live" /\ server_dir' = Root
    /\ UNCHANGED <<exchange, built, heard>>

CloseChannel == channel' = "none" /\ UNCHANGED <<exchange, server_dir, built, heard>>

-----------------------------------------------------------------------------
(* build_request: the plan of a text. *)
Unknown == [kind |-> "unknown"]
BuildRequest(text) == IF text \in DOMAIN Meaning THEN Meaning[text] ELSE Unknown

(* execute_plan: the first request leaves. *)
SendPlan(plan) ==
    \/ /\ plan.kind = "single"
       /\ exchange' = [at |-> "server", msg |-> EncodeCommand(plan.command)]
       /\ built' = plan.command
       /\ UNCHANGED <<channel, server_dir, heard>>
    \/ /\ plan.kind = "transfer"
       /\ exchange' = [Idle EXCEPT !.at = "transfer"]
       /\ UNCHANGED <<channel, server_dir, built, heard>>

(* What a session answers: see RequestHandler for when it is an Error. *)
Text == <<"text">>
Failure == [type |-> "Error", message |-> Text]

Outputs(cmd) ==
    CASE cmd.type = "Ping" -> {[type |-> "Pong"]}
      [] cmd.type = "ChangeNamespace" -> {[type |-> "NamespaceChanged", path |-> cmd.path], Failure}
      [] cmd.type = "ListNamespace" ->
            {[type |-> "NamespaceListing", entries |-> entries] :
                entries \in {<< >>} \cup {<<e>> : e \in Entry}} \cup {Failure}
      [] cmd.type = "ObjectInfo" ->
            {[type |-> "ObjectInfo", metadata |-> e] : e \in Entry} \cup {Failure}
      [] cmd.type \in {"CreateObject", "DeleteObject", "CreateNamespace", "DeleteNamespace"} ->
            {[type |-> "Success", message |-> Text], Failure}

ServerAnswers ==
    /\ channel = "live" /\ exchange.at = "server"
    /\ \E cmd \in {DecodeCommand(exchange.msg)} : \E output \in Outputs(cmd) :
          /\ heard' = cmd
          /\ exchange' = [at |-> "client", msg |-> EncodeOutput(output)]
          /\ server_dir' = IF output.type = "NamespaceChanged" THEN output.path ELSE server_dir
    /\ UNCHANGED <<channel, built>>

(* A transfer or chunked read ends with an output, or with an error of the  *)
(* client (refused by the server, or a local file that cannot be read).     *)
TransferOutput == {[type |-> "Success", message |-> << >>], Failure,
                   [type |-> "ObjectContent", data |-> Text, total_size |-> 1, truncated |-> FALSE]}

TransferEnds ==
    /\ channel = "live" /\ exchange.at = "transfer"
    /\ \/ \E output \in TransferOutput :
             exchange' = [at |-> "done", msg |-> output]
       \/ \E error \in {"InvalidRequest", "FileOperationError"} :
             exchange' = [at |-> "failed", msg |-> error]
    /\ UNCHANGED <<channel, server_dir, built, heard>>

(* The server goes away or drops the session; an answer on its way may      *)
(* still arrive.                                                            *)
LoseSession ==
    /\ channel = "live"
    /\ channel' = "lost"
    /\ \/ UNCHANGED exchange
       \/ exchange.at = "client" /\ exchange' = [exchange EXCEPT !.at = "server"]
    /\ UNCHANGED <<server_dir, built, heard>>

-----------------------------------------------------------------------------
(* format_response.  Of a formatted response, whether it is a success, how  *)
(* many lines of details it has and the directory it carries, if any.       *)
LinesOf(output) ==
    CASE output.type = "ObjectInfo" -> 5
      [] output.type = "NamespaceListing" ->
            IF output.entries = << >> THEN 0 ELSE 4 + Len(output.entries)
      [] output.type = "ObjectContent" -> Len(output.data)
      [] OTHER -> 0

FormatResponse(output) ==
    [ok |-> TRUE, success |-> output.type # "Error", lines |-> LinesOf(output),
     current_dir |-> IF output.type = "NamespaceChanged" THEN {output.path} ELSE {}]

Err(error) == [ok |-> FALSE, error |-> error]

(* What send_command can return now. *)
ResultsUnlessLost ==   \* mutant: a receive does not notice that the server is gone
    CASE exchange.at = "client" -> {FormatResponse(DecodeOutput(exchange.msg))}
      [] exchange.at = "done" -> {FormatResponse(exchange.msg)}
      [] exchange.at = "failed" -> {Err(exchange.msg)}
      [] OTHER -> {}

Results ==
    CASE exchange.at = "client" -> {FormatResponse(DecodeOutput(exchange.msg))}
      [] exchange.at = "done" -> {FormatResponse(exchange.msg)}
      [] exchange.at = "failed" -> {Err(exchange.msg)}
      [] exchange.at \in {"server", "transfer"} /\ channel = "lost" -> {Err("NetworkError")}
      [] OTHER -> {}

FinishExchange ==
    /\ exchange' = Idle /\ built' = NoCommand /\ heard' = NoCommand
    /\ UNCHANGED <<channel, server_dir>>

(* What became of the command whose answer is there. *)
Succeeded ==
    CASE exchange.at = "client" -> DecodeOutput(exchange.msg).type # "Error"
      [] exchange.at = "done" -> exchange.msg.type # "Error"
      [] OTHER -> FALSE

ServerStep == ServerAnswers \/ TransferEnds

(***************************************************************************)
(* What the server decodes is the command the client built, and what the   *)
(* client decodes is an output the server can give to it: with the fields  *)
(* that Protobuf leaves out, empty paths, the first value of each enum and *)
(* entries of size 0 included.                                             *)
(***************************************************************************)
HeardAsSaid ==
    exchange.at = "client" =>
        heard = built /\ DecodeOutput(exchange.msg) \in Outputs(built)
=============================================================================
