--------------------------- MODULE RequestHandler ---------------------------
(***************************************************************************)
(* server/src/request_handler.rs: the commands that are answered by one    *)
(* response, as several clients issue them concurrently.  Each session has *)
(* its own current directory, all share the storage.  A handler resolves   *)
(* its path against the session's current directory and makes one storage  *)
(* call, so a command is one step.                                         *)
(***************************************************************************)
EXTENDS MemoryStorage, PathReference

CONSTANTS
    Client,           \* the connected clients
    MaxDirLen         \* bound: components a current directory may have

VARIABLES
    current_dir,      \* per client, the un-normalized current directory
    reply             \* per client, how the last command was answered

handlerVars == <<objects, namespaces, current_dir, reply>>

(* A path argument.  The empty string and "." are the empty relative path.  *)
Arg == [abs : BOOLEAN, comps : RawPath]
Up == [abs |-> FALSE, comps |-> <<ParentDir>>]

(* The response to a command is "Ok", whichever FenrisOutput that command is *)
(* answered with, or FenrisOutput::Error.                                     *)
Outcome == {"None", "Ok", "Error"}

HandlerInit ==
    /\ StorageInit
    /\ current_dir = [c \in Client |-> Root]
    /\ reply = [c \in Client |-> "None"]

Reply(c, outcome) == reply' = [reply EXCEPT ![c] = outcome]

(* process_command: an error of the handler becomes an Error response. *)
Attempt(c, may, effect) ==
    /\ UNCHANGED current_dir
    /\ \/ may /\ effect /\ Reply(c, "Ok")
       \/ ~may /\ UNCHANGED storage /\ Reply(c, "Error")

Answer(c, may) ==
    /\ UNCHANGED <<objects, namespaces, current_dir>>
    /\ Reply(c, IF may THEN "Ok" ELSE "Error")

Resolved(c, arg) == ResolvePath(arg, current_dir[c])

-----------------------------------------------------------------------------
Ping(c) == Answer(c, TRUE)

CreateObject(c, arg) ==
    LET path == Resolved(c, arg) IN Attempt(c, MayPut(path), PutObject(path, << >>))

(* write and upload, when they arrive in one message, differ in wording only. *)
WriteObject(c, arg, data) ==
    LET path == Resolved(c, arg) IN Attempt(c, MayPut(path), PutObject(path, data))

AppendToObject(c, arg, data) ==
    LET path == Resolved(c, arg)
    IN  /\ GrowsWithin(path, data)
        /\ Attempt(c, MayPut(path), AppendObject(path, data))

RemoveObject(c, arg) ==
    LET path == Resolved(c, arg) IN Attempt(c, IsObject(path), DeleteObject(path))

MakeNamespace(c, arg) ==
    LET path == Resolved(c, arg) IN Attempt(c, MayMakeNamespace(path), CreateNamespace(path))

RemoveNamespace(c, arg) ==
    LET path == Resolved(c, arg) IN Attempt(c, MayRemoveNamespace(path), DeleteNamespace(path))

ReadObject(c, arg) == Answer(c, GetObject(Resolved(c, arg)) # {})
ObjectInfo(c, arg) == Answer(c, Metadata(Resolved(c, arg)) # {})
ListEntries(c, arg) == Answer(c, IsNamespace(Resolved(c, arg)))

(* Chunked commands reach the handler only through a Connection. *)
ChunkedOutsideConnection(c) == Answer(c, FALSE)

(* handle_change_namespace: ".." is the lexical parent of the un-normalized *)
(* current directory, everything else is joined as resolve_path joins it.  *)
(* "~" and the empty path mean "/" here: the absolute argument without     *)
(* components.                                                             *)
ChangeTarget(arg, dir) == IF arg = Up THEN LexicalParent(dir) ELSE ResolvePath(arg, dir)

ChangeNamespace(c, arg) ==
    LET target == ChangeTarget(arg, current_dir[c])
    IN  /\ Len(target) <= MaxDirLen
        /\ UNCHANGED storage
        /\ \/ /\ IsNamespace(target)
              /\ current_dir' = [current_dir EXCEPT ![c] = target]
              /\ Reply(c, "Ok")
           \/ /\ ~IsNamespace(target)
              /\ UNCHANGED current_dir
              /\ Reply(c, "Error")

Terminate(c) == Answer(c, TRUE)

HandlerStep(c) ==
    \/ Ping(c) \/ Terminate(c) \/ ChunkedOutsideConnection(c)
    \/ \E arg \in Arg :
          \/ CreateObject(c, arg)
          \/ \E data \in Data : WriteObject(c, arg, data) \/ AppendToObject(c, arg, data)
          \/ RemoveObject(c, arg)
          \/ MakeNamespace(c, arg)
          \/ RemoveNamespace(c, arg)
          \/ ReadObject(c, arg) \/ ObjectInfo(c, arg) \/ ListEntries(c, arg)
          \/ ChangeNamespace(c, arg)

HandlerNext == \E c \in Client : HandlerStep(c)

HandlerSpec == HandlerInit /\ [][HandlerNext]_handlerVars

-----------------------------------------------------------------------------
(***************************************************************************)
(* A session keeps sitting in a removed namespace only until someone       *)
(* creates it anew: while it is gone, nothing can be stored under it, by   *)
(* any client and through any spelling of the path.                        *)
(***************************************************************************)
NothingUnderRemovedDir ==
    \A c \in Client : \A dir \in NormalizePath(current_dir[c]) :
        dir \notin namespaces =>
            /\ \A p \in DOMAIN objects : p = dir \/ ~StartsWith(p, dir)
            /\ \A p \in namespaces : ~StartsWith(p, dir)

(* The directories the sessions are in. *)
Dirs == {current_dir[c] : c \in Client}

(***************************************************************************)
(* MemoryStorage::normalize_path agrees with its loop-free reference on    *)
(* whatever path a session can hand it: any argument joined to any         *)
(* directory the session can be in.                                        *)
(***************************************************************************)
NormalizeMatchesReference ==
    \A dir \in Dirs : \A arg \in RelativeArg : MatchesReference(ResolvePath(arg, dir))

(***************************************************************************)
(* The server keeps current_dir un-normalized and joins arguments to it    *)
(* (resolve_path): however a session came to its directory, an argument    *)
(* means there what it would mean in the normalized directory.             *)
(***************************************************************************)
JoinThenNormalize == \A dir \in Dirs : \A arg \in RelativeArg : JoinsAlike(arg, dir)

(***************************************************************************)
(* "cd .." moves to the parent of the directory the session is in, as      *)
(* test_change_dir in server/src/request_handler.rs has it.                *)
(***************************************************************************)
GoesUp(c) ==
    \A dir \in NormalizePath(current_dir[c]) : \A up \in NormalizePath(current_dir'[c]) :
        up = LexicalParent(dir)

CdUpGoesToParent ==
    [][\A c \in Client :
          ChangeNamespace(c, Up) /\ reply'[c] = "Ok" => GoesUp(c)]_handlerVars
=============================================================================
