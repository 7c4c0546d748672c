--------------------------- MODULE TokioFsStorage ---------------------------
(***************************************************************************)
(* common/src/file_ops.rs and the backend of common/src/storage.rs built   *)
(* on it, the default of the server binary: every storage call is a path   *)
(* resolution followed by several file-system calls, and the calls of      *)
(* other sessions run in between.  The file system below the base          *)
(* directory is a set of directories and a map from file paths to inodes;  *)
(* an open handle keeps its inode when the path is removed or reused.  A   *)
(* path may lead out of the base directory and back: the rest of the       *)
(* machine is a fixed set of directories.  There are no symbolic links: no *)
(* operation makes one, and base_dir is canonicalized.                     *)
(***************************************************************************)
EXTENDS StorageInputs

CONSTANTS
    Base,             \* base_dir, from the root of the machine's file system
    Outside,          \* the machine's directories that are not below it
    PutData,          \* the payloads of put_object
    AppendData,       \* the payloads of append_object
    ChunkSize,        \* the max_len of get_object_chunk
    Caller,           \* the sessions that use the storage
    MaxCalls          \* bound: storage calls made by all callers together

ASSUME FsAssumption ==
    /\ RawPath \subseteq Seq(Component)
    /\ PutData \subseteq Seq(Byte) /\ AppendData \subseteq Seq(Byte)
    /\ ChunkSize \in Nat \ {0} /\ MaxCalls \in Nat

ASSUME BaseAssumption ==
    /\ Base \in Path \ {Root} /\ Outside \subseteq Path
    /\ {Root, Parent(Base)} \subseteq Outside
    /\ \A p \in Outside : LexicalParent(p) \in Outside /\ ~StartsWith(p, Base)

VARIABLES
    dirs,             \* the directories; Root is the base directory
    files,            \* path -> inode
    content,          \* inode -> bytes; inodes are numbered from 1
    pc,               \* per caller, the file-system call it makes next
    call,             \* per caller, the storage call in progress
    outcome,          \* per caller, how its last call returned
    calls,            \* calls made so far
    intact,           \* observer: per caller, whether the bytes that its last append or
                      \* read is about were neither truncated nor overwritten since
    named             \* observer: the paths that calls were to store something at

fs == <<dirs, files, content>>
fsVars == <<dirs, files, content, pc, call, outcome, calls, intact, named>>

(* start: where an append put its bytes; got: what a chunked read has so far. *)
NewCall(op, path, data, full) ==
    [op |-> op, path |-> path, data |-> data, full |-> full,
     inode |-> 0, start |-> 0, size |-> 0, got |-> << >>]
NoCall == NewCall("none", Root, << >>, Root)

FsInit ==
    /\ dirs = {Root} /\ files = [p \in {} |-> 0] /\ content = << >>
    /\ pc = [c \in Caller |-> "idle"] /\ call = [c \in Caller |-> NoCall]
    /\ outcome = [c \in Caller |-> "none"] /\ calls = 0
    /\ intact = [c \in Caller |-> FALSE] /\ named = {}

-----------------------------------------------------------------------------
(* A step along a path from the root of the machine, on the text alone; ".." *)
(* stays at that root.                                                       *)
LexicalStep(at, component) ==
    CASE component = CurDir    -> at
      [] component = ParentDir -> {LexicalParent(p) : p \in at}
      [] OTHER                 -> {Append(p, component) : p \in at}
Lexically(path) == FoldLeft(LexicalStep, {Root}, path)

(* canonicalize: every step starts in a directory and leads to something     *)
(* that exists; {} is its error.                                             *)
InUse == dirs \cup DOMAIN files
InBase(paths) == {Base \o p : p \in paths}
Walk(at, component) ==
    LexicalStep(at \cap (Outside \cup InBase(dirs)), component) \cap (Outside \cup InBase(InUse))
Canonicalize(path) == FoldLeft(Walk, {Root}, path)

(* Path::file_name, as its place in the path: the last component other than  *)
(* ".", unless that is "..".  Path::parent is what stands before it.         *)
FileNameAt(path) ==
    {i \in 1..Len(path) : path[i] \in Name /\ \A j \in (i + 1)..Len(path) : path[j] = CurDir}
NewName(path) ==
    UNION {{Append(p, path[i]) : p \in Canonicalize(SubSeq(path, 1, i - 1))} : i \in FileNameAt(path)}

(* An existing path, or a new name in an existing place. *)
FindByName(path) ==   \* mutant: of a path that does not exist only the names are kept
    IF Canonicalize(path) # {} THEN Canonicalize(path)
    ELSE {SelectSeq(path, LAMBDA x : x \in Name)}

Find(path) ==
    LET found == Canonicalize(path)
    IN  IF found # {} THEN found ELSE NewName(path)

(* resolve_path: where the search ends must be in the base directory, by     *)
(* whatever way it got there.  The result is given relative to it.           *)
BelowBase(places) ==
    {SubSeq(p, Len(Base) + 1, Len(p)) : p \in {q \in places : StartsWith(q, Base)}}
Resolve(path) == BelowBase(Find(Base \o path))

-----------------------------------------------------------------------------
Goto(c, label) == pc' = [pc EXCEPT ![c] = label]
Return(c, how) == Goto(c, "idle") /\ outcome' = [outcome EXCEPT ![c] = how]

FirstStep(op) ==
    CASE op = "put" -> "parents" [] op = "append" -> "open" [] op = "read" -> "openread"
      [] op = "delete" -> "unlink" [] op = "mkdir" -> "parents" [] op = "rmdir" -> "rmdir"

PayloadOf(op) == CASE op = "put" -> PutData [] op = "append" -> AppendData [] OTHER -> {<< >>}
Op == {"put", "append", "read", "delete", "mkdir", "rmdir"}

Stores == {"put", "append", "mkdir"}

(* A storage call resolves its path first. *)
Start(c, op, path, data) ==
    /\ pc[c] = "idle" /\ calls < MaxCalls
    /\ calls' = calls + 1
    /\ intact' = [intact EXCEPT ![c] = FALSE]
    /\ UNCHANGED fs
    /\ \/ \E full \in Resolve(path) :
             /\ call' = [call EXCEPT ![c] = NewCall(op, path, data, full)]
             /\ Goto(c, FirstStep(op))
             /\ named' = named \cup {p \in {full} : op \in Stores}
             /\ UNCHANGED outcome
       \/ /\ Resolve(path) = {}
          /\ call' = [call EXCEPT ![c] = NewCall(op, path, << >>, Root)]
          /\ Return(c, "err")
          /\ UNCHANGED named

(* Any file-system call can fail, and does when its guard below is false. *)
CallFails(c) ==
    /\ pc[c] # "idle"
    /\ Return(c, "err")
    /\ UNCHANGED <<dirs, files, content, call, calls, intact, named>>

(* create_dir_all, for put the parent, for mkdir the path itself: one        *)
(* directory at a time, from the outermost missing one.                      *)
Depth(c) == IF call[c].op = "mkdir" THEN Len(call[c].full) ELSE Len(call[c].full) - 1
Ancestor(c, n) == SubSeq(call[c].full, 1, n)
Missing(c) == {n \in 0..Depth(c) : Ancestor(c, n) \notin dirs}

CreateNextDir(c) ==
    /\ pc[c] = "parents"
    /\ \E n \in Missing(c) :
          /\ \A m \in Missing(c) : n <= m
          /\ Ancestor(c, n) \notin DOMAIN files
          /\ dirs' = dirs \cup {Ancestor(c, n)}
    /\ UNCHANGED <<files, content, pc, call, outcome, calls, intact, named>>

DirsExist(c) ==
    /\ pc[c] = "parents" /\ Missing(c) = {}
    /\ IF call[c].op = "mkdir" THEN Return(c, "ok") ELSE Goto(c, "create") /\ UNCHANGED outcome
    /\ UNCHANGED <<dirs, files, content, call, calls, intact, named>>

(* Opening for writing: the inode of the path, or a new empty one. *)
Openable(p) == p \notin dirs /\ (p = Root \/ Parent(p) \in dirs)
Inode(p) == IF p \in DOMAIN files THEN files[p] ELSE Len(content) + 1
Link(p) == files' = [q \in DOMAIN files \cup {p} |-> IF q = p THEN Inode(p) ELSE files[q]]
Bytes(inode) == IF inode \in DOMAIN content THEN content[inode] ELSE << >>
Store(inode, bytes) ==
    content' = [i \in 1..(IF inode > Len(content) THEN inode ELSE Len(content)) |->
                  IF i = inode THEN bytes ELSE content[i]]
Disturb(c, inode, own) ==
    intact' = [d \in Caller |-> IF d = c THEN own ELSE intact[d] /\ call[d].inode # inode]

(* File::create truncates; the first write then goes to position 0. *)
CreateFile(c) ==
    LET p == call[c].full
    IN  /\ pc[c] = "create" /\ Openable(p)
        /\ Link(p) /\ Store(Inode(p), << >>) /\ Disturb(c, Inode(p), FALSE)
        /\ call' = [call EXCEPT ![c].inode = Inode(p)]
        /\ Goto(c, "write")
        /\ UNCHANGED <<dirs, outcome, calls, named>>

(* The bytes old after new is written over them from position 0. *)
Overwrite(old, new) == new \o SubSeq(old, Len(new) + 1, Len(old))

(* write_all stores all of the data, or fails after some of it. *)
AfterWrite(c, n) ==
    IF n = Len(call[c].data) THEN Goto(c, "sync") /\ UNCHANGED outcome ELSE Return(c, "err")

WriteFile(c) ==
    LET i == call[c].inode
    IN  /\ pc[c] = "write"
        /\ \E n \in 0..Len(call[c].data) :
              /\ Store(i, Overwrite(Bytes(i), SubSeq(call[c].data, 1, n)))
              /\ AfterWrite(c, n)
        /\ IF call[c].data = << >> THEN UNCHANGED intact ELSE Disturb(c, i, FALSE)
        /\ UNCHANGED <<dirs, files, call, calls, named>>

(* append_file opens with O_APPEND, so a write goes to wherever the end is. *)
OpenAppend(c) ==
    LET p == call[c].full
    IN  /\ pc[c] = "open" /\ Openable(p)
        /\ Link(p) /\ Store(Inode(p), Bytes(Inode(p)))
        /\ call' = [call EXCEPT ![c].inode = Inode(p), ![c].start = Len(Bytes(Inode(p)))]
        /\ Goto(c, "append")
        /\ UNCHANGED <<dirs, outcome, calls, intact, named>>

WritePositionAtOpen(c) == call[c].start          \* mutant: position taken when opened
WritePosition(c) == Len(Bytes(call[c].inode))

AppendFile(c) ==
    LET i == call[c].inode
        at == WritePosition(c)
        old == Bytes(i)
    IN  /\ pc[c] = "append"
        /\ \E n \in 0..Len(call[c].data) :
              /\ Store(i, SubSeq(old, 1, at)
                          \o Overwrite(SubSeq(old, at + 1, Len(old)), SubSeq(call[c].data, 1, n)))
              /\ AfterWrite(c, n)
              /\ intact' = [intact EXCEPT ![c] = n = Len(call[c].data)]
        /\ call' = [call EXCEPT ![c].start = at]
        /\ UNCHANGED <<dirs, files, calls, named>>

Sync(c) ==
    /\ pc[c] = "sync"
    /\ Return(c, "ok")
    /\ UNCHANGED <<dirs, files, content, call, calls, intact, named>>

DeleteFile(c) ==
    LET p == call[c].full
    IN  /\ pc[c] = "unlink" /\ p \in DOMAIN files
        /\ files' = [q \in DOMAIN files \ {p} |-> files[q]]
        /\ Disturb(c, files[p], FALSE)
        /\ Return(c, "ok")
        /\ UNCHANGED <<dirs, content, call, calls, named>>

DeleteDirAll(c) ==   \* mutant: remove_dir_all instead of remove_dir
    LET kept == {q \in InUse : ~StartsWith(q, call[c].full)}
    IN  /\ pc[c] = "rmdir" /\ call[c].full \in dirs
        /\ dirs' = dirs \cap kept /\ files' = [q \in DOMAIN files \cap kept |-> files[q]]
        /\ Return(c, "ok")
        /\ UNCHANGED <<content, call, calls, intact, named>>

DeleteDir(c) ==
    LET p == call[c].full
    IN  /\ pc[c] = "rmdir" /\ p \in dirs
        /\ \A q \in InUse \ {Root} : Parent(q) # p
        /\ dirs' = dirs \ {p}
        /\ Return(c, "ok")
        /\ UNCHANGED <<files, content, call, calls, intact, named>>

-----------------------------------------------------------------------------
(* read_file_chunk: open, take the size, read; as the loop of               *)
(* Connection::send_object_content_chunks calls it, one chunk after the     *)
(* other, each with a resolution of its own.                                *)
Offset(c) == Len(call[c].got)

OpenRead(c) ==
    LET p == call[c].full
    IN  /\ pc[c] = "openread" /\ p \in DOMAIN files
        /\ intact' = [intact EXCEPT ![c] = Offset(c) = 0 \/ (@ /\ call[c].inode = files[p])]
        /\ call' = [call EXCEPT ![c].inode = files[p]]
        /\ Goto(c, "size")
        /\ UNCHANGED <<dirs, files, content, outcome, calls, named>>

TakeSize(c) ==
    LET size == Len(Bytes(call[c].inode))
    IN  /\ pc[c] = "size"
        /\ call' = [call EXCEPT ![c].size = size]
        /\ IF Offset(c) >= size THEN Return(c, "ok") ELSE Goto(c, "read") /\ UNCHANGED outcome
        /\ UNCHANGED <<dirs, files, content, calls, intact, named>>

Lesser(m, n) == IF m < n THEN m ELSE n

(* How many bytes one read returns: some, or none at the end of the file. *)
ReadLength(c) ==
    LET asked == Lesser(call[c].size - Offset(c), ChunkSize)
        there == Len(Bytes(call[c].inode)) - Offset(c)
    IN  IF there <= 0 THEN {0} ELSE 1..Lesser(asked, there)

IsLastAsAsked(c, n) ==   \* mutant: counts the bytes asked for, not the bytes read
    Offset(c) + Lesser(call[c].size - Offset(c), ChunkSize) >= call[c].size
IsLast(c, n) == Offset(c) + n >= call[c].size

ReadChunk(c) ==
    /\ pc[c] = "read"
    /\ \E n \in ReadLength(c) :
          /\ call' = [call EXCEPT ![c].got =
                        @ \o SubSeq(Bytes(call[c].inode), Offset(c) + 1, Offset(c) + n)]
          /\ IF IsLast(c, n) THEN Return(c, "ok") ELSE Goto(c, "resolve") /\ UNCHANGED outcome
    /\ UNCHANGED <<dirs, files, content, calls, intact, named>>

ResolveAgain(c) ==
    /\ pc[c] = "resolve"
    /\ \E full \in Resolve(call[c].path) : call' = [call EXCEPT ![c].full = full]
    /\ Goto(c, "openread")
    /\ UNCHANGED <<dirs, files, content, outcome, calls, intact, named>>

-----------------------------------------------------------------------------
FsStep(c) ==
    \/ \E op \in Op : \E path \in RawPath : \E data \in PayloadOf(op) : Start(c, op, path, data)
    \/ CallFails(c)
    \/ CreateNextDir(c) \/ DirsExist(c) \/ CreateFile(c) \/ WriteFile(c)
    \/ OpenAppend(c) \/ AppendFile(c) \/ Sync(c)
    \/ DeleteFile(c) \/ DeleteDir(c)
    \/ OpenRead(c) \/ TakeSize(c) \/ ReadChunk(c) \/ ResolveAgain(c)

FsNext == \E c \in Caller : FsStep(c)

FsSpec == FsInit /\ [][FsNext]_fsVars

-----------------------------------------------------------------------------
(* The file system is a tree below the base directory. *)
FsTypeOK ==
    /\ dirs \subseteq Path /\ DOMAIN files \subseteq Path
    /\ dirs \cap DOMAIN files = {}
    /\ \A p \in InUse \ {Root} : Parent(p) \in dirs
    /\ \A p \in DOMAIN files : files[p] \in DOMAIN content
    /\ content \in Seq(Seq(Byte))

(***************************************************************************)
(* The two backends agree on what a path means: whatever resolve_path      *)
(* finds by walking the directories that exist now is the path that        *)
(* MemoryStorage::normalize_path computes from the text alone.  The one    *)
(* exception is a path that leaves the base directory and comes back by    *)
(* its name: normalize_path refuses it and resolve_path, which checks only *)
(* where the walk ends, does not.                                          *)
(***************************************************************************)
ComesBack(path) == \E i \in 1..Len(path) : path[i] = Last(Base)
ResolveAgrees ==
    \A path \in RawPath :
        LET resolved == Resolve(path)
        IN  \/ resolved = {} \/ resolved = NormalizePath(path)
            \/ NormalizePath(path) = {} /\ ComesBack(path)

(***************************************************************************)
(* A directory is only ever at a path that some call was to store          *)
(* something at: create_dir_all, which makes whatever is missing above a   *)
(* path, makes again what was removed since the path was resolved, and     *)
(* never a parent that nobody asked for.                                   *)
(***************************************************************************)
DirsNamed == dirs \subseteq {Root} \cup named

(***************************************************************************)
(* The bytes of an acknowledged append stay in the file in one piece,      *)
(* whatever other appends run at the same time, until someone truncates,   *)
(* overwrites or deletes the file.                                         *)
(***************************************************************************)
AckedAppendStays ==
    \A c \in Caller :
        call[c].op = "append" /\ outcome[c] = "ok" /\ pc[c] = "idle" /\ intact[c] =>
            SubSeq(Bytes(call[c].inode), call[c].start + 1,
                   call[c].start + Len(call[c].data)) = call[c].data

(***************************************************************************)
(* A chunked read of a file that is only appended to meanwhile has read,   *)
(* at any time, the file's first bytes, and when it is done all the bytes  *)
(* it announced as the total size, short reads or not.                     *)
(***************************************************************************)
ReadCollects ==
    \A c \in Caller :
        call[c].op = "read" /\ intact[c] =>
            /\ IsPrefix(call[c].got, Bytes(call[c].inode))
            /\ pc[c] = "idle" /\ outcome[c] = "ok" => Len(call[c].got) = call[c].size

-----------------------------------------------------------------------------
(* The tree of the trait's contract: what the file system shows. *)
FsTree == [p \in InUse |->
             IF p \in dirs THEN [kind |-> "namespace", data |-> << >>]
                           ELSE [kind |-> "object", data |-> content[files[p]]]]

(* create_dir_all works on the ancestors too, write_all may stop early. *)
AllPrefixes(seqs) == UNION {Prefixes(s) : s \in seqs}
Target == UNION {BelowBase(Lexically(Base \o path)) : path \in RawPath}
Places == AllPrefixes(Target)
Pieces == AllPrefixes(PutData \cup AppendData)

FsContract == INSTANCE StorageBackend
    WITH tree <- FsTree,
         Location <- Places,
         Payload <- Pieces

(***************************************************************************)
(* As long as the base directory is there, every file-system call of every *)
(* session is one operation of the trait's contract or changes nothing     *)
(* that it shows: an operation is not atomic, but it is made of operations *)
(* that are.                                                               *)
(***************************************************************************)
FsImplementsContract ==
    FsContract!Init /\ [][(Root \in dirs /\ Root \in dirs') => FsContract!Next]_FsTree

(***************************************************************************)
(* "Cannot delete root namespace", says the trait's other implementation   *)
(* (common/src/storage.rs): the root of the store stays.                   *)
(***************************************************************************)
BaseDirStays == Root \in dirs
=============================================================================
