--------------------------- MODULE MemoryStorage ---------------------------
(***************************************************************************)
(* common/src/storage.rs, the in-memory StorageBackend: a map of objects   *)
(* and a set of namespaces behind one mutex.  Every operation takes the    *)
(* mutex once, so every operation is one step.  An operation that returns  *)
(* an error leaves the state alone; the guard of an operation is the       *)
(* condition under which it returns Ok, named MayXxx so that callers can   *)
(* model the error case by its negation.                                   *)
(***************************************************************************)
EXTENDS StorageInputs

CONSTANTS
    Data,             \* the payloads callers pass in
    MaxObjectLen      \* bound: no append grows an object beyond this

ASSUME StorageAssumption ==
    /\ RawPath \subseteq Seq(Component)
    /\ Data \subseteq Seq(Byte)
    /\ MaxObjectLen \in Nat

VARIABLES objects, namespaces

storage == <<objects, namespaces>>

StorageInit ==
    /\ objects = [p \in {} |-> << >>]
    /\ namespaces = {Root}

-----------------------------------------------------------------------------
(* Reading operations. *)

IsObject(path) == \E p \in NormalizePath(path) : p \in DOMAIN objects
IsNamespace(path) == \E p \in NormalizePath(path) : p \in namespaces
Exists(path) == IsObject(path) \/ IsNamespace(path)

(* get_object: the set of its Ok values, {} when there is no such object. *)
GetObject(path) == {objects[p] : p \in NormalizePath(path) \cap DOMAIN objects}

(* metadata: an object answers before a namespace of the same path would. *)
FileName(p) == IF p = Root THEN "" ELSE Last(p)
MetadataFor(p, size, isNamespace) ==
    [name |-> FileName(p), size |-> size, is_namespace |-> isNamespace]

Metadata(path) ==
    {IF p \in DOMAIN objects THEN MetadataFor(p, Len(objects[p]), FALSE)
                             ELSE MetadataFor(p, 0, TRUE) :
        p \in {q \in NormalizePath(path) : q \in DOMAIN objects \cup namespaces}}

(* list_namespace: the entries directly below the namespace p.  The order,  *)
(* by name, is left out.                                                    *)
ListNamespace(p) ==
    {MetadataFor(q, 0, TRUE) : q \in {n \in namespaces \ {Root} : Parent(n) = p}}
    \cup {MetadataFor(q, Len(objects[q]), FALSE) :
             q \in {o \in DOMAIN objects : o # Root /\ Parent(o) = p}}

(* get_object_chunk for max_len > 0: the slice of data at offset. *)
ChunkAt(data, offset, maxLen) ==
    LET total == Len(data)
        end == IF offset + maxLen < total THEN offset + maxLen ELSE total
    IN  IF offset >= total
        THEN [offset |-> offset, data |-> << >>, is_last |-> TRUE, total_size |-> total]
        ELSE [offset |-> offset, data |-> SubSeq(data, offset + 1, end),
              is_last |-> end = total, total_size |-> total]

GetObjectChunk(path, offset, maxLen) ==
    {ChunkAt(data, offset, maxLen) : data \in GetObject(path)}

-----------------------------------------------------------------------------
(* Writing operations. *)

(* The checks put_object and append_object share. *)
MayWriteSkippingParent(p) == p # Root /\ p \notin namespaces   \* mutant
MayWrite(p) ==
    /\ p # Root
    /\ p \notin namespaces
    /\ Parent(p) \in namespaces

Insert(p, data) ==
    objects' = [q \in DOMAIN objects \cup {p} |-> IF q = p THEN data ELSE objects[q]]

PutObject(path, data) ==
    \E p \in NormalizePath(path) :
        /\ MayWrite(p)
        /\ Insert(p, data)
        /\ UNCHANGED namespaces

MayPut(path) == \E p \in NormalizePath(path) : MayWrite(p)

ContentOrEmpty(p) == IF p \in DOMAIN objects THEN objects[p] ELSE << >>

AppendObject(path, data) ==
    \E p \in NormalizePath(path) :
        /\ MayWrite(p)
        /\ Insert(p, ContentOrEmpty(p) \o data)
        /\ UNCHANGED namespaces

DeleteObject(path) ==
    \E p \in NormalizePath(path) :
        /\ p \in DOMAIN objects
        /\ objects' = [q \in DOMAIN objects \ {p} |-> objects[q]]
        /\ UNCHANGED namespaces

MayCreateNamespace(p) ==
    /\ p \notin DOMAIN objects
    /\ p = Root \/ Parent(p) \in namespaces

CreateNamespace(path) ==
    \E p \in NormalizePath(path) :
        /\ MayCreateNamespace(p)
        /\ namespaces' = namespaces \cup {p}
        /\ UNCHANGED objects

MayMakeNamespace(path) == \E p \in NormalizePath(path) : MayCreateNamespace(p)

HasChildrenNamespacesOnly(p) == \E n \in namespaces : n # p /\ StartsWith(n, p)   \* mutant
HasChildren(p) ==
    \/ \E n \in namespaces : n # p /\ StartsWith(n, p)
    \/ \E o \in DOMAIN objects : StartsWith(o, p)

MayDeleteNamespace(p) ==
    /\ p # Root
    /\ p \in namespaces
    /\ ~HasChildren(p)

DeleteNamespace(path) ==
    \E p \in NormalizePath(path) :
        /\ MayDeleteNamespace(p)
        /\ namespaces' = namespaces \ {p}
        /\ UNCHANGED objects

MayRemoveNamespace(path) == \E p \in NormalizePath(path) : MayDeleteNamespace(p)

-----------------------------------------------------------------------------
(* The storage on its own, driven by any caller. *)

GrowsWithin(path, data) ==
    \A p \in NormalizePath(path) : Len(ContentOrEmpty(p)) + Len(data) <= MaxObjectLen

StorageNext ==
    \E path \in RawPath :
        \/ \E data \in Data : PutObject(path, data)
        \/ \E data \in Data : GrowsWithin(path, data) /\ AppendObject(path, data)
        \/ DeleteObject(path)
        \/ CreateNamespace(path)
        \/ DeleteNamespace(path)

StorageSpec == StorageInit /\ [][StorageNext]_storage

-----------------------------------------------------------------------------
(***************************************************************************)
(* The maps hold normalized paths and byte strings, and "/" is a namespace *)
(* forever.                                                                *)
(***************************************************************************)
StorageTypeOK ==
    /\ DOMAIN objects \subseteq Path
    /\ objects \in [DOMAIN objects -> Seq(Byte)]
    /\ namespaces \subseteq Path
    /\ Root \in namespaces

(***************************************************************************)
(* No orphans: whatever sequence of put, append, mkdir and rmdir was run,  *)
(* every stored object and every namespace sits in an existing namespace,  *)
(* so all of it can be reached from "/" by listing.                        *)
(***************************************************************************)
NoOrphans ==
    /\ \A p \in DOMAIN objects : p # Root /\ Parent(p) \in namespaces
    /\ \A p \in namespaces \ {Root} : Parent(p) \in namespaces

(***************************************************************************)
(* No path is an object and a namespace at once, so metadata, is_object    *)
(* and is_namespace never disagree about it.                               *)
(***************************************************************************)
KindsDisjoint == DOMAIN objects \cap namespaces = {}

(***************************************************************************)
(* delete_namespace refuses a namespace by a prefix test over the whole    *)
(* store; list_namespace shows direct children.  The two agree: rmdir      *)
(* says "Namespace is not empty" exactly when ls shows something.          *)
(***************************************************************************)
EmptyMeansListedEmpty ==
    \A p \in namespaces : HasChildren(p) <=> ListNamespace(p) # {}

(***************************************************************************)
(* The two maps are one tree, whatever sequence of put, append, mkdir, rm  *)
(* and rmdir was run and however its paths were spelled.  Inductive: none  *)
(* of the three facts is preserved without the others.                     *)
(***************************************************************************)
TreeInv == StorageTypeOK /\ NoOrphans /\ KindsDisjoint

(* Why rmdir's prefix test is right: with a path, all the namespaces above  *)
(* it are there, not just the one it sits in.                               *)
AncestorsExist ==
    \A p \in DOMAIN objects \cup namespaces : \A n \in 0..(Len(p) - 1) :
        SubSeq(p, 1, n) \in namespaces

-----------------------------------------------------------------------------
(* The two maps seen as the one tree of the trait's contract. *)
Node(p) ==
    IF p \in namespaces THEN [kind |-> "namespace", data |-> << >>]
                        ELSE [kind |-> "object", data |-> objects[p]]
Tree == [p \in DOMAIN objects \cup namespaces |-> Node(p)]

Contract == INSTANCE StorageBackend
    WITH tree <- Tree,
         Location <- UNION {NormalizePath(path) : path \in RawPath},
         Payload <- Data

(***************************************************************************)
(* MemoryStorage implements the trait's contract: each operation of the    *)
(* pair of maps is one operation of the tree, or changes nothing.          *)
(***************************************************************************)
ImplementsContract == Contract!Spec
=============================================================================
