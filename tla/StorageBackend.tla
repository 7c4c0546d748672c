--------------------------- MODULE StorageBackend ---------------------------
(***************************************************************************)
(* What the StorageBackend trait promises its callers, as the contract     *)
(* tests of common/src/storage.rs exercise it on every backend: one tree   *)
(* of nodes, each a namespace or an object, in which every operation takes *)
(* effect at once or not at all.  There are no path strings here: a        *)
(* location is a normalized path.                                          *)
(***************************************************************************)
EXTENDS Paths

CONSTANTS
    Location,         \* the normalized paths operations are applied to
    Payload           \* the byte strings written

VARIABLE tree         \* a function from the paths in use to nodes

NamespaceNode == [kind |-> "namespace", data |-> << >>]
ObjectNode(data) == [kind |-> "object", data |-> data]

HasNamespace(p) == p \in DOMAIN tree /\ tree[p].kind = "namespace"
HasObject(p) == p \in DOMAIN tree /\ tree[p].kind = "object"
Vacant(p) == p \notin DOMAIN tree

Set(p, node) ==
    tree' = [q \in DOMAIN tree \cup {p} |-> IF q = p THEN node ELSE tree[q]]
Clear(p) == tree' = [q \in DOMAIN tree \ {p} |-> tree[q]]

Init == tree = [p \in {Root} |-> NamespaceNode]

Put(p, data) ==
    /\ p # Root /\ HasNamespace(Parent(p)) /\ ~HasNamespace(p)
    /\ Set(p, ObjectNode(data))

Extend(p, data) ==
    /\ p # Root /\ HasNamespace(Parent(p)) /\ ~HasNamespace(p)
    /\ Set(p, ObjectNode(IF HasObject(p) THEN tree[p].data \o data ELSE data))

RemoveObject(p) == HasObject(p) /\ Clear(p)

MakeNamespace(p) ==
    /\ p # Root /\ HasNamespace(Parent(p)) /\ Vacant(p)
    /\ Set(p, NamespaceNode)

RemoveNamespace(p) ==
    /\ p # Root /\ HasNamespace(p)
    /\ \A q \in DOMAIN tree \ {Root} : Parent(q) # p
    /\ Clear(p)

Next ==
    \E p \in Location :
        \/ \E data \in Payload : Put(p, data) \/ Extend(p, data)
        \/ RemoveObject(p)
        \/ MakeNamespace(p)
        \/ RemoveNamespace(p)

Spec == Init /\ [][Next]_tree
=============================================================================
