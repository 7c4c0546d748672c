------------------------ MODULE RequestHandlerProofs ------------------------
(***************************************************************************)
(* For any number of concurrent clients and any paths: the shared tree     *)
(* stays intact, nothing is stored under a directory that was removed, and *)
(* normalize_path does what its loop-free reference says.                  *)
(***************************************************************************)
EXTENDS RequestHandler, MemoryStorageProofs

(* The tree together with the directories: cd is checked against the        *)
(* storage, so what it stores resolves, now and after any other command.    *)
DirTypeOK == current_dir \in [Client -> Seq(Component)]
CurrentDirInsideRoot ==
    \A c \in Client : current_dir[c] = Root \/ NormalizePath(current_dir[c]) # {}

HandlerInv == TreeInv /\ AncestorsExist /\ DirTypeOK /\ CurrentDirInsideRoot

(* A command that leaves the directories alone and the tree intact. *)
LEMMA DirsUntouched ==
    ASSUME HandlerInv, TreeInv', AncestorsExist', UNCHANGED current_dir
    PROVE  HandlerInv'
BY DEF HandlerInv, DirTypeOK, CurrentDirInsideRoot

LEMMA StorageUntouched ==
    ASSUME TreeInv, AncestorsExist, UNCHANGED storage
    PROVE  TreeInv' /\ AncestorsExist'
BY DEF storage, TreeInv, StorageTypeOK, NoOrphans, KindsDisjoint, AncestorsExist

(* A command that makes one storage call, successful or not. *)
LEMMA AttemptPreserves ==
    ASSUME HandlerInv, NEW c, NEW CONSTANT path, NEW CONSTANT data \in Seq(Byte),
           UNCHANGED current_dir,
           \/ UNCHANGED storage
           \/ PutObject(path, data)
           \/ AppendObject(path, data)
           \/ DeleteObject(path)
           \/ CreateNamespace(path)
           \/ DeleteNamespace(path)
    PROVE  HandlerInv'
<1>0. TreeInv /\ AncestorsExist
  BY DEF HandlerInv
<1> SUFFICES TreeInv'
  BY <1>0, DirsUntouched, OperationKeepsAncestors
<1>1. CASE UNCHANGED storage
  BY <1>0, <1>1, StorageUntouched
<1>2. CASE PutObject(path, data)
  BY <1>0, <1>2, PutObjectPreservesTree
<1>3. CASE AppendObject(path, data)
  BY <1>0, <1>3, AppendObjectPreservesTree
<1>4. CASE DeleteObject(path)
  BY <1>0, <1>4, DeleteObjectPreservesTree
<1>5. CASE CreateNamespace(path)
  BY <1>0, <1>5, CreateNamespacePreservesTree
<1>6. CASE DeleteNamespace(path)
  BY <1>0, <1>6, DeleteNamespacePreservesTree
<1> QED
  BY <1>1, <1>2, <1>3, <1>4, <1>5, <1>6

(* A path argument joined to a current directory is a component sequence. *)
LEMMA TargetIsComponents ==
    ASSUME NEW arg \in Arg, NEW dir \in Seq(Component)
    PROVE  ChangeTarget(arg, dir) \in Seq(Component)
<1>1. arg.comps \in Seq(Component)
  BY StorageAssumption DEF Arg
<1>2. dir \o arg.comps \in Seq(Component)
  BY <1>1, ConcatProperties
<1>3. CASE dir = Root
  BY <1>1, <1>2, <1>3 DEF ChangeTarget, LexicalParent, ResolvePath
<1>4. CASE dir # Root
  <2>1. Len(dir) - 1 \in Nat /\ Len(dir) - 1 <= Len(dir)
    BY <1>4, EmptySeq DEF Root
  <2>2. Parent(dir) \in Seq(Component)
    BY <2>1, PrefixIsSeq DEF Parent
  <2> QED
    BY <1>1, <1>2, <1>4, <2>2 DEF ChangeTarget, LexicalParent, ResolvePath
<1> QED
  BY <1>3, <1>4

LEMMA ChangeNamespacePreserves ==
    ASSUME HandlerInv, NEW c \in Client, NEW arg \in Arg, ChangeNamespace(c, arg)
    PROVE  HandlerInv'
<1> DEFINE target == ChangeTarget(arg, current_dir[c])
<1>1. TreeInv' /\ AncestorsExist'
  BY StorageUntouched DEF HandlerInv, ChangeNamespace
<1>2. CASE UNCHANGED current_dir
  BY <1>1, <1>2 DEF HandlerInv, DirTypeOK, CurrentDirInsideRoot
<1>3. CASE IsNamespace(target) /\ current_dir' = [current_dir EXCEPT ![c] = target]
  <2>1. target \in Seq(Component)
    BY TargetIsComponents DEF HandlerInv, DirTypeOK
  <2>2. NormalizePath(target) # {}
    BY <1>3 DEF IsNamespace
  <2>3. DirTypeOK'
    BY <1>3, <2>1 DEF HandlerInv, DirTypeOK
  <2>4. CurrentDirInsideRoot'
    BY <1>3, <2>2 DEF HandlerInv, DirTypeOK, CurrentDirInsideRoot
  <2> QED
    BY <1>1, <2>3, <2>4 DEF HandlerInv
<1> QED
  BY <1>2, <1>3 DEF ChangeNamespace

LEMMA StepPreserves ==
    ASSUME HandlerInv, NEW c \in Client, HandlerStep(c)
    PROVE  HandlerInv'
<1> USE StorageAssumption
<1>0. << >> \in Seq(Byte)
  OBVIOUS
<1>1. ASSUME NEW may \in BOOLEAN, Answer(c, may) PROVE HandlerInv'
  BY <1>0, <1>1, AttemptPreserves DEF Answer, storage
<1>2. CASE Ping(c) \/ Terminate(c) \/ ChunkedOutsideConnection(c)
  BY <1>1, <1>2 DEF Ping, Terminate, ChunkedOutsideConnection
<1>3. ASSUME NEW arg \in Arg,
             ReadObject(c, arg) \/ ObjectInfo(c, arg) \/ ListEntries(c, arg)
      PROVE  HandlerInv'
  <2>1. UNCHANGED <<objects, namespaces, current_dir>>
    BY <1>3 DEF ReadObject, ObjectInfo, ListEntries, Answer
  <2> QED
    BY <1>0, <2>1, AttemptPreserves DEF storage
<1>4. ASSUME NEW arg \in Arg, CreateObject(c, arg) PROVE HandlerInv'
  BY <1>0, <1>4, AttemptPreserves DEF CreateObject, Attempt
<1>5. ASSUME NEW arg \in Arg, NEW data \in Data, WriteObject(c, arg, data)
      PROVE  HandlerInv'
  BY <1>5, AttemptPreserves DEF WriteObject, Attempt
<1>6. ASSUME NEW arg \in Arg, NEW data \in Data, AppendToObject(c, arg, data)
      PROVE  HandlerInv'
  BY <1>6, AttemptPreserves DEF AppendToObject, Attempt
<1>7. ASSUME NEW arg \in Arg, RemoveObject(c, arg) PROVE HandlerInv'
  BY <1>0, <1>7, AttemptPreserves DEF RemoveObject, Attempt
<1>8. ASSUME NEW arg \in Arg, MakeNamespace(c, arg) PROVE HandlerInv'
  BY <1>0, <1>8, AttemptPreserves DEF MakeNamespace, Attempt
<1>9. ASSUME NEW arg \in Arg, RemoveNamespace(c, arg) PROVE HandlerInv'
  BY <1>0, <1>9, AttemptPreserves DEF RemoveNamespace, Attempt
<1>10. ASSUME NEW arg \in Arg, ChangeNamespace(c, arg) PROVE HandlerInv'
  BY <1>10, ChangeNamespacePreserves
<1> QED
  BY <1>2, <1>3, <1>4, <1>5, <1>6, <1>7, <1>8, <1>9, <1>10 DEF HandlerStep

(***************************************************************************)
(* The inductive invariant of the handler: whatever commands any number of *)
(* clients interleave, from whatever directories, the tree stays intact    *)
(* and every current directory resolves inside the root.                   *)
(***************************************************************************)
THEOREM HandlerCorrect == HandlerSpec => []HandlerInv
<1>1. HandlerInit => HandlerInv
  BY InitEstablishesTree, InitAncestors
  DEF HandlerInit, HandlerInv, DirTypeOK, CurrentDirInsideRoot, Root
<1>2. HandlerInv /\ UNCHANGED handlerVars => HandlerInv'
  BY StorageUntouched, DirsUntouched DEF HandlerInv, handlerVars, storage
<1>3. HandlerInv /\ [HandlerNext]_handlerVars => HandlerInv'
  BY <1>2, StepPreserves DEF HandlerNext
<1> QED
  BY <1>1, <1>3, PTL DEF HandlerSpec

(***************************************************************************)
(* A directory that was removed under a session, by whichever client,      *)
(* stays without contents until it is created anew: no client can store    *)
(* anything below it, through any spelling of the path.                    *)
(***************************************************************************)
THEOREM RemovedDirStaysEmpty == HandlerSpec => []NothingUnderRemovedDir
<1>1. HandlerInv => NothingUnderRemovedDir
  <2> SUFFICES ASSUME HandlerInv, NEW c \in Client, NEW dir \in NormalizePath(current_dir[c]),
                      dir \notin namespaces,
                      NEW p \in DOMAIN objects \cup namespaces, p # dir, StartsWith(p, dir)
               PROVE  FALSE
    BY DEF NothingUnderRemovedDir
  <2>1. dir \in Seq(Name) /\ p \in Seq(Name)
    BY NormalizedIsPath DEF HandlerInv, TreeInv, StorageTypeOK, Path
  <2>2. Len(dir) <= Len(p) /\ dir = SubSeq(p, 1, Len(dir))
    BY <2>1, SubSeqFull DEF StartsWith, IsPrefix
  <2>3. Len(dir) # Len(p)
    BY <2>1, <2>2, SubSeqFull
  <2>4. SubSeq(p, 1, Len(dir)) \in namespaces
    BY <2>1, <2>2, <2>3 DEF HandlerInv, AncestorsExist
  <2> QED
    BY <2>2, <2>4
<1> QED
  BY <1>1, HandlerCorrect, PTL

-----------------------------------------------------------------------------
(***************************************************************************)
(* The loop of normalize_path against its loop-free reference, for every   *)
(* path, by induction on the path.                                         *)
(***************************************************************************)

(* The members of B among the first k numbers. *)
Below(B, k) == {j \in 1..k : j \in B}

(* Counting one number further. *)
LEMMA CountNext ==
    ASSUME NEW B, NEW i \in Nat
    PROVE  /\ Cardinality(Below(B, i)) \in Nat
           /\ i + 1 \in B => Cardinality(Below(B, i + 1)) = Cardinality(Below(B, i)) + 1
           /\ i + 1 \notin B => Cardinality(Below(B, i + 1)) = Cardinality(Below(B, i))
<1>1. IsFiniteSet(1..i) /\ Below(B, i) \in SUBSET (1..i)
  BY FS_Interval DEF Below
<1>2. IsFiniteSet(Below(B, i)) /\ Cardinality(Below(B, i)) \in Nat
  BY <1>1, FS_Subset, FS_CardinalityType
<1>3. i + 1 \in B => Below(B, i + 1) = Below(B, i) \cup {i + 1}
  BY DEF Below
<1>4. i + 1 \notin B => Below(B, i + 1) = Below(B, i)
  BY DEF Below
<1>5. i + 1 \notin Below(B, i)
  BY <1>1
<1>6. Cardinality(Below(B, i) \cup {i + 1}) = Cardinality(Below(B, i)) + 1
  BY <1>2, <1>5, FS_AddElement
<1> QED
  BY <1>2, <1>3, <1>4, <1>6

(* Each component changes the depth by one or not at all. *)
LEMMA DepthSteps ==
    ASSUME NEW path \in Seq(Component), NEW i \in 0..(Len(path) - 1)
    PROVE  /\ DepthAfter(path, i) \in Int
           /\ DepthAfter(path, i + 1) =
                DepthAfter(path, i) + (IF path[i + 1] \in Name THEN 1
                                       ELSE IF path[i + 1] = ParentDir THEN -1 ELSE 0)
<1> DEFINE Names == {j \in 1..Len(path) : path[j] \in Name}
           Ups == {j \in 1..Len(path) : path[j] = ParentDir}
<1>1. i \in Nat /\ i + 1 \in 1..Len(path)
  OBVIOUS
<1>2. ASSUME NEW k \in 0..Len(path)
      PROVE  DepthAfter(path, k) = Cardinality(Below(Names, k)) - Cardinality(Below(Ups, k))
  <2>1. /\ Below(Names, k) = {j \in 1..k : path[j] \in Name}
        /\ Below(Ups, k) = {j \in 1..k : path[j] = ParentDir}
    BY DEF Below
  <2> QED
    BY <2>1 DEF DepthAfter
<1>3. /\ i + 1 \in Names <=> path[i + 1] \in Name
      /\ i + 1 \in Ups <=> path[i + 1] = ParentDir
  BY <1>1
<1> HIDE DEF Names, Ups
<1>4. /\ DepthAfter(path, i) = Cardinality(Below(Names, i)) - Cardinality(Below(Ups, i))
      /\ DepthAfter(path, i + 1) = Cardinality(Below(Names, i + 1)) - Cardinality(Below(Ups, i + 1))
  BY <1>1, <1>2
<1>5. /\ Cardinality(Below(Names, i)) \in Nat
      /\ i + 1 \in Names => Cardinality(Below(Names, i + 1)) = Cardinality(Below(Names, i)) + 1
      /\ i + 1 \notin Names => Cardinality(Below(Names, i + 1)) = Cardinality(Below(Names, i))
  BY <1>1, CountNext
<1>6. /\ Cardinality(Below(Ups, i)) \in Nat
      /\ i + 1 \in Ups => Cardinality(Below(Ups, i + 1)) = Cardinality(Below(Ups, i)) + 1
      /\ i + 1 \notin Ups => Cardinality(Below(Ups, i + 1)) = Cardinality(Below(Ups, i))
  BY <1>1, CountNext
<1>7. path[i + 1] \in Name => path[i + 1] # ParentDir
  BY Distinct
<1> QED
  BY <1>3, <1>4, <1>5, <1>6, <1>7

LEMMA DepthStarts ==
    ASSUME NEW path
    PROVE  DepthAfter(path, 0) = 0
<1>1. /\ {j \in 1..0 : path[j] \in Name} = {}
      /\ {j \in 1..0 : path[j] = ParentDir} = {}
  OBVIOUS
<1> QED
  BY <1>1, FS_EmptySet DEF DepthAfter

LEMMA DepthOfPrefix ==
    ASSUME NEW path \in Seq(Component), NEW c \in Component, NEW i \in 0..Len(path)
    PROVE  DepthAfter(Append(path, c), i) = DepthAfter(path, i)
<1>1. \A j \in 1..i : Append(path, c)[j] = path[j]
  OBVIOUS
<1>2. /\ {j \in 1..i : Append(path, c)[j] \in Name} = {j \in 1..i : path[j] \in Name}
      /\ {j \in 1..i : Append(path, c)[j] = ParentDir} = {j \in 1..i : path[j] = ParentDir}
  BY <1>1
<1> QED
  BY <1>2 DEF DepthAfter

LEMMA DepthIsInt ==
    ASSUME NEW path \in Seq(Component), NEW i \in 0..Len(path)
    PROVE  DepthAfter(path, i) \in Int
<1>1. CASE i = 0
  BY <1>1, DepthStarts
<1>2. CASE i # 0
  <2>1. PICK k \in 0..(Len(path) - 1) : i = k + 1
    BY <1>2
  <2>2. DepthAfter(path, k) \in Int
    BY DepthSteps
  <2>3. DepthAfter(path, k + 1) =
                DepthAfter(path, k) + (IF path[k + 1] \in Name THEN 1
                                       ELSE IF path[k + 1] = ParentDir THEN -1 ELSE 0)
    BY DepthSteps
  <2> QED
    BY <2>1, <2>2, <2>3
<1> QED
  BY <1>1, <1>2

(* One more component: the depths so far stay, and the last one follows. *)
LEMMA DepthAppend ==
    ASSUME NEW path \in Seq(Component), NEW c \in Component
    PROVE  /\ \A i \in 0..Len(path) : /\ DepthAfter(Append(path, c), i) = DepthAfter(path, i)
                                      /\ DepthAfter(path, i) \in Int
           /\ DepthAfter(Append(path, c), Len(path) + 1) =
                DepthAfter(path, Len(path)) + (IF c \in Name THEN 1 ELSE IF c = ParentDir THEN -1 ELSE 0)
<1> DEFINE longer == Append(path, c)
           N == Len(path)
<1>1. /\ longer \in Seq(Component) /\ N \in 0..(Len(longer) - 1) /\ longer[N + 1] = c
      /\ N \in 0..Len(path)
  OBVIOUS
<1>2. DepthAfter(longer, N + 1) =
        DepthAfter(longer, N) + (IF longer[N + 1] \in Name THEN 1
                                 ELSE IF longer[N + 1] = ParentDir THEN -1 ELSE 0)
  <2> HIDE DEF longer, N
  <2> QED
    BY <1>1, DepthSteps
<1>3. \A i \in 0..Len(path) : DepthAfter(longer, i) = DepthAfter(path, i) /\ DepthAfter(path, i) \in Int
  BY DepthOfPrefix, DepthIsInt
<1> QED
  BY <1>1, <1>2, <1>3

(* A longer path escapes where the shorter one does, or at its end. *)
LEMMA EscapesAppend ==
    ASSUME NEW path \in Seq(Component), NEW c \in Component
    PROVE  Escapes(Append(path, c)) <=>
             Escapes(path) \/ DepthAfter(Append(path, c), Len(path) + 1) < 0
<1> DEFINE longer == Append(path, c)
<1>1. Len(longer) = Len(path) + 1 /\ Len(path) \in Nat
  OBVIOUS
<1>2. \A i \in 1..Len(path) : DepthAfter(longer, i) = DepthAfter(path, i)
  BY DepthAppend
<1> HIDE DEF longer
<1>3. Escapes(longer) <=> \E i \in 1..(Len(path) + 1) : DepthAfter(longer, i) < 0
  BY <1>1 DEF Escapes
<1>4. (\E i \in 1..(Len(path) + 1) : DepthAfter(longer, i) < 0) <=>
         \/ \E i \in 1..Len(path) : DepthAfter(longer, i) < 0
         \/ DepthAfter(longer, Len(path) + 1) < 0
  BY <1>1
<1> QED
  BY <1>2, <1>3, <1>4 DEF Escapes, longer

(* The last component cancels the survivors deeper than it leads. *)
LEMMA SurvivorsAppend ==
    ASSUME NEW path \in Seq(Component), NEW c \in Component
    PROVE  \A i : i \in Survivors(Append(path, c)) <=>
             \/ /\ i \in Survivors(path)
                /\ DepthAfter(path, i) <= DepthAfter(Append(path, c), Len(path) + 1)
             \/ i = Len(path) + 1 /\ c \in Name
<1> DEFINE longer == Append(path, c)
           N == Len(path)
<1>1. /\ Len(longer) = N + 1 /\ N \in Nat /\ longer[N + 1] = c
      /\ \A i \in 1..N : longer[i] = path[i]
  OBVIOUS
<1>2. /\ \A i \in 0..N : DepthAfter(longer, i) = DepthAfter(path, i) /\ DepthAfter(path, i) \in Int
      /\ DepthAfter(longer, N + 1) \in Int
  <2>1. DepthAfter(path, N) \in Int
    BY DepthAppend
  <2> QED
    BY <2>1, DepthAppend
<1> HIDE DEF longer, N
<1>3. ASSUME NEW i \in 1..N
      PROVE  i \in Survivors(longer) <=>
               i \in Survivors(path) /\ DepthAfter(path, i) <= DepthAfter(longer, N + 1)
  <2>1. /\ i \in Survivors(longer) <=> Survives(longer, i)
        /\ i \in Survivors(path) <=> Survives(path, i)
    BY <1>1 DEF Survivors, N
  <2>2. Survives(longer, i) <=> /\ path[i] \in Name
                                /\ \A j \in i..(N + 1) : DepthAfter(longer, j) >= DepthAfter(path, i)
    BY <1>1, <1>2 DEF Survives
  <2>3. (\A j \in i..(N + 1) : DepthAfter(longer, j) >= DepthAfter(path, i)) <=>
           /\ \A j \in i..N : DepthAfter(path, j) >= DepthAfter(path, i)
           /\ DepthAfter(longer, N + 1) >= DepthAfter(path, i)
    BY <1>1, <1>2
  <2>4. Survives(path, i) <=> /\ path[i] \in Name
                              /\ \A j \in i..N : DepthAfter(path, j) >= DepthAfter(path, i)
    BY DEF Survives, N
  <2> QED
    BY <1>1, <1>2, <2>1, <2>2, <2>3, <2>4
<1>4. N + 1 \in Survivors(longer) <=> c \in Name
  <2>1. N + 1 \in 1..Len(longer) /\ (N + 1)..Len(longer) = {N + 1}
    BY <1>1
  <2> QED
    BY <1>1, <1>2, <2>1 DEF Survivors, Survives
<1>5. Survivors(longer) \subseteq 1..(N + 1) /\ Survivors(path) \subseteq 1..N
  BY <1>1 DEF Survivors, N
<1>6. N + 1 \notin Survivors(path)
  BY <1>1, <1>5
<1> QED
  <2> SUFFICES ASSUME NEW i
               PROVE i \in Survivors(longer) <=>
             \/ /\ i \in Survivors(path)
                /\ DepthAfter(path, i) <= DepthAfter(longer, N + 1)
             \/ i = N + 1 /\ c \in Name
    BY DEF longer, N
  <2>1. CASE i \in 1..N
    BY <1>1, <1>3, <2>1
  <2>2. CASE i = N + 1
    BY <1>4, <1>6, <2>2
  <2>3. CASE i \notin 1..(N + 1)
    BY <1>1, <1>5, <2>3
  <2> QED
    BY <1>1, <2>1, <2>2, <2>3

(* What the loop holds when no prefix has climbed above "/": as many names  *)
(* as the path is deep, each survivor at its own depth.                     *)
Traced(path, p) ==
    /\ ~Escapes(path)
    /\ Len(p) = DepthAfter(path, Len(path))
    /\ \A i \in Survivors(path) : /\ DepthAfter(path, i) \in 1..Len(p)
                                  /\ p[DepthAfter(path, i)] = path[i]
    /\ \A d \in 1..Len(p) : \E i \in Survivors(path) : DepthAfter(path, i) = d
    /\ \A i, j \in Survivors(path) : i < j => DepthAfter(path, i) < DepthAfter(path, j)

(* The three kinds of component. *)
LEMMA TracedCurDir ==
    ASSUME NEW path \in Seq(Component), NEW p \in Path, Traced(path, p)
    PROVE  Traced(Append(path, CurDir), p)
<1> DEFINE longer == Append(path, CurDir)
           N == Len(path)
<1>0. CurDir \in Component /\ CurDir \notin Name /\ CurDir # ParentDir
  BY Distinct DEF Component
<1>1. /\ longer \in Seq(Component) /\ Len(longer) = N + 1 /\ N \in Nat /\ Len(p) \in Nat
      /\ \A i \in 1..N : longer[i] = path[i]
  BY <1>0 DEF Path
<1>2. /\ \A i \in 0..N : DepthAfter(longer, i) = DepthAfter(path, i)
      /\ DepthAfter(longer, N + 1) = DepthAfter(path, N)
      /\ DepthAfter(path, N) = Len(p)
  <2>1. DepthAfter(path, N) = Len(p)
    BY DEF Traced
  <2>2. DepthAfter(longer, N + 1) = DepthAfter(path, N)
                + (IF CurDir \in Name THEN 1 ELSE IF CurDir = ParentDir THEN -1 ELSE 0)
    BY <1>0, DepthAppend
  <2> QED
    BY <1>0, <1>1, <2>1, <2>2, DepthAppend
<1>3. ~Escapes(longer)
  BY <1>0, <1>1, <1>2, EscapesAppend DEF Traced
<1>4. Survivors(longer) = Survivors(path) /\ Survivors(path) \subseteq 1..N
  <2>1. \A i : i \in Survivors(longer) <=>
               \/ i \in Survivors(path) /\ DepthAfter(path, i) <= DepthAfter(longer, N + 1)
               \/ i = N + 1 /\ CurDir \in Name
    BY <1>0, SurvivorsAppend
  <2>2. \A i \in Survivors(path) : DepthAfter(path, i) <= Len(p)
    BY <1>1 DEF Traced
  <2> HIDE DEF longer
  <2> QED
    BY <1>0, <1>2, <2>1, <2>2 DEF Survivors
<1> HIDE DEF longer
<1>5. \A i \in Survivors(path) : i \in 0..N /\ i \in 1..N
  BY <1>4
<1> QED
  BY <1>1, <1>2, <1>3, <1>4, <1>5 DEF Traced, longer

LEMMA TracedParentDir ==
    ASSUME NEW path \in Seq(Component), NEW p \in Path, Traced(path, p)
    PROVE  /\ p = Root => Escapes(Append(path, ParentDir))
           /\ p # Root => Traced(Append(path, ParentDir), Parent(p))
<1> DEFINE longer == Append(path, ParentDir)
           N == Len(path)
<1>0. ParentDir \in Component /\ ParentDir \notin Name
  BY Distinct DEF Component
<1>1. /\ longer \in Seq(Component) /\ Len(longer) = N + 1 /\ N \in Nat /\ Len(p) \in Nat
      /\ \A i \in 1..N : longer[i] = path[i]
  BY <1>0 DEF Path
<1>2. /\ \A i \in 0..N : DepthAfter(longer, i) = DepthAfter(path, i)
      /\ DepthAfter(longer, N + 1) = Len(p) - 1
  <2>1. DepthAfter(path, N) = Len(p)
    BY DEF Traced
  <2>2. DepthAfter(longer, N + 1) = DepthAfter(path, N)
                + (IF ParentDir \in Name THEN 1 ELSE IF ParentDir = ParentDir THEN -1 ELSE 0)
    BY <1>0, DepthAppend
  <2> QED
    BY <1>0, <1>1, <2>1, <2>2, DepthAppend
<1>3. Escapes(longer) <=> Len(p) = 0
  <2>1. Escapes(longer) <=> Escapes(path) \/ DepthAfter(longer, N + 1) < 0
    BY <1>0, EscapesAppend
  <2> QED
    BY <1>1, <1>2, <2>1 DEF Traced
<1>4. p = Root => Len(p) = 0
  BY DEF Root
<1>5. ASSUME p # Root PROVE Traced(longer, Parent(p))
  <2> DEFINE r == Parent(p)
  <2>1. Len(r) = Len(p) - 1 /\ Len(p) # 0 /\ \A d \in 1..Len(r) : r[d] = p[d]
    <3>1. Len(r) = Len(p) - 1 /\ Len(p) # 0
      BY <1>5, ParentIsPath, EmptySeq DEF Root, Path
    <3>2. \A d \in 1..(Len(p) - 1) : r[d] = p[d]
      BY <1>1, <3>1 DEF Parent, Path
    <3> QED
      BY <3>1, <3>2
  <2>2. /\ \A i : i \in Survivors(longer) <=>
                    i \in Survivors(path) /\ DepthAfter(path, i) <= Len(r)
        /\ Survivors(path) \subseteq 1..N
    <3>1. \A i : i \in Survivors(longer) <=>
               \/ i \in Survivors(path) /\ DepthAfter(path, i) <= DepthAfter(longer, N + 1)
               \/ i = N + 1 /\ ParentDir \in Name
      BY <1>0, SurvivorsAppend
    <3> HIDE DEF longer, r
    <3> QED
      BY <1>0, <1>2, <2>1, <3>1 DEF Survivors
  <2> HIDE DEF longer, r, N
  <2>3. \A i \in Survivors(longer) :
            /\ i \in Survivors(path) /\ i \in 1..N /\ DepthAfter(longer, i) = DepthAfter(path, i)
            /\ DepthAfter(longer, i) \in 1..Len(r)
            /\ r[DepthAfter(longer, i)] = longer[i]
    <3> SUFFICES ASSUME NEW i \in Survivors(longer)
                 PROVE /\ i \in Survivors(path) /\ i \in 1..N /\ DepthAfter(longer, i) = DepthAfter(path, i)
                       /\ DepthAfter(longer, i) \in 1..Len(r)
                       /\ r[DepthAfter(longer, i)] = longer[i]
      OBVIOUS
    <3>1. i \in Survivors(path) /\ i \in 1..N /\ i \in 0..N /\ DepthAfter(path, i) <= Len(r)
      BY <1>1, <2>2
    <3>2. DepthAfter(path, i) \in 1..Len(p) /\ p[DepthAfter(path, i)] = path[i]
      BY <3>1 DEF Traced
    <3> QED
      BY <1>1, <1>2, <2>1, <3>1, <3>2
  <2>4. ASSUME NEW d \in 1..Len(r) PROVE \E i \in Survivors(longer) : DepthAfter(longer, i) = d
    <3>1. PICK i \in Survivors(path) : DepthAfter(path, i) = d
      BY <1>1, <2>1 DEF Traced
    <3>2. i \in 0..N /\ DepthAfter(path, i) <= Len(r)
      BY <1>1, <2>1, <2>2, <3>1
    <3> QED
      BY <1>2, <2>2, <3>1, <3>2
  <2>5. Len(r) = DepthAfter(longer, Len(longer))
    BY <1>1, <1>2, <2>1
  <2>6. \A i, j \in Survivors(longer) : i < j => DepthAfter(longer, i) < DepthAfter(longer, j)
    BY <2>3 DEF Traced
  <2> QED
    BY <1>1, <1>3, <2>1, <2>3, <2>4, <2>5, <2>6 DEF Traced, r
<1> QED
  BY <1>3, <1>4, <1>5

LEMMA TracedName ==
    ASSUME NEW path \in Seq(Component), NEW p \in Path, NEW c \in Name, Traced(path, p)
    PROVE  Traced(Append(path, c), Append(p, c))
<1> DEFINE longer == Append(path, c)
           r == Append(p, c)
           N == Len(path)
<1>0. c \in Component
  BY DEF Component
<1>1. /\ longer \in Seq(Component) /\ Len(longer) = N + 1 /\ N \in Nat /\ Len(p) \in Nat
      /\ longer[N + 1] = c
      /\ \A i \in 1..N : longer[i] = path[i]
      /\ Len(r) = Len(p) + 1 /\ r[Len(p) + 1] = c
      /\ \A d \in 1..Len(p) : r[d] = p[d]
  BY <1>0 DEF Path
<1>2. /\ \A i \in 0..N : DepthAfter(longer, i) = DepthAfter(path, i)
      /\ DepthAfter(longer, N + 1) = Len(p) + 1
  <2>1. DepthAfter(path, N) = Len(p)
    BY DEF Traced
  <2>2. DepthAfter(longer, N + 1) = DepthAfter(path, N)
                + (IF c \in Name THEN 1 ELSE IF c = ParentDir THEN -1 ELSE 0)
    BY <1>0, DepthAppend
  <2> QED
    BY <1>0, <1>1, <2>1, <2>2, DepthAppend
<1>3. ~Escapes(longer)
  <2>1. Escapes(longer) <=> Escapes(path) \/ DepthAfter(longer, N + 1) < 0
    BY <1>0, EscapesAppend
  <2> QED
    BY <1>1, <1>2, <2>1 DEF Traced
<1>4. Survivors(longer) = Survivors(path) \cup {N + 1} /\ Survivors(path) \subseteq 1..N
  <2>1. \A i : i \in Survivors(longer) <=>
               \/ i \in Survivors(path) /\ DepthAfter(path, i) <= DepthAfter(longer, N + 1)
               \/ i = N + 1 /\ c \in Name
    BY <1>0, SurvivorsAppend
  <2>2. \A i \in Survivors(path) : DepthAfter(path, i) <= Len(p) + 1
    BY <1>1 DEF Traced
  <2> HIDE DEF longer
  <2> QED
    BY <1>0, <1>2, <2>1, <2>2 DEF Survivors
<1> HIDE DEF longer, r, N
<1>5. \A i \in Survivors(path) :
         /\ i \in 1..N /\ DepthAfter(longer, i) = DepthAfter(path, i)
         /\ DepthAfter(longer, i) \in 1..Len(p)
         /\ r[DepthAfter(longer, i)] = longer[i]
  <2> SUFFICES ASSUME NEW i \in Survivors(path)
               PROVE /\ i \in 1..N /\ DepthAfter(longer, i) = DepthAfter(path, i)
                     /\ DepthAfter(longer, i) \in 1..Len(p)
                     /\ r[DepthAfter(longer, i)] = longer[i]
    OBVIOUS
  <2>1. i \in 1..N /\ i \in 0..N
    BY <1>4
  <2>2. DepthAfter(path, i) \in 1..Len(p) /\ p[DepthAfter(path, i)] = path[i]
    BY DEF Traced
  <2> QED
    BY <1>1, <1>2, <2>1, <2>2
<1>6. \A i \in Survivors(longer) : /\ DepthAfter(longer, i) \in 1..Len(r)
                                   /\ r[DepthAfter(longer, i)] = longer[i]
  BY <1>1, <1>2, <1>4, <1>5
<1>7. ASSUME NEW d \in 1..Len(r) PROVE \E i \in Survivors(longer) : DepthAfter(longer, i) = d
  <2>1. CASE d = Len(p) + 1
    BY <1>2, <1>4, <2>1
  <2>2. CASE d \in 1..Len(p)
    <3>1. PICK i \in Survivors(path) : DepthAfter(path, i) = d
      BY <2>2 DEF Traced
    <3> QED
      BY <1>4, <1>5, <3>1
  <2> QED
    BY <1>1, <2>1, <2>2
<1>8. ASSUME NEW i \in Survivors(longer), NEW j \in Survivors(longer), i < j
      PROVE  DepthAfter(longer, i) < DepthAfter(longer, j)
  <2>1. i \in Survivors(path)
    BY <1>1, <1>4, <1>8
  <2>2. CASE j \in Survivors(path)
    BY <1>5, <1>8, <2>1, <2>2 DEF Traced
  <2>3. CASE j = N + 1
    <3>1. DepthAfter(longer, i) \in 1..Len(p)
      BY <1>5, <2>1
    <3>2. DepthAfter(longer, j) = Len(p) + 1 /\ Len(p) \in Nat
      BY <1>1, <1>2, <2>3
    <3> QED
      BY <3>1, <3>2
  <2> QED
    BY <1>4, <2>2, <2>3
<1>9. Len(r) = DepthAfter(longer, Len(longer))
  BY <1>1, <1>2
<1> QED
  BY <1>3, <1>6, <1>7, <1>8, <1>9 DEF Traced, longer, r

(* The loop fails exactly on the paths that escape, and otherwise holds the *)
(* traced path.                                                              *)
LEMMA NormalizedTraces ==
    ASSUME NEW path \in Seq(Component)
    PROVE  \/ Escapes(path) /\ Normalized(path) = {}
           \/ \E p \in Path : Normalized(path) = {p} /\ Traced(path, p)
<1> DEFINE Fine(s) == \/ Escapes(s) /\ Normalized(s) = {}
                      \/ \E p \in Path : Normalized(s) = {p} /\ Traced(s, p)
           T == {s \in Seq(Component) : Fine(s)}
<1>1. << >> \in T
  <2>1. << >> \in Seq(Component) /\ Root \in Path /\ Len(Root) = 0 /\ Len(<< >>) = 0
    BY DEF Root, Path
  <2>2. Survivors(<< >>) = {} /\ ~Escapes(<< >>)
    BY DEF Survivors, Escapes
  <2>3. Traced(<< >>, Root)
    BY <2>1, <2>2, DepthStarts DEF Traced
  <2> QED
    BY <2>1, <2>3, NormalizedEmpty
<1>2. ASSUME NEW s \in Seq(Component), NEW c \in Component, s \in T
      PROVE  Append(s, c) \in T
  <2>0. Fine(s)
    BY <1>2
  <2>1. Append(s, c) \in Seq(Component) /\ Normalized(Append(s, c)) = NormalizeComponent(Normalized(s), c)
    BY NormalizedAppend
  <2>2. CASE Escapes(s) /\ Normalized(s) = {}
    <3>1. Escapes(Append(s, c))
      BY <2>2, EscapesAppend
    <3>2. NormalizeComponent({}, c) = {}
      <4>1. CASE c = CurDir
        BY <4>1, NormalizeDots
      <4>2. CASE c = ParentDir
        BY <4>2, NormalizeDots
      <4>3. CASE c \in Name
        BY <4>3, NormalizeName
      <4> QED
        BY <4>1, <4>2, <4>3 DEF Component
    <3> QED
      BY <2>1, <2>2, <3>1, <3>2
  <2>3. ASSUME NEW p \in Path, Normalized(s) = {p}, Traced(s, p) PROVE Fine(Append(s, c))
    <3>1. CASE c = CurDir
      BY <2>1, <2>3, <3>1, NormalizeDots, TracedCurDir
    <3>2. CASE c = ParentDir
      <4>1. CASE p = Root
        BY <2>1, <2>3, <3>2, <4>1, NormalizeDots, TracedParentDir
      <4>2. CASE p # Root
        <5>1. {Parent(q) : q \in {p} \ {Root}} = {Parent(p)} /\ Parent(p) \in Path
          BY <4>2, ParentIsPath
        <5>2. Normalized(Append(s, c)) = {Parent(p)}
          BY <2>1, <2>3, <3>2, <5>1, NormalizeDots
        <5>3. Traced(Append(s, c), Parent(p))
          BY <2>3, <3>2, <4>2, TracedParentDir
        <5> QED
          BY <5>1, <5>2, <5>3
      <4> QED
        BY <4>1, <4>2
    <3>3. CASE c \in Name
      <4>1. {Append(q, c) : q \in {p}} = {Append(p, c)} /\ Append(p, c) \in Path
        BY <3>3 DEF Path
      <4>2. Normalized(Append(s, c)) = {Append(p, c)}
        BY <2>1, <2>3, <3>3, <4>1, NormalizeName
      <4>3. Traced(Append(s, c), Append(p, c))
        BY <2>3, <3>3, TracedName
      <4> QED
        BY <4>1, <4>2, <4>3
    <3> QED
      BY <3>1, <3>2, <3>3 DEF Component
  <2> QED
    BY <2>0, <2>1, <2>2, <2>3
<1>3. Seq(Component) \subseteq T
  <2> HIDE DEF T
  <2> QED
    BY <1>1, <1>2, SeqInduction
<1> QED
  BY <1>3

(* A map from S onto 1..n that takes different members to different numbers. *)
LEMMA CountBy ==
    ASSUME NEW S, IsFiniteSet(S), NEW n \in Nat, NEW f \in [S -> 1..n],
           \A i, j \in S : i # j => f[i] # f[j],
           \A d \in 1..n : \E i \in S : f[i] = d
    PROVE  Cardinality(S) = n
<1>1. f \in Bijection(S, 1..n)
  BY DEF Bijection, Injection, Surjection, IsInjective
<1>2. ExistsBijection(S, 1..n)
  BY <1>1 DEF ExistsBijection
<1>3. Cardinality(1..n) = n
  BY FS_Interval
<1> QED
  BY <1>2, <1>3, FS_Bijection

(* The survivors are as many as the path is deep, and the survivors up to   *)
(* one of them as many as that one is deep.                                 *)
LEMMA SurvivorsCount ==
    ASSUME NEW path \in Seq(Component), NEW p \in Path, Traced(path, p)
    PROVE  /\ Cardinality(Survivors(path)) = Len(p)
           /\ \A i \in Survivors(path) :
                 Cardinality({j \in Survivors(path) : j <= i}) = DepthAfter(path, i)
<1> DEFINE S == Survivors(path)
           depth == [i \in S |-> DepthAfter(path, i)]
<1>1. IsFiniteSet(S) /\ S \subseteq 1..Len(path)
  <2>1. S \in SUBSET (1..Len(path)) /\ IsFiniteSet(1..Len(path))
    BY FS_Interval DEF Survivors
  <2> QED
    BY <2>1, FS_Subset
<1>2. /\ \A i \in S : DepthAfter(path, i) \in 1..Len(p)
      /\ \A d \in 1..Len(p) : \E i \in S : DepthAfter(path, i) = d
      /\ \A i, j \in S : i < j => DepthAfter(path, i) < DepthAfter(path, j)
  BY DEF Traced
<1>3. Len(p) \in Nat
  BY DEF Path
<1> HIDE DEF S
<1>4. \A i, j \in S : i # j => DepthAfter(path, i) # DepthAfter(path, j)
  <2> SUFFICES ASSUME NEW i \in S, NEW j \in S, i # j PROVE DepthAfter(path, i) # DepthAfter(path, j)
    OBVIOUS
  <2>1. i \in 1..Len(path) /\ j \in 1..Len(path)
    BY <1>1
  <2>2. i < j \/ j < i
    BY <2>1
  <2>3. DepthAfter(path, i) \in 1..Len(p) /\ DepthAfter(path, j) \in 1..Len(p)
    BY <1>2
  <2> QED
    BY <1>2, <2>2, <2>3
<1>5. depth \in [S -> 1..Len(p)]
  BY <1>2
<1>6. Cardinality(S) = Len(p)
  <2>1. \A i, j \in S : i # j => depth[i] # depth[j]
    BY <1>4
  <2>2. \A d \in 1..Len(p) : \E i \in S : depth[i] = d
    BY <1>2
  <2> HIDE DEF depth
  <2> QED
    BY <1>1, <1>3, <1>5, <2>1, <2>2, CountBy
<1>7. ASSUME NEW i \in S PROVE Cardinality({j \in S : j <= i}) = DepthAfter(path, i)
  <2> DEFINE U == {j \in S : j <= i}
             f == [j \in U |-> DepthAfter(path, j)]
             n == DepthAfter(path, i)
  <2>1. U \in SUBSET S /\ IsFiniteSet(U)
    BY <1>1, FS_Subset
  <2>2. n \in 1..Len(p) /\ n \in Nat
    BY <1>2, <1>3
  <2>3. ASSUME NEW j \in U PROVE DepthAfter(path, j) \in 1..n
    <3>1. j \in S /\ j <= i /\ j \in 1..Len(path) /\ i \in 1..Len(path)
      BY <1>1
    <3>2. j = i \/ j < i
      BY <3>1
    <3>3. DepthAfter(path, j) \in 1..Len(p)
      BY <1>2, <3>1
    <3> HIDE DEF U
    <3> QED
      BY <1>2, <2>2, <3>1, <3>2, <3>3
  <2>4. ASSUME NEW d \in 1..n PROVE \E j \in U : DepthAfter(path, j) = d
    <3>1. d \in 1..Len(p)
      BY <1>3, <2>2
    <3>2. PICK j \in S : DepthAfter(path, j) = d
      BY <1>2, <3>1
    <3>3. j \in 1..Len(path) /\ i \in 1..Len(path)
      BY <1>1
    <3>4. ~(i < j)
      <4>1. i < j => n < d
        BY <1>2, <3>2
      <4> QED
        BY <2>2, <4>1
    <3> QED
      BY <3>2, <3>3, <3>4
  <2>5. \A j, k \in U : j # k => f[j] # f[k]
    BY <1>4
  <2>6. f \in [U -> 1..n] /\ \A d \in 1..n : \E j \in U : f[j] = d
    BY <2>3, <2>4
  <2> HIDE DEF f, U, n
  <2>7. Cardinality(U) = n
    BY <2>1, <2>2, <2>5, <2>6, CountBy
  <2> QED
    BY <2>7 DEF U, n
<1> QED
  BY <1>6, <1>7 DEF S

(***************************************************************************)
(* MemoryStorage::normalize_path, for every path of any length: it rejects *)
(* exactly the paths some prefix of which climbs above "/", and returns of *)
(* the others the names that no later ".." cancels, in order.              *)
(***************************************************************************)
THEOREM NormalizeCorrect ==
    ASSUME NEW path \in Seq(Component)
    PROVE  MatchesReference(path)
<1>1. NormalizePath(path) = Normalized(path)
  BY NormalizedIs
<1>2. CASE Escapes(path) /\ Normalized(path) = {}
  BY <1>1, <1>2 DEF MatchesReference
<1>3. ASSUME NEW p \in Path, Normalized(path) = {p}, Traced(path, p)
      PROVE  MatchesReference(path)
  <2>1. ~Escapes(path)
    BY <1>3 DEF Traced
  <2>2. ListsSurvivors(p, path)
    <3>1. Len(p) = Cardinality(Survivors(path))
      BY <1>3, SurvivorsCount
    <3>2. ASSUME NEW i \in Survivors(path)
          PROVE  p[Cardinality({j \in Survivors(path) : j <= i})] = path[i]
      <4>1. Cardinality({j \in Survivors(path) : j <= i}) = DepthAfter(path, i)
        BY <1>3, SurvivorsCount
      <4> QED
        BY <1>3, <4>1 DEF Traced
    <3> QED
      BY <3>1, <3>2 DEF ListsSurvivors
  <2> QED
    BY <1>1, <1>3, <2>1, <2>2 DEF MatchesReference
<1> QED
  BY <1>2, <1>3, NormalizedTraces

(* The loop goes on from where it is, so what came before only matters by   *)
(* what it normalizes to.                                                    *)
LEMMA NormalizedGoesOn ==
    ASSUME NEW dir \in Seq(Component), NEW d \in Seq(Component), NEW s \in Seq(Component),
           Normalized(dir) = Normalized(d)
    PROVE  Normalized(dir \o s) = Normalized(d \o s)
<1> DEFINE T == {t \in Seq(Component) : Normalized(dir \o t) = Normalized(d \o t)}
<1>1. << >> \in T
  <2>1. << >> \in Seq(Component) /\ dir \o << >> = dir /\ d \o << >> = d
    OBVIOUS
  <2> QED
    BY <2>1
<1>2. ASSUME NEW t \in Seq(Component), NEW c \in Component, t \in T PROVE Append(t, c) \in T
  <2>1. /\ Append(t, c) \in Seq(Component)
        /\ dir \o t \in Seq(Component) /\ dir \o Append(t, c) = Append(dir \o t, c)
        /\ d \o t \in Seq(Component) /\ d \o Append(t, c) = Append(d \o t, c)
    OBVIOUS
  <2>2. Normalized(dir \o t) = Normalized(d \o t)
    BY <1>2
  <2>3. /\ Normalized(Append(dir \o t, c)) = NormalizeComponent(Normalized(dir \o t), c)
        /\ Normalized(Append(d \o t, c)) = NormalizeComponent(Normalized(d \o t), c)
    BY <2>1, NormalizedAppend
  <2> QED
    BY <2>1, <2>2, <2>3
<1>3. Seq(Component) \subseteq T
  <2> HIDE DEF T
  <2> QED
    BY <1>1, <1>2, SeqInduction
<1> QED
  BY <1>3

(* A normalized path normalizes to itself. *)
LEMMA NormalizedStays ==
    ASSUME NEW p \in Path
    PROVE  p \in Seq(Component) /\ Normalized(p) = {p}
<1> DEFINE T == {q \in Path : q \in Seq(Component) /\ Normalized(q) = {q}}
<1>1. << >> \in T
  BY NormalizedEmpty DEF Root, Path
<1>2. ASSUME NEW q \in Seq(Name), NEW c \in Name, q \in T PROVE Append(q, c) \in T
  <2>1. /\ q \in Seq(Component) /\ c \in Component
        /\ Append(q, c) \in Path /\ Append(q, c) \in Seq(Component)
    BY <1>2 DEF Component, Path
  <2>2. Normalized(Append(q, c)) = {Append(r, c) : r \in {q}}
    BY <1>2, <2>1, NormalizedAppend, NormalizeName
  <2> QED
    BY <2>1, <2>2
<1>3. Seq(Name) \subseteq T
  <2> HIDE DEF T
  <2> QED
    BY <1>1, <1>2, SeqInduction
<1> QED
  BY <1>3 DEF Path

(* Joining an argument to an un-normalized directory. *)
LEMMA JoinCorrect ==
    ASSUME NEW dir \in Seq(Component), NEW arg, arg.comps \in Seq(Component)
    PROVE  JoinsAlike(arg, dir)
<1> SUFFICES ASSUME NEW d \in NormalizePath(dir)
             PROVE  NormalizePath(ResolvePath(arg, dir)) = NormalizePath(ResolvePath(arg, d))
  BY DEF JoinsAlike
<1>1. d \in Path /\ Normalized(dir) = {d}
  BY NormalizedIs
<1>2. d \in Seq(Component) /\ Normalized(d) = {d}
  BY <1>1, NormalizedStays
<1>3. ASSUME NEW s \in Seq(Component)
      PROVE  NormalizePath(dir \o s) = NormalizePath(d \o s)
  <2>0. Normalized(dir) = Normalized(d)
    BY <1>1, <1>2
  <2>1. Normalized(dir \o s) = Normalized(d \o s)
    BY <1>2, <2>0, NormalizedGoesOn, Zenon
  <2>2. dir \o s \in Seq(Component) /\ d \o s \in Seq(Component)
    BY <1>2
  <2> QED
    BY <2>1, <2>2, NormalizedIs
<1> QED
  BY <1>3 DEF ResolvePath

(* An argument is a component sequence, and so is what it is joined to. *)
LEMMA ArgIsComponents ==
    ASSUME NEW arg \in RelativeArg
    PROVE  arg.comps \in Seq(Component) /\ ~arg.abs
BY ComponentsAssumption DEF RelativeArg

(***************************************************************************)
(* Whatever directory a session is in, normalize_path agrees with the      *)
(* reference on every argument joined to it.                               *)
(***************************************************************************)
THEOREM NormalizeAlwaysMatches == HandlerSpec => []NormalizeMatchesReference
<1>1. HandlerInv => NormalizeMatchesReference
  <2> SUFFICES ASSUME HandlerInv, NEW dir \in Dirs, NEW arg \in RelativeArg
               PROVE  MatchesReference(ResolvePath(arg, dir))
    BY DEF NormalizeMatchesReference
  <2>1. dir \in Seq(Component)
    BY DEF HandlerInv, DirTypeOK, Dirs
  <2>2. ResolvePath(arg, dir) \in Seq(Component)
    BY <2>1, ArgIsComponents DEF ResolvePath
  <2> QED
    BY <2>2, NormalizeCorrect
<1> QED
  BY <1>1, HandlerCorrect, PTL

(***************************************************************************)
(* However a session came to its un-normalized directory, an argument      *)
(* means there what it means in the normalized one.                        *)
(***************************************************************************)
THEOREM JoinsAlwaysAlike == HandlerSpec => []JoinThenNormalize
<1>1. HandlerInv => JoinThenNormalize
  <2> SUFFICES ASSUME HandlerInv, NEW dir \in Dirs, NEW arg \in RelativeArg
               PROVE  JoinsAlike(arg, dir)
    BY DEF JoinThenNormalize
  <2>1. dir \in Seq(Component)
    BY DEF HandlerInv, DirTypeOK, Dirs
  <2> QED
    BY <2>1, ArgIsComponents, JoinCorrect
<1> QED
  BY <1>1, HandlerCorrect, PTL
=============================================================================
