------------------------ MODULE MemoryStorageProofs ------------------------
(***************************************************************************)
(* For every set of names, bytes, paths and payloads: the in-memory        *)
(* storage keeps its tree intact, and implements the contract of the       *)
(* StorageBackend trait.                                                   *)
(***************************************************************************)
EXTENDS MemoryStorage, FiniteSets, FiniteSetTheorems, WellFoundedInduction, SequenceTheorems, TLAPS

(* Facts about paths. *)

(* normalize_path only returns normalized paths. *)
LEMMA NormalizedIsPath ==
    ASSUME NEW path, NEW p \in NormalizePath(path)
    PROVE  p \in Path
BY DEF NormalizePath

(* Cutting a sequence short. *)
LEMMA PrefixIsSeq ==
    ASSUME NEW S, NEW s \in Seq(S), NEW n \in Nat, n <= Len(s)
    PROVE  SubSeq(s, 1, n) \in Seq(S) /\ Len(SubSeq(s, 1, n)) = n
OBVIOUS

(* Cutting to the same length twice changes nothing. *)
LEMMA PrefixOfPrefix ==
    ASSUME NEW S, NEW s \in Seq(S), NEW n \in Nat, n <= Len(s)
    PROVE  SubSeq(SubSeq(s, 1, n), 1, n) = SubSeq(s, 1, n)
BY PrefixIsSeq, SubSeqFull

(* The parent of a path other than "/" is a shorter path that it starts with. *)
LEMMA ParentIsPath ==
    ASSUME NEW p \in Path, p # Root
    PROVE  /\ Parent(p) \in Path
           /\ Len(Parent(p)) = Len(p) - 1
           /\ Parent(p) # p
           /\ StartsWith(p, Parent(p))
<1>1. p \in Seq(Name) /\ Len(p) - 1 \in Nat /\ Len(p) - 1 <= Len(p)
  BY EmptySeq DEF Path, Root
<1>2. Parent(p) \in Seq(Name) /\ Len(Parent(p)) = Len(p) - 1
  BY <1>1, PrefixIsSeq DEF Parent
<1>3. SubSeq(Parent(p), 1, Len(p) - 1) = Parent(p)
  BY <1>1, PrefixOfPrefix DEF Parent
<1>4. StartsWith(p, Parent(p))
  BY <1>1, <1>2, <1>3 DEF Parent, StartsWith, IsPrefix
<1> QED
  BY <1>1, <1>2, <1>4 DEF Path

-----------------------------------------------------------------------------
(***************************************************************************)
(* Induction.  The library's induction rules take a predicate as parameter *)
(* and cannot be instantiated here; with a set in the place of the         *)
(* predicate, induction follows from the well-foundedness of < on Nat.     *)
(***************************************************************************)

(* A set of naturals has a least member. *)
LEMMA Least ==
    ASSUME NEW T \in SUBSET Nat, T # {}
    PROVE  \E k \in T : \A m \in T : k <= m
<1> DEFINE R == {ss \in Nat \X Nat : ss[1] < ss[2]}
<1>1. IsWellFoundedOn(R, Nat)
  BY NatLessThanWellFounded DEF OpToRel
<1>2. PICK k \in T : \A m \in T : ~(<<m, k>> \in R)
  <2> HIDE DEF R
  <2> QED
    BY <1>1, WFMin
<1>3. \A m \in T : ~(m < k)
  BY <1>2
<1> QED
  BY <1>3

(* What holds of 0 and passes from n to n + 1 holds of every natural. *)
LEMMA Induction ==
    ASSUME NEW T, 0 \in T, \A n \in Nat : n \in T => n + 1 \in T
    PROVE  Nat \subseteq T
<1> SUFFICES ASSUME Nat \ T # {} PROVE FALSE
  OBVIOUS
<1>1. PICK k \in Nat \ T : \A m \in Nat \ T : k <= m
  BY Least
<1>2. k - 1 \in Nat \ T
  BY <1>1
<1> QED
  BY <1>1, <1>2

(* The greatest member of a set of indices. *)
LEMMA MaxOfInterval ==
    ASSUME NEW n \in Nat, NEW s \in SUBSET (1..(n + 1)), n + 1 \in s
    PROVE  Max(s) = n + 1
<1>1. \A y \in s : n + 1 >= y
  OBVIOUS
<1>2. \A x \in s : (\A y \in s : x >= y) => x = n + 1
  OBVIOUS
<1>3. Max(s) \in s /\ \A y \in s : Max(s) >= y
  BY <1>1 DEF Max
<1> QED
  BY <1>2, <1>3

LEMMA MaxInSet ==
    ASSUME NEW n \in Nat, NEW s \in SUBSET (1..n), s # {}
    PROVE  Max(s) \in s
<1> DEFINE U == {m \in Nat : n - m \in s}
<1>1. PICK x \in s : TRUE
  OBVIOUS
<1>2. n - x \in U /\ U \in SUBSET Nat
  BY <1>1
<1>3. PICK m \in U : \A k \in U : m <= k
  <2> HIDE DEF U
  <2> QED
    BY <1>2, Least
<1>4. n - m \in s /\ \A y \in s : n - y \in U /\ n - m >= y
  BY <1>3
<1> QED
  BY <1>4 DEF Max

(* What FoldLeft makes of a sequence of length n, with the operator as a    *)
(* function: its value for every set of indices, the last of them last.     *)
IsFold(g, base, step, n, seq) ==
    g = [s \in SUBSET (1..n) |->
           IF s = {} THEN base ELSE step[seq[Max(s)]][g[s \ {Max(s)}]]]

(* Such a function exists, by induction on n: FoldLeft chooses one. *)
LEMMA FoldExists ==
    ASSUME NEW V, NEW C, NEW base \in V, NEW step \in [C -> [V -> V]],
           NEW N \in Nat, NEW seq \in [1..N -> C]
    PROVE  \E g \in [SUBSET (1..N) -> V] : IsFold(g, base, step, N, seq)
<1> DEFINE Is(g, n) == \A s \in SUBSET (1..n) :
               g[s] = IF s = {} THEN base ELSE step[seq[Max(s)]][g[s \ {Max(s)}]]
           Defined(n) == \E g \in [SUBSET (1..n) -> V] : Is(g, n)
           T == {n \in Nat : n <= N => Defined(n)}
<1>1. 0 \in T
  <2> DEFINE g == [s \in SUBSET (1..0) |-> base]
  <2>1. g \in [SUBSET (1..0) -> V] /\ Is(g, 0)
    OBVIOUS
  <2> QED
    BY <2>1
<1>2. ASSUME NEW n \in Nat, n \in T PROVE n + 1 \in T
  <2> SUFFICES ASSUME n + 1 <= N PROVE Defined(n + 1)
    <3> HIDE DEF Defined
    <3> QED
      BY <1>2
  <2>0. Defined(n)
    <3> HIDE DEF Defined
    <3> QED
      BY <1>2
  <2>1. PICK h \in [SUBSET (1..n) -> V] : Is(h, n)
    BY <2>0
  <2> DEFINE g == [s \in SUBSET (1..(n + 1)) |->
                     IF n + 1 \in s THEN step[seq[n + 1]][h[s \ {n + 1}]] ELSE h[s]]
  <2>2. ASSUME NEW s \in SUBSET (1..(n + 1)) PROVE s \ {n + 1} \in SUBSET (1..n)
    OBVIOUS
  <2>3. g \in [SUBSET (1..(n + 1)) -> V]
    <3> SUFFICES ASSUME NEW s \in SUBSET (1..(n + 1)) PROVE g[s] \in V
      OBVIOUS
    <3>1. CASE n + 1 \in s
      <4>1. h[s \ {n + 1}] \in V /\ seq[n + 1] \in C
        BY <2>2
      <4> QED
        BY <3>1, <4>1
    <3>2. CASE n + 1 \notin s
      <4>1. s \in SUBSET (1..n)
        BY <3>2
      <4> QED
        BY <3>2, <4>1
    <3> QED
      BY <3>1, <3>2
  <2>4. ASSUME NEW s \in SUBSET (1..(n + 1))
        PROVE g[s] = IF s = {} THEN base ELSE step[seq[Max(s)]][g[s \ {Max(s)}]]
    <3>1. CASE n + 1 \in s
      <4>1. Max(s) = n + 1
        BY <3>1, MaxOfInterval
      <4>2. g[s \ {n + 1}] = h[s \ {n + 1}]
        BY <2>2
      <4>3. g[s] = step[seq[n + 1]][h[s \ {n + 1}]]
        BY <3>1
      <4> QED
        BY <3>1, <4>1, <4>2, <4>3
    <3>2. CASE n + 1 \notin s
      <4>1. s \in SUBSET (1..n)
        BY <3>2
      <4>2. \A t \in SUBSET s : g[t] = h[t]
        BY <3>2
      <4>3. s \ {Max(s)} \in SUBSET s
        OBVIOUS
      <4> HIDE DEF g
      <4> QED
        BY <2>1, <4>1, <4>2, <4>3
    <3> QED
      BY <3>1, <3>2
  <2> HIDE DEF g
  <2> QED
    BY <2>3, <2>4
<1>3. N \in T
  <2> HIDE DEF T
  <2> QED BY <1>1, <1>2, Induction
<1>4. Defined(N)
  <2> HIDE DEF Defined
  <2> QED
    BY <1>3
<1>5. PICK g \in [SUBSET (1..N) -> V] : Is(g, N)
  BY <1>4
<1>6. IsFold(g, base, step, N, seq)
  BY <1>5 DEF IsFold
<1> QED
  BY <1>6

(* Induction on sequences, from the end. *)
LEMMA SeqInduction ==
    ASSUME NEW C, NEW T, << >> \in T,
           \A s \in Seq(C) : \A c \in C : s \in T => Append(s, c) \in T
    PROVE  Seq(C) \subseteq T
<1> DEFINE U == {n \in Nat : \A s \in Seq(C) : Len(s) = n => s \in T}
<1>1. 0 \in U
  OBVIOUS
<1>2. ASSUME NEW n \in Nat, n \in U PROVE n + 1 \in U
  <2> SUFFICES ASSUME NEW s \in Seq(C), Len(s) = n + 1 PROVE s \in T
    OBVIOUS
  <2> DEFINE f == SubSeq(s, 1, n)
  <2>1. f \in Seq(C) /\ Len(f) = n /\ s[n + 1] \in C
    OBVIOUS
  <2>2. s = Append(f, s[n + 1])
    OBVIOUS
  <2>3. f \in T
    BY <1>2, <2>1
  <2> HIDE DEF f
  <2> QED
    BY <2>1, <2>2, <2>3
<1>3. Nat \subseteq U
  <2> HIDE DEF U
  <2> QED
    BY <1>1, <1>2, Induction
<1> QED
  BY <1>3

(* What the loop of normalize_path has arrived at after the whole path. *)
Normalized(path) == FoldLeft(NormalizeComponent, {Root}, path)

(* The turn for each kind of component. *)
LEMMA Distinct == ParentDir # CurDir /\ \A c \in Name : c # ParentDir /\ c # CurDir
BY NameAssumption DEF ParentDir, CurDir

LEMMA NormalizeDots ==
    ASSUME NEW at
    PROVE  /\ NormalizeComponent(at, CurDir) = at
           /\ NormalizeComponent(at, ParentDir) = {Parent(p) : p \in at \ {Root}}
<1>1. NormalizeComponent(at, CurDir) = at
  BY Distinct, Zenon DEF NormalizeComponent
<1>2. NormalizeComponent(at, ParentDir) = {Parent(p) : p \in at \ {Root}}
  BY Distinct, Zenon DEF NormalizeComponent
<1> QED
  BY <1>1, <1>2

LEMMA NormalizeName ==
    ASSUME NEW at, NEW c \in Name
    PROVE  NormalizeComponent(at, c) = {Append(p, c) : p \in at}
BY Distinct, Zenon DEF NormalizeComponent

(* A turn of the loop leads from paths to paths. *)
LEMMA NormalizeComponentType ==
    ASSUME NEW at \in SUBSET Path, NEW c \in Component
    PROVE  NormalizeComponent(at, c) \in SUBSET Path
<1>1. CASE c = CurDir
  <2>1. NormalizeComponent(at, c) = at
    BY <1>1, NormalizeDots
  <2> QED
    BY <2>1
<1>2. CASE c = ParentDir
  <2>1. NormalizeComponent(at, c) = {Parent(p) : p \in at \ {Root}}
    BY <1>2, NormalizeDots
  <2>2. \A p \in at \ {Root} : Parent(p) \in Path
    BY ParentIsPath
  <2> QED
    BY <2>1, <2>2
<1>3. CASE c \in Name
  <2>1. NormalizeComponent(at, c) = {Append(p, c) : p \in at}
    BY <1>3, NormalizeName
  <2>2. \A p \in at : Append(p, c) \in Path
    BY <1>3 DEF Path
  <2> QED
    BY <2>1, <2>2
<1> QED
  BY <1>1, <1>2, <1>3 DEF Component

(* The loop, turn by turn. *)
LEMMA NormalizeTurns ==
    ASSUME NEW path \in Seq(Component)
    PROVE  \E at \in [0..Len(path) -> SUBSET Path] :
             /\ at[0] = {Root}
             /\ \A k \in 1..Len(path) : at[k] = NormalizeComponent(at[k - 1], path[k])
             /\ Normalized(path) = at[Len(path)]
<1> DEFINE N == Len(path)
           Is(h) == h = [s \in SUBSET (DOMAIN path) |->
                           IF s = {} THEN {Root}
                           ELSE NormalizeComponent(h[s \ {Max(s)}], path[Max(s)])]
           f == CHOOSE h : Is(h)
           step == [c \in Component |-> [at \in SUBSET Path |-> NormalizeComponent(at, c)]]
<1>1. Normalized(path) = f[DOMAIN path]
  BY Zenon DEF Normalized, FoldLeft, MapThenFoldSet
<1>2. /\ N \in Nat /\ DOMAIN path = 1..N /\ path \in [1..N -> Component]
      /\ {Root} \in SUBSET Path
  BY DEF Path, Root
<1>3. step \in [Component -> [SUBSET Path -> SUBSET Path]]
  BY NormalizeComponentType
<1>4. PICK g \in [SUBSET (1..N) -> SUBSET Path] : IsFold(g, {Root}, step, N, path)
  <2> HIDE DEF step, N
  <2> QED
    BY <1>2, <1>3, FoldExists
<1>5. ASSUME NEW s \in SUBSET (1..N), s # {}
      PROVE  /\ Max(s) \in 1..N /\ s \ {Max(s)} \in SUBSET (1..N)
             /\ step[path[Max(s)]][g[s \ {Max(s)}]] =
                  NormalizeComponent(g[s \ {Max(s)}], path[Max(s)])
  <2>1. Max(s) \in s
    BY <1>2, <1>5, MaxInSet
  <2>2. path[Max(s)] \in Component /\ g[s \ {Max(s)}] \in SUBSET Path
    BY <1>2, <1>4, <2>1
  <2> QED
    BY <2>1, <2>2
<1>6. Is(g)
  BY <1>2, <1>4, <1>5 DEF IsFold
<1>7. Is(f)
  <2> HIDE DEF Is
  <2> QED
    BY <1>6
<1> HIDE DEF f, step
<1> DEFINE at == [k \in 0..N |-> f[1..k]]
<1>8. at[0] = {Root}
  <2>1. 1..0 \in SUBSET (DOMAIN path) /\ 1..0 = {}
    BY <1>2
  <2>2. f[1..0] = {Root}
    BY <1>7, <2>1
  <2> QED
    BY <1>2, <2>2
<1>9. ASSUME NEW k \in 1..N PROVE at[k] = NormalizeComponent(at[k - 1], path[k])
  <2>1. 1..k \in SUBSET (DOMAIN path) /\ 1..k # {} /\ k \in 1..k /\ (1..k) \ {k} = 1..(k - 1)
    BY <1>2
  <2>2. Max(1..k) = k
    <3>1. k - 1 \in Nat /\ k = (k - 1) + 1
      BY <1>2
    <3> QED
      BY <2>1, <3>1, MaxOfInterval
  <2>3. f[1..k] = NormalizeComponent(f[1..(k - 1)], path[k])
    BY <1>7, <2>1, <2>2
  <2> QED
    BY <1>2, <2>3
<1>10. \A k \in 0..N : at[k] \in SUBSET Path
  <2> DEFINE T == {k \in Nat : k <= N => at[k] \in SUBSET Path}
  <2> HIDE DEF at
  <2>1. 0 \in T
    BY <1>2, <1>8
  <2>2. ASSUME NEW k \in Nat, k \in T PROVE k + 1 \in T
    <3> SUFFICES ASSUME k + 1 <= N PROVE at[k + 1] \in SUBSET Path
      OBVIOUS
    <3>1. k + 1 \in 1..N /\ path[k + 1] \in Component /\ at[k] \in SUBSET Path
      BY <1>2, <2>2
    <3>2. at[k + 1] = NormalizeComponent(at[k], path[k + 1])
      BY <1>9, <3>1
    <3> QED
      BY <3>1, <3>2, NormalizeComponentType
  <2> HIDE DEF T
  <2>3. Nat \subseteq T
    BY <2>1, <2>2, Induction
  <2> USE DEF T
  <2> QED
    BY <1>2, <2>3
<1>11. at \in [0..N -> SUBSET Path] /\ at[N] = f[1..N]
  BY <1>2, <1>10
<1> HIDE DEF at
<1> QED
  BY <1>1, <1>2, <1>8, <1>9, <1>11

(* One more component is one more turn. *)
LEMMA NormalizedAppend ==
    ASSUME NEW path \in Seq(Component), NEW c \in Component
    PROVE  Normalized(Append(path, c)) = NormalizeComponent(Normalized(path), c)
<1> DEFINE N == Len(path)
           longer == Append(path, c)
<1>1. PICK at \in [0..N -> SUBSET Path] :
         /\ at[0] = {Root}
         /\ \A k \in 1..N : at[k] = NormalizeComponent(at[k - 1], path[k])
         /\ Normalized(path) = at[N]
  BY NormalizeTurns
<1>2. /\ longer \in Seq(Component) /\ Len(longer) = N + 1 /\ N \in Nat
      /\ longer[N + 1] = c /\ \A k \in 1..N : longer[k] = path[k]
  OBVIOUS
<1>3. PICK further \in [0..(N + 1) -> SUBSET Path] :
         /\ further[0] = {Root}
         /\ \A k \in 1..(N + 1) : further[k] = NormalizeComponent(further[k - 1], longer[k])
         /\ Normalized(longer) = further[N + 1]
  <2> HIDE DEF longer, N
  <2> QED
    BY <1>2, NormalizeTurns
<1> DEFINE T == {k \in Nat : k <= N => further[k] = at[k]}
<1> HIDE DEF longer, N
<1>4. 0 \in T
  BY <1>1, <1>3
<1>5. ASSUME NEW k \in Nat, k \in T PROVE k + 1 \in T
  <2> SUFFICES ASSUME k + 1 <= N PROVE further[k + 1] = at[k + 1]
    OBVIOUS
  <2>1. k + 1 \in 1..N /\ k + 1 \in 1..(N + 1) /\ further[k] = at[k] /\ (k + 1) - 1 = k
    BY <1>2, <1>5
  <2>2. at[k + 1] = NormalizeComponent(at[k], path[k + 1])
    BY <1>1, <2>1
  <2>3. further[k + 1] = NormalizeComponent(further[k], path[k + 1])
    BY <1>2, <1>3, <2>1
  <2> QED
    BY <2>1, <2>2, <2>3
<1>6. N \in T
  <2> HIDE DEF T
  <2> QED
    BY <1>2, <1>4, <1>5, Induction
<1>7. further[N + 1] = NormalizeComponent(further[N], c)
  <2>1. N + 1 \in 1..(N + 1) /\ (N + 1) - 1 = N
    BY <1>2
  <2> QED
    BY <1>2, <1>3, <2>1
<1>8. further[N] = at[N]
  BY <1>2, <1>6
<1> QED
  BY <1>1, <1>3, <1>7, <1>8 DEF longer

LEMMA NormalizedEmpty == Normalized(<< >>) = {Root}
<1>1. << >> \in Seq(Component) /\ Len(<< >>) = 0
  OBVIOUS
<1> QED
  BY <1>1, NormalizeTurns

(* The loop holds at most one path, so NormalizePath is what it arrives at. *)
LEMMA NormalizedIs ==
    ASSUME NEW path \in Seq(Component)
    PROVE  /\ NormalizePath(path) = Normalized(path)
           /\ Normalized(path) = {} \/ \E p \in Path : Normalized(path) = {p}
<1> DEFINE Single(at) == at = {} \/ \E p \in Path : at = {p}
           T == {s \in Seq(Component) : Single(Normalized(s))}
<1>1. << >> \in T
  <2>1. << >> \in Seq(Component) /\ Root \in Path
    BY DEF Root, Path
  <2> QED
    BY <2>1, NormalizedEmpty
<1>2. ASSUME NEW s \in Seq(Component), NEW c \in Component, s \in T
      PROVE  Append(s, c) \in T
  <2> DEFINE at == Normalized(s)
  <2>1. Single(at) /\ Normalized(Append(s, c)) = NormalizeComponent(at, c)
    BY <1>2, NormalizedAppend
  <2> HIDE DEF at
  <2>2. Single(NormalizeComponent(at, c))
    <3>1. CASE c = CurDir
      BY <2>1, <3>1, NormalizeDots
    <3>2. CASE c = ParentDir
      <4>1. CASE at \in {{}, {Root}}
        BY <3>2, <4>1, NormalizeDots
      <4>2. CASE \E p \in Path \ {Root} : at = {p}
        <5>1. PICK p \in Path \ {Root} : at = {p}
          BY <4>2
        <5>2. {Parent(q) : q \in at \ {Root}} = {Parent(p)} /\ Parent(p) \in Path
          BY <5>1, ParentIsPath
        <5> QED
          BY <3>2, <5>2, NormalizeDots
      <4> QED
        BY <2>1, <4>1, <4>2
    <3>3. CASE c \in Name
      <4>1. CASE at = {}
        BY <3>3, <4>1, NormalizeName
      <4>2. CASE \E p \in Path : at = {p}
        <5>1. PICK p \in Path : at = {p}
          BY <4>2
        <5>2. {Append(q, c) : q \in at} = {Append(p, c)} /\ Append(p, c) \in Path
          BY <3>3, <5>1 DEF Path
        <5> QED
          BY <3>3, <5>2, NormalizeName
      <4> QED
        BY <2>1, <4>1, <4>2
    <3> QED
      BY <3>1, <3>2, <3>3 DEF Component
  <2> QED
    BY <2>1, <2>2
<1>3. Seq(Component) \subseteq T
  <2> HIDE DEF T
  <2> QED
    BY <1>1, <1>2, SeqInduction
<1>4. Single(Normalized(path))
  BY <1>3
<1>5. NormalizePath(path) = {p \in Normalized(path) \cap Path : Normalized(path) = {p}}
  BY DEF NormalizePath, Normalized
<1> QED
  BY <1>4, <1>5

-----------------------------------------------------------------------------
(* Each operation preserves the tree. *)

LEMMA InsertPreservesTree ==
    ASSUME TreeInv, NEW p \in Path, NEW data \in Seq(Byte),
           MayWrite(p), Insert(p, data), UNCHANGED namespaces
    PROVE  TreeInv'
<1>1. DOMAIN objects' = DOMAIN objects \cup {p}
  BY DEF Insert
<1>2. StorageTypeOK'
  BY <1>1 DEF TreeInv, StorageTypeOK, Insert
<1>3. NoOrphans'
  BY <1>1 DEF TreeInv, NoOrphans, MayWrite
<1>4. KindsDisjoint'
  BY <1>1 DEF TreeInv, KindsDisjoint, MayWrite
<1> QED
  BY <1>2, <1>3, <1>4 DEF TreeInv

LEMMA PutObjectPreservesTree ==
    ASSUME TreeInv, NEW path, NEW data \in Seq(Byte), PutObject(path, data)
    PROVE  TreeInv'
BY NormalizedIsPath, InsertPreservesTree DEF PutObject

(* What a path holds before an append, if anything, is a byte string. *)
LEMMA ContentIsBytes ==
    ASSUME StorageTypeOK, NEW p
    PROVE  ContentOrEmpty(p) \in Seq(Byte)
BY DEF StorageTypeOK, ContentOrEmpty

LEMMA AppendObjectPreservesTree ==
    ASSUME TreeInv, NEW path, NEW data \in Seq(Byte), AppendObject(path, data)
    PROVE  TreeInv'
<1>1. PICK p \in NormalizePath(path) :
          /\ MayWrite(p)
          /\ Insert(p, ContentOrEmpty(p) \o data)
          /\ UNCHANGED namespaces
  BY DEF AppendObject
<1>2. ContentOrEmpty(p) \o data \in Seq(Byte)
  BY ContentIsBytes, ConcatProperties DEF TreeInv
<1> QED
  BY <1>1, <1>2, NormalizedIsPath, InsertPreservesTree

LEMMA DeleteObjectPreservesTree ==
    ASSUME TreeInv, NEW path, DeleteObject(path)
    PROVE  TreeInv'
BY DEF TreeInv, StorageTypeOK, NoOrphans, KindsDisjoint, DeleteObject

LEMMA CreateNamespacePreservesTree ==
    ASSUME TreeInv, NEW path, CreateNamespace(path)
    PROVE  TreeInv'
<1>1. PICK p \in NormalizePath(path) :
          /\ MayCreateNamespace(p)
          /\ namespaces' = namespaces \cup {p}
          /\ UNCHANGED objects
  BY DEF CreateNamespace
<1>2. p \in Path
  BY NormalizedIsPath
<1> QED
  BY <1>1, <1>2
  DEF TreeInv, StorageTypeOK, NoOrphans, KindsDisjoint, MayCreateNamespace

(* The prefix test of delete_namespace covers every direct child. *)
LEMMA DeleteNamespacePreservesTree ==
    ASSUME TreeInv, NEW path, DeleteNamespace(path)
    PROVE  TreeInv'
<1>1. PICK p \in NormalizePath(path) :
          /\ MayDeleteNamespace(p)
          /\ namespaces' = namespaces \ {p}
          /\ UNCHANGED objects
  BY DEF DeleteNamespace
<1>2. \A o \in DOMAIN objects : o # Root /\ Parent(o) # p
  <2> SUFFICES ASSUME NEW o \in DOMAIN objects, o # Root PROVE Parent(o) # p
    BY DEF TreeInv, NoOrphans
  <2>1. o \in Path
    BY DEF TreeInv, StorageTypeOK
  <2> QED
    BY <1>1, <2>1, ParentIsPath DEF MayDeleteNamespace, HasChildren
<1>3. \A n \in namespaces \ {Root} : Parent(n) # p
  <2> SUFFICES ASSUME NEW n \in namespaces \ {Root}, Parent(n) = p PROVE FALSE
    OBVIOUS
  <2>1. n \in Path
    BY DEF TreeInv, StorageTypeOK
  <2> QED
    BY <1>1, <2>1, ParentIsPath DEF MayDeleteNamespace, HasChildren
<1>4. StorageTypeOK' /\ KindsDisjoint'
  BY <1>1 DEF TreeInv, StorageTypeOK, KindsDisjoint, MayDeleteNamespace
<1>5. NoOrphans'
  BY <1>1, <1>2, <1>3 DEF TreeInv, NoOrphans
<1> QED
  BY <1>4, <1>5 DEF TreeInv

LEMMA NextPreservesTree == TreeInv /\ [StorageNext]_storage => TreeInv'
<1> SUFFICES ASSUME TreeInv, [StorageNext]_storage PROVE TreeInv'
  OBVIOUS
<1> USE StorageAssumption
<1>1. CASE UNCHANGED storage
  BY <1>1 DEF storage, TreeInv, StorageTypeOK, NoOrphans, KindsDisjoint
<1>2. ASSUME NEW path \in RawPath, NEW data \in Data, PutObject(path, data)
      PROVE  TreeInv'
  BY <1>2, PutObjectPreservesTree
<1>3. ASSUME NEW path \in RawPath, NEW data \in Data, AppendObject(path, data)
      PROVE  TreeInv'
  BY <1>3, AppendObjectPreservesTree
<1>4. ASSUME NEW path \in RawPath, DeleteObject(path) PROVE TreeInv'
  BY <1>4, DeleteObjectPreservesTree
<1>5. ASSUME NEW path \in RawPath, CreateNamespace(path) PROVE TreeInv'
  BY <1>5, CreateNamespacePreservesTree
<1>6. ASSUME NEW path \in RawPath, DeleteNamespace(path) PROVE TreeInv'
  BY <1>6, DeleteNamespacePreservesTree
<1> QED
  BY <1>1, <1>2, <1>3, <1>4, <1>5, <1>6 DEF StorageNext

LEMMA InitEstablishesTree == StorageInit => TreeInv
BY DEF StorageInit, TreeInv, StorageTypeOK, NoOrphans, KindsDisjoint, Path, Root

(***************************************************************************)
(* The inductive invariant: the tree is well typed, has no orphans, and no *)
(* path is both an object and a namespace, after any sequence of storage   *)
(* operations.                                                             *)
(***************************************************************************)
THEOREM TreeCorrect == StorageSpec => []TreeInv
BY InitEstablishesTree, NextPreservesTree, PTL DEF StorageSpec

(***************************************************************************)
(* No operation of MemoryStorage ever leaves an object or a namespace      *)
(* without the namespace it sits in.                                       *)
(***************************************************************************)
THEOREM NeverOrphans == StorageSpec => []NoOrphans
<1>1. TreeInv => NoOrphans
  BY DEF TreeInv
<1> QED
  BY <1>1, TreeCorrect, PTL

-----------------------------------------------------------------------------
(* The namespaces above a path.  That they all exist needs no induction on  *)
(* paths: every operation keeps it so.                                      *)

(* Cutting short what was cut short. *)
LEMMA ShorterPrefix ==
    ASSUME NEW S, NEW s \in Seq(S), NEW m \in Nat, NEW n \in Nat, n <= m, m <= Len(s)
    PROVE  SubSeq(SubSeq(s, 1, m), 1, n) = SubSeq(s, 1, n)
<1> DEFINE t == SubSeq(s, 1, m)
<1>1. t \in Seq(S) /\ Len(t) = m /\ \A i \in 1..m : t[i] = s[i]
  OBVIOUS
<1>2. /\ SubSeq(t, 1, n) \in Seq(S) /\ Len(SubSeq(t, 1, n)) = n
      /\ \A i \in 1..n : SubSeq(t, 1, n)[i] = t[i]
  BY <1>1
<1>3. /\ SubSeq(s, 1, n) \in Seq(S) /\ Len(SubSeq(s, 1, n)) = n
      /\ \A i \in 1..n : SubSeq(s, 1, n)[i] = s[i]
  OBVIOUS
<1> QED
  BY <1>1, <1>2, <1>3, SeqEqual

(* What lies above a path is its parent and what lies above that. *)
LEMMA AboveIsParentOrAboveIt ==
    ASSUME NEW p \in Path, p # Root, NEW n \in 0..(Len(p) - 1)
    PROVE  \/ SubSeq(p, 1, n) = Parent(p)
           \/ n \in 0..(Len(Parent(p)) - 1) /\ SubSeq(p, 1, n) = SubSeq(Parent(p), 1, n)
<1>1. p \in Seq(Name) /\ Len(p) \in Nat \ {0}
  BY EmptySeq DEF Path, Root
<1>2. Len(Parent(p)) = Len(p) - 1
  BY ParentIsPath
<1>3. CASE n = Len(p) - 1
  BY <1>3 DEF Parent
<1>4. CASE n # Len(p) - 1
  BY <1>1, <1>2, <1>4, ShorterPrefix DEF Parent
<1> QED
  BY <1>3, <1>4

(* A new object or namespace in an existing namespace. *)
LEMMA AddingKeepsAncestors ==
    ASSUME TreeInv, AncestorsExist, NEW p \in Path, p # Root, Parent(p) \in namespaces,
           DOMAIN objects' \cup namespaces' = DOMAIN objects \cup namespaces \cup {p},
           namespaces \subseteq namespaces'
    PROVE  AncestorsExist'
<1> SUFFICES ASSUME NEW q \in DOMAIN objects' \cup namespaces', NEW n \in 0..(Len(q) - 1)
             PROVE  SubSeq(q, 1, n) \in namespaces'
  BY DEF AncestorsExist
<1>1. CASE q = p
  BY <1>1, AboveIsParentOrAboveIt DEF AncestorsExist
<1>2. CASE q # p
  BY <1>2 DEF AncestorsExist
<1> QED
  BY <1>1, <1>2

(* Removing one that nothing starts with. *)
LEMMA RemovingKeepsAncestors ==
    ASSUME TreeInv, AncestorsExist, NEW p \in Path, MayDeleteNamespace(p),
           namespaces' = namespaces \ {p}, UNCHANGED objects
    PROVE  AncestorsExist'
<1> SUFFICES ASSUME NEW q \in DOMAIN objects \cup (namespaces \ {p}),
                    NEW n \in 0..(Len(q) - 1)
             PROVE  SubSeq(q, 1, n) \in namespaces \ {p}
  BY DEF AncestorsExist
<1>1. SubSeq(q, 1, n) \in namespaces
  BY DEF AncestorsExist
<1>2. SubSeq(q, 1, n) # p
  <2> SUFFICES ASSUME SubSeq(q, 1, n) = p PROVE FALSE
    OBVIOUS
  <2>1. q \in Seq(Name)
    BY DEF TreeInv, StorageTypeOK, Path
  <2>2. Len(p) = n /\ n <= Len(q) /\ n # Len(q)
    BY <2>1
  <2>3. StartsWith(q, p)
    BY <2>1, <2>2, PrefixOfPrefix DEF StartsWith, IsPrefix
  <2> QED
    BY <2>2, <2>3 DEF MayDeleteNamespace, HasChildren
<1> QED
  BY <1>1, <1>2

LEMMA OperationKeepsAncestors ==
    ASSUME TreeInv, AncestorsExist, NEW path, NEW data,
           \/ UNCHANGED storage
           \/ PutObject(path, data)
           \/ AppendObject(path, data)
           \/ DeleteObject(path)
           \/ CreateNamespace(path)
           \/ DeleteNamespace(path)
    PROVE  AncestorsExist'
<1>1. CASE UNCHANGED storage
  BY <1>1 DEF storage, AncestorsExist
<1>2. CASE PutObject(path, data) \/ AppendObject(path, data)
  <2>1. PICK p \in NormalizePath(path) :
            MayWrite(p) /\ (\E bytes : Insert(p, bytes)) /\ UNCHANGED namespaces
    BY <1>2 DEF PutObject, AppendObject
  <2>2. DOMAIN objects' = DOMAIN objects \cup {p}
    BY <2>1 DEF Insert
  <2> QED
    BY <2>1, <2>2, NormalizedIsPath, AddingKeepsAncestors DEF MayWrite
<1>3. CASE DeleteObject(path)
  BY <1>3 DEF DeleteObject, AncestorsExist
<1>4. CASE CreateNamespace(path)
  <2>1. PICK p \in NormalizePath(path) :
            /\ MayCreateNamespace(p)
            /\ namespaces' = namespaces \cup {p}
            /\ UNCHANGED objects
    BY <1>4 DEF CreateNamespace
  <2>2. CASE p = Root
    BY <2>1, <2>2 DEF TreeInv, StorageTypeOK, AncestorsExist
  <2>3. CASE p # Root
    BY <2>1, <2>3, NormalizedIsPath, AddingKeepsAncestors DEF MayCreateNamespace
  <2> QED
    BY <2>2, <2>3
<1>5. CASE DeleteNamespace(path)
  BY <1>5, NormalizedIsPath, RemovingKeepsAncestors DEF DeleteNamespace
<1> QED
  BY <1>1, <1>2, <1>3, <1>4, <1>5

LEMMA InitAncestors == StorageInit => AncestorsExist
BY EmptySeq DEF StorageInit, AncestorsExist, Root

(***************************************************************************)
(* With every object and namespace of the store, each namespace on the way *)
(* to it from "/" is there.                                                *)
(***************************************************************************)
THEOREM AncestorsAlwaysExist == StorageSpec => []AncestorsExist
<1>1. TreeInv /\ AncestorsExist /\ [StorageNext]_storage => AncestorsExist'
  BY OperationKeepsAncestors DEF StorageNext
<1> QED
  BY <1>1, InitAncestors, TreeCorrect, PTL DEF StorageSpec

(* Below a namespace that is not empty there is something directly in it. *)
LEMMA ChildOnTheWay ==
    ASSUME TreeInv, AncestorsExist, NEW p \in namespaces,
           NEW q \in DOMAIN objects \cup namespaces, q # p, StartsWith(q, p)
    PROVE  \E r \in DOMAIN objects \cup namespaces : r # Root /\ Parent(r) = p
<1>1. p \in Seq(Name) /\ q \in Seq(Name)
  BY DEF TreeInv, StorageTypeOK, Path
<1>2. Len(p) <= Len(q) /\ p = SubSeq(q, 1, Len(p))
  BY <1>1, SubSeqFull DEF StartsWith, IsPrefix
<1>3. Len(p) # Len(q)
  BY <1>1, <1>2, SubSeqFull
<1> DEFINE r == SubSeq(q, 1, Len(p) + 1)
<1>4. Len(p) + 1 \in Nat /\ Len(p) + 1 <= Len(q)
  BY <1>1, <1>2, <1>3
<1>5. r \in Seq(Name) /\ Len(r) = Len(p) + 1
  BY <1>1, <1>4
<1>6. Parent(r) = p
  BY <1>1, <1>2, <1>4, <1>5, ShorterPrefix DEF Parent
<1>7. r \in DOMAIN objects \cup namespaces
  <2>1. CASE Len(p) + 1 = Len(q)
    BY <1>1, <2>1, SubSeqFull
  <2>2. CASE Len(p) + 1 # Len(q)
    BY <1>1, <1>4, <2>2 DEF AncestorsExist
  <2> QED
    BY <2>1, <2>2
<1> HIDE DEF r
<1>8. r # Root
  BY <1>1, <1>5, EmptySeq DEF Root
<1> QED
  BY <1>6, <1>7, <1>8

(***************************************************************************)
(* rmdir says "Namespace is not empty", by its prefix test over the whole  *)
(* store, exactly when ls shows something directly below it.               *)
(***************************************************************************)
THEOREM RefusesExactlyNonEmpty == StorageSpec => []EmptyMeansListedEmpty
<1>1. ASSUME TreeInv, AncestorsExist, NEW p \in namespaces
      PROVE  HasChildren(p) <=> ListNamespace(p) # {}
  <2>1. ASSUME HasChildren(p) PROVE ListNamespace(p) # {}
    <3>1. PICK q \in DOMAIN objects \cup namespaces : q # p /\ StartsWith(q, p)
      BY <1>1, <2>1 DEF HasChildren, TreeInv, KindsDisjoint
    <3>2. PICK r \in DOMAIN objects \cup namespaces : r # Root /\ Parent(r) = p
      BY <1>1, <3>1, ChildOnTheWay
    <3>3. CASE r \in namespaces
      BY <3>2, <3>3 DEF ListNamespace
    <3>4. CASE r \in DOMAIN objects
      BY <3>2, <3>4 DEF ListNamespace
    <3> QED
      BY <3>3, <3>4
  <2>2. ASSUME ListNamespace(p) # {} PROVE HasChildren(p)
    <3>1. PICK r \in DOMAIN objects \cup namespaces : r # Root /\ Parent(r) = p
      BY <2>2 DEF ListNamespace
    <3>2. r \in Path
      BY <1>1 DEF TreeInv, StorageTypeOK
    <3>3. r # p /\ StartsWith(r, p)
      BY <3>1, <3>2, ParentIsPath
    <3> QED
      BY <3>1, <3>3 DEF HasChildren
  <2> QED
    BY <2>1, <2>2
<1>2. TreeInv /\ AncestorsExist => EmptyMeansListedEmpty
  BY <1>1 DEF EmptyMeansListedEmpty
<1> QED
  BY <1>2, TreeCorrect, AncestorsAlwaysExist, PTL

-----------------------------------------------------------------------------
(* The refinement: each storage operation is the operation of the contract  *)
(* with the corresponding name, at the normalized path.                     *)

(* The contract speaks of the same root and the same parents. *)
LEMMA SamePaths ==
    ASSUME NEW p
    PROVE  Contract!Root = Root /\ Contract!Parent(p) = Parent(p)
BY DEF Contract!Root, Root, Contract!Parent, Parent

LEMMA NamespaceInTree ==
    ASSUME NEW p
    PROVE  Contract!HasNamespace(p) <=> p \in namespaces
BY DEF Contract!HasNamespace, Tree, Node

LEMMA ObjectInTree ==
    ASSUME KindsDisjoint, NEW p
    PROVE  /\ Contract!HasObject(p) <=> p \in DOMAIN objects
           /\ p \in DOMAIN objects => Tree[p].data = objects[p]
BY DEF Contract!HasObject, Tree, Node, KindsDisjoint

LEMMA InsertIsSet ==
    ASSUME TreeInv, NEW p, NEW data,
           MayWrite(p), Insert(p, data), UNCHANGED namespaces
    PROVE  Contract!Set(p, Contract!ObjectNode(data))
BY DEF TreeInv, KindsDisjoint, MayWrite, Insert, Contract!Set, Contract!ObjectNode, Tree, Node

LEMMA StepImplementsContract ==
    TreeInv /\ [StorageNext]_storage => [Contract!Next]_Tree
<1> SUFFICES ASSUME TreeInv, [StorageNext]_storage, Tree' # Tree
             PROVE  Contract!Next
  OBVIOUS
<1>1. CASE UNCHANGED storage
  BY <1>1 DEF storage, Tree, Node
<1>2. ASSUME NEW path \in RawPath, NEW data \in Data, PutObject(path, data)
      PROVE  Contract!Next
  <2>1. PICK p \in NormalizePath(path) :
            MayWrite(p) /\ Insert(p, data) /\ UNCHANGED namespaces
    BY <1>2 DEF PutObject
  <2>2. Contract!Put(p, data)
    BY <2>1, InsertIsSet, NamespaceInTree, SamePaths DEF Contract!Put, MayWrite
  <2> QED
    BY <2>2 DEF Contract!Next
<1>3. ASSUME NEW path \in RawPath, NEW data \in Data, AppendObject(path, data)
      PROVE  Contract!Next
  <2>1. PICK p \in NormalizePath(path) :
            /\ MayWrite(p)
            /\ Insert(p, ContentOrEmpty(p) \o data)
            /\ UNCHANGED namespaces
    BY <1>3 DEF AppendObject
  <2>2. ContentOrEmpty(p) \o data
          = IF Contract!HasObject(p) THEN Tree[p].data \o data ELSE data
    <3>1. data \in Seq(Byte)
      BY StorageAssumption
    <3>2. << >> \o data = data
      BY <3>1, ConcatEmptySeq
    <3>3. CASE p \in DOMAIN objects
      <4>1. Contract!HasObject(p) /\ Tree[p].data = objects[p]
        BY <3>3, ObjectInTree DEF TreeInv
      <4>2. ContentOrEmpty(p) = objects[p]
        BY <3>3 DEF ContentOrEmpty
      <4> QED
        BY <4>1, <4>2, Zenon
    <3>4. CASE p \notin DOMAIN objects
      BY <3>2, <3>4, ObjectInTree DEF TreeInv, ContentOrEmpty
    <3> QED
      BY <3>3, <3>4
  <2>3. Contract!Extend(p, data)
    BY <2>1, <2>2, InsertIsSet, NamespaceInTree, SamePaths DEF Contract!Extend, MayWrite
  <2> QED
    BY <2>3 DEF Contract!Next
<1>4. ASSUME NEW path \in RawPath, DeleteObject(path) PROVE Contract!Next
  <2>1. PICK p \in NormalizePath(path) :
            /\ p \in DOMAIN objects
            /\ objects' = [q \in DOMAIN objects \ {p} |-> objects[q]]
            /\ UNCHANGED namespaces
    BY <1>4 DEF DeleteObject
  <2>2. Contract!RemoveObject(p)
    BY <2>1, ObjectInTree
    DEF TreeInv, KindsDisjoint, Contract!RemoveObject, Contract!Clear, Tree, Node
  <2> QED
    BY <2>2 DEF Contract!Next
<1>5. ASSUME NEW path \in RawPath, CreateNamespace(path) PROVE Contract!Next
  <2>1. PICK p \in NormalizePath(path) :
            /\ MayCreateNamespace(p)
            /\ namespaces' = namespaces \cup {p}
            /\ UNCHANGED objects
    BY <1>5 DEF CreateNamespace
  <2>2. p \notin namespaces
    BY <2>1 DEF Tree, Node
  <2>3. Contract!MakeNamespace(p)
    BY <2>1, <2>2, NamespaceInTree, SamePaths
    DEF TreeInv, StorageTypeOK, MayCreateNamespace, Contract!MakeNamespace,
        Contract!Vacant, Contract!Set, Contract!NamespaceNode, Tree, Node
  <2> QED
    BY <2>3 DEF Contract!Next
<1>6. ASSUME NEW path \in RawPath, DeleteNamespace(path) PROVE Contract!Next
  <2>1. PICK p \in NormalizePath(path) :
            /\ MayDeleteNamespace(p)
            /\ namespaces' = namespaces \ {p}
            /\ UNCHANGED objects
    BY <1>6 DEF DeleteNamespace
  <2>2. \A q \in DOMAIN Tree \ {Root} : Parent(q) # p
    <3> SUFFICES ASSUME NEW q \in (DOMAIN objects \cup namespaces) \ {Root},
                        Parent(q) = p
                 PROVE  FALSE
      BY DEF Tree
    <3>1. q \in Path
      BY DEF TreeInv, StorageTypeOK
    <3> QED
      BY <2>1, <3>1, ParentIsPath DEF MayDeleteNamespace, HasChildren
  <2>3. p \notin DOMAIN objects
    BY <2>1 DEF TreeInv, KindsDisjoint, MayDeleteNamespace
  <2>4. Contract!RemoveNamespace(p)
    BY <2>1, <2>2, <2>3, NamespaceInTree, SamePaths
    DEF MayDeleteNamespace, Contract!RemoveNamespace, Contract!Clear, Tree, Node
  <2> QED
    BY <2>4 DEF Contract!Next
<1> QED
  BY <1>1, <1>2, <1>3, <1>4, <1>5, <1>6 DEF StorageNext

LEMMA InitImplementsContract == StorageInit => Contract!Init
BY SamePaths DEF StorageInit, Contract!Init, Contract!NamespaceNode, Tree, Node

(***************************************************************************)
(* MemoryStorage implements the StorageBackend contract: its two maps      *)
(* behave as one tree on which each operation takes effect at once.        *)
(***************************************************************************)
THEOREM MemoryStorageImplementsContract == StorageSpec => ImplementsContract
<1>1. StorageInit => Contract!Init
  BY InitImplementsContract
<1>2. TreeInv /\ [StorageNext]_storage => [Contract!Next]_Tree
  BY StepImplementsContract
<1> QED
  BY <1>1, <1>2, TreeCorrect, PTL DEF StorageSpec, ImplementsContract, Contract!Spec
=============================================================================
