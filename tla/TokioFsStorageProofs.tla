------------------------ MODULE TokioFsStorageProofs ------------------------
(***************************************************************************)
(* For any number of sessions on the file-system backend, interleaved at   *)
(* every file-system call, each of which may fail: paths mean what they    *)
(* mean to MemoryStorage, no directory appears that nobody asked for, and  *)
(* appends and chunked reads deliver what they promise.                    *)
(***************************************************************************)
EXTENDS TokioFsStorage, MemoryStorageProofs

-----------------------------------------------------------------------------
(* What resolve_path returns. *)

(* A step along the text of a path, for each kind of component. *)
LEMMA LexicalDots ==
    ASSUME NEW at
    PROVE  /\ LexicalStep(at, CurDir) = at
           /\ LexicalStep(at, ParentDir) = {LexicalParent(p) : p \in at}
<1>1. LexicalStep(at, CurDir) = at
  BY Distinct, Zenon DEF LexicalStep
<1>2. LexicalStep(at, ParentDir) = {LexicalParent(p) : p \in at}
  BY Distinct, Zenon DEF LexicalStep
<1> QED
  BY <1>1, <1>2

LEMMA LexicalName ==
    ASSUME NEW at, NEW c \in Name
    PROVE  LexicalStep(at, c) = {Append(p, c) : p \in at}
BY Distinct, Zenon DEF LexicalStep

LEMMA LexicalStepType ==
    ASSUME NEW at \in SUBSET Path, NEW c \in Component
    PROVE  LexicalStep(at, c) \in SUBSET Path
<1>1. CASE c = CurDir
  BY <1>1, LexicalDots
<1>2. CASE c = ParentDir
  <2>1. \A p \in at : LexicalParent(p) \in Path
    BY ParentIsPath DEF LexicalParent
  <2> QED
    BY <1>2, <2>1, LexicalDots
<1>3. CASE c \in Name
  <2>1. \A p \in at : Append(p, c) \in Path
    BY <1>3 DEF Path
  <2>2. {Append(p, c) : p \in at} \subseteq Path
    BY <2>1
  <2>3. LexicalStep(at, c) = {Append(p, c) : p \in at}
    BY <1>3, LexicalName
  <2> QED
    BY <2>2, <2>3
<1> QED
  BY <1>1, <1>2, <1>3 DEF Component

(* A step leads from one place to one place, from fewer to fewer. *)
LEMMA LexicalStepOne ==
    ASSUME NEW p \in Path, NEW c \in Component
    PROVE  \E q \in Path : LexicalStep({p}, c) = {q}
<1>1. CASE c = CurDir
  BY <1>1, LexicalDots
<1>2. CASE c = ParentDir
  <2>1. LexicalStep({p}, c) = {LexicalParent(p)}
    BY <1>2, LexicalDots
  <2> QED
    BY <2>1, LexicalStepType
<1>3. CASE c \in Name
  <2>1. LexicalStep({p}, c) = {Append(p, c)}
    BY <1>3, LexicalName
  <2> QED
    BY <2>1, LexicalStepType
<1> QED
  BY <1>1, <1>2, <1>3 DEF Component

LEMMA LexicalStepFewer ==
    ASSUME NEW some, NEW more, some \subseteq more, NEW c \in Component
    PROVE  LexicalStep(some, c) \subseteq LexicalStep(more, c)
<1>1. CASE c = CurDir
  BY <1>1, LexicalDots
<1>2. CASE c = ParentDir
  BY <1>2, LexicalDots
<1>3. CASE c \in Name
  BY <1>3, LexicalName
<1> QED
  BY <1>1, <1>2, <1>3 DEF Component

(* The places that exist, in the base directory and out of it. *)
Existing == Outside \cup InBase(InUse)

(* A step of canonicalize is one along the text, to what exists. *)
LEMMA WalkWithin ==
    ASSUME NEW at, NEW c \in Component
    PROVE  Walk(at, c) \subseteq LexicalStep(at, c) /\ Walk(at, c) \subseteq Existing
<1> DEFINE from == at \cap (Outside \cup InBase(dirs))
<1>1. from \subseteq at
  OBVIOUS
<1>2. Walk(at, c) = LexicalStep(from, c) \cap Existing
  BY DEF Walk, Existing
<1> HIDE DEF from
<1>3. LexicalStep(from, c) \subseteq LexicalStep(at, c)
  BY <1>1, LexicalStepFewer
<1> QED
  BY <1>2, <1>3

LEMMA WalkType ==
    ASSUME NEW at \in SUBSET Path, NEW c \in Component
    PROVE  Walk(at, c) \in SUBSET Path
BY WalkWithin, LexicalStepType

(* The steps of a path, one after the other. *)
LEMMA LexicallyTurns ==
    ASSUME NEW path \in Seq(Component)
    PROVE  \E at \in [0..Len(path) -> SUBSET Path] :
             /\ at[0] = {Root}
             /\ \A k \in 1..Len(path) : at[k] = LexicalStep(at[k - 1], path[k])
             /\ Lexically(path) = at[Len(path)]
<1> DEFINE N == Len(path)
           Is(h) == h = [s \in SUBSET (DOMAIN path) |->
                           IF s = {} THEN {Root}
                           ELSE LexicalStep(h[s \ {Max(s)}], path[Max(s)])]
           f == CHOOSE h : Is(h)
           step == [c \in Component |-> [at \in SUBSET Path |-> LexicalStep(at, c)]]
<1>1. Lexically(path) = f[DOMAIN path]
  BY Zenon DEF Lexically, FoldLeft, MapThenFoldSet
<1>2. /\ N \in Nat /\ DOMAIN path = 1..N /\ path \in [1..N -> Component]
      /\ {Root} \in SUBSET Path
  BY DEF Path, Root
<1>3. step \in [Component -> [SUBSET Path -> SUBSET Path]]
  BY LexicalStepType
<1>4. PICK g \in [SUBSET (1..N) -> SUBSET Path] : IsFold(g, {Root}, step, N, path)
  <2> HIDE DEF step, N
  <2> QED
    BY <1>2, <1>3, FoldExists
<1>5. ASSUME NEW s \in SUBSET (1..N), s # {}
      PROVE  /\ Max(s) \in 1..N /\ s \ {Max(s)} \in SUBSET (1..N)
             /\ step[path[Max(s)]][g[s \ {Max(s)}]] =
                  LexicalStep(g[s \ {Max(s)}], path[Max(s)])
  <2>1. Max(s) \in s
    BY <1>2, <1>5, MaxInSet
  <2>2. path[Max(s)] \in Component /\ g[s \ {Max(s)}] \in SUBSET Path
    BY <1>2, <1>4, <2>1
  <2> QED
    BY <2>1, <2>2
<1>6. Is(g)
  BY <1>2, <1>4, <1>5 DEF IsFold
<1>7. Is(f)
  <2> HIDE DEF Is
  <2> QED
    BY <1>6
<1> HIDE DEF f, step
<1> DEFINE at == [k \in 0..N |-> f[1..k]]
<1>8. at[0] = {Root}
  <2>1. 1..0 \in SUBSET (DOMAIN path) /\ 1..0 = {}
    BY <1>2
  <2>2. f[1..0] = {Root}
    BY <1>7, <2>1
  <2> QED
    BY <1>2, <2>2
<1>9. ASSUME NEW k \in 1..N PROVE at[k] = LexicalStep(at[k - 1], path[k])
  <2>1. 1..k \in SUBSET (DOMAIN path) /\ 1..k # {} /\ k \in 1..k /\ (1..k) \ {k} = 1..(k - 1)
    BY <1>2
  <2>2. Max(1..k) = k
    <3>1. k - 1 \in Nat /\ k = (k - 1) + 1
      BY <1>2
    <3> QED
      BY <2>1, <3>1, MaxOfInterval
  <2>3. f[1..k] = LexicalStep(f[1..(k - 1)], path[k])
    BY <1>7, <2>1, <2>2
  <2> QED
    BY <1>2, <2>3
<1>10. \A k \in 0..N : at[k] \in SUBSET Path
  <2> DEFINE T == {k \in Nat : k <= N => at[k] \in SUBSET Path}
  <2> HIDE DEF at
  <2>1. 0 \in T
    BY <1>2, <1>8
  <2>2. ASSUME NEW k \in Nat, k \in T PROVE k + 1 \in T
    <3> SUFFICES ASSUME k + 1 <= N PROVE at[k + 1] \in SUBSET Path
      OBVIOUS
    <3>1. k + 1 \in 1..N /\ path[k + 1] \in Component /\ at[k] \in SUBSET Path
      BY <1>2, <2>2
    <3>2. at[k + 1] = LexicalStep(at[k], path[k + 1])
      BY <1>9, <3>1
    <3> QED
      BY <3>1, <3>2, LexicalStepType
  <2> HIDE DEF T
  <2>3. Nat \subseteq T
    BY <2>1, <2>2, Induction
  <2> USE DEF T
  <2> QED
    BY <1>2, <2>3
<1>11. at \in [0..N -> SUBSET Path] /\ at[N] = f[1..N]
  BY <1>2, <1>10
<1> HIDE DEF at
<1> QED
  BY <1>1, <1>2, <1>8, <1>9, <1>11

(* One more component is one more step. *)
LEMMA LexicallyAppend ==
    ASSUME NEW path \in Seq(Component), NEW c \in Component
    PROVE  Lexically(Append(path, c)) = LexicalStep(Lexically(path), c)
<1> DEFINE N == Len(path)
           longer == Append(path, c)
<1>1. PICK at \in [0..N -> SUBSET Path] :
         /\ at[0] = {Root}
         /\ \A k \in 1..N : at[k] = LexicalStep(at[k - 1], path[k])
         /\ Lexically(path) = at[N]
  BY LexicallyTurns
<1>2. /\ longer \in Seq(Component) /\ Len(longer) = N + 1 /\ N \in Nat
      /\ longer[N + 1] = c /\ \A k \in 1..N : longer[k] = path[k]
  OBVIOUS
<1>3. PICK further \in [0..(N + 1) -> SUBSET Path] :
         /\ further[0] = {Root}
         /\ \A k \in 1..(N + 1) : further[k] = LexicalStep(further[k - 1], longer[k])
         /\ Lexically(longer) = further[N + 1]
  <2> HIDE DEF longer, N
  <2> QED
    BY <1>2, LexicallyTurns
<1> DEFINE T == {k \in Nat : k <= N => further[k] = at[k]}
<1> HIDE DEF longer, N
<1>4. 0 \in T
  BY <1>1, <1>3
<1>5. ASSUME NEW k \in Nat, k \in T PROVE k + 1 \in T
  <2> SUFFICES ASSUME k + 1 <= N PROVE further[k + 1] = at[k + 1]
    OBVIOUS
  <2>1. k + 1 \in 1..N /\ k + 1 \in 1..(N + 1) /\ further[k] = at[k] /\ (k + 1) - 1 = k
    BY <1>2, <1>5
  <2>2. at[k + 1] = LexicalStep(at[k], path[k + 1])
    BY <1>1, <2>1
  <2>3. further[k + 1] = LexicalStep(further[k], path[k + 1])
    BY <1>2, <1>3, <2>1
  <2> QED
    BY <2>1, <2>2, <2>3
<1>6. N \in T
  <2> HIDE DEF T
  <2> QED
    BY <1>2, <1>4, <1>5, Induction
<1>7. further[N + 1] = LexicalStep(further[N], c)
  <2>1. N + 1 \in 1..(N + 1) /\ (N + 1) - 1 = N
    BY <1>2
  <2> QED
    BY <1>2, <1>3, <2>1
<1>8. further[N] = at[N]
  BY <1>2, <1>6
<1> QED
  BY <1>1, <1>3, <1>7, <1>8 DEF longer

LEMMA LexicallyEmpty == Lexically(<< >>) = {Root}
<1>1. << >> \in Seq(Component) /\ Len(<< >>) = 0
  OBVIOUS
<1> QED
  BY <1>1, LexicallyTurns

(* canonicalize, component by component. *)
LEMMA CanonicalizeTurns ==
    ASSUME NEW path \in Seq(Component)
    PROVE  \E at \in [0..Len(path) -> SUBSET Path] :
             /\ at[0] = {Root}
             /\ \A k \in 1..Len(path) : at[k] = Walk(at[k - 1], path[k])
             /\ Canonicalize(path) = at[Len(path)]
<1> DEFINE N == Len(path)
           Is(h) == h = [s \in SUBSET (DOMAIN path) |->
                           IF s = {} THEN {Root}
                           ELSE Walk(h[s \ {Max(s)}], path[Max(s)])]
           f == CHOOSE h : Is(h)
           step == [c \in Component |-> [at \in SUBSET Path |-> Walk(at, c)]]
<1>1. Canonicalize(path) = f[DOMAIN path]
  BY Zenon DEF Canonicalize, FoldLeft, MapThenFoldSet
<1>2. /\ N \in Nat /\ DOMAIN path = 1..N /\ path \in [1..N -> Component]
      /\ {Root} \in SUBSET Path
  BY DEF Path, Root
<1>3. step \in [Component -> [SUBSET Path -> SUBSET Path]]
  BY WalkType
<1>4. PICK g \in [SUBSET (1..N) -> SUBSET Path] : IsFold(g, {Root}, step, N, path)
  <2> HIDE DEF step, N
  <2> QED
    BY <1>2, <1>3, FoldExists
<1>5. ASSUME NEW s \in SUBSET (1..N), s # {}
      PROVE  /\ Max(s) \in 1..N /\ s \ {Max(s)} \in SUBSET (1..N)
             /\ step[path[Max(s)]][g[s \ {Max(s)}]] =
                  Walk(g[s \ {Max(s)}], path[Max(s)])
  <2>1. Max(s) \in s
    BY <1>2, <1>5, MaxInSet
  <2>2. path[Max(s)] \in Component /\ g[s \ {Max(s)}] \in SUBSET Path
    BY <1>2, <1>4, <2>1
  <2> QED
    BY <2>1, <2>2
<1>6. Is(g)
  BY <1>2, <1>4, <1>5 DEF IsFold
<1>7. Is(f)
  <2> HIDE DEF Is
  <2> QED
    BY <1>6
<1> HIDE DEF f, step
<1> DEFINE at == [k \in 0..N |-> f[1..k]]
<1>8. at[0] = {Root}
  <2>1. 1..0 \in SUBSET (DOMAIN path) /\ 1..0 = {}
    BY <1>2
  <2>2. f[1..0] = {Root}
    BY <1>7, <2>1
  <2> QED
    BY <1>2, <2>2
<1>9. ASSUME NEW k \in 1..N PROVE at[k] = Walk(at[k - 1], path[k])
  <2>1. 1..k \in SUBSET (DOMAIN path) /\ 1..k # {} /\ k \in 1..k /\ (1..k) \ {k} = 1..(k - 1)
    BY <1>2
  <2>2. Max(1..k) = k
    <3>1. k - 1 \in Nat /\ k = (k - 1) + 1
      BY <1>2
    <3> QED
      BY <2>1, <3>1, MaxOfInterval
  <2>3. f[1..k] = Walk(f[1..(k - 1)], path[k])
    BY <1>7, <2>1, <2>2
  <2> QED
    BY <1>2, <2>3
<1>10. \A k \in 0..N : at[k] \in SUBSET Path
  <2> DEFINE T == {k \in Nat : k <= N => at[k] \in SUBSET Path}
  <2> HIDE DEF at
  <2>1. 0 \in T
    BY <1>2, <1>8
  <2>2. ASSUME NEW k \in Nat, k \in T PROVE k + 1 \in T
    <3> SUFFICES ASSUME k + 1 <= N PROVE at[k + 1] \in SUBSET Path
      OBVIOUS
    <3>1. k + 1 \in 1..N /\ path[k + 1] \in Component /\ at[k] \in SUBSET Path
      BY <1>2, <2>2
    <3>2. at[k + 1] = Walk(at[k], path[k + 1])
      BY <1>9, <3>1
    <3> QED
      BY <3>1, <3>2, WalkType
  <2> HIDE DEF T
  <2>3. Nat \subseteq T
    BY <2>1, <2>2, Induction
  <2> USE DEF T
  <2> QED
    BY <1>2, <2>3
<1>11. at \in [0..N -> SUBSET Path] /\ at[N] = f[1..N]
  BY <1>2, <1>10
<1> HIDE DEF at
<1> QED
  BY <1>1, <1>2, <1>8, <1>9, <1>11

(* One more component is one more step of the walk. *)
LEMMA CanonicalizeAppend ==
    ASSUME NEW path \in Seq(Component), NEW c \in Component
    PROVE  Canonicalize(Append(path, c)) = Walk(Canonicalize(path), c)
<1> DEFINE N == Len(path)
           longer == Append(path, c)
<1>1. PICK at \in [0..N -> SUBSET Path] :
         /\ at[0] = {Root}
         /\ \A k \in 1..N : at[k] = Walk(at[k - 1], path[k])
         /\ Canonicalize(path) = at[N]
  BY CanonicalizeTurns
<1>2. /\ longer \in Seq(Component) /\ Len(longer) = N + 1 /\ N \in Nat
      /\ longer[N + 1] = c /\ \A k \in 1..N : longer[k] = path[k]
  OBVIOUS
<1>3. PICK further \in [0..(N + 1) -> SUBSET Path] :
         /\ further[0] = {Root}
         /\ \A k \in 1..(N + 1) : further[k] = Walk(further[k - 1], longer[k])
         /\ Canonicalize(longer) = further[N + 1]
  <2> HIDE DEF longer, N
  <2> QED
    BY <1>2, CanonicalizeTurns
<1> DEFINE T == {k \in Nat : k <= N => further[k] = at[k]}
<1> HIDE DEF longer, N
<1>4. 0 \in T
  BY <1>1, <1>3
<1>5. ASSUME NEW k \in Nat, k \in T PROVE k + 1 \in T
  <2> SUFFICES ASSUME k + 1 <= N PROVE further[k + 1] = at[k + 1]
    OBVIOUS
  <2>1. k + 1 \in 1..N /\ k + 1 \in 1..(N + 1) /\ further[k] = at[k] /\ (k + 1) - 1 = k
    BY <1>2, <1>5
  <2>2. at[k + 1] = Walk(at[k], path[k + 1])
    BY <1>1, <2>1
  <2>3. further[k + 1] = Walk(further[k], path[k + 1])
    BY <1>2, <1>3, <2>1
  <2> QED
    BY <2>1, <2>2, <2>3
<1>6. N \in T
  <2> HIDE DEF T
  <2> QED
    BY <1>2, <1>4, <1>5, Induction
<1>7. further[N + 1] = Walk(further[N], c)
  <2>1. N + 1 \in 1..(N + 1) /\ (N + 1) - 1 = N
    BY <1>2
  <2> QED
    BY <1>2, <1>3, <2>1
<1>8. further[N] = at[N]
  BY <1>2, <1>6
<1> QED
  BY <1>1, <1>3, <1>7, <1>8 DEF longer

LEMMA CanonicalizeEmpty == Canonicalize(<< >>) = {Root}
<1>1. << >> \in Seq(Component) /\ Len(<< >>) = 0
  OBVIOUS
<1> QED
  BY <1>1, CanonicalizeTurns

(* canonicalize goes along the text, and only where something exists. *)
LEMMA CanonicalizeWithin ==
    ASSUME NEW path \in Seq(Component)
    PROVE  Canonicalize(path) \subseteq Lexically(path) /\ Canonicalize(path) \subseteq Existing
<1> DEFINE T == {s \in Seq(Component) : /\ Canonicalize(s) \subseteq Lexically(s)
                                        /\ Canonicalize(s) \subseteq Existing}
<1>1. << >> \in T
  <2>1. << >> \in Seq(Component) /\ Root \in Existing
    BY BaseAssumption DEF Existing
  <2> QED
    BY <2>1, CanonicalizeEmpty, LexicallyEmpty
<1>2. ASSUME NEW s \in Seq(Component), NEW c \in Component, s \in T PROVE Append(s, c) \in T
  <2>1. /\ Canonicalize(Append(s, c)) = Walk(Canonicalize(s), c)
        /\ Lexically(Append(s, c)) = LexicalStep(Lexically(s), c)
    BY CanonicalizeAppend, LexicallyAppend
  <2>2. LexicalStep(Canonicalize(s), c) \subseteq LexicalStep(Lexically(s), c)
    BY <1>2, LexicalStepFewer
  <2>3. Append(s, c) \in Seq(Component)
    OBVIOUS
  <2> QED
    BY <2>1, <2>2, <2>3, WalkWithin
<1>3. Seq(Component) \subseteq T
  <2> HIDE DEF T
  <2> QED
    BY <1>1, <1>2, SeqInduction
<1> QED
  BY <1>3

(* The text alone always leads to one place, and a path of names to itself. *)
LEMMA LexicallyOne ==
    ASSUME NEW path \in Seq(Component)
    PROVE  \E p \in Path : Lexically(path) = {p}
<1> DEFINE T == {s \in Seq(Component) : \E p \in Path : Lexically(s) = {p}}
<1>1. << >> \in T
  <2>1. << >> \in Seq(Component) /\ Root \in Path
    BY DEF Root, Path
  <2> QED
    BY <2>1, LexicallyEmpty
<1>2. ASSUME NEW s \in Seq(Component), NEW c \in Component, s \in T PROVE Append(s, c) \in T
  <2>1. Lexically(Append(s, c)) = LexicalStep(Lexically(s), c) /\ Append(s, c) \in Seq(Component)
    BY LexicallyAppend
  <2>2. PICK p \in Path : Lexically(s) = {p}
    BY <1>2
  <2> QED
    BY <2>1, <2>2, LexicalStepOne
<1>3. Seq(Component) \subseteq T
  <2> HIDE DEF T
  <2> QED
    BY <1>1, <1>2, SeqInduction
<1> QED
  BY <1>3

LEMMA PathIsRaw ==
    ASSUME NEW p \in Path
    PROVE  p \in Seq(Component)
BY DEF Path, Component

LEMMA LexicallyNames ==
    ASSUME NEW p \in Path
    PROVE  Lexically(p) = {p}
<1> DEFINE T == {s \in Seq(Name) : Lexically(s) = {s}}
<1>1. << >> \in T
  BY LexicallyEmpty DEF Root
<1>2. ASSUME NEW s \in Seq(Name), NEW c \in Name, s \in T PROVE Append(s, c) \in T
  <2>1. s \in Seq(Component) /\ c \in Component /\ Append(s, c) \in Seq(Name)
    BY PathIsRaw DEF Path, Component
  <2>2. Lexically(Append(s, c)) = LexicalStep({s}, c)
    BY <1>2, <2>1, LexicallyAppend
  <2>3. LexicalStep({s}, c) = {Append(s, c)}
    BY LexicalName
  <2> QED
    BY <2>1, <2>2, <2>3
<1>3. Seq(Name) \subseteq T
  <2> HIDE DEF T
  <2> QED
    BY <1>1, <1>2, SeqInduction
<1> QED
  BY <1>3 DEF Path

(* Components "." at the end of a path change nothing. *)
LEMMA TrailingDots ==
    ASSUME NEW path \in Seq(Component), NEW i \in 1..Len(path),
           \A j \in (i + 1)..Len(path) : path[j] = CurDir
    PROVE  Lexically(path) = Lexically(SubSeq(path, 1, i))
<1> DEFINE N == Len(path)
           Upto(k) == SubSeq(path, 1, k)
           T == {k \in Nat : i + k <= N => Lexically(Upto(i + k)) = Lexically(Upto(i))}
<1>0. N \in Nat /\ i \in Nat /\ i <= N
  OBVIOUS
<1>1. 0 \in T
  BY <1>0
<1>2. ASSUME NEW k \in Nat, k \in T PROVE k + 1 \in T
  <2> SUFFICES ASSUME i + (k + 1) <= N PROVE Lexically(Upto(i + (k + 1))) = Lexically(Upto(i))
    OBVIOUS
  <2>1. i + k \in Nat /\ i + k <= N /\ i + (k + 1) = (i + k) + 1 /\ (i + k) + 1 \in (i + 1)..N
    BY <1>0
  <2>2. Upto(i + k) \in Seq(Component) /\ path[(i + k) + 1] = CurDir /\ CurDir \in Component
    BY <2>1, PrefixIsSeq DEF Component
  <2>3. Upto((i + k) + 1) = Append(Upto(i + k), path[(i + k) + 1])
    BY <2>1
  <2>4. Lexically(Upto((i + k) + 1)) = LexicalStep(Lexically(Upto(i + k)), CurDir)
    <3> HIDE DEF Upto
    <3> QED
      BY <2>2, <2>3, LexicallyAppend
  <2>5. Lexically(Upto(i + k)) = Lexically(Upto(i))
    BY <1>2, <2>1
  <2> HIDE DEF Upto
  <2> QED
    BY <2>1, <2>4, <2>5, LexicalDots
<1>3. N - i \in T
  <2>1. N - i \in Nat
    BY <1>0
  <2> HIDE DEF T
  <2> QED
    BY <1>1, <1>2, <2>1, Induction
<1>4. i + (N - i) = N /\ Upto(N) = path
  BY <1>0, SubSeqFull
<1> HIDE DEF Upto, N
<1>5. Lexically(Upto(N)) = Lexically(Upto(i))
  BY <1>0, <1>3, <1>4
<1> QED
  BY <1>4, <1>5 DEF Upto

(* What is found is where the text leads, and it exists or is a new name in *)
(* a place that does.                                                       *)
LEMMA FindWithin ==
    ASSUME NEW path \in Seq(Component), NEW r \in Find(path)
    PROVE  /\ r \in Lexically(path)
           /\ r \in Existing \/ \E q \in Existing \cap Path : \E c \in Name : r = Append(q, c)
<1>1. CASE Canonicalize(path) # {}
  BY <1>1, CanonicalizeWithin DEF Find
<1>2. CASE Canonicalize(path) = {}
  <2>1. PICK i \in FileNameAt(path) :
           \E p \in Canonicalize(SubSeq(path, 1, i - 1)) : r = Append(p, path[i])
    BY <1>2 DEF Find, NewName
  <2>2. PICK p \in Canonicalize(SubSeq(path, 1, i - 1)) : r = Append(p, path[i])
    BY <2>1
  <2>3. i \in 1..Len(path) /\ path[i] \in Name /\ \A j \in (i + 1)..Len(path) : path[j] = CurDir
    BY DEF FileNameAt
  <2> DEFINE before == SubSeq(path, 1, i - 1)
  <2>4. /\ before \in Seq(Component) /\ SubSeq(path, 1, i) = Append(before, path[i])
        /\ path[i] \in Component
    <3>1. i - 1 \in Nat /\ i - 1 <= Len(path) /\ i = (i - 1) + 1
      BY <2>3
    <3> QED
      BY <2>3, <3>1, PrefixIsSeq
  <2> HIDE DEF before
  <2>5. p \in Lexically(before) /\ p \in Existing
    BY <2>2, <2>4, CanonicalizeWithin DEF before
  <2>6. p \in Path
    BY <2>4, <2>5, LexicallyOne
  <2>7. Lexically(Append(before, path[i])) = {Append(q, path[i]) : q \in Lexically(before)}
    BY <2>3, <2>4, LexicallyAppend, LexicalName
  <2>8. Lexically(path) = Lexically(Append(before, path[i]))
    BY <2>3, <2>4, TrailingDots
  <2> QED
    BY <2>2, <2>3, <2>5, <2>6, <2>7, <2>8
<1> QED
  BY <1>1, <1>2

(* Path::starts_with, component by component. *)
LEMMA StartsWithIs ==
    ASSUME NEW p \in Path, NEW q \in Path
    PROVE  StartsWith(q, p) <=> Len(p) <= Len(q) /\ \A k \in 1..Len(p) : q[k] = p[k]
<1>1. p \in Seq(Name) /\ q \in Seq(Name) /\ Len(p) \in Nat /\ Len(q) \in Nat
  BY DEF Path
<1>2. SubSeq(p, 1, Len(p)) = p
  BY <1>1, SubSeqFull
<1>3. ASSUME Len(p) <= Len(q)
      PROVE  SubSeq(q, 1, Len(p)) = p <=> \A k \in 1..Len(p) : q[k] = p[k]
  <2>1. /\ SubSeq(q, 1, Len(p)) \in Seq(Name) /\ Len(SubSeq(q, 1, Len(p))) = Len(p)
        /\ \A k \in 1..Len(p) : SubSeq(q, 1, Len(p))[k] = q[k]
    BY <1>1, <1>3
  <2> QED
    BY <1>1, <2>1, SeqEqual
<1> QED
  BY <1>2, <1>3 DEF StartsWith, IsPrefix

(* A path in the base directory, and its path relative to it. *)
LEMMA BelowBaseIs ==
    ASSUME NEW p \in Path
    PROVE  /\ ~StartsWith(p, Base) => BelowBase({p}) = {}
           /\ StartsWith(p, Base) => \E n \in Path : BelowBase({p}) = {n} /\ p = Base \o n
<1>1. ~StartsWith(p, Base) => BelowBase({p}) = {}
  BY DEF BelowBase
<1>2. ASSUME StartsWith(p, Base) PROVE \E n \in Path : BelowBase({p}) = {n} /\ p = Base \o n
  <2> DEFINE n == SubSeq(p, Len(Base) + 1, Len(p))
  <2>1. BelowBase({p}) = {n}
    BY <1>2 DEF BelowBase
  <2>2. p \in Seq(Name) /\ Base \in Seq(Name) /\ Len(Base) \in Nat /\ Len(p) \in Nat
    BY BaseAssumption DEF Path
  <2>3. Len(Base) <= Len(p) /\ \A k \in 1..Len(Base) : p[k] = Base[k]
    BY <1>2, BaseAssumption, StartsWithIs
  <2>4. n \in Seq(Name) /\ Len(n) = Len(p) - Len(Base)
    BY <2>2, <2>3
  <2>5. \A k \in 1..(Len(p) - Len(Base)) : n[k] = p[Len(Base) + k]
    <3> SUFFICES ASSUME NEW k \in 1..(Len(p) - Len(Base)) PROVE n[k] = p[Len(Base) + k]
      OBVIOUS
    <3>1. (Len(Base) + 1) + k - 1 = Len(Base) + k
      BY <2>2
    <3> QED
      BY <2>2, <2>3, <3>1
  <2> HIDE DEF n
  <2>6. Base \o n \in Seq(Name) /\ Len(Base \o n) = Len(p)
    BY <2>2, <2>3, <2>4
  <2>7. ASSUME NEW k \in 1..Len(p) PROVE (Base \o n)[k] = p[k]
    <3>1. CASE k \in 1..Len(Base)
      BY <2>2, <2>3, <2>4, <3>1
    <3>2. CASE k \notin 1..Len(Base)
      <4>1. k - Len(Base) \in 1..(Len(p) - Len(Base)) /\ Len(Base) + (k - Len(Base)) = k
        BY <2>2, <3>2
      <4>2. (Base \o n)[k] = n[k - Len(Base)]
        BY <2>2, <2>4, <3>2, <4>1
      <4> QED
        BY <2>5, <4>1, <4>2
    <3> QED
      BY <3>1, <3>2
  <2>8. Base \o n = p
    BY <2>2, <2>6, <2>7, SeqEqual
  <2> QED
    BY <2>1, <2>4, <2>8 DEF Path
<1> QED
  BY <1>1, <1>2

LEMMA BelowBaseOf ==
    ASSUME NEW n \in Path
    PROVE  /\ Base \o n \in Path /\ StartsWith(Base \o n, Base) /\ BelowBase({Base \o n}) = {n}
<1>1. n \in Seq(Name) /\ Base \in Seq(Name) /\ Base \in Path
  BY BaseAssumption DEF Path
<1>2. Base \o n \in Path
  BY <1>1 DEF Path
<1>3. StartsWith(Base \o n, Base)
  <2>1. Len(Base) <= Len(Base \o n) /\ \A k \in 1..Len(Base) : (Base \o n)[k] = Base[k]
    BY <1>1
  <2> QED
    BY <1>1, <1>2, <2>1, StartsWithIs
<1>4. SubSeq(Base \o n, Len(Base) + 1, Len(Base \o n)) = n
  BY <1>1
<1>5. BelowBase({Base \o n}) = {SubSeq(Base \o n, Len(Base) + 1, Len(Base \o n))}
  BY <1>3 DEF BelowBase
<1> QED
  BY <1>2, <1>3, <1>4, <1>5

LEMMA SameBelowBase ==
    ASSUME NEW m \in Path, NEW n \in Path, Base \o m = Base \o n
    PROVE  m = n
<1>1. BelowBase({Base \o m}) = {m} /\ BelowBase({Base \o n}) = {n}
  BY BelowBaseOf
<1> QED
  BY <1>1

LEMMA ParentBelowBase ==
    ASSUME NEW n \in Path, n # Root
    PROVE  Parent(Base \o n) = Base \o Parent(n)
<1> DEFINE l == Parent(Base \o n)
           r == Base \o Parent(n)
           N == Len(Base) + Len(n) - 1
<1>1. n \in Seq(Name) /\ Base \in Seq(Name) /\ Base \o n \in Seq(Name)
  BY BaseAssumption DEF Path
<1>2. /\ Len(n) - 1 \in Nat /\ Len(n) - 1 <= Len(n) /\ Len(Base) \in Nat
      /\ Len(Base \o n) = Len(Base) + Len(n) /\ Len(Base \o n) - 1 = N /\ N \in Nat
  BY <1>1 DEF Root
<1>3. Parent(n) \in Seq(Name) /\ Len(Parent(n)) = Len(n) - 1
  BY <1>1, <1>2, PrefixIsSeq DEF Parent
<1>4. \A k \in 1..(Len(n) - 1) : Parent(n)[k] = n[k]
  BY <1>1, <1>2 DEF Parent
<1>5. l \in Seq(Name) /\ Len(l) = N /\ \A k \in 1..N : l[k] = (Base \o n)[k]
  <2> DEFINE s == Base \o n
  <2>1. s \in Seq(Name) /\ Len(s) - 1 = N /\ N <= Len(s)
    BY <1>1, <1>2
  <2> HIDE DEF s, N
  <2>2. SubSeq(s, 1, N) \in Seq(Name) /\ Len(SubSeq(s, 1, N)) = N
    BY <1>2, <2>1, PrefixIsSeq
  <2>3. \A k \in 1..N : SubSeq(s, 1, N)[k] = s[k]
    BY <1>2, <2>1
  <2> QED
    BY <2>1, <2>2, <2>3 DEF Parent, s
<1>6. r \in Seq(Name) /\ Len(r) = N
  <2> HIDE DEF l
  <2> QED
    BY <1>1, <1>2, <1>3
<1>7. ASSUME NEW k \in 1..N PROVE l[k] = r[k]
  <2>1. CASE k \in 1..Len(Base)
    <3>1. (Base \o n)[k] = Base[k] /\ r[k] = Base[k]
      BY <1>1, <1>3, <2>1
    <3> QED
      BY <1>5, <3>1
  <2>2. CASE k \notin 1..Len(Base)
    <3>1. k - Len(Base) \in 1..(Len(n) - 1) /\ k \in Nat /\ k > Len(Base)
      BY <1>2, <2>2
    <3>2. (Base \o n)[k] = n[k - Len(Base)] /\ r[k] = Parent(n)[k - Len(Base)]
      BY <1>1, <1>2, <1>3, <3>1
    <3> QED
      BY <1>4, <1>5, <3>1, <3>2
  <2> QED
    BY <2>1, <2>2
<1> HIDE DEF l, r, N
<1>8. l = r
  BY <1>5, <1>6, <1>7, SeqEqual
<1> QED
  BY <1>8 DEF l, r

(***************************************************************************)
(* DefaultFileOperations::resolve_path, whatever directories exist: if it  *)
(* finds anything for a path, it is the one place below the base directory *)
(* that the text leads to, and that place or its parent exists, unless it  *)
(* is the base directory itself.                                           *)
(***************************************************************************)
LEMMA ResolveIs ==
    ASSUME InUse \subseteq Path, NEW path \in Seq(Component), NEW full \in Resolve(path)
    PROVE  /\ full \in Path /\ Resolve(path) = {full}
           /\ BelowBase(Lexically(Base \o path)) = {full}
           /\ full = Root \/ full \in InUse \/ Parent(full) \in InUse
<1>1. Base \in Path /\ Base \in Seq(Component) /\ Base \o path \in Seq(Component)
  BY BaseAssumption, PathIsRaw
<1>2. PICK p \in Path : Lexically(Base \o path) = {p}
  BY <1>1, LexicallyOne
<1>3. Find(Base \o path) \subseteq {p} /\ Find(Base \o path) # {}
  <2>1. Find(Base \o path) \subseteq {p}
    BY <1>1, <1>2, FindWithin
  <2>2. Find(Base \o path) # {}
    BY DEF Resolve, BelowBase
  <2> QED
    BY <2>1, <2>2
<1>4. Find(Base \o path) = {p}
  BY <1>3
<1>5. Resolve(path) = BelowBase({p}) /\ StartsWith(p, Base)
  BY <1>2, <1>4, BelowBaseIs DEF Resolve
<1>6. full \in Path /\ BelowBase({p}) = {full} /\ p = Base \o full
  <2>1. PICK n \in Path : BelowBase({p}) = {n} /\ p = Base \o n
    BY <1>5, BelowBaseIs
  <2>2. full = n
    BY <1>5, <2>1
  <2> QED
    BY <2>1, <2>2
<1>7. ASSUME NEW q \in Existing, NEW n \in Path, q = Base \o n PROVE n \in InUse
  <2>1. q \notin Outside
    BY <1>7, BaseAssumption, BelowBaseOf
  <2>2. PICK m \in InUse : q = Base \o m
    BY <1>7, <2>1 DEF Existing, InBase
  <2> QED
    BY <1>7, <2>2, SameBelowBase
<1>8. full = Root \/ full \in InUse \/ Parent(full) \in InUse
  <2>0. p \in Find(Base \o path)
    BY <1>4
  <2>1. p \in Existing \/ \E q \in Existing \cap Path : \E c \in Name : p = Append(q, c)
    BY <1>1, <2>0, FindWithin
  <2>2. CASE p \in Existing
    BY <1>6, <1>7, <2>2
  <2>3. ASSUME NEW q \in Existing \cap Path, NEW c \in Name, p = Append(q, c), full # Root
        PROVE  Parent(full) \in InUse
    <3>1. Parent(full) \in Path /\ full \in Seq(Name) /\ Base \in Seq(Name) /\ q \in Seq(Name)
      BY <1>1, <1>6, <2>3, ParentIsPath DEF Path
    <3>3. q = SubSeq(Append(q, c), 1, Len(Append(q, c)) - 1)
      BY <3>1
    <3>4. Parent(p) = q
      BY <2>3, <3>3 DEF Parent
    <3>5. q = Base \o Parent(full)
      BY <1>6, <2>3, <3>4, ParentBelowBase
    <3> QED
      BY <1>7, <3>1, <3>5
  <2> QED
    BY <2>1, <2>2, <2>3
<1> QED
  BY <1>2, <1>5, <1>6, <1>8

LEMMA AppendBelowBase ==
    ASSUME NEW m \in Path, NEW c \in Name
    PROVE  Append(Base \o m, c) = Base \o Append(m, c)
<1>1. Base \in Seq(Name) /\ m \in Seq(Name)
  BY BaseAssumption DEF Path
<1> QED
  BY <1>1

(* How a step can enter the base directory: by its name. *)
LEMMA EntersByName ==
    ASSUME NEW p \in Path, ~StartsWith(p, Base)
    PROVE  /\ ~StartsWith(LexicalParent(p), Base)
           /\ \A c \in Name : StartsWith(Append(p, c), Base) => c = Last(Base)
<1>1. p \in Seq(Name) /\ Base \in Seq(Name) /\ Base \in Path /\ Len(Base) \in Nat /\ Len(p) \in Nat
  BY BaseAssumption DEF Path
<1>2. ~(Len(Base) <= Len(p) /\ \A k \in 1..Len(Base) : p[k] = Base[k])
  BY <1>1, StartsWithIs
<1>3. ~StartsWith(LexicalParent(p), Base)
  <2>1. CASE p = Root
    BY <2>1 DEF LexicalParent
  <2>2. CASE p # Root
    <3> DEFINE q == Parent(p)
    <3>1. q \in Path /\ Len(q) = Len(p) - 1
      BY <2>2, ParentIsPath
    <3>2. \A k \in 1..(Len(p) - 1) : q[k] = p[k]
      BY <1>1 DEF Parent
    <3> HIDE DEF q
    <3>3. ~StartsWith(q, Base)
      <4> SUFFICES ASSUME StartsWith(q, Base) PROVE FALSE
        OBVIOUS
      <4>1. Len(Base) <= Len(q) /\ \A k \in 1..Len(Base) : q[k] = Base[k]
        BY <1>1, <3>1, StartsWithIs
      <4> QED
        BY <1>1, <1>2, <3>1, <3>2, <4>1
    <3> QED
      BY <2>2, <3>3 DEF LexicalParent, q
  <2> QED
    BY <2>1, <2>2
<1>4. ASSUME NEW c \in Name, StartsWith(Append(p, c), Base) PROVE c = Last(Base)
  <2>1. /\ Append(p, c) \in Path /\ Len(Append(p, c)) = Len(p) + 1
        /\ Append(p, c)[Len(p) + 1] = c /\ \A k \in 1..Len(p) : Append(p, c)[k] = p[k]
    BY <1>1 DEF Path
  <2>2. Len(Base) <= Len(p) + 1 /\ \A k \in 1..Len(Base) : Append(p, c)[k] = Base[k]
    BY <1>1, <1>4, <2>1, StartsWithIs
  <2>3. Len(Base) = Len(p) + 1
    <3> SUFFICES ASSUME Len(Base) <= Len(p) PROVE FALSE
      BY <1>1, <2>2
    <3> QED
      BY <1>1, <1>2, <2>1, <2>2
  <2>4. Base[Len(Base)] = c
    BY <1>1, <2>1, <2>2, <2>3
  <2> QED
    BY <2>4 DEF Last
<1> QED
  BY <1>3, <1>4

(***************************************************************************)
(* normalize_path beside the text from the base directory on: as long as   *)
(* it has not refused the path, both are at the same place; once it has,   *)
(* the text is out of the base directory, or came back by its name.        *)
(***************************************************************************)
SideBySide(s) ==
    /\ \A n \in Normalized(s) : Lexically(Base \o s) = {Base \o n}
    /\ Normalized(s) = {} =>
          ComesBack(s) \/ \A p \in Lexically(Base \o s) : ~StartsWith(p, Base)

LEMMA NormalizeBeside ==
    ASSUME NEW path \in Seq(Component)
    PROVE  SideBySide(path)
<1> DEFINE T == {s \in Seq(Component) : SideBySide(s)}
<1>0. Base \in Path /\ Base \in Seq(Name) /\ Base \in Seq(Component) /\ Base # Root
  BY BaseAssumption, PathIsRaw DEF Path
<1>1. << >> \in T
  <2>1. << >> \in Seq(Component) /\ Base \o << >> = Base
    BY <1>0
  <2>2. Normalized(<< >>) = {<< >>}
    BY NormalizedEmpty DEF Root
  <2>3. Lexically(Base) = {Base}
    BY <1>0, LexicallyNames
  <2> QED
    BY <2>1, <2>2, <2>3 DEF SideBySide
<1>2. ASSUME NEW s \in Seq(Component), NEW c \in Component, s \in T PROVE Append(s, c) \in T
  <2>1. Append(s, c) \in Seq(Component) /\ Base \o s \in Seq(Component)
    BY <1>0
  <2>2. Base \o Append(s, c) = Append(Base \o s, c)
    BY <1>0
  <2>3. /\ Lexically(Base \o Append(s, c)) = LexicalStep(Lexically(Base \o s), c)
        /\ Normalized(Append(s, c)) = NormalizeComponent(Normalized(s), c)
    BY <2>1, <2>2, LexicallyAppend, NormalizedAppend
  <2>4. SideBySide(s)
    BY <1>2
  <2>5. CASE Normalized(s) = {}
    <3>1. Normalized(Append(s, c)) = {}
      <4>1. NormalizeComponent({}, c) = {}
        <5>1. CASE c = CurDir
          BY <5>1, NormalizeDots
        <5>2. CASE c = ParentDir
          BY <5>2, NormalizeDots
        <5>3. CASE c \in Name
          BY <5>3, NormalizeName
        <5> QED
          BY <5>1, <5>2, <5>3 DEF Component
      <4> QED
        BY <2>3, <2>5, <4>1
    <3>2. CASE ComesBack(s)
      <4>1. PICK i \in 1..Len(s) : s[i] = Last(Base)
        BY <3>2 DEF ComesBack
      <4>2. i \in 1..Len(Append(s, c)) /\ Append(s, c)[i] = s[i]
        OBVIOUS
      <4>3. ComesBack(Append(s, c))
        BY <4>1, <4>2 DEF ComesBack
      <4> QED
        BY <2>1, <3>1, <4>3 DEF SideBySide
    <3>3. CASE \A p \in Lexically(Base \o s) : ~StartsWith(p, Base)
      <4>1. PICK p \in Path : Lexically(Base \o s) = {p}
        BY <2>1, LexicallyOne
      <4>2. p \in Path /\ ~StartsWith(p, Base)
        BY <3>3, <4>1
      <4>3. CASE c = CurDir
        <5>1. Lexically(Base \o Append(s, c)) = {p}
          BY <2>3, <4>1, <4>3, LexicalDots
        <5> QED
          BY <2>1, <3>1, <4>2, <5>1 DEF SideBySide
      <4>4. CASE c = ParentDir
        <5>1. Lexically(Base \o Append(s, c)) = {LexicalParent(p)}
          BY <2>3, <4>1, <4>4, LexicalDots
        <5>2. ~StartsWith(LexicalParent(p), Base)
          BY <4>2, EntersByName
        <5> QED
          BY <2>1, <3>1, <5>1, <5>2 DEF SideBySide
      <4>5. CASE c \in Name
        <5>1. Lexically(Base \o Append(s, c)) = {Append(p, c)}
          BY <2>3, <4>1, <4>5, LexicalName
        <5>2. CASE StartsWith(Append(p, c), Base)
          <6>1. c = Last(Base)
            BY <4>2, <4>5, <5>2, EntersByName
          <6>2. Len(s) + 1 \in 1..Len(Append(s, c)) /\ Append(s, c)[Len(s) + 1] = c
            OBVIOUS
          <6>3. ComesBack(Append(s, c))
            BY <6>1, <6>2 DEF ComesBack
          <6> QED
            BY <2>1, <3>1, <6>3 DEF SideBySide
        <5>3. CASE ~StartsWith(Append(p, c), Base)
          BY <2>1, <3>1, <5>1, <5>3 DEF SideBySide
        <5> QED
          BY <5>2, <5>3
      <4> QED
        BY <4>3, <4>4, <4>5 DEF Component
    <3> QED
      BY <2>4, <2>5, <3>2, <3>3 DEF SideBySide
  <2>6. CASE Normalized(s) # {}
    <3>1. PICK m \in Path : Normalized(s) = {m}
      BY <2>6, NormalizedIs
    <3>2. Lexically(Base \o s) = {Base \o m} /\ m \in Seq(Name)
      BY <2>4, <3>1 DEF SideBySide, Path
    <3>3. CASE c = CurDir
      <4>1. Lexically(Base \o Append(s, c)) = {Base \o m} /\ Normalized(Append(s, c)) = {m}
        BY <2>3, <3>1, <3>2, <3>3, LexicalDots, NormalizeDots
      <4> QED
        BY <2>1, <4>1 DEF SideBySide
    <3>4. CASE c \in Name
      <4>1. Lexically(Base \o Append(s, c)) = {Append(Base \o m, c)}
        <5>1. PICK q : q = Base \o m
          OBVIOUS
        <5>2. LexicalStep({q}, c) = {Append(q, c)}
          BY <3>4, LexicalName
        <5> QED
          BY <2>3, <3>2, <5>1, <5>2, Zenon
      <4>2. Normalized(Append(s, c)) = {Append(m, c)}
        BY <2>3, <3>1, <3>4, NormalizeName
      <4>3. Append(Base \o m, c) = Base \o Append(m, c)
        BY <3>4, AppendBelowBase
      <4> QED
        BY <2>1, <4>1, <4>2, <4>3 DEF SideBySide
    <3>5. CASE c = ParentDir /\ m # Root
      <4>1. Lexically(Base \o Append(s, c)) = {LexicalParent(Base \o m)}
        <5>1. PICK q : q = Base \o m
          OBVIOUS
        <5>2. LexicalStep({q}, c) = {LexicalParent(q)}
          BY <3>5, LexicalDots
        <5> QED
          BY <2>3, <3>2, <5>1, <5>2, Zenon
      <4>2. Normalized(Append(s, c)) = {Parent(m)}
        <5>1. {Parent(p) : p \in {m} \ {Root}} = {Parent(m)}
          BY <3>5
        <5> QED
          BY <2>3, <3>1, <3>5, <5>1, NormalizeDots
      <4>3. Base \o m # Root
        <5>1. Len(Base) \in Nat \ {0}
          BY <1>0, EmptySeq DEF Root
        <5>2. Len(Base \o m) = Len(Base) + Len(m) /\ Len(m) \in Nat
          BY <1>0, <3>2
        <5>3. Len(Root) = 0
          BY DEF Root
        <5> QED
          BY <5>1, <5>2, <5>3
      <4>4. LexicalParent(Base \o m) = Base \o Parent(m)
        BY <3>5, <4>3, ParentBelowBase DEF LexicalParent
      <4> QED
        BY <2>1, <4>1, <4>2, <4>4 DEF SideBySide
    <3>6. CASE c = ParentDir /\ m = Root
      <4>1. Base \o m = Base
        BY <1>0, <3>6 DEF Root
      <4>2. Lexically(Base \o Append(s, c)) = {Parent(Base)}
        BY <1>0, <2>3, <3>2, <3>6, <4>1, LexicalDots DEF LexicalParent
      <4>3. Normalized(Append(s, c)) = {}
        BY <2>3, <3>1, <3>6, NormalizeDots
      <4>4. ~StartsWith(Parent(Base), Base)
        BY BaseAssumption
      <4> QED
        BY <2>1, <4>2, <4>3, <4>4 DEF SideBySide
    <3> QED
      BY <3>3, <3>4, <3>5, <3>6 DEF Component
  <2> QED
    BY <2>5, <2>6
<1>3. Seq(Component) \subseteq T
  <2> HIDE DEF T
  <2> QED
    BY <1>1, <1>2, SeqInduction
<1> QED
  BY <1>3

(* The two backends agree, but for the paths that come back. *)
LEMMA ResolveIsNormalize ==
    ASSUME InUse \subseteq Path, NEW path \in Seq(Component), Resolve(path) # {}
    PROVE  \/ Resolve(path) = NormalizePath(path)
           \/ NormalizePath(path) = {} /\ ComesBack(path)
<1>1. PICK full \in Path : Resolve(path) = {full} /\ BelowBase(Lexically(Base \o path)) = {full}
  BY ResolveIs
<1>2. SideBySide(path) /\ NormalizePath(path) = Normalized(path)
  BY NormalizeBeside, NormalizedIs
<1>3. CASE Normalized(path) = {}
  <2>1. \E p \in Lexically(Base \o path) : StartsWith(p, Base)
    BY <1>1 DEF BelowBase
  <2> QED
    BY <1>2, <1>3, <2>1 DEF SideBySide
<1>4. CASE Normalized(path) # {}
  <2>1. PICK n \in Path : Normalized(path) = {n}
    BY <1>4, NormalizedIs
  <2>2. Lexically(Base \o path) = {Base \o n}
    BY <1>2, <2>1 DEF SideBySide
  <2>3. BelowBase(Lexically(Base \o path)) = {n}
    BY <2>2, BelowBaseOf
  <2> QED
    BY <1>1, <1>2, <2>1, <2>3
<1> QED
  BY <1>3, <1>4

-----------------------------------------------------------------------------
(* The inductive invariant. *)

Label == {"idle", "parents", "create", "write", "sync", "open", "append", "unlink", "rmdir",
          "openread", "size", "read", "resolve"}

CallRecord == [op : Op \cup {"none"}, path : Seq(Component), data : Seq(Byte), full : Path,
               inode : Nat, start : Nat, size : Nat, got : Seq(Byte)]

CallsTypeOK ==
    /\ pc \in [Caller -> Label] /\ call \in [Caller -> CallRecord]
    /\ outcome \in [Caller -> {"none", "ok", "err"}] /\ intact \in [Caller -> BOOLEAN]

(* A file has one path, which some caller named. *)
OnePath ==
    /\ \A p, q \in DOMAIN files : files[p] = files[q] => p = q
    /\ DOMAIN files \subseteq Target

(* A call k that is at label: what it works on, and with which operation. *)
UnderWay(label, k) ==
    /\ k.path \in RawPath /\ BelowBase(Lexically(Base \o k.path)) = {k.full}
    /\ k.op = "put" => k.data \in PutData
    /\ k.op = "append" => k.data \in AppendData
    /\ label = "parents" => k.op \in {"put", "mkdir"}
    /\ label \in {"create", "write"} => k.op = "put"
    /\ label = "sync" => k.op \in {"put", "append"}
    /\ label \in {"open", "append"} => k.op = "append"
    /\ label = "unlink" => k.op = "delete"
    /\ label = "rmdir" => k.op = "rmdir"
    /\ label \in {"openread", "size", "read", "resolve"} => k.op = "read"
    /\ label \in {"write", "append"} => k.inode # 0

(* What an undisturbed call k, at label or returned as how, knows of the    *)
(* bytes of its inode.                                                      *)
AppendGood(label, k, bytes) ==
    /\ label \in {"sync", "idle"}
    /\ k.start + Len(k.data) <= Len(bytes)
    /\ \A n \in 1..Len(k.data) : bytes[k.start + n] = k.data[n]

ReadGood(label, how, k, bytes) ==
    /\ Len(k.got) <= Len(bytes)
    /\ \A n \in 1..Len(k.got) : bytes[n] = k.got[n]
    /\ label = "read" => Len(k.got) < k.size /\ k.size <= Len(bytes)
    /\ label = "idle" /\ how = "ok" => Len(k.got) = k.size

Good(label, how, k, bytes) ==
    /\ k.op = "append" => AppendGood(label, k, bytes)
    /\ k.op = "read" => ReadGood(label, how, k, bytes)

(* Bytes, with the contents as a parameter. *)
BytesOf(contents, inode) == IF inode \in DOMAIN contents THEN contents[inode] ELSE << >>

FsInv ==
    /\ FsTypeOK /\ CallsTypeOK /\ OnePath
    /\ \A c \in Caller :
          /\ call[c].inode <= Len(content)
          /\ pc[c] # "idle" => UnderWay(pc[c], call[c])
          /\ intact[c] => Good(pc[c], outcome[c], call[c], BytesOf(content, call[c].inode))

(* Bytes that only had something appended to them. *)
Longer(old, new) == Len(old) <= Len(new) /\ \A n \in 1..Len(old) : new[n] = old[n]

LEMMA GoodStays ==
    ASSUME NEW label, NEW how, NEW k \in CallRecord, NEW old \in Seq(Byte), NEW new \in Seq(Byte),
           Good(label, how, k, old), new = old \/ Longer(old, new)
    PROVE  Good(label, how, k, new)
<1>1. CASE new = old
  BY <1>1
<1>2. CASE Longer(old, new)
  <2>0. /\ k.start \in Nat /\ Len(k.data) \in Nat /\ Len(k.got) \in Nat /\ k.size \in Nat
        /\ Len(old) \in Nat /\ Len(new) \in Nat
    BY DEF CallRecord
  <2>1. k.op = "append" => AppendGood(label, k, new)
    <3> SUFFICES ASSUME k.op = "append" PROVE AppendGood(label, k, new)
      OBVIOUS
    <3>1. AppendGood(label, k, old) /\ Longer(old, new)
      BY <1>2 DEF Good
    <3>2. ASSUME NEW n \in 1..Len(k.data) PROVE new[k.start + n] = k.data[n]
      <4>1. k.start + n \in 1..Len(old)
        BY <2>0, <3>1 DEF AppendGood
      <4> QED
        BY <3>1, <4>1 DEF AppendGood, Longer
    <3> QED
      BY <2>0, <3>1, <3>2 DEF AppendGood, Longer
  <2>2. k.op = "read" => ReadGood(label, how, k, new)
    BY <1>2, <2>0 DEF Good, ReadGood, Longer
  <2> QED
    BY <1>2, <2>1, <2>2 DEF Good
<1> QED
  BY <1>1, <1>2

LEMMA BytesType ==
    ASSUME NEW contents \in Seq(Seq(Byte)), NEW inode
    PROVE  BytesOf(contents, inode) \in Seq(Byte)
BY DEF BytesOf

(***************************************************************************)
(* A step of one caller: it moves to label, its call becomes k and its     *)
(* outcome how, the tree stays fine, and of the others only those are      *)
(* still counted as intact whose bytes are as before, or longer.           *)
(***************************************************************************)
LEMMA StepKeeps ==
    ASSUME FsInv, NEW c \in Caller, NEW label \in Label, NEW k \in CallRecord,
           NEW how \in {"none", "ok", "err"},
           FsTypeOK', OnePath', Len(content) <= Len(content'),
           pc' = [pc EXCEPT ![c] = label], call' = [call EXCEPT ![c] = k],
           outcome' = [outcome EXCEPT ![c] = how], intact' \in [Caller -> BOOLEAN],
           k.inode <= Len(content'),
           label # "idle" => UnderWay(label, k),
           intact'[c] => Good(label, how, k, BytesOf(content', k.inode)),
           \A d \in Caller \ {c} : intact'[d] =>
              /\ intact[d]
              /\ \/ BytesOf(content', call[d].inode) = BytesOf(content, call[d].inode)
                 \/ Longer(BytesOf(content, call[d].inode), BytesOf(content', call[d].inode))
    PROVE  FsInv'
<1>1. CallsTypeOK'
  BY DEF FsInv, CallsTypeOK
<1>2. content \in Seq(Seq(Byte)) /\ content' \in Seq(Seq(Byte))
  BY DEF FsInv, FsTypeOK
<1>3. /\ pc'[c] = label /\ call'[c] = k /\ outcome'[c] = how
      /\ \A d \in Caller \ {c} : pc'[d] = pc[d] /\ call'[d] = call[d] /\ outcome'[d] = outcome[d]
  BY DEF FsInv, CallsTypeOK
<1>4. ASSUME NEW d \in Caller
      PROVE  /\ call'[d].inode <= Len(content')
             /\ pc'[d] # "idle" => UnderWay(pc'[d], call'[d])
             /\ intact'[d] => Good(pc'[d], outcome'[d], call'[d], BytesOf(content', call'[d].inode))
  <2>1. CASE d = c
    BY <1>3, <2>1
  <2>2. CASE d # c
    <3>1. pc'[d] = pc[d] /\ call'[d] = call[d] /\ outcome'[d] = outcome[d]
      BY <1>3, <2>2
    <3>2. /\ call[d] \in CallRecord /\ call[d].inode \in Nat /\ call[d].inode <= Len(content)
          /\ pc[d] # "idle" => UnderWay(pc[d], call[d])
          /\ intact[d] => Good(pc[d], outcome[d], call[d], BytesOf(content, call[d].inode))
      BY DEF FsInv, CallsTypeOK, CallRecord
    <3>3. Len(content) \in Nat /\ Len(content') \in Nat
      BY <1>2
    <3>4. intact'[d] => Good(pc[d], outcome[d], call[d], BytesOf(content', call[d].inode))
      <4>1. /\ BytesOf(content, call[d].inode) \in Seq(Byte)
            /\ BytesOf(content', call[d].inode) \in Seq(Byte)
        BY <1>2, BytesType
      <4> QED
        BY <2>2, <3>2, <4>1, GoodStays
    <3> QED
      BY <3>1, <3>2, <3>3, <3>4
  <2> QED
    BY <2>1, <2>2
<1> QED
  BY <1>1, <1>4 DEF FsInv

-----------------------------------------------------------------------------
(* What the file-system calls do to the tree. *)

LEMMA FsUntouched ==
    ASSUME FsInv, UNCHANGED fs
    PROVE  FsTypeOK' /\ OnePath' /\ Len(content) <= Len(content') /\ content' = content
<1>1. dirs' = dirs /\ files' = files /\ content' = content
  BY DEF fs
<1>2. Len(content) \in Nat
  BY DEF FsInv, FsTypeOK
<1> QED
  BY <1>1, <1>2 DEF FsInv, FsTypeOK, OnePath, InUse

(* Storing bytes in an inode, an old one or the next new one. *)
LEMMA StoreEffect ==
    ASSUME content \in Seq(Seq(Byte)), NEW inode \in 1..(Len(content) + 1), NEW bytes \in Seq(Byte),
           Store(inode, bytes)
    PROVE  /\ content' \in Seq(Seq(Byte)) /\ Len(content) <= Len(content') /\ inode <= Len(content')
           /\ DOMAIN content' = DOMAIN content \cup {inode}
           /\ \A i : BytesOf(content', i) = IF i = inode THEN bytes ELSE BytesOf(content, i)
<1> DEFINE N == IF inode > Len(content) THEN inode ELSE Len(content)
<1>1. /\ N \in Nat /\ Len(content) <= N /\ inode <= N /\ Len(content) \in Nat
      /\ 1..N = (1..Len(content)) \cup {inode} /\ DOMAIN content = 1..Len(content)
  OBVIOUS
<1>2. content' = [i \in 1..N |-> IF i = inode THEN bytes ELSE content[i]]
  BY DEF Store
<1> HIDE DEF N
<1>3. \A i \in 1..N : (IF i = inode THEN bytes ELSE content[i]) \in Seq(Byte)
  BY <1>1
<1>4. content' \in Seq(Seq(Byte)) /\ Len(content') = N /\ DOMAIN content' = 1..N
  BY <1>1, <1>2, <1>3
<1>5. ASSUME NEW i PROVE BytesOf(content', i) = IF i = inode THEN bytes ELSE BytesOf(content, i)
  BY <1>1, <1>2, <1>4 DEF BytesOf
<1> QED
  BY <1>1, <1>4, <1>5

(* Writing to an inode leaves the tree alone. *)
LEMMA StoreKeepsTree ==
    ASSUME FsInv, NEW inode \in 1..Len(content), NEW bytes \in Seq(Byte), Store(inode, bytes),
           UNCHANGED <<dirs, files>>
    PROVE  FsTypeOK' /\ OnePath'
<1>1. content \in Seq(Seq(Byte)) /\ inode \in 1..(Len(content) + 1)
  BY DEF FsInv, FsTypeOK
<1>2. content' \in Seq(Seq(Byte)) /\ DOMAIN content' = DOMAIN content \cup {inode}
  BY <1>1, StoreEffect
<1> QED
  BY <1>2 DEF FsInv, FsTypeOK, OnePath, InUse

(* Opening a file for writing, which creates it when it is missing. *)
LEMMA LinkKeepsTree ==
    ASSUME FsInv, NEW p \in Path, p \in Target, Openable(p), Link(p), NEW bytes \in Seq(Byte),
           Store(Inode(p), bytes), UNCHANGED dirs
    PROVE  /\ FsTypeOK' /\ OnePath'
           /\ content \in Seq(Seq(Byte)) /\ Inode(p) \in 1..(Len(content) + 1)
           /\ Inode(p) \in Nat /\ Inode(p) # 0
<1>1. /\ content \in Seq(Seq(Byte)) /\ DOMAIN content = 1..Len(content) /\ Len(content) \in Nat
      /\ \A q \in DOMAIN files : files[q] \in 1..Len(content)
  BY DEF FsInv, FsTypeOK
<1>2. Inode(p) \in 1..(Len(content) + 1)
  BY <1>1 DEF Inode
<1>3. content' \in Seq(Seq(Byte)) /\ DOMAIN content' = DOMAIN content \cup {Inode(p)}
  BY <1>1, <1>2, StoreEffect
<1>4. /\ DOMAIN files' = DOMAIN files \cup {p} /\ files'[p] = Inode(p)
      /\ \A q \in DOMAIN files \ {p} : files'[q] = files[q]
  BY DEF Link
<1>5. \A q \in DOMAIN files \ {p} : files[q] # Inode(p)
  BY <1>1 DEF Inode, FsInv, OnePath
<1>6. OnePath'
  BY <1>4, <1>5 DEF FsInv, OnePath, Target
<1>7. FsTypeOK'
  <2>1. dirs' \subseteq Path /\ DOMAIN files' \subseteq Path
    BY <1>4 DEF FsInv, FsTypeOK
  <2>2. dirs' \cap DOMAIN files' = {}
    BY <1>4 DEF FsInv, FsTypeOK, Openable
  <2>3. \A q \in InUse' \ {Root} : Parent(q) \in dirs'
    BY <1>4 DEF FsInv, FsTypeOK, Openable, InUse
  <2>4. \A q \in DOMAIN files' : files'[q] \in DOMAIN content'
    BY <1>3, <1>4 DEF FsInv, FsTypeOK
  <2> QED
    BY <1>3, <2>1, <2>2, <2>3, <2>4 DEF FsTypeOK
<1> QED
  BY <1>1, <1>2, <1>6, <1>7

(* A call under way: its record, its path and what it knows. *)
LEMMA CallFacts ==
    ASSUME FsInv, NEW c \in Caller
    PROVE  /\ call[c] \in CallRecord /\ pc[c] \in Label /\ outcome[c] \in {"none", "ok", "err"}
           /\ intact[c] \in BOOLEAN
           /\ call[c].inode \in Nat /\ call[c].inode <= Len(content)
           /\ Len(content) \in Nat /\ content \in Seq(Seq(Byte))
           /\ call[c].full \in Path /\ call[c].data \in Seq(Byte) /\ call[c].got \in Seq(Byte)
           /\ pc[c] # "idle" => /\ UnderWay(pc[c], call[c])
                                /\ call[c].full \in Target
           /\ intact[c] => Good(pc[c], outcome[c], call[c], BytesOf(content, call[c].inode))
<1>1. /\ call[c] \in CallRecord /\ pc[c] \in Label /\ outcome[c] \in {"none", "ok", "err"}
      /\ intact[c] \in BOOLEAN
  BY DEF FsInv, CallsTypeOK
<1>2. /\ call[c].inode <= Len(content)
      /\ pc[c] # "idle" => UnderWay(pc[c], call[c])
      /\ intact[c] => Good(pc[c], outcome[c], call[c], BytesOf(content, call[c].inode))
  BY DEF FsInv
<1>3. Len(content) \in Nat /\ content \in Seq(Seq(Byte))
  BY DEF FsInv, FsTypeOK
<1>4. /\ call[c].inode \in Nat /\ call[c].full \in Path
      /\ call[c].data \in Seq(Byte) /\ call[c].got \in Seq(Byte)
  BY <1>1 DEF CallRecord
<1>5. UnderWay(pc[c], call[c]) => call[c].full \in Target
  BY DEF UnderWay, Target
<1> QED
  BY <1>1, <1>2, <1>3, <1>4, <1>5

(* The ancestors of a path: each is the parent of the next. *)
LEMMA AncestorParent ==
    ASSUME NEW p \in Path, NEW n \in 1..Len(p)
    PROVE  /\ SubSeq(p, 1, n) \in Path /\ SubSeq(p, 1, n) # Root
           /\ Parent(SubSeq(p, 1, n)) = SubSeq(p, 1, n - 1)
<1>1. p \in Seq(Name) /\ n \in Nat /\ n <= Len(p) /\ n - 1 \in Nat /\ n # 0
  BY DEF Path
<1>2. SubSeq(p, 1, n) \in Seq(Name) /\ Len(SubSeq(p, 1, n)) = n
  BY <1>1, PrefixIsSeq
<1>3. SubSeq(SubSeq(p, 1, n), 1, n - 1) = SubSeq(p, 1, n - 1)
  <2> DEFINE a == SubSeq(p, 1, n)
  <2>1. \A k \in 1..(n - 1) : a[k] = p[k]
    BY <1>1
  <2>2. /\ SubSeq(a, 1, n - 1) \in Seq(Name) /\ Len(SubSeq(a, 1, n - 1)) = n - 1
        /\ SubSeq(p, 1, n - 1) \in Seq(Name) /\ Len(SubSeq(p, 1, n - 1)) = n - 1
    <3> HIDE DEF a
    <3> QED
      BY <1>1, <1>2, PrefixIsSeq DEF a
  <2>3. \A k \in 1..(n - 1) : SubSeq(a, 1, n - 1)[k] = a[k] /\ SubSeq(p, 1, n - 1)[k] = p[k]
    <3> HIDE DEF a
    <3> QED
      BY <1>1, <1>2 DEF a
  <2> HIDE DEF a
  <2> QED
    BY <2>1, <2>2, <2>3, SeqEqual DEF a
<1> QED
  BY <1>1, <1>2, <1>3 DEF Parent, Path, Root

LEMMA CreateNextDirEffect ==
    ASSUME FsInv, NEW c \in Caller, CreateNextDir(c)
    PROVE  /\ FsTypeOK' /\ OnePath'
           /\ \E p \in Path : /\ dirs' = dirs \cup {p} /\ p \notin InUse
                              /\ p # Root => Parent(p) \in dirs
                              /\ \E n \in 0..Len(call[c].full) : p = SubSeq(call[c].full, 1, n)
<1>1. PICK n \in Missing(c) : /\ \A m \in Missing(c) : n <= m
                              /\ Ancestor(c, n) \notin DOMAIN files
                              /\ dirs' = dirs \cup {Ancestor(c, n)}
  BY DEF CreateNextDir
<1>2. call[c].full \in Path /\ call[c].full \in Seq(Name) /\ Len(call[c].full) \in Nat
  BY CallFacts DEF Path
<1>3. n \in 0..Len(call[c].full) /\ n \in 0..Depth(c) /\ Ancestor(c, n) \notin dirs
  BY <1>1, <1>2 DEF Missing, Depth
<1>4. Depth(c) \in Int
  BY <1>2 DEF Depth
<1> DEFINE p == Ancestor(c, n)
<1>5. p \in Path /\ (n = 0 => p = Root) /\ (n # 0 => p # Root /\ Parent(p) = Ancestor(c, n - 1))
  <2>1. CASE n = 0
    <3>1. SubSeq(call[c].full, 1, 0) = << >>
      BY <1>2
    <3> QED
      BY <2>1, <3>1 DEF Ancestor, Root, Path
  <2>2. CASE n # 0
    <3>1. n \in 1..Len(call[c].full)
      BY <1>2, <1>3, <2>2
    <3>2. /\ SubSeq(call[c].full, 1, n) \in Path /\ SubSeq(call[c].full, 1, n) # Root
          /\ Parent(SubSeq(call[c].full, 1, n)) = SubSeq(call[c].full, 1, n - 1)
      BY <1>2, <3>1, AncestorParent
    <3> QED
      BY <2>2, <3>2 DEF Ancestor
  <2> QED
    BY <2>1, <2>2
<1>6. n # 0 => Ancestor(c, n - 1) \in dirs
  <2> SUFFICES ASSUME n # 0, Ancestor(c, n - 1) \notin dirs PROVE FALSE
    OBVIOUS
  <2>1. n - 1 \in 0..Depth(c)
    BY <1>3, <1>4
  <2>2. n - 1 \in Missing(c)
    BY <2>1 DEF Missing
  <2> QED
    BY <1>1, <1>3, <2>2
<1>7. p # Root => Parent(p) \in dirs
  BY <1>5, <1>6
<1>8. dirs' = dirs \cup {p} /\ p \notin dirs /\ p \notin DOMAIN files /\ p \in Path
  BY <1>1, <1>3, <1>5
<1>9. files' = files /\ content' = content
  BY DEF CreateNextDir
<1>10. \E m \in 0..Len(call[c].full) : p = SubSeq(call[c].full, 1, m)
  BY <1>3 DEF Ancestor
<1> HIDE DEF p
<1>11. FsTypeOK' /\ OnePath'
  BY <1>7, <1>8, <1>9 DEF FsInv, FsTypeOK, OnePath, InUse
<1>12. p \notin InUse
  BY <1>8 DEF InUse
<1> QED
  BY <1>7, <1>8, <1>10, <1>11, <1>12

LEMMA DeleteFileEffect ==
    ASSUME FsInv, NEW c \in Caller, DeleteFile(c)
    PROVE  FsTypeOK' /\ OnePath'
<1>1. /\ DOMAIN files' = DOMAIN files \ {call[c].full} /\ dirs' = dirs /\ content' = content
      /\ \A q \in DOMAIN files' : files'[q] = files[q]
  BY DEF DeleteFile
<1> QED
  BY <1>1 DEF FsInv, FsTypeOK, OnePath, InUse

LEMMA DeleteDirEffect ==
    ASSUME FsInv, NEW c \in Caller, DeleteDir(c)
    PROVE  FsTypeOK' /\ OnePath'
<1>1. /\ files' = files /\ content' = content /\ dirs' = dirs \ {call[c].full}
      /\ \A q \in InUse \ {Root} : Parent(q) # call[c].full
  BY DEF DeleteDir
<1> QED
  BY <1>1 DEF FsInv, FsTypeOK, OnePath, InUse

LEMMA FirstSteps ==
    /\ FirstStep("put") = "parents" /\ FirstStep("append") = "open"
    /\ FirstStep("read") = "openread" /\ FirstStep("delete") = "unlink"
    /\ FirstStep("mkdir") = "parents" /\ FirstStep("rmdir") = "rmdir"
BY Zenon DEF FirstStep

LEMMA Payloads ==
    /\ PayloadOf("put") = PutData /\ PayloadOf("append") = AppendData
    /\ \A op \in Op \ {"put", "append"} : PayloadOf(op) = {<< >>}
<1>1. PayloadOf("put") = PutData
  BY Zenon DEF PayloadOf
<1>2. PayloadOf("append") = AppendData
  BY Zenon DEF PayloadOf
<1>3. \A op : op # "put" /\ op # "append" => PayloadOf(op) = {<< >>}
  BY Zenon DEF PayloadOf
<1> QED
  BY <1>1, <1>2, <1>3

-----------------------------------------------------------------------------
(* Each file-system call keeps the invariant. *)

LEMMA SameAt ==
    ASSUME FsInv, NEW c \in Caller
    PROVE  /\ pc = [pc EXCEPT ![c] = pc[c]] /\ call = [call EXCEPT ![c] = call[c]]
           /\ outcome = [outcome EXCEPT ![c] = outcome[c]]
           /\ intact \in [Caller -> BOOLEAN]
BY DEF FsInv, CallsTypeOK

(* A step that leaves the contents and the observer of the others alone. *)
LEMMA QuietStep ==
    ASSUME FsInv, NEW c \in Caller, NEW label \in Label, NEW k \in CallRecord,
           NEW how \in {"none", "ok", "err"}, NEW own \in BOOLEAN,
           FsTypeOK', OnePath', content' = content,
           pc' = [pc EXCEPT ![c] = label], call' = [call EXCEPT ![c] = k],
           outcome' = [outcome EXCEPT ![c] = how], intact' = [intact EXCEPT ![c] = own],
           k.inode <= Len(content),
           label # "idle" => UnderWay(label, k),
           own => Good(label, how, k, BytesOf(content, k.inode))
    PROVE  FsInv'
<1>1. /\ intact' \in [Caller -> BOOLEAN] /\ intact'[c] = own
      /\ \A d \in Caller \ {c} : intact'[d] = intact[d]
  BY SameAt
<1>2. Len(content) \in Nat
  BY CallFacts
<1>3. Len(content) <= Len(content') /\ k.inode <= Len(content')
  BY <1>2
<1>4. intact'[c] => Good(label, how, k, BytesOf(content', k.inode))
  BY <1>1
<1>5. \A d \in Caller \ {c} : intact'[d] =>
              /\ intact[d]
              /\ \/ BytesOf(content', call[d].inode) = BytesOf(content, call[d].inode)
                 \/ Longer(BytesOf(content, call[d].inode), BytesOf(content', call[d].inode))
  BY <1>1
<1> QED
  BY <1>1, <1>3, <1>4, <1>5, StepKeeps

(* A call that fails returns an error, and is not about its bytes any more. *)
LEMMA GoodWhenFailed ==
    ASSUME NEW label, NEW how, NEW k, NEW bytes, Good(label, how, k, bytes)
    PROVE  Good("idle", "err", k, bytes)
BY DEF Good, AppendGood, ReadGood

LEMMA CallFailsKeeps ==
    ASSUME FsInv, NEW c \in Caller, CallFails(c)
    PROVE  FsInv'
<1>1. /\ pc' = [pc EXCEPT ![c] = "idle"] /\ outcome' = [outcome EXCEPT ![c] = "err"]
      /\ call' = call /\ intact' = intact /\ UNCHANGED fs /\ content' = content
  BY DEF CallFails, Return, Goto, fs
<1>2. FsTypeOK' /\ OnePath'
  BY <1>1, FsUntouched
<1>3. call' = [call EXCEPT ![c] = call[c]] /\ intact' = [intact EXCEPT ![c] = intact[c]]
  BY <1>1, SameAt
<1>4. /\ call[c] \in CallRecord /\ intact[c] \in BOOLEAN /\ call[c].inode <= Len(content)
      /\ intact[c] => Good("idle", "err", call[c], BytesOf(content, call[c].inode))
  BY CallFacts, GoodWhenFailed
<1>5. "idle" \in Label /\ "err" \in {"none", "ok", "err"}
  BY DEF Label
<1> QED
  BY <1>1, <1>2, <1>3, <1>4, <1>5, QuietStep

LEMMA StartKeeps ==
    ASSUME FsInv, NEW c \in Caller, NEW op \in Op, NEW path \in RawPath, NEW data \in PayloadOf(op),
           Start(c, op, path, data)
    PROVE  FsInv'
<1>1. UNCHANGED fs /\ content' = content /\ intact' = [intact EXCEPT ![c] = FALSE]
  BY DEF Start, fs
<1>2. FsTypeOK' /\ OnePath' /\ Len(content) \in Nat
  BY <1>1, FsUntouched, CallFacts
<1>3. path \in Seq(Component) /\ Root \in Path /\ << >> \in Seq(Byte) /\ << >> \in Seq(Component)
  BY FsAssumption DEF Root, Path
<1>4. data \in Seq(Byte)
  <2>1. CASE op \in {"put", "append"}
    BY <2>1, FsAssumption, Payloads
  <2>2. CASE op \notin {"put", "append"}
    BY <1>3, <2>2, Payloads
  <2> QED
    BY <2>1, <2>2
<1>5. CASE Resolve(path) = {}
  <2>1. PICK k : k = NewCall(op, path, << >>, Root)
    OBVIOUS
  <2>2. /\ call' = [call EXCEPT ![c] = k] /\ pc' = [pc EXCEPT ![c] = "idle"]
        /\ outcome' = [outcome EXCEPT ![c] = "err"]
    BY <1>5, <2>1 DEF Start, Return, Goto
  <2>3. k \in CallRecord /\ k.inode = 0
    BY <1>3, <2>1 DEF NewCall, CallRecord
  <2>4. "idle" \in Label /\ "err" \in {"none", "ok", "err"} /\ FALSE \in BOOLEAN /\ k.inode <= Len(content)
    BY <1>2, <2>3 DEF Label
  <2> QED
    BY <1>1, <1>2, <2>2, <2>3, <2>4, QuietStep
<1>6. CASE Resolve(path) # {}
  <2>1. PICK full \in Resolve(path) :
           /\ call' = [call EXCEPT ![c] = NewCall(op, path, data, full)]
           /\ pc' = [pc EXCEPT ![c] = FirstStep(op)] /\ outcome' = outcome
    BY <1>6 DEF Start, Goto
  <2>2. PICK k : k = NewCall(op, path, data, full)
    OBVIOUS
  <2>3. call' = [call EXCEPT ![c] = k] /\ outcome' = [outcome EXCEPT ![c] = outcome[c]]
    BY <2>1, <2>2, SameAt
  <2>4. full \in Path /\ BelowBase(Lexically(Base \o path)) = {full}
    BY <1>3, ResolveIs DEF FsInv, FsTypeOK, InUse
  <2>5. /\ k \in CallRecord /\ k.inode = 0 /\ k.op = op /\ k.path = path /\ k.data = data
        /\ k.full = full
    BY <1>3, <1>4, <2>2, <2>4 DEF NewCall, CallRecord
  <2>6. FirstStep(op) \in Label /\ UnderWay(FirstStep(op), k)
    BY <2>4, <2>5, FirstSteps, Payloads DEF Label, UnderWay, Op
  <2>7. outcome[c] \in {"none", "ok", "err"} /\ FALSE \in BOOLEAN /\ k.inode <= Len(content)
    BY <1>2, <2>5, CallFacts
  <2> QED
    BY <1>1, <1>2, <2>1, <2>3, <2>5, <2>6, <2>7, QuietStep
<1> QED
  BY <1>5, <1>6

LEMMA CreateNextDirKeeps ==
    ASSUME FsInv, NEW c \in Caller, CreateNextDir(c)
    PROVE  FsInv'
<1>1. UNCHANGED <<content, pc, call, outcome, intact>>
  BY DEF CreateNextDir
<1>2. FsTypeOK' /\ OnePath'
  BY CreateNextDirEffect
<1> QED
  BY <1>1, <1>2 DEF FsInv, CallsTypeOK

LEMMA DirsExistKeeps ==
    ASSUME FsInv, NEW c \in Caller, DirsExist(c)
    PROVE  FsInv'
<1>1. UNCHANGED fs /\ content' = content /\ call' = call /\ intact' = intact /\ pc[c] = "parents"
  BY DEF DirsExist, fs
<1>2. FsTypeOK' /\ OnePath'
  BY <1>1, FsUntouched
<1>3. call' = [call EXCEPT ![c] = call[c]] /\ intact' = [intact EXCEPT ![c] = intact[c]]
  BY <1>1, SameAt
<1>4. /\ call[c] \in CallRecord /\ intact[c] \in BOOLEAN /\ call[c].inode <= Len(content)
      /\ UnderWay("parents", call[c]) /\ outcome[c] \in {"none", "ok", "err"}
      /\ intact[c] => Good("parents", outcome[c], call[c], BytesOf(content, call[c].inode))
  BY <1>1, CallFacts
<1>5. call[c].op \in {"put", "mkdir"}
  BY <1>4 DEF UnderWay
<1>6. CASE call[c].op = "mkdir"
  <2>1. pc' = [pc EXCEPT ![c] = "idle"] /\ outcome' = [outcome EXCEPT ![c] = "ok"]
    BY <1>6 DEF DirsExist, Return, Goto
  <2>2. Good("idle", "ok", call[c], BytesOf(content, call[c].inode))
    BY <1>6 DEF Good
  <2>3. "idle" \in Label /\ "ok" \in {"none", "ok", "err"}
    BY DEF Label
  <2> QED
    BY <1>1, <1>2, <1>3, <1>4, <2>1, <2>2, <2>3, QuietStep
<1>7. CASE call[c].op = "put"
  <2>1. pc' = [pc EXCEPT ![c] = "create"] /\ outcome' = [outcome EXCEPT ![c] = outcome[c]]
    BY <1>7, SameAt DEF DirsExist, Goto
  <2>2. Good("create", outcome[c], call[c], BytesOf(content, call[c].inode))
    BY <1>7 DEF Good
  <2>3. "create" \in Label /\ UnderWay("create", call[c])
    BY <1>4, <1>7 DEF Label, UnderWay
  <2> QED
    BY <1>1, <1>2, <1>3, <1>4, <2>1, <2>2, <2>3, QuietStep
<1> QED
  BY <1>5, <1>6, <1>7

(* Writing over nothing, nothing over something, and at the end. *)
LEMMA OverwriteFacts ==
    ASSUME NEW old \in Seq(Byte), NEW new \in Seq(Byte)
    PROVE  /\ Overwrite(old, new) \in Seq(Byte)
           /\ Overwrite(<< >>, new) = new /\ Overwrite(old, << >>) = old
<1>1. SubSeq(old, Len(new) + 1, Len(old)) \in Seq(Byte)
  OBVIOUS
<1>2. new \o SubSeq(old, Len(new) + 1, Len(old)) \in Seq(Byte)
  BY <1>1
<1>3. SubSeq(<< >>, Len(new) + 1, Len(<< >>)) = << >>
  OBVIOUS
<1>4. new \o << >> = new
  OBVIOUS
<1>5. SubSeq(old, 0 + 1, Len(old)) = old /\ Len(<< >>) = 0 /\ << >> \o old = old
  BY SubSeqFull
<1> QED
  BY <1>2, <1>3, <1>4, <1>5 DEF Overwrite

LEMMA OverwriteAtEnd ==
    ASSUME NEW old \in Seq(Byte), NEW new \in Seq(Byte)
    PROVE  SubSeq(old, 1, Len(old)) \o Overwrite(SubSeq(old, Len(old) + 1, Len(old)), new) = old \o new
<1>1. SubSeq(old, Len(old) + 1, Len(old)) = << >>
  OBVIOUS
<1>2. SubSeq(old, 1, Len(old)) = old
  BY SubSeqFull
<1>3. Overwrite(<< >>, new) = new
  BY OverwriteFacts
<1> QED
  BY <1>1, <1>2, <1>3

LEMMA Concatenated ==
    ASSUME NEW old \in Seq(Byte), NEW new \in Seq(Byte)
    PROVE  /\ old \o new \in Seq(Byte) /\ Longer(old, old \o new)
           /\ Len(old \o new) = Len(old) + Len(new)
           /\ \A n \in 1..Len(new) : (old \o new)[Len(old) + n] = new[n]
<1>1. /\ old \o new \in Seq(Byte) /\ Len(old \o new) = Len(old) + Len(new)
      /\ Len(old) \in Nat /\ Len(new) \in Nat
  OBVIOUS
<1>2. \A n \in 1..Len(old) : (old \o new)[n] = old[n]
  OBVIOUS
<1>3. \A n \in 1..Len(new) : (old \o new)[Len(old) + n] = new[n]
  OBVIOUS
<1> QED
  BY <1>1, <1>2, <1>3 DEF Longer

LEMMA CreateFileKeeps ==
    ASSUME FsInv, NEW c \in Caller, CreateFile(c)
    PROVE  FsInv'
<1> DEFINE p == call[c].full
           i == Inode(p)
<1>1. /\ pc[c] = "create" /\ Openable(p) /\ Link(p) /\ Store(i, << >>) /\ Disturb(c, i, FALSE)
      /\ pc' = [pc EXCEPT ![c] = "write"] /\ UNCHANGED <<dirs, outcome>>
  BY Zenon DEF CreateFile, Goto
<1>2. /\ p \in Path /\ p \in Target /\ << >> \in Seq(Byte) /\ call[c] \in CallRecord
      /\ UnderWay("create", call[c]) /\ outcome[c] \in {"none", "ok", "err"}
  BY <1>1, CallFacts
<1>3. /\ FsTypeOK' /\ OnePath' /\ content \in Seq(Seq(Byte)) /\ i \in 1..(Len(content) + 1)
      /\ i \in Nat /\ i # 0
  BY <1>1, <1>2, LinkKeepsTree
<1> HIDE DEF p, i
<1>4. /\ Len(content) <= Len(content') /\ i <= Len(content')
      /\ \A j : BytesOf(content', j) = IF j = i THEN << >> ELSE BytesOf(content, j)
  BY <1>1, <1>2, <1>3, StoreEffect
<1>5. PICK k : k = [call[c] EXCEPT !.inode = i]
  BY Zenon
<1>6. call' = [call EXCEPT ![c] = k] /\ outcome' = [outcome EXCEPT ![c] = outcome[c]]
  <2>1. call' = [call EXCEPT ![c].inode = i]
    BY Zenon DEF CreateFile, p, i
  <2>2. call' = [call EXCEPT ![c] = k]
    BY <1>5, <2>1, Zenon
  <2> QED
    BY <1>1, <2>2, SameAt
<1>7. /\ k \in CallRecord /\ k.inode = i /\ k.op = call[c].op /\ k.path = call[c].path
      /\ k.full = call[c].full /\ k.data = call[c].data
  BY <1>2, <1>3, <1>5, Zenon DEF CallRecord
<1>8. UnderWay("write", k) /\ k.op = "put" /\ "write" \in Label
  BY <1>2, <1>3, <1>7 DEF UnderWay, Label
<1>9. Good("write", outcome[c], k, BytesOf(content', k.inode))
  BY <1>8 DEF Good
<1>10. /\ intact' \in [Caller -> BOOLEAN]
       /\ \A d \in Caller \ {c} : intact'[d] => intact[d] /\ call[d].inode # i
  BY <1>1, SameAt DEF Disturb
<1>11. \A d \in Caller \ {c} : intact'[d] =>
              intact[d] /\ BytesOf(content', call[d].inode) = BytesOf(content, call[d].inode)
  BY <1>4, <1>10
<1> QED
  BY <1>1, <1>2, <1>3, <1>4, <1>6, <1>7, <1>8, <1>9, <1>10, <1>11, StepKeeps

LEMMA WriteFileKeeps ==
    ASSUME FsInv, NEW c \in Caller, WriteFile(c)
    PROVE  FsInv'
<1> DEFINE i == call[c].inode
           data == call[c].data
           old == BytesOf(content, i)
<1>1. PICK n \in 0..Len(data) :
         Store(i, Overwrite(old, SubSeq(data, 1, n))) /\ AfterWrite(c, n)
  BY DEF WriteFile, Bytes, BytesOf
<1>2. /\ pc[c] = "write" /\ UNCHANGED <<dirs, files, call>>
      /\ IF data = << >> THEN UNCHANGED intact ELSE Disturb(c, i, FALSE)
  BY DEF WriteFile
<1>3. /\ call[c] \in CallRecord /\ UnderWay("write", call[c]) /\ outcome[c] \in {"none", "ok", "err"}
      /\ i \in Nat /\ i <= Len(content) /\ Len(content) \in Nat /\ content \in Seq(Seq(Byte))
      /\ data \in Seq(Byte) /\ intact[c] \in BOOLEAN
      /\ intact[c] => Good("write", outcome[c], call[c], old)
  BY <1>2, CallFacts
<1>4. i \in 1..Len(content) /\ i \in 1..(Len(content) + 1) /\ call[c].op = "put"
  BY <1>3 DEF UnderWay
<1> DEFINE part == SubSeq(data, 1, n)
           new == Overwrite(old, part)
<1>5. old \in Seq(Byte) /\ part \in Seq(Byte) /\ (n = Len(data) => part = data)
      /\ (data = << >> => part = << >>)
  <2>1. old \in Seq(Byte)
    BY <1>3, BytesType
  <2>2. part \in Seq(Byte)
    BY <1>1, <1>3, PrefixIsSeq
  <2>3. n = Len(data) => part = data
    BY <1>3, SubSeqFull
  <2>4. data = << >> => n = Len(data)
    BY <1>1
  <2> HIDE DEF part
  <2> QED
    BY <2>1, <2>2, <2>3, <2>4
<1>6. new \in Seq(Byte) /\ (old = << >> => new = part) /\ (part = << >> => new = old)
  BY <1>5, OverwriteFacts
<1> HIDE DEF part, new
<1>7. Store(i, new)
  BY <1>1 DEF new, part
<1> HIDE DEF i, data, old
<1>8. /\ FsTypeOK' /\ OnePath' /\ Len(content) <= Len(content') /\ i <= Len(content')
      /\ \A j : BytesOf(content', j) = IF j = i THEN new ELSE BytesOf(content, j)
  BY <1>2, <1>3, <1>4, <1>6, <1>7, StoreKeepsTree, StoreEffect
<1>9. call' = [call EXCEPT ![c] = call[c]]
  BY <1>2, SameAt
<1>10. /\ intact' \in [Caller -> BOOLEAN]
       /\ \A d \in Caller \ {c} : intact'[d] => intact[d] /\ (call[d].inode # i \/ data = << >>)
  BY <1>2, <1>3, SameAt DEF Disturb
<1>11. \A d \in Caller \ {c} : intact'[d] =>
              intact[d] /\ BytesOf(content', call[d].inode) = BytesOf(content, call[d].inode)
  BY <1>5, <1>6, <1>8, <1>10 DEF old
<1>12. BytesOf(content', call[c].inode) = new /\ call[c].inode <= Len(content')
  BY <1>8 DEF i
<1>14. CASE n = Len(data)
  <2>1. pc' = [pc EXCEPT ![c] = "sync"] /\ outcome' = [outcome EXCEPT ![c] = outcome[c]]
    BY <1>1, <1>14, SameAt DEF AfterWrite, Goto, data
  <2>2. "sync" \in Label /\ UnderWay("sync", call[c])
    BY <1>3, <1>4 DEF Label, UnderWay
  <2>3. Good("sync", outcome[c], call[c], new)
    BY <1>4 DEF Good
  <2> QED
    BY <1>3, <1>8, <1>9, <1>10, <1>11, <1>12, <2>1, <2>2, <2>3, StepKeeps
<1>15. CASE n # Len(data)
  <2>1. pc' = [pc EXCEPT ![c] = "idle"] /\ outcome' = [outcome EXCEPT ![c] = "err"]
    BY <1>1, <1>15 DEF AfterWrite, Return, Goto, data
  <2>2. "idle" \in Label /\ "err" \in {"none", "ok", "err"}
    BY DEF Label
  <2>3. Good("idle", "err", call[c], new)
    BY <1>4 DEF Good
  <2> QED
    BY <1>3, <1>8, <1>9, <1>10, <1>11, <1>12, <2>1, <2>2, <2>3, StepKeeps
<1> QED
  BY <1>14, <1>15

LEMMA OpenAppendKeeps ==
    ASSUME FsInv, NEW c \in Caller, OpenAppend(c)
    PROVE  FsInv'
<1> DEFINE p == call[c].full
           i == Inode(p)
           old == BytesOf(content, i)
<1>1. /\ pc[c] = "open" /\ Openable(p) /\ Link(p)
      /\ pc' = [pc EXCEPT ![c] = "append"] /\ UNCHANGED <<dirs, outcome, intact>>
  BY Zenon DEF OpenAppend, Goto
<1>2. Store(i, old)
  BY Zenon DEF OpenAppend, Bytes, BytesOf
<1>3. /\ p \in Path /\ p \in Target /\ call[c] \in CallRecord
      /\ UnderWay("open", call[c]) /\ outcome[c] \in {"none", "ok", "err"}
      /\ content \in Seq(Seq(Byte)) /\ old \in Seq(Byte)
      /\ intact[c] => Good("open", outcome[c], call[c], BytesOf(content, call[c].inode))
  BY <1>1, CallFacts, BytesType
<1>4. /\ FsTypeOK' /\ OnePath' /\ i \in 1..(Len(content) + 1) /\ i \in Nat /\ i # 0
  BY <1>1, <1>2, <1>3, LinkKeepsTree
<1>5. PICK k : k = [call[c] EXCEPT !.inode = i, !.start = Len(old)]
  BY Zenon
<1>6. call' = [call EXCEPT ![c] = k]
  <2>1. call' = [call EXCEPT ![c].inode = i, ![c].start = Len(old)]
    BY Zenon DEF OpenAppend, Bytes, BytesOf
  <2> HIDE DEF p, i, old
  <2>2. call \in [Caller -> CallRecord]
    BY DEF FsInv, CallsTypeOK
  <2>3. [call EXCEPT ![c].inode = i, ![c].start = Len(old)] =
          [call EXCEPT ![c] = [call[c] EXCEPT !.inode = i, !.start = Len(old)]]
    BY <2>2, Zenon
  <2> QED
    BY <1>5, <2>1, <2>3, Zenon
<1> HIDE DEF p, i, old
<1>7. /\ k.inode = i /\ k.op = call[c].op /\ k.path = call[c].path
      /\ k.full = call[c].full /\ k.data = call[c].data
  BY <1>3, <1>5, Zenon DEF CallRecord
<1>8. Len(old) \in Nat
  BY <1>3
<1>9. k \in CallRecord
  BY <1>3, <1>4, <1>5, <1>8, Zenon DEF CallRecord
<1>10. /\ Len(content) <= Len(content') /\ i <= Len(content')
       /\ \A j : BytesOf(content', j) = BytesOf(content, j)
  BY <1>2, <1>3, <1>4, StoreEffect DEF old
<1>11. UnderWay("append", k) /\ k.op = "append" /\ "append" \in Label
  BY <1>3, <1>4, <1>7 DEF UnderWay, Label
<1>12. ~intact[c]
  BY <1>3, <1>7, <1>11 DEF Good, AppendGood
<1>13. outcome' = [outcome EXCEPT ![c] = outcome[c]] /\ intact' \in [Caller -> BOOLEAN]
  BY <1>1, SameAt
<1> QED
  BY <1>1, <1>3, <1>4, <1>6, <1>7, <1>9, <1>10, <1>11, <1>12, <1>13, StepKeeps

LEMMA AppendFileKeeps ==
    ASSUME FsInv, NEW c \in Caller, AppendFile(c)
    PROVE  FsInv'
<1> DEFINE i == call[c].inode
           data == call[c].data
           old == BytesOf(content, i)
           end == Len(old)
<1>1. PICK n \in 0..Len(data) :
         /\ Store(i, SubSeq(old, 1, end)
                     \o Overwrite(SubSeq(old, end + 1, Len(old)), SubSeq(data, 1, n)))
         /\ AfterWrite(c, n)
         /\ intact' = [intact EXCEPT ![c] = n = Len(data)]
  BY Zenon DEF AppendFile, WritePosition, Bytes, BytesOf
<1>2. pc[c] = "append" /\ UNCHANGED <<dirs, files>>
  BY Zenon DEF AppendFile
<1>3. /\ call[c] \in CallRecord /\ UnderWay("append", call[c]) /\ outcome[c] \in {"none", "ok", "err"}
      /\ i \in Nat /\ i <= Len(content) /\ Len(content) \in Nat /\ content \in Seq(Seq(Byte))
      /\ data \in Seq(Byte)
  BY <1>2, CallFacts
<1>4. i \in 1..Len(content) /\ i \in 1..(Len(content) + 1) /\ call[c].op = "append"
  BY <1>3 DEF UnderWay
<1> DEFINE part == SubSeq(data, 1, n)
           new == old \o part
<1>5. old \in Seq(Byte) /\ part \in Seq(Byte) /\ end \in Nat /\ (n = Len(data) => part = data)
  <2>1. old \in Seq(Byte)
    BY <1>3, BytesType
  <2>2. part \in Seq(Byte)
    BY <1>1, <1>3, PrefixIsSeq
  <2>3. n = Len(data) => part = data
    BY <1>3, SubSeqFull
  <2> HIDE DEF part, old
  <2> QED
    BY <2>1, <2>2, <2>3
<1>6. /\ new \in Seq(Byte) /\ Longer(old, new) /\ Len(new) = end + Len(part)
      /\ \A m \in 1..Len(part) : new[end + m] = part[m]
  <2> HIDE DEF part, old
  <2> QED
    BY <1>5, Concatenated
<1>7. Store(i, new)
  <2> HIDE DEF old, data, i
  <2>1. SubSeq(old, 1, Len(old)) \o Overwrite(SubSeq(old, Len(old) + 1, Len(old)), part) = old \o part
    BY <1>5, OverwriteAtEnd
  <2> QED
    BY <1>1, <2>1
<1> HIDE DEF part, new
<1>8. PICK k : k = [call[c] EXCEPT !.start = end]
  BY Zenon
<1>9. call' = [call EXCEPT ![c] = k]
  <2>1. call' = [call EXCEPT ![c].start = end]
    BY Zenon DEF AppendFile, WritePosition, Bytes, BytesOf
  <2> HIDE DEF i, data, old, end
  <2> QED
    BY <1>8, <2>1, Zenon
<1> HIDE DEF i, old, end
<1>10. /\ k \in CallRecord /\ k.inode = i /\ k.op = call[c].op /\ k.path = call[c].path
       /\ k.full = call[c].full /\ k.data = data /\ k.start = end
  BY <1>3, <1>5, <1>8, Zenon DEF CallRecord, i
<1> HIDE DEF data
<1>11. /\ FsTypeOK' /\ OnePath' /\ Len(content) <= Len(content') /\ i <= Len(content')
       /\ \A j : BytesOf(content', j) = IF j = i THEN new ELSE BytesOf(content, j)
  BY <1>2, <1>3, <1>4, <1>6, <1>7, StoreKeepsTree, StoreEffect
<1>12. /\ intact' \in [Caller -> BOOLEAN] /\ intact'[c] = (n = Len(data))
       /\ \A d \in Caller \ {c} : intact'[d] => intact[d]
  BY <1>1, SameAt
<1>13. \A d \in Caller \ {c} : intact'[d] =>
          /\ intact[d]
          /\ \/ BytesOf(content', call[d].inode) = BytesOf(content, call[d].inode)
             \/ Longer(BytesOf(content, call[d].inode), BytesOf(content', call[d].inode))
  BY <1>6, <1>11, <1>12 DEF old
<1>14. BytesOf(content', k.inode) = new /\ k.inode <= Len(content')
  BY <1>10, <1>11
<1>15. CASE n = Len(data)
  <2>1. pc' = [pc EXCEPT ![c] = "sync"] /\ outcome' = [outcome EXCEPT ![c] = outcome[c]]
    BY <1>1, <1>15, SameAt DEF AfterWrite, Goto, data
  <2>2. "sync" \in Label /\ UnderWay("sync", k)
    BY <1>3, <1>4, <1>10 DEF Label, UnderWay, data
  <2>3. Good("sync", outcome[c], k, new)
    BY <1>4, <1>5, <1>6, <1>10, <1>15 DEF Good, AppendGood
  <2> QED
    BY <1>3, <1>9, <1>10, <1>11, <1>12, <1>13, <1>14, <2>1, <2>2, <2>3, StepKeeps
<1>16. CASE n # Len(data)
  <2>1. pc' = [pc EXCEPT ![c] = "idle"] /\ outcome' = [outcome EXCEPT ![c] = "err"]
    BY <1>1, <1>16 DEF AfterWrite, Return, Goto, data
  <2>2. "idle" \in Label /\ "err" \in {"none", "ok", "err"} /\ ~intact'[c]
    BY <1>12, <1>16 DEF Label
  <2> QED
    BY <1>9, <1>10, <1>11, <1>12, <1>13, <1>14, <2>1, <2>2, StepKeeps
<1> QED
  BY <1>15, <1>16

LEMMA SyncKeeps ==
    ASSUME FsInv, NEW c \in Caller, Sync(c)
    PROVE  FsInv'
<1>1. /\ pc' = [pc EXCEPT ![c] = "idle"] /\ outcome' = [outcome EXCEPT ![c] = "ok"]
      /\ call' = call /\ intact' = intact /\ UNCHANGED fs /\ content' = content /\ pc[c] = "sync"
  BY DEF Sync, Return, Goto, fs
<1>2. FsTypeOK' /\ OnePath'
  BY <1>1, FsUntouched
<1>3. call' = [call EXCEPT ![c] = call[c]] /\ intact' = [intact EXCEPT ![c] = intact[c]]
  BY <1>1, SameAt
<1>4. /\ call[c] \in CallRecord /\ intact[c] \in BOOLEAN /\ call[c].inode <= Len(content)
      /\ UnderWay("sync", call[c])
      /\ intact[c] => Good("sync", outcome[c], call[c], BytesOf(content, call[c].inode))
  BY <1>1, CallFacts
<1>5. intact[c] => Good("idle", "ok", call[c], BytesOf(content, call[c].inode))
  BY <1>4 DEF UnderWay, Good, AppendGood
<1>6. "idle" \in Label /\ "ok" \in {"none", "ok", "err"}
  BY DEF Label
<1> QED
  BY <1>1, <1>2, <1>3, <1>4, <1>5, <1>6, QuietStep

LEMMA DeleteFileKeeps ==
    ASSUME FsInv, NEW c \in Caller, DeleteFile(c)
    PROVE  FsInv'
<1>1. /\ pc' = [pc EXCEPT ![c] = "idle"] /\ outcome' = [outcome EXCEPT ![c] = "ok"]
      /\ call' = call /\ content' = content
      /\ intact' = [d \in Caller |-> IF d = c THEN FALSE
                       ELSE intact[d] /\ call[d].inode # files[call[c].full]]
  BY DEF DeleteFile, Return, Goto, Disturb
<1>2. FsTypeOK' /\ OnePath' /\ Len(content) <= Len(content')
  BY <1>1, DeleteFileEffect, CallFacts
<1>3. call' = [call EXCEPT ![c] = call[c]]
  BY <1>1, SameAt
<1>4. call[c] \in CallRecord /\ call[c].inode <= Len(content')
  BY <1>1, CallFacts
<1>5. "idle" \in Label /\ "ok" \in {"none", "ok", "err"}
  BY DEF Label
<1>6. /\ intact' \in [Caller -> BOOLEAN] /\ ~intact'[c]
      /\ \A d \in Caller \ {c} : intact'[d] => intact[d]
  BY <1>1, SameAt
<1>7. \A d \in Caller \ {c} : intact'[d] =>
         intact[d] /\ BytesOf(content', call[d].inode) = BytesOf(content, call[d].inode)
  BY <1>1, <1>6
<1> QED
  BY <1>1, <1>2, <1>3, <1>4, <1>5, <1>6, <1>7, StepKeeps

LEMMA DeleteDirKeeps ==
    ASSUME FsInv, NEW c \in Caller, DeleteDir(c)
    PROVE  FsInv'
<1>1. /\ pc' = [pc EXCEPT ![c] = "idle"] /\ outcome' = [outcome EXCEPT ![c] = "ok"]
      /\ call' = call /\ content' = content /\ intact' = intact /\ pc[c] = "rmdir"
  BY DEF DeleteDir, Return, Goto
<1>2. FsTypeOK' /\ OnePath'
  BY DeleteDirEffect
<1>3. call' = [call EXCEPT ![c] = call[c]] /\ intact' = [intact EXCEPT ![c] = intact[c]]
  BY <1>1, SameAt
<1>4. /\ call[c] \in CallRecord /\ call[c].inode <= Len(content) /\ intact[c] \in BOOLEAN
      /\ UnderWay("rmdir", call[c])
  BY <1>1, CallFacts
<1>5. "idle" \in Label /\ "ok" \in {"none", "ok", "err"}
  BY DEF Label
<1>6. Good("idle", "ok", call[c], BytesOf(content, call[c].inode))
  BY <1>4 DEF UnderWay, Good
<1> QED
  BY <1>1, <1>2, <1>3, <1>4, <1>5, <1>6, QuietStep

LEMMA OpenReadKeeps ==
    ASSUME FsInv, NEW c \in Caller, OpenRead(c)
    PROVE  FsInv'
<1> DEFINE i == files[call[c].full]
           own == Offset(c) = 0 \/ (intact[c] /\ call[c].inode = i)
<1>1. /\ pc[c] = "openread" /\ call[c].full \in DOMAIN files
      /\ intact' = [intact EXCEPT ![c] = own] /\ pc' = [pc EXCEPT ![c] = "size"]
      /\ UNCHANGED fs /\ content' = content /\ outcome' = outcome
  BY Zenon DEF OpenRead, Goto, fs
<1>2. /\ FsTypeOK' /\ OnePath' /\ outcome' = [outcome EXCEPT ![c] = outcome[c]]
      /\ own \in BOOLEAN
  BY <1>1, FsUntouched, SameAt
<1>3. /\ call[c] \in CallRecord /\ UnderWay("openread", call[c]) /\ outcome[c] \in {"none", "ok", "err"}
      /\ call[c].got \in Seq(Byte)
      /\ intact[c] => Good("openread", outcome[c], call[c], BytesOf(content, call[c].inode))
  BY <1>1, CallFacts
<1>4. i \in Nat /\ i <= Len(content)
  BY <1>1 DEF FsInv, FsTypeOK
<1>5. PICK k : k = [call[c] EXCEPT !.inode = i]
  BY Zenon
<1>6. call' = [call EXCEPT ![c] = k]
  <2>1. call' = [call EXCEPT ![c].inode = i]
    BY Zenon DEF OpenRead
  <2> HIDE DEF i
  <2> QED
    BY <1>5, <2>1, Zenon
<1> HIDE DEF i
<1>7. /\ k \in CallRecord /\ k.inode = i /\ k.op = call[c].op /\ k.path = call[c].path
      /\ k.full = call[c].full /\ k.data = call[c].data /\ k.got = call[c].got
  BY <1>3, <1>4, <1>5, Zenon DEF CallRecord
<1>8. UnderWay("size", k) /\ k.op = "read" /\ "size" \in Label /\ k.inode <= Len(content)
  BY <1>3, <1>4, <1>7 DEF UnderWay, Label
<1>9. own => Good("size", outcome[c], k, BytesOf(content, k.inode))
  <2>1. Len(BytesOf(content, i)) \in Nat
    <3>1. BytesOf(content, i) \in Seq(Byte)
      BY BytesType, CallFacts
    <3> QED
      BY <3>1
  <2>2. CASE Offset(c) = 0
    BY <1>3, <1>7, <1>8, <2>1, <2>2 DEF Offset, Good, ReadGood
  <2>3. CASE intact[c] /\ call[c].inode = i
    BY <1>3, <1>7, <1>8, <2>3 DEF Good, ReadGood
  <2> QED
    BY <2>2, <2>3
<1> HIDE DEF own
<1> QED
  BY <1>1, <1>2, <1>3, <1>6, <1>7, <1>8, <1>9, QuietStep

LEMMA TakeSizeKeeps ==
    ASSUME FsInv, NEW c \in Caller, TakeSize(c)
    PROVE  FsInv'
<1> DEFINE bytes == BytesOf(content, call[c].inode)
           size == Len(bytes)
<1>1. /\ pc[c] = "size" /\ UNCHANGED fs /\ content' = content /\ intact' = intact
      /\ IF Offset(c) >= size THEN Return(c, "ok") ELSE Goto(c, "read") /\ UNCHANGED outcome
  BY Zenon DEF TakeSize, fs, Bytes, BytesOf
<1>2. FsTypeOK' /\ OnePath' /\ intact' = [intact EXCEPT ![c] = intact[c]]
  BY <1>1, FsUntouched, SameAt
<1>3. /\ call[c] \in CallRecord /\ UnderWay("size", call[c]) /\ outcome[c] \in {"none", "ok", "err"}
      /\ call[c].got \in Seq(Byte) /\ bytes \in Seq(Byte) /\ intact[c] \in BOOLEAN
      /\ call[c].inode <= Len(content)
      /\ intact[c] => Good("size", outcome[c], call[c], bytes)
  BY <1>1, CallFacts, BytesType
<1>4. size \in Nat
  <2> HIDE DEF bytes
  <2> QED
    BY <1>3
<1>5. PICK k : k = [call[c] EXCEPT !.size = size]
  BY Zenon
<1>6. call' = [call EXCEPT ![c] = k]
  <2>1. call' = [call EXCEPT ![c].size = size]
    BY Zenon DEF TakeSize, Bytes, BytesOf
  <2> HIDE DEF size
  <2> QED
    BY <1>5, <2>1, Zenon
<1> HIDE DEF size
<1>7. /\ k \in CallRecord /\ k.inode = call[c].inode /\ k.op = call[c].op /\ k.path = call[c].path
      /\ k.full = call[c].full /\ k.data = call[c].data /\ k.got = call[c].got /\ k.size = size
  BY <1>3, <1>4, <1>5, Zenon DEF CallRecord
<1>8. k.op = "read" /\ k.inode <= Len(content) /\ BytesOf(content, k.inode) = bytes
  BY <1>3, <1>7 DEF UnderWay
<1> HIDE DEF bytes
<1>9. /\ Offset(c) = Len(k.got) /\ Len(k.got) \in Nat
      /\ intact[c] => /\ Len(k.got) <= size
                      /\ \A n \in 1..Len(k.got) : bytes[n] = k.got[n]
  BY <1>3, <1>7, <1>8 DEF Offset, Good, ReadGood, size
<1>10. CASE Offset(c) >= size
  <2>1. pc' = [pc EXCEPT ![c] = "idle"] /\ outcome' = [outcome EXCEPT ![c] = "ok"]
    BY <1>1, <1>10 DEF Return, Goto
  <2>2. intact[c] => Good("idle", "ok", k, bytes)
    BY <1>4, <1>7, <1>8, <1>9, <1>10 DEF Good, ReadGood, size
  <2>3. "idle" \in Label /\ "ok" \in {"none", "ok", "err"}
    BY DEF Label
  <2> QED
    BY <1>1, <1>2, <1>3, <1>6, <1>7, <1>8, <2>1, <2>2, <2>3, QuietStep
<1>11. CASE ~(Offset(c) >= size)
  <2>1. pc' = [pc EXCEPT ![c] = "read"] /\ outcome' = [outcome EXCEPT ![c] = outcome[c]]
    BY <1>1, <1>11, SameAt DEF Goto
  <2>2. intact[c] => Good("read", outcome[c], k, bytes)
    BY <1>4, <1>7, <1>8, <1>9, <1>11 DEF Good, ReadGood, size
  <2>3. "read" \in Label /\ UnderWay("read", k)
    BY <1>3, <1>7, <1>8 DEF Label, UnderWay
  <2> QED
    BY <1>1, <1>2, <1>3, <1>6, <1>7, <1>8, <2>1, <2>2, <2>3, QuietStep
<1> QED
  BY <1>10, <1>11

LEMMA ResolveAgainKeeps ==
    ASSUME FsInv, NEW c \in Caller, ResolveAgain(c)
    PROVE  FsInv'
<1>1. /\ pc[c] = "resolve" /\ UNCHANGED fs /\ content' = content /\ intact' = intact
      /\ pc' = [pc EXCEPT ![c] = "openread"] /\ outcome' = outcome
  BY Zenon DEF ResolveAgain, Goto, fs
<1>2. PICK full \in Resolve(call[c].path) : call' = [call EXCEPT ![c].full = full]
  BY Zenon DEF ResolveAgain
<1>3. /\ FsTypeOK' /\ OnePath' /\ intact' = [intact EXCEPT ![c] = intact[c]]
      /\ outcome' = [outcome EXCEPT ![c] = outcome[c]]
  BY <1>1, FsUntouched, SameAt
<1>4. /\ call[c] \in CallRecord /\ UnderWay("resolve", call[c]) /\ outcome[c] \in {"none", "ok", "err"}
      /\ intact[c] \in BOOLEAN /\ call[c].inode <= Len(content)
      /\ intact[c] => Good("resolve", outcome[c], call[c], BytesOf(content, call[c].inode))
  BY <1>1, CallFacts
<1>5. call[c].path \in RawPath /\ call[c].path \in Seq(Component)
      /\ BelowBase(Lexically(Base \o call[c].path)) = {call[c].full}
  BY <1>4, FsAssumption DEF UnderWay
<1>6. BelowBase(Lexically(Base \o call[c].path)) = {full}
  BY <1>5, ResolveIs DEF FsInv, FsTypeOK, InUse
<1>7. full = call[c].full
  BY <1>5, <1>6
<1>8. call' = [call EXCEPT ![c] = call[c]]
  <2>1. call \in [Caller -> CallRecord]
    BY DEF FsInv, CallsTypeOK
  <2>2. [call[c] EXCEPT !.full = call[c].full] = call[c]
    BY <1>4, Zenon DEF CallRecord
  <2> QED
    BY <1>2, <1>7, <2>2, Zenon
<1>9. /\ "openread" \in Label /\ UnderWay("openread", call[c])
      /\ intact[c] => Good("openread", outcome[c], call[c], BytesOf(content, call[c].inode))
  BY <1>4 DEF Label, UnderWay, Good, ReadGood
<1> QED
  BY <1>1, <1>3, <1>4, <1>8, <1>9, QuietStep

(* What a read returns continues what was read before. *)
LEMMA ReadOn ==
    ASSUME NEW bytes \in Seq(Byte), NEW got \in Seq(Byte), NEW n \in Nat,
           n = 0 \/ Len(got) + n <= Len(bytes)
    PROVE  LET more == SubSeq(bytes, Len(got) + 1, Len(got) + n)
           IN  /\ got \o more \in Seq(Byte) /\ Len(got \o more) = Len(got) + n
               /\ (\A m \in 1..Len(got) : bytes[m] = got[m]) =>
                     \A m \in 1..(Len(got) + n) : bytes[m] = (got \o more)[m]
<1> DEFINE more == SubSeq(bytes, Len(got) + 1, Len(got) + n)
<1>0. Len(got) \in Nat /\ Len(bytes) \in Nat
  OBVIOUS
<1>1. more \in Seq(Byte) /\ Len(more) = n
  <2>1. CASE n = 0
    <3>1. more = << >>
      BY <1>0, <2>1
    <3> QED
      BY <2>1, <3>1
  <2>2. CASE n # 0
    BY <1>0, <2>2
  <2> QED
    BY <2>1, <2>2
<1>2. \A m \in 1..n : more[m] = bytes[Len(got) + m]
  <2> SUFFICES ASSUME NEW m \in 1..n PROVE more[m] = bytes[Len(got) + m]
    OBVIOUS
  <2>1. (Len(got) + 1) + m - 1 = Len(got) + m
    BY <1>0
  <2> QED
    BY <1>0, <2>1
<1> HIDE DEF more
<1>3. /\ got \o more \in Seq(Byte) /\ Len(got \o more) = Len(got) + n
      /\ \A m \in 1..Len(got) : (got \o more)[m] = got[m]
      /\ \A m \in (Len(got) + 1)..(Len(got) + n) : (got \o more)[m] = more[m - Len(got)]
  BY <1>0, <1>1
<1>4. ASSUME \A m \in 1..Len(got) : bytes[m] = got[m], NEW m \in 1..(Len(got) + n)
      PROVE  bytes[m] = (got \o more)[m]
  <2>1. CASE m \in 1..Len(got)
    BY <1>3, <1>4, <2>1
  <2>2. CASE m \in (Len(got) + 1)..(Len(got) + n)
    <3>1. m - Len(got) \in 1..n /\ Len(got) + (m - Len(got)) = m
      BY <1>0, <2>2
    <3>2. more[m - Len(got)] = bytes[m]
      BY <1>2, <3>1
    <3> QED
      BY <1>3, <2>2, <3>2
  <2>3. m \in 1..Len(got) \/ m \in (Len(got) + 1)..(Len(got) + n)
    BY <1>0
  <2> QED
    BY <2>1, <2>2, <2>3
<1> QED
  BY <1>3, <1>4 DEF more

LEMMA ReadChunkKeeps ==
    ASSUME FsInv, NEW c \in Caller, ReadChunk(c)
    PROVE  FsInv'
<1> DEFINE bytes == BytesOf(content, call[c].inode)
           got == call[c].got
           size == call[c].size
           off == Len(got)
<1>1. pc[c] = "read" /\ UNCHANGED fs /\ content' = content /\ intact' = intact
  BY Zenon DEF ReadChunk, fs
<1>2. PICK n \in ReadLength(c) :
         /\ call' = [call EXCEPT ![c].got =
                       @ \o SubSeq(Bytes(call[c].inode), Offset(c) + 1, Offset(c) + n)]
         /\ IF IsLast(c, n) THEN Return(c, "ok") ELSE Goto(c, "resolve") /\ UNCHANGED outcome
  BY Zenon DEF ReadChunk
<1>3. FsTypeOK' /\ OnePath' /\ intact' = [intact EXCEPT ![c] = intact[c]]
  BY <1>1, FsUntouched, SameAt
<1>4. /\ call[c] \in CallRecord /\ UnderWay("read", call[c]) /\ outcome[c] \in {"none", "ok", "err"}
      /\ got \in Seq(Byte) /\ bytes \in Seq(Byte) /\ intact[c] \in BOOLEAN
      /\ call[c].inode <= Len(content) /\ size \in Nat
      /\ intact[c] => Good("read", outcome[c], call[c], bytes)
  BY <1>1, CallFacts, BytesType DEF CallRecord
<1>5. /\ Offset(c) = off /\ Bytes(call[c].inode) = bytes
      /\ ReadLength(c) = IF Len(bytes) - off <= 0 THEN {0}
                         ELSE 1..Lesser(Lesser(size - off, ChunkSize), Len(bytes) - off)
  BY DEF Offset, Bytes, BytesOf, ReadLength
<1> DEFINE more == got \o SubSeq(bytes, off + 1, off + n)
<1>6. PICK k : k = [call[c] EXCEPT !.got = more]
  BY Zenon
<1>7. call' = [call EXCEPT ![c] = k]
  <2>1. call' = [call EXCEPT ![c].got = @ \o SubSeq(bytes, off + 1, off + n)]
    <3> HIDE DEF bytes, off
    <3> QED
      BY <1>2, <1>5, Zenon
  <2> HIDE DEF bytes, off
  <2>2. call' = [call EXCEPT ![c].got = more]
    BY <2>1, Zenon
  <2> HIDE DEF more
  <2> QED
    BY <1>6, <2>2, Zenon
<1> HIDE DEF bytes
<1>8. off \in Nat /\ Len(bytes) \in Nat /\ ChunkSize \in Nat \ {0}
  BY <1>4, FsAssumption
<1>9. n \in Nat /\ (n = 0 \/ off + n <= Len(bytes))
  <2> HIDE DEF off, size
  <2> QED
    BY <1>4, <1>5, <1>8 DEF Lesser
<1>10. /\ more \in Seq(Byte) /\ Len(more) = off + n
       /\ (\A m \in 1..off : bytes[m] = got[m]) => \A m \in 1..(off + n) : bytes[m] = more[m]
  <2> HIDE DEF got
  <2> QED
    BY <1>4, <1>9, ReadOn
<1> HIDE DEF more
<1>11. /\ k \in CallRecord /\ k.inode = call[c].inode /\ k.op = call[c].op /\ k.path = call[c].path
       /\ k.full = call[c].full /\ k.data = call[c].data /\ k.got = more /\ k.size = size
  BY <1>4, <1>6, <1>10, Zenon DEF CallRecord
<1>12. k.op = "read" /\ k.inode <= Len(content) /\ BytesOf(content, k.inode) = bytes
  BY <1>4, <1>11 DEF UnderWay, bytes
<1>13. ASSUME intact[c]
       PROVE  /\ Len(more) <= Len(bytes) /\ Len(more) <= size
              /\ \A m \in 1..Len(more) : bytes[m] = more[m]
  <2>1. /\ off < size /\ size <= Len(bytes) /\ \A m \in 1..off : bytes[m] = got[m]
    BY <1>4, <1>11, <1>12, <1>13 DEF Good, ReadGood
  <2>2. n <= size - off
    <3> HIDE DEF off, size
    <3> QED
      BY <1>4, <1>5, <1>8, <2>1 DEF Lesser
  <2> HIDE DEF off, size
  <2> QED
    BY <1>4, <1>8, <1>9, <1>10, <2>1, <2>2
<1>14. IsLast(c, n) <=> Len(more) >= size
  BY <1>5, <1>10 DEF IsLast
<1>15. CASE IsLast(c, n)
  <2>1. pc' = [pc EXCEPT ![c] = "idle"] /\ outcome' = [outcome EXCEPT ![c] = "ok"]
    BY <1>2, <1>15, Zenon DEF Return, Goto
  <2>2. intact[c] => Good("idle", "ok", k, bytes)
    <3>1. Len(more) \in Nat
      BY <1>10
    <3> HIDE DEF size
    <3> QED
      BY <1>4, <1>11, <1>12, <1>13, <1>14, <1>15, <3>1 DEF Good, ReadGood
  <2>3. "idle" \in Label /\ "ok" \in {"none", "ok", "err"}
    BY DEF Label
  <2> QED
    BY <1>1, <1>3, <1>4, <1>7, <1>11, <1>12, <2>1, <2>2, <2>3, QuietStep
<1>16. CASE ~IsLast(c, n)
  <2>1. pc' = [pc EXCEPT ![c] = "resolve"] /\ outcome' = [outcome EXCEPT ![c] = outcome[c]]
    <3>1. pc' = [pc EXCEPT ![c] = "resolve"] /\ outcome' = outcome
      BY <1>2, <1>16, Zenon DEF Goto
    <3> QED
      BY <3>1, SameAt
  <2>2. intact[c] => Good("resolve", outcome[c], k, bytes)
    BY <1>11, <1>12, <1>13 DEF Good, ReadGood
  <2>3. "resolve" \in Label /\ UnderWay("resolve", k)
    BY <1>4, <1>11, <1>12 DEF Label, UnderWay
  <2> QED
    BY <1>1, <1>3, <1>4, <1>7, <1>11, <1>12, <2>1, <2>2, <2>3, QuietStep
<1> QED
  BY <1>15, <1>16

LEMMA InitFsInv == FsInit => FsInv
<1> SUFFICES ASSUME FsInit PROVE FsInv
  OBVIOUS
<1>1. FsTypeOK
  <2>1. Root \in Path /\ content \in Seq(Seq(Byte))
    BY DEF FsInit, Root, Path
  <2> QED
    BY <2>1 DEF FsInit, FsTypeOK, InUse
<1>2. OnePath
  BY DEF FsInit, OnePath
<1>3. NoCall \in CallRecord /\ NoCall.inode = 0
  BY DEF NoCall, NewCall, CallRecord, Root, Path
<1>4. CallsTypeOK
  BY <1>3 DEF FsInit, CallsTypeOK, Label
<1>5. \A c \in Caller : call[c] = NoCall /\ pc[c] = "idle" /\ intact[c] = FALSE
  BY DEF FsInit
<1>6. Len(content) = 0
  BY DEF FsInit
<1> QED
  BY <1>1, <1>2, <1>3, <1>4, <1>5, <1>6 DEF FsInv

LEMMA NextFsInv == FsInv /\ [FsNext]_fsVars => FsInv'
<1>1. ASSUME FsInv, NEW c \in Caller, FsStep(c) PROVE FsInv'
  BY <1>1, StartKeeps, CallFailsKeeps, CreateNextDirKeeps, DirsExistKeeps, CreateFileKeeps,
     WriteFileKeeps, OpenAppendKeeps, AppendFileKeeps, SyncKeeps, DeleteFileKeeps,
     DeleteDirKeeps, OpenReadKeeps, TakeSizeKeeps, ReadChunkKeeps, ResolveAgainKeeps
  DEF FsStep
<1>2. FsInv /\ UNCHANGED fsVars => FsInv'
  BY DEF FsInv, FsTypeOK, CallsTypeOK, OnePath, InUse, fsVars
<1> QED
  BY <1>1, <1>2 DEF FsNext

(***************************************************************************)
(* For any number of sessions, each in the middle of any operation: the    *)
(* files form a tree, an open inode belongs to one path at most, every     *)
(* call under way works on the place that the text of its path leads to,   *)
(* and a call that nobody disturbed knows what its inode holds. This is    *)
(* inductive, and the results below rest on it.                            *)
(***************************************************************************)
THEOREM FsCorrect == FsSpec => []FsInv
<1> QED
  BY InitFsInv, NextFsInv, PTL DEF FsSpec

(***************************************************************************)
(* Whatever resolve_path finds by walking along the directories there are  *)
(* (to the path, or to its parent when the path does not exist) is the     *)
(* path that MemoryStorage::normalize_path computes from the text alone,   *)
(* for every path and every state of the tree; a path that normalize_path  *)
(* refuses is found only when it names the base directory on the way.      *)
(***************************************************************************)
THEOREM BackendsResolveAlike == FsSpec => []ResolveAgrees
<1>1. FsInv => ResolveAgrees
  BY ResolveIsNormalize, FsAssumption DEF ResolveAgrees, FsInv, FsTypeOK, InUse
<1> QED
  BY <1>1, FsCorrect, PTL

(***************************************************************************)
(* The bytes of an append_object that returned Ok are in the file in one   *)
(* piece, where the append started, whatever appends of other sessions run *)
(* at the same time, because each write goes to the end the file has at    *)
(* that moment.                                                            *)
(***************************************************************************)
THEOREM AppendsAlwaysStay == FsSpec => []AckedAppendStays
<1>1. FsInv => AckedAppendStays
  <2> SUFFICES ASSUME FsInv, NEW c \in Caller, call[c].op = "append", intact[c]
               PROVE  SubSeq(Bytes(call[c].inode), call[c].start + 1,
                             call[c].start + Len(call[c].data)) = call[c].data
    BY DEF AckedAppendStays
  <2> DEFINE bytes == Bytes(call[c].inode)
             s == call[c].start
             data == call[c].data
  <2>1. /\ bytes \in Seq(Byte) /\ s \in Nat /\ data \in Seq(Byte)
        /\ s + Len(data) <= Len(bytes) /\ \A n \in 1..Len(data) : bytes[s + n] = data[n]
    <3>1. bytes = BytesOf(content, call[c].inode)
      BY DEF Bytes, BytesOf
    <3>2. AppendGood(pc[c], call[c], bytes) /\ call[c] \in CallRecord /\ bytes \in Seq(Byte)
      BY <3>1, CallFacts, BytesType DEF Good
    <3> QED
      BY <3>2 DEF AppendGood, CallRecord
  <2> HIDE DEF bytes, s, data
  <2>2. SubSeq(bytes, s + 1, s + Len(data)) \in Seq(Byte) /\ Len(SubSeq(bytes, s + 1, s + Len(data))) = Len(data)
    BY <2>1
  <2>3. ASSUME NEW n \in 1..Len(data) PROVE SubSeq(bytes, s + 1, s + Len(data))[n] = data[n]
    <3>1. (s + 1) + n - 1 = s + n
      BY <2>1
    <3> QED
      BY <2>1, <3>1
  <2> QED
    BY <2>1, <2>2, <2>3, SeqEqual DEF bytes, s, data
<1> QED
  BY <1>1, FsCorrect, PTL

(***************************************************************************)
(* A chunked read beside any appends has read the file's first bytes,      *)
(* however short the single reads are, and has read as many as it          *)
(* announced when it is done.                                              *)
(***************************************************************************)
THEOREM ReadsAlwaysCollect == FsSpec => []ReadCollects
<1>1. FsInv => ReadCollects
  <2> SUFFICES ASSUME FsInv, NEW c \in Caller, call[c].op = "read", intact[c]
               PROVE  /\ IsPrefix(call[c].got, Bytes(call[c].inode))
                      /\ pc[c] = "idle" /\ outcome[c] = "ok" => Len(call[c].got) = call[c].size
    BY DEF ReadCollects
  <2> DEFINE bytes == Bytes(call[c].inode)
             got == call[c].got
  <2>1. bytes = BytesOf(content, call[c].inode)
    BY DEF Bytes, BytesOf
  <2>2. ReadGood(pc[c], outcome[c], call[c], bytes) /\ bytes \in Seq(Byte) /\ got \in Seq(Byte)
    BY <2>1, CallFacts, BytesType DEF Good
  <2>3. Len(got) <= Len(bytes) /\ \A n \in 1..Len(got) : bytes[n] = got[n]
    BY <2>2 DEF ReadGood
  <2> HIDE DEF bytes, got
  <2>4. SubSeq(bytes, 1, Len(got)) = got
    <3>1. SubSeq(bytes, 1, Len(got)) \in Seq(Byte) /\ Len(SubSeq(bytes, 1, Len(got))) = Len(got)
      BY <2>2, <2>3, PrefixIsSeq
    <3>2. \A n \in 1..Len(got) : SubSeq(bytes, 1, Len(got))[n] = got[n]
      BY <2>2, <2>3
    <3> QED
      BY <2>2, <3>1, <3>2, SeqEqual
  <2>5. IsPrefix(got, bytes)
    BY <2>2, <2>3, <2>4, SubSeqFull DEF IsPrefix
  <2> QED
    BY <2>2, <2>5 DEF ReadGood, bytes, got
<1> QED
  BY <1>1, FsCorrect, PTL

-----------------------------------------------------------------------------
(* Which directories there can be. *)

(***************************************************************************)
(* What is there was asked for, and so was everything above it: a call     *)
(* that would store something starts only below something that is there.   *)
(***************************************************************************)
NamedInv ==
    /\ named \subseteq Path /\ InUse \subseteq {Root} \cup named
    /\ \A p \in named \ {Root} : Parent(p) \in {Root} \cup named
    /\ \A c \in Caller : pc[c] # "idle" /\ call[c].op \in Stores => call[c].full \in named

LEMMA PrefixNamed ==
    ASSUME NamedInv, NEW p \in Path, p \in {Root} \cup named, NEW n \in 0..Len(p)
    PROVE  SubSeq(p, 1, n) \in {Root} \cup named
<1> DEFINE N == Len(p)
           T == {k \in Nat : k <= N => SubSeq(p, 1, N - k) \in {Root} \cup named}
<1>0. p \in Seq(Name) /\ N \in Nat
  BY DEF Path
<1>1. 0 \in T
  <2>1. N - 0 = N /\ SubSeq(p, 1, N) = p
    BY <1>0, SubSeqFull
  <2> QED
    BY <2>1
<1>2. ASSUME NEW k \in Nat, k \in T PROVE k + 1 \in T
  <2> SUFFICES ASSUME k + 1 <= N PROVE SubSeq(p, 1, N - (k + 1)) \in {Root} \cup named
    OBVIOUS
  <2>1. k <= N /\ N - k \in 1..Len(p) /\ (N - k) - 1 = N - (k + 1)
    BY <1>0
  <2>2. SubSeq(p, 1, N - k) \in {Root} \cup named
    BY <1>2, <2>1
  <2>3. /\ SubSeq(p, 1, N - k) # Root
        /\ Parent(SubSeq(p, 1, N - k)) = SubSeq(p, 1, (N - k) - 1)
    BY <2>1, AncestorParent
  <2> HIDE DEF N
  <2> QED
    BY <2>1, <2>2, <2>3 DEF NamedInv
<1>3. N - n \in T
  <2>1. N - n \in Nat
    BY <1>0
  <2> HIDE DEF T
  <2> QED
    BY <1>1, <1>2, <2>1, Induction
<1>4. N - n <= N /\ N - (N - n) = n /\ N - n \in Nat
  BY <1>0
<1> HIDE DEF N
<1> QED
  BY <1>3, <1>4

(* A step that stores nothing new and starts no call. *)
LEMMA NothingNew ==
    ASSUME FsInv, NamedInv, NEW c \in Caller, named' = named, InUse' \subseteq {Root} \cup named,
           \A d \in Caller : pc'[d] # "idle" => pc[d] # "idle",
           \A d \in Caller : call'[d].op = call[d].op,
           \A d \in Caller : call[d].op \in Stores => call'[d].full = call[d].full
    PROVE  NamedInv'
BY DEF NamedInv

LEMMA StartNamed ==
    ASSUME FsInv, NamedInv, NEW c \in Caller, NEW op \in Op, NEW path \in RawPath,
           NEW data \in PayloadOf(op), Start(c, op, path, data)
    PROVE  NamedInv'
<1>1. InUse' = InUse /\ pc \in [Caller -> Label] /\ call \in [Caller -> CallRecord]
  BY DEF Start, fs, InUse, FsInv, CallsTypeOK
<1>2. \A d \in Caller \ {c} : pc'[d] = pc[d] /\ call'[d] = call[d]
  BY <1>1 DEF Start, Return, Goto
<1>3. CASE Resolve(path) = {}
  <2>1. named' = named /\ pc'[c] = "idle"
    BY <1>1, <1>3 DEF Start, Return, Goto
  <2> QED
    BY <1>1, <1>2, <2>1 DEF NamedInv
<1>4. CASE Resolve(path) # {}
  <2>1. PICK full \in Resolve(path) :
           /\ call' = [call EXCEPT ![c] = NewCall(op, path, data, full)]
           /\ named' = named \cup {p \in {full} : op \in Stores}
    BY <1>4 DEF Start
  <2>2. call'[c].op = op /\ call'[c].full = full
    BY <1>1, <2>1 DEF NewCall
  <2>3. full \in Path /\ (full = Root \/ full \in InUse \/ Parent(full) \in InUse)
    BY FsAssumption, ResolveIs DEF FsInv, FsTypeOK, InUse
  <2>4. full # Root => Parent(full) \in {Root} \cup named
    BY <2>3 DEF NamedInv
  <2>5. named \subseteq named' /\ named' \subseteq named \cup {full} /\ (op \in Stores => full \in named')
    BY <2>1
  <2>6. \A d \in Caller : pc'[d] # "idle" /\ call'[d].op \in Stores => call'[d].full \in named'
    BY <1>2, <2>2, <2>5 DEF NamedInv
  <2> QED
    <3>1. named' \subseteq Path /\ InUse' \subseteq {Root} \cup named'
      BY <1>1, <2>3, <2>5 DEF NamedInv
    <3>2. \A p \in named' \ {Root} : Parent(p) \in {Root} \cup named'
      BY <2>4, <2>5 DEF NamedInv
    <3> QED
      BY <2>6, <3>1, <3>2 DEF NamedInv
<1> QED
  BY <1>3, <1>4

(* The fields that a call fills in leave its operation and its path alone. *)
LEMMA FieldsKept ==
    ASSUME call \in [Caller -> CallRecord], NEW c \in Caller, NEW i, NEW n,
           \/ call' = [call EXCEPT ![c].inode = i]
           \/ call' = [call EXCEPT ![c].start = n]
           \/ call' = [call EXCEPT ![c].inode = i, ![c].start = n]
           \/ call' = [call EXCEPT ![c].size = n]
           \/ call' = [call EXCEPT ![c].got = n]
    PROVE  \A d \in Caller : call'[d].op = call[d].op /\ call'[d].full = call[d].full
<1>1. CASE call' = [call EXCEPT ![c].inode = i]
  BY <1>1 DEF CallRecord
<1>2. CASE call' = [call EXCEPT ![c].start = n]
  BY <1>2 DEF CallRecord
<1>3. CASE call' = [call EXCEPT ![c].inode = i, ![c].start = n]
  <2>1. call'[c] = [call[c] EXCEPT !.inode = i, !.start = n]
    BY <1>3, Zenon
  <2>2. \A d \in Caller \ {c} : call'[d] = call[d]
    BY <1>3, Zenon
  <2>3. call'[c].op = call[c].op /\ call'[c].full = call[c].full
    BY <2>1 DEF CallRecord
  <2> QED
    BY <2>2, <2>3
<1>4. CASE call' = [call EXCEPT ![c].size = n]
  BY <1>4 DEF CallRecord
<1>5. CASE call' = [call EXCEPT ![c].got = n]
  BY <1>5 DEF CallRecord
<1> QED
  BY <1>1, <1>2, <1>3, <1>4, <1>5

LEMMA InitNamed == FsInit => NamedInv
BY DEF FsInit, NamedInv, InUse

LEMMA StepNamed ==
    ASSUME FsInv, NamedInv, NEW c \in Caller, FsStep(c)
    PROVE  NamedInv'
<1>0. /\ pc \in [Caller -> Label] /\ call \in [Caller -> CallRecord]
      /\ call[c].full \in Path /\ (pc[c] # "idle" => UnderWay(pc[c], call[c]))
  BY CallFacts DEF FsInv, CallsTypeOK
<1>1. ASSUME NEW op \in Op, NEW path \in RawPath, NEW data \in PayloadOf(op), Start(c, op, path, data)
      PROVE  NamedInv'
  BY <1>1, StartNamed
<1>2. CASE CallFails(c) \/ DirsExist(c) \/ Sync(c)
  <2>1. named' = named /\ call' = call /\ InUse' = InUse
    BY <1>2 DEF CallFails, DirsExist, Sync, InUse
  <2>2. \A d \in Caller : pc'[d] # "idle" => pc[d] # "idle"
    BY <1>0, <1>2 DEF CallFails, DirsExist, Sync, Return, Goto
  <2> QED
    BY <2>1, <2>2, NothingNew DEF NamedInv
<1>3. CASE CreateNextDir(c)
  <2>1. PICK p \in Path : /\ dirs' = dirs \cup {p}
                          /\ \E n \in 0..Len(call[c].full) : p = SubSeq(call[c].full, 1, n)
    BY <1>3, CreateNextDirEffect
  <2>2. UNCHANGED <<files, pc, call, named>> /\ pc[c] = "parents"
    BY <1>3 DEF CreateNextDir
  <2>3. call[c].op \in Stores
    BY <1>0, <2>2 DEF UnderWay, Stores
  <2>4. call[c].full \in named
    BY <2>2, <2>3 DEF NamedInv
  <2>5. p \in {Root} \cup named
    BY <1>0, <2>1, <2>4, PrefixNamed
  <2>6. InUse' \subseteq {Root} \cup named
    BY <2>1, <2>2, <2>5 DEF InUse, NamedInv
  <2> QED
    BY <2>2, <2>6, NothingNew
<1>4. CASE CreateFile(c) \/ OpenAppend(c)
  <2>1. /\ DOMAIN files' = DOMAIN files \cup {call[c].full} /\ dirs' = dirs /\ named' = named
        /\ pc[c] \in {"create", "open"}
    BY <1>4, Zenon DEF CreateFile, OpenAppend, Link
  <2>2. \A d \in Caller : pc'[d] # "idle" => pc[d] # "idle"
    BY <1>0, <1>4 DEF CreateFile, OpenAppend, Goto
  <2>3. \A d \in Caller : call'[d].op = call[d].op /\ call'[d].full = call[d].full
    <3>1. CASE CreateFile(c)
      <4>1. PICK i : call' = [call EXCEPT ![c].inode = i]
        BY <3>1, Zenon DEF CreateFile
      <4> QED
        BY <1>0, <4>1, FieldsKept
    <3>2. CASE OpenAppend(c)
      <4>1. PICK i, n : call' = [call EXCEPT ![c].inode = i, ![c].start = n]
        BY <3>2, Zenon DEF OpenAppend
      <4> QED
        BY <1>0, <4>1, FieldsKept
    <3> QED
      BY <1>4, <3>1, <3>2
  <2>4. call[c].op \in Stores
    BY <1>0, <2>1 DEF UnderWay, Stores
  <2>5. call[c].full \in named
    BY <2>1, <2>4 DEF NamedInv
  <2>6. InUse' \subseteq {Root} \cup named
    BY <2>1, <2>5 DEF InUse, NamedInv
  <2> QED
    BY <2>1, <2>2, <2>3, <2>6, NothingNew
<1>5. CASE WriteFile(c) \/ AppendFile(c)
  <2>1. InUse' = InUse /\ named' = named /\ pc[c] # "idle"
    BY <1>5, Zenon DEF WriteFile, AppendFile, InUse
  <2>2. \A d \in Caller : pc'[d] # "idle" => pc[d] # "idle"
    BY <1>0, <1>5 DEF WriteFile, AppendFile, AfterWrite, Return, Goto
  <2>3. \A d \in Caller : call'[d].op = call[d].op /\ call'[d].full = call[d].full
    <3>1. CASE WriteFile(c)
      BY <3>1 DEF WriteFile
    <3>2. CASE AppendFile(c)
      <4>1. PICK n : call' = [call EXCEPT ![c].start = n]
        BY <3>2, Zenon DEF AppendFile
      <4> QED
        BY <1>0, <4>1, FieldsKept
    <3> QED
      BY <1>5, <3>1, <3>2
  <2> QED
    BY <2>1, <2>2, <2>3, NothingNew DEF NamedInv
<1>6. CASE DeleteFile(c) \/ DeleteDir(c)
  <2>1. InUse' \subseteq InUse /\ named' = named /\ call' = call
    BY <1>6 DEF DeleteFile, DeleteDir, InUse
  <2>2. \A d \in Caller : pc'[d] # "idle" => pc[d] # "idle"
    BY <1>0, <1>6 DEF DeleteFile, DeleteDir, Return, Goto
  <2> QED
    BY <2>1, <2>2, NothingNew DEF NamedInv
<1>7. CASE OpenRead(c) \/ TakeSize(c) \/ ReadChunk(c)
  <2>1. InUse' = InUse /\ named' = named /\ pc[c] # "idle"
    BY <1>7, Zenon DEF OpenRead, TakeSize, ReadChunk, InUse
  <2>2. \A d \in Caller : pc'[d] # "idle" => pc[d] # "idle"
    BY <1>0, <1>7 DEF OpenRead, TakeSize, ReadChunk, Return, Goto
  <2>3. \A d \in Caller : call'[d].op = call[d].op /\ call'[d].full = call[d].full
    <3>1. CASE OpenRead(c)
      <4>1. PICK i : call' = [call EXCEPT ![c].inode = i]
        BY <3>1, Zenon DEF OpenRead
      <4> QED
        BY <1>0, <4>1, FieldsKept
    <3>2. CASE TakeSize(c)
      <4>1. PICK n : call' = [call EXCEPT ![c].size = n]
        BY <3>2, Zenon DEF TakeSize
      <4> QED
        BY <1>0, <4>1, FieldsKept
    <3>3. CASE ReadChunk(c)
      <4>1. PICK more : call' = [call EXCEPT ![c].got = @ \o more]
        BY <3>3, Zenon DEF ReadChunk
      <4>2. PICK got : got = call[c].got \o more
        OBVIOUS
      <4>3. call' = [call EXCEPT ![c].got = got]
        BY <4>1, <4>2, Zenon
      <4> QED
        BY <1>0, <4>3, FieldsKept
    <3> QED
      BY <1>7, <3>1, <3>2, <3>3
  <2> QED
    BY <2>1, <2>2, <2>3, NothingNew DEF NamedInv
<1>8. CASE ResolveAgain(c)
  <2>1. InUse' = InUse /\ named' = named /\ pc[c] = "resolve"
    BY <1>8, Zenon DEF ResolveAgain, InUse
  <2>2. \A d \in Caller : pc'[d] # "idle" => pc[d] # "idle"
    BY <1>0, <1>8 DEF ResolveAgain, Goto
  <2>3. PICK full : call' = [call EXCEPT ![c].full = full]
    BY <1>8, Zenon DEF ResolveAgain
  <2>4. \A d \in Caller : call'[d].op = call[d].op /\ (d # c => call'[d].full = call[d].full)
    BY <1>0, <2>3 DEF CallRecord
  <2>5. call[c].op \notin Stores
    BY <1>0, <2>1 DEF UnderWay, Stores
  <2> QED
    BY <2>1, <2>2, <2>4, <2>5, NothingNew DEF NamedInv
<1> QED
  BY <1>1, <1>2, <1>3, <1>4, <1>5, <1>6, <1>7, <1>8 DEF FsStep

(***************************************************************************)
(* put_object and create_namespace make every directory that is missing    *)
(* above their path, and other sessions may have removed any of them since *)
(* the path was resolved. Still no directory is ever made that no call     *)
(* named as a path to store something at: what a call starts below was     *)
(* itself asked for, up to the base directory.                             *)
(***************************************************************************)
THEOREM OnlyNamedDirs == FsSpec => []DirsNamed
<1>1. FsInv /\ NamedInv /\ [FsNext]_fsVars => NamedInv'
  <2>1. NamedInv /\ UNCHANGED fsVars => NamedInv'
    BY DEF NamedInv, fsVars, InUse
  <2> QED
    BY <2>1, StepNamed DEF FsNext
<1>2. NamedInv => DirsNamed
  BY DEF NamedInv, DirsNamed, InUse
<1> QED
  BY <1>1, <1>2, InitNamed, FsCorrect, PTL DEF FsSpec

-----------------------------------------------------------------------------
(* The refinement: each file-system call is an operation of the contract,   *)
(* or changes nothing that the tree shows.                                  *)

LEMMA FsSamePaths ==
    ASSUME NEW p
    PROVE  FsContract!Root = Root /\ FsContract!Parent(p) = Parent(p)
BY DEF FsContract!Root, Root, FsContract!Parent, Parent

LEMMA PrefixIn ==
    ASSUME NEW S, NEW s \in S, NEW n \in 0..Len(s)
    PROVE  SubSeq(s, 1, n) \in AllPrefixes(S)
BY DEF AllPrefixes, Prefixes

LEMMA TargetIsLocation ==
    ASSUME NEW p \in Target
    PROVE  p \in Path /\ p \in Places
<1>1. p \in Path
  <2>1. PICK path \in RawPath : p \in BelowBase(Lexically(Base \o path))
    BY DEF Target
  <2>2. Base \o path \in Seq(Component)
    <3>1. Base \in Seq(Component) /\ path \in Seq(Component)
      BY BaseAssumption, FsAssumption, PathIsRaw
    <3> QED
      BY <3>1
  <2>3. PICK q \in Path : Lexically(Base \o path) = {q}
    BY <2>2, LexicallyOne
  <2> QED
    BY <2>1, <2>3, BelowBaseIs
<1>2. Len(p) \in 0..Len(p) /\ SubSeq(p, 1, Len(p)) = p
  BY <1>1, SubSeqFull DEF Path
<1>3. SubSeq(p, 1, Len(p)) \in Places
  BY <1>2, PrefixIn DEF Places
<1> QED
  BY <1>1, <1>2, <1>3

LEMMA FsTreeShows ==
    ASSUME FsTypeOK, NEW p
    PROVE  /\ DOMAIN FsTree = dirs \cup DOMAIN files
           /\ FsContract!HasNamespace(p) <=> p \in dirs
           /\ FsContract!HasObject(p) <=> p \in DOMAIN files
           /\ p \in dirs => FsTree[p] = FsContract!NamespaceNode
           /\ p \in DOMAIN files => FsTree[p] = FsContract!ObjectNode(content[files[p]])
BY DEF FsTypeOK, InUse, FsTree, FsContract!HasNamespace, FsContract!HasObject,
       FsContract!NamespaceNode, FsContract!ObjectNode

(* Giving one object new contents, and leaving the others alone. *)
LEMMA ObjectIsSet ==
    ASSUME FsTypeOK, FsTypeOK', NEW p, p \notin dirs, dirs' = dirs,
           DOMAIN files' = DOMAIN files \cup {p},
           \A q \in DOMAIN files \ {p} : content'[files'[q]] = content[files[q]]
    PROVE  FsContract!Set(p, FsContract!ObjectNode(content'[files'[p]]))
BY DEF FsTypeOK, InUse, FsTree, FsContract!Set, FsContract!ObjectNode

LEMMA TreeUnchanged ==
    ASSUME dirs' = dirs, DOMAIN files' = DOMAIN files,
           \A q \in DOMAIN files : content'[files'[q]] = content[files[q]]
    PROVE  FsTree' = FsTree
BY DEF FsTree, InUse

(* The bytes of a file are those of its inode. *)
LEMMA FileBytes ==
    ASSUME FsInv, NEW q \in DOMAIN files
    PROVE  content[files[q]] = BytesOf(content, files[q])
BY DEF FsInv, FsTypeOK, BytesOf

LEMMA FileBytesNext ==
    ASSUME FsInv', NEW q \in DOMAIN files'
    PROVE  content'[files'[q]] = BytesOf(content', files'[q])
BY DEF FsInv, FsTypeOK, BytesOf

(* Opening for writing: the path becomes an object with these bytes. *)
LEMMA OpeningIsPut ==
    ASSUME FsInv, FsInv', Root \in dirs, NEW p \in Path, p \in Target, Openable(p), Link(p),
           NEW bytes \in Seq(Byte), Store(Inode(p), bytes), UNCHANGED dirs
    PROVE  /\ FsContract!Put(p, bytes)
           /\ bytes = BytesOf(content, Inode(p)) /\ p \in DOMAIN files => FsTree' = FsTree
<1>1. /\ content \in Seq(Seq(Byte)) /\ Inode(p) \in 1..(Len(content) + 1)
  BY LinkKeepsTree
<1>2. \A j : BytesOf(content', j) = IF j = Inode(p) THEN bytes ELSE BytesOf(content, j)
  BY <1>1, StoreEffect
<1>3. /\ DOMAIN files' = DOMAIN files \cup {p} /\ files'[p] = Inode(p)
      /\ \A q \in DOMAIN files \ {p} : files'[q] = files[q]
      /\ p \in DOMAIN files => files[p] = Inode(p)
  BY DEF Link, Inode
<1>4. \A q \in DOMAIN files \ {p} : files[q] # Inode(p)
  BY DEF Inode, FsInv, FsTypeOK, OnePath
<1>5. \A q \in DOMAIN files \ {p} : content'[files'[q]] = content[files[q]]
  <2> SUFFICES ASSUME NEW q \in DOMAIN files \ {p} PROVE content'[files'[q]] = content[files[q]]
    OBVIOUS
  <2>1. content[files[q]] = BytesOf(content, files[q]) /\ content'[files'[q]] = BytesOf(content', files'[q])
    BY <1>3, FileBytes, FileBytesNext
  <2> QED
    BY <1>2, <1>3, <1>4, <2>1
<1>6. content'[files'[p]] = bytes
  <2>1. content'[files'[p]] = BytesOf(content', files'[p])
    BY <1>3, FileBytesNext
  <2> QED
    BY <1>2, <1>3, <2>1
<1>7. p \notin dirs /\ p # Root /\ Parent(p) \in dirs
  BY DEF Openable
<1>8. FsTypeOK /\ FsTypeOK'
  BY DEF FsInv
<1>9. FsContract!Set(p, FsContract!ObjectNode(bytes))
  BY <1>3, <1>5, <1>6, <1>7, <1>8, ObjectIsSet
<1>10. FsContract!Put(p, bytes)
  BY <1>7, <1>8, <1>9, FsTreeShows, FsSamePaths DEF FsContract!Put
<1>11. ASSUME bytes = BytesOf(content, Inode(p)), p \in DOMAIN files PROVE FsTree' = FsTree
  <2>1. \A q \in DOMAIN files : content'[files'[q]] = content[files[q]]
    BY <1>3, <1>5, <1>6, <1>11, FileBytes
  <2>2. DOMAIN files' = DOMAIN files
    BY <1>3, <1>11
  <2> QED
    BY <2>1, <2>2, TreeUnchanged
<1> QED
  BY <1>10, <1>11

(* Adding bytes to an inode: its file, if it still has one, is extended. *)
LEMMA AppendingIsExtend ==
    ASSUME FsInv, FsInv', Root \in dirs, NEW inode \in 1..Len(content), NEW part \in Seq(Byte),
           Store(inode, BytesOf(content, inode) \o part), UNCHANGED <<dirs, files>>
    PROVE  \/ FsTree' = FsTree
           \/ \E p \in Target : FsContract!Extend(p, part)
<1> DEFINE old == BytesOf(content, inode)
           new == old \o part
<1>1. content \in Seq(Seq(Byte)) /\ inode \in 1..(Len(content) + 1) /\ FsTypeOK /\ FsTypeOK'
  BY DEF FsInv, FsTypeOK
<1>2. old \in Seq(Byte) /\ new \in Seq(Byte)
  <2>1. old \in Seq(Byte)
    BY <1>1, BytesType
  <2> HIDE DEF old
  <2> QED
    BY <2>1
<1> HIDE DEF old, new
<1>3. \A j : BytesOf(content', j) = IF j = inode THEN new ELSE BytesOf(content, j)
  BY <1>1, <1>2, StoreEffect DEF old, new
<1>4. \A q \in DOMAIN files : /\ content[files[q]] = BytesOf(content, files[q])
                              /\ content'[files'[q]] = BytesOf(content', files[q])
  BY FileBytes, FileBytesNext
<1>5. CASE \A q \in DOMAIN files : files[q] # inode
  <2>1. \A q \in DOMAIN files : content'[files'[q]] = content[files[q]]
    BY <1>3, <1>4, <1>5
  <2> QED
    BY <2>1, TreeUnchanged
<1>6. ASSUME NEW p \in DOMAIN files, files[p] = inode PROVE \E q \in Target : FsContract!Extend(q, part)
  <2>1. p \in Target /\ p \notin dirs /\ p # Root /\ Parent(p) \in dirs
    BY DEF FsInv, OnePath, FsTypeOK, InUse
  <2>2. \A q \in DOMAIN files \ {p} : files[q] # inode
    BY <1>6 DEF FsInv, OnePath
  <2>3. /\ content[files[p]] = old /\ content'[files'[p]] = new
        /\ \A q \in DOMAIN files \ {p} : content'[files'[q]] = content[files[q]]
    BY <1>3, <1>4, <1>6, <2>2 DEF old
  <2>4. DOMAIN files' = DOMAIN files \cup {p} /\ dirs' = dirs
    OBVIOUS
  <2>5. FsContract!Set(p, FsContract!ObjectNode(new))
    BY <1>1, <2>1, <2>3, <2>4, ObjectIsSet
  <2>6. FsContract!HasObject(p) /\ FsTree[p] = FsContract!ObjectNode(old)
    BY <1>1, <1>6, <2>3, FsTreeShows
  <2>7. FsTree[p].data = old
    BY <2>6 DEF FsContract!ObjectNode
  <2>8. (IF FsContract!HasObject(p) THEN FsTree[p].data \o part ELSE part) = new
    BY <2>6, <2>7 DEF new
  <2>9. FsContract!HasNamespace(Parent(p)) /\ ~FsContract!HasNamespace(p)
    BY <1>1, <2>1, FsTreeShows
  <2>10. FsContract!Extend(p, part)
    BY <2>1, <2>5, <2>8, <2>9, FsSamePaths, Zenon DEF FsContract!Extend
  <2> QED
    BY <2>1, <2>10
<1> QED
  BY <1>5, <1>6

(* Writing to an inode: its file, if it still has one, has the new bytes. *)
LEMMA WritingIsPut ==
    ASSUME FsInv, FsInv', Root \in dirs, NEW inode \in 1..Len(content), NEW new \in Seq(Byte),
           Store(inode, new), UNCHANGED <<dirs, files>>
    PROVE  \/ FsTree' = FsTree
           \/ \E p \in Target : FsContract!Put(p, new)
<1>1. content \in Seq(Seq(Byte)) /\ inode \in 1..(Len(content) + 1) /\ FsTypeOK /\ FsTypeOK'
  BY DEF FsInv, FsTypeOK
<1>2. \A j : BytesOf(content', j) = IF j = inode THEN new ELSE BytesOf(content, j)
  BY <1>1, StoreEffect
<1>3. \A q \in DOMAIN files : /\ content[files[q]] = BytesOf(content, files[q])
                              /\ content'[files'[q]] = BytesOf(content', files[q])
  BY FileBytes, FileBytesNext
<1>4. CASE \A q \in DOMAIN files : files[q] # inode
  <2>1. \A q \in DOMAIN files : content'[files'[q]] = content[files[q]]
    BY <1>2, <1>3, <1>4
  <2> QED
    BY <2>1, TreeUnchanged
<1>5. ASSUME NEW p \in DOMAIN files, files[p] = inode PROVE \E q \in Target : FsContract!Put(q, new)
  <2>1. p \in Target /\ p \notin dirs /\ p # Root /\ Parent(p) \in dirs
    BY DEF FsInv, OnePath, FsTypeOK, InUse
  <2>2. \A q \in DOMAIN files \ {p} : files[q] # inode
    BY <1>5 DEF FsInv, OnePath
  <2>3. /\ content'[files'[p]] = new
        /\ \A q \in DOMAIN files \ {p} : content'[files'[q]] = content[files[q]]
    BY <1>2, <1>3, <1>5, <2>2
  <2>4. DOMAIN files' = DOMAIN files \cup {p} /\ dirs' = dirs
    OBVIOUS
  <2>5. FsContract!Set(p, FsContract!ObjectNode(new))
    BY <1>1, <2>1, <2>3, <2>4, ObjectIsSet
  <2>6. FsContract!HasNamespace(Parent(p)) /\ ~FsContract!HasNamespace(p)
    BY <1>1, <2>1, FsTreeShows
  <2>7. FsContract!Put(p, new)
    BY <2>1, <2>5, <2>6, FsSamePaths, Zenon DEF FsContract!Put
  <2> QED
    BY <2>1, <2>7
<1> QED
  BY <1>4, <1>5

LEMMA FsQuietTree ==
    ASSUME UNCHANGED fs
    PROVE  FsTree' = FsTree
BY DEF fs, FsTree, InUse

(* The operations at a location with a payload are steps of the contract. *)
LEMMA ContractSteps ==
    ASSUME NEW p \in Places
    PROVE  /\ \A data \in Pieces :
                 FsContract!Put(p, data) \/ FsContract!Extend(p, data) => FsContract!Next
           /\ FsContract!RemoveObject(p) \/ FsContract!MakeNamespace(p) \/ FsContract!RemoveNamespace(p)
                => FsContract!Next
BY DEF FsContract!Next

(* A put with data is the one call whose bytes need not be a payload. *)
LEMMA FsStepImplements ==
    ASSUME FsInv, FsInv', NEW c \in Caller, FsStep(c),
           Root \in dirs, Root \in dirs', FsTree' # FsTree
    PROVE  \/ FsContract!Next
           \/ /\ \E put \in PutData : put # << >>
              /\ \E p \in Target : \E bytes \in Seq(Byte) : FsContract!Put(p, bytes)
<1> DEFINE full == call[c].full
           data == call[c].data
<1>0. /\ full \in Path /\ data \in Seq(Byte) /\ FsTypeOK
      /\ pc[c] # "idle" => full \in Target /\ full \in Places
  BY CallFacts, TargetIsLocation DEF FsInv
<1>1. ~UNCHANGED fs
  BY FsQuietTree
<1>2. CASE CreateNextDir(c)
  <2>1. PICK p \in Path : /\ dirs' = dirs \cup {p} /\ p \notin InUse /\ (p # Root => Parent(p) \in dirs)
                          /\ \E n \in 0..Len(full) : p = SubSeq(full, 1, n)
    BY <1>2, CreateNextDirEffect
  <2>2. files' = files /\ content' = content /\ pc[c] # "idle"
    BY <1>2 DEF CreateNextDir
  <2>3. p \in Places
    BY <1>0, <2>1, <2>2, PrefixIn DEF Places
  <2>4. p # Root /\ p \notin dirs /\ p \notin DOMAIN files /\ Parent(p) \in dirs
    BY <2>1 DEF InUse
  <2>5. FsContract!Set(p, FsContract!NamespaceNode)
    BY <2>1, <2>2, <2>4 DEF FsContract!Set, FsContract!NamespaceNode, FsTree, InUse
  <2>6. FsContract!MakeNamespace(p)
    BY <1>0, <2>4, <2>5, FsTreeShows, FsSamePaths DEF FsContract!MakeNamespace, FsContract!Vacant
  <2> QED
    BY <2>3, <2>6, ContractSteps
<1>3. CASE CreateFile(c)
  <2>1. /\ pc[c] = "create" /\ Openable(full) /\ Link(full) /\ Store(Inode(full), << >>)
        /\ UNCHANGED dirs
    BY <1>3, Zenon DEF CreateFile
  <2>2. full \in Target /\ full \in Places /\ << >> \in Seq(Byte) /\ data \in PutData
    BY <1>0, <2>1, CallFacts DEF UnderWay
  <2>3. FsContract!Put(full, << >>)
    BY <1>0, <2>1, <2>2, OpeningIsPut
  <2>4. << >> \in Pieces
    <3>1. data \in PutData \cup AppendData /\ 0 \in 0..Len(data) /\ SubSeq(data, 1, 0) = << >>
      BY <1>0, <2>2
    <3> HIDE DEF data
    <3> QED
      BY <3>1, PrefixIn DEF Pieces
  <2> QED
    BY <2>2, <2>3, <2>4, ContractSteps
<1>4. CASE WriteFile(c)
  <2> DEFINE i == call[c].inode
             old == BytesOf(content, i)
  <2>1. PICK n \in 0..Len(data) : Store(i, Overwrite(old, SubSeq(data, 1, n)))
    BY <1>4 DEF WriteFile, Bytes, BytesOf
  <2>2. pc[c] = "write" /\ UNCHANGED <<dirs, files>>
    BY <1>4 DEF WriteFile
  <2>3. /\ UnderWay("write", call[c]) /\ i \in Nat /\ i <= Len(content)
        /\ Len(content) \in Nat /\ content \in Seq(Seq(Byte)) /\ old \in Seq(Byte)
    BY <2>2, CallFacts, BytesType
  <2>4. data \in PutData /\ i \in 1..Len(content) /\ i \in 1..(Len(content) + 1)
    BY <2>3 DEF UnderWay
  <2> DEFINE part == SubSeq(data, 1, n)
             new == Overwrite(old, part)
  <2>5. part \in Seq(Byte)
    <3>1. n \in Nat /\ n <= Len(data)
      BY <1>0, <2>1
    <3> HIDE DEF data
    <3> QED
      BY <1>0, <3>1, PrefixIsSeq
  <2>6. data = << >> => part = << >>
    BY <2>1
  <2> HIDE DEF old, part
  <2>7. new \in Seq(Byte) /\ (part = << >> => new = old)
    BY <2>3, <2>5, OverwriteFacts
  <2>8. Store(i, new)
    BY <2>1 DEF part
  <2> HIDE DEF new
  <2>9. new # old
    <3> SUFFICES ASSUME new = old PROVE FALSE
      OBVIOUS
    <3>1. \A j : BytesOf(content', j) = BytesOf(content, j)
      BY <2>3, <2>4, <2>7, <2>8, StoreEffect DEF old
    <3>2. \A q \in DOMAIN files : content'[files'[q]] = content[files[q]]
      BY <2>2, <3>1, FileBytes, FileBytesNext
    <3> QED
      BY <2>2, <3>2, TreeUnchanged
  <2>10. PICK p \in Target : FsContract!Put(p, new)
    BY <2>2, <2>4, <2>7, <2>8, WritingIsPut
  <2> QED
    BY <2>4, <2>6, <2>7, <2>9, <2>10
<1>5. CASE OpenAppend(c)
  <2>1. /\ pc[c] = "open" /\ Openable(full) /\ Link(full) /\ UNCHANGED dirs
        /\ Store(Inode(full), BytesOf(content, Inode(full)))
    BY <1>5, Zenon DEF OpenAppend, Bytes, BytesOf
  <2>2. /\ full \in Target /\ full \in Places /\ data \in AppendData
        /\ BytesOf(content, Inode(full)) \in Seq(Byte)
    BY <1>0, <2>1, CallFacts, BytesType DEF UnderWay
  <2>3. full \notin DOMAIN files /\ FsContract!Put(full, BytesOf(content, Inode(full)))
    BY <1>0, <2>1, <2>2, OpeningIsPut
  <2>4. BytesOf(content, Inode(full)) = << >>
    BY <1>0, <2>3 DEF BytesOf, Inode, FsTypeOK
  <2>5. << >> \in Pieces
    <3>1. data \in PutData \cup AppendData /\ 0 \in 0..Len(data) /\ SubSeq(data, 1, 0) = << >>
      BY <1>0, <2>2
    <3> HIDE DEF data
    <3> QED
      BY <3>1, PrefixIn DEF Pieces
  <2> QED
    BY <2>2, <2>3, <2>4, <2>5, ContractSteps
<1>6. CASE AppendFile(c)
  <2> DEFINE i == call[c].inode
             old == BytesOf(content, i)
  <2>1. PICK n \in 0..Len(data) :
           Store(i, SubSeq(old, 1, Len(old))
                    \o Overwrite(SubSeq(old, Len(old) + 1, Len(old)), SubSeq(data, 1, n)))
    BY <1>6, Zenon DEF AppendFile, WritePosition, Bytes, BytesOf
  <2>2. pc[c] = "append" /\ UNCHANGED <<dirs, files>>
    BY <1>6, Zenon DEF AppendFile
  <2>3. /\ UnderWay("append", call[c]) /\ i \in Nat /\ i <= Len(content)
        /\ Len(content) \in Nat /\ content \in Seq(Seq(Byte)) /\ old \in Seq(Byte)
    BY <2>2, CallFacts, BytesType
  <2>4. i \in 1..Len(content) /\ data \in AppendData
    BY <2>3 DEF UnderWay
  <2> DEFINE part == SubSeq(data, 1, n)
  <2>5. part \in Seq(Byte) /\ part \in Pieces
    <3>1. data \in PutData \cup AppendData
      BY <2>4
    <3>2. n \in Nat /\ n <= Len(data)
      BY <1>0, <2>1
    <3> HIDE DEF data
    <3>3. SubSeq(data, 1, n) \in Seq(Byte)
      BY <1>0, <3>2, PrefixIsSeq
    <3>4. SubSeq(data, 1, n) \in Pieces
      BY <2>1, <3>1, PrefixIn DEF Pieces
    <3> QED
      BY <3>3, <3>4
  <2> HIDE DEF part, i, old
  <2>6. Store(i, old \o part)
    <3>1. SubSeq(old, 1, Len(old)) \o Overwrite(SubSeq(old, Len(old) + 1, Len(old)), part) = old \o part
      BY <2>3, <2>5, OverwriteAtEnd
    <3> QED
      BY <2>1, <3>1 DEF part
  <2>7. PICK p \in Target : FsContract!Extend(p, part)
    BY <2>2, <2>4, <2>5, <2>6, AppendingIsExtend DEF old
  <2> QED
    BY <2>5, <2>7, TargetIsLocation, ContractSteps
<1>7. CASE DeleteFile(c)
  <2>1. /\ full \in DOMAIN files /\ files' = [q \in DOMAIN files \ {full} |-> files[q]]
        /\ dirs' = dirs /\ content' = content /\ pc[c] = "unlink"
    BY <1>7 DEF DeleteFile
  <2>2. full \notin dirs
    BY <1>0, <2>1 DEF FsTypeOK
  <2>3. FsContract!RemoveObject(full)
    <3>1. FsContract!Clear(full)
      BY <2>1, <2>2 DEF FsContract!Clear, FsTree, InUse
    <3> QED
      BY <1>0, <2>1, <3>1, FsTreeShows DEF FsContract!RemoveObject
  <2> QED
    BY <1>0, <2>1, <2>3, ContractSteps
<1>8. CASE DeleteDir(c)
  <2>1. /\ full \in dirs /\ dirs' = dirs \ {full} /\ files' = files /\ content' = content
        /\ pc[c] = "rmdir" /\ \A q \in InUse \ {Root} : Parent(q) # full
    BY <1>8 DEF DeleteDir
  <2>2. full # Root /\ full \notin DOMAIN files
    BY <1>0, <2>1 DEF FsTypeOK
  <2>3. FsContract!Clear(full)
    BY <2>1, <2>2 DEF FsContract!Clear, FsTree, InUse
  <2>4. FsContract!RemoveNamespace(full)
    BY <1>0, <2>1, <2>2, <2>3, FsTreeShows, FsSamePaths DEF FsContract!RemoveNamespace, InUse
  <2> QED
    BY <1>0, <2>1, <2>4, ContractSteps
<1>9. /\ ~CallFails(c) /\ ~DirsExist(c) /\ ~Sync(c)
      /\ ~OpenRead(c) /\ ~TakeSize(c) /\ ~ReadChunk(c) /\ ~ResolveAgain(c)
  BY <1>1, Zenon DEF CallFails, DirsExist, Sync, OpenRead, TakeSize, ReadChunk, ResolveAgain, fs
<1>10. ~\E op \in Op : \E path \in RawPath : \E d \in PayloadOf(op) : Start(c, op, path, d)
  BY <1>1, Zenon DEF Start
<1> QED
  BY <1>2, <1>3, <1>4, <1>5, <1>6, <1>7, <1>8, <1>9, <1>10 DEF FsStep

(***************************************************************************)
(* The contract for any path and any bytes, and the promise of             *)
(* FsImplementsContract in its terms.                                      *)
(***************************************************************************)
AnyContract == INSTANCE StorageBackend
    WITH tree <- FsTree, Location <- Path, Payload <- Seq(Byte)

FsImplementsAnyContract ==
    AnyContract!Init /\ [][(Root \in dirs /\ Root \in dirs') => AnyContract!Next]_FsTree

LEMMA SameOperations ==
    ASSUME NEW p, NEW data
    PROVE  /\ FsContract!Put(p, data) => AnyContract!Put(p, data)
           /\ FsContract!Extend(p, data) => AnyContract!Extend(p, data)
           /\ FsContract!RemoveObject(p) => AnyContract!RemoveObject(p)
           /\ FsContract!MakeNamespace(p) => AnyContract!MakeNamespace(p)
           /\ FsContract!RemoveNamespace(p) => AnyContract!RemoveNamespace(p)
BY Zenon
   DEF FsContract!Put, AnyContract!Put, FsContract!Extend, AnyContract!Extend,
       FsContract!RemoveObject, AnyContract!RemoveObject,
       FsContract!MakeNamespace, AnyContract!MakeNamespace,
       FsContract!RemoveNamespace, AnyContract!RemoveNamespace,
       FsContract!Root, AnyContract!Root, FsContract!Parent, AnyContract!Parent,
       FsContract!HasNamespace, AnyContract!HasNamespace,
       FsContract!HasObject, AnyContract!HasObject, FsContract!Vacant, AnyContract!Vacant,
       FsContract!Set, AnyContract!Set, FsContract!Clear, AnyContract!Clear,
       FsContract!ObjectNode, AnyContract!ObjectNode,
       FsContract!NamespaceNode, AnyContract!NamespaceNode

LEMMA LocationIsPath ==
    ASSUME NEW p \in Places
    PROVE  p \in Path
<1>1. PICK s \in Target : \E n \in 0..Len(s) : p = SubSeq(s, 1, n)
  BY DEF Places, AllPrefixes, Prefixes
<1>2. PICK n \in 0..Len(s) : p = SubSeq(s, 1, n)
  BY <1>1
<1>3. s \in Seq(Name)
  BY TargetIsLocation DEF Path
<1>4. n \in Nat /\ n <= Len(s)
  BY <1>3
<1> QED
  BY <1>2, <1>3, <1>4, PrefixIsSeq DEF Path

LEMMA PayloadIsBytes ==
    ASSUME NEW data \in Pieces
    PROVE  data \in Seq(Byte)
<1>1. PICK s \in PutData \cup AppendData : \E n \in 0..Len(s) : data = SubSeq(s, 1, n)
  BY DEF Pieces, AllPrefixes, Prefixes
<1>2. PICK n \in 0..Len(s) : data = SubSeq(s, 1, n)
  BY <1>1
<1>3. s \in Seq(Byte)
  BY FsAssumption
<1>4. n \in Nat /\ n <= Len(s)
  BY <1>3
<1> QED
  BY <1>2, <1>3, <1>4, PrefixIsSeq

(***************************************************************************)
(* The file-system backend implements the trait's contract, for any        *)
(* sessions, paths and data: as long as the base directory is there, every *)
(* call that tokio::fs makes for put_object, append_object, the deletions  *)
(* and create_namespace is one operation of the contract or changes        *)
(* nothing that the contract shows.                                        *)
(***************************************************************************)
THEOREM FsRefinesAnyContract == FsSpec => FsImplementsAnyContract
<1>1. FsInit => AnyContract!Init
  BY DEF FsInit, AnyContract!Init, AnyContract!NamespaceNode, AnyContract!Root, Root, FsTree, InUse
<1>2. FsInv /\ FsInv' /\ [FsNext]_fsVars =>
         [(Root \in dirs /\ Root \in dirs') => AnyContract!Next]_FsTree
  <2> SUFFICES ASSUME FsInv, FsInv', [FsNext]_fsVars, Root \in dirs, Root \in dirs',
                      FsTree' # FsTree
               PROVE  AnyContract!Next
    OBVIOUS
  <2>1. FsNext
    BY FsQuietTree DEF fsVars, fs
  <2>2. PICK c \in Caller : FsStep(c)
    BY <2>1 DEF FsNext
  <2>3. CASE FsContract!Next
    <3>1. PICK p \in Places :
             \/ \E data \in Pieces :
                   FsContract!Put(p, data) \/ FsContract!Extend(p, data)
             \/ FsContract!RemoveObject(p)
             \/ FsContract!MakeNamespace(p)
             \/ FsContract!RemoveNamespace(p)
      BY <2>3 DEF FsContract!Next
    <3>2. p \in Path
      BY LocationIsPath
    <3> QED
      BY <3>1, <3>2, PayloadIsBytes, SameOperations, Zenon DEF AnyContract!Next
  <2>4. ASSUME NEW p \in Target, NEW bytes \in Seq(Byte), FsContract!Put(p, bytes)
        PROVE  AnyContract!Next
    BY <2>4, TargetIsLocation, SameOperations, Zenon DEF AnyContract!Next
  <2> QED
    BY <2>2, <2>3, <2>4, FsStepImplements
<1> QED
  BY <1>1, <1>2, FsCorrect, PTL DEF FsSpec, FsImplementsAnyContract

(***************************************************************************)
(* With the puts that a client of this repository causes, which are empty  *)
(* (create, and the start of a write or an upload, whose data follows in   *)
(* appends), each of these operations is at a path that was asked for or   *)
(* an ancestor of it, and stores a prefix of the data of one request: no   *)
(* call mixes the bytes of two sessions. Two puts of data to one file at a *)
(* time can, because both write_all calls begin at the file's first byte.  *)
(***************************************************************************)
THEOREM FsRefinesContract ==
    PutData \subseteq {<< >>} => (FsSpec => FsImplementsContract)
<1> SUFFICES ASSUME PutData \subseteq {<< >>} PROVE FsSpec => FsImplementsContract
  OBVIOUS
<1>1. FsInit => FsContract!Init
  BY FsSamePaths DEF FsInit, FsContract!Init, FsContract!NamespaceNode, FsTree, InUse
<1>2. FsInv /\ FsInv' /\ [FsNext]_fsVars =>
         [(Root \in dirs /\ Root \in dirs') => FsContract!Next]_FsTree
  <2>1. UNCHANGED fsVars => FsTree' = FsTree
    BY FsQuietTree DEF fsVars, fs
  <2> QED
    BY <2>1, FsStepImplements DEF FsNext
<1> QED
  BY <1>1, <1>2, FsCorrect, PTL DEF FsSpec, FsImplementsContract
=============================================================================
