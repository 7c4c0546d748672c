--------------------------- MODULE PathReference ---------------------------
(* A definition of normalize_path that does not loop, to compare it with.   *)
EXTENDS Paths, FiniteSets

CONSTANT MaxComponents   \* bound: components of an argument in the properties on paths

ASSUME ComponentsAssumption == MaxComponents \in Nat

RelativeArg == {[abs |-> FALSE, comps |-> p] :
                  p \in UNION {[1..n -> Component] : n \in 0..MaxComponents}}

(* How far below the root the first i components of path lead. *)
DepthAfter(path, i) == Cardinality({j \in 1..i : path[j] \in Name})
                       - Cardinality({j \in 1..i : path[j] = ParentDir})

Escapes(path) == \E i \in 1..Len(path) : DepthAfter(path, i) < 0

(* A name survives when no later prefix climbs back above it. *)
Survives(path, i) == /\ path[i] \in Name
                     /\ \A j \in i..Len(path) : DepthAfter(path, j) >= DepthAfter(path, i)

Survivors(path) == {i \in 1..Len(path) : Survives(path, i)}

(* Whether p lists the surviving names of path in order. *)
ListsSurvivors(p, path) ==
    /\ Len(p) = Cardinality(Survivors(path))
    /\ \A i \in Survivors(path) :
          p[Cardinality({j \in Survivors(path) : j <= i})] = path[i]

(* What normalize_path should do: reject exactly the paths some prefix of   *)
(* which climbs above "/", and return the names that no later ".." cancels, *)
(* in order.                                                                 *)
MatchesReference(path) ==
    /\ Escapes(path) <=> NormalizePath(path) = {}
    /\ \A p \in NormalizePath(path) : ListsSurvivors(p, path)

(* Joining an argument to dir means the same as joining it to what dir      *)
(* normalizes to.                                                           *)
JoinsAlike(arg, dir) ==
    \A d \in NormalizePath(dir) :
        NormalizePath(ResolvePath(arg, dir)) = NormalizePath(ResolvePath(arg, d))
=============================================================================
