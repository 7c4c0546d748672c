------------------------------- MODULE Paths -------------------------------
(***************************************************************************)
(* Paths as the server sees them.  A raw path is the component sequence    *)
(* std::path::Path::components yields for an absolute path, after its      *)
(* leading RootDir: names, "..", and ".".  A normalized path is a sequence *)
(* of names; the root "/" is the empty sequence.                           *)
(***************************************************************************)
EXTENDS Integers, Sequences, SequencesExt

CONSTANT Name         \* the names a path component can have

ParentDir == ".."
CurDir == "."
Component == Name \cup {ParentDir, CurDir}

ASSUME NameAssumption == {ParentDir, CurDir} \cap Name = {}

Path == Seq(Name)
Root == << >>

(* Path::parent of a path other than "/". *)
Parent(p) == SubSeq(p, 1, Len(p) - 1)

(* Path::starts_with compares whole components. *)
StartsWith(q, p) == IsPrefix(p, q)

(***************************************************************************)
(* One turn of the loop in MemoryStorage::normalize_path.  A Result is     *)
(* modelled as the set of its Ok values: {p} is Ok(p), {} is the error     *)
(* "Path outside storage root".                                            *)
(***************************************************************************)
NormalizeComponentClamped(normalized, component) ==   \* mutant: ".." at "/" stays there
    CASE component = CurDir    -> normalized
      [] component = ParentDir -> {IF p = Root THEN p ELSE Parent(p) : p \in normalized}
      [] OTHER                 -> {Append(p, component) : p \in normalized}

NormalizeComponent(normalized, component) ==
    CASE component = CurDir    -> normalized
      [] component = ParentDir -> {Parent(p) : p \in normalized \ {Root}}
      [] OTHER                 -> {Append(p, component) : p \in normalized}

(* Ok holds the one path the loop has arrived at. *)
NormalizePath(path) ==
    LET normalized == FoldLeft(NormalizeComponent, {Root}, path)
    IN  {p \in normalized \cap Path : normalized = {p}}

(* Path::parent of the un-normalized current directory: it drops the last  *)
(* component, whatever it is.                                               *)
LexicalParent(dir) == IF dir = Root THEN Root ELSE Parent(dir)

(***************************************************************************)
(* RequestHandler::resolve_path.  An argument is absolute or relative; the *)
(* empty path and "." both mean the current directory, and joining them    *)
(* to it gives the same components.  The result is not normalized.         *)
(***************************************************************************)
ResolvePathLexicalUp(arg, currentDir) ==   \* mutant: a leading ".." drops a component
    IF arg.abs THEN arg.comps
    ELSE IF arg.comps = <<ParentDir>> THEN LexicalParent(currentDir)
    ELSE currentDir \o arg.comps

ResolvePath(arg, currentDir) ==
    IF arg.abs THEN arg.comps ELSE currentDir \o arg.comps
=============================================================================
