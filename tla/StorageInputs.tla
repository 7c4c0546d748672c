--------------------------- MODULE StorageInputs ---------------------------
(* What callers of the StorageBackend trait pass in, to either backend. *)
EXTENDS Paths

CONSTANTS
    Byte,             \* the bytes an object can hold
    RawPath           \* the paths callers pass in
=============================================================================
