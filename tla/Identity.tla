------------------------------ MODULE Identity ------------------------------
(***************************************************************************)
(* The server's identity key (common/src/identity.rs), as server/main.rs   *)
(* obtains it: load_or_generate reads the key file if it exists, and       *)
(* otherwise generates a key and writes it with fs::write, which creates   *)
(* an empty file, fills it and does not sync it.  The process can crash at *)
(* any of these steps, and the machine can lose power; then it is started  *)
(* again.  One server process uses the file at a time.                     *)
(***************************************************************************)
EXTENDS Naturals

CONSTANTS
    Key,              \* the keys that can be generated
    Absent,           \* content of the key file: there is none
    Torn              \* content of the key file: no 32 bytes in hex

ASSUME IdentityAssumption == Absent \notin Key /\ Torn \notin Key /\ Absent # Torn

VARIABLES
    key_file,         \* what a process reads from the path
    durable,          \* what the disk may hold after a power loss
    pc,               \* where the process is; "down" when there is none
    own,              \* the process's key, Absent when it has none
    generated,        \* keys generated so far
    announced,        \* identities printed so far, for clients to pin
    refused,          \* a start found a file that is not a key
    lostKey           \* observer: a power loss took an announced key

identityVars == <<key_file, durable, pc, own, generated, announced, refused, lostKey>>

IdentityInit ==
    /\ key_file = Absent /\ durable = {Absent}
    /\ pc = "down" /\ own = Absent
    /\ generated = {} /\ announced = {}
    /\ refused = FALSE /\ lostKey = FALSE

Down == pc' = "down" /\ own' = Absent

(* load_from_file: the file's text, when it is a key. *)
Parses(content) == content \in Key

LoadKey ==
    /\ pc = "down" /\ key_file # Absent
    /\ IF Parses(key_file)
       THEN pc' = "ready" /\ own' = key_file /\ UNCHANGED refused
       ELSE Down /\ refused' = TRUE
    /\ UNCHANGED <<key_file, durable, generated, announced, lostKey>>

GenerateKey ==
    /\ pc = "down" /\ key_file = Absent
    /\ \E k \in Key \ generated :
          /\ generated' = generated \cup {k}
          /\ own' = k
    /\ pc' = "open"
    /\ UNCHANGED <<key_file, durable, announced, refused, lostKey>>

(* save_to_file: fs::write opens the file, then writes the key. *)
OpenKeyFile ==
    /\ pc = "open"
    /\ key_file' = Torn /\ durable' = durable \cup {Torn}
    /\ pc' = "write"
    /\ UNCHANGED <<own, generated, announced, refused, lostKey>>

WriteKeyFile ==
    /\ pc = "write"
    /\ key_file' = own /\ durable' = durable \cup {own}
    /\ pc' = "ready"
    /\ UNCHANGED <<own, generated, announced, refused, lostKey>>

(* Creating the directory, opening or writing fails: load_or_generate returns
   the error and main exits. *)
SaveFailsSilently ==   \* mutant: the result of save_to_file is ignored
    /\ pc \in {"open", "write"}
    /\ pc' = "ready" /\ UNCHANGED own
    /\ UNCHANGED <<key_file, durable, generated, announced, refused, lostKey>>

SaveFails ==
    /\ pc \in {"open", "write"}
    /\ Down
    /\ UNCHANGED <<key_file, durable, generated, announced, refused, lostKey>>

(* main binds the listener and prints the identity. *)
Announce ==
    /\ pc = "ready"
    /\ announced' = announced \cup {own}
    /\ pc' = "up"
    /\ UNCHANGED <<key_file, durable, own, generated, refused, lostKey>>

(* The process ends: stopped, unable to bind, or killed. *)
Crash ==
    /\ pc # "down"
    /\ Down
    /\ UNCHANGED <<key_file, durable, generated, announced, refused, lostKey>>

(* The kernel writes its cache back, at a time of its own. *)
Writeback ==
    /\ durable # {key_file}
    /\ durable' = {key_file}
    /\ UNCHANGED <<key_file, pc, own, generated, announced, refused, lostKey>>

PowerLoss ==
    /\ \E content \in durable :
          /\ key_file' = content /\ durable' = {content}
          /\ lostKey' = (lostKey \/ (announced # {} /\ content # key_file))
    /\ Down
    /\ UNCHANGED <<generated, announced, refused>>

IdentityNext ==
    \/ LoadKey \/ GenerateKey \/ OpenKeyFile \/ WriteKeyFile \/ SaveFails
    \/ Announce \/ Crash \/ Writeback \/ PowerLoss

IdentitySpec == IdentityInit /\ [][IdentityNext]_identityVars

-----------------------------------------------------------------------------
Content == Key \cup {Absent, Torn}

IdentityTypeOK ==
    /\ key_file \in Content /\ durable \subseteq Content
    /\ pc \in {"down", "open", "write", "ready", "up"}
    /\ own \in Key \cup {Absent} /\ (own = Absent <=> pc = "down")
    /\ generated \subseteq Key /\ announced \subseteq Key
    /\ refused \in BOOLEAN /\ lostKey \in BOOLEAN

(***************************************************************************)
(* Whatever identity a server has printed for clients to pin stays in the  *)
(* key file, through crashes and failed starts at any point, so that the   *)
(* next start comes up with it; only a power loss that takes the unsynced  *)
(* file can change it.                                                     *)
(***************************************************************************)
IdentityKept == \A k \in announced : key_file = k \/ lostKey

(* Why: a key is written only before any was announced, and a process past *)
(* load_or_generate has the key that is in the file.                       *)
IdentityInv ==
    /\ IdentityTypeOK
    /\ IdentityKept
    /\ pc \in {"open", "write"} => announced = {} \/ lostKey
    /\ pc \in {"ready", "up"} => own = key_file

(***************************************************************************)
(* README.md: the key "is loaded from the given path, or generated there   *)
(* on first start": no start ends because of a file an earlier start left. *)
(***************************************************************************)
StartLoadsOrGenerates == ~refused
=============================================================================
