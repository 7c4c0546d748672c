# Fenris in TLA+

A verification project for [fenris-rs](../src/README.md), a networked object
store: a Tokio server, a client with a terminal and a batch frontend, and a
`common` crate with the secure channel, the wire format and the storage
backends. Source paths below are relative to `src/`.

## The system

| component | state it keeps | operations | interacts with |
|---|---|---|---|
| Paths (`common/src/storage.rs`, `server/src/request_handler.rs`) | none | `normalize_path`, `resolve_path` | storage, request handler |
| `MemoryStorage` (`common/src/storage.rs`) | objects map, namespace set, one mutex | put, get, chunked get, append, delete, metadata, mkdir, ls, rmdir | called by every session |
| `TokioFsStorage` (`common/src/storage.rs`, `file_ops.rs`) | files below a base directory | the same trait | called by every session; the default of the server binary |
| `RequestHandler` (`server/src/request_handler.rs`) | none; the session's `current_dir` is passed in | one handler per command | storage |
| `Connection` (`server/src/connection.rs`) | channel, `current_dir`, `active_write` | receive, dispatch, chunked write, chunked read, terminate, timeouts | request handler, peer |
| `Server` (`server/src/server.rs`, `main.rs`) | semaphore, id counter, task set, cancellation token | accept, spawn, reject, join, shutdown | connections |
| `ConnectionManager`, `RequestManager` (`client/src`) | channel, offset of a transfer, preview of a read | plan a command, run it, disconnect | server connection, local files |
| Secure channel, framing (`common/src/secure_channel.rs`, `framing.rs`) | stream, key | handshake, send, receive | both ends of a session |
| Server identity (`common/src/identity.rs`) | key file | load or generate | server start, client pinning |
| Codec (`common/src/domain.rs`, `protocol.rs`) | none | commands and outputs to Protobuf messages and back | both ends of a session |
| Compression, crypto (`common/src`) | none | compress, seal and back | secure channel |
| `ResponseManager` (`client/src/response_manager.rs`) | none | format an output | frontends |
| Terminal frontend (`client/src/client.rs`, `app.rs`, `ui`) | screen, connected flag, directory shown, command line, history, messages | key events, connect, commands, quit | connection manager |
| Batch frontend (`client/src/batch.rs`, `main.rs`) | commands left, counts, abort flag | run a file of commands, report, exit code | connection manager |

Where it is hard: sessions run concurrently on one storage; a chunked write is
many requests and a chunked read many responses, so other sessions run in
between; a session can be cut at any await; uploads read a file that changes
after it was measured; the current directory is checked once and used for
ever; the file-system backend interleaves its calls; the identity must outlive
crashes and keep the pins of clients good; connection permits must come back on
every exit; shutdown races accepts, handshakes and commands; Protobuf does not
send default values; the terminal client keeps what it shows in one place and the
connection in another, and counts its cursor in two units; a batch can lose its
session, or its output, after a command has run. `PROJECT.json` lists these hazards at their lines.

## Modules

    Paths ─ StorageInputs ─┬─ MemoryStorage ─┬─ RequestHandler ── MCRequestHandler
      │                    │      │          └─ Connection ── ConnectionManager ── Session ── MCSession
      │                    │      └ refines ── StorageBackend   │
      │                    └─ TokioFsStorage (refines StorageBackend too) ── MCTokioFsStorage
      └─ PathReference ── RequestHandler                        │
    Codec ────────┬─────────────────────────────────────────────┘
                  └─ ClientLink ─┬─ TuiClient ─┬─ FenrisClient ── MCFenrisClient
                     CommandLine ┼─────┘       │
                                 └─ Batch ─────┘
    Identity ──────┬─ PinnedServer ── MCPinnedServer    (MCIdentity: Identity alone)
    SecureChannel ─┘
    Server ── MCServer
    proofs: MemoryStorageProofs, RequestHandlerProofs and TokioFsStorageProofs (on it),
            ServerProofs, PinnedServerProofs, CodecProofs,
            SessionProofs (on CodecProofs and MemoryStorageProofs),
            FenrisClientProofs (on CodecProofs)

Every module keeps the control of its code and abstracts the data: a name is a
model value, a payload a short sequence of bytes, and wording, permissions and
times are left out. An operator marked `mutant` is a plausible bug in the
definition that follows it. No specification uses it; it serves to show that
the properties can tell the code from the bug.

**Paths.** A path is a sequence of components and `/` is the empty sequence.
`NormalizePath` folds the loop of `MemoryStorage::normalize_path`; a Rust
`Result` is the set of its `Ok` values, so `{}` is an error. `ResolvePath` is
`RequestHandler::resolve_path`, which does not normalize. `PathReference` says
without a loop what `normalize_path` should return. `StorageInputs` declares the
bytes and the paths that callers of either backend pass.

**StorageBackend.** What the trait promises: one tree of nodes, each operation
atomic.

**MemoryStorage.** The two maps behind the mutex. Each operation locks once
and awaits nothing while it holds the lock, so it is one action. `MayXxx` is
the condition under which an operation returns `Ok`.

**TokioFsStorage.** The backend the server binary uses. A call resolves its
path and then makes one file-system call per step: `pc` says which one is
next, `call` is the call in progress and what it has learnt. `files` maps
paths to inodes, because a handle opened before a delete goes on writing to
the old file. `create_dir_all` makes one directory per step. `CallFails`
returns an error at any step, which is also what happens when a step's guard
is false; a failing `write_all` has written a part. Reads are modelled as the
connection's loop makes them: chunk by chunk, each chunk resolved, opened,
measured and read anew, and one read may return less than asked for. `intact`
observes whether an append or a read was disturbed by anything but appends;
`named` the paths that calls were to store something at.

Resolution starts at the root of the machine's file system: `Base` is the base
directory there and `Outside` the directories that are not below it. `Walk` is one
step of `canonicalize`, `NewName` the second attempt with `parent()` and
`file_name()`, and `BelowBase` the `starts_with` check, which the code makes of the
result alone. So `/../<name of the base>/a` resolves to `a`, and when the base
directory is gone `/` still resolves, to a new name in its parent. What `resolve_path`
returns is given relative to the base. There are no symbolic links: no operation makes
one, and `base_dir` is canonicalized.

**RequestHandler.** The commands with one response, for a set of clients with
a `current_dir` each. A command is one action because it makes one storage
call that matters: the handlers with `exists` checks are written as the guard
of the call they precede. `cd` reads the storage and then writes only the
session's own directory.

**Codec.** The conversions of `domain.rs` in both directions. An encoded message
is the function of its fields that differ from their defaults, which is what
proto3 sends; decoding fills the defaults in again, maps enum numbers to names
and refuses what `try_from` refuses. A chunk size is clamped to `U32Max`.

**Connection.** The server end of a session after its handshake: `req` and
`resp` are the two directions of the TCP stream (FIFO, lossless until closed)
and carry encoded messages,
`srv` is where the task is, `active_write` the open transfer, `stream` the
loop of `send_object_content_chunks`, which reads the storage once per chunk.
`CloseConnection` covers a closed peer, the idle timeout, a failed send and
shutdown, and loses what was in flight. The session's directory stays `/`
here; `RequestHandler` is about directories.

**ConnectionManager.** The client end, a sequential program: `pc` says which
`await` it is at. `OpenLocalFile` reads the file after it was measured, so it
may hold other bytes than planned; a read of it may return fewer bytes than
asked for, and may fail at any time.

**Session.** Both ends together on one storage. The variable `ghost` observes,
per session, the object the current command works on, what it held when the
command took hold of it, the bytes transferred since, and whether somebody
else changed it; `localFailure` records that an upload failed on the client.
Neither is read by the system's actions.

**Server.** The accept loop, semaphore, tasks and shutdown. Commands are
abstract here: one keeps its task in `sending`, where neither timeout nor
shutdown reaches it.

**SecureChannel.** The two ends of one connection, with the plain and the
authenticated handshake in all combinations, although the two binaries only
use the authenticated one. Keys, signatures and sealed packets are symbolic: a shared
secret is the pair of the end's own ephemeral key and the one it received, a derived
key the secret and its context, a signature the signer and the transcript.
`wire` holds whole frames: a frame cut short is one that never arrives, and that an
oversized frame is refused before its first byte is written is taken from
`framing.rs`. Nobody tampers with the frames, but the server's end may be another
program: it shows the identity `claim` while it holds the key of `identity`, or none,
in which case it can only repeat a signature it has seen on an earlier connection.
`HandshakeTimesOut` and `IdleTimesOut` are the two timers of the server's connection;
the second is there only when the configuration has it (`idle_timeout`).

**PinnedServer.** A server process with its key file, through crashes, failed
starts and power losses, and clients that connect to it one after the other.
It composes `Identity` and `SecureChannel`: the server's identity on a connection
is the key the process came up with, and its end closes when the process dies. When
the machine loses power nothing is closed and nothing is sent: `vanished` says that the
client's peer is gone in this way, and then nothing makes the client notice.
`AnotherServer` answers in the server's place with a key of its own, or none, and a
claim it does not hold.

**ClientLink.** What both frontends use: the channel of the connection manager,
the command under way (`exchange`), `FormatResponse`, and the far end of the
session, which decodes a command, answers with one of the outputs it can give to
it and keeps the session's directory. A transfer is one step here; its steps are
in `ConnectionManager`. `LoseSession` is a server that stops or drops the session,
for instance by the idle timeout. `built` and `heard` observe the command as it
was built and as the server decoded it.

**CommandLine, TuiClient.** `app.rs`, `client.rs` and `ui/mod.rs`: one action per
key and screen. The cursor is a byte offset, a character of `Wide` takes two bytes,
and `Panic` is what `String::insert` and `String::remove` do inside a character.
`KeyReady` says that no key is handled while a command is awaited. A connect is one
step. `stale` observes that the session was opened under another prompt.

**Batch, FenrisClient.** `batch.rs`, and `main.rs` with the two modes. A result
that cannot be written ends the program after the command was run (`WriteFails`).
`served` observes what became of each command at the far end.

**Identity.** `load_or_generate` as the server's `main` calls it, with
`fs::write` in its two steps. `durable` is the set of contents the disk may
show after a power loss; `Writeback` narrows it to what is in the file.

## Runs

| run | bounds | what it shows |
|---|---|---|
| `memory_storage` | 2 names, 14 spellings of paths up to depth 3, objects up to 2 bytes | the maps stay a tree, `rmdir` and `ls` agree on what is empty, every call is a step of the contract |
| `request_handler` | 2 clients, 5 relative and absolute arguments, raw directories of up to 2 components; for the path properties all arguments of up to 2 components | nothing can be stored under a directory that was removed while a session is in it, `normalize_path` equals a loop-free reference, an argument means the same in a raw directory and in what it normalizes to |
| `fs` | 2 callers, 4 calls in all, 4 paths, one of them out of the base directory and back, appends of 1 and 2 bytes, chunks of 2, puts of nothing | path resolution against `MemoryStorage`, which directories can come up, acknowledged appends, chunked reads beside appends, every file-system call a contract step |
| `fs_root` | 1 caller | violated: see findings |
| `cd_up` | 1 client | violated: see findings |
| `session` | 2 sessions, 3 commands in all, chunks of 2 bytes, payloads of 1 and 3 bytes, preview of 3 | what a transfer leaves in the object, what Success means, what a read shows, pairing of requests and responses, agreement on the offset, when a transfer is left open |
| `session_live` | 2 sessions, 2 commands of all kinds in all, payloads of 0 and 3 bytes, fairness | every command ends; requests are decoded to what was meant |
| `write_race` | 2 sessions, one `write` each | violated: see findings |
| `identity_torn` | 3 keys | violated: see findings |
| `pinned_server` | 2 keys, 2 different messages per end and connection, a third too large for a frame, fairness | the announced identity stays in the file and keeps the pins good; agreement on keys, what a pin guarantees against a server that claims it, order of messages, end of the client's handshake |
| `client` | lines of 2 characters, one of them wide, 3 commands entered, 2 directories, command files of 2 lines over 10 commands and blanks, at most 3 messages, fairness | cursor and history, screen and channel, prompt, codec, exit code and summary, Ctrl+C, end of a batch |
| `server` | 4 peers, 2 permits, fairness | permits, rejection, quiet return, handshakes end, shutdown completes |

Why the bounds are enough: with two-byte chunks, payloads of zero (in `session_live`), one and
three bytes make the empty transfer, the single chunk and the two-chunk
transfer with a short last chunk, and an append to a three-byte object crosses
the preview limit inside a chunk. Two sessions are enough for every pairwise
interleaving, and one object is enough because sessions interact only through
objects at the same path (namespaces and different paths are the business of
`request_handler`). Four peers over two permits make a peer that is refused
and a permit that is used a second time. `MaxObjectLen`, `MaxDirLen` and
`MaxCommands` cap what grows; each appears in one guard only. Clients,
callers and keys are symmetric in the safety runs; runs with a liveness property
use no symmetry.

In `fs` puts are empty because that is all a client can cause: `create` puts an
empty object and `begin_object_write` empties one before its chunks are
appended. A put with data, which only a client that still sends the unchunked
`WriteObject` causes, may leave a mixture of two requests beside other writers
(see `FsRefinesContract` below). Four calls
are enough for an object to be made, removed or replaced under an append or a
read that is in progress, and for a directory to be removed, and its name reused
as a file, between a call's resolution and its last step. In `pinned_server` two keys
allow a start that fails before it announced and one that comes up with another key,
wrong pins, and a server that claims one key and holds the other or none. The channel
treats all messages alike, so a `Script` of two that differ is enough for them to be
taken in the wrong order or by the wrong end of a broken handshake; the proof is for
every script.

In `client` two characters suffice for every mix of units: before, inside and after
a wide character. Each of the six texts that can be typed stands for one kind of
line (exit, clear, help, a transfer, a `cd`, an unknown command), and three of them
make a session that changes its directory, ends, and is followed by one that has or
has not changed it. A command file of two lines has a command before and after every
failure, abort and lost answer.

Deadlock is not checked except in `memory_storage`, `request_handler` and
`cd_up`: elsewhere clients may go away, calls and keys may be used up, or the
server may have stopped.

**Fairness.** `Session!FairSpec`: a connection task and a client that have
something to do go on doing it (weak fairness), because Tokio polls every
ready task. Users, timeouts and failures are not assumed to act.
`Server!FairSpec`: weak fairness of the accept loop, of joining and of the
handshake timeout; strong fairness of the shutdown branch of a connection's
`select!`, which picks at random among ready branches, so that a token that
stays cancelled is picked sooner or later. Nothing is assumed of a peer, not
even that it reads: `ShutdownCompletes` names that exception, and it is needed,
since the code has no timeout on sending.

`PinnedServer!FairPinnedSpec`: weak fairness of both handshakes, of reading,
and of the server's timeouts, which are Tokio timers. A closed stream is noticed, one
whose other end vanished with its machine is not: the client sets neither a timeout
nor a keepalive. The idle timeout is an `Option`, and the model has connections with
and without it. `ConnectEnds` names the two cases in which a client waits for ever: a
power loss of the server's machine, and a server with neither an identity nor an idle
timeout. The server binary is never in the second: it has an identity, and
`ServerConfigBuilder::idle_timeout` makes `Some(0s)` of a `None`
(`server/src/config.rs:54`), so that `--idle-timeout 0` ends a connection at once
rather than never; only a `ServerConfig` put together by hand has no timeout. Nothing
makes a server start or stay up.

`FenrisClient!FairClientSpec`: weak fairness of the program's own steps and of the
far end, which answers a command or is lost. That assumption is needed: the client
has no timeout, so a server that keeps the connection and never answers blocks the
terminal client, Ctrl+C included. For the server of this repository it is what
`CommandEnds` says. Neither keys nor the loss of a session are assumed.

## Findings

* `cd_up`: after `cd a/..` the session's directory is `/a/..`, and `cd ..`,
  which drops the last component as text, then goes to `/a` rather than to the
  parent of `/`. The unit test of `cd ..` only starts from a normalized
  directory.
* `write_race`: the README has `write` replace an object, but two overlapping
  writes of more than one chunk can both report success and leave a mixture.
* `fs_root`: on the file-system backend `rmdir /` of an empty store removes the
  base directory itself. Then every path below `/` fails to resolve; `/` itself still
  resolves, to a new name in the parent directory, and a `mkdir /` makes the store
  again. `MemoryStorage` refuses the `rmdir`.
* `identity_torn`: a first start that ends between creating and filling the key
  file leaves a file that every later start refuses.

More that the models show without a run of their own. The two backends do not accept
the same paths: `resolve_path` checks only where a path ends, so one that leaves the
base directory and comes back by its name (`/../<name of the base>/a`) is the same as
`/a` on the file system and an error in memory. `ResolveAgrees` has that exception and
shows that there is no other. The diagram in
`docs/Architecture.md` has a handshake confirmation that the code does not send:
the server opens its channel before the client has checked anything.
`DeliveredInOrder` says what holds without it: no command is taken from a client
that did not accept. And `IdentityKept` has to except a power loss, because the
key file is not synced before the identity is printed.

Of the terminal client: `LineHolds` holds with a panic in it, which a wide
character before the cursor causes on the next key (the cursor advances by one and
the text by two or more bytes), and never without one; the panic leaves the terminal
in raw mode. `PromptTrue` has to except a session opened while the prompt showed
another directory, because nothing resets `current_dir`. After a lost session the
client stays on the command screen, shown as connected, with every command failing
until the user types `exit`; `ScreenMatchesChannel` is why it can be left that way.
The help screen (`client/src/ui/screens/help.rs`) says that `exit` quits; it returns
to the connection screen, where F1 has no effect although the welcome message offers
it. In a batch, `exit`, `clear` and `help` are unknown commands and count as failures.

`StuckOnlyByLocalFailure` holds and says what the code does: an upload whose
local file cannot be opened or read leaves `active_write` set on the server,
and all later writes of that session are answered "Transfer already active"
until it reconnects.

## Proofs

All proofs are checked by TLAPS, for every value of the constants that the
assumptions allow.

* `MemoryStorageProofs`. `TreeInv` is `StorageTypeOK /\ NoOrphans /\
  KindsDisjoint`. None is inductive alone: that removing an empty namespace
  orphans nothing needs `NoOrphans` for the descendants, and that a parent is
  a namespace and not an object needs `KindsDisjoint`. One lemma says that
  normalizing yields at most one path, and that it is a path; then one lemma
  per operation. The
  refinement maps the two maps to one tree (`Tree`) and shows, per operation,
  that its step is the contract's step of the same name or changes nothing:
  `mkdir` of an existing namespace is the stuttering case. The
  prefix test of `rmdir` and the contract's test for direct children meet in
  the lemma that a parent is a prefix. `AncestorsExist`, that not only the
  parent but every prefix of a stored path is a namespace, is an invariant next
  to `TreeInv`; with it `EmptyMeansListedEmpty` follows: `rmdir` looks at all
  descendants, `ls` at children only.

  The module also holds what the other proofs need of loops. The library's
  induction theorems take a predicate as a parameter, which the provers cannot
  instantiate; `Induction` and `SeqInduction` have a set in its place and follow
  from the least member of a set of naturals (`WFMin`). `FoldLeft` chooses a
  function on sets of indices; `FoldExists` shows by induction on their number
  that there is one, and `NormalizedAppend` then says that one more component is
  one more turn of the loop in `normalize_path`.
* `RequestHandlerProofs`. `HandlerInv` adds to `TreeInv` and `AncestorsExist` that directories are
  component sequences and that each is the root or normalizes to something.
  Storage steps are reduced to the lemmas above; `cd` preserves the rest
  because it enters only what `is_namespace` accepts. `NothingUnderRemovedDir`
  comes from `AncestorsExist`. `NormalizeCorrect` says for every path that the loop
  does what `PathReference` says, by induction on the path: the induction
  hypothesis is the reference itself with the length of the result, which is the
  depth of the whole path; a name adds a survivor, `..` removes the last one and no
  other. `NormalizeMatchesReference` and `JoinThenNormalize` are read off it and off
  the lemma that a loop over a joined path goes on where the first part ended.
* `TokioFsStorageProofs`. `ResolveIs` says that walking the directories and following
  the text from the machine's root on (`Lexically`) arrive at the same place when the
  walk arrives at all, by induction on the path. `NormalizeBeside` puts
  `normalize_path` beside that text: as long as it has not refused the path, both are
  at the same place; once it has, the text is out of the base directory, and only a
  step with the base's own name leads back (`EntersByName`). Together they are
  `ResolveIsNormalize`, whose exception is `ComesBack`. `FsInv` has the tree shape
  (`FsTypeOK`), types, that an inode has one path and a path that some caller
  named (`OnePath`), for every call under way that it works on what the text of
  its path means and is at a place its operation can be at (`UnderWay`), and for every
  call that is still `intact` what it knows of its inode (`Good`): where its bytes
  are, for an append; that what it has read is a prefix and what is left, for a
  read. `OnePath` is what makes
  a write to an inode a change of one object. A step of one caller keeps
  what another knows because it leaves the other's inode alone, or only
  makes it longer, or clears `intact` (`StepKeeps`); then there is one lemma per
  file-system call. `DirsNamed` needs `NamedInv`: the named paths hold their own
  ancestors, because a call that would store something resolves only below something
  that is there, and everything that is there was named. `FsRefinesAnyContract` is the refinement for all paths and
  data: a file-system call is a put, an extension, a removal or a new
  namespace of the contract, or shows nothing. With data in puts the bytes put may
  be a mixture of two callers' bytes, so `FsImplementsContract`, which
  allows prefixes of one request's data only, has the hypothesis that puts are
  empty, as all puts are that the clients of this repository cause.
* `ServerProofs`. `IndInv` adds to the properties that live connections are
  unjoined tasks, that a stopped server has no tasks, and that ids lie below
  the counter. Permits are counted with the cardinality theorems: a step adds
  one peer to `Live`, removes one, or leaves it alone.
* `PinnedServerProofs`. `IdentityInv` adds to `IdentityKept` that a key is written
  only while none is announced, and that a process past `load_or_generate` has
  the key that is in the file; without these an `Announce` could add a key the
  file does not hold. `ChannelInv` says what is on
  the wire in each place of the handshake: towards the client, the part of the
  server's handshake that is sent and unread, then the packets sent and not
  opened; towards the server, a hello and then such packets; and that keys exist
  only past the handshake. `PeerKeyInv` says that the ephemeral key an end took for
  the other's is that key, without which neither transcripts nor secrets agree. From
  these follow `KeysAgree`, `PinHolds` and `DeliveredInOrder` of one connection: a
  signature that a pinning client accepts was made with the key of the claimed
  identity about this connection, so its server holds that key. A step of the
  composition is a step of `Identity`, of `SecureChannel` or leaves it alone, so the
  invariants carry over to every connection of a server that restarts. `PinInv` says
  that this server proves only identities it has announced; with it `PinStaysGood`
  follows, as an action property.
* `CodecProofs`. What a peer decodes is what was encoded, for every command and
  output, although defaults are not sent. The exceptions are stated in the
  theorems: a chunk size above `u32` is clamped, and the total size and
  truncation mark of `ObjectContent` do not travel.
* `SessionProofs`. `CoreInv` is `TreeInv`, types, and `SessionInv(c)` for every
  client, which says for each place of the client's `pc` what its session has in
  flight (nothing, one request, one response, or the run of chunks of a read) and
  how much of the transfer the server holds and has stored. It has to keep
  apart a closed session, where nothing in flight survives, and a client that is
  gone, whose last request may still arrive (`ServerInv`). `Paired`, `InStep`,
  `HeardAsMeant`, `StuckOnlyByLocalFailure` and `SuccessMeansDelivered` are
  read off it. Two further invariants rest on it: `Undisturbed`, that the object of a
  transfer nobody else touched is what it held before followed by the bytes
  stored, for `UndisturbedObject`; and `ReadsInv`, that the chunks in flight are
  consecutive slices of the object and the preview a prefix of it, for
  `ReadShowsObject`. Each is shown action by action, first for the session
  that acts and then for the others, which only see the storage change.
* `FenrisClientProofs`. `LineInv` is `LineHolds` and types, and is inductive; the work is
  in lemmas on byte lengths, counted as characters plus wide characters: what an
  insertion or a deletion does to the length, whether or not the cursor is between
  two characters, and that offsets count characters in a text without wide ones.
  `ClientInv` is `LinkInv /\ ScreenInv /\ PromptInv`: a command in flight is the
  one that was built, an answer is one the session can give, and the answer to a
  `cd` is ahead of the prompt until it is shown. This is why `PromptTrue`, which
  compares directories only between commands, is not inductive. `BatchInv`
  relates what the far end served, what was written and what is pending: at any
  time at most one success is served and not written, and a lost answer leaves
  one open but ends the run. It gives `SummaryTrue`. That the commands read are
  lines of the file, and that adding any number of messages keeps the cap
  (`TuiTypeOK`), are shown of the folds they are made with, as above.

Constants are assumed to be: names distinct from `.` and `..`; paths and
payloads sequences over their alphabets; the base directory not the machine's root,
with its parent outside it and `Outside` closed under parents; `Peer` finite; keys distinct from an
absent and from a torn file, and among the identities a client can pin;
`ChunkSize` positive; `U32Max`, `PreviewLimit`, `MaxConnections` and the bounds
natural numbers; the cap on messages at least two and the block dropped beyond it not
larger; wide characters among the characters. `LinkAssumption` says that the
commands users type are built to the requests of `request_manager.rs`, with `cd`
arguments among `Dir`, and that listings hold entries of the right shape.
`LinesAssumption` says that a command file is a sequence of lines. TLC evaluates
every assumption on the instances. The bounds play no part in the proofs.

Only model-checked is what needs fairness: `CommandEnds`, `HandshakesEnd`,
`ShutdownCompletes`, `ConnectEnds`, `QuitHonoured` and `BatchFinishes`. The prover
has no rules for `ENABLED`, on which fairness rests. Every invariant and action
property of the passing runs is a theorem as well, for every value of the
constants; `FsImplementsContract` is one under the hypothesis above.

## Not modelled

Compression and the inside of cryptography (library calls), generated protobuf
code and its byte layout, rendering, wording of responses, logging, configuration
parsing, benchmarks. Of the client: the text of the address and port fields beyond
whether the port is a number, keys typed ahead while a command runs, and a transfer's
own steps, which are in `Session`. An endless chase of a chunked read after a session
that appends for ever is outside the bounded runs; `CommandEnds` shows that a read
ends once the appends do. Of the file-system backend: listing, metadata, whole reads and the
`exists` tests, which change nothing. The sessions run on `MemoryStorage`, where
a storage call is atomic; on the file-system backend it is not, and
`TokioFsStorage` shows what is left of the contract. `FsImplementsContract`
admits that a put brings back a directory another session has just removed;
`DirsNamed` says that it brings back no other. Symbolic links below the base
directory, which somebody else would have to make, and a base directory that is the
machine's root are left out. Two waits of the client have no end in the code and none
in the models: for a server that keeps a connection open and is silent, and for one
whose machine lost power. The `SecureChannel` model shows both in the handshake; in
the models of the frontends a connect is one step.

## Plan

What is left is a session on `TokioFsStorage`: which of the session properties
survive when a storage call is several file-system calls. The refinement says that
each of these is an operation of the contract, but the session proofs use that an
operation is atomic.
