------------------------------- MODULE Batch -------------------------------
(***************************************************************************)
(* client/src/batch.rs: the commands of a file are sent one after the      *)
(* other in one session, and a result is written for each.                 *)
(***************************************************************************)
EXTENDS ClientLink, SequencesExt

CONSTANT Lines        \* the command files: sequences of texts, some of them blank

VARIABLES
    commands,         \* what is left to send
    total, failed, aborted,
    written           \* observer: the success of each result written

batchVars == <<commands, total, failed, aborted, written>>

Blank == << >>

(* read_commands: the lines, but for the blank ones. *)
PushCommand(read, line) == IF line = Blank THEN read ELSE Append(read, line)
ReadCommands(lines) == FoldLeft(PushCommand, << >>, lines)

(* A command file is a sequence of lines. *)
ASSUME LinesAssumption ==
    \A lines \in Lines : lines \in Seq({lines[i] : i \in DOMAIN lines})

BatchInit(lines) ==
    /\ commands = ReadCommands(lines) /\ total = Len(ReadCommands(lines))
    /\ failed = 0 /\ aborted = FALSE /\ written = << >>

ShouldAbortNever(error) == FALSE   \* mutant: a lost connection is one failure more
ShouldAbort(error) == error \in {"ConnectionClosed", "NetworkError"}

(* One turn of run_commands, after send_command: the result is counted and  *)
(* written, and an error of the connection ends the run.                    *)
Record(success, abort) ==
    /\ failed' = IF success THEN failed ELSE failed + 1
    /\ written' = Append(written, success)
    /\ aborted' = abort
    /\ commands' = Tail(commands)
    /\ UNCHANGED total

Running == commands # << >> /\ ~aborted

(* Nothing is sent for a text that is no command; exit, clear and help are  *)
(* none here.                                                               *)
Sendable(text) == BuildRequest(text).kind \in {"single", "transfer"}

SendNext ==
    /\ Running /\ IsIdle
    /\ \/ SendPlan(BuildRequest(Head(commands))) /\ UNCHANGED batchVars
       \/ ~Sendable(Head(commands)) /\ Record(FALSE, FALSE) /\ UNCHANGED linkVars

CommandDone ==
    /\ \E result \in Results :
          \/ result.ok /\ Record(result.success, FALSE)
          \/ ~result.ok /\ Record(FALSE, ShouldAbort(result.error))
    /\ FinishExchange

BatchStep == SendNext \/ CommandDone

(* A result is there to be written. *)
ResultDue == Results # {} \/ (IsIdle /\ Running /\ ~Sendable(Head(commands)))

(* is_success *)
IsSuccess == failed = 0 /\ ~aborted
=============================================================================
