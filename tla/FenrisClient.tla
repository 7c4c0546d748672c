---------------------------- MODULE FenrisClient ----------------------------
(***************************************************************************)
(* client/src/main.rs: the client program, in one of its two modes.        *)
(***************************************************************************)
EXTENDS TuiClient, Batch

VARIABLES
    mode,             \* "tui" or "batch", then "ended"
    exit,             \* how it ended; "quit" is the terminal client's success
    served            \* observer: per command of a batch that was run, whether it succeeded

clientVars == <<command_input, cursor_position, command_history, history_index, panicked,
                screen, connected, current_dir, connection_focus, port_valid, messages, ctrl_c,
                stale, commands, total, failed, aborted, written,
                channel, exchange, server_dir, built, heard, mode, exit, served>>

ClientInit ==
    /\ LineInit /\ AppInit /\ LinkInit
    /\ \/ mode = "tui" /\ BatchInit(<< >>)
       \/ mode = "batch" /\ \E lines \in Lines : BatchInit(lines)
    /\ exit = "none" /\ served = << >>

TuiRunning == mode = "tui" /\ ~panicked

TuiStep ==
    /\ TuiRunning
    /\ TuiKey \/ CommandReturns \/ PressCtrlC
    /\ UNCHANGED batchVars /\ UNCHANGED <<mode, exit, served>>

(* run: Ctrl+C ends the loop, and a channel is dropped. *)
TuiQuitsIfConnected ==   \* mutant: the loop ends only where there is a channel to drop
    /\ TuiRunning /\ ctrl_c /\ IsIdle /\ channel # "none"
    /\ CloseChannel
    /\ mode' = "ended" /\ exit' = "quit" /\ UNCHANGED served
    /\ UNCHANGED tuiVars /\ UNCHANGED lineVars /\ UNCHANGED batchVars

TuiQuits ==
    /\ TuiRunning /\ ctrl_c /\ IsIdle
    /\ CloseChannel
    /\ mode' = "ended" /\ exit' = "quit" /\ UNCHANGED served
    /\ UNCHANGED tuiVars /\ UNCHANGED lineVars /\ UNCHANGED batchVars

(* run_batch: a connection that fails ends the program with an error. *)
BatchConnects ==
    /\ mode = "batch" /\ channel = "none"
    /\ \/ OpenChannel /\ UNCHANGED <<mode, exit>>
       \/ mode' = "ended" /\ exit' = "error" /\ UNCHANGED linkVars
    /\ UNCHANGED served
    /\ UNCHANGED tuiVars /\ UNCHANGED lineVars /\ UNCHANGED batchVars

BatchRuns ==
    /\ mode = "batch" /\ channel # "none"
    /\ BatchStep
    /\ UNCHANGED tuiVars /\ UNCHANGED lineVars /\ UNCHANGED <<mode, exit, served>>

(* The summary decides the exit code. *)
BatchEnds ==
    /\ mode = "batch" /\ channel # "none" /\ IsIdle /\ ~Running
    /\ CloseChannel
    /\ mode' = "ended" /\ exit' = IF IsSuccess THEN "success" ELSE "failure"
    /\ UNCHANGED served
    /\ UNCHANGED tuiVars /\ UNCHANGED lineVars /\ UNCHANGED batchVars

(* write_result fails: run_commands returns the error after the command was *)
(* run.                                                                     *)
WriteFails ==
    /\ mode = "batch" /\ channel # "none" /\ ResultDue
    /\ exchange' = Idle /\ channel' = "none"
    /\ mode' = "ended" /\ exit' = "error"
    /\ UNCHANGED <<server_dir, built, heard, served>>
    /\ UNCHANGED tuiVars /\ UNCHANGED lineVars /\ UNCHANGED batchVars

FarEnd(step) ==
    /\ mode # "ended" /\ ~panicked
    /\ step
    /\ UNCHANGED tuiVars /\ UNCHANGED lineVars /\ UNCHANGED batchVars /\ UNCHANGED <<mode, exit>>

ServerEnd ==
    /\ FarEnd(ServerStep)
    /\ served' = IF mode = "batch" THEN Append(served, Succeeded') ELSE served

SessionLost == FarEnd(LoseSession) /\ UNCHANGED served

ClientNext ==
    \/ TuiStep \/ TuiQuits
    \/ BatchConnects \/ BatchRuns \/ BatchEnds \/ WriteFails
    \/ ServerEnd \/ SessionLost

ClientSpec == ClientInit /\ [][ClientNext]_clientVars

(* The program runs whenever it can, and a live session answers or is lost: *)
(* that is CommandEnds of Session.  The user owes us no key.                *)
FairClientSpec ==
    /\ ClientSpec
    /\ WF_clientVars(TuiStep /\ CommandReturns) /\ WF_clientVars(TuiQuits)
    /\ WF_clientVars(BatchConnects) /\ WF_clientVars(BatchRuns) /\ WF_clientVars(BatchEnds)
    /\ WF_clientVars(ServerEnd)

-----------------------------------------------------------------------------
(* Types, and the cap on the messages kept. *)
TuiTypeOK ==
    /\ screen \in {"Connection", "Command", "Help"} /\ connected \in BOOLEAN
    /\ current_dir \in Dir /\ server_dir \in Dir
    /\ channel \in {"none", "live", "lost"}
    /\ messages \in 0..MessageCap

(***************************************************************************)
(* The app and its connection manager agree: the connection screen is      *)
(* shown, and the header says disconnected, exactly while there is no      *)
(* channel, although they are kept in two places and a lost session is     *)
(* noticed by neither.  So a user who is asked to connect can: "Cannot     *)
(* change server info while connected" never locks the screen.             *)
(***************************************************************************)
ScreenMatchesChannel ==
    mode = "tui" =>
        /\ connected <=> channel # "none"
        /\ screen = "Connection" <=> channel = "none"

(***************************************************************************)
(* The directory in the prompt is the session's directory on the server,   *)
(* except in a session that was opened while the prompt showed another one *)
(* and in which no cd was answered: exit and connect do not reset it.      *)
(***************************************************************************)
PromptTrue ==
    mode = "tui" /\ channel = "live" /\ IsIdle /\ ~stale => current_dir = server_dir

(***************************************************************************)
(* The summary counts what was reported: as many failures as failed        *)
(* results, and unless the run was aborted, by its last result, a result   *)
(* for every command that says what became of it.  A result that says      *)
(* success is a command the server ran, and at most the last command ran   *)
(* without being reported as a success: after that one nothing is sent.    *)
(* The exit code is success only when every command of the file reached    *)
(* the server and was answered with success.                               *)
(***************************************************************************)
Trues(flags) == {i \in DOMAIN flags : flags[i]}
Successes(flags) == Cardinality(Trues(flags))

SummaryTrue ==
    /\ failed = Len(written) - Successes(written)
    /\ aborted => written # << >> /\ ~Last(written)
    /\ exit \in {"success", "failure"} /\ ~aborted =>
          Len(written) = total /\ Successes(written) = Successes(served)
    /\ Successes(written) <= Successes(served)
    /\ mode = "ended" => Successes(served) <= Successes(written) + 1
    /\ exit = "success" => served = [i \in 1..total |-> TRUE]

(***************************************************************************)
(* Ctrl+C ends the terminal client, also when it is pressed while a        *)
(* command is under way, which is when no key is read.                     *)
(***************************************************************************)
QuitHonoured == ctrl_c ~> mode = "ended"

(* A batch run comes to an end. *)
BatchFinishes == mode = "batch" ~> mode = "ended"
=============================================================================
