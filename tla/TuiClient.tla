----------------------------- MODULE TuiClient -----------------------------
(***************************************************************************)
(* client/src/client.rs, app.rs and ui/mod.rs: the terminal client.  Keys  *)
(* are handled one at a time, and none while a command is under way.  Of   *)
(* the two input fields of the connection screen, only whether the port is *)
(* a valid number matters here.                                            *)
(***************************************************************************)
EXTENDS CommandLine, ClientLink

CONSTANTS
    MessageCap,       \* messages kept: 1000
    MessageDrain      \* oldest messages dropped beyond that: 100

ASSUME MessageAssumption == MessageDrain \in 1..MessageCap /\ MessageCap \in Nat \ (0..1)

VARIABLES
    screen, connected, current_dir,
    connection_focus, port_valid,
    messages,         \* how many messages are kept
    ctrl_c,           \* Ctrl+C was pressed and is the next key to be handled
    stale             \* observer: the session was opened under another prompt

appVars == <<screen, connected, current_dir, connection_focus, port_valid, messages>>
tuiVars == <<screen, connected, current_dir, connection_focus, port_valid, messages,
             ctrl_c, stale>>

(* App::new, and the two messages run starts with. *)
Welcome == 2
AppInit ==
    /\ screen = "Connection" /\ connected = FALSE /\ current_dir = Root
    /\ connection_focus = "Address" /\ port_valid = TRUE
    /\ messages = Welcome /\ ctrl_c = FALSE /\ stale = FALSE

(* add_message, n times *)
PushMessageUncapped(count, i) == count + 1   \* mutant: nothing is dropped
PushMessage(count, i) ==
    IF count + 1 > MessageCap THEN count + 1 - MessageDrain ELSE count + 1
AddMessages(n) == messages' = FoldLeft(PushMessage, messages, [i \in 1..n |-> i])

KeyReady == IsIdle /\ ~ctrl_c /\ ~panicked

-----------------------------------------------------------------------------
(* handle_connection_input *)
ConnectionKey ==
    /\ KeyReady /\ screen = "Connection"
    /\ \/ /\ connection_focus' = IF connection_focus = "Address" THEN "Port" ELSE "Address"
          /\ UNCHANGED port_valid
       \/ /\ connection_focus = "Port" /\ port_valid' \in BOOLEAN
          /\ UNCHANGED connection_focus
    /\ UNCHANGED <<screen, connected, current_dir, messages, ctrl_c, stale>>
    /\ UNCHANGED lineVars /\ UNCHANGED linkVars

(* handle_connect: an invalid port is refused, and set_server_info refuses  *)
(* while there is a channel.                                                *)
ConnectFails ==
    /\ connected' = FALSE /\ AddMessages(2)
    /\ UNCHANGED <<screen, stale>> /\ UNCHANGED linkVars

ConnectSucceeds ==
    /\ OpenChannel
    /\ connected' = TRUE /\ screen' = "Command" /\ AddMessages(2)
    /\ stale' = (current_dir # Root)

HandleConnect ==
    /\ KeyReady /\ screen = "Connection"
    /\ IF port_valid /\ channel = "none" THEN ConnectFails \/ ConnectSucceeds
       ELSE /\ AddMessages(IF port_valid THEN 2 ELSE 1)
            /\ UNCHANGED <<screen, connected, stale>> /\ UNCHANGED linkVars
    /\ UNCHANGED <<current_dir, connection_focus, port_valid, ctrl_c>> /\ UNCHANGED lineVars

(* handle_command_input and handle_help_input *)
CommandKey ==
    /\ KeyReady /\ screen = "Command"
    /\ \/ EditKey /\ UNCHANGED screen
       \/ screen' = "Help" /\ UNCHANGED lineVars
    /\ UNCHANGED <<connected, current_dir, connection_focus, port_valid, messages, ctrl_c, stale>>
    /\ UNCHANGED linkVars

HelpKey ==
    /\ KeyReady /\ screen = "Help"
    /\ screen' = "Command"
    /\ UNCHANGED <<connected, current_dir, connection_focus, port_valid, messages, ctrl_c, stale>>
    /\ UNCHANGED lineVars /\ UNCHANGED linkVars

-----------------------------------------------------------------------------
(* handle_command: exit, clear and help stay in the client, a text that is  *)
(* no command is an error, everything else is sent.                         *)
ExitKeepingChannel ==   \* mutant: exit does not disconnect
    connected' = FALSE /\ screen' = "Connection" /\ AddMessages(2) /\ UNCHANGED linkVars
Exit == CloseChannel /\ connected' = FALSE /\ screen' = "Connection" /\ AddMessages(2)

HandleCommand ==
    /\ KeyReady /\ screen = "Command"
    /\ TakeCommand
    /\ LET plan == BuildRequest(command_input)
       IN  \/ plan.kind = "exit" /\ Exit
           \/ /\ plan.kind = "clear" /\ messages' = 0
              /\ UNCHANGED <<screen, connected>> /\ UNCHANGED linkVars
           \/ /\ plan.kind = "help" /\ screen' = "Help" /\ AddMessages(1)
              /\ UNCHANGED connected /\ UNCHANGED linkVars
           \/ /\ plan.kind = "unknown" /\ AddMessages(2)
              /\ UNCHANGED <<screen, connected>> /\ UNCHANGED linkVars
           \/ SendPlan(plan) /\ AddMessages(1) /\ UNCHANGED <<screen, connected>>
    /\ UNCHANGED <<current_dir, connection_focus, port_valid, ctrl_c, stale>>

(* handle_command, once send_command has returned. *)
ShownDirAlways(result) == current_dir   \* mutant: the response's directory is ignored
ShownDir(result) == IF result.current_dir = {} THEN current_dir
                    ELSE CHOOSE d \in result.current_dir : TRUE

ShowResult(result) ==
    /\ AddMessages(1 + result.lines)
    /\ current_dir' = ShownDir(result)
    /\ stale' = (stale /\ result.current_dir = {})
    /\ UNCHANGED <<connected, screen>>

ShowError(error) ==
    /\ AddMessages(1)
    /\ connected' = (connected /\ error # "ConnectionClosed")
    /\ screen' = IF error = "ConnectionClosed" THEN "Connection" ELSE screen
    /\ UNCHANGED <<current_dir, stale>>

CommandReturns ==
    /\ \E result \in Results :
          \/ result.ok /\ ShowResult(result)
          \/ ~result.ok /\ ShowError(result.error)
    /\ FinishExchange
    /\ UNCHANGED <<connection_focus, port_valid, ctrl_c>> /\ UNCHANGED lineVars

PressCtrlC ==
    /\ ~ctrl_c /\ ~panicked
    /\ ctrl_c' = TRUE
    /\ UNCHANGED appVars /\ UNCHANGED stale /\ UNCHANGED lineVars /\ UNCHANGED linkVars

TuiKey == ConnectionKey \/ HandleConnect \/ CommandKey \/ HelpKey \/ HandleCommand

=============================================================================
