---------------------------- MODULE CommandLine ----------------------------
(***************************************************************************)
(* client/src/app.rs, the command line of the terminal client: the text    *)
(* being typed, the cursor in it and the history of commands.  The cursor  *)
(* is a byte offset that moves by one per key, while a character takes one *)
(* byte or more; String::insert and String::remove panic when the offset   *)
(* is not where a character starts.                                        *)
(***************************************************************************)
EXTENDS Naturals, SequencesExt, FiniteSets

CONSTANTS
    Char,             \* the characters that can be typed
    Wide,             \* the ones that take two bytes in UTF-8
    MaxInput,         \* bound: characters typed on a line
    MaxHistory        \* bound: commands entered

ASSUME CommandLineAssumption == Wide \subseteq Char /\ MaxInput \in Nat /\ MaxHistory \in Nat

VARIABLES
    command_input, cursor_position,
    command_history, history_index,   \* the index counts from 1; 0 is None
    panicked                          \* the process died on a bad offset

lineVars == <<command_input, cursor_position, command_history, history_index, panicked>>

LineInit ==
    /\ command_input = << >> /\ cursor_position = 0
    /\ command_history = << >> /\ history_index = 0
    /\ panicked = FALSE

ByteLen(text) == Len(text) + Cardinality({i \in DOMAIN text : text[i] \in Wide})

(* Where characters start, and the end: after the first k characters. *)
Offset(text, k) == ByteLen(SubSeq(text, 1, k))
IsBoundary(text, offset) == \E k \in 0..Len(text) : Offset(text, k) = offset
CharsBefore(text, offset) == CHOOSE k \in 0..Len(text) : Offset(text, k) = offset

Panic == panicked' = TRUE /\ UNCHANGED <<command_input, cursor_position,
                                         command_history, history_index>>

-----------------------------------------------------------------------------
InsertChar(ch) ==
    /\ Len(command_input) < MaxInput
    /\ IF IsBoundary(command_input, cursor_position)
       THEN /\ command_input' =
                  InsertAt(command_input, CharsBefore(command_input, cursor_position) + 1, ch)
            /\ cursor_position' = cursor_position + 1
            /\ history_index' = 0
            /\ UNCHANGED <<command_history, panicked>>
       ELSE Panic

DeleteChar ==
    /\ cursor_position > 0
    /\ IF IsBoundary(command_input, cursor_position - 1)
       THEN /\ command_input' =
                  RemoveAt(command_input, CharsBefore(command_input, cursor_position - 1) + 1)
            /\ cursor_position' = cursor_position - 1
            /\ UNCHANGED <<command_history, history_index, panicked>>
       ELSE Panic

MoveCursor(offset) ==
    /\ offset \in 0..ByteLen(command_input)
    /\ cursor_position' = offset
    /\ UNCHANGED <<command_input, command_history, history_index, panicked>>

(* move_cursor_left, _right, _start, _end *)
MoveKey ==
    \/ cursor_position > 0 /\ MoveCursor(cursor_position - 1)
    \/ MoveCursor(cursor_position + 1)
    \/ MoveCursor(0)
    \/ MoveCursor(ByteLen(command_input))

Recall(index) ==
    /\ history_index' = index
    /\ command_input' = command_history[index]
    /\ cursor_position' = ByteLen(command_history[index])
    /\ UNCHANGED <<command_history, panicked>>

HistoryPrevious ==
    /\ command_history # << >>
    /\ Recall(IF history_index \in {0, 1} THEN Len(command_history) ELSE history_index - 1)

HistoryNext ==
    /\ history_index # 0 /\ history_index < Len(command_history)
    /\ Recall(history_index + 1)

EditKey ==
    \/ \E ch \in Char : InsertChar(ch)
    \/ DeleteChar \/ MoveKey \/ HistoryPrevious \/ HistoryNext

(* take_command, then add_to_history of what it took. *)
AddToHistory(command) ==
    /\ command # << >> /\ Len(command_history) < MaxHistory
    /\ command_history' = Append(command_history, command)
    /\ history_index' = 0

TakeCommandKeepingCursor ==   \* mutant: the cursor stays where it was
    /\ AddToHistory(command_input)
    /\ command_input' = << >>
    /\ UNCHANGED <<cursor_position, panicked>>

TakeCommand ==
    /\ AddToHistory(command_input)
    /\ command_input' = << >> /\ cursor_position' = 0
    /\ UNCHANGED panicked

-----------------------------------------------------------------------------
(* The cursor is inside the text, although a wide character moves it by one *)
(* and takes two bytes, and only in a text with a wide character can there  *)
(* be a panic.                                                              *)
CursorInText ==
    /\ cursor_position \in 0..ByteLen(command_input)
    /\ panicked => \E i \in DOMAIN command_input : command_input[i] \in Wide

(* history_index selects an entry of the history, and the line holds that   *)
(* entry or a rest of it: only deleting leaves the index in place.          *)
RestOf(text, whole) == Len(text) <= Len(whole) /\ ToSet(text) \subseteq ToSet(whole)

HistoryIndexHolds ==
    /\ history_index \in 0..Len(command_history)
    /\ history_index # 0 => RestOf(command_input, command_history[history_index])

(***************************************************************************)
(* However the user types, deletes, moves, recalls and enters commands:    *)
(* the cursor stays inside the text, with one-byte characters the client   *)
(* never panics on an offset, and the history index never points at an     *)
(* entry other than the one being edited.                                  *)
(***************************************************************************)
LineHolds == CursorInText /\ HistoryIndexHolds
=============================================================================
