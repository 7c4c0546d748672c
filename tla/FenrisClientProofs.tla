------------------------- MODULE FenrisClientProofs -------------------------
(***************************************************************************)
(* The client program, for every keyboard, every meaning of the texts and  *)
(* every command file: the command line, the screen and the prompt of the  *)
(* terminal client, and the summary and the exit code of a batch.          *)
(***************************************************************************)
EXTENDS FenrisClient, CodecProofs, FiniteSetTheorems, WellFoundedInduction

(* The text of a line takes at least a byte per character, and one with     *)
(* the same beginning takes at least its bytes.                             *)
WideIn(s) == {i \in DOMAIN s : s[i] \in Wide}

LEMMA ByteLenType ==
    ASSUME NEW s \in Seq(Char)
    PROVE  IsFiniteSet(WideIn(s)) /\ ByteLen(s) \in Nat /\ ByteLen(s) >= Len(s)
           /\ ByteLen(s) = Len(s) + Cardinality(WideIn(s)) /\ Cardinality(WideIn(s)) \in Nat
<1>1. IsFiniteSet(1..Len(s)) /\ WideIn(s) \in SUBSET (1..Len(s))
  BY FS_Interval DEF WideIn
<1>2. IsFiniteSet(WideIn(s)) /\ Cardinality(WideIn(s)) \in Nat
  BY <1>1, FS_Subset, FS_CardinalityType
<1>3. ByteLen(s) = Len(s) + Cardinality(WideIn(s))
  BY DEF ByteLen, WideIn
<1> QED
  BY <1>2, <1>3

LEMMA LongerText ==
    ASSUME NEW s \in Seq(Char), NEW t \in Seq(Char), Len(s) <= Len(t),
           \A i \in 1..Len(s) : t[i] = s[i]
    PROVE  ByteLen(t) >= ByteLen(s) + (Len(t) - Len(s))
<1>1. WideIn(s) \in SUBSET WideIn(t)
  BY DEF WideIn
<1>2. Cardinality(WideIn(s)) <= Cardinality(WideIn(t))
  BY <1>1, ByteLenType, FS_Subset
<1> QED
  BY <1>2, ByteLenType

LEMMA PrefixOf ==
    ASSUME NEW s \in Seq(Char), NEW k \in 0..Len(s)
    PROVE  SubSeq(s, 1, k) \in Seq(Char) /\ Len(SubSeq(s, 1, k)) = k
           /\ \A i \in 1..k : SubSeq(s, 1, k)[i] = s[i]
OBVIOUS

LEMMA Joined ==
    ASSUME NEW a \in Seq(Char), NEW b \in Seq(Char)
    PROVE  /\ a \o b \in Seq(Char) /\ Len(a \o b) = Len(a) + Len(b)
           /\ \A i \in 1..(Len(a) + Len(b)) :
                 (a \o b)[i] = IF i <= Len(a) THEN a[i] ELSE b[i - Len(a)]
OBVIOUS

LEMMA WholeText ==
    ASSUME NEW s \in Seq(Char)
    PROVE  SubSeq(s, 1, Len(s)) = s
OBVIOUS

LEMMA NoWideChar ==
    ASSUME NEW s \in Seq(Char), \A i \in DOMAIN s : s[i] \notin Wide
    PROVE  ByteLen(s) = Len(s) /\ \A k \in 0..Len(s) : Offset(s, k) = k
<1>1. ASSUME NEW t \in Seq(Char), \A i \in 1..Len(t) : t[i] \notin Wide
      PROVE  ByteLen(t) = Len(t)
  <2>1. WideIn(t) = {}
    BY <1>1 DEF WideIn
  <2> QED
    BY <2>1, ByteLenType, FS_EmptySet
<1>2. ASSUME NEW k \in 0..Len(s) PROVE Offset(s, k) = k
  <2>1. PICK t : t = SubSeq(s, 1, k)
    OBVIOUS
  <2>2. t \in Seq(Char) /\ Len(t) = k /\ \A i \in 1..k : t[i] = s[i]
    BY <2>1, PrefixOf
  <2>3. \A i \in 1..Len(t) : t[i] \notin Wide
    BY <2>2
  <2>4. ByteLen(t) = k
    BY <1>1, <2>2, <2>3
  <2> QED
    BY <2>1, <2>4 DEF Offset
<1> QED
  BY <1>1, <1>2

LEMMA Inserted ==
    ASSUME NEW s \in Seq(Char), NEW k \in 0..Len(s), NEW ch \in Char
    PROVE  /\ InsertAt(s, k + 1, ch) \in Seq(Char)
           /\ Offset(s, k) + 1 <= ByteLen(InsertAt(s, k + 1, ch))
<1> DEFINE t == InsertAt(s, k + 1, ch)
           before == SubSeq(s, 1, k)
           after == SubSeq(s, k + 1, Len(s))
<1>1. t = (before \o <<ch>>) \o after
  <2>1. (k + 1) - 1 = k
    OBVIOUS
  <2> QED
    BY <2>1 DEF InsertAt
<1>2. before \in Seq(Char) /\ Len(before) = k
  BY PrefixOf
<1>3. after \in Seq(Char)
  OBVIOUS
<1> HIDE DEF t, before, after
<1>4. /\ before \o <<ch>> \in Seq(Char) /\ Len(before \o <<ch>>) = k + 1
      /\ \A i \in 1..k : (before \o <<ch>>)[i] = before[i]
  BY <1>2
<1>5. /\ t \in Seq(Char) /\ Len(t) >= k + 1 /\ \A i \in 1..k : t[i] = before[i]
  <2>1. PICK front : front = before \o <<ch>>
    OBVIOUS
  <2>2. front \in Seq(Char) /\ Len(front) = k + 1 /\ \A i \in 1..k : front[i] = before[i]
    BY <1>4, <2>1
  <2>3. /\ t \in Seq(Char) /\ Len(t) = Len(front) + Len(after)
        /\ \A i \in 1..(Len(front) + Len(after)) :
              t[i] = IF i <= Len(front) THEN front[i] ELSE after[i - Len(front)]
    <3>1. t = front \o after
      BY <1>1, <2>1
    <3> QED
      BY <1>3, <2>2, <3>1, Joined, Zenon
  <2>4. Len(after) \in Nat
    BY <1>3
  <2> QED
    BY <2>2, <2>3, <2>4
<1>6. ByteLen(t) >= ByteLen(before) + (Len(t) - k)
  <2>1. Len(before) <= Len(t) /\ \A i \in 1..Len(before) : t[i] = before[i]
    BY <1>2, <1>5
  <2>2. ByteLen(t) >= ByteLen(before) + (Len(t) - Len(before))
    BY <1>2, <1>5, <2>1, LongerText, Zenon
  <2> QED
    BY <1>2, <2>2
<1>7. ByteLen(before) = Offset(s, k)
  BY DEF before, Offset
<1>8. ByteLen(t) \in Nat /\ Offset(s, k) \in Nat /\ Len(t) \in Nat
  BY <1>2, <1>5, <1>7, ByteLenType
<1>9. Offset(s, k) + 1 <= ByteLen(t)
  BY <1>5, <1>6, <1>7, <1>8
<1> QED
  BY <1>5, <1>9 DEF t

LEMMA Removed ==
    ASSUME NEW s \in Seq(Char), NEW k \in 0..(Len(s) - 1)
    PROVE  /\ RemoveAt(s, k + 1) \in Seq(Char) /\ Offset(s, k) <= ByteLen(RemoveAt(s, k + 1))
           /\ RestOf(RemoveAt(s, k + 1), s)
<1> DEFINE t == RemoveAt(s, k + 1)
           before == SubSeq(s, 1, k)
           after == SubSeq(s, k + 2, Len(s))
<1>1. t = before \o after
  <2>1. (k + 1) - 1 = k /\ (k + 1) + 1 = k + 2
    OBVIOUS
  <2> QED
    BY <2>1 DEF RemoveAt
<1>2. before \in Seq(Char) /\ Len(before) = k /\ \A i \in 1..k : before[i] = s[i]
  BY PrefixOf
<1>3. after \in Seq(Char) /\ Len(after) = Len(s) - (k + 1)
      /\ \A i \in 1..Len(after) : after[i] = s[i + (k + 1)]
  OBVIOUS
<1> HIDE DEF t, before, after
<1>4. /\ t \in Seq(Char) /\ Len(t) = Len(s) - 1
      /\ \A i \in 1..k : t[i] = before[i]
      /\ \A i \in 1..Len(t) : t[i] = IF i <= k THEN before[i] ELSE after[i - k]
  <2>1. /\ t \in Seq(Char) /\ Len(t) = Len(before) + Len(after)
        /\ \A i \in 1..(Len(before) + Len(after)) :
              t[i] = IF i <= Len(before) THEN before[i] ELSE after[i - Len(before)]
    BY <1>1, <1>2, <1>3, Joined, Zenon
  <2>2. Len(before) + Len(after) = Len(s) - 1
    BY <1>2, <1>3
  <2> QED
    BY <1>2, <2>1, <2>2
<1>5. ByteLen(t) >= ByteLen(before) + (Len(t) - k)
  <2>1. Len(before) <= Len(t) /\ \A i \in 1..Len(before) : t[i] = before[i]
    BY <1>2, <1>4
  <2>2. ByteLen(t) >= ByteLen(before) + (Len(t) - Len(before))
    BY <1>2, <1>4, <2>1, LongerText, Zenon
  <2> QED
    BY <1>2, <2>2
<1>6. ByteLen(before) = Offset(s, k)
  BY DEF before, Offset
<1>7. ByteLen(t) \in Nat /\ Offset(s, k) \in Nat
  BY <1>2, <1>4, <1>6, ByteLenType
<1>8. Offset(s, k) <= ByteLen(t)
  BY <1>4, <1>5, <1>6, <1>7
<1>9. ASSUME NEW i \in 1..Len(t) PROVE \E j \in 1..Len(s) : t[i] = s[j]
  <2>1. CASE i <= k
    BY <1>2, <1>4, <2>1
  <2>2. CASE i > k
    <3>1. i - k \in 1..Len(after) /\ (i - k) + (k + 1) = i + 1 /\ i + 1 \in 1..Len(s) /\ ~(i <= k)
      BY <1>3, <1>4, <2>2
    <3>2. t[i] = after[i - k] /\ after[i - k] = s[(i - k) + (k + 1)]
      BY <1>3, <1>4, <3>1
    <3> QED
      BY <3>1, <3>2
  <2> QED
    BY <2>1, <2>2
<1>10. RestOf(t, s)
  <2>1. Len(t) <= Len(s) /\ DOMAIN t = 1..Len(t) /\ DOMAIN s = 1..Len(s)
    BY <1>4
  <2>2. ToSet(t) \subseteq ToSet(s)
    BY <1>9, <2>1 DEF ToSet
  <2> QED
    BY <2>1, <2>2 DEF RestOf
<1> QED
  BY <1>4, <1>8, <1>10 DEF t


-----------------------------------------------------------------------------
(* The command line. *)
LineInv ==
    /\ command_input \in Seq(Char) /\ command_history \in Seq(Seq(Char))
    /\ LineHolds

LEMMA RestOfRest ==
    ASSUME NEW a \in Seq(Char), NEW b \in Seq(Char), NEW d \in Seq(Char),
           RestOf(a, b), RestOf(b, d)
    PROVE  RestOf(a, d)
BY DEF RestOf

LEMMA CharInserted ==
    ASSUME LineInv, ~panicked, NEW ch \in Char, InsertChar(ch)
    PROVE  LineInv'
<1>1. PICK s, cursor : s = command_input /\ cursor = cursor_position
  OBVIOUS
<1>2. s \in Seq(Char) /\ cursor \in 0..ByteLen(s)
  BY <1>1 DEF LineInv, LineHolds, CursorInText
<1>3. CASE IsBoundary(s, cursor)
  <2>1. PICK k : k = CharsBefore(s, cursor)
    OBVIOUS
  <2>2. k \in 0..Len(s) /\ Offset(s, k) = cursor
    BY <1>3, <2>1 DEF IsBoundary, CharsBefore
  <2>3. /\ command_input' = InsertAt(s, k + 1, ch) /\ cursor_position' = cursor + 1
        /\ history_index' = 0 /\ command_history' = command_history /\ panicked' = panicked
    BY <1>1, <1>3, <2>1 DEF InsertChar
  <2>4. command_input' \in Seq(Char) /\ cursor + 1 <= ByteLen(command_input')
    BY <1>2, <2>2, <2>3, Inserted
  <2>5. cursor_position' \in 0..ByteLen(command_input')
    BY <1>2, <2>3, <2>4, ByteLenType
  <2>6. 0 \in 0..Len(command_history)
    BY DEF LineInv
  <2> QED
    BY <2>3, <2>4, <2>5, <2>6 DEF LineInv, LineHolds, CursorInText, HistoryIndexHolds, ByteLen
<1>4. CASE ~IsBoundary(s, cursor)
  <2>1. /\ panicked' = TRUE /\ command_input' = s /\ cursor_position' = cursor
        /\ command_history' = command_history /\ history_index' = history_index
    BY <1>1, <1>4 DEF InsertChar, Panic
  <2>2. \E i \in DOMAIN s : s[i] \in Wide
    <3>1. SUFFICES ASSUME \A i \in DOMAIN s : s[i] \notin Wide PROVE FALSE
      OBVIOUS
    <3>2. ByteLen(s) = Len(s) /\ \A k \in 0..Len(s) : Offset(s, k) = k
      BY <1>2, <3>1, NoWideChar
    <3> QED
      BY <1>2, <1>4, <3>2 DEF IsBoundary
  <2> QED
    BY <1>1, <2>1, <2>2 DEF LineInv, LineHolds, CursorInText, HistoryIndexHolds, ByteLen
<1> QED
  BY <1>3, <1>4

LEMMA CharDeleted ==
    ASSUME LineInv, ~panicked, DeleteChar
    PROVE  LineInv'
<1>1. PICK s, cursor : s = command_input /\ cursor = cursor_position - 1
  OBVIOUS
<1>2. /\ s \in Seq(Char) /\ ByteLen(s) \in Nat /\ cursor \in 0..(ByteLen(s) - 1)
      /\ cursor_position = cursor + 1
  BY <1>1, ByteLenType DEF LineInv, LineHolds, CursorInText, DeleteChar
<1>3. CASE IsBoundary(s, cursor)
  <2>1. PICK k : k = CharsBefore(s, cursor)
    OBVIOUS
  <2>2. k \in 0..Len(s) /\ Offset(s, k) = cursor
    BY <1>3, <2>1 DEF IsBoundary, CharsBefore
  <2>3. Offset(s, Len(s)) = ByteLen(s)
    BY <1>2, WholeText DEF Offset
  <2>4. k # Len(s)
    BY <1>2, <2>2, <2>3
  <2>5. k \in 0..(Len(s) - 1)
    BY <1>2, <2>2, <2>4
  <2>6. /\ command_input' = RemoveAt(s, k + 1) /\ cursor_position' = cursor
        /\ history_index' = history_index /\ command_history' = command_history
        /\ panicked' = panicked
    BY <1>1, <1>3, <2>1 DEF DeleteChar
  <2>7. command_input' \in Seq(Char) /\ cursor <= ByteLen(command_input')
        /\ RestOf(command_input', s)
    BY <1>2, <2>2, <2>5, <2>6, Removed
  <2>8. cursor_position' \in 0..ByteLen(command_input')
    BY <1>2, <2>6, <2>7, ByteLenType
  <2>9. CursorInText'
    BY <2>6, <2>8 DEF CursorInText, ByteLen
  <2>10. ASSUME history_index # 0 PROVE RestOf(command_input', command_history[history_index])
    <3>1. command_history[history_index] \in Seq(Char) /\ RestOf(s, command_history[history_index])
      BY <1>1, <2>10 DEF LineInv, LineHolds, HistoryIndexHolds
    <3> QED
      BY <1>2, <2>7, <3>1, RestOfRest
  <2>11. HistoryIndexHolds'
    BY <2>6, <2>10 DEF LineInv, LineHolds, HistoryIndexHolds, RestOf
  <2> QED
    BY <2>6, <2>7, <2>9, <2>11 DEF LineInv, LineHolds
<1>4. CASE ~IsBoundary(s, cursor)
  <2>1. /\ panicked' = TRUE /\ command_input' = s /\ cursor_position' = cursor_position
        /\ command_history' = command_history /\ history_index' = history_index
    BY <1>1, <1>4 DEF DeleteChar, Panic
  <2>2. \E i \in DOMAIN s : s[i] \in Wide
    <3>1. SUFFICES ASSUME \A i \in DOMAIN s : s[i] \notin Wide PROVE FALSE
      OBVIOUS
    <3>2. ByteLen(s) = Len(s) /\ \A k \in 0..Len(s) : Offset(s, k) = k
      BY <1>2, <3>1, NoWideChar
    <3>3. cursor \in 0..Len(s)
      BY <1>2, <3>2
    <3> QED
      BY <1>4, <3>2, <3>3 DEF IsBoundary
  <2> QED
    BY <1>1, <2>1, <2>2 DEF LineInv, LineHolds, CursorInText, HistoryIndexHolds, ByteLen
<1> QED
  BY <1>3, <1>4

LEMMA Recalled ==
    ASSUME LineInv, ~panicked, NEW index \in 1..Len(command_history), Recall(index)
    PROVE  LineInv'
<1>1. PICK text : text = command_history[index]
  OBVIOUS
<1>2. text \in Seq(Char) /\ ByteLen(text) \in Nat
  <2>1. text \in Seq(Char)
    BY <1>1 DEF LineInv
  <2> QED
    BY <2>1, ByteLenType
<1>3. /\ history_index' = index /\ command_input' = text /\ cursor_position' = ByteLen(text)
      /\ command_history' = command_history /\ panicked' = panicked
  BY <1>1 DEF Recall
<1>4. ByteLen(text) \in 0..ByteLen(text)
  BY <1>2
<1>5. CursorInText'
  BY <1>3, <1>4 DEF CursorInText, ByteLen
<1>6. RestOf(text, command_history[index])
  BY <1>1, <1>2 DEF RestOf
<1>7. HistoryIndexHolds'
  BY <1>3, <1>6 DEF HistoryIndexHolds, RestOf
<1> QED
  BY <1>2, <1>3, <1>5, <1>7 DEF LineInv, LineHolds

LEMMA LineEdited ==
    ASSUME LineInv, ~panicked, EditKey
    PROVE  LineInv'
<1>1. CASE \E ch \in Char : InsertChar(ch)
  BY <1>1, CharInserted
<1>2. CASE DeleteChar
  BY <1>2, CharDeleted
<1>3. CASE MoveKey
  <2>1. PICK offset \in 0..ByteLen(command_input) : MoveCursor(offset)
    BY <1>3 DEF MoveKey, MoveCursor
  <2> QED
    BY <2>1 DEF MoveCursor, LineInv, LineHolds, CursorInText, HistoryIndexHolds, ByteLen
<1>4. Len(command_history) \in Nat /\ history_index \in 0..Len(command_history)
  BY DEF LineInv, LineHolds, HistoryIndexHolds
<1>5. CASE HistoryPrevious
  <2>1. Len(command_history) # 0
    BY <1>5 DEF HistoryPrevious, LineInv
  <2>2. \E index \in 1..Len(command_history) : Recall(index)
    <3> DEFINE index == IF history_index \in {0, 1} THEN Len(command_history)
                        ELSE history_index - 1
    <3>1. index \in 1..Len(command_history)
      BY <1>4, <2>1
    <3>2. Recall(index)
      BY <1>5 DEF HistoryPrevious
    <3> QED
      BY <3>1, <3>2
  <2> QED
    BY <2>2, Recalled
<1>6. CASE HistoryNext
  <2>1. history_index + 1 \in 1..Len(command_history) /\ Recall(history_index + 1)
    BY <1>4, <1>6 DEF HistoryNext
  <2> QED
    BY <2>1, Recalled
<1> QED
  BY <1>1, <1>2, <1>3, <1>5, <1>6 DEF EditKey

LEMMA EmptyLine == 0 \in 0..ByteLen(<< >>)
<1>0. << >> \in Seq(Char)
  OBVIOUS
<1>1. PICK s \in Seq(Char) : s = << >>
  BY <1>0, Zenon
<1>2. ByteLen(s) \in Nat
  BY ByteLenType
<1>3. 0 \in 0..ByteLen(s)
  BY <1>2
<1> QED
  BY <1>1, <1>3

LEMMA LineTaken ==
    ASSUME LineInv, ~panicked, TakeCommand
    PROVE  LineInv'
<1>1. /\ command_input' = << >> /\ cursor_position' = 0 /\ history_index' = 0
      /\ command_history' = Append(command_history, command_input) /\ panicked' = panicked
  BY DEF TakeCommand, AddToHistory
<1>2. << >> \in Seq(Char) /\ command_history' \in Seq(Seq(Char))
  BY <1>1 DEF LineInv
<1>3. 0 \in 0..ByteLen(command_input') /\ 0 \in 0..Len(command_history')
  BY <1>1, <1>2, EmptyLine
<1> QED
  BY <1>1, <1>2, <1>3 DEF LineInv, LineHolds, CursorInText, HistoryIndexHolds, ByteLen

(* What a step does to the line. *)
LEMMA LineSteps ==
    ASSUME ClientNext
    PROVE  \/ ~panicked /\ (EditKey \/ TakeCommand)
           \/ UNCHANGED lineVars
BY DEF ClientNext, TuiStep, TuiRunning, TuiKey, ConnectionKey, HandleConnect, CommandKey, HelpKey,
       HandleCommand, CommandReturns, PressCtrlC, TuiQuits, BatchConnects, BatchRuns,
       BatchEnds, WriteFails, ServerEnd, SessionLost, FarEnd

(***************************************************************************)
(* However the user types, deletes, moves, recalls and enters commands,    *)
(* with characters of any width: the cursor of the command line stays in   *)
(* the text, the client panics only on a text with a wide character, and   *)
(* history_index points at the entry being edited.                         *)
(***************************************************************************)
THEOREM LineAlwaysHolds == ClientSpec => []LineHolds
<1>1. ClientInit => LineInv
  <2>1. << >> \in Seq(Char) /\ << >> \in Seq(Seq(Char)) /\ Len(<< >>) = 0
    OBVIOUS
  <2>2. 0 \in 0..ByteLen(<< >>) /\ 0 \in 0..Len(<< >>)
    BY <2>1, EmptyLine
  <2> QED
    BY <2>1, <2>2 DEF ClientInit, LineInit, LineInv, LineHolds, CursorInText, HistoryIndexHolds
<1>2. LineInv /\ [ClientNext]_clientVars => LineInv'
  <2>1. SUFFICES ASSUME LineInv, ClientNext \/ UNCHANGED clientVars PROVE LineInv'
    OBVIOUS
  <2>2. CASE UNCHANGED lineVars
    BY <2>1, <2>2 DEF LineInv, LineHolds, CursorInText, HistoryIndexHolds, ByteLen, RestOf, lineVars
  <2>3. CASE ~panicked /\ (EditKey \/ TakeCommand)
    BY <2>1, <2>3, LineEdited, LineTaken
  <2>4. UNCHANGED clientVars => UNCHANGED lineVars
    BY DEF clientVars, lineVars
  <2> QED
    BY <2>1, <2>2, <2>3, <2>4, LineSteps
<1>3. LineInv => LineHolds
  BY DEF LineInv
<1> QED
  BY <1>1, <1>2, <1>3, PTL DEF ClientSpec


-----------------------------------------------------------------------------
(* The link.  A command on its way to a live session is the one that was    *)
(* built, an answer on its way back is one the session can give to it, and  *)
(* without a channel there is no command under way.                         *)
Sayable(cmd) == IsSingle(cmd) /\ (cmd.type = "ChangeNamespace" => cmd.path \in Dir)

LinkInv ==
    /\ channel \in {"none", "live", "lost"} /\ server_dir \in Dir
    /\ exchange = [at |-> exchange.at, msg |-> exchange.msg]
    /\ exchange.at \in {"idle", "server", "client", "transfer", "done", "failed"}
    /\ channel = "none" => IsIdle
    /\ exchange.at = "server" /\ channel = "live" =>
          exchange.msg = EncodeCommand(built) /\ Sayable(built)
    /\ exchange.at = "client" =>
          /\ Sayable(built) /\ heard = built
          /\ DecodeOutput(exchange.msg) \in Outputs(built)
    /\ exchange.at = "done" => exchange.msg \in TransferOutput
    /\ exchange.at = "failed" => exchange.msg \in {"InvalidRequest", "FileOperationError"}

LEMMA SayableIsCommand ==
    ASSUME NEW cmd, Sayable(cmd)
    PROVE  DecodeCommand(EncodeCommand(cmd)) = cmd
<1>1. CASE cmd = [type |-> "Ping"]
  BY <1>1, CommandRoundTrip DEF IsCommand, BareCommand
<1>2. CASE cmd.type \in PathRequest /\ cmd = [type |-> cmd.type, path |-> cmd.path]
  <2>1. cmd.type \in PathCommand
    BY <1>2 DEF PathRequest, PathCommand
  <2>2. IsCommand(cmd)
    BY <1>2, <2>1 DEF IsCommand
  <2> QED
    BY <2>2, CommandRoundTrip
<1> QED
  BY <1>1, <1>2 DEF Sayable, IsSingle

(* What a session answers survives the codec. *)
LEMMA FailureKept == IsOutput(Failure) /\ Failure.type = "Error"
<1>1. "Error" \in {"Success", "Error"} /\ Failure = [type |-> "Error", message |-> Text]
  BY DEF Failure
<1> QED
  BY <1>1 DEF IsOutput

LEMMA AnswerKept ==
    ASSUME NEW cmd, Sayable(cmd), NEW output \in Outputs(cmd)
    PROVE  /\ DecodeOutput(EncodeOutput(output)) = output
           /\ output.type = "NamespaceChanged" => output.path \in Dir
<1>1. cmd.type \in {"Ping"} \cup PathRequest
  BY DEF Sayable, IsSingle
<1>2. /\ IsOutput(output) /\ output.type \notin {"ObjectContent", "TransferReady"}
      /\ output.type = "NamespaceChanged" => output.path \in Dir
  <2>1. CASE output = Failure
    BY <2>1, FailureKept
  <2>2. CASE cmd.type = "Ping"
    <3>1. output = [type |-> "Pong"]
      BY <2>2 DEF Outputs
    <3>2. IsOutput(output)
      BY <3>1 DEF IsOutput
    <3> QED
      BY <3>1, <3>2
  <2>3. CASE cmd.type = "ChangeNamespace" /\ output # Failure
    <3>1. output = [type |-> "NamespaceChanged", path |-> cmd.path] /\ cmd.path \in Dir
      BY <2>3 DEF Outputs, Sayable
    <3>2. IsOutput(output)
      BY <3>1 DEF IsOutput
    <3> QED
      BY <3>1, <3>2
  <2>4. CASE cmd.type = "ListNamespace" /\ output # Failure
    <3>1. PICK entries \in {<< >>} \cup {<<e>> : e \in Entry} :
              output = [type |-> "NamespaceListing", entries |-> entries]
      BY <2>4 DEF Outputs
    <3>2. entries \in Seq(Entry)
      <4>1. << >> \in Seq(Entry) /\ \A e \in Entry : <<e>> \in Seq(Entry)
        OBVIOUS
      <4> QED
        BY <3>1, <4>1, Zenon
    <3>3. \A info \in Entry : IsInfo(info)
      BY LinkAssumption DEF IsInfo
    <3>4. IsOutput(output)
      BY <3>1, <3>2, <3>3, Zenon DEF IsOutput
    <3> QED
      BY <3>1, <3>4
  <2>5. CASE cmd.type = "ObjectInfo" /\ output # Failure
    <3>1. PICK e \in Entry : output = [type |-> "ObjectInfo", metadata |-> e]
      BY <2>5 DEF Outputs
    <3>2. IsInfo(e)
      BY LinkAssumption DEF IsInfo
    <3>3. IsOutput(output)
      BY <3>1, <3>2 DEF IsOutput
    <3> QED
      BY <3>1, <3>3
  <2>6. CASE cmd.type \in {"CreateObject", "DeleteObject", "CreateNamespace", "DeleteNamespace"}
             /\ output # Failure
    <3>1. output = [type |-> "Success", message |-> Text]
      BY <2>6 DEF Outputs
    <3>2. IsOutput(output)
      BY <3>1 DEF IsOutput
    <3> QED
      BY <3>1, <3>2
  <2> QED
    BY <1>1, <2>1, <2>2, <2>3, <2>4, <2>5, <2>6 DEF PathRequest
<1>3. ReadBack(output) = output
  BY <1>2 DEF ReadBack
<1> QED
  BY <1>2, <1>3, OutputRoundTrip


(* The operations of the link keep its invariant. *)
LEMMA LinkOpened ==
    ASSUME LinkInv, IsIdle, OpenChannel
    PROVE  LinkInv'
BY LinkAssumption DEF LinkInv, IsIdle, OpenChannel

LEMMA LinkClosed ==
    ASSUME LinkInv, IsIdle, CloseChannel
    PROVE  LinkInv'
BY DEF LinkInv, IsIdle, CloseChannel

LEMMA LinkKept ==
    ASSUME LinkInv, UNCHANGED linkVars
    PROVE  LinkInv'
BY DEF LinkInv, IsIdle, linkVars

LEMMA BuiltIsSayable ==
    ASSUME NEW text, BuildRequest(text).kind = "single"
    PROVE  Sayable(BuildRequest(text).command)
<1>1. CASE text \in DOMAIN Meaning
  <2>1. BuildRequest(text) = Meaning[text]
    BY <1>1 DEF BuildRequest
  <2> QED
    BY <1>1, <2>1, LinkAssumption DEF Sayable
<1>2. CASE text \notin DOMAIN Meaning
  BY <1>2 DEF BuildRequest, Unknown
<1> QED
  BY <1>1, <1>2

LEMMA PlanSent ==
    ASSUME LinkInv, channel # "none", NEW text, SendPlan(BuildRequest(text))
    PROVE  /\ LinkInv' /\ exchange'.at \in {"server", "transfer"}
           /\ channel' = channel /\ server_dir' = server_dir
<1>1. PICK plan : plan = BuildRequest(text)
  OBVIOUS
<1>2. CASE plan.kind = "single"
  <2>1. /\ exchange' = [at |-> "server", msg |-> EncodeCommand(plan.command)]
        /\ built' = plan.command /\ UNCHANGED <<channel, server_dir, heard>>
    BY <1>1, <1>2 DEF SendPlan
  <2>2. Sayable(plan.command)
    BY <1>1, <1>2, BuiltIsSayable
  <2> QED
    BY <2>1, <2>2 DEF LinkInv, IsIdle
<1>3. CASE plan.kind = "transfer"
  <2>1. exchange' = [at |-> "transfer", msg |-> NoDetails]
        /\ UNCHANGED <<channel, server_dir, built, heard>>
    BY <1>1, <1>3 DEF SendPlan, Idle
  <2> QED
    BY <2>1 DEF LinkInv, IsIdle
<1> QED
  BY <1>1, <1>2, <1>3 DEF SendPlan

LEMMA LinkFinished ==
    ASSUME LinkInv, FinishExchange
    PROVE  LinkInv' /\ IsIdle'
BY DEF LinkInv, IsIdle, FinishExchange, Idle

LEMMA SessionAnswered ==
    ASSUME LinkInv, ServerAnswers
    PROVE  /\ LinkInv' /\ exchange'.at = "client" /\ channel' = channel
           /\ server_dir' = IF DecodeOutput(exchange'.msg).type = "NamespaceChanged"
                            THEN DecodeOutput(exchange'.msg).path ELSE server_dir
<1>1. channel = "live" /\ exchange.at = "server" /\ UNCHANGED <<channel, built>>
  BY DEF ServerAnswers
<1>2. exchange.msg = EncodeCommand(built) /\ Sayable(built)
  BY <1>1 DEF LinkInv
<1>3. DecodeCommand(exchange.msg) = built
  BY <1>2, SayableIsCommand
<1>4. PICK output \in Outputs(built) :
          /\ heard' = built
          /\ exchange' = [at |-> "client", msg |-> EncodeOutput(output)]
          /\ server_dir' = IF output.type = "NamespaceChanged" THEN output.path ELSE server_dir
  BY <1>3 DEF ServerAnswers
<1>5. /\ DecodeOutput(EncodeOutput(output)) = output
      /\ output.type = "NamespaceChanged" => output.path \in Dir
  BY <1>2, AnswerKept
<1>6. exchange'.at = "client" /\ DecodeOutput(exchange'.msg) = output
  BY <1>4, <1>5
<1>7. server_dir' \in Dir
  BY <1>4, <1>5 DEF LinkInv
<1>8. Outputs(built)' = Outputs(built) /\ Sayable(built)'
  BY <1>1, <1>2 DEF Outputs, Sayable, IsSingle
<1>9. LinkInv'
  BY <1>1, <1>2, <1>4, <1>6, <1>7, <1>8 DEF LinkInv, IsIdle
<1> QED
  BY <1>1, <1>4, <1>6, <1>9

LEMMA TransferEnded ==
    ASSUME LinkInv, TransferEnds
    PROVE  /\ LinkInv' /\ exchange'.at \in {"done", "failed"}
           /\ channel' = channel /\ server_dir' = server_dir
<1>1. UNCHANGED <<channel, server_dir, built, heard>> /\ channel = "live"
  BY DEF TransferEnds
<1>2. CASE \E output \in TransferOutput : exchange' = [at |-> "done", msg |-> output]
  BY <1>1, <1>2 DEF LinkInv, IsIdle
<1>3. CASE \E error \in {"InvalidRequest", "FileOperationError"} :
               exchange' = [at |-> "failed", msg |-> error]
  BY <1>1, <1>3 DEF LinkInv, IsIdle
<1> QED
  BY <1>2, <1>3 DEF TransferEnds

LEMMA SessionGone ==
    ASSUME LinkInv, LoseSession
    PROVE  LinkInv' /\ channel' = "lost" /\ (exchange' = exchange \/ ~IsIdle')
<1>1. channel' = "lost" /\ UNCHANGED <<server_dir, built, heard>>
  BY DEF LoseSession
<1>2. CASE exchange' = exchange
  BY <1>1, <1>2 DEF LinkInv, IsIdle
<1>3. CASE exchange.at = "client" /\ exchange' = [exchange EXCEPT !.at = "server"]
  <2>1. exchange' = [at |-> "server", msg |-> exchange.msg]
    BY <1>3 DEF LinkInv
  <2> QED
    BY <1>1, <2>1 DEF LinkInv, IsIdle
<1> QED
  BY <1>2, <1>3 DEF LoseSession


-----------------------------------------------------------------------------
(* The terminal client.  The answer to a cd is ahead of the prompt until it *)
(* is shown.                                                                *)
Moved == exchange.at = "client" /\ DecodeOutput(exchange.msg).type = "NamespaceChanged"

PromptInv ==
    /\ current_dir \in Dir /\ stale \in BOOLEAN
    /\ mode = "tui" /\ channel = "live" =>
          /\ Moved => server_dir = DecodeOutput(exchange.msg).path
          /\ ~stale /\ ~Moved => current_dir = server_dir

ScreenInv ==
    /\ connected \in BOOLEAN /\ screen \in {"Connection", "Command", "Help"}
    /\ ScreenMatchesChannel

ClientInv == LinkInv /\ ScreenInv /\ PromptInv

(* What send_command returns. *)
LEMMA ResultIs ==
    ASSUME LinkInv, NEW result \in Results
    PROVE  /\ ~IsIdle /\ channel # "none"
           /\ \/ exchange.at = "client" /\ result = FormatResponse(DecodeOutput(exchange.msg))
              \/ exchange.at = "done" /\ result = FormatResponse(exchange.msg)
              \/ /\ exchange.at = "failed" /\ result = Err(exchange.msg)
                 /\ exchange.msg \in {"InvalidRequest", "FileOperationError"}
              \/ /\ exchange.at \in {"server", "transfer"} /\ channel = "lost"
                 /\ result = Err("NetworkError")
<1>1. exchange.at \in {"idle", "server", "client", "transfer", "done", "failed"}
  BY DEF LinkInv
<1>2. ~IsIdle
  BY DEF Results, IsIdle
<1>3. channel # "none"
  BY <1>2 DEF LinkInv
<1>4. CASE exchange.at = "client"
  BY <1>2, <1>3, <1>4 DEF Results
<1>5. CASE exchange.at = "done"
  BY <1>2, <1>3, <1>5 DEF Results
<1>6. CASE exchange.at = "failed"
  BY <1>2, <1>3, <1>6 DEF Results, LinkInv
<1>7. CASE exchange.at \in {"server", "transfer"}
  <2>1. channel = "lost" /\ result = Err("NetworkError")
    BY <1>7 DEF Results
  <2> QED
    BY <1>2, <1>3, <1>7, <2>1
<1> QED
  BY <1>1, <1>2, <1>4, <1>5, <1>6, <1>7 DEF IsIdle

LEMMA FormattedFields ==
    ASSUME NEW output
    PROVE  LET result == FormatResponse(output)
           IN  /\ result.ok = TRUE /\ result.success = (output.type # "Error")
               /\ result.current_dir = IF output.type = "NamespaceChanged" THEN {output.path} ELSE {}
BY DEF FormatResponse

LEMMA ErrFields ==
    ASSUME NEW error
    PROVE  Err(error).ok = FALSE /\ Err(error).error = error
BY DEF Err

LEMMA TransferNeverMoves ==
    ASSUME NEW output \in TransferOutput
    PROVE  output.type \in {"Success", "Error", "ObjectContent"}
BY DEF TransferOutput, Failure

LEMMA AnswerInDir ==
    ASSUME LinkInv, exchange.at = "client", DecodeOutput(exchange.msg).type = "NamespaceChanged"
    PROVE  DecodeOutput(exchange.msg).path \in Dir
<1>1. Sayable(built) /\ DecodeOutput(exchange.msg) \in Outputs(built)
  BY DEF LinkInv
<1> QED
  BY <1>1, AnswerKept

(* The result of a command is shown. *)
LEMMA ResultShown ==
    ASSUME ClientInv, NEW output, ShowResult(FormatResponse(output)), FinishExchange,
           channel # "none", UNCHANGED mode,
           \/ exchange.at = "client" /\ output = DecodeOutput(exchange.msg)
           \/ exchange.at = "done" /\ output = exchange.msg
    PROVE  ClientInv'
<1>0. LinkInv' /\ IsIdle' /\ UNCHANGED <<channel, server_dir>>
  BY LinkFinished DEF ClientInv, FinishExchange
<1>1. ScreenInv'
  BY <1>0 DEF ClientInv, ScreenInv, ScreenMatchesChannel, ShowResult
<1>2. ~Moved'
  BY <1>0 DEF Moved, IsIdle
<1>3. CASE Moved
  <2>1. output = DecodeOutput(exchange.msg) /\ output.type = "NamespaceChanged"
    BY <1>3 DEF Moved
  <2>2. output.path \in Dir
    BY <1>3, <2>1, AnswerInDir DEF ClientInv, Moved
  <2>3. FormatResponse(output).current_dir = {output.path}
    BY <2>1, FormattedFields
  <2>4. current_dir' = output.path /\ stale' = FALSE
    BY <2>3 DEF ShowResult, ShownDir
  <2>5. mode = "tui" /\ channel = "live" => server_dir = output.path
    BY <1>3, <2>1 DEF ClientInv, PromptInv
  <2>6. PromptInv'
    BY <1>0, <1>2, <2>2, <2>4, <2>5 DEF PromptInv
  <2> QED
    BY <1>0, <1>1, <2>6 DEF ClientInv
<1>4. CASE ~Moved
  <2>1. output.type # "NamespaceChanged"
    <3>1. CASE exchange.at = "client" /\ output = DecodeOutput(exchange.msg)
      BY <1>4, <3>1 DEF Moved
    <3>2. CASE exchange.at = "done" /\ output = exchange.msg
      BY <3>2, TransferNeverMoves DEF ClientInv, LinkInv
    <3> QED
      BY <3>1, <3>2
  <2>2. FormatResponse(output).current_dir = {}
    BY <2>1, FormattedFields
  <2>3. current_dir' = current_dir
    BY <2>2 DEF ShowResult, ShownDir
  <2>4. stale' = (stale /\ TRUE)
    BY <2>2 DEF ShowResult
  <2>5. stale' = stale
    BY <2>4 DEF ClientInv, PromptInv
  <2>6. PromptInv'
    BY <1>0, <1>2, <1>4, <2>3, <2>5 DEF ClientInv, PromptInv
  <2> QED
    BY <1>0, <1>1, <2>6 DEF ClientInv
<1> QED
  BY <1>3, <1>4


LEMMA ErrorShown ==
    ASSUME ClientInv, NEW error, error # "ConnectionClosed", ShowError(error), FinishExchange,
           exchange.at # "client", UNCHANGED mode
    PROVE  ClientInv'
<1>0. LinkInv' /\ IsIdle' /\ UNCHANGED <<channel, server_dir>>
  BY LinkFinished DEF ClientInv, FinishExchange
<1>1. ~Moved /\ ~Moved'
  BY <1>0 DEF Moved, IsIdle
<1>2. UNCHANGED <<current_dir, stale, screen>>
  BY DEF ShowError
<1>3. connected' = (connected /\ TRUE)
  BY DEF ShowError
<1>4. connected' = connected
  BY <1>3 DEF ClientInv, ScreenInv
<1>5. ScreenInv'
  BY <1>0, <1>2, <1>4 DEF ClientInv, ScreenInv, ScreenMatchesChannel
<1>6. PromptInv'
  BY <1>0, <1>1, <1>2 DEF ClientInv, PromptInv
<1> QED
  BY <1>0, <1>5, <1>6 DEF ClientInv

LEMMA CommandReturned ==
    ASSUME ClientInv, CommandReturns, UNCHANGED mode
    PROVE  ClientInv'
<1>1. FinishExchange
  BY DEF CommandReturns
<1>2. PICK result \in Results :
          \/ result.ok /\ ShowResult(result)
          \/ ~result.ok /\ ShowError(result.error)
  BY DEF CommandReturns
<1>3. channel # "none"
  BY ResultIs DEF ClientInv
<1>4. CASE exchange.at = "client" /\ result = FormatResponse(DecodeOutput(exchange.msg))
  <2>1. ShowResult(FormatResponse(DecodeOutput(exchange.msg)))
    BY <1>2, <1>4, FormattedFields
  <2> QED
    BY <1>1, <1>3, <1>4, <2>1, ResultShown
<1>5. CASE exchange.at = "done" /\ result = FormatResponse(exchange.msg)
  <2>1. ShowResult(FormatResponse(exchange.msg))
    BY <1>2, <1>5, FormattedFields
  <2> QED
    BY <1>1, <1>3, <1>5, <2>1, ResultShown
<1>6. CASE \E error \in {"InvalidRequest", "FileOperationError", "NetworkError"} :
               exchange.at # "client" /\ result = Err(error)
  <2>1. PICK error \in {"InvalidRequest", "FileOperationError", "NetworkError"} :
               exchange.at # "client" /\ result = Err(error)
    BY <1>6
  <2>2. ShowError(error)
    BY <1>2, <2>1, ErrFields
  <2>3. error # "ConnectionClosed"
    BY <2>1
  <2> QED
    BY <1>1, <2>1, <2>2, <2>3, ErrorShown
<1> QED
  BY <1>4, <1>5, <1>6, ResultIs DEF ClientInv

LEMMA Connected ==
    ASSUME ClientInv, HandleConnect, UNCHANGED mode, mode = "tui"
    PROVE  ClientInv'
<1>1. IsIdle /\ screen = "Connection" /\ UNCHANGED current_dir
  BY DEF HandleConnect, KeyReady
<1>2. channel = "none" /\ connected = FALSE
  BY <1>1 DEF ClientInv, ScreenInv, ScreenMatchesChannel
<1>3. CASE UNCHANGED <<screen, connected, stale>> /\ UNCHANGED linkVars
  <2>1. LinkInv'
    BY <1>3, LinkKept DEF ClientInv
  <2> QED
    BY <1>1, <1>3, <2>1 DEF ClientInv, ScreenInv, ScreenMatchesChannel, PromptInv, Moved, linkVars
<1>4. CASE ConnectFails
  <2>1. UNCHANGED <<screen, connected, stale>> /\ UNCHANGED linkVars
    BY <1>2, <1>4 DEF ConnectFails
  <2> QED
    BY <1>3, <2>1
<1>5. CASE ConnectSucceeds
  <2>1. LinkInv'
    BY <1>1, <1>5, LinkOpened DEF ClientInv, ConnectSucceeds
  <2>2. /\ channel' = "live" /\ server_dir' = Root /\ exchange' = exchange
        /\ connected' = TRUE /\ screen' = "Command" /\ stale' = (current_dir # Root)
    BY <1>5 DEF ConnectSucceeds, OpenChannel
  <2>3. ScreenInv'
    BY <2>2 DEF ScreenInv, ScreenMatchesChannel
  <2>4. ~Moved'
    BY <1>1, <2>2 DEF Moved, IsIdle
  <2>5. stale' \in BOOLEAN /\ (~stale' => current_dir = Root)
    BY <2>2
  <2>6. PromptInv'
    BY <1>1, <2>2, <2>4, <2>5 DEF ClientInv, PromptInv
  <2> QED
    BY <2>1, <2>3, <2>6 DEF ClientInv
<1> QED
  BY <1>3, <1>4, <1>5 DEF HandleConnect

LEMMA CommandHandled ==
    ASSUME ClientInv, HandleCommand, UNCHANGED mode, mode = "tui"
    PROVE  ClientInv'
<1>1. IsIdle /\ screen = "Command" /\ UNCHANGED <<current_dir, stale>>
  BY DEF HandleCommand, KeyReady
<1>2. channel # "none" /\ connected = TRUE /\ ~Moved
  BY <1>1 DEF ClientInv, ScreenInv, ScreenMatchesChannel, Moved, IsIdle
<1>3. CASE Exit
  <2>1. LinkInv'
    BY <1>1, <1>3, LinkClosed DEF ClientInv, Exit
  <2>2. channel' = "none" /\ connected' = FALSE /\ screen' = "Connection"
    BY <1>3 DEF Exit, CloseChannel
  <2> QED
    BY <1>1, <2>1, <2>2 DEF ClientInv, ScreenInv, ScreenMatchesChannel, PromptInv
<1>4. CASE screen' \in {"Command", "Help"} /\ UNCHANGED connected /\ UNCHANGED linkVars
  <2>1. LinkInv'
    BY <1>4, LinkKept DEF ClientInv
  <2> QED
    BY <1>1, <1>2, <1>4, <2>1
       DEF ClientInv, ScreenInv, ScreenMatchesChannel, PromptInv, Moved, linkVars
<1>5. CASE SendPlan(BuildRequest(command_input)) /\ UNCHANGED <<screen, connected>>
  <2>1. /\ LinkInv' /\ exchange'.at \in {"server", "transfer"}
        /\ channel' = channel /\ server_dir' = server_dir
    BY <1>2, <1>5, PlanSent DEF ClientInv
  <2>2. ~Moved'
    BY <2>1 DEF Moved
  <2> QED
    BY <1>1, <1>2, <1>5, <2>1, <2>2 DEF ClientInv, ScreenInv, ScreenMatchesChannel, PromptInv
<1> QED
  BY <1>1, <1>3, <1>4, <1>5 DEF HandleCommand

LEMMA TuiActs ==
    ASSUME ClientInv, TuiStep
    PROVE  ClientInv'
<1>1. mode = "tui" /\ UNCHANGED mode
  BY DEF TuiStep, TuiRunning
<1>2. CASE ConnectionKey \/ PressCtrlC
  <2>1. UNCHANGED <<screen, connected, current_dir, stale>> /\ UNCHANGED linkVars
    BY <1>2 DEF ConnectionKey, PressCtrlC, appVars
  <2>2. LinkInv'
    BY <2>1, LinkKept DEF ClientInv
  <2> QED
    BY <1>1, <2>1, <2>2 DEF ClientInv, ScreenInv, ScreenMatchesChannel, PromptInv, Moved, linkVars
<1>3. CASE CommandKey \/ HelpKey
  <2>1. /\ screen \in {"Command", "Help"} /\ screen' \in {"Command", "Help"}
        /\ UNCHANGED <<connected, current_dir, stale>> /\ UNCHANGED linkVars
    BY <1>3 DEF CommandKey, HelpKey
  <2>2. LinkInv'
    BY <2>1, LinkKept DEF ClientInv
  <2> QED
    BY <1>1, <2>1, <2>2 DEF ClientInv, ScreenInv, ScreenMatchesChannel, PromptInv, Moved, linkVars
<1> QED
  BY <1>1, <1>2, <1>3, CommandReturned, Connected, CommandHandled DEF TuiStep, TuiKey

(* Without the terminal, only the link matters. *)
LEMMA NoTerminal ==
    ASSUME ClientInv, LinkInv', mode' # "tui", UNCHANGED tuiVars
    PROVE  ClientInv'
BY DEF ClientInv, ScreenInv, ScreenMatchesChannel, PromptInv, tuiVars

LEMMA BatchActs ==
    ASSUME ClientInv, TuiQuits \/ BatchConnects \/ BatchRuns \/ BatchEnds \/ WriteFails
    PROVE  ClientInv'
<1>0. LinkInv
  BY DEF ClientInv
<1>1. CASE TuiQuits
  <2>1. LinkInv'
    BY <1>0, <1>1, LinkClosed DEF TuiQuits
  <2> QED
    BY <1>1, <2>1, NoTerminal DEF TuiQuits
<1>2. CASE BatchConnects
  <2>1. IsIdle
    BY <1>0, <1>2 DEF BatchConnects, LinkInv
  <2>2. LinkInv'
    BY <1>0, <1>2, <2>1, LinkOpened, LinkKept DEF BatchConnects
  <2>3. mode' # "tui" /\ UNCHANGED tuiVars
    BY <1>2 DEF BatchConnects
  <2> QED
    BY <2>2, <2>3, NoTerminal
<1>3. CASE BatchRuns
  <2>1. channel # "none" /\ mode' # "tui" /\ UNCHANGED tuiVars
    BY <1>3 DEF BatchRuns
  <2>2. LinkInv'
    <3>1. CASE SendPlan(BuildRequest(Head(commands)))
      BY <1>0, <2>1, <3>1, PlanSent
    <3>2. CASE UNCHANGED linkVars
      BY <1>0, <3>2, LinkKept
    <3>3. CASE FinishExchange
      BY <1>0, <3>3, LinkFinished
    <3> QED
      BY <1>3, <3>1, <3>2, <3>3 DEF BatchRuns, BatchStep, SendNext, CommandDone
  <2> QED
    BY <2>1, <2>2, NoTerminal
<1>4. CASE BatchEnds
  <2>1. LinkInv'
    BY <1>0, <1>4, LinkClosed DEF BatchEnds
  <2> QED
    BY <1>4, <2>1, NoTerminal DEF BatchEnds
<1>5. CASE WriteFails
  <2>1. LinkInv'
    BY <1>0, <1>5 DEF WriteFails, LinkInv, IsIdle, Idle
  <2> QED
    BY <1>5, <2>1, NoTerminal DEF WriteFails
<1> QED
  BY <1>1, <1>2, <1>3, <1>4, <1>5

LEMMA FarEndActs ==
    ASSUME ClientInv, ServerEnd \/ SessionLost
    PROVE  ClientInv'
<1>1. UNCHANGED tuiVars /\ UNCHANGED mode
  BY DEF ServerEnd, SessionLost, FarEnd
<1>2. UNCHANGED <<screen, connected, current_dir, stale>>
  BY <1>1 DEF tuiVars
<1>3. CASE ServerAnswers
  <2>1. /\ LinkInv' /\ exchange'.at = "client" /\ channel' = channel
        /\ server_dir' = IF DecodeOutput(exchange'.msg).type = "NamespaceChanged"
                         THEN DecodeOutput(exchange'.msg).path ELSE server_dir
    BY <1>3, SessionAnswered DEF ClientInv
  <2>2. ~Moved
    BY <1>3 DEF Moved, ServerAnswers
  <2>3. Moved' <=> DecodeOutput(exchange'.msg).type = "NamespaceChanged"
    BY <2>1 DEF Moved
  <2>4. PromptInv'
    BY <1>1, <1>2, <2>1, <2>2, <2>3 DEF ClientInv, PromptInv
  <2> QED
    BY <1>1, <1>2, <2>1, <2>4 DEF ClientInv, ScreenInv, ScreenMatchesChannel
<1>4. CASE TransferEnds
  <2>1. /\ LinkInv' /\ exchange'.at \in {"done", "failed"}
        /\ channel' = channel /\ server_dir' = server_dir
    BY <1>4, TransferEnded DEF ClientInv
  <2>2. ~Moved /\ ~Moved'
    BY <1>4, <2>1 DEF Moved, TransferEnds
  <2> QED
    BY <1>1, <1>2, <2>1, <2>2 DEF ClientInv, ScreenInv, ScreenMatchesChannel, PromptInv
<1>5. CASE LoseSession
  <2>1. LinkInv' /\ channel' = "lost" /\ channel = "live"
    BY <1>5, SessionGone DEF ClientInv, LoseSession
  <2> QED
    BY <1>1, <1>2, <2>1 DEF ClientInv, ScreenInv, ScreenMatchesChannel, PromptInv
<1> QED
  BY <1>3, <1>4, <1>5 DEF ServerEnd, SessionLost, FarEnd, ServerStep

(* The inductive invariant of the client: the link carries what was said,   *)
(* the screen follows the channel, and the prompt follows the answers.      *)
THEOREM ClientCorrect == ClientSpec => []ClientInv
<1>1. ClientInit => ClientInv
  <2>1. SUFFICES ASSUME ClientInit PROVE ClientInv
    OBVIOUS
  <2>2. LinkInv
    BY <2>1, LinkAssumption DEF ClientInit, LinkInit, LinkInv, IsIdle, Idle
  <2>3. ScreenInv
    BY <2>1 DEF ClientInit, LinkInit, AppInit, ScreenInv, ScreenMatchesChannel
  <2>4. PromptInv
    BY <2>1, LinkAssumption DEF ClientInit, LinkInit, AppInit, PromptInv
  <2> QED
    BY <2>2, <2>3, <2>4 DEF ClientInv
<1>2. ClientInv /\ [ClientNext]_clientVars => ClientInv'
  <2>1. SUFFICES ASSUME ClientInv, ClientNext \/ UNCHANGED clientVars PROVE ClientInv'
    OBVIOUS
  <2>2. CASE UNCHANGED clientVars
    <3>1. UNCHANGED linkVars /\ UNCHANGED <<screen, connected, current_dir, stale, mode>>
      BY <2>2 DEF clientVars, linkVars
    <3>2. LinkInv'
      BY <2>1, <3>1, LinkKept DEF ClientInv
    <3> QED
      BY <2>1, <3>1, <3>2
         DEF ClientInv, ScreenInv, ScreenMatchesChannel, PromptInv, Moved, linkVars
  <2> QED
    BY <2>1, <2>2, TuiActs, BatchActs, FarEndActs DEF ClientNext
<1> QED
  BY <1>1, <1>2, PTL DEF ClientSpec

(***************************************************************************)
(* The terminal client shows the connection screen, and says that it is    *)
(* disconnected, exactly while it has no channel, in every sequence of     *)
(* keys, answers, errors and lost sessions.                                *)
(***************************************************************************)
THEOREM ScreenFollowsChannel == ClientSpec => []ScreenMatchesChannel
<1>1. ClientInv => ScreenMatchesChannel
  BY DEF ClientInv, ScreenInv
<1> QED
  BY <1>1, ClientCorrect, PTL

(***************************************************************************)
(* The prompt shows the directory the session is in on the server, but in  *)
(* a session opened under another prompt and not moved since.              *)
(***************************************************************************)
THEOREM PromptAlwaysTrue == ClientSpec => []PromptTrue
<1>1. ClientInv => PromptTrue
  <2>1. IsIdle => ~Moved
    BY DEF IsIdle, Moved
  <2> QED
    BY <2>1 DEF ClientInv, PromptInv, PromptTrue
<1> QED
  BY <1>1, ClientCorrect, PTL

(***************************************************************************)
(* The server hears the command the frontend built and the frontend hears  *)
(* an output the server can give to it, for every path, listing and        *)
(* metadata.                                                               *)
(***************************************************************************)
THEOREM AlwaysHeardAsSaid == ClientSpec => []HeardAsSaid
<1>1. ClientInv => HeardAsSaid
  BY DEF ClientInv, LinkInv, HeardAsSaid
<1> QED
  BY <1>1, ClientCorrect, PTL


-----------------------------------------------------------------------------
(* Counting successes. *)
LEMMA IndexSet ==
    ASSUME NEW n \in Nat
    PROVE  IsFiniteSet(1..n) /\ Cardinality(1..n) = n
<1>1. 1 \in Int /\ n \in Int
  OBVIOUS
<1>2. IsFiniteSet(1..n) /\ Cardinality(1..n) = IF 1 > n THEN 0 ELSE n - 1 + 1
  BY <1>1, FS_Interval
<1>3. (IF 1 > n THEN 0 ELSE n - 1 + 1) = n
  OBVIOUS
<1> QED
  BY <1>2, <1>3

LEMMA CountOf ==
    ASSUME NEW flags \in Seq(BOOLEAN)
    PROVE  /\ IsFiniteSet(Trues(flags)) /\ Trues(flags) \in SUBSET (1..Len(flags))
           /\ Successes(flags) \in Nat /\ Successes(flags) <= Len(flags)
<1>1. Trues(flags) \in SUBSET (1..Len(flags))
  BY DEF Trues
<1>2. IsFiniteSet(1..Len(flags)) /\ Cardinality(1..Len(flags)) = Len(flags)
  <2>1. Len(flags) \in Nat
    OBVIOUS
  <2> QED
    BY <2>1, IndexSet
<1>3. IsFiniteSet(Trues(flags)) /\ Cardinality(Trues(flags)) <= Cardinality(1..Len(flags))
  BY <1>1, <1>2, FS_Subset
<1>4. Cardinality(Trues(flags)) \in Nat
  BY <1>3, FS_CardinalityType
<1> QED
  BY <1>1, <1>2, <1>3, <1>4 DEF Successes

LEMMA CountOfMore ==
    ASSUME NEW flags \in Seq(BOOLEAN), NEW flag \in BOOLEAN
    PROVE  /\ Append(flags, flag) \in Seq(BOOLEAN)
           /\ Len(Append(flags, flag)) = Len(flags) + 1
           /\ Successes(Append(flags, flag)) = Successes(flags) + (IF flag THEN 1 ELSE 0)
           /\ Last(Append(flags, flag)) = flag /\ Append(flags, flag) # << >>
<1>1. PICK more : more = Append(flags, flag)
  OBVIOUS
<1>2. /\ more \in Seq(BOOLEAN) /\ Len(more) = Len(flags) + 1 /\ more[Len(flags) + 1] = flag
      /\ \A i \in 1..Len(flags) : more[i] = flags[i]
  BY <1>1
<1>3. DOMAIN more = 1..(Len(flags) + 1) /\ DOMAIN flags = 1..Len(flags) /\ Len(flags) \in Nat
  BY <1>2
<1>4. Len(flags) + 1 \notin Trues(flags)
  BY <1>3 DEF Trues
<1>5. more \in Seq(BOOLEAN) /\ Len(more) = Len(flags) + 1 /\ Last(more) = flag /\ more # << >>
  <2>1. Last(more) = flag
    BY <1>2 DEF Last
  <2>2. more # << >>
    BY <1>2, <1>3
  <2> QED
    BY <1>2, <2>1, <2>2
<1>6. CASE flag = TRUE
  <2>1. Trues(more) = Trues(flags) \cup {Len(flags) + 1}
    <3>1. ASSUME NEW i
          PROVE  i \in Trues(more) <=> i \in Trues(flags) \cup {Len(flags) + 1}
      <4>1. CASE i \in 1..Len(flags)
        <5>1. more[i] = flags[i] /\ i \in DOMAIN more /\ i # Len(flags) + 1
          BY <1>2, <1>3, <4>1
        <5> QED
          BY <1>3, <4>1, <5>1 DEF Trues
      <4>2. CASE i = Len(flags) + 1
        <5>1. i \in DOMAIN more
          BY <1>3, <4>2
        <5>2. more[i] = TRUE
          BY <1>2, <1>6, <4>2, Zenon
        <5> QED
          BY <4>2, <5>1, <5>2 DEF Trues
      <4>3. CASE i \notin 1..(Len(flags) + 1)
        <5>1. i \notin 1..Len(flags) /\ i # Len(flags) + 1
          BY <1>3, <4>3
        <5> QED
          BY <1>3, <4>3, <5>1 DEF Trues
      <4>4. i \in 1..(Len(flags) + 1) => i \in 1..Len(flags) \/ i = Len(flags) + 1
        BY <1>3
      <4> QED
        BY <4>1, <4>2, <4>3, <4>4
    <3> QED
      BY <3>1, Zenon
  <2>2. Cardinality(Trues(more)) = Cardinality(Trues(flags)) + 1
    BY <1>4, <2>1, CountOf, FS_AddElement
  <2>3. Successes(more) = Successes(flags) + 1
    BY <2>2 DEF Successes
  <2> QED
    BY <1>1, <1>6, <1>5, <2>3
<1>7. CASE flag = FALSE
  <2>1. Trues(more) = Trues(flags)
    BY <1>2, <1>3, <1>7 DEF Trues
  <2>2. Successes(more) = Successes(flags) + 0
    BY <2>1, CountOf DEF Successes
  <2> QED
    BY <1>1, <1>7, <1>5, <2>2
<1> QED
  BY <1>6, <1>7

LEMMA AllSucceeded ==
    ASSUME NEW flags \in Seq(BOOLEAN), Successes(flags) = Len(flags)
    PROVE  flags = [i \in 1..Len(flags) |-> TRUE]
<1>1. Len(flags) \in Nat /\ DOMAIN flags = 1..Len(flags)
  OBVIOUS
<1>2. IsFiniteSet(1..Len(flags)) /\ Cardinality(1..Len(flags)) = Len(flags)
  BY <1>1, IndexSet
<1>3. Trues(flags) \in SUBSET (1..Len(flags))
  BY CountOf
<1>4. Cardinality(1..Len(flags)) = Cardinality(Trues(flags))
  BY <1>2 DEF Successes
<1>5. Trues(flags) = 1..Len(flags)
  BY <1>2, <1>3, <1>4, FS_Subset
<1>6. \A i \in 1..Len(flags) : flags[i] = TRUE
  BY <1>1, <1>5 DEF Trues
<1> QED
  BY <1>1, <1>6


-----------------------------------------------------------------------------
(* A batch.  Every command is left or has a result, and failed counts the   *)
(* results that are no success.  The server ran as many commands with       *)
(* success as were reported, and the one whose answer is there; only a      *)
(* session that is lost after it ran a command leaves that open, and then   *)
(* the run ends.  As long as nothing failed, the results are the answers.   *)
Texts == UNION {{lines[i] : i \in DOMAIN lines} : lines \in Lines \cup {<< >>}}

BatchTypes ==
    /\ commands \in Seq(Texts) /\ written \in Seq(BOOLEAN) /\ served \in Seq(BOOLEAN)
    /\ aborted \in BOOLEAN
    /\ total = Len(written) + Len(commands)
    /\ failed = Len(written) - Successes(written)
    /\ aborted => written # << >> /\ Last(written) = FALSE

AnswerLost == exchange.at = "server" /\ channel = "lost"
HasAnswer == exchange.at \in {"client", "done", "failed"}
Pending == IF Succeeded THEN 1 ELSE 0

Untouched == exit = "none" /\ aborted = FALSE /\ written = << >> /\ served = << >>

Progressing ==
    /\ exit = "none"
    /\ ~IsIdle => commands # << >> /\ aborted = FALSE
    /\ Successes(served) \in Successes(written)..(Successes(written) + 1)
    /\ ~aborted /\ ~AnswerLost => Successes(served) = Successes(written) + Pending
    /\ failed = 0 /\ ~AnswerLost =>
          served = IF HasAnswer THEN Append(written, Succeeded) ELSE written

Summed ==
    /\ Successes(served) \in Successes(written)..(Successes(written) + 1)
    /\ exit \in {"success", "failure"} /\ ~aborted =>
          Len(written) = total /\ Successes(written) = Successes(served)
    /\ exit = "success" => served = [i \in 1..total |-> TRUE]

BatchInv ==
    /\ BatchTypes /\ mode \in {"tui", "batch", "ended"}
    /\ mode = "tui" => Untouched
    /\ mode = "batch" => Progressing
    /\ mode = "ended" => Summed

LEMMA SucceededIs ==
    /\ Succeeded \in BOOLEAN
    /\ exchange.at \notin {"client", "done"} => Succeeded = FALSE
    /\ exchange.at = "client" => Succeeded = (DecodeOutput(exchange.msg).type # "Error")
    /\ exchange.at = "done" => Succeeded = (exchange.msg.type # "Error")
BY DEF Succeeded

LEMMA Recorded ==
    ASSUME BatchTypes, commands # << >>, NEW success \in BOOLEAN, NEW abort \in BOOLEAN,
           abort => success = FALSE, Record(success, abort), UNCHANGED served
    PROVE  /\ BatchTypes' /\ aborted' = abort
           /\ written' = Append(written, success)
           /\ Successes(written') = Successes(written) + (IF success THEN 1 ELSE 0)
           /\ failed' = 0 => success = TRUE /\ failed = 0
<1>1. /\ failed' = (IF success THEN failed ELSE failed + 1) /\ written' = Append(written, success)
      /\ aborted' = abort /\ commands' = Tail(commands) /\ total' = total
  BY DEF Record
<1>2. /\ written \in Seq(BOOLEAN) /\ commands \in Seq(Texts)
      /\ total = Len(written) + Len(commands) /\ failed = Len(written) - Successes(written)
  BY DEF BatchTypes
<1>3. /\ written' \in Seq(BOOLEAN) /\ Len(written') = Len(written) + 1
      /\ Successes(written') = Successes(written) + (IF success THEN 1 ELSE 0)
      /\ Last(written') = success /\ written' # << >>
  BY <1>1, <1>2, CountOfMore
<1>4. /\ Successes(written) \in Nat /\ Len(written) \in Nat /\ Len(commands) \in Nat \ {0}
      /\ Successes(written) <= Len(written)
  BY <1>2, CountOf
<1>5. commands' \in Seq(Texts) /\ Len(commands') = Len(commands) - 1
  BY <1>1, <1>2
<1>6. total' = Len(written') + Len(commands')
  BY <1>1, <1>2, <1>3, <1>4, <1>5
<1>7. failed' = Len(written') - Successes(written') /\ (failed' = 0 => success = TRUE /\ failed = 0)
  <2>1. CASE success = TRUE
    BY <1>1, <1>2, <1>3, <1>4, <2>1
  <2>2. CASE success = FALSE
    BY <1>1, <1>2, <1>3, <1>4, <2>2
  <2> QED
    BY <2>1, <2>2
<1>8. aborted' => written' # << >> /\ Last(written') = FALSE
  BY <1>1, <1>3
<1>9. Successes(written)' = Successes(written') /\ Last(written)' = Last(written')
  BY DEF Successes, Trues, Last
<1>10. BatchTypes'
  BY <1>1, <1>3, <1>5, <1>6, <1>7, <1>8, <1>9 DEF BatchTypes
<1> QED
  BY <1>1, <1>3, <1>7, <1>10


(* The counters, while nothing is recorded. *)
LEMMA CountsKept ==
    ASSUME BatchTypes, UNCHANGED batchVars, UNCHANGED served
    PROVE  /\ BatchTypes' /\ UNCHANGED <<commands, total, failed, aborted, written>>
           /\ Successes(written)' = Successes(written) /\ Successes(served)' = Successes(served)
           /\ Successes(written) \in Nat /\ Successes(served) \in Nat
BY CountOf DEF BatchTypes, batchVars, Successes, Trues, Last

LEMMA BatchOpened ==
    ASSUME LinkInv, BatchInv, BatchConnects
    PROVE  BatchInv'
<1>1. /\ BatchTypes' /\ UNCHANGED <<commands, total, failed, aborted, written>>
      /\ Successes(written)' = Successes(written) /\ Successes(served)' = Successes(served)
      /\ Successes(written) \in Nat /\ Successes(served) \in Nat
  BY CountsKept DEF BatchInv, BatchConnects
<1>2. mode = "batch" /\ channel = "none" /\ Progressing /\ UNCHANGED served
  BY DEF BatchInv, BatchConnects
<1>3. exchange.at = "idle" /\ exchange' = exchange
  BY <1>2 DEF LinkInv, IsIdle, BatchConnects, OpenChannel, linkVars
<1>4. Succeeded = FALSE /\ Succeeded' = FALSE /\ ~HasAnswer /\ ~HasAnswer'
      /\ ~AnswerLost /\ ~AnswerLost' /\ IsIdle'
  BY <1>3 DEF Succeeded, HasAnswer, AnswerLost, IsIdle
<1>5. Pending = 0 /\ Pending' = 0
  BY <1>4 DEF Pending
<1>6. CASE mode' = "ended" /\ exit' = "error"
  <2>1. Summed'
    BY <1>1, <1>2, <1>6 DEF Summed, Progressing
  <2> QED
    BY <1>1, <1>6, <2>1 DEF BatchInv
<1>7. CASE UNCHANGED <<mode, exit>>
  <2>1. Progressing'
    BY <1>1, <1>2, <1>4, <1>5, <1>7 DEF Progressing
  <2> QED
    BY <1>1, <1>2, <1>7, <2>1 DEF BatchInv
<1> QED
  BY <1>6, <1>7 DEF BatchConnects

LEMMA BatchSent ==
    ASSUME LinkInv, BatchInv, mode = "batch", channel # "none", Running, IsIdle,
           SendPlan(BuildRequest(Head(commands))), UNCHANGED batchVars,
           UNCHANGED <<mode, exit, served>>
    PROVE  BatchInv'
<1>1. /\ BatchTypes' /\ UNCHANGED <<commands, total, failed, aborted, written>>
      /\ Successes(written)' = Successes(written) /\ Successes(served)' = Successes(served)
      /\ Successes(written) \in Nat /\ Successes(served) \in Nat
  BY CountsKept DEF BatchInv
<1>2. Progressing /\ aborted = FALSE /\ commands # << >>
  BY DEF BatchInv, BatchTypes, Running
<1>3. exchange.at = "idle" /\ exchange'.at \in {"server", "transfer"}
  BY PlanSent DEF IsIdle
<1>4. Succeeded = FALSE /\ Succeeded' = FALSE /\ ~HasAnswer /\ ~HasAnswer' /\ ~AnswerLost
  BY <1>3 DEF Succeeded, HasAnswer, AnswerLost
<1>5. Pending = 0 /\ Pending' = 0
  BY <1>4 DEF Pending
<1>6. Progressing'
  BY <1>1, <1>2, <1>4, <1>5 DEF Progressing
<1> QED
  BY <1>1, <1>6 DEF BatchInv

LEMMA BatchRefused ==
    ASSUME LinkInv, BatchInv, mode = "batch", Running, IsIdle, Record(FALSE, FALSE),
           UNCHANGED linkVars, UNCHANGED <<mode, exit, served>>
    PROVE  BatchInv'
<1>1. BatchTypes /\ Progressing /\ aborted = FALSE /\ commands # << >>
  BY DEF BatchInv, BatchTypes, Running
<1>2. /\ BatchTypes' /\ aborted' = FALSE
      /\ Successes(written') = Successes(written) + 0 /\ failed' # 0
  BY <1>1, Recorded
<1>3. Successes(written) \in Nat /\ Successes(served) \in Nat
  BY <1>1, CountOf DEF BatchTypes
<1>4. /\ Successes(written)' = Successes(written) /\ Successes(served)' = Successes(served)
  BY <1>2, <1>3 DEF Successes, Trues
<1>5. exchange.at = "idle" /\ exchange' = exchange
  BY DEF IsIdle, linkVars
<1>6. Succeeded = FALSE /\ Succeeded' = FALSE /\ ~HasAnswer /\ ~HasAnswer' /\ ~AnswerLost /\ IsIdle'
  BY <1>5 DEF Succeeded, HasAnswer, AnswerLost, IsIdle
<1>7. Pending = 0 /\ Pending' = 0
  BY <1>6 DEF Pending
<1>8. Progressing'
  BY <1>1, <1>2, <1>3, <1>4, <1>6, <1>7 DEF Progressing
<1> QED
  BY <1>2, <1>8 DEF BatchInv

LEMMA BatchReported ==
    ASSUME LinkInv, BatchInv, mode = "batch", CommandDone, UNCHANGED <<mode, exit, served>>
    PROVE  BatchInv'
<1>1. FinishExchange
  BY DEF CommandDone
<1>2. PICK result \in Results :
          \/ result.ok /\ Record(result.success, FALSE)
          \/ ~result.ok /\ Record(FALSE, ShouldAbort(result.error))
  BY DEF CommandDone
<1>3. ~IsIdle
  BY <1>2, ResultIs
<1>4. BatchTypes /\ Progressing /\ aborted = FALSE /\ commands # << >>
  BY <1>3 DEF BatchInv, Progressing
<1>5. Successes(written) \in Nat /\ Successes(served) \in Nat
  BY <1>4, CountOf DEF BatchTypes
<1>6. IsIdle' /\ Succeeded' = FALSE /\ ~HasAnswer' /\ ~AnswerLost' /\ Pending' = 0
  BY <1>1 DEF FinishExchange, Idle, IsIdle, Succeeded, HasAnswer, AnswerLost, Pending
<1>7. Successes(written)' = Successes(written') /\ Successes(served)' = Successes(served)
  BY DEF Successes, Trues
<1>8. CASE exchange.at \in {"client", "done"}
  <2>1. Record(Succeeded, FALSE)
    <3>1. CASE exchange.at = "client"
      <4>1. PICK output : output = DecodeOutput(exchange.msg)
        OBVIOUS
      <4>2. result = FormatResponse(output) /\ Succeeded = (output.type # "Error")
        BY <3>1, <4>1, ResultIs, SucceededIs
      <4> QED
        BY <1>2, <4>2, FormattedFields
    <3>2. CASE exchange.at = "done"
      <4>1. result = FormatResponse(exchange.msg) /\ Succeeded = (exchange.msg.type # "Error")
        BY <3>2, ResultIs, SucceededIs
      <4> QED
        BY <1>2, <4>1, FormattedFields
    <3> QED
      BY <1>8, <3>1, <3>2
  <2>2. /\ BatchTypes' /\ aborted' = FALSE /\ written' = Append(written, Succeeded)
        /\ Successes(written') = Successes(written) + (IF Succeeded THEN 1 ELSE 0)
        /\ failed' = 0 => failed = 0
    BY <1>4, <2>1, Recorded, SucceededIs
  <2>3. ~AnswerLost /\ HasAnswer
    BY <1>8 DEF AnswerLost, HasAnswer
  <2>4. Successes(served) = Successes(written')
    BY <1>4, <2>2, <2>3 DEF Progressing, Pending
  <2>5. failed = 0 => served = written'
    BY <1>4, <2>2, <2>3 DEF Progressing
  <2>6. Progressing'
    BY <1>4, <1>5, <1>6, <1>7, <2>2, <2>4, <2>5 DEF Progressing
  <2> QED
    BY <2>2, <2>6 DEF BatchInv
<1>9. CASE exchange.at = "failed"
  <2>1. Record(FALSE, FALSE)
    <3>1. PICK error \in {"InvalidRequest", "FileOperationError"} : result = Err(error)
      BY <1>9, ResultIs
    <3>2. ShouldAbort(error) = FALSE
      BY <3>1 DEF ShouldAbort
    <3> QED
      BY <1>2, <3>1, <3>2, ErrFields
  <2>2. BatchTypes' /\ aborted' = FALSE /\ Successes(written') = Successes(written) + 0
        /\ failed' # 0
    BY <1>4, <2>1, Recorded
  <2>3. ~AnswerLost /\ Pending = 0
    BY <1>9, SucceededIs DEF AnswerLost, Pending
  <2>4. Progressing'
    BY <1>4, <1>5, <1>6, <1>7, <2>2, <2>3 DEF Progressing
  <2> QED
    BY <2>2, <2>4 DEF BatchInv
<1>10. CASE exchange.at \in {"server", "transfer"}
  <2>1. Record(FALSE, TRUE)
    <3>1. result = Err("NetworkError")
      BY <1>10, ResultIs
    <3>2. ShouldAbort("NetworkError") = TRUE
      BY DEF ShouldAbort
    <3> QED
      BY <1>2, <3>1, <3>2, ErrFields
  <2>2. BatchTypes' /\ aborted' = TRUE /\ Successes(written') = Successes(written) + 0
        /\ failed' # 0
    BY <1>4, <2>1, Recorded
  <2>3. Progressing'
    BY <1>4, <1>5, <1>6, <1>7, <2>2 DEF Progressing
  <2> QED
    BY <2>2, <2>3 DEF BatchInv
<1> QED
  BY <1>3, <1>8, <1>9, <1>10 DEF LinkInv, IsIdle


LEMMA BatchEnded ==
    ASSUME LinkInv, BatchInv, BatchEnds
    PROVE  BatchInv'
<1>1. /\ BatchTypes' /\ UNCHANGED <<commands, total, failed, aborted, written, served>>
      /\ Successes(written)' = Successes(written) /\ Successes(served)' = Successes(served)
      /\ Successes(written) \in Nat /\ Successes(served) \in Nat
  BY CountsKept DEF BatchInv, BatchEnds
<1>2. Progressing /\ BatchTypes /\ IsIdle /\ ~Running /\ mode' = "ended"
      /\ exit' = (IF IsSuccess THEN "success" ELSE "failure")
  BY DEF BatchInv, BatchEnds
<1>3. Succeeded = FALSE /\ ~HasAnswer /\ ~AnswerLost
  BY <1>2 DEF IsIdle, Succeeded, HasAnswer, AnswerLost
<1>4. Pending = 0
  BY <1>3 DEF Pending
<1>5. ASSUME ~aborted PROVE Len(written) = total /\ Successes(written) = Successes(served)
  <2>1. commands = << >>
    BY <1>2, <1>5 DEF Running
  <2>2. Len(commands) = 0 /\ Len(written) \in Nat
    BY <1>2, <2>1 DEF BatchTypes
  <2>3. Len(written) = total
    BY <1>2, <2>2 DEF BatchTypes
  <2> QED
    BY <1>1, <1>2, <1>3, <1>4, <1>5, <2>3 DEF Progressing
<1>6. ASSUME exit' = "success" PROVE served = [i \in 1..total |-> TRUE]
  <2>1. failed = 0 /\ ~aborted
    BY <1>2, <1>6 DEF IsSuccess
  <2>2. served = written
    BY <1>2, <1>3, <2>1 DEF Progressing
  <2>3. written \in Seq(BOOLEAN) /\ Len(written) \in Nat /\ Successes(written) = Len(written)
    BY <1>1, <1>2, <2>1 DEF BatchTypes
  <2>4. written = [i \in 1..Len(written) |-> TRUE]
    BY <2>3, AllSucceeded
  <2> QED
    BY <1>5, <2>1, <2>2, <2>4
<1>7. Summed'
  BY <1>1, <1>2, <1>5, <1>6 DEF Summed, Progressing
<1> QED
  BY <1>1, <1>2, <1>7 DEF BatchInv

LEMMA BatchBroken ==
    ASSUME LinkInv, BatchInv, WriteFails
    PROVE  BatchInv'
<1>1. /\ BatchTypes' /\ UNCHANGED <<commands, total, failed, aborted, written, served>>
      /\ Successes(written)' = Successes(written) /\ Successes(served)' = Successes(served)
  BY CountsKept DEF BatchInv, WriteFails
<1>2. Progressing /\ mode' = "ended" /\ exit' = "error"
  BY DEF BatchInv, WriteFails
<1>3. Summed'
  BY <1>1, <1>2 DEF Summed, Progressing
<1> QED
  BY <1>1, <1>2, <1>3 DEF BatchInv

(* The terminal client leaves the batch alone. *)
LEMMA TuiKeepsBatch ==
    ASSUME BatchInv, mode = "tui", UNCHANGED batchVars, UNCHANGED served,
           \/ UNCHANGED <<mode, exit>>
           \/ mode' = "ended" /\ exit' = "quit"
    PROVE  BatchInv'
<1>1. /\ BatchTypes' /\ UNCHANGED <<commands, total, failed, aborted, written>>
      /\ Successes(written)' = Successes(written) /\ Successes(served)' = Successes(served)
      /\ Successes(written) \in Nat
  BY CountsKept DEF BatchInv
<1>2. Untouched
  BY DEF BatchInv
<1>3. Successes(served) = Successes(written)
  BY <1>2 DEF Untouched
<1>4. CASE UNCHANGED <<mode, exit>>
  BY <1>1, <1>2, <1>4 DEF BatchInv, Untouched
<1>5. CASE mode' = "ended" /\ exit' = "quit"
  <2>1. Summed'
    BY <1>1, <1>3, <1>5 DEF Summed
  <2> QED
    BY <1>1, <1>5, <2>1 DEF BatchInv
<1> QED
  BY <1>4, <1>5

LEMMA BatchServed ==
    ASSUME LinkInv, BatchInv, ServerEnd
    PROVE  BatchInv'
<1>1. UNCHANGED batchVars /\ UNCHANGED <<mode, exit>> /\ mode # "ended" /\ ServerStep
  BY DEF ServerEnd, FarEnd
<1>2. CASE mode = "tui"
  <2>1. UNCHANGED served
    BY <1>2 DEF ServerEnd
  <2> QED
    BY <1>1, <1>2, <2>1, TuiKeepsBatch
<1>3. CASE mode = "batch"
  <2>1. served' = Append(served, Succeeded')
    BY <1>3 DEF ServerEnd
  <2>2. exchange'.at \in {"client", "done", "failed"}
    BY <1>1, SessionAnswered, TransferEnded DEF ServerStep
  <2>3. exchange.at \in {"server", "transfer"} /\ channel = "live"
    BY <1>1 DEF ServerStep, ServerAnswers, TransferEnds
  <2>4. BatchTypes /\ Progressing
    BY <1>3 DEF BatchInv
  <2>5. Succeeded' \in BOOLEAN
    BY DEF Succeeded
  <2>6. Succeeded = FALSE /\ ~HasAnswer /\ ~AnswerLost /\ Pending = 0 /\ ~IsIdle
    BY <2>3 DEF Succeeded, HasAnswer, AnswerLost, Pending, IsIdle
  <2>7. HasAnswer' /\ ~AnswerLost' /\ ~IsIdle'
    BY <2>2 DEF HasAnswer, AnswerLost, IsIdle
  <2>8. aborted = FALSE /\ commands # << >> /\ Successes(served) = Successes(written)
    <3>1. Successes(written) \in Nat
      BY <2>4, CountOf DEF BatchTypes
    <3> QED
      BY <2>4, <2>6, <3>1 DEF Progressing
  <2>9. /\ served' \in Seq(BOOLEAN)
        /\ Successes(served') = Successes(served) + (IF Succeeded' THEN 1 ELSE 0)
    BY <2>1, <2>4, <2>5, CountOfMore DEF BatchTypes
  <2>10. /\ UNCHANGED <<commands, total, failed, aborted, written>>
         /\ Successes(written)' = Successes(written) /\ Successes(written) \in Nat
         /\ Successes(served)' = Successes(served')
    BY <1>1, <2>4, CountOf DEF BatchTypes, batchVars, Successes, Trues
  <2>11. BatchTypes'
    BY <2>4, <2>9, <2>10 DEF BatchTypes, Last
  <2>12. Pending' \in 0..1 /\ Successes(served') = Successes(written) + Pending'
    BY <2>8, <2>9 DEF Pending
  <2>13. failed = 0 => served' = Append(written, Succeeded')
    BY <2>1, <2>4, <2>6 DEF Progressing
  <2>14. Successes(written) + Pending' \in Successes(written)..(Successes(written) + 1)
    BY <2>10, <2>12
  <2>15. Progressing'
    BY <1>1, <2>4, <2>7, <2>8, <2>10, <2>12, <2>13, <2>14 DEF Progressing
  <2> QED
    BY <1>1, <1>3, <2>11, <2>15 DEF BatchInv
<1> QED
  BY <1>1, <1>2, <1>3 DEF BatchInv

LEMMA BatchLost ==
    ASSUME LinkInv, BatchInv, SessionLost
    PROVE  BatchInv'
<1>1. /\ UNCHANGED batchVars /\ UNCHANGED <<mode, exit, served>> /\ mode # "ended" /\ LoseSession
  BY DEF SessionLost, FarEnd
<1>2. CASE mode = "tui"
  BY <1>1, <1>2, TuiKeepsBatch
<1>3. CASE mode = "batch"
  <2>1. /\ BatchTypes' /\ UNCHANGED <<commands, total, failed, aborted, written>>
        /\ Successes(written)' = Successes(written) /\ Successes(served)' = Successes(served)
        /\ Successes(written) \in Nat /\ Successes(served) \in Nat
    BY <1>1, CountsKept DEF BatchInv
  <2>2. Progressing /\ channel = "live" /\ channel' = "lost" /\ ~AnswerLost
    BY <1>1, <1>3 DEF BatchInv, LoseSession, AnswerLost
  <2>3. CASE exchange' = exchange
    <3>1. /\ (Succeeded' <=> Succeeded) /\ (HasAnswer' <=> HasAnswer) /\ (IsIdle' <=> IsIdle)
          /\ Succeeded' \in BOOLEAN /\ Succeeded \in BOOLEAN
      BY <2>3 DEF Succeeded, HasAnswer, IsIdle
    <3>2. Pending' = Pending /\ Succeeded' = Succeeded
      BY <3>1 DEF Pending
    <3>3. Progressing'
      BY <1>1, <2>1, <2>2, <3>1, <3>2 DEF Progressing
    <3> QED
      BY <1>1, <1>3, <2>1, <3>3 DEF BatchInv
  <2>4. CASE exchange.at = "client" /\ exchange' = [exchange EXCEPT !.at = "server"]
    <3>1. exchange'.at = "server"
      BY <2>4 DEF LinkInv
    <3>2. AnswerLost' /\ ~IsIdle'
      BY <2>2, <3>1 DEF AnswerLost, IsIdle
    <3>3. ~IsIdle
      BY <2>4 DEF IsIdle
    <3>4. Progressing'
      BY <1>1, <2>1, <2>2, <3>2, <3>3 DEF Progressing
    <3> QED
      BY <1>1, <1>3, <2>1, <3>4 DEF BatchInv
  <2> QED
    BY <1>1, <2>3, <2>4 DEF LoseSession
<1> QED
  BY <1>1, <1>2, <1>3 DEF BatchInv

-----------------------------------------------------------------------------
(***************************************************************************)
(* Folds.  read_commands and add_message are loops over what they are      *)
(* given; the function that FoldLeft chooses for such a loop exists, and   *)
(* what every turn keeps holds at the end.  Induction is stated with a set *)
(* in the place of the predicate.                                          *)
(***************************************************************************)
LEMMA Least ==
    ASSUME NEW T \in SUBSET Nat, T # {}
    PROVE  \E k \in T : \A m \in T : k <= m
<1> DEFINE R == {ss \in Nat \X Nat : ss[1] < ss[2]}
<1>1. IsWellFoundedOn(R, Nat)
  BY NatLessThanWellFounded DEF OpToRel
<1>2. PICK k \in T : \A m \in T : ~(<<m, k>> \in R)
  <2> HIDE DEF R
  <2> QED
    BY <1>1, WFMin
<1>3. \A m \in T : ~(m < k)
  BY <1>2
<1> QED
  BY <1>3

LEMMA Induction ==
    ASSUME NEW T, 0 \in T, \A n \in Nat : n \in T => n + 1 \in T
    PROVE  Nat \subseteq T
<1> SUFFICES ASSUME Nat \ T # {} PROVE FALSE
  OBVIOUS
<1>1. PICK k \in Nat \ T : \A m \in Nat \ T : k <= m
  BY Least
<1>2. k - 1 \in Nat \ T
  BY <1>1
<1> QED
  BY <1>1, <1>2

(* The greatest member of a set of indices. *)
LEMMA MaxOfInterval ==
    ASSUME NEW n \in Nat, NEW s \in SUBSET (1..(n + 1)), n + 1 \in s
    PROVE  Max(s) = n + 1
<1>1. \A y \in s : n + 1 >= y
  OBVIOUS
<1>2. \A x \in s : (\A y \in s : x >= y) => x = n + 1
  OBVIOUS
<1>3. Max(s) \in s /\ \A y \in s : Max(s) >= y
  BY <1>1 DEF Max
<1> QED
  BY <1>2, <1>3

LEMMA MaxInSet ==
    ASSUME NEW n \in Nat, NEW s \in SUBSET (1..n), s # {}
    PROVE  Max(s) \in s
<1> DEFINE U == {m \in Nat : n - m \in s}
<1>1. PICK x \in s : TRUE
  OBVIOUS
<1>2. n - x \in U /\ U \in SUBSET Nat
  BY <1>1
<1>3. PICK m \in U : \A k \in U : m <= k
  <2> HIDE DEF U
  <2> QED
    BY <1>2, Least
<1>4. n - m \in s /\ \A y \in s : n - y \in U /\ n - m >= y
  BY <1>3
<1> QED
  BY <1>4 DEF Max

(* What FoldLeft makes of a sequence of length n, with the operator as a    *)
(* function: its value for every set of indices, the last of them last.     *)
IsFold(g, base, step, n, seq) ==
    g = [s \in SUBSET (1..n) |->
           IF s = {} THEN base ELSE step[seq[Max(s)]][g[s \ {Max(s)}]]]

(* Such a function exists, by induction on n: FoldLeft chooses one. *)
LEMMA FoldExists ==
    ASSUME NEW V, NEW C, NEW base \in V, NEW step \in [C -> [V -> V]],
           NEW N \in Nat, NEW seq \in [1..N -> C]
    PROVE  \E g \in [SUBSET (1..N) -> V] : IsFold(g, base, step, N, seq)
<1> DEFINE Is(g, n) == \A s \in SUBSET (1..n) :
               g[s] = IF s = {} THEN base ELSE step[seq[Max(s)]][g[s \ {Max(s)}]]
           Defined(n) == \E g \in [SUBSET (1..n) -> V] : Is(g, n)
           T == {n \in Nat : n <= N => Defined(n)}
<1>1. 0 \in T
  <2> DEFINE g == [s \in SUBSET (1..0) |-> base]
  <2>1. g \in [SUBSET (1..0) -> V] /\ Is(g, 0)
    OBVIOUS
  <2> QED
    BY <2>1
<1>2. ASSUME NEW n \in Nat, n \in T PROVE n + 1 \in T
  <2> SUFFICES ASSUME n + 1 <= N PROVE Defined(n + 1)
    <3> HIDE DEF Defined
    <3> QED
      BY <1>2
  <2>0. Defined(n)
    <3> HIDE DEF Defined
    <3> QED
      BY <1>2
  <2>1. PICK h \in [SUBSET (1..n) -> V] : Is(h, n)
    BY <2>0
  <2> DEFINE g == [s \in SUBSET (1..(n + 1)) |->
                     IF n + 1 \in s THEN step[seq[n + 1]][h[s \ {n + 1}]] ELSE h[s]]
  <2>2. ASSUME NEW s \in SUBSET (1..(n + 1)) PROVE s \ {n + 1} \in SUBSET (1..n)
    OBVIOUS
  <2>3. g \in [SUBSET (1..(n + 1)) -> V]
    <3> SUFFICES ASSUME NEW s \in SUBSET (1..(n + 1)) PROVE g[s] \in V
      OBVIOUS
    <3>1. CASE n + 1 \in s
      <4>1. h[s \ {n + 1}] \in V /\ seq[n + 1] \in C
        BY <2>2
      <4> QED
        BY <3>1, <4>1
    <3>2. CASE n + 1 \notin s
      <4>1. s \in SUBSET (1..n)
        BY <3>2
      <4> QED
        BY <3>2, <4>1
    <3> QED
      BY <3>1, <3>2
  <2>4. ASSUME NEW s \in SUBSET (1..(n + 1))
        PROVE g[s] = IF s = {} THEN base ELSE step[seq[Max(s)]][g[s \ {Max(s)}]]
    <3>1. CASE n + 1 \in s
      <4>1. Max(s) = n + 1
        BY <3>1, MaxOfInterval
      <4>2. g[s \ {n + 1}] = h[s \ {n + 1}]
        BY <2>2
      <4>3. g[s] = step[seq[n + 1]][h[s \ {n + 1}]]
        BY <3>1
      <4> QED
        BY <3>1, <4>1, <4>2, <4>3
    <3>2. CASE n + 1 \notin s
      <4>1. s \in SUBSET (1..n)
        BY <3>2
      <4>2. \A t \in SUBSET s : g[t] = h[t]
        BY <3>2
      <4>3. s \ {Max(s)} \in SUBSET s
        OBVIOUS
      <4> HIDE DEF g
      <4> QED
        BY <2>1, <4>1, <4>2, <4>3
    <3> QED
      BY <3>1, <3>2
  <2> HIDE DEF g
  <2> QED
    BY <2>3, <2>4
<1>3. N \in T
  <2> HIDE DEF T
  <2> QED BY <1>1, <1>2, Induction
<1>4. Defined(N)
  <2> HIDE DEF Defined
  <2> QED
    BY <1>3
<1>5. PICK g \in [SUBSET (1..N) -> V] : Is(g, N)
  BY <1>4
<1>6. IsFold(g, base, step, N, seq)
  BY <1>5 DEF IsFold
<1> QED
  BY <1>6

(* What every turn keeps holds after the last one. *)
LEMMA EveryTurn ==
    ASSUME NEW V, NEW N \in Nat, NEW f, f[{}] \in V,
           \A k \in 1..N : f[1..(k - 1)] \in V => f[1..k] \in V
    PROVE  f[1..N] \in V
<1> DEFINE T == {k \in Nat : k <= N => f[1..k] \in V}
<1>1. 0 \in T
  <2>1. 1..0 = {}
    OBVIOUS
  <2> QED
    BY <2>1
<1>2. ASSUME NEW k \in Nat, k \in T PROVE k + 1 \in T
  <2> SUFFICES ASSUME k + 1 <= N PROVE f[1..(k + 1)] \in V
    OBVIOUS
  <2>1. f[1..k] \in V /\ k + 1 \in 1..N /\ (k + 1) - 1 = k
    BY <1>2
  <2> QED
    BY <2>1
<1>3. N \in T
  <2> HIDE DEF T
  <2> QED
    BY <1>1, <1>2, Induction
<1> QED
  BY <1>3

(* The last index of the first k. *)
LEMMA LastIndex ==
    ASSUME NEW N \in Nat, NEW k \in 1..N
    PROVE  /\ 1..k \in SUBSET (1..N) /\ 1..k # {} /\ Max(1..k) = k
           /\ (1..k) \ {k} = 1..(k - 1)
<1>1. k - 1 \in Nat /\ k = (k - 1) + 1 /\ k \in 1..k
  OBVIOUS
<1>2. Max(1..k) = k
  BY <1>1, MaxOfInterval
<1> QED
  BY <1>1, <1>2

-----------------------------------------------------------------------------
(* The start of a batch. *)

(* read_commands keeps lines of the file. *)
LEMMA PushKeepsLines ==
    ASSUME NEW S, NEW read \in Seq(S), NEW line \in S
    PROVE  PushCommand(read, line) \in Seq(S)
BY DEF PushCommand

LEMMA CommandsRead ==
    ASSUME NEW S, NEW lines \in Seq(S)
    PROVE  ReadCommands(lines) \in Seq(S)
<1> DEFINE N == Len(lines)
           Is(h) == h = [s \in SUBSET (DOMAIN lines) |->
                           IF s = {} THEN << >>
                           ELSE PushCommand(h[s \ {Max(s)}], lines[Max(s)])]
           f == CHOOSE h : Is(h)
           step == [c \in S |-> [at \in Seq(S) |-> PushCommand(at, c)]]
<1>1. ReadCommands(lines) = f[DOMAIN lines]
  BY Zenon DEF ReadCommands, FoldLeft, MapThenFoldSet
<1>2. N \in Nat /\ DOMAIN lines = 1..N /\ lines \in [1..N -> S] /\ << >> \in Seq(S)
  OBVIOUS
<1> HIDE DEF N
<1>3. step \in [S -> [Seq(S) -> Seq(S)]]
  BY PushKeepsLines
<1>4. PICK g \in [SUBSET (1..N) -> Seq(S)] : IsFold(g, << >>, step, N, lines)
  <2> HIDE DEF step
  <2> QED
    BY <1>2, <1>3, FoldExists
<1>5. ASSUME NEW s \in SUBSET (1..N), s # {}
      PROVE  step[lines[Max(s)]][g[s \ {Max(s)}]] = PushCommand(g[s \ {Max(s)}], lines[Max(s)])
  <2>1. Max(s) \in s
    BY <1>2, <1>5, MaxInSet
  <2>2. lines[Max(s)] \in S /\ g[s \ {Max(s)}] \in Seq(S)
    BY <1>2, <1>4, <2>1
  <2> QED
    BY <2>2
<1>6. Is(g)
  BY <1>2, <1>4, <1>5 DEF IsFold
<1>7. Is(f)
  <2> HIDE DEF Is
  <2> QED
    BY <1>6
<1> HIDE DEF f, step
<1>8. f[{}] \in Seq(S)
  BY <1>2, <1>7
<1>9. ASSUME NEW k \in 1..N, f[1..(k - 1)] \in Seq(S) PROVE f[1..k] \in Seq(S)
  <2>0. /\ 1..k \in SUBSET (DOMAIN lines) /\ 1..k # {} /\ Max(1..k) = k
        /\ (1..k) \ {k} = 1..(k - 1)
    BY <1>2, LastIndex
  <2>1. f[1..k] = PushCommand(f[1..(k - 1)], lines[k])
    BY <1>7, <2>0
  <2>2. lines[k] \in S
    BY <1>2
  <2>3. PushCommand(f[1..(k - 1)], lines[k]) \in Seq(S)
    BY <1>9, <2>2, PushKeepsLines, Zenon
  <2> QED
    BY <2>1, <2>3
<1> QED
  BY <1>1, <1>2, <1>8, <1>9, EveryTurn

LEMMA BatchStarts ==
    ASSUME ClientInit
    PROVE  BatchInv
<1>1. PICK lines : /\ BatchInit(lines)
                   /\ \/ mode = "tui" /\ lines = << >>
                      \/ mode = "batch" /\ lines \in Lines
  BY DEF ClientInit
<1>2. commands \in Seq(Texts)
  <2>1. PICK S : S = {lines[i] : i \in DOMAIN lines}
    OBVIOUS
  <2>2. lines \in Lines \cup {<< >>}
    BY <1>1
  <2>3. lines \in Seq(S)
    <3>1. CASE lines = << >>
      BY <3>1
    <3>2. CASE lines \in Lines
      BY <2>1, <3>2, LinesAssumption
    <3> QED
      BY <2>2, <3>1, <3>2
  <2>4. commands \in Seq(S)
    BY <1>1, <2>3, CommandsRead DEF BatchInit
  <2>5. S \subseteq Texts
    BY <2>1, <2>2 DEF Texts
  <2> QED
    BY <2>4, <2>5
<1>3. written = << >> /\ served = << >> /\ failed = 0 /\ aborted = FALSE /\ exit = "none"
      /\ total = Len(commands)
  BY <1>1 DEF BatchInit, ClientInit
<1>4. << >> \in Seq(BOOLEAN) /\ Len(<< >>) = 0
  OBVIOUS
<1>5. Successes(<< >>) = 0
  <2>1. Trues(<< >>) = {}
    BY DEF Trues
  <2> QED
    BY <2>1, FS_EmptySet DEF Successes
<1>6. BatchTypes
  <2>1. Len(commands) \in Nat
    BY <1>2
  <2>2. total = Len(written) + Len(commands) /\ failed = Len(written) - Successes(written)
    BY <1>3, <1>4, <1>5, <2>1
  <2> QED
    BY <1>2, <1>3, <1>4, <2>2 DEF BatchTypes
<1>7. IsIdle /\ Succeeded = FALSE /\ ~HasAnswer /\ Pending = 0
  BY DEF ClientInit, LinkInit, Idle, IsIdle, Succeeded, HasAnswer, Pending
<1>8. Progressing
  BY <1>3, <1>5, <1>7 DEF Progressing
<1>9. Untouched
  BY <1>3 DEF Untouched
<1> QED
  BY <1>1, <1>6, <1>8, <1>9 DEF BatchInv

(***************************************************************************)
(* The summary of a batch counts what was reported, its results are what   *)
(* became of the commands, and the exit code is success only when every    *)
(* command of the file reached the server and succeeded: for every file,   *)
(* with the session lost or the output failing at any time.                *)
(***************************************************************************)
THEOREM SummaryAlwaysTrue == ClientSpec => []SummaryTrue
<1>1. ClientInit => BatchInv
  BY BatchStarts
<1>2. ClientInv /\ BatchInv /\ [ClientNext]_clientVars => BatchInv'
  <2>1. SUFFICES ASSUME LinkInv, BatchInv, ClientNext \/ UNCHANGED clientVars PROVE BatchInv'
    BY DEF ClientInv
  <2>2. CASE UNCHANGED clientVars
    <3>1. UNCHANGED batchVars /\ UNCHANGED <<mode, exit, served, exchange, channel>>
      BY <2>2 DEF clientVars, batchVars
    <3>2. /\ BatchTypes' /\ UNCHANGED <<commands, total, failed, aborted, written>>
          /\ Successes(written)' = Successes(written) /\ Successes(served)' = Successes(served)
      BY <2>1, <3>1, CountsKept DEF BatchInv
    <3>3. Progressing => Progressing'
      BY <3>1, <3>2 DEF Progressing, IsIdle, AnswerLost, HasAnswer, Pending, Succeeded
    <3> QED
      BY <2>1, <3>1, <3>2, <3>3 DEF BatchInv, Untouched, Summed
  <2>3. CASE TuiStep \/ TuiQuits
    <3>1. /\ mode = "tui" /\ UNCHANGED batchVars /\ UNCHANGED served
          /\ UNCHANGED <<mode, exit>> \/ (mode' = "ended" /\ exit' = "quit")
      BY <2>3 DEF TuiStep, TuiQuits, TuiRunning
    <3> QED
      BY <2>1, <3>1, TuiKeepsBatch
  <2>4. CASE BatchRuns
    <3>1. mode = "batch" /\ channel # "none" /\ UNCHANGED <<mode, exit, served>>
      BY <2>4 DEF BatchRuns
    <3>2. CASE SendNext
      BY <2>1, <3>1, <3>2, BatchSent, BatchRefused DEF SendNext
    <3>3. CASE CommandDone
      BY <2>1, <3>1, <3>3, BatchReported
    <3> QED
      BY <2>4, <3>2, <3>3 DEF BatchRuns, BatchStep
  <2> QED
    BY <2>1, <2>2, <2>3, <2>4, BatchOpened, BatchEnded, BatchBroken, BatchServed, BatchLost
       DEF ClientNext
<1>3. BatchInv => SummaryTrue
  <2>1. SUFFICES ASSUME BatchInv PROVE SummaryTrue
    OBVIOUS
  <2>2. BatchTypes /\ Successes(written) \in Nat /\ Successes(served) \in Nat
    BY <2>1, CountOf DEF BatchInv, BatchTypes
  <2>3. CASE mode = "ended"
    BY <2>1, <2>2, <2>3 DEF BatchInv, Summed, BatchTypes, SummaryTrue
  <2>4. CASE mode \in {"tui", "batch"}
    <3>1. exit = "none" /\ Successes(written) <= Successes(served)
      BY <2>1, <2>2, <2>4 DEF BatchInv, Untouched, Progressing
    <3> QED
      BY <2>2, <2>4, <3>1 DEF BatchTypes, SummaryTrue
  <2> QED
    BY <2>1, <2>3, <2>4 DEF BatchInv
<1> QED
  BY <1>1, <1>2, <1>3, ClientCorrect, PTL DEF ClientSpec

-----------------------------------------------------------------------------
(* The messages. *)

(* However many messages are added at once, the cap is kept. *)
Kept == 0..MessageCap
MessagesCapped == messages \in Kept

LEMMA PushKeepsCap ==
    ASSUME NEW count \in Kept, NEW i
    PROVE  PushMessage(count, i) \in Kept
BY MessageAssumption DEF Kept, PushMessage

LEMMA MessagesAdded ==
    ASSUME messages \in Kept, NEW n \in Nat, AddMessages(n)
    PROVE  messages' \in Kept
<1> DEFINE seq == [i \in 1..n |-> i]
           Is(h) == h = [s \in SUBSET (DOMAIN seq) |->
                           IF s = {} THEN messages
                           ELSE PushMessage(h[s \ {Max(s)}], seq[Max(s)])]
           f == CHOOSE h : Is(h)
           step == [c \in Nat |-> [at \in Kept |-> PushMessage(at, c)]]
<1>1. messages' = f[DOMAIN seq]
  BY Zenon DEF AddMessages, FoldLeft, MapThenFoldSet
<1>2. n \in Nat /\ DOMAIN seq = 1..n /\ seq \in [1..n -> Nat] /\ messages \in Kept
  OBVIOUS
<1> HIDE DEF seq
<1>3. step \in [Nat -> [Kept -> Kept]]
  BY PushKeepsCap
<1>4. PICK g \in [SUBSET (1..n) -> Kept] : IsFold(g, messages, step, n, seq)
  <2> HIDE DEF step
  <2> QED
    BY <1>2, <1>3, FoldExists
<1>5. ASSUME NEW s \in SUBSET (1..n), s # {}
      PROVE  step[seq[Max(s)]][g[s \ {Max(s)}]] = PushMessage(g[s \ {Max(s)}], seq[Max(s)])
  <2>1. Max(s) \in s
    BY <1>2, <1>5, MaxInSet
  <2>2. seq[Max(s)] \in Nat /\ g[s \ {Max(s)}] \in Kept
    BY <1>2, <1>4, <2>1
  <2> QED
    BY <2>2
<1>6. Is(g)
  BY <1>2, <1>4, <1>5 DEF IsFold
<1>7. Is(f)
  <2> HIDE DEF Is
  <2> QED
    BY <1>6
<1> HIDE DEF f, step
<1>8. f[{}] \in Kept
  BY <1>2, <1>7
<1>9. ASSUME NEW k \in 1..n, f[1..(k - 1)] \in Kept PROVE f[1..k] \in Kept
  <2>0. /\ 1..k \in SUBSET (DOMAIN seq) /\ 1..k # {} /\ Max(1..k) = k
        /\ (1..k) \ {k} = 1..(k - 1)
    BY <1>2, LastIndex
  <2>1. f[1..k] = PushMessage(f[1..(k - 1)], seq[k])
    BY <1>7, <2>0
  <2>2. seq[k] \in Nat
    BY <1>2
  <2>3. PushMessage(f[1..(k - 1)], seq[k]) \in Kept
    BY <1>9, <2>2, PushKeepsCap, Zenon
  <2> QED
    BY <2>1, <2>3
<1> QED
  BY <1>1, <1>2, <1>8, <1>9, EveryTurn

(* The lines of an answer that is shown. *)
LEMMA ListedEntries ==
    ASSUME NEW cmd, Sayable(cmd), NEW output \in Outputs(cmd), output.type = "NamespaceListing"
    PROVE  Len(output.entries) \in Nat
<1>1. cmd.type \in {"Ping"} \cup PathRequest
  BY DEF Sayable, IsSingle
<1>2. output # Failure
  BY FailureKept
<1>3. cmd.type = "ListNamespace"
  BY <1>1, <1>2 DEF PathRequest, Outputs
<1>4. PICK entries \in {<< >>} \cup {<<e>> : e \in Entry} :
          output = [type |-> "NamespaceListing", entries |-> entries]
  BY <1>2, <1>3 DEF Outputs
<1>5. Len(entries) \in Nat
  BY <1>4
<1> QED
  BY <1>4, <1>5

LEMMA NoContent ==
    ASSUME NEW cmd, Sayable(cmd), NEW output \in Outputs(cmd)
    PROVE  output.type # "ObjectContent"
<1>1. cmd.type \in {"Ping"} \cup PathRequest
  BY DEF Sayable, IsSingle
<1> QED
  BY <1>1, FailureKept DEF PathRequest, Outputs

LEMMA ShownLines ==
    ASSUME LinkInv, NEW result \in Results, result.ok
    PROVE  1 + result.lines \in Nat
<1>1. CASE exchange.at = "client" /\ result = FormatResponse(DecodeOutput(exchange.msg))
  <2> DEFINE output == DecodeOutput(exchange.msg)
  <2>1. Sayable(built) /\ output \in Outputs(built)
    BY <1>1 DEF LinkInv
  <2>2. result.lines = LinesOf(output)
    BY <1>1 DEF FormatResponse
  <2> HIDE DEF output
  <2>3. /\ output.type = "NamespaceListing" => Len(output.entries) \in Nat
        /\ output.type # "ObjectContent"
    BY <2>1, ListedEntries, NoContent
  <2> QED
    BY <2>2, <2>3 DEF LinesOf
<1>2. CASE exchange.at = "done" /\ result = FormatResponse(exchange.msg)
  <2>1. exchange.msg \in TransferOutput
    BY <1>2 DEF LinkInv
  <2>2. result.lines = LinesOf(exchange.msg)
    BY <1>2 DEF FormatResponse
  <2>3. /\ exchange.msg.type \in {"Success", "Error", "ObjectContent"}
        /\ exchange.msg.type = "ObjectContent" => exchange.msg.data = Text
    BY <2>1 DEF TransferOutput, Failure
  <2>4. Len(Text) \in Nat
    BY DEF Text
  <2> QED
    BY <2>2, <2>3, <2>4 DEF LinesOf
<1> QED
  BY <1>1, <1>2, ResultIs, ErrFields

LEMMA CapKept ==
    ASSUME ClientInv, messages \in Kept, ClientNext
    PROVE  messages' \in Kept
<1>0. 1 \in Nat /\ 2 \in Nat /\ LinkInv
  BY DEF ClientInv
<1>1. CASE UNCHANGED messages
  BY <1>1
<1>2. CASE HandleConnect
  <2>1. AddMessages(1) \/ AddMessages(2)
    BY <1>2, Zenon DEF HandleConnect, ConnectFails, ConnectSucceeds
  <2> QED
    BY <1>0, <2>1, MessagesAdded
<1>3. CASE HandleCommand
  <2>1. messages' = 0 \/ AddMessages(1) \/ AddMessages(2)
    BY <1>3, Zenon DEF HandleCommand, Exit
  <2> QED
    BY <1>0, <2>1, MessagesAdded, MessageAssumption DEF Kept
<1>4. CASE CommandReturns
  <2>1. PICK result \in Results : \/ result.ok /\ ShowResult(result)
                                  \/ ~result.ok /\ ShowError(result.error)
    BY <1>4 DEF CommandReturns
  <2>2. CASE result.ok /\ ShowResult(result)
    BY <1>0, <2>2, ShownLines, MessagesAdded DEF ShowResult
  <2>3. CASE ~result.ok /\ ShowError(result.error)
    BY <1>0, <2>3, MessagesAdded DEF ShowError
  <2> QED
    BY <2>1, <2>2, <2>3
<1>5. TuiStep => UNCHANGED messages \/ HandleConnect \/ HandleCommand \/ CommandReturns
  BY DEF TuiStep, TuiKey, ConnectionKey, CommandKey, HelpKey, PressCtrlC, appVars
<1>6. TuiQuits \/ BatchConnects \/ BatchRuns \/ BatchEnds \/ WriteFails \/ ServerEnd \/ SessionLost
         => UNCHANGED messages
  BY DEF TuiQuits, BatchConnects, BatchRuns, BatchEnds, WriteFails, ServerEnd, SessionLost,
         FarEnd, tuiVars
<1> QED
  BY <1>1, <1>2, <1>3, <1>4, <1>5, <1>6 DEF ClientNext

(***************************************************************************)
(* The terminal client keeps MessageCap messages at most, however long the *)
(* listings, contents and errors are that add_message is called with for   *)
(* one answer, and its screen, its directory and its channel are always    *)
(* ones it knows.                                                          *)
(***************************************************************************)
THEOREM MessagesAlwaysCapped == ClientSpec => []TuiTypeOK
<1>1. ClientInit => MessagesCapped
  BY MessageAssumption DEF ClientInit, AppInit, Welcome, MessagesCapped, Kept
<1>2. ClientInv /\ MessagesCapped /\ [ClientNext]_clientVars => MessagesCapped'
  BY CapKept DEF clientVars, MessagesCapped, Kept
<1>3. ClientInv /\ MessagesCapped => TuiTypeOK
  BY DEF ClientInv, LinkInv, ScreenInv, PromptInv, TuiTypeOK, MessagesCapped, Kept
<1> QED
  BY <1>1, <1>2, <1>3, ClientCorrect, PTL DEF ClientSpec
=============================================================================
