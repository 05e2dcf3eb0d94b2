------------------------------ MODULE ConsoleUI ------------------------------
(***************************************************************************)
(* The console of a running node: the input thread edits a line key by key *)
(* and executes it on Enter, while every thread prints its logs above that *)
(* line and shows it again.  The screen is guarded by a mutex; the line    *)
(* itself is written without it when a character is typed or erased, and   *)
(* after Enter.                                                            *)
(*                                                                         *)
(* What is done under the mutex is one step.  The start and the end of the *)
(* input thread are part of Process.                                       *)
(***************************************************************************)
EXTENDS Integers, SequencesExt

CONSTANTS
    Chars,              \* characters on the keyboard
    MAX_HISTORY_SIZE,
    MaxInput            \* bound: length of a line

ASSUME ConsoleAssumption == MAX_HISTORY_SIZE \in Nat \ {0} /\ MaxInput \in Nat

VARIABLES
    input,              \* the line, a local of the input thread
    currentInput,       \* the copy of it that logs are followed by
    cursorPosition,
    commandHistory,
    historyIndex,
    pc,                 \* where the input thread is
    shown               \* the input line on the screen, without the prompt

vars == <<input, currentInput, cursorPosition, commandHistory, historyIndex, pc, shown>>

Line == Seq(Chars)
Garbled == "garbled"

Init ==
    /\ input = << >> /\ currentInput = << >> /\ shown = << >>
    /\ cursorPosition = 0 /\ historyIndex = 0
    /\ commandHistory = << >>
    /\ pc = "poll"

-----------------------------------------------------------------------------
(* Keys that change the line.                                              *)

\* handleKeyPress: insert or erase at the cursor ...
PressChar(c) ==
    /\ pc = "poll" /\ Len(input) < MaxInput
    /\ input' = InsertAt(input, cursorPosition + 1, c)
    /\ cursorPosition' = cursorPosition + 1
    /\ pc' = "assign"
    /\ UNCHANGED <<currentInput, commandHistory, historyIndex, shown>>

\* Mutant: the character after the cursor is erased.
PressBackspaceAfter ==
    /\ pc = "poll" /\ input # << >> /\ cursorPosition > 0
    /\ input' = RemoveAt(input, cursorPosition + 1)
    /\ cursorPosition' = cursorPosition - 1
    /\ pc' = "assign"
    /\ UNCHANGED <<currentInput, commandHistory, historyIndex, shown>>

PressBackspace ==
    /\ pc = "poll" /\ input # << >> /\ cursorPosition > 0
    /\ input' = RemoveAt(input, cursorPosition)
    /\ cursorPosition' = cursorPosition - 1
    /\ pc' = "assign"
    /\ UNCHANGED <<currentInput, commandHistory, historyIndex, shown>>

\* ... copy the line, without the mutex ...
AssignCurrentInput ==
    /\ pc = "assign"
    /\ currentInput' = input
    /\ pc' = "redraw"
    /\ UNCHANGED <<input, cursorPosition, commandHistory, historyIndex, shown>>

\* ... and draw it, with the mutex.
RedrawInputLine ==
    /\ pc = "redraw"
    /\ shown' = input
    /\ pc' = "poll"
    /\ UNCHANGED <<input, currentInput, cursorPosition, commandHistory, historyIndex>>

\* Mutant: the copy is forgotten.
PressDeleteShown ==
    /\ pc = "poll" /\ cursorPosition < Len(input)
    /\ input' = RemoveAt(input, cursorPosition + 1)
    /\ shown' = input'
    /\ UNCHANGED <<currentInput, cursorPosition, commandHistory, historyIndex, pc>>

PressDelete ==
    /\ pc = "poll" /\ cursorPosition < Len(input)
    /\ input' = RemoveAt(input, cursorPosition + 1)
    /\ currentInput' = input' /\ shown' = input'
    /\ UNCHANGED <<cursorPosition, commandHistory, historyIndex, pc>>

\* The line becomes s, with the cursor behind it.
recall(s) ==
    /\ input' = s /\ currentInput' = s /\ shown' = s
    /\ cursorPosition' = Len(s)
    /\ UNCHANGED <<commandHistory, pc>>

NavigateHistoryUp ==
    /\ pc = "poll" /\ historyIndex > 0
    /\ historyIndex' = historyIndex - 1
    /\ recall(commandHistory[historyIndex' + 1])

\* Mutant: the cursor stays where it was.
NavigateHistoryDownOnly ==
    /\ pc = "poll" /\ historyIndex < Len(commandHistory)
    /\ historyIndex' = historyIndex + 1
    /\ input' = IF historyIndex' >= Len(commandHistory) THEN << >>
                ELSE commandHistory[historyIndex' + 1]
    /\ currentInput' = input' /\ shown' = input'
    /\ UNCHANGED <<cursorPosition, commandHistory, pc>>

NavigateHistoryDown ==
    /\ pc = "poll" /\ historyIndex < Len(commandHistory)
    /\ historyIndex' = historyIndex + 1
    /\ recall(IF historyIndex' >= Len(commandHistory) THEN << >>
              ELSE commandHistory[historyIndex' + 1])

\* Arrows, Home and End.
MoveCursor ==
    /\ pc = "poll"
    /\ \/ cursorPosition > 0 /\ cursorPosition' = cursorPosition - 1
       \/ cursorPosition < Len(input) /\ cursorPosition' = cursorPosition + 1
       \/ cursorPosition' = 0
       \/ cursorPosition' = Len(input)
    /\ UNCHANGED <<input, currentInput, commandHistory, historyIndex, pc, shown>>

-----------------------------------------------------------------------------
(* Enter.                                                                  *)

\* The output goes on in a new line.
PressEnter ==
    /\ pc = "poll"
    /\ shown' = << >>
    /\ pc' = IF input = << >> THEN "prompt" ELSE "submit"
    /\ UNCHANGED <<input, currentInput, cursorPosition, commandHistory, historyIndex>>

\* Mutant: the history grows without limit.
addToHistoryAlways(commands, command) ==
    IF commands # << >> /\ Last(commands) = command THEN commands
    ELSE Append(commands, command)

addToHistory(commands, command) ==
    LET more == Append(commands, command)
    IN  IF commands # << >> /\ Last(commands) = command THEN commands
        ELSE IF Len(more) > MAX_HISTORY_SIZE THEN Tail(more) ELSE more

\* Without the mutex; then the handler is called, and executes the command.
Submit ==
    /\ pc = "submit"
    /\ commandHistory' = addToHistory(commandHistory, input)
    /\ historyIndex' = Len(commandHistory')
    /\ input' = << >> /\ currentInput' = << >> /\ cursorPosition' = 0
    /\ pc' = "handler"
    /\ UNCHANGED shown

HandlerReturns ==
    /\ pc = "handler"
    /\ pc' = "prompt"
    /\ UNCHANGED <<input, currentInput, cursorPosition, commandHistory, historyIndex, shown>>

\* Behind whatever is in that line by now.
PrintPrompt ==
    /\ pc = "prompt"
    /\ cursorPosition' = 0
    /\ pc' = "poll"
    /\ UNCHANGED <<input, currentInput, commandHistory, historyIndex, shown>>

-----------------------------------------------------------------------------
\* Any thread, also the handler: the line is cleared, the log printed, and the
\* line shown again as far as currentInput has it.  A string that is read while
\* the input thread writes it may be anything.
PrintLog ==
    /\ \/ shown' = currentInput
       \/ pc \in {"assign", "submit"} /\ shown' = Garbled
    /\ UNCHANGED <<input, currentInput, cursorPosition, commandHistory, historyIndex, pc>>

Next ==
    \/ \E c \in Chars : PressChar(c)
    \/ PressBackspace \/ AssignCurrentInput \/ RedrawInputLine
    \/ PressDelete \/ NavigateHistoryUp \/ NavigateHistoryDown \/ MoveCursor
    \/ PressEnter \/ Submit \/ HandlerReturns \/ PrintPrompt
    \/ PrintLog

Spec == Init /\ [][Next]_vars

-----------------------------------------------------------------------------
(* Properties.                                                             *)

TypeOK ==
    /\ input \in Line /\ currentInput \in Line
    /\ shown \in Line \/ shown = Garbled
    /\ cursorPosition \in Nat /\ historyIndex \in Nat
    /\ commandHistory \in Seq(Line) /\ Len(commandHistory) <= MAX_HISTORY_SIZE
    /\ pc \in {"poll", "assign", "redraw", "submit", "handler", "prompt"}

\* No key, in any order, makes std::string::insert or erase throw or reads past
\* the end of the history, also when the history is full and commands repeat.
IndexesInRange == cursorPosition <= Len(input) /\ historyIndex <= Len(commandHistory)

\* What Enter is about to execute is what the line on the screen shows, whatever
\* logs have been printed, over it or in the middle of an update of it, by
\* threads that know only the unsynchronised copy.
ShownIsExecuted == pc = "poll" /\ input # << >> => shown = input

Edits ==
    INSTANCE LineEditor WITH
        HistorySize <- MAX_HISTORY_SIZE,
        left  <- SubSeq(input, 1, cursorPosition),
        right <- SubSeq(input, cursorPosition + 1, Len(input)),
        older <- SubSeq(commandHistory, 1, historyIndex),
        newer <- SubSeq(commandHistory, historyIndex + 1, Len(commandHistory))

\* Positions, copies and flags amount to an editor: each key does to the text
\* around the caret, and each recall and Enter to the history, what it should.
EditsImplementLine == Edits!Spec

-----------------------------------------------------------------------------
(* The inductive invariant behind the safety properties.                   *)

\* The copy is behind the line only between a key and the assignment, and the
\* line is empty from the call of the handler to the next key.
CopyOK ==
    /\ pc # "assign" => currentInput = input
    /\ pc \in {"handler", "prompt"} => input = << >>
    /\ pc = "submit" => input # << >>

IInv == TypeOK /\ IndexesInRange /\ ShownIsExecuted /\ CopyOK
=============================================================================
