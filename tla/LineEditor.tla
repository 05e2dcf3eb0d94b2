------------------------------ MODULE LineEditor ------------------------------
(***************************************************************************)
(* What editing a command line promises, without positions: a text before  *)
(* and a text after the caret, commands before and after the one recalled. *)
(***************************************************************************)
EXTENDS SequencesExt

CONSTANTS Chars, HistorySize

VARIABLES
    left, right,    \* the line, split at the caret
    older, newer    \* the history; the head of newer is the command recalled

edit == <<left, right>>
history == <<older, newer>>

Init == left = << >> /\ right = << >> /\ older = << >> /\ newer = << >>

Insert == \E c \in Chars : left' = Append(left, c) /\ UNCHANGED <<right, history>>
Backspace == left # << >> /\ left' = Front(left) /\ UNCHANGED <<right, history>>
Delete == right # << >> /\ right' = Tail(right) /\ UNCHANGED <<left, history>>
Move == left' \o right' = left \o right /\ UNCHANGED history

Up ==
    /\ older # << >>
    /\ older' = Front(older) /\ newer' = <<Last(older)>> \o newer
    /\ left' = Last(older) /\ right' = << >>

Down ==
    /\ newer # << >>
    /\ older' = Append(older, Head(newer)) /\ newer' = Tail(newer)
    /\ left' = IF newer' = << >> THEN << >> ELSE Head(newer')
    /\ right' = << >>

\* A command is remembered once, and the oldest one is forgotten.
remember(commands, line) ==
    IF commands # << >> /\ Last(commands) = line THEN commands
    ELSE IF Len(commands) = HistorySize THEN Append(Tail(commands), line)
    ELSE Append(commands, line)

Submit ==
    /\ left \o right # << >>
    /\ older' = remember(older \o newer, left \o right) /\ newer' = << >>
    /\ left' = << >> /\ right' = << >>

Next == Insert \/ Backspace \/ Delete \/ Move \/ Up \/ Down \/ Submit

Spec == Init /\ [][Next]_<<edit, history>>
=============================================================================
