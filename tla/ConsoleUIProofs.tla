--------------------------- MODULE ConsoleUIProofs ---------------------------
(***************************************************************************)
(* Proofs about ConsoleUI, for any keyboard, length of line and size of    *)
(* the history.                                                            *)
(***************************************************************************)
EXTENDS ConsoleUI, SequenceTheorems, TLAPS

-----------------------------------------------------------------------------
(* Texts and histories.                                                    *)

\* A piece of a sequence, item by item.
LEMMA Piece ==
    ASSUME NEW S, NEW s \in Seq(S), NEW a \in 1..(Len(s) + 1), NEW b \in 0..Len(s)
    PROVE  /\ SubSeq(s, a, b) \in Seq(S)
           /\ Len(SubSeq(s, a, b)) = IF a <= b THEN b - a + 1 ELSE 0
           /\ \A i \in 1..Len(SubSeq(s, a, b)) : SubSeq(s, a, b)[i] = s[a + i - 1]
  <1>1. Len(s) \in Nat /\ \A i \in a..b : s[i] \in S
    BY LenProperties, ElementOfSeq
  <1>2. QED
    BY <1>1, SubSeqProperties

\* Inserting at the caret extends the text before it.
LEMMA Inserted ==
    ASSUME NEW S, NEW s \in Seq(S), NEW k \in 0..Len(s), NEW c \in S
    PROVE  LET t == InsertAt(s, k + 1, c)
           IN  /\ t \in Seq(S) /\ Len(t) = Len(s) + 1
               /\ SubSeq(t, 1, k + 1) = Append(SubSeq(s, 1, k), c)
               /\ SubSeq(t, k + 2, Len(t)) = SubSeq(s, k + 1, Len(s))
  <1> DEFINE l == SubSeq(s, 1, k)
             r == SubSeq(s, k + 1, Len(s))
             t == InsertAt(s, k + 1, c)
  <1>1. /\ Len(s) \in Nat /\ k \in Nat
        /\ l \in Seq(S) /\ Len(l) = k /\ r \in Seq(S) /\ Len(r) = Len(s) - k
    BY LenProperties, Piece
  <1>2. <<c>> \in Seq(S) /\ Len(<<c>>) = 1 /\ <<c>>[1] = c
    OBVIOUS
  <1>3. t = l \o <<c>> \o r
    <2>1. \A i \in Int :
              InsertAt(s, i, c) = SubSeq(s, 1, i - 1) \o <<c>> \o SubSeq(s, i, Len(s))
      BY DEF InsertAt
    <2>2. k + 1 \in Int /\ (k + 1) - 1 = k
      BY <1>1
    <2>3. QED
      BY <2>1, <2>2
  <1> HIDE DEF l, r, t
  <1>4. /\ l \o <<c>> \in Seq(S) /\ Len(l \o <<c>>) = k + 1
        /\ l \o <<c>> = Append(l, c)
    BY <1>1, <1>2, ConcatProperties, AppendIsConcat
  <1>5. /\ t \in Seq(S) /\ Len(t) = Len(s) + 1
        /\ \A i \in 1..Len(t) : t[i] = IF i <= k + 1 THEN Append(l, c)[i] ELSE r[i - (k + 1)]
    BY <1>1, <1>3, <1>4, ConcatProperties
  <1>6. SubSeq(t, 1, k + 1) = Append(l, c)
    <2>1. /\ SubSeq(t, 1, k + 1) \in Seq(S) /\ Len(SubSeq(t, 1, k + 1)) = k + 1
          /\ \A i \in 1..(k + 1) : SubSeq(t, 1, k + 1)[i] = t[i]
      BY <1>1, <1>5, Piece
    <2>2. QED
      BY <1>1, <1>4, <1>5, <2>1, SeqEqual
  <1>7. SubSeq(t, k + 2, Len(t)) = r
    <2>1. /\ SubSeq(t, k + 2, Len(t)) \in Seq(S) /\ Len(SubSeq(t, k + 2, Len(t))) = Len(s) - k
          /\ \A i \in 1..(Len(s) - k) : SubSeq(t, k + 2, Len(t))[i] = t[k + 1 + i]
      BY <1>1, <1>5, Piece
    <2>2. \A i \in 1..(Len(s) - k) : t[k + 1 + i] = r[i]
      BY <1>1, <1>5
    <2>3. QED
      BY <1>1, <2>1, <2>2, SeqEqual
  <1>8. QED
    BY <1>5, <1>6, <1>7 DEF l, r, t

\* Erasing at position k takes one item out.
LEMMA Removed ==
    ASSUME NEW S, NEW s \in Seq(S), NEW k \in 1..Len(s)
    PROVE  LET t == RemoveAt(s, k)
           IN  /\ t \in Seq(S) /\ Len(t) = Len(s) - 1
               /\ SubSeq(t, 1, k - 1) = SubSeq(s, 1, k - 1)
               /\ SubSeq(t, k, Len(t)) = SubSeq(s, k + 1, Len(s))
  <1> DEFINE l == SubSeq(s, 1, k - 1)
             r == SubSeq(s, k + 1, Len(s))
             t == RemoveAt(s, k)
  <1>1. /\ Len(s) \in Nat /\ k \in Nat \ {0} /\ k - 1 \in 0..Len(s) /\ k + 1 \in 1..(Len(s) + 1)
    BY LenProperties
  <1>2. l \in Seq(S) /\ Len(l) = k - 1 /\ r \in Seq(S) /\ Len(r) = Len(s) - k
    BY <1>1, Piece
  <1>3. t = l \o r
    BY DEF RemoveAt
  <1> HIDE DEF l, r, t
  <1>4. /\ t \in Seq(S) /\ Len(t) = Len(s) - 1
        /\ \A i \in 1..Len(t) : t[i] = IF i <= k - 1 THEN l[i] ELSE r[i - (k - 1)]
    <2>1. /\ t \in Seq(S) /\ Len(t) = Len(l) + Len(r)
          /\ \A i \in 1..(Len(l) + Len(r)) :
                 t[i] = IF i <= Len(l) THEN l[i] ELSE r[i - Len(l)]
      BY <1>2, <1>3, ConcatProperties
    <2>2. Len(l) + Len(r) = Len(s) - 1
      BY <1>1, <1>2
    <2>3. QED
      BY <1>2, <2>1, <2>2
  <1>5. SubSeq(t, 1, k - 1) = l
    <2>1. /\ SubSeq(t, 1, k - 1) \in Seq(S) /\ Len(SubSeq(t, 1, k - 1)) = k - 1
          /\ \A i \in 1..(k - 1) : SubSeq(t, 1, k - 1)[i] = t[i]
      BY <1>1, <1>4, Piece
    <2>2. \A i \in 1..(k - 1) : t[i] = l[i]
      BY <1>1, <1>4
    <2>3. QED
      BY <1>2, <2>1, <2>2, SeqEqual
  <1>6. SubSeq(t, k, Len(t)) = r
    <2>1. /\ SubSeq(t, k, Len(t)) \in Seq(S) /\ Len(SubSeq(t, k, Len(t))) = Len(s) - k
          /\ \A i \in 1..(Len(s) - k) : SubSeq(t, k, Len(t))[i] = t[k - 1 + i]
      BY <1>1, <1>4, Piece
    <2>2. \A i \in 1..(Len(s) - k) : t[k - 1 + i] = r[i]
      BY <1>1, <1>4
    <2>3. QED
      BY <1>1, <1>2, <2>1, <2>2, SeqEqual
  <1>7. QED
    BY <1>4, <1>5, <1>6 DEF l, r, t

\* A sequence split at a position: its parts, and what moves when the position
\* does.
LEMMA Split ==
    ASSUME NEW S, NEW s \in Seq(S), NEW k \in 0..Len(s)
    PROVE  /\ SubSeq(s, 1, k) \in Seq(S) /\ SubSeq(s, k + 1, Len(s)) \in Seq(S)
           /\ SubSeq(s, 1, k) \o SubSeq(s, k + 1, Len(s)) = s
           /\ SubSeq(s, 1, k) = << >> <=> k = 0
           /\ SubSeq(s, k + 1, Len(s)) = << >> <=> k = Len(s)
           /\ k > 0 => /\ Front(SubSeq(s, 1, k)) = SubSeq(s, 1, k - 1)
                       /\ Last(SubSeq(s, 1, k)) = s[k]
                       /\ <<s[k]>> \o SubSeq(s, k + 1, Len(s)) = SubSeq(s, k, Len(s))
           /\ k < Len(s) => /\ Head(SubSeq(s, k + 1, Len(s))) = s[k + 1]
                            /\ Tail(SubSeq(s, k + 1, Len(s))) = SubSeq(s, k + 2, Len(s))
                            /\ Append(SubSeq(s, 1, k), s[k + 1]) = SubSeq(s, 1, k + 1)
  <1> DEFINE l == SubSeq(s, 1, k)
             r == SubSeq(s, k + 1, Len(s))
  <1>1. /\ Len(s) \in Nat /\ k \in Nat
        /\ l \in Seq(S) /\ Len(l) = k /\ r \in Seq(S) /\ Len(r) = Len(s) - k
        /\ \A i \in 1..k : l[i] = s[i]
    BY LenProperties, Piece
  <1>2. l \o r = s
    <2>1. 1 \in 1..(Len(s) + 1) /\ k \in (1 - 1)..Len(s) /\ Len(s) \in k..Len(s)
      BY <1>1
    <2>2. l \o r = SubSeq(s, 1, Len(s))
      BY <2>1, ConcatAdjacentSubSeq
    <2>3. QED
      BY <2>2, SubSeqFull
  <1>3. (l = << >> <=> k = 0) /\ (r = << >> <=> k = Len(s))
    <2> HIDE DEF l, r
    <2>1. (l = << >> <=> Len(l) = 0) /\ (r = << >> <=> Len(r) = 0)
      BY <1>1, EmptySeq
    <2>2. QED
      BY <1>1, <2>1
  <1>4. ASSUME k > 0
        PROVE  /\ Front(l) = SubSeq(s, 1, k - 1) /\ Last(l) = s[k]
               /\ <<s[k]>> \o r = SubSeq(s, k, Len(s))
    <2>1. Last(l) = s[k]
      BY <1>1, <1>4 DEF Last
    <2>2. <<s[k]>> \o r = SubSeq(s, k, Len(s))
      BY <1>1, <1>4, SubSeqRecursiveFirst
    <2>3. Front(l) = SubSeq(s, 1, k - 1)
      <3>1. /\ SubSeq(l, 1, k - 1) \in Seq(S) /\ Len(SubSeq(l, 1, k - 1)) = k - 1
            /\ \A i \in 1..(k - 1) : SubSeq(l, 1, k - 1)[i] = l[i]
        BY <1>1, <1>4, Piece
      <3>2. /\ SubSeq(s, 1, k - 1) \in Seq(S) /\ Len(SubSeq(s, 1, k - 1)) = k - 1
            /\ \A i \in 1..(k - 1) : SubSeq(s, 1, k - 1)[i] = s[i]
        BY <1>1, <1>4, Piece
      <3>3. Front(l) = SubSeq(l, 1, k - 1)
        BY <1>1 DEF Front
      <3> HIDE DEF l
      <3>4. QED
        BY <1>1, <3>1, <3>2, <3>3, SeqEqual
    <2>4. QED
      BY <2>1, <2>2, <2>3
  <1>5. ASSUME k < Len(s)
        PROVE  /\ Head(r) = s[k + 1] /\ Tail(r) = SubSeq(s, k + 2, Len(s))
               /\ Append(l, s[k + 1]) = SubSeq(s, 1, k + 1)
    <2>1. Head(r) = s[k + 1] /\ Tail(r) = SubSeq(s, k + 1 + 1, Len(s))
      BY <1>1, <1>5, HeadTailOfSubSeq
    <2>2. k + 1 + 1 = k + 2 /\ k + 1 \in 1..Len(s) /\ k + 1 - 1 = k
      BY <1>1, <1>5
    <2>3. SubSeq(s, 1, k + 1) = SubSeq(s, 1, k + 1 - 1) \o <<s[k + 1]>>
      BY <1>1, <2>2, SubSeqRecursiveSecond
    <2>4. s[k + 1] \in S
      BY <2>2, ElementOfSeq
    <2> HIDE DEF l, r
    <2>5. Append(l, s[k + 1]) = l \o <<s[k + 1]>>
      BY <1>1, <2>4, AppendIsConcat
    <2>6. QED
      BY <2>1, <2>2, <2>3, <2>5 DEF l, r
  <1> HIDE DEF l, r
  <1>6. QED
    BY <1>1, <1>2, <1>3, <1>4, <1>5 DEF l, r

\* The item before the position ...
LEMMA ItemBefore ==
    ASSUME NEW S, NEW s \in Seq(S), NEW k \in 1..Len(s)
    PROVE  /\ s[k] \in S /\ SubSeq(s, 1, k) # << >>
           /\ Front(SubSeq(s, 1, k)) = SubSeq(s, 1, k - 1) /\ Last(SubSeq(s, 1, k)) = s[k]
           /\ <<s[k]>> \o SubSeq(s, k + 1, Len(s)) = SubSeq(s, k, Len(s))
  <1>1. Len(s) \in Nat /\ k \in 0..Len(s) /\ k > 0 /\ k # 0 /\ s[k] \in S
    BY LenProperties, ElementOfSeq
  <1>2. <<s[k]>> \o SubSeq(s, k + 1, Len(s)) = SubSeq(s, k, Len(s))
    BY <1>1, Split
  <1>3. /\ SubSeq(s, 1, k) # << >>
        /\ Last(SubSeq(s, 1, k)) = s[k]
    <2>1. SubSeq(s, 1, k) # << >>
      BY <1>1, Split
    <2>2. Last(SubSeq(s, 1, k)) = s[k]
      BY <1>1, Split
    <2>3. QED
      BY <2>1, <2>2
  <1>4. Front(SubSeq(s, 1, k)) = SubSeq(s, 1, k - 1)
    BY <1>1, Split
  <1>5. QED
    BY <1>1, <1>2, <1>3, <1>4

\* ... and the one behind it.
LEMMA ItemBehind ==
    ASSUME NEW S, NEW s \in Seq(S), NEW k \in 0..Len(s), k < Len(s)
    PROVE  /\ s[k + 1] \in S /\ SubSeq(s, k + 1, Len(s)) # << >>
           /\ Head(SubSeq(s, k + 1, Len(s))) = s[k + 1]
           /\ Tail(SubSeq(s, k + 1, Len(s))) = SubSeq(s, k + 2, Len(s))
           /\ Append(SubSeq(s, 1, k), s[k + 1]) = SubSeq(s, 1, k + 1)
  <1>1. Len(s) \in Nat /\ k # Len(s) /\ k + 1 \in 1..Len(s)
    BY LenProperties
  <1>2. s[k + 1] \in S
    BY <1>1, ElementOfSeq
  <1>3. QED
    BY <1>1, <1>2, Split

-----------------------------------------------------------------------------
(* The inductive invariant.                                                *)

\* The history stays within its limit, and ends with the command just typed.
LEMMA HistoryGrows ==
    ASSUME NEW h \in Seq(Line), Len(h) <= MAX_HISTORY_SIZE, NEW c \in Line
    PROVE  addToHistory(h, c) \in Seq(Line) /\ Len(addToHistory(h, c)) <= MAX_HISTORY_SIZE
  <1>1. MAX_HISTORY_SIZE \in Nat \ {0} /\ Len(h) \in Nat
    BY ConsoleAssumption, LenProperties
  <1>2. /\ Append(h, c) \in Seq(Line) /\ Append(h, c) # << >>
        /\ Len(Append(h, c)) = Len(h) + 1
    BY AppendProperties
  <1>3. Tail(Append(h, c)) \in Seq(Line) /\ Len(Tail(Append(h, c))) = Len(h)
    BY <1>1, <1>2, HeadTailProperties
  <1>4. QED
    BY <1>1, <1>2, <1>3 DEF addToHistory

\* The line, its length and its empty value are those of a sequence.
LEMMA LineFacts ==
    ASSUME TypeOK
    PROVE  /\ Len(input) \in Nat /\ Len(commandHistory) \in Nat
           /\ << >> \in Line /\ Len(<< >>) = 0
           /\ input # << >> => Len(input) > 0
           /\ \A i \in 1..Len(commandHistory) : commandHistory[i] \in Line
           /\ \A l \in Line : Len(l) \in Nat
  <1>1. input \in Seq(Chars) /\ commandHistory \in Seq(Line)
    BY DEF TypeOK, Line
  <1>2. QED
    BY <1>1, LenProperties, EmptySeq, ElementOfSeq DEF Line

\* Every step keeps the inductive invariant.
LEMMA NextIInv == IInv /\ [Next]_vars => IInv'
  <1>1. SUFFICES ASSUME IInv, [Next]_vars PROVE IInv'
    OBVIOUS
  <1>2. /\ TypeOK /\ IndexesInRange /\ ShownIsExecuted /\ CopyOK
        /\ input \in Seq(Chars) /\ cursorPosition \in Nat /\ historyIndex \in Nat
    BY <1>1 DEF IInv, TypeOK, Line
  <1>3. ASSUME NEW c \in Chars, PressChar(c)
        PROVE  IInv'
    <2>1. cursorPosition \in 0..Len(input)
      BY <1>2, LineFacts DEF IndexesInRange
    <2>2. input' \in Seq(Chars) /\ Len(input') = Len(input) + 1
      BY <1>2, <1>3, <2>1, Inserted DEF PressChar
    <2>3. TypeOK'
      BY <1>2, <1>3, <2>2 DEF PressChar, TypeOK, Line
    <2>4. IndexesInRange'
      BY <1>2, <1>3, <2>2, LineFacts DEF PressChar, IndexesInRange
    <2>5. QED
      BY <1>3, <2>3, <2>4 DEF PressChar, IInv, ShownIsExecuted, CopyOK
  <1>4. CASE PressBackspace
    <2>1. cursorPosition \in 1..Len(input)
      BY <1>2, <1>4, LineFacts DEF IndexesInRange, PressBackspace
    <2>2. input' \in Seq(Chars) /\ Len(input') = Len(input) - 1
      BY <1>2, <1>4, <2>1, Removed DEF PressBackspace
    <2>3. TypeOK'
      BY <1>2, <1>4, <2>1, <2>2 DEF PressBackspace, TypeOK, Line
    <2>4. IndexesInRange'
      BY <1>2, <1>4, <2>1, <2>2, LineFacts DEF PressBackspace, IndexesInRange
    <2>5. QED
      BY <1>4, <2>3, <2>4 DEF PressBackspace, IInv, ShownIsExecuted, CopyOK
  <1>5. CASE PressDelete
    <2>1. cursorPosition + 1 \in 1..Len(input)
      BY <1>2, <1>5, LineFacts DEF PressDelete
    <2>2. input' \in Seq(Chars) /\ Len(input') = Len(input) - 1
      BY <1>2, <1>5, <2>1, Removed DEF PressDelete
    <2>3. TypeOK'
      BY <1>2, <1>5, <2>2 DEF PressDelete, TypeOK, Line
    <2>4. IndexesInRange'
      BY <1>2, <1>5, <2>1, <2>2, LineFacts DEF PressDelete, IndexesInRange
    <2>5. QED
      BY <1>2, <1>5, <2>3, <2>4 DEF PressDelete, IInv, ShownIsExecuted, CopyOK
  <1>6. CASE AssignCurrentInput
    BY <1>2, <1>6 DEF AssignCurrentInput, IInv, TypeOK, IndexesInRange, ShownIsExecuted, CopyOK
  <1>7. CASE RedrawInputLine
    BY <1>2, <1>7 DEF RedrawInputLine, IInv, TypeOK, IndexesInRange, ShownIsExecuted, CopyOK
  <1>8. ASSUME NEW l \in Line, recall(l), pc = "poll",
               historyIndex' \in Nat, historyIndex' <= Len(commandHistory)
        PROVE  IInv'
    <2>1. TypeOK' /\ IndexesInRange'
      BY <1>2, <1>8, LineFacts DEF recall, TypeOK, IndexesInRange
    <2>2. ShownIsExecuted' /\ CopyOK'
      BY <1>8 DEF recall, ShownIsExecuted, CopyOK
    <2>3. QED
      BY <2>1, <2>2 DEF IInv
  <1>9. CASE NavigateHistoryUp
    <2>1. /\ historyIndex' \in Nat /\ historyIndex' <= Len(commandHistory)
          /\ historyIndex' + 1 \in 1..Len(commandHistory)
      BY <1>2, <1>9, LineFacts DEF NavigateHistoryUp, IndexesInRange
    <2>2. QED
      BY <1>2, <1>8, <1>9, <2>1, LineFacts DEF NavigateHistoryUp
  <1>10. CASE NavigateHistoryDown
    <2>1. /\ historyIndex' \in Nat /\ historyIndex' <= Len(commandHistory)
          /\ ~(historyIndex' >= Len(commandHistory)) =>
                 historyIndex' + 1 \in 1..Len(commandHistory)
      BY <1>2, <1>10, LineFacts DEF NavigateHistoryDown
    <2>2. QED
      BY <1>2, <1>8, <1>10, <2>1, LineFacts DEF NavigateHistoryDown
  <1>11. CASE MoveCursor
    <2>1. cursorPosition' \in Nat /\ cursorPosition' <= Len(input)
      BY <1>2, <1>11, LineFacts DEF MoveCursor, IndexesInRange
    <2>2. QED
      BY <1>2, <1>11, <2>1 DEF MoveCursor, IInv, TypeOK, IndexesInRange, ShownIsExecuted, CopyOK
  <1>12. CASE PressEnter
    <2>1. TypeOK' /\ IndexesInRange'
      BY <1>2, <1>12, LineFacts DEF PressEnter, TypeOK, IndexesInRange
    <2>2. ShownIsExecuted' /\ CopyOK'
      BY <1>2, <1>12 DEF PressEnter, ShownIsExecuted, CopyOK
    <2>3. QED
      BY <2>1, <2>2 DEF IInv
  <1>13. CASE Submit
    <2>1. commandHistory' \in Seq(Line) /\ Len(commandHistory') <= MAX_HISTORY_SIZE
      BY <1>2, <1>13, HistoryGrows DEF Submit, TypeOK, Line
    <2>2. Len(commandHistory') \in Nat
      BY <2>1, LenProperties
    <2>3. TypeOK' /\ IndexesInRange'
      BY <1>2, <1>13, <2>1, <2>2, LineFacts DEF Submit, TypeOK, IndexesInRange
    <2>4. ShownIsExecuted' /\ CopyOK'
      BY <1>13 DEF Submit, ShownIsExecuted, CopyOK
    <2>5. QED
      BY <2>3, <2>4 DEF IInv
  <1>14. CASE HandlerReturns
    BY <1>2, <1>14 DEF HandlerReturns, IInv, TypeOK, IndexesInRange, ShownIsExecuted, CopyOK
  <1>15. CASE PrintPrompt
    BY <1>2, <1>15, LineFacts DEF PrintPrompt, IInv, TypeOK, IndexesInRange,
       ShownIsExecuted, CopyOK
  <1>16. CASE PrintLog
    BY <1>2, <1>16 DEF PrintLog, IInv, TypeOK, IndexesInRange, ShownIsExecuted, CopyOK
  <1>17. CASE UNCHANGED vars
    BY <1>2, <1>17 DEF vars, IInv, TypeOK, IndexesInRange, ShownIsExecuted, CopyOK
  <1>18. QED
    BY <1>1, <1>3, <1>4, <1>5, <1>6, <1>7, <1>9, <1>10, <1>11, <1>12, <1>13, <1>14, <1>15,
       <1>16, <1>17 DEF Next

\* The console starts with an empty line and an empty history.
LEMMA InitIInv == Init => IInv
  <1>1. SUFFICES ASSUME Init PROVE IInv
    OBVIOUS
  <1>2. TypeOK
    BY <1>1, ConsoleAssumption, EmptySeq DEF Init, TypeOK, Line
  <1>3. QED
    BY <1>1, <1>2, LineFacts DEF Init, IInv, IndexesInRange, ShownIsExecuted, CopyOK

\* The inductive invariant holds of every reachable state: it says where the
\* unsynchronised copy of the line can be trusted.
THEOREM Inductive == Spec => []IInv
  BY InitIInv, NextIInv, PTL DEF Spec

\* Line, copy, indexes and history keep their types, and the history its limit.
THEOREM TypeCorrect == Spec => []TypeOK
  <1>1. IInv => TypeOK
    BY DEF IInv
  <1>2. QED
    BY <1>1, Inductive, PTL

\* Neither insert, erase nor a look at the history is ever out of range, for any
\* sequence of keys and any MAX_HISTORY_SIZE.
THEOREM IndexesAlwaysInRange == Spec => []IndexesInRange
  <1>1. IInv => IndexesInRange
    BY DEF IInv
  <1>2. QED
    BY <1>1, Inductive, PTL

\* Enter executes what the screen shows, whenever other threads have logged.
THEOREM ShownIsAlwaysExecuted == Spec => []ShownIsExecuted
  <1>1. IInv => ShownIsExecuted
    BY DEF IInv
  <1>2. QED
    BY <1>1, Inductive, PTL

-----------------------------------------------------------------------------
(* ConsoleUI implements LineEditor.                                        *)

Left  == SubSeq(input, 1, cursorPosition)
Right == SubSeq(input, cursorPosition + 1, Len(input))
Older == SubSeq(commandHistory, 1, historyIndex)
Newer == SubSeq(commandHistory, historyIndex + 1, Len(commandHistory))

\* Adding a command and dropping the oldest, and dropping the oldest and adding
\* a command, are the same.
LEMMA SameHistory ==
    ASSUME NEW h \in Seq(Line), Len(h) <= MAX_HISTORY_SIZE, NEW c \in Line
    PROVE  addToHistory(h, c) = Edits!remember(h, c)
  <1>1. MAX_HISTORY_SIZE \in Nat \ {0} /\ Len(h) \in Nat
    BY ConsoleAssumption, LenProperties
  <1>2. /\ Append(h, c) \in Seq(Line) /\ Append(h, c) # << >>
        /\ Len(Append(h, c)) = Len(h) + 1
        /\ \A i \in 1..Len(h) : Append(h, c)[i] = h[i]
        /\ Append(h, c)[Len(h) + 1] = c
    BY AppendProperties
  <1>3. ASSUME Len(h) = MAX_HISTORY_SIZE
        PROVE  Tail(Append(h, c)) = Append(Tail(h), c)
    <2>1. /\ Tail(Append(h, c)) \in Seq(Line) /\ Len(Tail(Append(h, c))) = Len(h)
          /\ \A i \in 1..Len(h) : Tail(Append(h, c))[i] = Append(h, c)[i + 1]
      BY <1>1, <1>2, HeadTailProperties
    <2>2. /\ Tail(h) \in Seq(Line) /\ Len(Tail(h)) = Len(h) - 1
          /\ \A i \in 1..(Len(h) - 1) : Tail(h)[i] = h[i + 1]
      BY <1>1, <1>3, HeadTailProperties, EmptySeq
    <2>3. /\ Append(Tail(h), c) \in Seq(Line) /\ Len(Append(Tail(h), c)) = Len(h)
          /\ \A i \in 1..(Len(h) - 1) : Append(Tail(h), c)[i] = Tail(h)[i]
          /\ Append(Tail(h), c)[Len(h)] = c
      BY <1>1, <1>3, <2>2, AppendProperties
    <2>4. \A i \in 1..Len(h) : Tail(Append(h, c))[i] = Append(Tail(h), c)[i]
      <3>1. \A i \in 1..Len(h) : i < Len(h) \/ i = Len(h)
        BY <1>1
      <3>2. ASSUME NEW i \in 1..Len(h), i < Len(h)
            PROVE  Tail(Append(h, c))[i] = h[i + 1] /\ Append(Tail(h), c)[i] = h[i + 1]
        <4>1. i \in 1..(Len(h) - 1) /\ i + 1 \in 1..Len(h)
          BY <1>1, <3>2
        <4>2. QED
          BY <1>2, <2>1, <2>2, <2>3, <4>1
      <3>3. QED
        BY <1>1, <1>2, <2>1, <2>3, <3>1, <3>2
    <2>5. QED
      BY <2>1, <2>3, <2>4, SeqEqual
  <1>4. Last(h) = Edits!Last(h)
    BY DEF Last, Edits!Last
  <1>5. Len(Append(h, c)) > MAX_HISTORY_SIZE <=> Len(h) = MAX_HISTORY_SIZE
    BY <1>1, <1>2
  <1>6. QED
    BY <1>3, <1>4, <1>5 DEF addToHistory, Edits!remember

\* The text around the caret and the commands around the recalled one.
LEMMA Views ==
    ASSUME IInv
    PROVE  /\ cursorPosition \in 0..Len(input) /\ historyIndex \in 0..Len(commandHistory)
           /\ input \in Seq(Chars) /\ commandHistory \in Seq(Line)
           /\ Left \o Right = input /\ Older \o Newer = commandHistory
           /\ Left = << >> <=> cursorPosition = 0
           /\ Right = << >> <=> cursorPosition = Len(input)
           /\ Older = << >> <=> historyIndex = 0
           /\ Newer = << >> <=> historyIndex = Len(commandHistory)
  <1>1. /\ input \in Seq(Chars) /\ commandHistory \in Seq(Line)
        /\ cursorPosition \in 0..Len(input) /\ historyIndex \in 0..Len(commandHistory)
    BY LineFacts DEF IInv, TypeOK, Line, IndexesInRange
  <1>2. QED
    BY <1>1, Split DEF Left, Right, Older, Newer

\* With the caret behind a line, all of it is before the caret.
LEMMA CaretBehind ==
    ASSUME NEW S, NEW s \in Seq(S)
    PROVE  SubSeq(s, 1, Len(s)) = s /\ SubSeq(s, Len(s) + 1, Len(s)) = << >>
  <1>1. Len(s) \in Nat /\ Len(s) \in 0..Len(s)
    BY LenProperties
  <1>2. QED
    BY <1>1, Split, SubSeqFull

\* Every step of the console is a step of the editor or leaves it alone.
LEMMA StepRefines ==
    IInv /\ IInv' /\ [Next]_vars => [Edits!Next]_<<Edits!edit, Edits!history>>
  <1>1. SUFFICES ASSUME IInv, IInv', [Next]_vars
                 PROVE  [Edits!Next]_<<Edits!edit, Edits!history>>
    OBVIOUS
  <1>2. /\ cursorPosition \in 0..Len(input) /\ historyIndex \in 0..Len(commandHistory)
        /\ Len(input) \in Nat /\ Len(commandHistory) \in Nat
        /\ input \in Seq(Chars) /\ commandHistory \in Seq(Line)
    BY <1>1, Views, LenProperties
  <1>after. /\ cursorPosition' \in 0..Len(input') /\ historyIndex' \in 0..Len(commandHistory')
        /\ input' \in Seq(Chars) /\ commandHistory' \in Seq(Line)
    BY <1>1, LenProperties DEF IInv, TypeOK, Line, IndexesInRange
  <1>3. ASSUME input' = input, cursorPosition' = cursorPosition,
               commandHistory' = commandHistory, historyIndex' = historyIndex
        PROVE  UNCHANGED <<Edits!edit, Edits!history>>
    BY <1>3 DEF Edits!edit, Edits!history
  <1>4. ASSUME commandHistory' = commandHistory, historyIndex' = historyIndex
        PROVE  UNCHANGED Edits!history
    BY <1>4 DEF Edits!history
  <1>5. ASSUME NEW c \in Chars, PressChar(c)
        PROVE  Edits!Insert
    <2>1. /\ input' = InsertAt(input, cursorPosition + 1, c)
          /\ cursorPosition' = cursorPosition + 1
          /\ commandHistory' = commandHistory /\ historyIndex' = historyIndex
      BY <1>5 DEF PressChar
    <2>2. /\ SubSeq(input', 1, cursorPosition + 1) = Append(Left, c)
          /\ SubSeq(input', cursorPosition + 2, Len(input')) = Right
      <3>1. c \in Chars /\ input \in Seq(Chars) /\ cursorPosition \in 0..Len(input)
        BY <1>2, <1>5
      <3> DEFINE t == InsertAt(input, cursorPosition + 1, c)
      <3>2. SubSeq(t, 1, cursorPosition + 1) = Append(SubSeq(input, 1, cursorPosition), c)
        BY <3>1, Inserted
      <3>3. SubSeq(t, cursorPosition + 2, Len(t))
              = SubSeq(input, cursorPosition + 1, Len(input))
        BY <3>1, Inserted
      <3>4. input' = t
        BY <2>1
      <3> HIDE DEF t
      <3>5. QED
        BY <3>2, <3>3, <3>4 DEF Left, Right
    <2>3. cursorPosition' + 1 = cursorPosition + 2
      BY <1>2, <2>1
    <2>4. Left' = Append(Left, c) /\ Right' = Right
      BY <2>1, <2>2, <2>3 DEF Left, Right
    <2>5. QED
      BY <1>4, <2>1, <2>4 DEF Edits!Insert, Left, Right
  <1>6. ASSUME PressBackspace PROVE Edits!Backspace
    <2>1. /\ input' = RemoveAt(input, cursorPosition) /\ cursorPosition > 0
          /\ cursorPosition' = cursorPosition - 1
          /\ commandHistory' = commandHistory /\ historyIndex' = historyIndex
      BY <1>6 DEF PressBackspace
    <2>2. cursorPosition \in 1..Len(input) /\ cursorPosition' + 1 = cursorPosition
      BY <1>2, <2>1
    <2>3. /\ SubSeq(input', 1, cursorPosition - 1) = SubSeq(input, 1, cursorPosition - 1)
          /\ SubSeq(input', cursorPosition, Len(input')) = Right
      BY <1>2, <2>1, <2>2, Removed DEF Right
    <2>4. Left # << >> /\ Front(Left) = SubSeq(input, 1, cursorPosition - 1)
      BY <1>2, <2>2, ItemBefore DEF Left
    <2>5. Left' = Edits!Front(Left) /\ Right' = Right
      BY <2>1, <2>2, <2>3, <2>4 DEF Left, Right, Front, Edits!Front
    <2>6. QED
      BY <1>4, <2>1, <2>4, <2>5 DEF Edits!Backspace, Left, Right
  <1>7. ASSUME PressDelete PROVE Edits!Delete
    <2>1. /\ input' = RemoveAt(input, cursorPosition + 1) /\ cursorPosition < Len(input)
          /\ cursorPosition' = cursorPosition
          /\ commandHistory' = commandHistory /\ historyIndex' = historyIndex
      BY <1>7 DEF PressDelete
    <2>2. /\ cursorPosition + 1 \in 1..Len(input) /\ cursorPosition + 1 - 1 = cursorPosition
          /\ cursorPosition + 1 + 1 = cursorPosition + 2
      BY <1>2, <2>1
    <2>3. /\ SubSeq(input', 1, cursorPosition) = Left
          /\ SubSeq(input', cursorPosition + 1, Len(input'))
                = SubSeq(input, cursorPosition + 2, Len(input))
      <3>1. PICK k \in 1..Len(input) : /\ k = cursorPosition + 1 /\ k - 1 = cursorPosition
                                       /\ k + 1 = cursorPosition + 2
        BY <1>2, <2>2
      <3>2. /\ SubSeq(input', 1, k - 1) = SubSeq(input, 1, k - 1)
            /\ SubSeq(input', k, Len(input')) = SubSeq(input, k + 1, Len(input))
        BY <1>2, <2>1, <3>1, Removed
      <3>3. QED
        BY <3>1, <3>2 DEF Left
    <2>4. Right # << >> /\ Tail(Right) = SubSeq(input, cursorPosition + 2, Len(input))
      BY <1>2, <2>1, ItemBehind DEF Right
    <2>5. Right' = Tail(Right) /\ Left' = Left
      BY <2>1, <2>3, <2>4 DEF Left, Right
    <2>6. QED
      BY <1>4, <2>1, <2>4, <2>5 DEF Edits!Delete, Left, Right
  <1>8. ASSUME MoveCursor PROVE Edits!Move
    <2>1. input' = input /\ commandHistory' = commandHistory /\ historyIndex' = historyIndex
      BY <1>8 DEF MoveCursor
    <2>2. Left \o Right = input /\ (Left \o Right = input)'
      BY <1>1, <1>after, Views, Split DEF Left, Right
    <2>3. QED
      BY <1>4, <2>1, <2>2 DEF Edits!Move, Left, Right
  <1>9. ASSUME NEW l \in Line, recall(l)
        PROVE  Left' = l /\ Right' = << >>
    <2>1. input' = l /\ cursorPosition' = Len(l) /\ l \in Seq(Chars)
      BY <1>9 DEF recall, Line
    <2>2. QED
      BY <2>1, CaretBehind DEF Left, Right
  <1>10. ASSUME NavigateHistoryUp PROVE Edits!Up
    <2>1. /\ historyIndex > 0 /\ historyIndex' = historyIndex - 1
          /\ recall(commandHistory[historyIndex' + 1]) /\ commandHistory' = commandHistory
      BY <1>10 DEF NavigateHistoryUp, recall
    <2>2. historyIndex \in 1..Len(commandHistory) /\ historyIndex' + 1 = historyIndex
      BY <1>2, <2>1
    <2>3. commandHistory[historyIndex] \in Line
      BY <1>2, <2>2, ElementOfSeq
    <2>4. /\ Older # << >> /\ Last(Older) = commandHistory[historyIndex]
          /\ Front(Older) = SubSeq(commandHistory, 1, historyIndex - 1)
          /\ <<commandHistory[historyIndex]>> \o Newer
                = SubSeq(commandHistory, historyIndex, Len(commandHistory))
      BY <1>2, <2>2, ItemBefore DEF Older, Newer
    <2>5. Left' = Last(Older) /\ Right' = << >>
      BY <1>9, <2>1, <2>2, <2>3, <2>4
    <2>6. Older' = Front(Older) /\ Newer' = <<Last(Older)>> \o Newer
      BY <2>1, <2>2, <2>4 DEF Older, Newer
    <2>7. Edits!Front(Older) = Front(Older) /\ Edits!Last(Older) = Last(Older)
      BY DEF Front, Edits!Front, Last, Edits!Last
    <2>8. QED
      BY <2>4, <2>5, <2>6, <2>7 DEF Edits!Up, Left, Right, Older, Newer
  <1>11. ASSUME NavigateHistoryDown PROVE Edits!Down
    <2> DEFINE line == IF historyIndex' >= Len(commandHistory) THEN << >>
                       ELSE commandHistory[historyIndex' + 1]
    <2>1. /\ historyIndex < Len(commandHistory) /\ historyIndex' = historyIndex + 1
          /\ recall(line) /\ commandHistory' = commandHistory
      BY <1>11 DEF NavigateHistoryDown, recall
    <2>2. /\ historyIndex' \in 0..Len(commandHistory) /\ historyIndex' + 1 = historyIndex + 2
          /\ historyIndex' >= Len(commandHistory) <=> historyIndex' = Len(commandHistory)
          /\ historyIndex' < Len(commandHistory) => historyIndex' + 1 \in 1..Len(commandHistory)
      BY <1>2, <2>1
    <2>3. line \in Line
      BY <1>2, <2>2, ElementOfSeq, EmptySeq DEF Line
    <2>4. /\ Newer # << >> /\ Head(Newer) = commandHistory[historyIndex + 1]
          /\ Tail(Newer) = SubSeq(commandHistory, historyIndex + 2, Len(commandHistory))
          /\ Append(Older, commandHistory[historyIndex + 1])
                = SubSeq(commandHistory, 1, historyIndex + 1)
      BY <1>2, <2>1, ItemBehind DEF Older, Newer
    <2>5. /\ Newer' = << >> <=> historyIndex' = Len(commandHistory)
          /\ historyIndex' < Len(commandHistory) =>
                 Head(Newer') = commandHistory[historyIndex' + 1]
      BY <1>2, <2>1, <2>2, Split DEF Newer
    <2>6. line = IF Newer' = << >> THEN << >> ELSE Head(Newer')
      BY <2>2, <2>5
    <2>7. Left' = line /\ Right' = << >>
      BY <1>9, <2>1, <2>3
    <2>8. Older' = Append(Older, Head(Newer)) /\ Newer' = Tail(Newer)
      BY <2>1, <2>2, <2>4 DEF Older, Newer
    <2> HIDE DEF line
    <2>9. QED
      BY <2>4, <2>6, <2>7, <2>8 DEF Edits!Down, Left, Right, Older, Newer
  <1>12. ASSUME Submit PROVE Edits!Submit
    <2>1. /\ pc = "submit" /\ commandHistory' = addToHistory(commandHistory, input)
          /\ historyIndex' = Len(commandHistory') /\ input' = << >> /\ cursorPosition' = 0
      BY <1>12 DEF Submit
    <2>2. Left \o Right = input /\ Older \o Newer = commandHistory /\ input # << >>
      BY <1>1, <2>1, Views DEF IInv, CopyOK
    <2>3. commandHistory' = Edits!remember(Older \o Newer, Left \o Right)
      BY <1>1, <1>2, <2>1, <2>2, SameHistory DEF IInv, TypeOK, Line
    <2>4. Older' = commandHistory' /\ Newer' = << >>
      BY <1>after, <2>1, CaretBehind DEF Older, Newer
    <2>5. Left' = << >> /\ Right' = << >>
      <3>1. << >> \in Seq(Chars) /\ Len(<< >>) = 0
        BY EmptySeq
      <3>2. QED
        BY <2>1, <3>1, CaretBehind DEF Left, Right
    <2>6. QED
      BY <2>2, <2>3, <2>4, <2>5 DEF Edits!Submit, Left, Right, Older, Newer
  <1>13. CASE PrintPrompt
    <2>1. /\ input' = input /\ cursorPosition' = 0 /\ input = << >>
          /\ commandHistory' = commandHistory /\ historyIndex' = historyIndex
      BY <1>1, <1>13 DEF PrintPrompt, IInv, CopyOK
    <2>2. cursorPosition = 0
      BY <1>2, <2>1, EmptySeq
    <2>3. QED
      BY <1>3, <2>1, <2>2
  <1>14. CASE AssignCurrentInput \/ RedrawInputLine \/ PressEnter \/ HandlerReturns \/ PrintLog
    BY <1>3, <1>14
       DEF AssignCurrentInput, RedrawInputLine, PressEnter, HandlerReturns, PrintLog
  <1>15. CASE UNCHANGED vars
    BY <1>3, <1>15 DEF vars
  <1>16. QED
    BY <1>1, <1>5, <1>6, <1>7, <1>8, <1>10, <1>11, <1>12, <1>13, <1>14, <1>15
       DEF Next, Edits!Next

\* The console, its unsynchronised copy, its indexes and its history implement
\* the editor, for any keyboard and any MAX_HISTORY_SIZE.
THEOREM ConsoleRefinesEditor == Spec => EditsImplementLine
  <1>1. Init => Edits!Init
    <2>1. << >> \in Seq(Chars) /\ << >> \in Seq(Line) /\ Len(<< >>) = 0
      BY EmptySeq
    <2>2. QED
      BY <2>1, CaretBehind DEF Init, Edits!Init
  <1>2. QED
    BY <1>1, StepRefines, Inductive, PTL DEF Spec, EditsImplementLine, Edits!Spec
=============================================================================
