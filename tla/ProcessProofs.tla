---------------------------- MODULE ProcessProofs ----------------------------
(***************************************************************************)
(* Proofs about Process, for any number of starts, edits and connections,  *)
(* and for either behaviour of a mutex that is locked twice.               *)
(***************************************************************************)
EXTENDS Process, TLAPS

-----------------------------------------------------------------------------
(* Steps.                                                                  *)

\* A statement moves its thread, and touches nothing shared but the mutex.
LEMMA StatementStep ==
    ASSUME TypeOK, NEW t \in Thread, NEW next \in Label,
           statement(t, next) \/ statementHangs(t)
    PROVE  /\ pc' \in [Thread -> Label] /\ pc'[t] \in {next, "stuck"}
           /\ \A u \in Thread \ {t} : pc'[u] = pc[u]
           /\ mem' \in Mem
           /\ mem'.running = mem.running /\ mem'.told = mem.told /\ mem'.db = mem.db
           /\ mem'.isListening = mem.isListening /\ mem'.stopped = mem.stopped
           /\ mem'.late = mem.late
  <1>1. \/ mem' = mem /\ pc' = [pc EXCEPT ![t] = next]
        \/ mem' = [mem EXCEPT !.mutex = t] /\ pc' = [pc EXCEPT ![t] = "stuck"]
    BY DEF statement, statementHangs, goto
  <1>2. mem \in Mem /\ pc \in [Thread -> Label]
    BY DEF TypeOK
  <1>3. "stuck" \in Label
    BY DEF Label
  <1>4. pc' \in [Thread -> Label] /\ pc'[t] \in {next, "stuck"}
        /\ \A u \in Thread \ {t} : pc'[u] = pc[u]
    BY <1>1, <1>2, <1>3
  <1>5. [mem EXCEPT !.mutex = t] \in Mem
    BY <1>2 DEF Mem
  <1>6. QED
    BY <1>1, <1>2, <1>4, <1>5 DEF Mem

\* Starting a thread moves the first one and the new one.
LEMMA SpawnStep ==
    ASSUME TypeOK, StartServer \/ StartInputLoop
    PROVE  /\ pc' \in [Thread -> Label] /\ mem' \in Mem
           /\ pc'["main"] \in {"input", "flag"} /\ pc'["handler"] = pc["handler"]
           /\ pc'["input"] \in {pc["input"], "loop"} /\ pc'["server"] \in {pc["server"], "listen"}
           /\ mem'.running = mem.running /\ mem'.told = mem.told /\ mem'.db = mem.db
           /\ mem'.isListening = mem.isListening /\ mem'.stopped = mem.stopped
           /\ mem'.late = mem.late
  <1>1. mem \in Mem /\ pc \in [Thread -> Label]
    BY DEF TypeOK
  <1>2. CASE StartServer
    <2>1. pc' = [pc EXCEPT !["main"] = "input", !["server"] = "listen"] /\ mem' = mem
      BY <1>2 DEF StartServer
    <2>2. QED
      BY <1>1, <2>1 DEF Thread, Label
  <1>3. CASE StartInputLoop
    <2>1. /\ pc' = [pc EXCEPT !["main"] = "flag", !["input"] = "loop"]
          /\ mem' = [mem EXCEPT !.uiRunning = TRUE]
      BY <1>3 DEF StartInputLoop
    <2>2. /\ mem' \in Mem
          /\ mem'.running = mem.running /\ mem'.told = mem.told /\ mem'.db = mem.db
          /\ mem'.isListening = mem.isListening /\ mem'.stopped = mem.stopped
          /\ mem'.late = mem.late
      BY <1>1, <2>1 DEF Mem
    <2>3. QED
      BY <1>1, <2>1, <2>2 DEF Thread, Label
  <1>4. QED
    BY <1>2, <1>3

\* Neither a new connection nor the end of the console concerns the other threads.
LEMMA QuietSteps ==
    ASSUME TypeOK, Arrive \/ (DropUI /\ ~ends)
    PROVE  /\ pc' \in [Thread -> Label] /\ mem' \in Mem
           /\ pc'["main"] = pc["main"] \/ (pc["main"] = "dropUI" /\ pc'["main"] = "join")
           /\ \A t \in Thread \ {"main"} : pc'[t] = pc[t]
           /\ mem'.running = mem.running /\ mem'.told = mem.told /\ mem'.db = mem.db
           /\ mem'.isListening = mem.isListening /\ mem'.stopped = mem.stopped
           /\ mem'.late = mem.late
  <1>1. mem \in Mem /\ pc \in [Thread -> Label]
    BY DEF TypeOK
  <1>2. CASE Arrive
    <2>1. pc' = pc /\ mem' = [mem EXCEPT !.waiting = mem.waiting + 1, !.made = mem.made + 1]
      BY <1>2 DEF Arrive
    <2>2. mem.waiting + 1 \in Nat /\ mem.made + 1 \in Nat
      BY <1>1 DEF Mem
    <2>3. QED
      BY <1>1, <2>1, <2>2 DEF Mem
  <1>3. CASE DropUI /\ ~ends
    <2>1. /\ pc["main"] = "dropUI" /\ pc' = [pc EXCEPT !["main"] = "join"]
          /\ mem' = [mem EXCEPT !.uiRunning = FALSE]
      BY <1>3 DEF DropUI, goto
    <2>2. /\ mem' \in Mem
          /\ mem'.running = mem.running /\ mem'.told = mem.told /\ mem'.db = mem.db
          /\ mem'.isListening = mem.isListening /\ mem'.stopped = mem.stopped
          /\ mem'.late = mem.late
      BY <1>1, <2>1 DEF Mem
    <2>3. QED
      BY <1>1, <2>1, <2>2 DEF Thread, Label
  <1>4. QED
    BY <1>2, <1>3

\* An accepted connection is late if the server has been stopped.
LEMMA AcceptStep ==
    ASSUME TypeOK, Accept
    PROVE  /\ mem' \in Mem /\ pc' \in [Thread -> Label] /\ pc'["server"] \in {"handle", "loop"}
           /\ \A u \in Thread \ {"server"} : pc'[u] = pc[u]
           /\ mem'.running = mem.running /\ mem'.told = mem.told /\ mem'.db = mem.db
           /\ mem'.isListening = mem.isListening /\ mem'.stopped = mem.stopped
           /\ mem'.late = mem.late \/ (mem.stopped /\ mem'.late = mem.late + 1)
  <1>1. mem \in Mem /\ pc \in [Thread -> Label]
    BY DEF TypeOK
  <1>2. pc' \in [Thread -> Label] /\ pc'["server"] \in {"handle", "loop"}
        /\ \A u \in Thread \ {"server"} : pc'[u] = pc[u]
    BY <1>1 DEF Accept, goto, Thread, Label
  <1>3. CASE mem' = mem
    BY <1>1, <1>2, <1>3
  <1>4. CASE /\ mem.waiting > 0
             /\ mem' = [mem EXCEPT !.waiting = @ - 1,
                                   !.late = IF mem.stopped THEN @ + 1 ELSE @]
    <2>1. mem.waiting \in Nat /\ mem.late \in Nat
      BY <1>1 DEF Mem
    <2> DEFINE w == mem.waiting - 1
               l == IF mem.stopped THEN mem.late + 1 ELSE mem.late
    <2>2. w \in Nat /\ l \in Nat
      BY <1>4, <2>1
    <2>3. mem' = [mem EXCEPT !.waiting = w, !.late = l]
      BY <1>4
    <2> HIDE DEF w, l
    <2>4. /\ mem' \in Mem /\ mem'.late = l
          /\ mem'.running = mem.running /\ mem'.told = mem.told /\ mem'.db = mem.db
          /\ mem'.isListening = mem.isListening /\ mem'.stopped = mem.stopped
      BY <1>1, <2>2, <2>3 DEF Mem
    <2>5. QED
      BY <1>2, <2>4 DEF l
  <1>5. QED
    BY <1>3, <1>4 DEF Accept

\* When the process ends, everything about its threads begins anew.
LEMMA EndedOK ==
    ASSUME IInv, ends, UNCHANGED disk
    PROVE  IInv'
  <1>1. NoThreads \in [Thread -> Label] /\ Booted \in Mem
    BY DEF NoThreads, Booted, Mem, Thread, Label
  <1>2. /\ process' = "off" /\ pc' = NoThreads /\ mem' = Booted
        /\ file' = file /\ data' = data /\ stored' = stored /\ keys' = keys
        /\ starts' = starts /\ edits' = edits /\ failed' = failed
    BY DEF ends, disk
  <1>3. TypeOK'
    BY <1>1, <1>2 DEF IInv, TypeOK
  <1>4. OffOK'
    BY <1>2 DEF OffOK
  <1>5. ShutdownOK'
    BY <1>2 DEF ShutdownOK, DestroyedAfterShutdown, NoThreads, Thread
  <1>6. ListenerOK'
    BY <1>2 DEF ListenerOK, Booted
  <1>7. FileOK'
    BY <1>2 DEF IInv, FileOK
  <1>8. QED
    BY <1>3, <1>4, <1>5, <1>6, <1>7 DEF IInv

-----------------------------------------------------------------------------
(* The configuration file.                                                 *)

\* A start completes the file, and begins with what it has read.
LEMMA StartOK ==
    ASSUME IInv, Start
    PROVE  IInv'
  <1> DEFINE none == IF file = NoFile THEN 1 ELSE 0
             read == IF file = NoFile THEN generatedDefaultConfig(keys + 1) ELSE file
             kept == IF isValid(read) THEN read ELSE generatedDefaultConfig(keys + none + 1)
             more == none + (IF isValid(read) THEN 0 ELSE 1)
             good == startable(read) /\ "trustedPeerList" \in kept.entries
  <1>1. /\ process = "off" /\ starts < MaxStarts /\ starts' = starts + 1
        /\ file' = kept /\ keys' = keys + none + (IF isValid(read) THEN 0 ELSE 1)
        /\ stored' = stored /\ mem' = mem /\ edits' = edits
        /\ \/ /\ good /\ data' = read /\ failed' = 0 /\ process' = "runs"
              /\ pc' = [pc EXCEPT !["main"] = "init"]
           \/ /\ ~good /\ failed' = failed + 1
              /\ data' = data /\ process' = process /\ pc' = pc
    BY DEF Start, goto
  <1>2. /\ TypeOK /\ OffOK /\ FileOK /\ pc = NoThreads /\ mem = Booted
        /\ keys \in Nat /\ starts \in Nat /\ MaxStarts \in Nat
        /\ keys <= 2 * starts
    BY <1>1, ProcessAssumption DEF IInv, OffOK, TypeOK, FileOK
  <1>3. keys + 1 \in 0..2 * MaxStarts /\ keys + none + 1 \in 0..2 * MaxStarts
    BY <1>1, <1>2
  <1>4. ASSUME NEW k \in 0..2 * MaxStarts
        PROVE  generatedDefaultConfig(k) \in File /\ isValid(generatedDefaultConfig(k))
    BY <1>4 DEF generatedDefaultConfig, File, isValid
  <1>5. read \in File /\ kept \in File /\ isValid(kept)
    BY <1>2, <1>3, <1>4 DEF TypeOK
  <1>6. kept # NoFile
    BY <1>5, FileAssumption
  <1>7. isValid(read) => good /\ kept = read
    BY <1>5 DEF isValid, startable, Entry, ConfigField
  <1>8. file = NoFile => isValid(read)
    BY <1>3, <1>4
  <1>9. more \in 0..2 /\ (file # NoFile => more <= 1) /\ keys' = keys + more
    BY <1>1, <1>2
  <1>10. /\ file' \in File /\ data' \in File \cup {NoFile} /\ keys' \in 0..2 * MaxStarts
         /\ keys' <= 2 * starts' /\ starts' \in 0..MaxStarts /\ failed' \in Nat
    <2>1. keys' <= 2 * starts' /\ starts' \in 0..MaxStarts /\ keys' \in 0..2 * MaxStarts
      BY <1>1, <1>2, <1>9
    <2>2. file' \in File /\ data' \in File \cup {NoFile} /\ failed' \in Nat
      BY <1>1, <1>2, <1>5 DEF TypeOK
    <2>3. QED
      BY <2>1, <2>2
  <1>11. pc' \in [Thread -> Label] /\ \A t \in Thread : pc'[t] \in {"none", "init"}
    <2>1. /\ NoThreads \in [Thread -> Label] /\ "init" \in Label
          /\ \A t \in Thread : NoThreads[t] = "none"
      BY DEF NoThreads, Label
    <2>2. QED
      BY <1>1, <1>2, <2>1
  <1>12. TypeOK'
    BY <1>1, <1>2, <1>10, <1>11 DEF TypeOK
  <1>13. OffOK'
    BY <1>1, <1>2 DEF OffOK
  <1>14. ShutdownOK'
    BY <1>11 DEF ShutdownOK, DestroyedAfterShutdown, Thread
  <1>15. ListenerOK'
    BY <1>1, <1>2 DEF ListenerOK, Booted
  <1>16. FileOK'
    <2>1. failed' <= 1 /\ (failed' = 1 => file' # NoFile /\ isValid(file'))
      <3>1. failed = 0 \/ (failed = 1 /\ isValid(read))
        BY <1>2 DEF FileOK, TypeOK
      <3>2. QED
        BY <1>1, <1>5, <1>6, <1>7, <3>1
    <2>2. process' = "runs" => data' \in File
      BY <1>1, <1>5
    <2>3. edits' = 0 => isValid(read)
      BY <1>1, <1>2, <1>8 DEF FileOK
    <2>4. edits' = 0 => \A k \in stored' : k = file'.keys
      BY <1>1, <1>2, <1>7, <2>3 DEF FileOK
    <2>5. edits' = 0 /\ process' = "runs" => data' = file'
      BY <1>1, <1>7, <2>3
    <2>6. QED
      BY <1>1, <1>5, <1>6, <1>10, <2>1, <2>2, <2>4, <2>5 DEF FileOK
  <1>17. QED
    BY <1>12, <1>13, <1>14, <1>15, <1>16 DEF IInv

\* An edit damages the file, and with it the promises about an undamaged one.
LEMMA EditOK ==
    ASSUME IInv, NEW e \in Entry, EditConfig(e)
    PROVE  IInv'
  <1>1. /\ file # NoFile /\ file' = [file EXCEPT !.entries = @ \ {e}]
        /\ edits < MaxEdits /\ edits' = edits + 1 /\ failed' = 0
        /\ UNCHANGED <<data, stored, keys, process, pc, mem, starts>>
    BY DEF EditConfig
  <1>2. TypeOK /\ file \in File /\ edits \in Nat /\ MaxEdits \in Nat
    BY <1>1, ProcessAssumption DEF IInv, TypeOK
  <1>3. file' \in File
    BY <1>1, <1>2 DEF File
  <1>4. edits' \in 0..MaxEdits /\ edits' # 0
    BY <1>1, <1>2
  <1>5. TypeOK'
    BY <1>1, <1>2, <1>3, <1>4 DEF TypeOK
  <1>6. OffOK' /\ ShutdownOK' /\ ListenerOK'
    BY <1>1 DEF IInv, OffOK, ShutdownOK, DestroyedAfterShutdown, ListenerOK
  <1>7. FileOK'
    BY <1>1, <1>4 DEF IInv, FileOK
  <1>8. QED
    BY <1>5, <1>6, <1>7 DEF IInv

-----------------------------------------------------------------------------
(* The threads.                                                            *)

\* The steps in which the process goes on.
ThreadStep ==
    \/ InitStatement /\ ~ends
    \/ StartServer \/ StartInputLoop \/ SetRunning \/ LeaveLoop \/ DropServer \/ DropDB
    \/ DropUI /\ ~ends
    \/ \E t \in {"input", "handler"} : ShutdownStep(t)
    \/ RunCommand \/ LeaveInputLoop \/ StopUI \/ ServerStep
    \/ TypeExit \/ TypeCommand \/ Arrive \/ \E event \in Events : ConsoleEvent(event)

\* Only a running process has threads that take steps; the files change only
\* when a command stores a message.
LEMMA StepsWhileRunning ==
    ASSUME IInv, ThreadStep
    PROVE  /\ process = "runs" /\ process' = "runs"
           /\ file' = file /\ data' = data /\ keys' = keys /\ starts' = starts
           /\ edits' = edits /\ failed' = failed
           /\ stored' = stored \/ stored' = stored \cup {data.keys}
  <1>1. process = "off" => \A t \in Thread : pc[t] = "none"
    BY DEF IInv, OffOK, NoThreads
  <1>2. process \in {"off", "runs"}
    BY DEF IInv, TypeOK
  <1>3. \A t \in {"input", "handler"} : ShutdownStep(t) => pc[t] # "none" /\ UNCHANGED <<process, disk>>
    BY DEF ShutdownStep, StopServer, Disconnect, CloseDB, ClearRunning
  <1>4. ServerStep => pc["server"] # "none" /\ UNCHANGED <<process, disk>>
    BY DEF ServerStep, SetListening, ReadListening, Accept, HandleRequest
  <1>5. RunCommand =>
            /\ pc["input"] # "none" /\ UNCHANGED <<file, data, keys, process, starts, edits, failed>>
            /\ stored' = stored \/ stored' = stored \cup {data.keys}
    BY DEF RunCommand
  <1>6. InitStatement /\ ~ends => pc["main"] # "none" /\ UNCHANGED <<process, disk>>
    BY DEF InitStatement
  <1>7. DropUI /\ ~ends => pc["main"] # "none" /\ UNCHANGED <<process, disk>>
    BY DEF DropUI
  <1>8. StartServer \/ StartInputLoop \/ SetRunning \/ LeaveLoop \/ DropServer \/ DropDB
            => pc["main"] # "none" /\ UNCHANGED <<process, disk>>
    BY DEF StartServer, StartInputLoop, SetRunning, LeaveLoop, DropServer, DropDB
  <1>9. LeaveInputLoop \/ StopUI \/ TypeExit \/ TypeCommand
            => pc["input"] # "none" /\ UNCHANGED <<process, disk>>
    BY DEF LeaveInputLoop, StopUI, TypeExit, TypeCommand
  <1>10. Arrive => pc["server"] # "none" /\ UNCHANGED <<process, disk>>
    BY DEF Arrive
  <1>11. \A event \in Events : ConsoleEvent(event) => process = "runs" /\ UNCHANGED <<process, disk>>
    BY DEF ConsoleEvent
  <1>12. process = "runs" /\ process' = process
    BY <1>1, <1>2, <1>3, <1>4, <1>5, <1>6, <1>7, <1>8, <1>9, <1>10, <1>11 DEF ThreadStep, Thread
  <1>13. UNCHANGED disk \/ RunCommand
    BY <1>3, <1>4, <1>6, <1>7, <1>8, <1>9, <1>10, <1>11 DEF ThreadStep
  <1>14. QED
    BY <1>5, <1>12, <1>13 DEF disk

\* The promises about the file survive the steps of the threads.
LEMMA FileStep ==
    ASSUME IInv, ThreadStep
    PROVE  FileOK' /\ OffOK'
  <1>1. FileOK /\ process = "runs" /\ process' = "runs"
    BY StepsWhileRunning DEF IInv
  <1>2. edits = 0 => data = file /\ file # NoFile
    BY <1>1 DEF FileOK
  <1>3. QED
    BY <1>1, <1>2, StepsWhileRunning DEF FileOK, OffOK

\* A stopped server stays stopped, and accepts at most once more.
LEMMA ListenerStep ==
    ASSUME IInv, ThreadStep
    PROVE  ListenerOK'
  <1>1. TypeOK /\ ListenerOK
    BY DEF IInv
  <1>2. CASE StartServer
    BY <1>1, <1>2, SpawnStep DEF TypeOK, Mem, ListenerOK, Thread
  <1>3. CASE StartInputLoop
    BY <1>1, <1>3, SpawnStep DEF TypeOK, Mem, ListenerOK, Thread
  <1>4. CASE SetRunning
    BY <1>1, <1>4 DEF SetRunning, goto, TypeOK, Mem, ListenerOK
  <1>5. CASE LeaveLoop
    BY <1>1, <1>5 DEF LeaveLoop, goto, TypeOK, Mem, ListenerOK
  <1>6. CASE DropServer
    BY <1>1, <1>6 DEF DropServer, goto, TypeOK, Mem, ListenerOK
  <1>7. CASE DropDB
    BY <1>1, <1>7 DEF DropDB, close, goto, TypeOK, Mem, ListenerOK
  <1>8. CASE LeaveInputLoop
    BY <1>1, <1>8 DEF LeaveInputLoop, goto, TypeOK, Mem, ListenerOK
  <1>9. CASE StopUI
    BY <1>1, <1>9 DEF StopUI, goto, TypeOK, Mem, ListenerOK
  <1>10. CASE SetListening
    BY <1>1, <1>10 DEF SetListening, goto, TypeOK, Mem, ListenerOK
  <1>11. CASE ReadListening
    BY <1>1, <1>11 DEF ReadListening, goto, TypeOK, Mem, ListenerOK
  <1>12. CASE TypeExit
    BY <1>1, <1>12 DEF TypeExit, goto, TypeOK, Mem, ListenerOK
  <1>13. CASE TypeCommand
    BY <1>1, <1>13 DEF TypeCommand, goto, TypeOK, Mem, ListenerOK
  <1>14. CASE DropUI /\ ~ends
    BY <1>1, <1>14, QuietSteps DEF TypeOK, Mem, ListenerOK, Thread
  <1>15. ASSUME NEW t \in {"input", "handler"}, StopServer(t)
        PROVE  ListenerOK'
    BY <1>1, <1>15 DEF StopServer, goto, TypeOK, Mem, ListenerOK
  <1>16. ASSUME NEW t \in {"input", "handler"}, Disconnect(t)
        PROVE  ListenerOK'
    BY <1>1, <1>16 DEF Disconnect, goto, TypeOK, Mem, ListenerOK
  <1>17. ASSUME NEW t \in {"input", "handler"}, CloseDB(t)
        PROVE  ListenerOK'
    BY <1>1, <1>17 DEF CloseDB, close, goto, TypeOK, Mem, ListenerOK
  <1>18. ASSUME NEW t \in {"input", "handler"}, ClearRunning(t)
        PROVE  ListenerOK'
    BY <1>1, <1>18 DEF ClearRunning, goto, TypeOK, Mem, ListenerOK
  <1>19. ASSUME NEW event \in Events, ConsoleEvent(event)
        PROVE  ListenerOK'
    BY <1>1, <1>19, ProcessAssumption DEF ConsoleEvent, goto, TypeOK, Mem, ListenerOK
  <1>20. CASE Arrive
    BY <1>1, <1>20, QuietSteps DEF TypeOK, Mem, ListenerOK, Thread
  <1>21. CASE Accept
    BY <1>1, <1>21, AcceptStep DEF Accept, TypeOK, Mem, ListenerOK, Thread
  <1>22. CASE HandleRequest
    BY <1>1, <1>22, StatementStep DEF HandleRequest, TypeOK, Mem, ListenerOK, Thread, Label
  <1>23. CASE RunCommand
    BY <1>1, <1>23, StatementStep DEF RunCommand, TypeOK, Mem, ListenerOK, Thread, Label
  <1>24. CASE InitStatement /\ ~ends
    BY <1>1, <1>24, StatementStep DEF InitStatement, goto, TypeOK, Mem, ListenerOK, Thread,
       Label
  <1>25. QED
    BY <1>2, <1>3, <1>4, <1>5, <1>6, <1>7, <1>8, <1>9, <1>10, <1>11, <1>12, <1>13, <1>14,
       <1>15, <1>16, <1>17, <1>18, <1>19, <1>20, <1>21, <1>22, <1>23, <1>24
       DEF ThreadStep, ShutdownStep, ServerStep

\* The flag is cleared, and the components destroyed, only after shutdown() has
\* told the peers and closed the database.
LEMMA ShutdownOrder ==
    ASSUME IInv, ThreadStep
    PROVE  ShutdownOK'
  <1>1. TypeOK /\ ShutdownOK
    BY DEF IInv
  <1>2. CASE StartServer
    BY <1>1, <1>2, SpawnStep DEF TypeOK, Mem, ShutdownOK, DestroyedAfterShutdown, Thread
  <1>3. CASE StartInputLoop
    BY <1>1, <1>3, SpawnStep DEF TypeOK, Mem, ShutdownOK, DestroyedAfterShutdown, Thread
  <1>4. CASE SetRunning
    BY <1>1, <1>4 DEF SetRunning, goto, TypeOK, Mem, ShutdownOK, DestroyedAfterShutdown
  <1>5. CASE LeaveLoop
    BY <1>1, <1>5 DEF LeaveLoop, goto, TypeOK, Mem, ShutdownOK, DestroyedAfterShutdown
  <1>6. CASE DropServer
    BY <1>1, <1>6 DEF DropServer, goto, TypeOK, Mem, ShutdownOK, DestroyedAfterShutdown
  <1>7. CASE DropDB
    BY <1>1, <1>7 DEF DropDB, close, goto, TypeOK, Mem, ShutdownOK, DestroyedAfterShutdown
  <1>8. CASE LeaveInputLoop
    BY <1>1, <1>8 DEF LeaveInputLoop, goto, TypeOK, Mem, ShutdownOK, DestroyedAfterShutdown
  <1>9. CASE StopUI
    BY <1>1, <1>9 DEF StopUI, goto, TypeOK, Mem, ShutdownOK, DestroyedAfterShutdown
  <1>10. CASE SetListening
    BY <1>1, <1>10 DEF SetListening, goto, TypeOK, Mem, ShutdownOK, DestroyedAfterShutdown
  <1>11. CASE ReadListening
    BY <1>1, <1>11 DEF ReadListening, goto, TypeOK, Mem, ShutdownOK, DestroyedAfterShutdown
  <1>12. CASE TypeExit
    BY <1>1, <1>12 DEF TypeExit, goto, TypeOK, Mem, ShutdownOK, DestroyedAfterShutdown
  <1>13. CASE TypeCommand
    BY <1>1, <1>13 DEF TypeCommand, goto, TypeOK, Mem, ShutdownOK, DestroyedAfterShutdown
  <1>14. CASE DropUI /\ ~ends
    BY <1>1, <1>14, QuietSteps DEF TypeOK, Mem, ShutdownOK, DestroyedAfterShutdown, Thread
  <1>15. ASSUME NEW t \in {"input", "handler"}, StopServer(t)
        PROVE  ShutdownOK'
    BY <1>1, <1>15 DEF StopServer, goto, TypeOK, Mem, ShutdownOK, DestroyedAfterShutdown
  <1>16. ASSUME NEW t \in {"input", "handler"}, Disconnect(t)
        PROVE  ShutdownOK'
    BY <1>1, <1>16 DEF Disconnect, goto, TypeOK, Mem, ShutdownOK, DestroyedAfterShutdown
  <1>17. ASSUME NEW t \in {"input", "handler"}, CloseDB(t)
        PROVE  ShutdownOK'
    BY <1>1, <1>17 DEF CloseDB, close, goto, TypeOK, Mem, ShutdownOK, DestroyedAfterShutdown
  <1>18. ASSUME NEW t \in {"input", "handler"}, ClearRunning(t)
        PROVE  ShutdownOK'
    BY <1>1, <1>18 DEF ClearRunning, goto, TypeOK, Mem, ShutdownOK, DestroyedAfterShutdown
  <1>19. ASSUME NEW event \in Events, ConsoleEvent(event)
        PROVE  ShutdownOK'
    BY <1>1, <1>19, ProcessAssumption DEF ConsoleEvent, goto, TypeOK, Mem, ShutdownOK,
       DestroyedAfterShutdown
  <1>20. CASE Arrive
    BY <1>1, <1>20, QuietSteps DEF TypeOK, Mem, ShutdownOK, DestroyedAfterShutdown, Thread
  <1>21. CASE Accept
    BY <1>1, <1>21, AcceptStep DEF Accept, TypeOK, Mem, ShutdownOK, DestroyedAfterShutdown,
       Thread
  <1>22. CASE HandleRequest
    BY <1>1, <1>22, StatementStep DEF HandleRequest, TypeOK, Mem, ShutdownOK,
       DestroyedAfterShutdown, Thread, Label
  <1>23. CASE RunCommand
    BY <1>1, <1>23, StatementStep DEF RunCommand, TypeOK, Mem, ShutdownOK,
       DestroyedAfterShutdown, Thread, Label
  <1>24. CASE InitStatement /\ ~ends
    BY <1>1, <1>24, StatementStep DEF InitStatement, goto, TypeOK, Mem, ShutdownOK,
       DestroyedAfterShutdown, Thread, Label
  <1>25. QED
    BY <1>2, <1>3, <1>4, <1>5, <1>6, <1>7, <1>8, <1>9, <1>10, <1>11, <1>12, <1>13, <1>14,
       <1>15, <1>16, <1>17, <1>18, <1>19, <1>20, <1>21, <1>22, <1>23, <1>24
       DEF ThreadStep, ShutdownStep, ServerStep

\* Labels and shared variables keep their types.
LEMMA TypeStep ==
    ASSUME IInv, ThreadStep
    PROVE  pc' \in [Thread -> Label] /\ mem' \in Mem
  <1>1. TypeOK
    BY DEF IInv
  <1>2. CASE StartServer
    BY <1>1, <1>2, SpawnStep DEF TypeOK, Mem, Label, Thread
  <1>3. CASE StartInputLoop
    BY <1>1, <1>3, SpawnStep DEF TypeOK, Mem, Label, Thread
  <1>4. CASE SetRunning
    BY <1>1, <1>4 DEF SetRunning, goto, TypeOK, Mem, Label, Thread
  <1>5. CASE LeaveLoop
    BY <1>1, <1>5 DEF LeaveLoop, goto, TypeOK, Mem, Label, Thread
  <1>6. CASE DropServer
    BY <1>1, <1>6 DEF DropServer, goto, TypeOK, Mem, Label, Thread
  <1>7. CASE DropDB
    BY <1>1, <1>7 DEF DropDB, close, goto, TypeOK, Mem, Label, Thread
  <1>8. CASE LeaveInputLoop
    BY <1>1, <1>8 DEF LeaveInputLoop, goto, TypeOK, Mem, Label, Thread
  <1>9. CASE StopUI
    BY <1>1, <1>9 DEF StopUI, goto, TypeOK, Mem, Label, Thread
  <1>10. CASE SetListening
    BY <1>1, <1>10 DEF SetListening, goto, TypeOK, Mem, Label, Thread
  <1>11. CASE ReadListening
    BY <1>1, <1>11 DEF ReadListening, goto, TypeOK, Mem, Label, Thread
  <1>12. CASE TypeExit
    BY <1>1, <1>12 DEF TypeExit, goto, TypeOK, Mem, Label, Thread
  <1>13. CASE TypeCommand
    BY <1>1, <1>13 DEF TypeCommand, goto, TypeOK, Mem, Label, Thread
  <1>14. CASE DropUI /\ ~ends
    BY <1>1, <1>14, QuietSteps DEF TypeOK, Mem, Label, Thread
  <1>15. ASSUME NEW t \in {"input", "handler"}, StopServer(t)
        PROVE  pc' \in [Thread -> Label] /\ mem' \in Mem
    BY <1>1, <1>15 DEF StopServer, goto, TypeOK, Mem, Label, Thread
  <1>16. ASSUME NEW t \in {"input", "handler"}, Disconnect(t)
        PROVE  pc' \in [Thread -> Label] /\ mem' \in Mem
    BY <1>1, <1>16 DEF Disconnect, goto, TypeOK, Mem, Label, Thread
  <1>17. ASSUME NEW t \in {"input", "handler"}, CloseDB(t)
        PROVE  pc' \in [Thread -> Label] /\ mem' \in Mem
    BY <1>1, <1>17 DEF CloseDB, close, goto, TypeOK, Mem, Label, Thread
  <1>18. ASSUME NEW t \in {"input", "handler"}, ClearRunning(t)
        PROVE  pc' \in [Thread -> Label] /\ mem' \in Mem
    BY <1>1, <1>18 DEF ClearRunning, goto, TypeOK, Mem, Label, Thread
  <1>19. ASSUME NEW event \in Events, ConsoleEvent(event)
        PROVE  pc' \in [Thread -> Label] /\ mem' \in Mem
    BY <1>1, <1>19, ProcessAssumption DEF ConsoleEvent, goto, TypeOK, Mem, Label, Thread
  <1>20. CASE Arrive
    BY <1>1, <1>20, QuietSteps DEF TypeOK, Mem, Label, Thread
  <1>21. CASE Accept
    BY <1>1, <1>21, AcceptStep DEF Accept, TypeOK, Mem, Label, Thread
  <1>22. CASE HandleRequest
    BY <1>1, <1>22, StatementStep DEF HandleRequest, TypeOK, Mem, Label, Thread
  <1>23. CASE RunCommand
    BY <1>1, <1>23, StatementStep DEF RunCommand, TypeOK, Mem, Label, Thread
  <1>24. CASE InitStatement /\ ~ends
    BY <1>1, <1>24, StatementStep DEF InitStatement, goto, TypeOK, Mem, Label, Thread
  <1>25. QED
    BY <1>2, <1>3, <1>4, <1>5, <1>6, <1>7, <1>8, <1>9, <1>10, <1>11, <1>12, <1>13, <1>14,
       <1>15, <1>16, <1>17, <1>18, <1>19, <1>20, <1>21, <1>22, <1>23, <1>24
       DEF ThreadStep, ShutdownStep, ServerStep

-----------------------------------------------------------------------------
(* The theorems.                                                           *)

\* Nothing has been started yet.
LEMMA InitIInv == Init => IInv
  <1>1. SUFFICES ASSUME Init PROVE IInv
    OBVIOUS
  <1>2. NoThreads \in [Thread -> Label] /\ Booted \in Mem /\ MaxStarts \in Nat /\ MaxEdits \in Nat
    BY ProcessAssumption DEF NoThreads, Booted, Mem, Thread, Label
  <1>3. TypeOK
    BY <1>1, <1>2 DEF Init, TypeOK
  <1>4. OffOK /\ ListenerOK
    BY <1>1 DEF Init, OffOK, ListenerOK, Booted
  <1>5. ShutdownOK
    BY <1>1 DEF Init, ShutdownOK, DestroyedAfterShutdown, NoThreads, Thread
  <1>6. FileOK
    BY <1>1 DEF Init, FileOK
  <1>7. QED
    BY <1>3, <1>4, <1>5, <1>6 DEF IInv

\* Every step keeps the inductive invariant.
LEMMA NextIInv == IInv /\ [Next]_vars => IInv'
  <1>1. SUFFICES ASSUME IInv, [Next]_vars PROVE IInv'
    OBVIOUS
  <1>2. CASE ThreadStep
    <2>1. pc' \in [Thread -> Label] /\ mem' \in Mem
      BY <1>1, <1>2, TypeStep
    <2>2. TypeOK'
      <3>1. TypeOK /\ data \in File
        BY <1>1, <1>2, StepsWhileRunning DEF IInv, FileOK
      <3>2. data.keys \in 0..2 * MaxStarts
        BY <3>1 DEF File
      <3>3. QED
        BY <1>1, <1>2, <2>1, <3>1, <3>2, StepsWhileRunning DEF TypeOK
    <2>3. QED
      BY <1>1, <1>2, <2>2, FileStep, ListenerStep, ShutdownOrder DEF IInv
  <1>3. CASE ends /\ UNCHANGED disk
    BY <1>1, <1>3, EndedOK
  <1>4. CASE UNCHANGED vars
    BY <1>1, <1>4 DEF vars, IInv, TypeOK, OffOK, ShutdownOK, DestroyedAfterShutdown, ListenerOK,
       FileOK
  <1>5. MainStep => ThreadStep \/ (ends /\ UNCHANGED disk)
    BY DEF MainStep, ThreadStep, InitStatement, DropUI, JoinInput
  <1>6. InputStep \/ ShutdownStep("handler") \/ ServerStep => ThreadStep
    BY DEF InputStep, ThreadStep
  <1>7. TypeExit \/ TypeCommand \/ Arrive \/ (\E event \in Events : ConsoleEvent(event)) => ThreadStep
    BY DEF ThreadStep
  <1>8. SystemKills \/ (\E t \in Thread \ {"main"} : UseDestroyed(t)) => ends /\ UNCHANGED disk
    BY DEF SystemKills, UseDestroyed
  <1>9. QED
    BY <1>1, <1>2, <1>3, <1>4, <1>5, <1>6, <1>7, <1>8, StartOK, EditOK DEF Next

\* The inductive invariant holds of every reachable state: it says what each of
\* the two threads in shutdown() has done before it clears the flag, what the
\* server thread may still do after stop(), and which keys the file has.
THEOREM Inductive == Spec => []IInv
  BY InitIInv, NextIInv, PTL DEF Spec

\* The configuration, the labels of the four threads and the flags they share
\* keep their types.
THEOREM TypeCorrect == Spec => []TypeOK
  <1>1. IInv => TypeOK
    BY DEF IInv
  <1>2. QED
    BY <1>1, Inductive, PTL

\* main() comes to the destructors only when the peers have been told and the
\* database has been closed, on whichever thread shutdown() ran.
THEOREM DestroyedOnlyAfterShutdown == Spec => []DestroyedAfterShutdown
  <1>1. IInv => DestroyedAfterShutdown
    BY DEF IInv, ShutdownOK
  <1>2. QED
    BY <1>1, Inductive, PTL

\* However many connections are made, the server thread accepts at most one of
\* them after SocketServer::stop.
THEOREM AtMostOneMoreAlways == Spec => []AtMostOneMore
  <1>1. IInv => AtMostOneMore
    BY DEF IInv, ListenerOK, AtMostOneMore
  <1>2. QED
    BY <1>1, Inductive, PTL

\* However often the user damages the file, no two starts in a row fail.
THEOREM StartsAtSecondTryAlways == Spec => []StartsAtSecondTry
  <1>1. IInv => StartsAtSecondTry
    BY DEF IInv, FileOK, StartsAtSecondTry
  <1>2. QED
    BY <1>1, Inductive, PTL

\* Without such damage every process reads with the keys of all earlier ones,
\* however these have ended.
THEOREM HistoryAlwaysKept == Spec => []HistoryKept
  <1>1. IInv => HistoryKept
    BY DEF IInv, FileOK, HistoryKept
  <1>2. QED
    BY <1>1, Inductive, PTL
=============================================================================
