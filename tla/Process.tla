------------------------------- MODULE Process -------------------------------
(***************************************************************************)
(* One d-chat process from its start to its end, and started again on the  *)
(* same files: ChatApplication::init and run on the main thread, the       *)
(* keyboard loop of ConsoleUI, the system thread that runs                 *)
(* consoleCtrlHandler, and the detached thread of SocketServer.  Both      *)
(* /exit and a console event run shutdown(), on two different threads.     *)
(*                                                                         *)
(* A step of a thread touches one shared flag, or makes one statement on   *)
(* the database: a command or a request is one statement here.  What they  *)
(* mean, and whom they wait for, is the subject of DChat and Membership;   *)
(* peers are taken to answer a DISCONNECT.                                 *)
(***************************************************************************)
EXTENDS Integers, FiniteSets

CONSTANTS
    Relock,         \* what a second lock of the database mutex by its owner does
    Events,         \* console events that may happen
    MaxStarts,      \* bound: how often the process is started
    MaxEdits,       \* bound: how often its user damages the configuration file
    MaxRequests,    \* bound: how many connections are made to it each time
    NoFile

ASSUME ProcessAssumption ==
    /\ Relock \subseteq {"hang", "throw"} /\ Relock # {}
    /\ Events \subseteq {"interrupt", "close"}
    /\ MaxStarts \in Nat /\ MaxEdits \in Nat /\ MaxRequests \in Nat

VARIABLES
    file,       \* d-chat_config.json: [entries, keys], or NoFile
    data,       \* JsonConfig::data, read from the file at the start
    stored,     \* key pairs whose messages are in the database
    keys,       \* key pairs generated so far
    process,    \* whether the process runs
    pc,         \* where its threads are
    mem,        \* what its threads share
    starts, edits,  \* how often it has happened
    failed      \* history: starts without success since the file was last touched

vars == <<file, data, stored, keys, process, pc, mem, starts, edits, failed>>
disk == <<file, data, stored, keys, starts, edits, failed>>

Thread == {"main", "input", "handler", "server"}
ConfigField == {"host", "port", "public_key", "private_key"}
Entry == ConfigField \cup {"trustedPeerList"}
File == [entries : SUBSET Entry, keys : 0..2 * MaxStarts]

ASSUME FileAssumption == NoFile \notin File

Mem == [running     : BOOLEAN,      \* ChatApplication::running
        uiRunning   : BOOLEAN,      \* ConsoleUI::running
        isListening : BOOLEAN,      \* SocketServer::isListening
        db          : BOOLEAN,      \* DBFile::db is not null
        mutex       : Thread \cup {"free"},     \* DBFile::mutex, between two steps
        event       : {"none", "interrupt", "close"},   \* console event
        waiting     : Nat,          \* connections the socket holds
        made        : Nat,          \* and how many there have been
        told        : BOOLEAN,      \* the peers have been sent a DISCONNECT
        stopped     : BOOLEAN,      \* history: stop() called since the server set its flag
        late        : Nat]          \* history: connections accepted since

Booted == [running |-> FALSE, uiRunning |-> FALSE, isListening |-> FALSE,
           db |-> TRUE, mutex |-> "free", event |-> "none",
           waiting |-> 0, made |-> 0, told |-> FALSE, stopped |-> FALSE, late |-> 0]

NoThreads == [t \in Thread |-> "none"]

Init ==
    /\ file = NoFile /\ data = NoFile
    /\ stored = {} /\ keys = 0
    /\ process = "off" /\ pc = NoThreads /\ mem = Booted
    /\ starts = 0 /\ edits = 0 /\ failed = 0

goto(t, label) == pc' = [pc EXCEPT ![t] = label]

\* All threads end with the process; what they shared is gone.
ends == process' = "off" /\ pc' = NoThreads /\ mem' = Booted

-----------------------------------------------------------------------------
(* DBFile: every statement locks the mutex and then, if there is no        *)
(* handle, calls open(), which locks it again.  That is undefined; with    *)
(* one of the supported toolchains the thread hangs with the mutex held,   *)
(* with the other one it gets an exception.                                *)

statementRuns == mem.mutex = "free" /\ mem.db
statementThrows == mem.mutex = "free" /\ ~mem.db /\ "throw" \in Relock
statementHangs(t) ==
    /\ mem.mutex = "free" /\ ~mem.db /\ "hang" \in Relock
    /\ mem' = [mem EXCEPT !.mutex = t]
    /\ goto(t, "stuck")

\* A statement of a handler or command, where exceptions are caught and logged.
statement(t, next) ==
    \/ (statementRuns \/ statementThrows) /\ goto(t, next) /\ UNCHANGED mem
    \/ statementHangs(t)

close(t, next) ==
    /\ mem.mutex = "free"
    /\ mem' = [mem EXCEPT !.db = FALSE]
    /\ goto(t, next)

-----------------------------------------------------------------------------
(* The configuration.                                                      *)

\* Mutant: the list of trusted peers is forgotten.
generatedWithoutPeers(k) == [entries |-> ConfigField, keys |-> k]

generatedDefaultConfig(k) == [entries |-> Entry, keys |-> k]

\* Mutant: the check for the list is negated.
isValidWithoutPeers(f) == f.entries = ConfigField

\* The fields are those read by the constructor, the list is looked up in the file.
isValid(f) == f.entries = Entry

\* What get() does not throw for in init.
startable(f) == {"host", "port", "public_key"} \subseteq f.entries

\* The constructor generates a missing file and reads it; init generates an
\* incomplete one anew, and goes on with what has been read before.
Start ==
    LET none == IF file = NoFile THEN 1 ELSE 0
        read == IF file = NoFile THEN generatedDefaultConfig(keys + 1) ELSE file
        kept == IF isValid(read) THEN read ELSE generatedDefaultConfig(keys + none + 1)
    IN  /\ process = "off" /\ starts < MaxStarts
        /\ starts' = starts + 1
        /\ file' = kept
        /\ keys' = keys + none + (IF isValid(read) THEN 0 ELSE 1)
        /\ IF startable(read) /\ "trustedPeerList" \in kept.entries
           THEN /\ data' = read
                /\ failed' = 0
                /\ process' = "runs"
                /\ goto("main", "init")
           ELSE /\ failed' = failed + 1
                /\ UNCHANGED <<data, process, pc>>
        /\ UNCHANGED <<stored, mem, edits>>

\* The user loses an entry of the file.
EditConfig(e) ==
    /\ process = "off" /\ file # NoFile /\ edits < MaxEdits
    /\ e \in file.entries
    /\ file' = [file EXCEPT !.entries = @ \ {e}]
    /\ edits' = edits + 1 /\ failed' = 0
    /\ UNCHANGED <<data, stored, keys, process, pc, mem, starts>>

-----------------------------------------------------------------------------
(* The main thread.                                                        *)

\* The statements of init after the shutdown callback has been set.  Nobody
\* catches an exception on this thread.
InitStatement ==
    /\ pc["main"] = "init"
    /\ \/ statementRuns /\ goto("main", "start") /\ UNCHANGED <<process, mem>>
       \/ statementHangs("main") /\ UNCHANGED process
       \/ statementThrows /\ ends
    /\ UNCHANGED disk

\* TCPServer::start: the thread is created and detached.
StartServer ==
    /\ pc["main"] = "start"
    /\ pc' = [pc EXCEPT !["main"] = "input", !["server"] = "listen"]
    /\ UNCHANGED <<process, mem, disk>>

StartInputLoop ==
    /\ pc["main"] = "input"
    /\ mem' = [mem EXCEPT !.uiRunning = TRUE]
    /\ pc' = [pc EXCEPT !["main"] = "flag", !["input"] = "loop"]
    /\ UNCHANGED <<process, disk>>

SetRunning ==
    /\ pc["main"] = "flag"
    /\ mem' = [mem EXCEPT !.running = TRUE]
    /\ goto("main", "poll")
    /\ UNCHANGED <<process, disk>>

LeaveLoop ==
    /\ pc["main"] = "poll" /\ ~mem.running
    /\ goto("main", "dropServer")
    /\ UNCHANGED <<process, mem, disk>>

\* The members of ChatApplication are destroyed, the last one first: server and
\* client, then the services and with them the database, then the console.
DropServer ==
    /\ pc["main"] = "dropServer"
    /\ mem' = [mem EXCEPT !.isListening = FALSE, !.stopped = TRUE]
    /\ goto("main", "dropDB")
    /\ UNCHANGED <<process, disk>>

DropDB ==
    /\ pc["main"] = "dropDB"
    /\ close("main", "dropUI")
    /\ UNCHANGED <<process, disk>>

\* Mutant: stop() looks at the flag without clearing it.
DropUIPolitely ==
    /\ pc["main"] = "dropUI"
    /\ IF mem.uiRunning
       THEN goto("main", "join") /\ UNCHANGED <<mem, process>>
       ELSE ends
    /\ UNCHANGED disk

\* ~ConsoleUI: stop() is run now, or has been run by the input thread.  That the
\* thread may not have detached itself yet ends the process too (std::terminate).
DropUI ==
    /\ pc["main"] = "dropUI"
    /\ IF mem.uiRunning
       THEN /\ mem' = [mem EXCEPT !.uiRunning = FALSE]
            /\ goto("main", "join")
            /\ UNCHANGED process
       ELSE ends
    /\ UNCHANGED disk

JoinInput ==
    /\ pc["main"] = "join" /\ pc["input"] = "ended"
    /\ ends
    /\ UNCHANGED disk

-----------------------------------------------------------------------------
(* The input thread and the system's thread for console events.            *)

\* /exit
TypeExit ==
    /\ pc["input"] = "loop" /\ mem.uiRunning
    /\ goto("input", "stopServer")
    /\ UNCHANGED <<process, mem, disk>>

\* A command that reads or, with a private key, writes messages.
TypeCommand ==
    /\ pc["input"] = "loop" /\ mem.uiRunning
    /\ goto("input", "command")
    /\ UNCHANGED <<process, mem, disk>>

RunCommand ==
    /\ pc["input"] = "command"
    /\ statement("input", "loop")
    /\ stored' = IF mem.db /\ "private_key" \in data.entries
                 THEN stored \cup {data.keys} ELSE stored
    /\ UNCHANGED <<file, data, keys, process, starts, edits, failed>>

LeaveInputLoop ==
    /\ pc["input"] = "loop" /\ ~mem.uiRunning
    /\ goto("input", "ended")
    /\ UNCHANGED <<process, mem, disk>>

\* Ctrl+C and Ctrl+Break, or the end of the window or of the session; one event
\* in a process.  Before the callback is set in init it has no effect.
ConsoleEvent(event) ==
    /\ process = "runs" /\ mem.event = "none"
    /\ mem' = [mem EXCEPT !.event = event]
    /\ goto("handler", "stopServer")
    /\ UNCHANGED <<process, disk>>

\* ChatApplication::shutdown, on either thread.
StopServer(t) ==
    /\ pc[t] = "stopServer"
    /\ mem' = [mem EXCEPT !.isListening = FALSE, !.stopped = TRUE]
    /\ goto(t, "disconnect")
    /\ UNCHANGED <<process, disk>>

\* Mutant: running is cleared before the peers are called.
DisconnectLast(t) ==
    /\ pc[t] = "disconnect"
    /\ mem' = [mem EXCEPT !.running = FALSE]
    /\ goto(t, "closeDB")
    /\ UNCHANGED <<process, disk>>

Disconnect(t) ==
    /\ pc[t] = "disconnect"
    /\ mem' = [mem EXCEPT !.told = TRUE]
    /\ goto(t, "closeDB")
    /\ UNCHANGED <<process, disk>>

CloseDB(t) ==
    /\ pc[t] = "closeDB"
    /\ close(t, "clear")
    /\ UNCHANGED <<process, disk>>

ClearRunning(t) ==
    /\ pc[t] = "clear"
    /\ mem' = [mem EXCEPT !.running = FALSE]
    /\ goto(t, IF t = "input" THEN "stopUI" ELSE "return")
    /\ UNCHANGED <<process, disk>>

\* ConsoleUI::stop after /exit: if the exchange succeeds the thread detaches
\* itself, otherwise the main thread is about to join it.
StopUI ==
    /\ pc["input"] = "stopUI"
    /\ mem' = [mem EXCEPT !.uiRunning = FALSE]
    /\ goto("input", "loop")
    /\ UNCHANGED <<process, disk>>

\* The system ends a process whose window is closed when the handler has
\* returned, or when it has waited long enough for that.
SystemKills ==
    /\ process = "runs" /\ mem.event = "close"
    /\ ends
    /\ UNCHANGED disk

-----------------------------------------------------------------------------
(* The server thread.                                                      *)

\* listen(), and only then the flag.
SetListening ==
    /\ pc["server"] = "listen"
    /\ mem' = [mem EXCEPT !.isListening = TRUE, !.stopped = FALSE, !.late = 0]
    /\ goto("server", "loop")
    /\ UNCHANGED <<process, disk>>

\* Mutant: the flag is not looked at.
ReadListeningNever ==
    /\ pc["server"] = "loop"
    /\ goto("server", "accept")
    /\ UNCHANGED <<process, mem, disk>>

ReadListening ==
    /\ pc["server"] = "loop"
    /\ goto("server", IF mem.isListening THEN "accept" ELSE "ended")
    /\ UNCHANGED <<process, mem, disk>>

\* The socket is closed by the main thread when it destroys the server.
socketClosed == pc["main"] \in {"dropDB", "dropUI", "join"}

\* Mutant: a failed accept is taken for a connection.
AcceptAnything ==
    /\ pc["server"] = "accept"
    /\ mem' = [mem EXCEPT !.waiting = @ - 1]
    /\ goto("server", "handle")
    /\ UNCHANGED <<process, disk>>

Accept ==
    /\ pc["server"] = "accept"
    /\ \/ /\ ~socketClosed /\ mem.waiting > 0
          /\ mem' = [mem EXCEPT !.waiting = @ - 1,
                                !.late = IF mem.stopped THEN @ + 1 ELSE @]
          /\ goto("server", "handle")
       \/ socketClosed /\ goto("server", "loop") /\ UNCHANGED mem
    /\ UNCHANGED <<process, disk>>

\* One statement stands for those of a handler; an exception is logged.
HandleRequest ==
    /\ pc["server"] = "handle"
    /\ statement("server", "loop")
    /\ UNCHANGED <<process, disk>>

\* A peer connects: from listen() on, whether or not the thread still accepts.
Arrive ==
    /\ pc["server"] \notin {"none", "listen"} /\ ~socketClosed
    /\ mem.made < MaxRequests
    /\ mem' = [mem EXCEPT !.waiting = @ + 1, !.made = @ + 1]
    /\ UNCHANGED <<process, pc, disk>>

\* A thread uses what the main thread has destroyed meanwhile: undefined.  It may
\* go on as if nothing had happened, or end the process.
UseDestroyed(t) ==
    /\ socketClosed
    /\ pc[t] \in {"command", "disconnect", "closeDB", "loop", "accept", "handle"}
    /\ t = "input" => pc[t] # "loop"
    /\ ends
    /\ UNCHANGED disk

-----------------------------------------------------------------------------
MainStep ==
    \/ InitStatement \/ StartServer \/ StartInputLoop \/ SetRunning \/ LeaveLoop
    \/ DropServer \/ DropDB \/ DropUI \/ JoinInput
ShutdownStep(t) == StopServer(t) \/ Disconnect(t) \/ CloseDB(t) \/ ClearRunning(t)
InputStep == ShutdownStep("input") \/ RunCommand \/ LeaveInputLoop \/ StopUI
ServerStep == SetListening \/ ReadListening \/ Accept \/ HandleRequest

Next ==
    \/ Start \/ \E e \in Entry : EditConfig(e)
    \/ MainStep \/ InputStep \/ ShutdownStep("handler") \/ ServerStep
    \/ TypeExit \/ TypeCommand \/ Arrive
    \/ \E event \in Events : ConsoleEvent(event)
    \/ SystemKills
    \/ \E t \in Thread \ {"main"} : UseDestroyed(t)

Spec == Init /\ [][Next]_vars

\* Each thread gets to run; nobody has to type, to connect or to raise an
\* event.
FairSpec ==
    /\ Spec
    /\ WF_vars(MainStep) /\ WF_vars(InputStep)
    /\ WF_vars(ShutdownStep("handler")) /\ WF_vars(ServerStep)
    /\ WF_vars(SystemKills)

-----------------------------------------------------------------------------
(* Properties.                                                             *)

Label == {"none", "init", "start", "input", "flag", "poll", "dropServer", "dropDB", "dropUI",
          "join", "loop", "command", "stopServer", "disconnect", "closeDB", "clear",
          "stopUI", "return", "listen", "accept", "handle", "ended", "stuck"}

TypeOK ==
    /\ file \in File \cup {NoFile} /\ data \in File \cup {NoFile}
    /\ keys \in 0..2 * MaxStarts /\ stored \subseteq 0..2 * MaxStarts
    /\ process \in {"off", "runs"}
    /\ pc \in [Thread -> Label]
    /\ mem \in Mem
    /\ starts \in 0..MaxStarts /\ edits \in 0..MaxEdits /\ failed \in Nat

\* The main thread begins to destroy the components only when the peers have
\* been told and the database is closed, although two threads may run shutdown()
\* at the same time and either of them may be the one that clears the flag.
DestroyedAfterShutdown ==
    pc["main"] \in {"dropServer", "dropDB", "dropUI", "join"} => mem.told /\ ~mem.db

\* Once SocketServer::stop has been called on a listening server, by whichever
\* thread and how often, its thread accepts at most one more connection: the one
\* it may already wait for.  Membership rests on this.
AtMostOneMore == mem.late <= 1

\* generatedDefaultConfig does not reload what has been read, so that a start
\* with an incomplete file fails; but then the next one does not.
StartsAtSecondTry == failed <= 1

\* A user who does not damage the file keeps, over any number of starts, ends and
\* aborts, the key pair under which the messages in the database can be read.
HistoryKept ==
    process = "runs" /\ edits = 0 => \A k \in stored : k = data.keys

\* When shutdown() begins, on one thread or two, while the main thread polls, the
\* process ends, though commands and requests that use the database are under way;
\* unless one of them comes to its statement after close() and hangs in DBFile.  A
\* command that waits for another node, in recv, is not among them: it would be
\* joined, and comes to its end (SendTerminates of DChat) unless that node hangs.
ShutdownEnds ==
    \A t \in {"input", "handler"} :
        pc[t] = "stopServer" /\ pc["main"] = "poll"
            ~> process = "off" \/ \E u \in Thread : pc[u] = "stuck"

\* /help: "/exit - Exit the application".
ExitObeyed == pc["input"] = "stopServer" ~> process = "off"

-----------------------------------------------------------------------------
(* The inductive invariant behind the safety properties.                   *)

\* Nothing of an ended process is left.
OffOK == process = "off" => pc = NoThreads /\ mem = Booted

\* Whoever is about to clear the flag has told the peers and closed the database,
\* and so has somebody once it is cleared.
ShutdownOK ==
    /\ pc["main"] = "poll" /\ ~mem.running => mem.told /\ ~mem.db
    /\ DestroyedAfterShutdown
    /\ \A t \in {"input", "handler"} :
           /\ pc[t] = "closeDB" => mem.told
           /\ pc[t] = "clear" => mem.told /\ ~mem.db

\* A stopped server does not listen, and is not in accept again once it has
\* accepted a late connection.
ListenerOK ==
    /\ mem.stopped => ~mem.isListening
    /\ mem.late <= 1
    /\ mem.late > 0 => mem.stopped /\ pc["server"] # "accept"

\* A failed start leaves a complete file; an undamaged file is complete and has
\* the keys of all stored messages.
FileOK ==
    /\ keys <= 2 * starts
    /\ failed <= 1 /\ (failed = 1 => file # NoFile /\ isValid(file))
    /\ process = "runs" => data \in File
    /\ edits = 0 =>
           /\ file = NoFile => stored = {}
           /\ file # NoFile => isValid(file) /\ \A k \in stored : k = file.keys
           /\ process = "runs" => file # NoFile /\ data = file

IInv == TypeOK /\ OffOK /\ ShutdownOK /\ ListenerOK /\ FileOK
=============================================================================
