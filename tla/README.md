# A TLA+ model of d-chat

d-chat is a peer-to-peer chat for the console.  Each node is one process with a
SQLite file; nodes call each other over TCP, one JSON request and one answer per
connection.  A text message goes to its recipient, is turned into a block that
extends the sender's tip, broadcast to all peers, and stored in the sender's own
chain in the end.  There is no consensus: a block that does not extend the
receiver's tip is refused, and a refused block is withdrawn.

This directory models that protocol in TLA+, checks it with TLC on small
instances and proves its safety core with TLAPS.  Paths below are relative to the
repository's `src/` directory unless they begin with `tests/`.

## Inventory

| component | state | operations | correct when |
|---|---|---|---|
| blocks table, `infra/blockchain/ChainDB` | rows in insertion order | `insertBlock` (SELECT, INSERT), `findTip`, `hasBlock`, `getBlocksByIndexRange`, `countBlocksAfterHash` | a table only grows, is closed under parents, has no duplicates, and forks as little as two unsynchronised statements allow |
| `domain/blockchain/BlockchainService` | `newBlocks` | create, validate, `storeAndBroadcastBlock`, `onIncomingBlock` | what was validated still holds when it is stored; an acknowledgement means something |
| `infra/network/TCPClient` | locals of a running send | `sendSecretMessage`, `connectToAllPeers`, `disconnect` | a send ends; message rows and blocks agree afterwards, at both ends |
| `domain/chat/ChatService` | none | a handler per message type | handlers apply each request completely |
| messages and peers tables, `MessageDB`, `PeerDB` | rows | insert, remove by block hash, `/chat` queries | `/chat` shows what is stored and marks only what is really without a block |
| `PeerService`, `GlobalState` | peer vector; two counters | add, remove, page | nobody lists itself or a peer twice; the list is the online peers |
| `SocketServer`, `SocketClient`, `TCPServer` | backlog, listening flag | accept one at a time, one `recv`, answer, close; `stop` | no thread waits for ever |
| `app/ChatApplication` | phase of the process | `init`, `run`, commands, `shutdown` | a starting node catches up with what was announced to it; `/exit` ends |
| `OpenSSLCrypto`, `TextMessage` | – | key pairs, session keys, encrypt, sign, read back | both ends can read what they have stored, and nobody accepts what was signed with another key |
| `service/db/DBFile` | handle, mutex | `open`, `close`, statements | no thread uses a closed database, or locks itself up in it |
| `JsonConfig`, `JsonFile` | the file; what was read of it | read, validate, generate | an identity, once generated, is kept; a damaged file is repaired |
| `ui/cli/ConsoleUI` | the line, a copy of it, cursor, history, screen | keys, Enter, `printLog`, `stop` | no index leaves its range; what is executed is what was shown |
| `utils` | – | identities, clocks | not modelled, see the end |

A running node has three threads of its own: the **main thread** runs `init` and
then waits for a flag to be cleared, the **input thread** reads keys and runs
commands, the **server thread** serves connections; the system adds a thread for
Ctrl+C and the like.  They share the database, whose mutex is held for one statement
at a time, the peer list and the console.  The input thread blocks, without a
timeout, on the server threads of other nodes.

What is hard here: the two threads of one node insert into one table; a tip is
read long before it is used; a broadcast that fails half-way is not undone at the
peers that accepted; requests and answers are read with one `recv`; processes crash between two
tables; a node starts from pages of lists that change meanwhile; nodes that leave
still accept connections nobody serves; two threads may shut a process down while a
third destroys what they use; every thread prints over the line being typed.
`PROJECT.json` lists these hazards with
their lines and the properties aimed at them.

## Modules

| module | models |
|---|---|
| `ChainDB` | the blocks table as a sequence; its queries as operators |
| `Crypto` | keys, encryption, signatures, symbolically; how a text message is written and read |
| `BlockchainService` | creation and validation of blocks, as operators on a table |
| `BlockStore` | abstract specification: what the tables of all nodes promise |
| `DChat` | running nodes that send: both threads, all three tables, sockets, crashes |
| `DChatProofs`, `DChatSocketProofs`, `DChatMessageProofs`, `DChatBroadcastProofs`, `DChatConvergenceProofs` | theorems about `DChat`, each module extending the one before |
| `Membership` | processes that start, catch up, send, leave, crash and restart |
| `MembershipProofs` | theorems about `Membership` |
| `Process` | the threads of one process from start to end, over several starts |
| `ProcessProofs` | theorems about `Process` |
| `ConsoleUI` | the command line: keys, history, logs |
| `ConsoleUIProofs` | theorems about `ConsoleUI` |
| `LineEditor` | abstract specification: what editing a line promises |
| `MCDChat`, `MCMembership`, `MCProcess`, `MCConsoleUI` | topologies, initial tables, sizes and toolchains for TLC |

`DChat` and `Membership` both extend `BlockchainService`, which extends `ChainDB` and
`Crypto`; `DChat` instantiates `BlockStore` with its `chain`, `ConsoleUI` instantiates
`LineEditor`.  `Process` stands beside them: commands and requests are single
statements there, and `Membership` takes from it that a stopped server serves at most
one more connection (`AtMostOneMore`).

### DChat

A block is `[hash, previousHash, author]`.  Its hash is the identity of the message
it was made for: SHA-256 is taken as free of collisions, and payload hash, timestamp
and signature are functions of message and author.  A message row is
`[id, from, to]`; its JSON, encrypted and signed, is a function of these
(`messageJson`).

`cli[n]` is the input thread in `sendSecretMessage`, a step per statement or network
call: `Connect` – `SendText` – `TextAnswered` (own message row) – `AddChatPeer`
(peers row, snapshot of the peers) – per peer `SendBlock`, `BlockAnswered` or
`SkipPeer` – `CheckOwnBlock`, `InsertOwnBlock` (the two statements of `insertBlock`)
– on failure `Rollback` and `NotifyRecipient`.  `ConnectFails`, `MessageTooBig` and
`SendTextLost` are its early exits.  The order in which peers are called is that of
the list in the code and free in the model.

`backlog[n]` holds the connections to n, oldest first.  A connection exists from
`connect` on, so the server thread may be stuck in `recv` on a silent one.  For a
broadcast and for the withdrawal notice, connect and send follow each other
immediately and are one step.  `srv[n]` is the server thread: `HandleTextMessage`
and `AnswerTextMessage` (messages row, then peers row and answer), `ValidateBlock`,
`CheckBlock` and `InsertBlock` (validation, SELECT, INSERT and answer),
`HandleBlockchainError`, `DropClosed`.  
Both ends call `recv` once, and TCP promises neither of them the whole message.  A text
message of exactly `BufferSize` bytes passes the sender's check and is always cut short by the
receiver (`fits`).  Any other message, a request of each type as well as the answer to a
block, may arrive in part (`ReceivePart`, `BlockAnswerCut`): it does not parse, a request is
dropped without an answer, an answer counts as a refusal.  `MaxCuts` bounds how many do, and the
history variable `cut` remembers which, because the sender of a text message that was dropped
does not notice and keeps it.  A text message's answer needs no such step: the sender goes
on whatever it reads.

`Crash` ends a process at any point: tables stay, sockets close.  `BadKeys` are nodes
whose private key does not match their public one, `Ahead` says whose clock is more
than five minutes ahead of whose; `Crypto` derives from `BadKeys` what decrypts and
verifies where: a session key is the unordered pair of the two key pairs that went
into it, a cipher text names its key, a signature its key pair.  `acked`, who acknowledged
which block, is a history variable too.  `findChatMessages`,
`findInvalidChatMessageIDs` and `handleChatCommand` are what `/chat` computes; they
are used in properties.  The peer list is the constant `Peers`.

### Membership

`phase[n]` follows `ChatApplication::init` and `run`: `hosts` (CONNECT to the trusted
hosts with the own tip), `peerList` and `blocks` (pages, asked of the first peer that
answered), `store` (`validateNewBlocks`, `insertBlock` for each), `all` (CONNECT to a
snapshot of the peers), `run`, `broadcast` (a block to the peers), `leaving`
(DISCONNECT to a snapshot of the peers).  `job[n]` holds its locals and the two
counters of `GlobalState`, which every CONNECT answer overwrites.  Request, handler and answer
are one step, as the server serves one connection at a time while the client waits;
what the two threads do to a table in between is `DChat`'s subject.  The text
message of a send is left out, its block is not.

A request or an answer of which the single `recv` got only a part does not parse and is
dropped.  `Dropped` is a request that the peer dropped, or the answer of a handler that changes
nothing; where a handler has changed something before its answer was lost (`SendConnect`, a
block) `loseMessage` is a disjunct of the call.  `stop()` lets the server thread, which is in `accept`, serve
one more connection (`served`); after that the socket still takes connections
(`Hang`) until the process ends (`Released`).  `covered` is a history field: whether the
peer that counted the missing blocks is the one that is asked for them, had the starting
node's tip, and has answered for every page so far.

### Process

`pc` says where each of the four threads is, `mem` holds what they share: the flags
`running`, `ConsoleUI::running` and `isListening`, the database handle and its mutex,
the connections that wait.  A step touches one of these.  `shutdown()` is `StopServer`,
`Disconnect`, `CloseDB`, `ClearRunning`, on the input thread or on the system's; when
the main thread sees its flag cleared it destroys the members of `ChatApplication` in
the reverse order of their declaration (`DropServer`, `DropDB`, `DropUI`, `JoinInput`).
A thread that uses something destroyed may end the process or go on
(`UseDestroyed`).

A statement after `close()` calls `open()`, which locks the mutex its own thread
holds.  That is undefined; of the toolchains the build files name, MinGW's mutex hangs and
MSVC's throws, so `Relock` is a set of both and `statement` chooses.

`file` is `d-chat_config.json`: the entries it has and the number of its key pair.
`Start` is the constructor of `JsonConfig` and `init` up to the trusted peers: a missing
file is generated and read; an incomplete one is generated anew, but not read again.
`EditConfig` is the user who loses an entry.  `stored` are the key pairs whose messages
are in the database.

### ConsoleUI

`input` is the input thread's line, `currentInput` the copy that `printLog` shows again
after a log, `shown` what is in the input line of the screen.  A typed or erased
character changes the line (`PressChar`, `PressBackspace`), the copy
(`AssignCurrentInput`, without the mutex) and the screen (`RedrawInputLine`, with it), in
three steps; the other keys are handled under the mutex in one.  A log may come at any
time; one that reads the copy while it is written shows anything (`Garbled`).  The bound
is `MaxInput`, the length of a line; the history has the code's limit as a constant.

## What is checked

All bounds are constants: `Nodes`, `Msgs`, `MaxStarts`, `MaxFaults` (crashes and messages read in
part, together), `MaxCuts` and `MaxLost` (those of them that are messages, in `DChat` and in
`Membership`), `MaxEdits`, `MaxRequests`, `MaxInput`, batch sizes.  With `MaxFaults = 1` a run has one
crash or one message read in part, not both; the theorems have any number of both.  Deadlock is
checked for the console only: elsewhere the system may stop, as users need not type anything
and messages, starts and requests are finite.

| run | instance | distinct states | shows |
|---|---|---|---|
| `three` | 3 nodes, bob does not list alice, empty tables, 2 messages (one cut short), 1 crash | 74 530 | `ParentsStored`, `ForkOnlyWithOwnBlock`, `AcknowledgedOrOutrun`, `SentMessagesMatchOwnBlocks`, `InvalidOnlyIfUnlisted`, refinement `TablesImplementStore`, liveness `SendTerminates`, `ConnectionsServed`; `IInv`, `TypeOK` |
| `unequal` | 3 nodes, 3 messages at the size limit, bad key, skewed clock, 1 message read in part or 1 crash | 571 055 | `ReceivedChainValid`, `WithdrawnAtBothEnds`, `StoredMessagesShown`, `CrashLeavesOneMessage`, `UnsignedStaysAlone`, `SingleSenderConverges` |
| `mesh` | 4 nodes, 4 starts, one at a time, pages of one entry | 1 467 | `PeersAreOnline`; `OnlineInv` |
| `sync` | 3 nodes, two trusted hosts, one of which leaves and may come back, broadcast, restart, 1 crash or 1 message read in part, pages of one block | 340 791 | `SyncFollowsPeer`, `NoGapAfterStart`, `NothingAnnouncedMissed`; `SyncInv`, `TypeOK` |
| `join` | 3 nodes, 2 starts, broadcast, leaver, 1 crash or 1 message read in part, pages of one entry | 108 647 | `ListsWellFormed`, liveness `JobsFinish` |
| `process` | 2 starts, 1 edit of the file, 2 requests, a console event, both toolchains | 168 233 | `DestroyedAfterShutdown`, `AtMostOneMore`, `StartsAtSecondTry`, `HistoryKept`, liveness `ShutdownEnds`; `TypeOK` |
| `console` | 2 characters, lines up to 3, history of 2 | 278 072 | `IndexesInRange`, `ShownIsExecuted`, refinement `EditsImplementLine`; `TypeOK` |
| `fork`, `stale`, `gap`, `exit`, `early` | 1–3 nodes | – | the violations below |

Why these are enough to be interesting: a fork of a table needs two senders, a fork
that is more than a pair would need a third message; a partly failed broadcast needs
two receivers; waiting in a circle needs three input threads and three servers at
most; a page is smaller than what is fetched, so every loop is run more than once;
lists of four nodes have entries before and after the node that leaves or asks; in `join`
the lists change between two pages, as an exit, a start and a crash overlap with a start; a
message of each type is the one that is read in part in some behaviour of `unequal`; a
file is damaged between two starts and met by the second; one request can be in its
handler and another wait when the server is stopped; a line of three characters has
a cursor before, in and behind it, and a history of two overflows.

**What the passing runs say.**  However the threads interleave, a table never holds a
block without its parent, and two children of one block only if exactly one is the
owner's (`ForkOnlyWithOwnBlock`).  An acknowledged block is stored or was outrun by
an own block of the peer (`AcknowledgedOrOutrun`), although the result of
`insertBlock` is ignored.  Without an own new block a chain is valid
(`ReceivedChainValid`); what an own block, inserted without validation, may do to it is the subject
of `UnsignedStaysAlone` and of run `fork`.  A message its sender kept is marked `[INVALID]` at a running
recipient only if that one did not list the sender (`InvalidOnlyIfUnlisted`): between
nodes that list each other one side always notices.  The exception does happen in run
`three`.  Tables part only when two nodes have stored blocks, or the one that has does
not list everybody, has a clock that a peer does not believe, or had a block or its answer read
in part (`SingleSenderConverges`).  While nobody has crashed, a message is at both ends or its
withdrawal is under way, and a message that was kept, fits the buffer and is readable is at its
recipient; the exceptions are the withdrawal, and the text message, that the single `recv`
read in part (`WithdrawnAtBothEnds`).  That last one is real: the sender then keeps, and
broadcasts the block of, a message its recipient never sees.  A crash leaves at most one message
without its block at a node, never a block without its message (`CrashLeavesOneMessage`), and
the block of a node whose keys do not match is stored by that node alone, and only once
every peer it lists has gone (`UnsignedStaysAlone`).  What is stored is shown by `/chat` in
clear at both ends (`StoredMessagesShown`), with one exception, a message sent under
a key that does not match.  A node that missed blocks while it was
starting stays behind, but its table stays one line (`NoGapAfterStart`, where
`insertBlock` is one step; the forks of `DChat` come on top), and what it does store
makes it a prefix of the asked peer's table (`SyncFollowsPeer`).  Both are stated for
networks of which no table is empty or has a gap at the start (`OneLine`): from an
empty table both fail, as run `gap` shows.  However many threads
shut a process down, nothing is destroyed before the peers know and the database is
closed, and the process ends unless a thread hangs in the closed database (`ShutdownEnds`).
A command and a request are one local statement in that model: a command that waits in
`recv` for another node, for which the destructor of the console would wait in turn, is not among
them.
`HistoryKept` is about files that nobody edits: a user who loses the entry `private_key`
loses the identity, as a new pair is generated.  What Enter executes is always what the
screen shows, although logs use an unsynchronised copy (`ShownIsExecuted`).

**Fairness.**  `FairSpec` of `DChat`, `Membership` and `Process` asks weak fairness of each thread: the
operating system runs a thread that can go on.  In `DChat` these are the input thread
inside a command and the server thread; in `Membership` the thread that starts, sends
or leaves; in `Process` each of the four threads, and the system, which ends a process
whose window was closed.  Run `three` has a crash and no message read in part (`MaxCuts = 0`): what
a thread that waits sees of either is the same, a connection closed without an answer.  Nothing makes users
type, peers connect, nodes start or processes crash.

**Violations**, each of something the repository says:

- `fork`: two nodes send at once.  bob's server thread has validated and SELECTed alice's
  block when bob's input thread inserts its own; both are stored and
  `validateLocalChain` fails, against
  `tests/e2e/blockchain_fork_stress_test.cpp:436`.
- `stale`: carol learns of bob from alice's list, bob leaves before carol's final CONNECT,
  carol lists bob from then on; `/help` calls `/peers` the list of online peers.
- `gap`: a node with an empty table loses the first page of blocks; the second page
  passes `validateNewBlocks`, which compares the first block with a tip only if there
  is one.
- `exit`: three nodes leave at once and wait for each other.
- `early`: `/exit` is executed before the main thread reaches `running.store(true)`; the
  process then polls for ever, without an input loop to type `/exit` in again.

`NothingAnnouncedMissed` says that a starting node ends up with every block announced to
it, though the peer's table grows between the pages, on three conditions, none of which
could be left out, as run `sync` shows when it is: the peer that counted the missing blocks
is the one that is asked (with two trusted hosts it need not be), it knew the announced tip, and it answered
for every page, that is it did not crash, leave or lose a message just then.  It may have been
away between two pages.  As to the second, a node that stored a block, left, and comes back
before the block's author has stored it announces a tip its host does not know:
`countBlocksAfterHash` then counts every block and `getBlocksByIndexRange` returns none.

Of three nodes, two that leave together while nothing else goes on do end, and so does
everything in `join` with one leaver.

**Mutants.**  Every property of a passing run is broken by at least one plausible bug, an operator marked
"Mutant" next to the definition it replaces; `PROJECT.json` pairs them.

## What is proved

For any nodes, messages, topology, keys, clocks, sizes and number of crashes and of
messages read in part that satisfy `ChainAssumption` and `NetworkAssumption` (the
common initial table is one line
of distinct blocks, new messages have new hashes, nobody lists itself):

| theorem | states | module |
|---|---|---|
| `Inductive`, `TypeCorrect` | `IInv`, `TypeOK` | `DChatProofs` |
| `ParentsAlwaysStored` | `ParentsStored` | `DChatProofs` |
| `ForksOnlyWithOwnBlock` | `ForkOnlyWithOwnBlock` | `DChatProofs` |
| `ImplementsStore` | `TablesImplementStore`: the protocol refines `BlockStore` | `DChatProofs` |
| `AcknowledgedOrOutrunAlways` | `AcknowledgedOrOutrun` | `DChatProofs` |
| `SocketsAlways` | `SocketsInv`: who waits for what | `DChatSocketProofs` |
| `UniqueAlways` | `UniqueInv`: one block, sender and recipient per message | `DChatMessageProofs` |
| `SentMatchOwnBlocksAlways` | `SentMessagesMatchOwnBlocks` | `DChatMessageProofs` |
| `CrashAlwaysLeavesOneMessage` | `CrashLeavesOneMessage` | `DChatMessageProofs` |
| `StoredAlwaysShown` | `StoredMessagesShown` | `DChatMessageProofs` |
| `ReceivedChainAlwaysValid` | `ReceivedChainValid` | `DChatMessageProofs` |
| `BroadcastAlways` | `BroadcastInv`: what a broadcast owes its peers | `DChatBroadcastProofs` |
| `InvalidOnlyIfUnlistedAlways` | `InvalidOnlyIfUnlisted` | `DChatBroadcastProofs` |
| `UnsignedAlwaysStaysAlone` | `UnsignedStaysAlone` | `DChatBroadcastProofs` |
| `WithdrawnAtBothEndsAlways` | `WithdrawnAtBothEnds` | `DChatBroadcastProofs` |
| `AloneAlways` | `AloneOK`: every table is the only author's, or that and the block being sent | `DChatConvergenceProofs` |
| `SingleSenderAlwaysConverges` | `SingleSenderConverges` | `DChatConvergenceProofs` |

For any nodes, trusted hosts, tables, page sizes and number of starts, crashes and
messages read in part that satisfy `MembershipAssumption` and `StoredAssumption` (nobody trusts or
lists itself or a peer twice, a hash belongs to one block and is in a table once, new
messages have new hashes: what the program leaves on disk and in memory), all in
`MembershipProofs`:

| theorem | states |
|---|---|
| `TypeCorrect` | `TypeOK` |
| `ListsAlwaysWellFormed` | `ListsWellFormed` |
| `SyncAlways` | `SyncInv`: hashes, fetched blocks, single lines |
| `NeverAGapAfterStart` | `NoGapAfterStart` |
| `SyncAlwaysFollowsPeer` | `SyncFollowsPeer`, an action property |
| `OnlineAlways` | `OnlineInv`: the lists at every step of a start or an `/exit` |
| `PeersStayOnline` | `PeersAreOnline`, in a `Steady` network |

For any number of starts, edits and requests and both toolchains (`ProcessAssumption`,
`FileAssumption`: a missing file is not a file):
`TypeCorrect`, `DestroyedOnlyAfterShutdown`, `AtMostOneMoreAlways`,
`StartsAtSecondTryAlways`, `HistoryAlwaysKept` of `ProcessProofs`.  For lines and
histories of any length: `TypeCorrect`, `IndexesAlwaysInRange`, `ShownIsAlwaysExecuted`
and `ConsoleRefinesEditor` (`EditsImplementLine`, the refinement of `LineEditor`) of
`ConsoleUIProofs`.

### The argument for DChat

None of the safety properties is inductive, as a block is stored several steps after
it was created or validated.  The invariants come in layers, each proved with the ones
below it; all are defined at the end of `DChat`.

`IInv` says what each thread still knows of the table:

- `TableOK`: the table is closed under parents, has no duplicate hash, and forks only
  between an own and a received block;
- `ClientOK`: the block being sent extends a stored block, and all its stored
  siblings are *foreign* – the only thread that inserts own blocks is busy with
  this one;
- `RequestsOK`: a request in a backlog comes from another node and carries that
  node's own block, so a received block is never an own one;
- `ServerOK`: a validated block at the head of the backlog extends a stored block, and
  all its stored siblings are *own* – at validation it extended the tip, which has no
  child, and the only thread that inserts received blocks is busy with this one.

`Growth` shows that a step appends an own block or the validated one or nothing to a
table; with `ClientOK` and `ServerOK` both keep `TableOK` and satisfy
`BlockStore!Add`.

`SocketsInv` says who waits for whom: a request whose client is alive is awaited by
that client, with the block it sent, and there is only one of them (`QueueOK`); a
client has an answer only while it waits for one (`SocketOK`); a server inside a
handler has a request of that type before it (`HandlerOK`).  Everything below uses it to
conclude from what a server does what the client at the other end was doing.

`UniqueInv` follows every copy of a message or a block, in tables, requests, threads and
`acked`, to the one command that made it.  Without it a row and a block with the same
hash need not belong together.

- `SentOK` adds the positions inside a command at which the message row is already, or
  still, without its block; together with `UniqueInv` it gives
  `SentMessagesMatchOwnBlocks` and, at every position, `CrashLeavesOneMessage`.
- `ShownOK` adds the two moments at which a message is stored but its chat is not yet
  listed, and that what was stored could be decrypted and verified; the lemmas about
  `Crypto` (`SignedWell`, `ReadByRecipient`, `ReadBackBySender`) turn this into
  `StoredMessagesShown`.
- `ReceivedOK` keeps, between validation and INSERT, that a validated block extends the
  tip unless an own block came between; `ReceivedChainValid` excludes these.
- `BroadcastInv`: `AskedOK` (a committed block was acknowledged by all listed peers that
  run, and a broadcast has acknowledgements of all but those still to be called),
  `OutrunOK` (an acknowledged block is stored or outrun by an own new block) and `RaceOK`:
  of two nodes that list each other only one commits a block to a parent.  `RaceOK`
  is the heart of `InvalidOnlyIfUnlisted`: a node commits only after the other has
  acknowledged, the other acknowledges only what does not compete with its own table,
  and `CheckOwnBlock` looks at the table once more.
- `SignedInv`: what others than its author have stored or acknowledged has a valid signature.
  A broadcast ends with the acknowledgements of all listed peers that run (`AskedOK`), so an
  unsigned block gets as far as its own INSERT only if there are none: `UnsignedStaysAlone`.
- `DeliveryInv`: a message being withdrawn is gone at its sender (`WithdrawOK`), and a
  readable one is stored before its sender is answered, or `cut` says that it was read in part
  (`DeliveredOK`).

- `AloneOK` compares all tables at once.  While everybody runs and only `s` has had blocks
  stored, the table of `s` is one line, its block extends the tip of that line, and every
  other table is the same or has that block in addition, and only while `s` is sending;
  who is still to be called does not have it.  As long as none of its blocks, and no answer to
  one, is read in part, a refusal cannot come then: a peer would
  need another tip, the hash already, a clock behind that of `s`, or a bad signature,
  and that one every peer refuses.  So a broadcast is stored everywhere or nowhere.

The proofs go through the actions one by one; lemmas such as `ClientMoves`,
`HandlerMoves` and `TableOrigin` say once what the actions do to one part of the state.

### The argument for Membership

The handlers are loops over pages, written with `FoldLeft`, which the library defines by
recursion over sets of indexes.  `Iteration` unfolds it: a fold is the last member of a
sequence of intermediate results, which exists by well-founded induction over the
number of steps.  One lemma per loop (`AddPeersLoop`, `PageLoop`, `InsertLoop`) then says
what it leaves: who is in a list, which blocks are in a table and in which order.

- `ListsInv`: types, `ListsWellFormed`, and that whoever is called is another node
  (`JobOK`).  It is inductive with these parts because a page leaves out the asking node.
- `SyncInv` adds `HashInv` (a hash belongs to one block, wherever that is: tables,
  fetched pages, broadcasts), `FetchInv` (what was fetched is in the asked peer's table,
  which only grows, through restarts too) and `LineInv` (tables are lines, and a block
  being broadcast continues the table of its author).  Fetched blocks that pass
  `validateNewBlocks` are linked to each other and to the tip; as they are also in the
  peer's table, which is a line of distinct hashes, they are the blocks after that tip,
  without a gap, even if the pages before were lost.
- `OnlineInv` is about a `Steady` network: nobody starts or leaves while another node does,
  nothing crashes or is lost, everybody trusts a node that stays, the lists are right
  at the start.  Run `mesh` is such a network; run `stale` shows that the first condition
  is needed.  `OnlineOK` says that the nodes that neither start nor leave list one
  another, and `BusyOK` how far the other one has come: the hosts that
  answered list it, and their lists have the length that it will ask for; it has the
  pages up to `start`; once it has all of them it lists everybody; who does not know of
  it yet, or still lists it when it leaves, is still to be called.  The counter of the
  *last* host that answered is used for the list of the *first* one: `SameLength` shows
  that they agree, as each of them lists everybody online but itself.

### Process and ConsoleUI

`IInv` of `Process` adds to the types: no thread runs without a process (`OffOK`); who has
cleared a flag has executed the statements of `shutdown()` before it, whichever
thread it is (`ShutdownOK`); the connection counted as late is the one the server
thread was waiting for when the flag was cleared (`ListenerOK`); a file after a failing
start is complete, and one that nobody edited keeps its key pair (`FileOK`).  That of `ConsoleUI` adds
to ranges and screen that the copy equals the line except between the two assignments
of a typed key (`CopyOK`): this is why a log between two keys shows the line again.

### Only model-checked

Liveness (`SendTerminates`, `ConnectionsServed`, `JobsFinish`, `ShutdownEnds`): weak
fairness and ENABLED are beyond the prover.  `NothingAnnouncedMissed` of `Membership`: it
needs what `getBlocksByIndexRange` returns page by page, a `SubSeq` after a `CHOOSE`d position,
added up over all pages of a table that grows in between.

## Plan

Done: all modules of the table above with their runs; the theorems listed.  Next:

1. `NothingAnnouncedMissed` of `Membership` as a theorem.
2. Commands that wait for another node in `Process`, so that `ShutdownEnds` covers them.

## Not modelled

- Restart in `DChat`: the start of a process is `Membership`'s subject, where messages
  rows have no part, so that rows left by a crash are not followed into the next run.
  They stay as they are: no code of the program repairs them, and `/chat` marks them.
- Interleavings within a page of peers or blocks: the handlers take the peer list's
  mutex or one statement for each entry.  `Membership` serves a page in one step.
- The numbers behind cryptography and its encodings (ideal: what should decrypt, verify
  and differ does), failures of OpenSSL, SQLite and Winsock calls, a failing `bind`, the
  `SOMAXCONN` limit, `findFreePort`, move operations of the sockets.
- Configuration files that are not JSON, have unknown keys or values of another type:
  the constructor throws and the process does not start.
- In `Process`, commands blocked on another node: a command there is one local statement.
- What follows the part of a message that `recv` has read: the connection is closed, nobody
  reads it.
- More than one console event in a process; peers that do not answer a DISCONNECT are
  in `Membership` (`exit`), not in `Process`.
- Where the terminal puts the caret after a log, prompts that are printed twice, log
  output and JSON layout.
- Identifiers and clocks (`utils`): identities are unique values, clocks the relation `Ahead`.
- Requests that no d-chat program sends, and message types unknown to `ChatService`, which
  change nothing.
