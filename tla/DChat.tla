-------------------------------- MODULE DChat --------------------------------
(***************************************************************************)
(* Sending secret messages between running d-chat nodes: every message is  *)
(* delivered to its recipient, turned into a block, broadcast to all peers *)
(* and finally stored in the sender's own blocks table                     *)
(* (TCPClient::sendSecretMessage and everything it calls).                 *)
(*                                                                         *)
(* Each node runs two threads that share its database: the input thread,   *)
(* which executes /send commands one after the other and blocks on each    *)
(* answer, and the server thread, which serves one connection at a time in *)
(* the order in which they were made.  The database mutex is taken for one *)
(* SQL statement at a time, so a step of the model makes at most one       *)
(* statement that another thread could tell apart.                         *)
(*                                                                         *)
(* The nodes already know each other: joining, leaving and catching up are *)
(* not part of this module.                                                *)
(***************************************************************************)
EXTENDS BlockchainService, FiniteSets

CONSTANTS
    Nodes,          \* the running programs
    Msgs,           \* identities of the messages users may send, each once
    Peers,          \* Peers[n]: the contents of n's peer list
    InitialChain,   \* the blocks every node holds at the start
    Size,           \* Size[m]: length of message m serialized
    BufferSize,     \* BUFFER_SIZE, the limit on a serialized message
    MaxFaults,      \* bound: how many nodes crash and messages are read in part
    MaxCuts,        \* bound: how many of these are messages
    None            \* absent message, node or block

VARIABLES
    chain,          \* blocks table of each node
    messages,       \* messages table: rows [id, from, to]; the block hash is the id
    chats,          \* peers table: whom /chats lists and /chat can be asked about
    up,             \* whether the process runs
    backlog,        \* connections to a node's socket, the oldest first
    srv,            \* where the server thread is with the oldest connection
    cli,            \* the input thread's run of sendSecretMessage
    fresh,          \* messages no user has typed yet
    acked,          \* history: <<p, b>> when p answered block b without an error
    cut             \* history: messages of which only a part was read

vars == <<chain, messages, chats, up, backlog, srv, cli, fresh, acked, cut>>

Hash == Msgs \cup hashes(InitialChain)
Block == [hash : Hash, previousHash : Hash \cup {NoHash}, author : Nodes]
Row == [id : Msgs, from : Nodes, to : Nodes]

ASSUME ChainAssumption ==
    /\ InitialChain \in Seq(Block)
    /\ linear(InitialChain)
    /\ \A i, j \in DOMAIN InitialChain :
           InitialChain[i].hash = InitialChain[j].hash => i = j
    /\ Msgs \cap hashes(InitialChain) = {}
    /\ NoHash \notin Hash
    /\ None \notin Block \cup Nodes \cup Msgs

ASSUME NetworkAssumption ==
    /\ Peers \in [Nodes -> SUBSET Nodes]
    /\ \A n \in Nodes : n \notin Peers[n]
    /\ BadKeys \subseteq Nodes /\ Ahead \subseteq Nodes \X Nodes
    /\ BufferSize \in Nat \ {0} /\ Size \in [Msgs -> Nat]
    /\ MaxFaults \in Nat /\ MaxCuts \in Nat

-----------------------------------------------------------------------------
(* Requests: what a connection carries.  One that has been made but has    *)
(* not carried anything yet is of type "open", and the server thread that  *)
(* has accepted it sits in recv; one its client gave up before sending     *)
(* anything is of type "closed".                                           *)

RequestType == {"open", "closed", "TEXT_MESSAGE", "BLOCK", "BLOCKCHAIN_ERROR_RESPONSE"}
Request == [type : RequestType, from : Nodes, block : Block \cup {None}]

Open(n) == [type |-> "open", from |-> n, block |-> None]
Closed(n) == [type |-> "closed", from |-> n, block |-> None]
TextMessage(n, b) == [type |-> "TEXT_MESSAGE", from |-> n, block |-> b]
BlockMessage(n, b) == [type |-> "BLOCK", from |-> n, block |-> b]
BlockchainErrorMessage(n, b) ==
    [type |-> "BLOCKCHAIN_ERROR_RESPONSE", from |-> n, block |-> b]

\* The message_json column of a row, as sent by its author.  The text is taken
\* to be a different one for every message.
messageJson(r) == serializeText(r.from, r.to, r.id)

\* The server calls recv once, for one byte less than the sender's limit: a
\* message of exactly BufferSize bytes never comes whole.
fits(msg) == Size[msg] <= BufferSize - 1

\* what has gone wrong so far, for the bound
faults == Cardinality({p \in Nodes : ~up[p]}) + Cardinality(cut)

\* TCP may also deliver a message in parts, and both ends call recv only once.
\* What node n has read of the message of this type about block b does not parse.
Part == [type : RequestType \cup {"answer"}, at : Nodes, block : Block]
readPart(type, n, b) ==
    /\ faults < MaxFaults /\ Cardinality(cut) < MaxCuts
    /\ cut' = cut \cup {[type |-> type, at |-> n, block |-> b]}

-----------------------------------------------------------------------------
(* The input thread.                                                       *)

ClientPC == {"idle", "connected", "waitText", "addChat", "broadcast", "waitBlock",
             "insert", "rollback", "notify"}

Client == [pc    : ClientPC,
           msg   : Msgs \cup {None},        \* the message being sent
           to    : Nodes \cup {None},       \* and its recipient
           block : Block \cup {None},       \* the block made for it
           todo  : SUBSET Nodes,            \* peers the broadcast has still to call
           dst   : Nodes \cup {None},       \* other end of the socket in use
           reply : {"none", "ok", "error", "closed"}]   \* what came back on it

Idle == [pc |-> "idle", msg |-> None, to |-> None, block |-> None,
         todo |-> {}, dst |-> None, reply |-> "none"]

rowOf(n) == [id |-> cli[n].msg, from |-> n, to |-> cli[n].to]

\* DELETE FROM messages WHERE block_hash = ?.  It reports success whether or
\* not there was such a row, so removeMessageById is never reached.
removeMessageByBlockHashOrId(rows, hash) == {r \in rows : r.id # hash}

connectTo(p, request) == backlog' = [backlog EXCEPT ![p] = Append(@, request)]

TypeOK ==
    /\ chain \in [Nodes -> Seq(Block)]
    /\ messages \in [Nodes -> SUBSET Row]
    /\ chats \in [Nodes -> SUBSET Nodes]
    /\ up \in [Nodes -> BOOLEAN]
    /\ backlog \in [Nodes -> Seq(Request)]
    /\ srv \in [Nodes -> {"accept", "addChat", "check", "insert"}]
    /\ cli \in [Nodes -> Client]
    /\ fresh \subseteq Msgs
    /\ acked \subseteq Nodes \X Block
    /\ cut \subseteq Part

Init ==
    /\ chain = [n \in Nodes |-> InitialChain]
    /\ messages = [n \in Nodes |-> {}]
    /\ chats = [n \in Nodes |-> {}]
    /\ up = [n \in Nodes |-> TRUE]
    /\ backlog = [n \in Nodes |-> << >>]
    /\ srv = [n \in Nodes |-> "accept"]
    /\ cli = [n \in Nodes |-> Idle]
    /\ fresh = Msgs
    /\ acked = {}
    /\ cut = {}

\* /send: the recipient is looked up in the peer list, the message created and
\* the socket connected.  /send all is one such send after the other, each of a
\* message of its own.
Connect(n, m, p) ==
    /\ up[n] /\ cli[n].pc = "idle"
    /\ m \in fresh /\ p \in Peers[n]
    /\ up[p]
    /\ fresh' = fresh \ {m}
    /\ cli' = [cli EXCEPT ![n] = [Idle EXCEPT !.pc = "connected", !.msg = m,
                                              !.to = p, !.dst = p]]
    /\ connectTo(p, Open(n))
    /\ UNCHANGED <<chain, messages, chats, up, srv, acked, cut>>

\* The recipient does not answer: the later send on the unconnected socket
\* fails and sendSecretMessage returns without having stored anything.
ConnectFails(n, m, p) ==
    /\ up[n] /\ cli[n].pc = "idle"
    /\ m \in fresh /\ p \in Peers[n]
    /\ ~up[p]
    /\ fresh' = fresh \ {m}
    /\ UNCHANGED <<chain, messages, chats, up, backlog, srv, cli, acked, cut>>

\* What n's socket, connected and silent until now, does next.
nowCarries(n, requests, q) ==
    [i \in DOMAIN requests |-> IF requests[i] = Open(n) THEN q ELSE requests[i]]

\* Mutant: the message has been moved from when it is sent.
SendTextMoved(n) ==
    LET c == cli[n]
        b == createBlockFromMessage(chain[n], n, c.msg)
    IN  /\ up[n] /\ c.pc = "connected" /\ up[c.to]
        /\ Size[c.msg] <= BufferSize
        /\ cli' = [cli EXCEPT ![n] = [c EXCEPT !.pc = "waitText", !.block = b, !.msg = None]]
        /\ backlog' = [backlog EXCEPT ![c.to] =
               nowCarries(n, @, TextMessage(n, b))]
        /\ UNCHANGED <<chain, messages, chats, up, srv, fresh, acked, cut>>

\* The tip is read, the block made, the message serialized and sent.
SendText(n) ==
    LET c == cli[n]
        b == createBlockFromMessage(chain[n], n, c.msg)
    IN  /\ up[n] /\ c.pc = "connected" /\ up[c.to]
        /\ Size[c.msg] <= BufferSize
        /\ cli' = [cli EXCEPT ![n] = [c EXCEPT !.pc = "waitText", !.block = b]]
        /\ backlog' = [backlog EXCEPT ![c.to] =
               nowCarries(n, @, TextMessage(n, b))]
        /\ UNCHANGED <<chain, messages, chats, up, srv, fresh, acked, cut>>

\* "Message is too big": the exception leaves sendSecretMessage, whose socket
\* is closed.
MessageTooBig(n) ==
    LET c == cli[n]
    IN  /\ up[n] /\ c.pc = "connected"
        /\ Size[c.msg] > BufferSize
        /\ cli' = [cli EXCEPT ![n] = Idle]
        /\ backlog' = [backlog EXCEPT ![c.to] =
               nowCarries(n, @, Closed(n))]
        /\ UNCHANGED <<chain, messages, chats, up, srv, fresh, acked, cut>>

\* The recipient has crashed since connect: send either reports it, and
\* sendSecretMessage returns, or succeeds locally and the answer comes back empty.
SendTextLost(n) ==
    LET c == cli[n]
        b == createBlockFromMessage(chain[n], n, c.msg)
    IN  /\ up[n] /\ c.pc = "connected" /\ ~up[c.to]
        /\ Size[c.msg] <= BufferSize
        /\ \/ cli' = [cli EXCEPT ![n] = Idle]
           \/ cli' = [cli EXCEPT ![n] = [c EXCEPT !.pc = "waitText", !.block = b,
                                                  !.reply = "closed"]]
        /\ UNCHANGED <<chain, messages, chats, up, backlog, srv, fresh, acked, cut>>

\* Whatever the answer was, an error or nothing at all included, the message is
\* stored ...
TextAnswered(n) ==
    /\ up[n] /\ cli[n].pc = "waitText" /\ cli[n].reply # "none"
    /\ messages' = [messages EXCEPT ![n] = @ \cup {rowOf(n)}]
    /\ cli' = [cli EXCEPT ![n] = [@ EXCEPT !.pc = "addChat", !.dst = None, !.reply = "none"]]
    /\ UNCHANGED <<chain, chats, up, backlog, srv, fresh, acked, cut>>

\* ... then the recipient listed as a chat, and a snapshot of the peer list taken
\* for the broadcast.
AddChatPeer(n) ==
    /\ up[n] /\ cli[n].pc = "addChat"
    /\ chats' = [chats EXCEPT ![n] = @ \cup {cli[n].to}]
    /\ cli' = [cli EXCEPT ![n] = [@ EXCEPT !.pc = "broadcast", !.todo = Peers[n]]]
    /\ UNCHANGED <<chain, messages, up, backlog, srv, fresh, acked, cut>>

\* One call of sendCallback: connect and send the block.
SendBlock(n, p) ==
    /\ up[n] /\ cli[n].pc = "broadcast" /\ p \in cli[n].todo
    /\ up[p]
    /\ cli' = [cli EXCEPT ![n] = [@ EXCEPT !.pc = "waitBlock", !.todo = cli[n].todo \ {p},
                                           !.dst = p]]
    /\ connectTo(p, BlockMessage(n, cli[n].block))
    /\ UNCHANGED <<chain, messages, chats, up, srv, fresh, acked, cut>>

\* A peer that cannot be reached counts as a success.
SkipPeer(n, p) ==
    /\ up[n] /\ cli[n].pc = "broadcast" /\ p \in cli[n].todo
    /\ ~up[p]
    /\ cli' = [cli EXCEPT ![n] = [@ EXCEPT !.todo = cli[n].todo \ {p}]]
    /\ UNCHANGED <<chain, messages, chats, up, backlog, srv, fresh, acked, cut>>

\* Mutant: the loop over the peers is left after the first success, too.
BlockAnsweredOnce(n) ==
    /\ up[n] /\ cli[n].pc = "waitBlock" /\ cli[n].reply # "none"
    /\ cli' = [cli EXCEPT ![n] =
           [@ EXCEPT !.pc = IF cli[n].reply = "ok" THEN "broadcast" ELSE "rollback",
                     !.todo = {}, !.dst = None, !.reply = "none"]]
    /\ UNCHANGED <<chain, messages, chats, up, backlog, srv, fresh, acked, cut>>

\* Mutant: an error is logged like any other answer.
BlockAnsweredAnyhow(n) ==
    /\ up[n] /\ cli[n].pc = "waitBlock" /\ cli[n].reply # "none"
    /\ cli' = [cli EXCEPT ![n] = [@ EXCEPT !.pc = "broadcast", !.dst = None, !.reply = "none"]]
    /\ UNCHANGED <<chain, messages, chats, up, backlog, srv, fresh, acked, cut>>

\* An error or no answer ends the broadcast: the peers not called yet never see
\* the block, those called keep it.
BlockAnswered(n) ==
    /\ up[n] /\ cli[n].pc = "waitBlock" /\ cli[n].reply # "none"
    /\ cli' = [cli EXCEPT ![n] =
           [@ EXCEPT !.pc = IF cli[n].reply = "ok" THEN "broadcast" ELSE "rollback",
                     !.dst = None, !.reply = "none"]]
    /\ UNCHANGED <<chain, messages, chats, up, backlog, srv, fresh, acked, cut>>

\* So does an answer that does not parse, whatever the peer has done.
BlockAnswerCut(n) ==
    /\ up[n] /\ cli[n].pc = "waitBlock" /\ cli[n].reply \in {"ok", "error"}
    /\ readPart("answer", n, cli[n].block)
    /\ cli' = [cli EXCEPT ![n] = [@ EXCEPT !.pc = "rollback", !.dst = None, !.reply = "none"]]
    /\ UNCHANGED <<chain, messages, chats, up, backlog, srv, fresh, acked>>

\* All peers are done with: insertBlock on the own table, first its SELECT ...
CheckOwnBlock(n) ==
    /\ up[n] /\ cli[n].pc = "broadcast" /\ cli[n].todo = {}
    /\ cli' = [cli EXCEPT ![n].pc =
           IF insertAllowed(chain[n], cli[n].block) THEN "insert" ELSE "rollback"]
    /\ UNCHANGED <<chain, messages, chats, up, backlog, srv, fresh, acked, cut>>

\* ... then its INSERT.  The own block is not validated.
InsertOwnBlock(n) ==
    /\ up[n] /\ cli[n].pc = "insert"
    /\ chain' = [chain EXCEPT ![n] = insertRow(@, cli[n].block)]
    /\ cli' = [cli EXCEPT ![n] =
           IF hasBlock(chain[n], cli[n].block.hash) THEN [@ EXCEPT !.pc = "rollback"]
                                                    ELSE Idle]
    /\ UNCHANGED <<messages, chats, up, backlog, srv, fresh, acked, cut>>

\* Mutant: the message stays although its block was not stored.
RollbackNothing(n) ==
    /\ up[n] /\ cli[n].pc = "rollback"
    /\ cli' = [cli EXCEPT ![n].pc = "notify"]
    /\ UNCHANGED <<chain, messages, chats, up, backlog, srv, fresh, acked, cut>>

\* The own copy of the message is removed first ...
Rollback(n) ==
    /\ up[n] /\ cli[n].pc = "rollback"
    /\ messages' = [messages EXCEPT ![n] =
           removeMessageByBlockHashOrId(@, cli[n].block.hash)]
    /\ cli' = [cli EXCEPT ![n].pc = "notify"]
    /\ UNCHANGED <<chain, chats, up, backlog, srv, fresh, acked, cut>>

\* ... then the recipient is told, if it can be reached; no answer is awaited.
NotifyRecipient(n) ==
    /\ up[n] /\ cli[n].pc = "notify"
    /\ cli' = [cli EXCEPT ![n] = Idle]
    /\ IF up[cli[n].to]
       THEN connectTo(cli[n].to, BlockchainErrorMessage(n, cli[n].block))
       ELSE UNCHANGED backlog
    /\ UNCHANGED <<chain, messages, chats, up, srv, fresh, acked, cut>>

-----------------------------------------------------------------------------
(* The server thread: the oldest connection, answered and closed before    *)
(* the next one is accepted.                                               *)

request(n) == Head(backlog[n])

serving(n, type) == up[n] /\ backlog[n] # << >> /\ request(n).type = type

accepted(n) == backlog' = [backlog EXCEPT ![n] = Tail(@)]

\* Mutant: the socket stays open when there is nothing to answer.
answerOrKeepOpen(n, answer) ==
    /\ accepted(n)
    /\ cli' = IF up[request(n).from] /\ answer # "closed"
              THEN [cli EXCEPT ![request(n).from].reply = answer]
              ELSE cli

\* The connection is answered and closed.  The client that made it is waiting
\* for the answer, unless it has crashed.
answerWith(n, answer) ==
    /\ accepted(n)
    /\ cli' = IF up[request(n).from]
              THEN [cli EXCEPT ![request(n).from].reply = answer]
              ELSE cli

\* Mutant: recv is tried again.
DropClosedNever(n) ==
    /\ serving(n, "closed")
    /\ UNCHANGED vars

\* recv returns nothing: the connection is closed, the next one accepted.
DropClosed(n) ==
    /\ serving(n, "closed")
    /\ accepted(n)
    /\ UNCHANGED <<chain, messages, chats, up, srv, cli, fresh, acked, cut>>

\* A request that has come in part does not parse: it is dropped without an
\* answer, and its client, if it waits for one, reads an empty one.
ReceivePart(n) ==
    LET q == request(n)
    IN  /\ up[n] /\ backlog[n] # << >> /\ srv[n] = "accept"
        /\ q.type \notin {"open", "closed"}
        /\ readPart(q.type, n, q.block)
        /\ IF q.type = "BLOCKCHAIN_ERROR_RESPONSE"
           THEN accepted(n) /\ UNCHANGED cli
           ELSE answerWith(n, "closed")
        /\ UNCHANGED <<chain, messages, chats, up, srv, fresh, acked>>

\* A text message that does not fit is dropped in the same way, one that
\* does not decrypt or verify is answered with ERROR_RESPONSE; any other is
\* stored ...
HandleTextMessage(n) ==
    LET q == request(n)
        r == [id |-> q.block.hash, from |-> q.from, to |-> n]
    IN  /\ serving(n, "TEXT_MESSAGE") /\ srv[n] = "accept"
        /\ IF fits(r.id) /\ readable(n, messageJson(r), FALSE)
           THEN /\ messages' = [messages EXCEPT ![n] = @ \cup {r}]
                /\ srv' = [srv EXCEPT ![n] = "addChat"]
                /\ UNCHANGED <<backlog, cli>>
           ELSE /\ answerWith(n, IF fits(r.id) THEN "error" ELSE "closed")
                /\ UNCHANGED <<messages, srv>>
        /\ UNCHANGED <<chain, chats, up, fresh, acked, cut>>

\* Mutant: the sender of a message is not listed.
AnswerTextOnly(n) ==
    /\ serving(n, "TEXT_MESSAGE") /\ srv[n] = "addChat"
    /\ srv' = [srv EXCEPT ![n] = "accept"]
    /\ answerWith(n, "ok")
    /\ UNCHANGED <<chain, messages, chats, up, fresh, acked, cut>>

\* ... its sender listed as a chat, and the answer sent.
AnswerTextMessage(n) ==
    /\ serving(n, "TEXT_MESSAGE") /\ srv[n] = "addChat"
    /\ chats' = [chats EXCEPT ![n] = @ \cup {request(n).from}]
    /\ srv' = [srv EXCEPT ![n] = "accept"]
    /\ answerWith(n, "ok")
    /\ UNCHANGED <<chain, messages, up, fresh, acked, cut>>

\* onIncomingBlock, up to the end of validateIncomingBlock.
ValidateBlock(n) ==
    /\ serving(n, "BLOCK") /\ srv[n] = "accept"
    /\ IF validateIncomingBlock(n, chain[n], request(n).block)
       THEN srv' = [srv EXCEPT ![n] = "check"] /\ UNCHANGED <<backlog, cli>>
       ELSE answerWith(n, "error") /\ UNCHANGED srv
    /\ UNCHANGED <<chain, messages, chats, up, fresh, acked, cut>>

\* The SELECT of insertBlock.  The result of insertBlock is ignored: a block
\* that is not stored is acknowledged like one that is.
CheckBlock(n) ==
    /\ serving(n, "BLOCK") /\ srv[n] = "check"
    /\ IF insertAllowed(chain[n], request(n).block)
       THEN srv' = [srv EXCEPT ![n] = "insert"] /\ UNCHANGED <<backlog, cli, acked>>
       ELSE /\ srv' = [srv EXCEPT ![n] = "accept"]
            /\ answerWith(n, "ok")
            /\ acked' = acked \cup {<<n, request(n).block>>}
    /\ UNCHANGED <<chain, messages, chats, up, fresh, cut>>

\* The INSERT of insertBlock, and the answer.
InsertBlock(n) ==
    /\ serving(n, "BLOCK") /\ srv[n] = "insert"
    /\ chain' = [chain EXCEPT ![n] = insertRow(@, request(n).block)]
    /\ srv' = [srv EXCEPT ![n] = "accept"]
    /\ answerWith(n, "ok")
    /\ acked' = acked \cup {<<n, request(n).block>>}
    /\ UNCHANGED <<messages, chats, up, fresh, cut>>

\* Mutant: the notice is read but the message kept.
HandleErrorKeeping(n) ==
    /\ serving(n, "BLOCKCHAIN_ERROR_RESPONSE")
    /\ accepted(n)
    /\ UNCHANGED <<chain, messages, chats, up, srv, cli, fresh, acked, cut>>

\* The sender has closed its socket already and reads no answer.
HandleBlockchainError(n) ==
    /\ serving(n, "BLOCKCHAIN_ERROR_RESPONSE")
    /\ messages' = [messages EXCEPT ![n] =
           removeMessageByBlockHashOrId(@, request(n).block.hash)]
    /\ accepted(n)
    /\ UNCHANGED <<chain, chats, up, srv, cli, fresh, acked, cut>>

-----------------------------------------------------------------------------
(* What /chat shows; it changes nothing.                                   *)

readBack(n, r, invertFromTo) ==
    [id |-> r.id, from |-> r.from, to |-> r.to,
     text |-> textOf(n, messageJson(r), invertFromTo)]

\* What the peer has sent, then what has been sent to the peer, sorted by time.
findChatMessages(n, p) ==
    {readBack(n, r, FALSE) : r \in {q \in messages[n] : q.to = n /\ q.from = p}}
        \cup {readBack(n, r, TRUE) : r \in {q \in messages[n] : q.to = p /\ q.from = n}}

\* The messages marked [INVALID]: their block is not in the own table, or is not
\* a block for them.
findInvalidChatMessageIDs(n, read) ==
    {m.id : m \in {q \in read : \A i \in DOMAIN chain[n] :
                       chain[n][i].hash = q.id =>
                           ~compareBlockWithMessage(chain[n][i], q)}}

\* A chat is only shown if the other end is found in the peers table.
handleChatCommand(n, p) == IF p \in chats[n] THEN findChatMessages(n, p) ELSE {}

-----------------------------------------------------------------------------
awaits(p, n) ==
    cli[p].dst = n /\ cli[p].pc \in {"waitText", "waitBlock"} /\ cli[p].reply = "none"

(* The process ends without warning.  Its tables stay; its sockets close:  *)
(* clients waiting for it read an empty answer, and servers in recv on a   *)
(* connection of it that carried nothing will drop it.  What it had sent is*)
(* still in the receivers' buffers.  It does not come back here.           *)
Crash(n) ==
    /\ up[n] /\ faults < MaxFaults
    /\ up' = [up EXCEPT ![n] = FALSE]
    /\ srv' = [srv EXCEPT ![n] = "accept"]
    /\ backlog' = [p \in Nodes |->
           IF p = n THEN << >> ELSE nowCarries(n, backlog[p], Closed(n))]
    /\ cli' = [p \in Nodes |->
           IF p = n THEN Idle
           ELSE IF awaits(p, n) THEN [cli[p] EXCEPT !.reply = "closed"] ELSE cli[p]]
    /\ UNCHANGED <<chain, messages, chats, fresh, acked, cut>>

\* Steps of the input thread once a command has been typed, and of the server
\* thread.
ClientStep(n) ==
    \/ SendText(n) \/ MessageTooBig(n) \/ SendTextLost(n) \/ TextAnswered(n)
    \/ AddChatPeer(n)
    \/ \E p \in Nodes : SendBlock(n, p) \/ SkipPeer(n, p)
    \/ BlockAnswered(n) \/ BlockAnswerCut(n) \/ CheckOwnBlock(n) \/ InsertOwnBlock(n)
    \/ Rollback(n) \/ NotifyRecipient(n)

ServerStep(n) ==
    \/ HandleTextMessage(n) \/ AnswerTextMessage(n)
    \/ ValidateBlock(n) \/ CheckBlock(n) \/ InsertBlock(n)
    \/ HandleBlockchainError(n) \/ DropClosed(n) \/ ReceivePart(n)

Next ==
    \E n \in Nodes :
        \/ \E m \in Msgs, p \in Nodes : Connect(n, m, p) \/ ConnectFails(n, m, p)
        \/ ClientStep(n)
        \/ ServerStep(n)
        \/ Crash(n)

Spec == Init /\ [][Next]_vars

\* Neither thread stops while it has something to do; nobody has to type a
\* command or to crash.
FairSpec == Spec /\ \A n \in Nodes : WF_vars(ClientStep(n)) /\ WF_vars(ServerStep(n))

-----------------------------------------------------------------------------
(* Properties.                                                             *)

Store == INSTANCE BlockStore WITH store <- chain

\* The blocks tables implement the abstract store: insertBlock, run by two
\* threads in two steps each, never adds a block before its parent, twice, or
\* as a second received child, and nothing else touches a table.
TablesImplementStore == Store!Spec

\* Every block of a table extends "0" or a block stored before it, whatever the
\* two threads that insert into it did between validation, SELECT and INSERT.
ParentsStored ==
    \A n \in Nodes : \A i \in DOMAIN chain[n] :
        \/ chain[n][i].previousHash = NoHash
        \/ \E j \in 1..(i - 1) : chain[n][j].hash = chain[n][i].previousHash

\* insertBlock exists to give a block at most one child, but its SELECT and its
\* INSERT are separate.  What remains true: two blocks of one table have the
\* same parent only if exactly one of them is the table owner's own, so a node
\* forks at most in two and never between two blocks it received.
ForkOnlyWithOwnBlock ==
    \A n \in Nodes : \A i, j \in DOMAIN chain[n] :
        i # j /\ chain[n][i].previousHash = chain[n][j].previousHash
            => (chain[n][i].author = n <=> chain[n][j].author # n)

\* A table that holds no block its owner has sent passes validateLocalChain: a
\* chain is only ever damaged by the owner's own, unvalidated insert.
ReceivedChainValid ==
    \A n \in Nodes :
        (\A i \in DOMAIN chain[n] : i > Len(InitialChain) => chain[n][i].author # n)
            => (validateLocalChain(InitialChain) => validateLocalChain(chain[n]))

\* onIncomingBlock ignores the result of insertBlock.  A peer that answered a
\* block without an error nevertheless holds it, or a block of its own with the
\* same parent that won the race against it.
AcknowledgedOrOutrun ==
    \A a \in acked :
        \/ hasBlock(chain[a[1]], a[2].hash)
        \/ \E i \in DOMAIN chain[a[1]] :
               /\ chain[a[1]][i].author = a[1]
               /\ chain[a[1]][i].previousHash = a[2].previousHash

\* n's table holds a block of its own for message m; n lists m as sent.
hasOwn(n, m) == \E i \in DOMAIN chain[n] : chain[n][i].hash = m /\ chain[n][i].author = n
hasSent(n, m) == \E r \in messages[n] : r.id = m /\ r.from = n

\* Between two sends a running node lists as sent exactly the messages whose
\* block is in its own table: the rollback in sendSecretMessage covers every way
\* in which the block can fail to be stored.
SentMessagesMatchOwnBlocks ==
    \A n \in Nodes : up[n] /\ cli[n].pc = "idle" =>
        \A m \in Msgs :
            (\E r \in messages[n] : r.id = m /\ r.from = n)
                <=> (\E i \in DOMAIN chain[n] : chain[n][i].hash = m /\ chain[n][i].author = n)

\* A crash in the middle of a send can leave a message without its block, and
\* nothing repairs that.  It is never more than one, and never the other way
\* round: sendSecretMessage stores the message before it stores the block, and has
\* withdrawn or completed one send before it begins the next.
CrashLeavesOneMessage ==
    \A n \in Nodes :
        LET loose == {m \in Msgs : hasSent(n, m) /\ ~hasOwn(n, m)}
        IN  /\ \A m, k \in loose : m = k
            /\ \A m \in Msgs : hasOwn(n, m) => hasSent(n, m)

\* The own block is inserted without validation.  A block whose author's private
\* key does not match its public one is nevertheless stored nowhere but in that
\* author's table, and only once every peer it lists has gone: any that had
\* answered would have refused it.
UnsignedStaysAlone ==
    \A n \in Nodes : \A i \in DOMAIN chain[n] :
        i > Len(InitialChain) /\ chain[n][i].author \in BadKeys =>
            chain[n][i].author = n /\ \A p \in Peers[n] : ~up[p]

\* /chat shows every message a running node has stored, sent or received, once
\* the thread that stored it has come to its next statement: the peers table is
\* filled by another statement than the messages table, and by both threads.  It
\* shows the text that was typed, although the one copy of it is encrypted for
\* one reader and read by two; "CRASHED MESSAGE" only stands for a message of
\* one's own that was sent with a private key that does not fit the public one.
StoredMessagesShown ==
    \A n \in Nodes : up[n] => \A r \in messages[n] :
        LET sent == r.from = n
            text == IF sent /\ n \in BadKeys THEN CrashedMessage ELSE r.id
        IN  \/ [id |-> r.id, from |-> r.from, to |-> r.to, text |-> text]
                   \in handleChatCommand(n, IF sent THEN r.to ELSE r.from)
            \/ IF sent THEN cli[n].pc = "addChat" ELSE srv[n] = "addChat"

\* A message whose block its sender p has stored is marked [INVALID] in the /chat
\* of its recipient n only if n does not list p and has stored a block of its own
\* on the same parent.  Between nodes that list each other that race is always
\* noticed at one of the two ends, although neither validates its own block.
InvalidOnlyIfUnlisted ==
    \A n, p \in Nodes : up[n] => \A b \in {chain[p][i] : i \in DOMAIN chain[p]} :
        (/\ [id |-> b.hash, from |-> p, to |-> n] \in messages[n]
         /\ b.hash \in findInvalidChatMessageIDs(n, findChatMessages(n, p)))
            => /\ p \notin Peers[n]
               /\ \E j \in DOMAIN chain[n] :
                      chain[n][j].author = n /\ chain[n][j].previousHash = b.previousHash

\* n has read only a part of the message of this type about block hash.
wasCut(type, n, hash) == \E c \in cut : c.type = type /\ c.at = n /\ c.block.hash = hash

\* While no node has crashed: a message its recipient holds is held by the
\* sender, or is still being sent, or its withdrawal is on the way or was read in
\* part; and one the sender has kept is held by the recipient, unless it was read
\* there in part, too long for the buffer or unreadable.
WithdrawnAtBothEnds ==
    (\A n \in Nodes : up[n]) =>
        \A n \in Nodes : \A r \in messages[n] :
            /\ r.to = n =>
                  \/ r \in messages[r.from]
                  \/ cli[r.from].msg = r.id
                  \/ \E i \in DOMAIN backlog[n] :
                         /\ backlog[n][i].type = "BLOCKCHAIN_ERROR_RESPONSE"
                         /\ backlog[n][i].block.hash = r.id
                  \/ wasCut("BLOCKCHAIN_ERROR_RESPONSE", n, r.id)
            /\ r.from = n /\ fits(r.id) /\ {n, r.to} \cap BadKeys = {} =>
                  r \in messages[r.to] \/ wasCut("TEXT_MESSAGE", r.to, r.id)

\* The new blocks of all tables are blocks of s, which lists everybody, whose clock
\* is not ahead of anybody's, and none of whose blocks, nor an answer to one, has
\* been read in part.
onlyAuthor(s) ==
    /\ Peers[s] = Nodes \ {s} /\ \A n \in Nodes : <<s, n>> \notin Ahead
    /\ \A n \in Nodes : \A i \in DOMAIN chain[n] :
           i > Len(InitialChain) => chain[n][i].author = s
    /\ \A c \in cut : c.type \in {"BLOCK", "answer"} => c.block.author # s

\* While no node has crashed: tables of nodes between two commands differ only
\* if blocks of two nodes have been stored somewhere, or if the only author does
\* not list everybody, has a clock some peer does not believe, or was not heard or
\* answered in full.  Sends of others that were refused everywhere, and the order in
\* which peers were called, leave no trace.
SingleSenderConverges ==
    (\A n \in Nodes : up[n] /\ cli[n].pc = "idle") =>
        \A s \in Nodes : onlyAuthor(s) => \A n, p \in Nodes : chain[n] = chain[p]

\* What the stress test asserts of every node after concurrent sends:
\* validateLocalChain.
LocalChainsValid == \A n \in Nodes : validateLocalChain(chain[n])

\* Every /send command comes to its end although the input thread waits for
\* other nodes' single-threaded servers without a timeout: servers never wait
\* for a thread that waits for them.
SendTerminates == \A n \in Nodes : cli[n].pc # "idle" ~> cli[n].pc = "idle"

\* Every connection to a node is served some time (or the node crashes), the
\* silent ones of clients that gave up and withdrawal notices included.
ConnectionsServed ==
    \A n \in Nodes : backlog[n] # << >> ~> backlog[n] = << >>

-----------------------------------------------------------------------------
(* The inductive invariant behind the safety properties.                   *)

\* A table is closed under parents, free of duplicates, and forks only between
\* an own and a received block.
TableOK(n) ==
    LET t == chain[n]
    IN  /\ \A i \in DOMAIN t :
               \/ t[i].previousHash = NoHash
               \/ \E j \in 1..(i - 1) : t[j].hash = t[i].previousHash
        /\ \A i, j \in DOMAIN t : t[i].hash = t[j].hash => i = j
        /\ \A i, j \in DOMAIN t :
               i # j /\ t[i].previousHash = t[j].previousHash
                   => (t[i].author = n <=> t[j].author # n)

\* Every block stored in t with this parent is of (is not of) node n.
siblingsOwn(n, t, b) ==
    \A i \in DOMAIN t : t[i].previousHash = b.previousHash => t[i].author = n
siblingsForeign(n, t, b) ==
    \A i \in DOMAIN t : t[i].previousHash = b.previousHash => t[i].author # n

\* The block being sent was made by this node on a block of its table, and
\* since then the node has stored no other block of its own there.
ClientOK(n) ==
    LET c == cli[n]
    IN  /\ c.pc # "idle" => c.msg \in Msgs /\ c.to \in Nodes \ {n}
        /\ n \notin c.todo
        /\ c.pc \notin {"idle", "connected"} =>
               /\ c.block \in Block
               /\ c.block.hash = c.msg /\ c.block.author = n
               /\ Store!extendsStored(chain[n], c.block)
               /\ siblingsForeign(n, chain[n], c.block)

\* Requests come from other nodes, and their block is their sender's.
RequestOK(n, q) ==
    /\ q.from # n
    /\ q.type \notin {"open", "closed"} =>
           q.block \in Block /\ q.block.hash \in Msgs /\ q.block.author = q.from
RequestsOK(n) == \A i \in DOMAIN backlog[n] : RequestOK(n, backlog[n][i])

\* A block that has passed validation extends a block of the table, and only
\* the node's own blocks can have got there before it.
ServerOK(n) ==
    srv[n] \in {"check", "insert"} =>
        /\ backlog[n] # << >> /\ request(n).type = "BLOCK"
        /\ Store!extendsStored(chain[n], request(n).block)
        /\ siblingsOwn(n, chain[n], request(n).block)

IInv == TypeOK /\ \A n \in Nodes : TableOK(n) /\ ClientOK(n) /\ RequestsOK(n) /\ ServerOK(n)

-----------------------------------------------------------------------------
(* What the properties of messages and broadcasts rest on besides IInv:    *)
(* who waits for what.                                                     *)

\* A request its client is waiting for an answer to, or has yet to send.
live(q) == q.type \in {"open", "TEXT_MESSAGE", "BLOCK"}

\* The client of request q in n's queue is waiting for n, with the same block.
awaited(n, q) ==
    LET c == cli[q.from]
    IN  /\ c.dst = n /\ c.reply = "none"
        /\ q.type = "open" => c.pc = "connected" /\ q.block = None
        /\ q.type = "TEXT_MESSAGE" => c.pc = "waitText" /\ q.block = c.block
        /\ q.type = "BLOCK" => c.pc = "waitBlock" /\ q.block = c.block

\* A running client has at most one live request, in the queue of the node its
\* socket is connected to.
QueueOK(n) ==
    LET s == backlog[n]
        alive(i) == live(s[i]) /\ up[s[i].from]
    IN  /\ ~up[n] => s = << >>
        /\ \A i \in DOMAIN s : alive(i) => awaited(n, s[i])
        /\ \A i, j \in DOMAIN s : alive(i) /\ alive(j) /\ s[i].from = s[j].from => i = j

\* The sockets and the answer of the input thread.
SocketOK(n) ==
    LET c == cli[n]
    IN  /\ ~up[n] \/ c.pc = "idle" => c = Idle
        /\ c.pc # "idle" => c.to \in Peers[n]
        /\ c.pc \in {"connected", "waitText"} => c.dst = c.to
        /\ c.pc \notin {"waitText", "waitBlock"} => c.reply = "none"

\* The server thread is in the middle of a request of the right type.
HandlerOK(n) ==
    srv[n] # "accept" =>
        /\ up[n] /\ backlog[n] # << >>
        /\ request(n).type = IF srv[n] = "addChat" THEN "TEXT_MESSAGE" ELSE "BLOCK"

SocketsInv == \A n \in Nodes : QueueOK(n) /\ SocketOK(n) /\ HandlerOK(n)

-----------------------------------------------------------------------------
(* Which blocks and messages there are.                                    *)

\* A copy of b is in a table, a request, in the hands of an input thread, or has
\* been acknowledged.
blockSeen(b) ==
    \E k \in Nodes :
        \/ \E i \in DOMAIN chain[k] : chain[k][i] = b
        \/ \E i \in DOMAIN backlog[k] :
               backlog[k][i].type \notin {"open", "closed"} /\ backlog[k][i].block = b
        \/ cli[k].pc \notin {"idle", "connected"} /\ cli[k].block = b
        \/ <<k, b>> \in acked

\* Message r is stored, on its way, being sent or being withdrawn.
rowSeen(r) ==
    \E k \in Nodes :
        \/ r \in messages[k]
        \/ \E i \in DOMAIN backlog[k] :
               LET q == backlog[k][i]
               IN  /\ q.type \in {"TEXT_MESSAGE", "BLOCKCHAIN_ERROR_RESPONSE"}
                   /\ r = [id |-> q.block.hash, from |-> q.from, to |-> k]
        \/ cli[k].pc # "idle" /\ r = rowOf(k)

\* A message has one sender, one recipient and one block, which is its sender's
\* and does not exist before the message has been connected for.
UniqueInv ==
    /\ \A b, c \in Block : blockSeen(b) /\ blockSeen(c) /\ b.hash = c.hash => b = c
    /\ \A r, s \in Row : rowSeen(r) /\ rowSeen(s) /\ r.id = s.id => r = s
    /\ \A b \in Block, r \in Row : blockSeen(b) /\ rowSeen(r) /\ b.hash = r.id
                                      => b.author = r.from
    /\ \A b \in Block : blockSeen(b) =>
           /\ b.hash \notin fresh
           /\ \A n \in Nodes : cli[n].pc = "connected" => cli[n].msg # b.hash
    /\ \A r \in Row : rowSeen(r) => r.id \notin fresh /\ r.to \in Peers[r.from]
    /\ \A n, k \in Nodes, r \in Row :
           cli[n].pc = "connected" /\ r \in messages[k] => r.id # cli[n].msg

-----------------------------------------------------------------------------
(* What holds while a message is sent.                                     *)

\* The message being sent is stored from its answer to its rollback, and its
\* block not before the end; of the others, either both or none.
SentOK(n) ==
    up[n] => \A m \in Msgs :
        IF m = cli[n].msg
        THEN /\ ~hasOwn(n, m)
             /\ hasSent(n, m) <=>
                    cli[n].pc \in {"addChat", "broadcast", "waitBlock", "insert", "rollback"}
        ELSE hasSent(n, m) <=> hasOwn(n, m)

\* A stored message belongs to a listed chat, or the thread that stored it is
\* about to list it; and a received one can be read.
ShownOK(n) ==
    up[n] => \A r \in messages[n] :
        IF r.from = n
        THEN /\ r.to # n
             /\ r.to \in chats[n] \/ (cli[n].pc = "addChat" /\ cli[n].to = r.to)
        ELSE /\ r.to = n /\ readable(n, messageJson(r), FALSE)
             /\ r.from \in chats[n] \/ (srv[n] = "addChat" /\ request(n).from = r.from)

\* Behind the initial rows come blocks of messages.  A block that has passed
\* validation is signed and extends the tip, unless own blocks have come between.
ReceivedOK(n) ==
    LET t == chain[n]
        b == request(n).block
    IN  /\ Len(InitialChain) <= Len(t)
        /\ \A i \in DOMAIN t : IF i \in DOMAIN InitialChain THEN t[i] = InitialChain[i]
                               ELSE t[i].hash \in Msgs
        /\ srv[n] \in {"check", "insert"} =>
               /\ validateSingleBlock(b)
               /\ b.previousHash = findTip(t) \/ \E m \in Msgs : hasOwn(n, m)
               /\ \A i \in DOMAIN t : t[i].previousHash = b.previousHash => t[i].hash \in Msgs

-----------------------------------------------------------------------------
(* What holds while a block is broadcast.                                  *)

\* An own block that is stored, or has passed the check and will be.
committed(n, b) ==
    \/ b.hash \in Msgs /\ b.author = n /\ \E i \in DOMAIN chain[n] : chain[n][i] = b
    \/ cli[n].pc = "insert" /\ cli[n].block = b

\* Every listed peer that still runs has acknowledged a committed block; and,
\* during the broadcast, those that have been called and have answered.
AskedOK(n) ==
    LET c == cli[n]
    IN  \A p \in Peers[n] : up[p] =>
            /\ \A b \in Block : committed(n, b) => <<p, b>> \in acked
            /\ c.pc \in {"broadcast", "waitBlock"} =>
                   \/ p \in c.todo \/ <<p, c.block>> \in acked
                   \/ c.pc = "waitBlock" /\ c.dst = p /\ c.reply # "ok"

\* AcknowledgedOrOutrun, with what outruns a block.
OutrunOK(p, b) ==
    \/ hasBlock(chain[p], b.hash)
    \/ /\ b.previousHash # NoHash
       /\ \E i \in DOMAIN chain[p] : /\ chain[p][i].author = p /\ chain[p][i].hash \in Msgs
                                     /\ chain[p][i].previousHash = b.previousHash

\* Of two nodes that list each other only one commits a block to a parent.
RaceOK ==
    \A n, p \in Nodes : n \in Peers[p] /\ p \in Peers[n] =>
        \A b, c \in Block :
            committed(n, b) /\ committed(p, c) /\ b.previousHash = c.previousHash
                => b.previousHash = NoHash

BroadcastInv ==
    /\ \A n \in Nodes : AskedOK(n)
    /\ \A a \in acked : OutrunOK(a[1], a[2])
    /\ RaceOK

\* Blocks that others have stored or acknowledged are signed by their author.
SignedInv ==
    /\ \A n \in Nodes : \A i \in DOMAIN chain[n] :
           chain[n][i].hash \in Msgs /\ chain[n][i].author # n => chain[n][i].author \notin BadKeys
    /\ \A a \in acked : a[2].author \notin BadKeys

\* A message being withdrawn is gone from its sender's table.
WithdrawOK(n) ==
    \A i \in DOMAIN backlog[n] :
        LET q == backlog[n][i]
        IN  q.type = "BLOCKCHAIN_ERROR_RESPONSE" =>
                cli[q.from].msg # q.block.hash /\ ~hasSent(q.from, q.block.hash)

\* Without crashes, a readable message is stored when its sender is answered, if it
\* was read in full.
DeliveredOK(n) ==
    /\ srv[n] = "addChat" =>
           [id |-> request(n).block.hash, from |-> request(n).from, to |-> n] \in messages[n]
    /\ (/\ cli[n].pc = "waitText" /\ cli[n].reply # "none"
        /\ fits(cli[n].msg) /\ {n, cli[n].to} \cap BadKeys = {})
           => rowOf(n) \in messages[cli[n].to]
                  \/ wasCut("TEXT_MESSAGE", cli[n].to, cli[n].msg)

DeliveryInv ==
    /\ \A n \in Nodes : WithdrawOK(n)
    /\ (\A n \in Nodes : up[n]) => \A n \in Nodes : DeliveredOK(n)

-----------------------------------------------------------------------------
(* What holds while only one node has blocks stored.                       *)

\* Its table is a line that the block being sent extends.  A peer has that table
\* or, from its acceptance of the block on, the table with the block; it is not
\* refused after a peer has accepted it, and a peer still to be called, or called
\* but not yet heard of, does not have it.
AloneOK(s) ==
    LET c == cli[s]
        t == chain[s]
    IN  (\A n \in Nodes : up[n]) /\ onlyAuthor(s) =>
            /\ linear(t)
            /\ c.pc \notin {"idle", "connected"} => c.block.previousHash = findTip(t)
            /\ \A n \in Nodes : chain[n] # t =>
                   /\ s \notin BadKeys /\ chain[n] = Append(t, c.block)
                   /\ \/ c.pc \in {"broadcast", "insert"}
                      \/ c.pc = "waitBlock" /\ c.reply \in {"none", "ok"}
            /\ c.pc \in {"broadcast", "waitBlock"} => \A n \in c.todo : chain[n] = t
            /\ c.pc = "waitBlock" =>
                   c.dst \notin c.todo /\ (c.reply = "none" => chain[c.dst] = t)
=============================================================================
