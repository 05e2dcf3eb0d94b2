------------------------------ MODULE Membership ------------------------------
(***************************************************************************)
(* The life of a d-chat process: ChatApplication::init, which announces    *)
(* the node to its trusted hosts, fetches the peer list and the missing    *)
(* blocks of the first of them page by page, stores the blocks and         *)
(* announces the node to everybody; then the running node, which sends     *)
(* blocks; then /exit.  Processes may also crash and be started again.     *)
(*                                                                         *)
(* A request, its handler and the answer are one step here: the server     *)
(* serves one connection at a time and the client waits for the answer.    *)
(* What other threads can do in between is the subject of DChat.           *)
(***************************************************************************)
EXTENDS BlockchainService, FiniteSets, SequencesExt

CONSTANTS
    Nodes,
    Msgs,               \* identities of the messages that may be sent, each once
    Hosts,              \* Hosts[n]: the trusted peers in n's configuration, a sequence
    Known,              \* Known[n]: peer list at the start of a node running then
    Running,            \* the nodes that run at the start
    Tables,             \* Tables[n]: blocks table at the start
    PEERS_BATCH_SIZE,
    BLOCKS_BATCH_SIZE,
    Leavers,            \* nodes whose user may type /exit
    OneAtATime,         \* nobody starts or leaves while another node does
    MaxStarts,          \* bound: how often processes are started
    MaxFaults,          \* bound: how many crashes and lost messages there are
    MaxLost,            \* bound: how many of these are requests or answers
    None

VARIABLES
    phase,      \* where the main (later the input) thread of a node is
    chain,      \* blocks table
    peers,      \* PeerService::peers, a vector
    job,        \* locals of what the thread is doing
    alive,      \* the server thread has not left its loop
    fresh,      \* messages not sent yet
    starts, crashes, lost   \* how often it has happened

vars == <<phase, chain, peers, job, alive, fresh, starts, crashes, lost>>

Hash == Msgs \cup UNION {hashes(Tables[n]) : n \in Nodes}
Block == [hash : Hash, previousHash : Hash \cup {NoHash}, author : Nodes]

ASSUME MembershipAssumption ==
    /\ Running \subseteq Nodes /\ Leavers \subseteq Nodes
    /\ Hosts \in [Nodes -> Seq(Nodes)] /\ Known \in [Nodes -> Seq(Nodes)]
    /\ \A n \in Nodes : ~Contains(Hosts[n], n) /\ ~Contains(Known[n], n)
    /\ Tables \in [Nodes -> Seq(Block)]
    /\ NoHash \notin Hash
    /\ PEERS_BATCH_SIZE \in Nat \ {0} /\ BLOCKS_BATCH_SIZE \in Nat \ {0}
    /\ OneAtATime \in BOOLEAN
    /\ MaxStarts \in Nat /\ MaxFaults \in Nat /\ MaxLost \in Nat

\* nobody is in the list twice
listedOnce(list) == \A i, j \in DOMAIN list : list[i] = list[j] => i = j

\* Lists and tables as the program makes them: nobody is listed twice, and a hash
\* belongs to one block, stored once; new messages have new hashes.
ASSUME StoredAssumption ==
    /\ \A n \in Nodes : listedOnce(Known[n])
    /\ \A n, p \in Nodes : \A i \in DOMAIN Tables[n], j \in DOMAIN Tables[p] :
           Tables[n][i].hash = Tables[p][j].hash =>
               Tables[n][i] = Tables[p][j] /\ (n = p => i = j)
    /\ \A n \in Nodes : Msgs \cap hashes(Tables[n]) = {}

Phase == {"off", "hosts", "peerList", "blocks", "store", "all", "run", "broadcast", "leaving"}

Job == [todo           : Seq(Nodes),            \* peers still to be called
        hung           : BOOLEAN,               \* waits for an answer nobody will send
        tip            : Hash \cup {NoHash},    \* tip.hash of init
        first          : Nodes \cup {None},     \* the peer asked for lists and blocks
        peersToReceive : Nat,                   \* GlobalState
        missing        : Nat,                   \* GlobalState::missingBlocksCount
        covered        : BOOLEAN,               \* history: the asked peer has counted from
                                                \* the tip and answered for every page
        start          : Nat,                   \* position of the next page
        newBlocks      : Seq(Block),            \* BlockchainService::newBlocks
        block          : Block \cup {None}]     \* the block being broadcast

NoJob == [todo |-> << >>, hung |-> FALSE, tip |-> NoHash, first |-> None,
          peersToReceive |-> 0, missing |-> 0, covered |-> TRUE, start |-> 0,
          newBlocks |-> << >>, block |-> None]

addPeer(list, p) == IF Contains(list, p) THEN list ELSE Append(list, p)
\* Mutant: the erase is forgotten.
removePeerNot(list, p) == list

removePeer(list, p) == RemoveFirst(list, p)

\* The socket is bound in the constructor of the server, but it listens only
\* from TCPServer::start on, and until the process ends.
listening(n) == phase[n] \in {"run", "broadcast", "leaving"}

\* stop() clears a flag that the server thread reads before it calls accept: it
\* serves one more connection.
serves(n) == listening(n) /\ alive[n]
served(n) == alive' = [alive EXCEPT ![n] = phase[n] # "leaving"]

starting(n) == phase[n] \in {"hosts", "peerList", "blocks", "store", "all"}
calm(n) == OneAtATime => \A p \in Nodes \ {n} : ~starting(p) /\ phase[p] # "leaving"

Init ==
    /\ phase = [n \in Nodes |-> IF n \in Running THEN "run" ELSE "off"]
    /\ chain = Tables
    /\ peers = [n \in Nodes |-> IF n \in Running THEN Known[n] ELSE << >>]
    /\ job = [n \in Nodes |-> NoJob]
    /\ alive = [n \in Nodes |-> TRUE]
    /\ fresh = Msgs
    /\ starts = 0 /\ crashes = 0 /\ lost = 0

-----------------------------------------------------------------------------
(* Calls.  n has a request for callee(n) and waits for the answer.         *)

calling(n) ==
    CASE phase[n] \in {"hosts", "all", "broadcast", "leaving"} -> job[n].todo # << >>
      [] phase[n] = "peerList" -> job[n].start < job[n].peersToReceive
      [] phase[n] = "blocks"   -> job[n].start < job[n].missing
      [] OTHER -> FALSE

callee(n) == IF phase[n] \in {"peerList", "blocks"} THEN job[n].first ELSE Head(job[n].todo)

\* Mutant: the loop over the pages of the peer list does not advance.
nextCallSame(n) ==
    CASE phase[n] = "peerList" -> job[n]
      [] phase[n] = "blocks"   -> [job[n] EXCEPT !.start = @ + BLOCKS_BATCH_SIZE]
      [] OTHER -> [job[n] EXCEPT !.todo = Tail(@)]

\* the next peer of the loop, or the next page
nextCall(n) ==
    CASE phase[n] = "peerList" -> [job[n] EXCEPT !.start = @ + PEERS_BATCH_SIZE]
      [] phase[n] = "blocks"   -> [job[n] EXCEPT !.start = @ + BLOCKS_BATCH_SIZE]
      [] OTHER -> [job[n] EXCEPT !.todo = Tail(@)]

answers(n) == calling(n) /\ ~job[n].hung /\ serves(callee(n)) /\ served(callee(n))

\* Payloads of the requests, and of the one answer that carries numbers.
ConnectionMessage(n) ==
    [lastBlockHash |-> IF phase[n] = "hosts" THEN job[n].tip ELSE NoHash]
ConnectionMessageResponse(list, missing) ==
    [peersToReceive |-> Len(list), missingBlocksCount |-> missing]
PeerListMessage(n) == [start |-> job[n].start, count |-> PEERS_BATCH_SIZE]
BlockRangeMessage(n) ==
    [start |-> job[n].start, count |-> BLOCKS_BATCH_SIZE, lastHash |-> job[n].tip]

\* Requests and answers are read with a single recv: when only a part has come, it
\* does not parse and is dropped.
loseMessage ==
    /\ crashes + lost < MaxFaults /\ lost < MaxLost
    /\ lost' = lost + 1

\* The loop goes on without an answer.
missedCall(n) == [nextCall(n) EXCEPT !.covered = @ /\ phase[n] # "blocks"]

\* connect fails; nothing is sent, and the loop goes on with the next call.
Refused(n) ==
    /\ calling(n) /\ ~job[n].hung /\ ~listening(callee(n))
    /\ job' = [job EXCEPT ![n] = missedCall(n)]
    /\ UNCHANGED <<phase, chain, peers, alive, fresh, starts, crashes, lost>>

\* The listening socket still takes the connection, but no thread will serve it.
Hang(n) ==
    /\ calling(n) /\ ~job[n].hung /\ listening(callee(n)) /\ ~serves(callee(n))
    /\ job' = [job EXCEPT ![n].hung = TRUE]
    /\ UNCHANGED <<phase, chain, peers, alive, fresh, starts, crashes, lost>>

\* The other process has ended: the answer is empty.  It is ignored, except that
\* it fails a broadcast.
Released(n) ==
    /\ job[n].hung /\ phase[callee(n)] # "leaving"
    /\ IF phase[n] = "broadcast"
       THEN phase' = [phase EXCEPT ![n] = "run"] /\ job' = [job EXCEPT ![n] = NoJob]
       ELSE /\ job' = [job EXCEPT ![n] = [missedCall(n) EXCEPT !.hung = FALSE]]
            /\ UNCHANGED phase
    /\ UNCHANGED <<chain, peers, alive, fresh, starts, crashes, lost>>

\* A part of the request is read, or of the answer of a handler that changes
\* nothing.  The server drops a part of a request and closes the connection, which
\* is an empty answer.
Dropped(n) ==
    /\ answers(n) /\ loseMessage
    /\ IF phase[n] = "broadcast"
       THEN phase' = [phase EXCEPT ![n] = "run"] /\ job' = [job EXCEPT ![n] = NoJob]
       ELSE job' = [job EXCEPT ![n] = missedCall(n)] /\ UNCHANGED phase
    /\ UNCHANGED <<chain, peers, fresh, starts, crashes>>

-----------------------------------------------------------------------------
(* ChatApplication::init.                                                  *)

\* The tables are on disk, everything else starts empty.
Start(n) ==
    /\ phase[n] = "off" /\ starts < MaxStarts /\ calm(n)
    /\ phase' = [phase EXCEPT ![n] = "hosts"]
    /\ peers' = [peers EXCEPT ![n] = << >>]
    /\ job' = [job EXCEPT ![n] = [NoJob EXCEPT !.todo = Hosts[n], !.tip = findTip(chain[n])]]
    /\ starts' = starts + 1
    /\ UNCHANGED <<chain, alive, fresh, crashes, lost>>

\* CONNECT, to the trusted hosts with the own tip, and in the end to all peers
\* with "0".  The receiver adds the sender and answers with the length of its
\* list, the sender included, and the number of blocks after that tip; the
\* sender adds the receiver and keeps the numbers of the last answer.
SendConnect(n) ==
    LET p      == callee(n)
        list   == addPeer(peers[p], n)
        hash   == ConnectionMessage(n).lastBlockHash
        answer == ConnectionMessageResponse(list, countBlocksAfterHash(chain[p], hash))
    IN  /\ phase[n] \in {"hosts", "all"} /\ answers(n)
        /\ \/ /\ peers' = [peers EXCEPT ![p] = list, ![n] = addPeer(@, p)]
              /\ job' = [job EXCEPT ![n] =
                     [nextCall(n) EXCEPT !.peersToReceive = answer.peersToReceive,
                                         !.missing = answer.missingBlocksCount,
                                         !.covered =
                          /\ Head(peers'[n]) = p
                          /\ hash = NoHash \/ hasBlock(chain[p], hash)]]
              /\ UNCHANGED lost
           \/ /\ loseMessage
              /\ peers' = [peers EXCEPT ![p] = list]
              /\ job' = [job EXCEPT ![n] = nextCall(n)]
        /\ UNCHANGED <<phase, chain, fresh, starts, crashes>>

\* All hosts have been called: the first peer that answered is the one to ask.
HostsConnected(n) ==
    /\ phase[n] = "hosts" /\ ~calling(n)
    /\ IF peers[n] = << >>
       THEN phase' = [phase EXCEPT ![n] = "store"] /\ UNCHANGED job
       ELSE /\ phase' = [phase EXCEPT ![n] = "peerList"]
            /\ job' = [job EXCEPT ![n].first = Head(peers[n])]
    /\ UNCHANGED <<chain, peers, alive, fresh, starts, crashes, lost>>

\* Mutant: the asking node is not left out.
peerPageAll(list, q, asking) ==
    SubSeq(list, q.start + 1, Min({q.start + q.count, Len(list)}))

\* the peers but the asking node itself
others(list, asking) ==
    FoldLeft(LAMBDA page, p : IF p = asking THEN page ELSE Append(page, p), << >>, list)

\* getPeer for start, start + 1, ..., up to the end of the vector
peerPage(list, q, asking) ==
    others(SubSeq(list, q.start + 1, Min({q.start + q.count, Len(list)})), asking)

SendPeerList(n) ==
    /\ phase[n] = "peerList" /\ answers(n)
    /\ job' = [job EXCEPT ![n] = nextCall(n)]
    /\ peers' = [peers EXCEPT ![n] =
           FoldLeft(addPeer, @, peerPage(peers[callee(n)], PeerListMessage(n), n))]
    /\ UNCHANGED <<phase, chain, fresh, starts, crashes, lost>>

PeersReceived(n) ==
    /\ phase[n] = "peerList" /\ ~calling(n)
    /\ phase' = [phase EXCEPT ![n] = "blocks"]
    /\ job' = [job EXCEPT ![n].start = 0]
    /\ UNCHANGED <<chain, peers, alive, fresh, starts, crashes, lost>>

SendBlockRange(n) ==
    LET q    == BlockRangeMessage(n)
        page == getBlocksByIndexRange(chain[callee(n)], q.start, q.count, q.lastHash)
    IN  /\ phase[n] = "blocks" /\ answers(n)
        /\ job' = [job EXCEPT ![n] = [nextCall(n) EXCEPT !.newBlocks = @ \o page]]
        /\ UNCHANGED <<phase, chain, peers, fresh, starts, crashes, lost>>

BlocksReceived(n) ==
    /\ phase[n] = "blocks" /\ ~calling(n)
    /\ phase' = [phase EXCEPT ![n] = "store"]
    /\ UNCHANGED <<chain, peers, job, alive, fresh, starts, crashes, lost>>

\* All new blocks or, if they do not validate, none; results of insertBlock are
\* ignored.  Then CONNECT to a snapshot of the peers.
StoreNewBlocks(n) ==
    /\ phase[n] = "store"
    /\ chain' = [chain EXCEPT ![n] =
           IF validateNewBlocks(@, job[n].newBlocks)
           THEN FoldLeft(insertBlock, @, job[n].newBlocks) ELSE @]
    /\ phase' = [phase EXCEPT ![n] = "all"]
    /\ job' = [job EXCEPT ![n] = [NoJob EXCEPT !.todo = peers[n]]]
    /\ UNCHANGED <<peers, alive, fresh, starts, crashes, lost>>

\* run(): the server thread is started, commands are read.
Run(n) ==
    /\ phase[n] = "all" /\ ~calling(n)
    /\ phase' = [phase EXCEPT ![n] = "run"]
    /\ alive' = [alive EXCEPT ![n] = TRUE]
    /\ job' = [job EXCEPT ![n] = NoJob]
    /\ UNCHANGED <<chain, peers, fresh, starts, crashes, lost>>

-----------------------------------------------------------------------------
(* The running node.                                                       *)

\* /send to a peer of the list; the text message itself is left out here.
CreateBlock(n, m) ==
    /\ phase[n] = "run" /\ m \in fresh /\ peers[n] # << >>
    /\ fresh' = fresh \ {m}
    /\ phase' = [phase EXCEPT ![n] = "broadcast"]
    /\ job' = [job EXCEPT ![n] =
           [NoJob EXCEPT !.todo = peers[n], !.block = createBlockFromMessage(chain[n], n, m)]]
    /\ UNCHANGED <<chain, peers, alive, starts, crashes, lost>>

\* One peer: onIncomingBlock there.  An error, or no answer, ends the broadcast.
SendBlock(n) ==
    LET p     == callee(n)
        block == job[n].block
        valid == validateIncomingBlock(p, chain[p], block)
        abort == phase' = [phase EXCEPT ![n] = "run"] /\ job' = [job EXCEPT ![n] = NoJob]
    IN  /\ phase[n] = "broadcast" /\ answers(n)
        /\ chain' = [chain EXCEPT ![p] = IF valid THEN insertBlock(@, block) ELSE @]
        /\ \/ valid /\ job' = [job EXCEPT ![n] = nextCall(n)] /\ UNCHANGED <<phase, lost>>
           \/ ~valid /\ abort /\ UNCHANGED lost
           \/ valid /\ loseMessage /\ abort
        /\ UNCHANGED <<peers, fresh, starts, crashes>>

StoreOwnBlock(n) ==
    /\ phase[n] = "broadcast" /\ ~calling(n)
    /\ chain' = [chain EXCEPT ![n] = insertBlock(@, job[n].block)]
    /\ phase' = [phase EXCEPT ![n] = "run"]
    /\ job' = [job EXCEPT ![n] = NoJob]
    /\ UNCHANGED <<peers, alive, fresh, starts, crashes, lost>>

\* /exit: shutdown() clears the server's flag and calls a snapshot of the peers.
Exit(n) ==
    /\ n \in Leavers /\ phase[n] = "run" /\ calm(n)
    /\ phase' = [phase EXCEPT ![n] = "leaving"]
    /\ job' = [job EXCEPT ![n] = [NoJob EXCEPT !.todo = peers[n]]]
    /\ UNCHANGED <<chain, peers, alive, fresh, starts, crashes, lost>>

\* DISCONNECT; the answer is not used.
SendDisconnect(n) ==
    /\ phase[n] = "leaving" /\ answers(n)
    /\ peers' = [peers EXCEPT ![callee(n)] = removePeer(@, n)]
    /\ job' = [job EXCEPT ![n] = nextCall(n)]
    /\ UNCHANGED <<phase, chain, fresh, starts, crashes, lost>>

\* Everybody has been called: the process ends.
Left(n) ==
    /\ phase[n] = "leaving" /\ ~calling(n)
    /\ phase' = [phase EXCEPT ![n] = "off"]
    /\ alive' = [alive EXCEPT ![n] = TRUE]
    /\ peers' = [peers EXCEPT ![n] = << >>]
    /\ job' = [job EXCEPT ![n] = NoJob]
    /\ UNCHANGED <<chain, fresh, starts, crashes, lost>>

Crash(n) ==
    /\ phase[n] # "off" /\ crashes + lost < MaxFaults
    /\ crashes' = crashes + 1
    /\ phase' = [phase EXCEPT ![n] = "off"]
    /\ alive' = [alive EXCEPT ![n] = TRUE]
    /\ peers' = [peers EXCEPT ![n] = << >>]
    /\ job' = [job EXCEPT ![n] = NoJob]
    /\ UNCHANGED <<chain, fresh, starts, lost>>

-----------------------------------------------------------------------------
\* Steps of a thread that has begun to start, to send or to leave.
Step(n) ==
    \/ Refused(n) \/ Hang(n) \/ Released(n) \/ Dropped(n)
    \/ SendConnect(n) \/ HostsConnected(n) \/ SendPeerList(n) \/ PeersReceived(n)
    \/ SendBlockRange(n) \/ BlocksReceived(n) \/ StoreNewBlocks(n) \/ Run(n)
    \/ SendBlock(n) \/ StoreOwnBlock(n)
    \/ SendDisconnect(n) \/ Left(n)

Next ==
    \E n \in Nodes :
        \/ Start(n) \/ Exit(n) \/ Crash(n)
        \/ \E m \in Msgs : CreateBlock(n, m)
        \/ Step(n)

Spec == Init /\ [][Next]_vars

\* A thread that can go on does; nobody has to start, send, leave or crash.
FairSpec == Spec /\ \A n \in Nodes : WF_vars(Step(n))

-----------------------------------------------------------------------------
(* Properties.                                                             *)

TypeOK ==
    /\ phase \in [Nodes -> Phase]
    /\ chain \in [Nodes -> Seq(Block)]
    /\ peers \in [Nodes -> Seq(Nodes)]
    /\ job \in [Nodes -> Job]
    /\ alive \in [Nodes -> BOOLEAN]
    /\ fresh \subseteq Msgs
    /\ starts \in Nat /\ crashes \in Nat /\ lost \in Nat

\* A node never lists, and so never calls, itself, and lists nobody twice,
\* although it learns of peers from their CONNECT, from the answers to its own
\* and from pages of a list that contains it and that changes meanwhile.
ListsWellFormed ==
    \A n \in Nodes : ~Contains(peers[n], n) /\ listedOnce(peers[n])

\* /help: "/peers - Show list of online peers".  Whenever no node is starting or
\* leaving, every running node lists exactly the other running nodes.
PeersAreOnline ==
    (\A n \in Nodes : ~starting(n) /\ phase[n] # "leaving") =>
        \A n \in Nodes : phase[n] # "off" =>
            {peers[n][i] : i \in DOMAIN peers[n]} = {p \in Nodes \ {n} : phase[p] # "off"}

\* The network does not start from an empty table or one with gaps.
OneLine == \A n \in Nodes : Tables[n] # << >> /\ linear(Tables[n])

\* What a starting node of such a network adds to its table makes that table a
\* prefix of the asked peer's, whatever pages got lost and whatever the peer has
\* stored, or even fetched itself after a restart, in between.
SyncFollowsPeer ==
    [][\A n \in Nodes :
           OneLine /\ phase[n] = "store" /\ chain'[n] # chain[n]
               => IsPrefix(chain'[n], chain[job[n].first])]_vars

\* A starting node of such a network ends up with every block that was announced to
\* it, if the peer that counted them is the one it asks, knew its tip, and was there
\* for every page: the pages cover the peer's table from the tip on, though the
\* table grows between them, others start and leave, and the peer itself may have
\* been away in between.
NothingAnnouncedMissed ==
    [][\A n \in Nodes :
           OneLine /\ phase[n] = "store" /\ phase'[n] = "all" /\ job[n].covered
               => Len(chain'[n]) >= Len(chain[n]) + job[n].missing]_vars

\* Blocks that are broadcast between a starting node's last page and the start of
\* its server thread are missed, and lost pages leave it behind as well: it then
\* refuses what comes later instead of storing it after a gap.  Every table of a
\* network that does not start from an empty one stays a single line.
NoGapAfterStart == OneLine => \A n \in Nodes : linear(chain[n])

\* After the tests' synchronisation of an empty table: validateLocalChain.
SyncedChainValid ==
    \A n \in Nodes : phase[n] = "all" => validateLocalChain(chain[n])

\* A node that starts, sends or leaves is done with it at some time.
JobsFinish ==
    \A n \in Nodes :
        starting(n) \/ phase[n] \in {"broadcast", "leaving"} ~> phase[n] \in {"run", "off"}

\* /help: "/exit - Exit the application".
ExitTerminates == \A n \in Nodes : phase[n] = "leaving" ~> phase[n] = "off"

-----------------------------------------------------------------------------
(* The inductive invariant behind the safety properties.                   *)

\* Whoever is called is another node, who waits for an answer has called, and
\* what is broadcast is a block.
JobOK(n) ==
    /\ ~Contains(job[n].todo, n)
    /\ phase[n] \in {"peerList", "blocks"} => job[n].first \in Nodes \ {n}
    /\ job[n].hung => calling(n)
    /\ phase[n] = "broadcast" => job[n].block \in Block

ListsInv == TypeOK /\ ListsWellFormed /\ \A n \in Nodes : JobOK(n)

\* The blocks in a node's table, among those it fetched and on their way from it.
blocksAt(n) ==
    Range(chain[n]) \cup Range(job[n].newBlocks)
        \cup {b \in {job[n].block} : phase[n] = "broadcast"}

allBlocks == UNION {blocksAt(n) : n \in Nodes}

storedOnce(table) == \A i, j \in DOMAIN table : table[i].hash = table[j].hash => i = j

\* A hash belongs to one block in the whole network and is in a table once.
HashInv ==
    /\ \A n \in Nodes : storedOnce(chain[n])
    /\ \A b, c \in allBlocks : b.hash = c.hash => b = c
    /\ \A b \in allBlocks : b.hash \notin fresh

\* Blocks fetched are in the table of the peer that was asked.
FetchInv ==
    \A n \in Nodes :
        /\ phase[n] = "hosts" => job[n].newBlocks = << >>
        /\ \A b \in Range(job[n].newBlocks) :
               job[n].first \in Nodes /\ b \in Range(chain[job[n].first])

\* Tables are single lines, and the block a node broadcasts continues its own.
LineInv ==
    OneLine => \A n \in Nodes :
        /\ chain[n] # << >> /\ linear(chain[n])
        /\ phase[n] = "broadcast" => hasBlock(chain[n], job[n].block.previousHash)

\* Whatever crashes, restarts and gets lost: what a starting node has fetched it can
\* store without a gap, because it is a part of the asked peer's table.
SyncInv == ListsInv /\ HashInv /\ FetchInv /\ LineInv

\* A network in which the peer lists can be right: nobody starts or leaves while
\* another node does, no process crashes, nothing gets lost, everybody trusts a
\* node that stays, and the lists are right at the start.
trusted(h) == h \in Running \ Leavers /\ \A n \in Nodes \ {h} : Contains(Hosts[n], h)

Steady ==
    /\ OneAtATime /\ MaxFaults = 0
    /\ \E h \in Nodes : trusted(h)
    /\ \A n \in Running : Range(Known[n]) = Running \ {n}

host == CHOOSE h \in Nodes : trusted(h)

online(n) == phase[n] # "off"
busy(n) == starting(n) \/ phase[n] = "leaving"
lists(p, q) == Contains(peers[p], q)

\* How far a node that starts or leaves has come: the hosts that answered list it,
\* and as many others as it will ask for; it has the pages it has asked for; who
\* does not know yet that it comes, or goes, is still to be called.
BusyOK(n) ==
    /\ ~job[n].hung
    /\ phase[n] \in {"hosts", "peerList"} => \A q \in Nodes : lists(n, q) => online(q)
    /\ phase[n] = "hosts" =>
           /\ job[n].start = 0
           /\ Contains(job[n].todo, host) \/ lists(n, host)
           /\ \A q \in Nodes :
                  lists(n, q) => lists(q, n) /\ Len(peers[q]) = job[n].peersToReceive
    /\ phase[n] = "peerList" =>
           LET p == job[n].first
           IN  /\ lists(n, p) /\ Len(peers[p]) = job[n].peersToReceive
               /\ \A i \in DOMAIN peers[p] :
                      i <= job[n].start /\ peers[p][i] # n => lists(n, peers[p][i])
    /\ phase[n] \in {"blocks", "store", "all"} =>
           \A q \in Nodes \ {n} : lists(n, q) <=> online(q)
    /\ phase[n] = "all" =>
           \A q \in Nodes \ {n} : online(q) => Contains(job[n].todo, q) \/ lists(q, n)
    /\ phase[n] = "leaving" =>
           \A q \in Nodes \ {n} : online(q) => Contains(job[n].todo, q) \/ ~lists(q, n)

\* One node at most starts or leaves; the others list one another.
OnlineOK ==
    /\ \A p, q \in Nodes : busy(p) /\ busy(q) => p = q
    /\ \A p \in Nodes : phase[p] # "leaving" => alive[p]
    /\ phase[host] \in {"run", "broadcast"}
    /\ \A p, q \in Nodes :
           p # q /\ online(p) /\ ~busy(p) /\ ~busy(q) => (lists(p, q) <=> online(q))
    /\ \A n \in Nodes : busy(n) => BusyOK(n)

\* In a steady network the lists are right at every step of a start or an /exit, as
\* far as it has come.
OnlineInv == Steady => OnlineOK
=============================================================================
