------------------------ MODULE DChatConvergenceProofs ------------------------
(***************************************************************************)
(* Proofs about DChat, continued: if only one node has blocks stored, all  *)
(* tables are the same whenever it is not sending.                         *)
(***************************************************************************)
EXTENDS DChatBroadcastProofs

\* All nodes run, and only s has had blocks stored.
alone(s) == (\A n \in Nodes : up[n]) /\ onlyAuthor(s)

\* Tables only grow, so that a node with the only blocks always had the only ones.
LEMMA AloneBefore ==
    ASSUME IInv, [Next]_vars, NEW s \in Nodes, alone(s)'
    PROVE  alone(s) /\ \A n \in Nodes : up'[n] /\ ~Crash(n)
  <1>1. \A n \in Nodes : up'[n]
    BY DEF alone
  <1>2. \A n \in Nodes : up[n] /\ ~Crash(n)
    BY <1>1, NobodyCrashes
  <1>3. onlyAuthor(s)
    BY TableKeeps, CutGrows DEF alone, onlyAuthor
  <1>4. QED
    BY <1>1, <1>2, <1>3 DEF alone

\* The table of the only author does not have the block being sent.
LEMMA NotYetStored ==
    ASSUME IInv, NEW s \in Nodes, SentOK(s), ReceivedOK(s), alone(s),
           cli[s].pc \notin {"idle", "connected"}
    PROVE  /\ ~hasBlock(chain[s], cli[s].block.hash)
           /\ cli[s].block \in Block /\ cli[s].block.hash \in Msgs /\ cli[s].block.author = s
  <1>1. ClientOK(s) /\ up[s]
    BY DEF IInv, alone
  <1>2. /\ cli[s].block \in Block /\ cli[s].block.hash = cli[s].msg /\ cli[s].msg \in Msgs
        /\ cli[s].block.author = s
    BY <1>1 DEF ClientOK
  <1>3. ~hasOwn(s, cli[s].msg)
    BY <1>1, <1>2 DEF SentOK
  <1>4. ASSUME NEW i \in DOMAIN chain[s], chain[s][i].hash = cli[s].msg
        PROVE  chain[s][i].author = s
    <2>1. i > Len(InitialChain)
      BY <1>2, <1>4, InitialRows
    <2>2. QED
      BY <2>1 DEF alone, onlyAuthor
  <1>5. QED
    BY <1>2, <1>3, <1>4 DEF hasBlock, hashes, hasOwn

\* A new block in a table is of the only author, who has stored it or has sent
\* it and waits for the answer.
LEMMA AloneGrowth ==
    ASSUME IInv, SocketsInv, [Next]_vars, NEW s \in Nodes, alone(s)',
           NEW k \in Nodes, ReceivedOK(k), chain'[k] # chain[k]
    PROVE  \/ k = s /\ InsertOwnBlock(s) /\ chain'[s] = Append(chain[s], cli[s].block)
           \/ /\ k # s /\ InsertBlock(k) /\ chain'[k] = Append(chain[k], cli[s].block)
              /\ request(k).from = s /\ cli[s].pc = "waitBlock" /\ cli[s].dst = k
              /\ cli[s].reply = "none" /\ request(k).block = cli[s].block
              /\ cli[s].block \in Block /\ cli[s].block.author = s
  <1>1. alone(s)
    BY AloneBefore
  <1>2. PICK b \in Block :
            /\ chain'[k] = Append(chain[k], b)
            /\ \/ b.author = k /\ InsertOwnBlock(k) /\ b = cli[k].block
               \/ b.author # k /\ InsertBlock(k) /\ b = request(k).block
    BY GrowthFacts
  <1>3. b.author = s
    <2>1. /\ Len(chain[k]) + 1 \in DOMAIN chain'[k] /\ Len(chain[k]) \in Nat
          /\ chain'[k][Len(chain[k]) + 1] = b
      BY <1>2, AppendBlock DEF IInv, TypeOK
    <2>2. Len(InitialChain) <= Len(chain[k]) /\ Len(InitialChain) \in Nat
      BY InitialRows DEF ReceivedOK
    <2>3. QED
      BY <2>1, <2>2 DEF alone, onlyAuthor
  <1>4. CASE b.author # k /\ InsertBlock(k) /\ b = request(k).block
    <2>1. backlog[k] # << >> /\ request(k).type = "BLOCK" /\ up[k]
      BY <1>4 DEF InsertBlock, serving
    <2>2. request(k).from = s
      BY <1>3, <1>4, <2>1, ServedRequest
    <2>3. 1 \in DOMAIN backlog[k] /\ request(k) = backlog[k][1]
      BY <2>1, TailOfQueue DEF IInv, TypeOK, request
    <2>4. awaited(k, request(k))
      BY <1>1, <2>1, <2>2, <2>3 DEF SocketsInv, QueueOK, live, alone
    <2>5. QED
      BY <1>2, <1>3, <1>4, <2>1, <2>2, <2>4 DEF awaited
  <1>5. QED
    BY <1>2, <1>3, <1>4

\* The only author stores its block when everybody has it.
LEMMA AloneInsertsOwn ==
    ASSUME IInv, SocketsInv, BroadcastInv, NEW s \in Nodes,
           SentOK(s), \A n \in Nodes : ReceivedOK(n), AloneOK(s), alone(s),
           InsertOwnBlock(s)
    PROVE  AloneOK(s)'
  <1> DEFINE t == chain[s]
             b == cli[s].block
  <1>1. cli[s].pc = "insert" /\ chain' = [chain EXCEPT ![s] = insertRow(@, b)]
    BY DEF InsertOwnBlock
  <1>2. ~hasBlock(t, b.hash) /\ b \in Block /\ b.hash \in Msgs /\ b.author = s
    BY <1>1, NotYetStored
  <1>3. t \in Seq(Block) /\ chain \in [Nodes -> Seq(Block)] /\ chain'[s] = Append(t, b)
    BY <1>1, <1>2 DEF IInv, TypeOK, insertRow
  <1>4. cli'[s] = Idle
    BY <1>2, BroadcastFields
  <1>5. linear(t) /\ b.previousHash = findTip(t)
    BY <1>1 DEF AloneOK, alone
  <1>6. linear(Append(t, b))
    <2>1. /\ DOMAIN Append(t, b) = 1..(Len(t) + 1) /\ DOMAIN t = 1..Len(t) /\ Len(t) \in Nat
          /\ \A i \in DOMAIN t : Append(t, b)[i] = t[i]
          /\ Append(t, b)[Len(t) + 1] = b
      BY <1>2, <1>3, AppendBlock
    <2>2. t = << >> <=> Len(t) = 0
      BY <1>3
    <2> HIDE DEF t, b
    <2>3. QED
      BY <1>5, <2>1, <2>2 DEF linear, findTip
  <1>7. ASSUME NEW n \in Nodes \ {s}
        PROVE  chain'[n] = Append(t, b)
    <2>1. n \in Peers[s] /\ up[n] /\ committed(s, b)
      BY <1>1, <1>7 DEF alone, onlyAuthor, committed
    <2>2. <<n, b>> \in acked
      BY <1>2, <2>1 DEF BroadcastInv, AskedOK
    <2>3. OutrunOK(n, b)
      BY <2>2 DEF BroadcastInv
    <2>4. hasBlock(chain[n], b.hash)
      <3>1. SUFFICES ASSUME NEW i \in DOMAIN chain[n], chain[n][i].author = n,
                            chain[n][i].hash \in Msgs
                     PROVE  FALSE
        BY <2>3 DEF OutrunOK
      <3>2. i > Len(InitialChain)
        BY <3>1, InitialRows
      <3>3. QED
        BY <1>7, <3>1, <3>2 DEF alone, onlyAuthor
    <2>5. chain[n] # t
      BY <1>2, <2>4
    <2>6. chain[n] = Append(t, b)
      BY <1>7, <2>5 DEF AloneOK, alone
    <2>7. QED
      BY <1>1, <1>3, <1>7, <2>6
  <1>8. \A n \in Nodes : chain'[n] = chain'[s]
    BY <1>3, <1>7
  <1>9. linear(chain'[s]) /\ cli'[s].pc = "idle"
    BY <1>3, <1>4, <1>6 DEF Idle
  <1>10. QED
    BY <1>8, <1>9 DEF AloneOK

\* A peer stores the block of the only author.
LEMMA AloneIsStored ==
    ASSUME IInv, SocketsInv, [Next]_vars, NEW s \in Nodes, NEW k \in Nodes \ {s},
           \A n \in Nodes : ReceivedOK(n), AloneOK(s), alone(s)', chain'[k] # chain[k]
    PROVE  AloneOK(s)'
  <1> DEFINE t == chain[s]
             b == cli[s].block
  <1>1. alone(s)
    BY AloneBefore
  <1>2. /\ InsertBlock(k) /\ chain'[k] = Append(chain[k], b) /\ request(k).from = s
        /\ cli[s].pc = "waitBlock" /\ cli[s].dst = k /\ cli[s].reply = "none"
        /\ request(k).block = b /\ b \in Block /\ b.author = s
    BY AloneGrowth
  <1>3. /\ linear(t) /\ b.previousHash = findTip(t) /\ chain[k] = t /\ k \notin cli[s].todo
        /\ \A n \in Nodes : chain[n] # t => s \notin BadKeys /\ chain[n] = Append(t, b)
        /\ \A n \in cli[s].todo : chain[n] = t
    BY <1>1, <1>2 DEF AloneOK, alone
  <1>4. \A n \in Nodes \ {k} : chain'[n] = chain[n]
    BY <1>2 DEF InsertBlock, IInv, TypeOK
  <1>5. /\ cli'[s].pc = "waitBlock" /\ cli'[s].block = b /\ cli'[s].todo = cli[s].todo
        /\ cli'[s].dst = k /\ cli'[s].reply = "ok"
    <2>1. cli' = [cli EXCEPT ![s].reply = "ok"]
      BY <1>1, <1>2 DEF InsertBlock, answerWith, alone
    <2>2. cli[s] \in Client /\ cli \in [Nodes -> Client]
      BY DEF IInv, TypeOK
    <2>3. cli'[s] = [cli[s] EXCEPT !.reply = "ok"]
      BY <2>1, <2>2
    <2>4. QED
      BY <1>2, <2>2, <2>3 DEF Client
  <1>6. s \notin BadKeys
    <2>1. validateSingleBlock(request(k).block)
      BY <1>2 DEF InsertBlock, ReceivedOK
    <2>2. QED
      BY <1>2, <2>1, BlockSigned DEF validateSingleBlock
  <1>7. chain'[s] = t
    BY <1>4
  <1>8. cli[s].todo \subseteq Nodes
    BY DEF IInv, TypeOK, Client
  <1> HIDE DEF t, b
  <1>9. QED
    BY <1>2, <1>3, <1>4, <1>5, <1>6, <1>7, <1>8 DEF AloneOK

\* A peer refuses the block of the only author only for its signature, so that
\* nobody has stored it.
LEMMA AloneIsAnswered ==
    ASSUME IInv, SocketsInv, [Next]_vars, NEW s \in Nodes,
           SentOK(s), ReceivedOK(s), AloneOK(s), alone(s)', cli[s].pc = "waitBlock",
           cli'[s] # cli[s], ~ClientStep(s)
    PROVE  cli'[s].reply = "ok" \/ \A n \in Nodes : chain[n] = chain[s]
  <1>1. alone(s) /\ \A n \in Nodes : ~Crash(n)
    BY AloneBefore
  <1>2. \A m, p : ~Connect(s, m, p) /\ ~ConnectFails(s, m, p)
    BY DEF Connect, ConnectFails
  <1>3. PICK k \in Nodes : ServerStep(k)
    <2>1. ASSUME NEW n \in Nodes \ {s}, ClientStep(n) \/ (\E m, p : Connect(n, m, p))
          PROVE  cli'[s] = cli[s]
      BY <2>1, ClientStepLocal, ConnectFields
    <2>2. ASSUME NEW n \in Nodes, NEW m, NEW p, ConnectFails(n, m, p)
          PROVE  cli' = cli
      BY <2>2 DEF ConnectFails
    <2>3. QED
      BY <1>1, <1>2, <2>1, <2>2 DEF Next, vars
  <1>4. /\ backlog[k] # << >> /\ request(k).type \in {"TEXT_MESSAGE", "BLOCK"}
        /\ \E a \in {"ok", "error", "closed"} : answerWith(k, a)
    BY <1>3, ServerStepLocal
  <1>5. PICK a \in {"ok", "error", "closed"} : answerWith(k, a)
    BY <1>4
  <1>6. /\ s = request(k).from /\ cli'[s] = [cli[s] EXCEPT !.reply = a]
        /\ cli[s].dst = k /\ cli[s].reply = "none" /\ request(k).block = cli[s].block
        /\ request(k).type = "BLOCK"
    BY <1>4, <1>5, AnsweredClient
  <1>7. chain[k] = chain[s] /\ cli[s].block.previousHash = findTip(chain[s])
    BY <1>1, <1>6 DEF AloneOK, alone
  <1>8. CheckBlock(k) \/ InsertBlock(k) => cli'[s].reply = "ok"
    <2>1. CheckBlock(k) \/ InsertBlock(k) => answerWith(k, "ok")
      <3>1. cli' # cli
        BY <1>6
      <3>2. QED
        BY <3>1 DEF CheckBlock, InsertBlock
    <2>2. answerWith(k, "ok") => cli'[s] = [cli[s] EXCEPT !.reply = "ok"]
      BY <1>4, AnsweredClient
    <2>3. cli[s] \in Client
      BY DEF IInv, TypeOK
    <2>4. QED
      BY <2>1, <2>2, <2>3 DEF Client
  <1>9. ASSUME ValidateBlock(k)
        PROVE  \A n \in Nodes : chain[n] = chain[s]
    <2>1. cli' # cli
      BY <1>6
    <2>2. ~validateIncomingBlock(k, chain[k], request(k).block)
      BY <1>9, <2>1 DEF ValidateBlock
    <2>3. ~hasBlock(chain[s], cli[s].block.hash) /\ cli[s].block.author = s
      BY <1>1, NotYetStored
    <2>4. notInFuture(k, cli[s].block)
      BY <1>1, <2>3 DEF alone, onlyAuthor, notInFuture
    <2>5. ~validateSingleBlock(cli[s].block)
      BY <1>6, <1>7, <2>2, <2>3, <2>4 DEF validateIncomingBlock
    <2>6. s \in BadKeys
      BY <2>3, <2>5, BlockSigned DEF validateSingleBlock
    <2>7. QED
      BY <1>1, <2>6 DEF AloneOK, alone
  <1>10. ~(HandleTextMessage(k) \/ AnswerTextMessage(k) \/ HandleBlockchainError(k) \/ DropClosed(k))
    BY <1>6 DEF HandleTextMessage, AnswerTextMessage, HandleBlockchainError, DropClosed, serving
  <1>11. ~ReceivePart(k)
    <2>1. SUFFICES ASSUME ReceivePart(k) PROVE FALSE
      OBVIOUS
    <2>2. [type |-> "BLOCK", at |-> k, block |-> cli[s].block] \in cut'
      BY <1>6, <2>1 DEF ReceivePart, readPart
    <2>3. cli[s].block.author = s
      BY DEF IInv, ClientOK
    <2>4. QED
      BY <2>2, <2>3 DEF alone, onlyAuthor
  <1>12. QED
    BY <1>3, <1>8, <1>9, <1>10, <1>11 DEF ServerStep

\* No table changes: the block is made on the tip, and a broadcast that some peer
\* has accepted goes on to the INSERT.
LEMMA AloneSends ==
    ASSUME IInv, SocketsInv, [Next]_vars, NEW s \in Nodes,
           SentOK(s), ReceivedOK(s), AloneOK(s), alone(s)',
           \A n \in Nodes : chain'[n] = chain[n]
    PROVE  AloneOK(s)'
  <1> DEFINE t == chain[s]
             b == cli[s].block
             same == \A n \in Nodes : chain[n] = t
  <1>1. alone(s) /\ ~Crash(s)
    BY AloneBefore
  <1>2. /\ linear(t)
        /\ cli[s].pc \notin {"idle", "connected"} => b.previousHash = findTip(t)
        /\ \A n \in Nodes : chain[n] # t =>
               /\ s \notin BadKeys /\ chain[n] = Append(t, b)
               /\ \/ cli[s].pc \in {"broadcast", "insert"}
                  \/ cli[s].pc = "waitBlock" /\ cli[s].reply \in {"none", "ok"}
        /\ cli[s].pc \in {"broadcast", "waitBlock"} => \A n \in cli[s].todo : chain[n] = t
        /\ cli[s].pc = "waitBlock" =>
               cli[s].dst \notin cli[s].todo /\ (cli[s].reply = "none" => chain[cli[s].dst] = t)
    BY <1>1 DEF AloneOK, alone
  <1>3. /\ cli[s] \in Client /\ cli[s].todo \subseteq Nodes /\ cli[s].dst \in Nodes \cup {None}
        /\ cli'[s] \in Client /\ cli'[s].todo \subseteq Nodes
        /\ chain' = chain
    BY TypeStep DEF IInv, TypeOK, Client
  <1>4. ASSUME same, cli'[s].pc \notin {"idle", "connected"} => cli'[s].block.previousHash = findTip(t),
               cli'[s].pc # "waitBlock"
        PROVE  AloneOK(s)'
    BY <1>2, <1>3, <1>4 DEF AloneOK
  <1>5. ASSUME cli'[s].block = b, cli'[s].pc \in {"broadcast", "insert"},
               cli[s].pc \in {"broadcast", "insert", "waitBlock"},
               cli'[s].pc = "broadcast" => \A n \in cli'[s].todo : chain[n] = t
        PROVE  AloneOK(s)'
    BY <1>2, <1>3, <1>5 DEF AloneOK
  <1>6. CASE cli'[s] = cli[s]
    BY <1>2, <1>3, <1>6 DEF AloneOK
  <1>7. ASSUME NEW m \in Msgs, NEW p \in Nodes, Connect(s, m, p)
        PROVE  AloneOK(s)'
    BY <1>2, <1>4, <1>7, ConnectFields DEF Idle
  <1>8. CASE ClientStep(s)
    <2>1. ASSUME SendText(s) \/ SendTextLost(s)
          PROVE  AloneOK(s)'
      <3>1. cli[s].pc = "connected"
        BY <2>1 DEF SendText, SendTextLost
      <3>2. same
        BY <1>2, <3>1
      <3>3. CASE cli'[s] = Idle
        BY <1>4, <3>2, <3>3 DEF Idle
      <3>4. CASE cli'[s] # Idle
        <4>1. /\ cli'[s].pc = "waitText"
              /\ cli'[s].block = createBlockFromMessage(chain[s], s, cli[s].msg)
          BY <2>1, <3>4, ClientFields
        <4>2. cli'[s].block.previousHash = findTip(t)
          BY <4>1 DEF createBlockFromMessage
        <4>3. QED
          BY <1>4, <3>2, <4>1, <4>2
      <3>5. QED
        BY <3>3, <3>4
    <2>2. CASE TextAnswered(s)
      BY <1>2, <1>4, <2>2, ClientFields
    <2>3. CASE AddChatPeer(s)
      BY <1>2, <1>4, <2>3, ClientFields
    <2>4. ASSUME NEW p \in Nodes, SendBlock(s, p)
          PROVE  AloneOK(s)'
      <3>1. /\ cli[s].pc = "broadcast" /\ cli'[s].pc = "waitBlock"
            /\ cli'[s].block = b /\ cli'[s].todo = cli[s].todo \ {p}
            /\ cli'[s].dst = p /\ cli'[s].reply = cli[s].reply
        BY <2>4, BroadcastFields
      <3>2. p \in cli[s].todo
        BY <2>4 DEF SendBlock
      <3>3. cli[s].reply = "none"
        BY <3>1 DEF SocketsInv, SocketOK
      <3>4. QED
        BY <1>2, <1>3, <3>1, <3>2, <3>3 DEF AloneOK
    <2>5. ASSUME NEW p \in Nodes, SkipPeer(s, p)
          PROVE  AloneOK(s)'
      BY <1>2, <1>5, <2>5, BroadcastFields
    <2>6. CASE BlockAnswered(s)
      <3>1. /\ cli[s].pc = "waitBlock" /\ cli[s].reply # "none" /\ cli'[s].block = b
            /\ cli'[s].todo = cli[s].todo
            /\ cli'[s].pc = IF cli[s].reply = "ok" THEN "broadcast" ELSE "rollback"
        BY <2>6, BroadcastFields DEF BlockAnswered
      <3>2. QED
        BY <1>2, <1>4, <1>5, <3>1
    <2>7. CASE CheckOwnBlock(s)
      <3>1. cli[s].pc = "broadcast" /\ cli'[s].block = b
        BY <2>7, BroadcastFields
      <3>2. \A i \in DOMAIN t : t[i].previousHash # b.previousHash
        BY <1>2, <3>1, TipHasNoChild DEF IInv
      <3>3. insertAllowed(t, b)
        BY <3>2 DEF insertAllowed, hasChild
      <3>4. QED
        BY <1>5, <2>7, <3>1, <3>3, BroadcastFields
    <2>8. CASE InsertOwnBlock(s)
      <3>1. ~hasBlock(t, b.hash) /\ b \in Block
        BY <1>1, <2>8, NotYetStored DEF InsertOwnBlock
      <3>2. t \in Seq(Block) /\ chain \in [Nodes -> Seq(Block)]
        BY DEF IInv, TypeOK
      <3>3. chain'[s] = Append(t, b)
        BY <2>8, <3>1, <3>2 DEF InsertOwnBlock, insertRow
      <3>4. Len(chain'[s]) = Len(t) + 1 /\ Len(t) \in Nat
        BY <3>1, <3>2, <3>3
      <3>5. QED
        BY <3>4
    <2>9. CASE Rollback(s)
      BY <1>2, <1>4, <2>9, BroadcastFields
    <2>10. CASE MessageTooBig(s) \/ NotifyRecipient(s)
      BY <1>2, <1>4, <2>10, BroadcastFields DEF Idle
    <2>11. ~BlockAnswerCut(s)
      <3>1. SUFFICES ASSUME BlockAnswerCut(s) PROVE FALSE
        OBVIOUS
      <3>2. [type |-> "answer", at |-> s, block |-> b] \in cut'
        BY <3>1 DEF BlockAnswerCut, readPart
      <3>3. b.author = s
        BY <3>1 DEF BlockAnswerCut, IInv, ClientOK
      <3>4. QED
        BY <3>2, <3>3 DEF alone, onlyAuthor
    <2>12. QED
      BY <1>8, <2>1, <2>2, <2>3, <2>4, <2>5, <2>6, <2>7, <2>8, <2>9, <2>10, <2>11 DEF ClientStep
  <1>9. CASE /\ cli[s].pc \in {"waitText", "waitBlock"} /\ cli[s].reply = "none"
             /\ cli'[s].pc = cli[s].pc /\ sameSend(s) /\ cli'[s].block = cli[s].block
             /\ cli'[s].todo = cli[s].todo /\ cli'[s].dst = cli[s].dst
             /\ ~ClientStep(s) /\ cli'[s] # cli[s]
    <2>1. CASE cli[s].pc = "waitText"
      BY <1>2, <1>4, <1>9, <2>1
    <2>2. CASE cli[s].pc = "waitBlock"
      <3>1. cli'[s].reply = "ok" \/ same
        BY <1>9, <2>2, AloneIsAnswered
      <3>2. chain[cli[s].dst] = t
        BY <1>2, <1>9, <2>2
      <3>3. QED
        BY <1>2, <1>3, <1>9, <2>2, <3>1, <3>2 DEF AloneOK
    <2>3. QED
      BY <1>9, <2>1, <2>2
  <1>10. QED
    BY <1>1, <1>6, <1>7, <1>8, <1>9, ClientMoves

\* Every step keeps what holds while only one node has blocks stored.
LEMMA AloneStep ==
    ASSUME IInv, SocketsInv, BroadcastInv, [Next]_vars, NEW s \in Nodes,
           SentOK(s), \A n \in Nodes : ReceivedOK(n), AloneOK(s)
    PROVE  AloneOK(s)'
  <1>1. SUFFICES ASSUME alone(s)' PROVE AloneOK(s)'
    BY DEF AloneOK, alone
  <1>2. CASE \A n \in Nodes : chain'[n] = chain[n]
    BY <1>1, <1>2, AloneSends
  <1>3. ASSUME NEW k \in Nodes \ {s}, chain'[k] # chain[k]
        PROVE  AloneOK(s)'
    BY <1>1, <1>3, AloneIsStored
  <1>4. CASE chain'[s] # chain[s]
    <2>1. InsertOwnBlock(s) /\ alone(s)
      BY <1>1, <1>4, AloneGrowth, AloneBefore
    <2>2. QED
      BY <2>1, AloneInsertsOwn
  <1>5. QED
    BY <1>2, <1>3, <1>4

\* All nodes start with the same line.
LEMMA AloneInit ==
    ASSUME Init, NEW s \in Nodes
    PROVE  AloneOK(s)
  <1>1. \A n \in Nodes : chain[n] = InitialChain /\ cli[n].pc = "idle"
    BY DEF Init, Idle
  <1>2. QED
    BY <1>1, ChainAssumption DEF AloneOK

\* While only one node has blocks stored, every table is its table, or that and
\* the block it is sending.
THEOREM AloneAlways == Spec => [](\A s \in Nodes : AloneOK(s))
  <1> DEFINE Sent == \A n \in Nodes : SentOK(n)
             Received == \A n \in Nodes : ReceivedOK(n)
             Alone == \A s \in Nodes : AloneOK(s)
  <1>1. Init => Alone
    BY AloneInit
  <1>2. IInv /\ SocketsInv /\ BroadcastInv /\ Sent /\ Received /\ Alone /\ [Next]_vars => Alone'
    BY AloneStep
  <1>3. Spec => []Sent
    BY SentAlways
  <1>4. Spec => []Received
    BY ReceivedAlways
  <1> HIDE DEF Sent, Received, Alone
  <1>5. Spec => []Alone
    BY <1>1, <1>2, <1>3, <1>4, Inductive, SocketsAlways, BroadcastAlways, PTL DEF Spec
  <1>6. QED
    BY <1>5 DEF Alone

\* Tables of nodes between two commands, none of which has crashed, differ only if
\* two nodes have had blocks stored, or the only author does not list everybody, has
\* a clock that a peer does not believe, or had a block or its answer read in part.
THEOREM SingleSenderAlwaysConverges == Spec => []SingleSenderConverges
  <1>1. (\A s \in Nodes : AloneOK(s)) => SingleSenderConverges
    BY DEF AloneOK, SingleSenderConverges
  <1>2. QED
    BY <1>1, AloneAlways, PTL
=============================================================================
