------------------------- MODULE DChatBroadcastProofs -------------------------
(***************************************************************************)
(* Proofs about DChat, continued: what a broadcast leaves at the peers,    *)
(* and what becomes of a message at its two ends.                          *)
(***************************************************************************)
EXTENDS DChatMessageProofs

-----------------------------------------------------------------------------
(* Acknowledgements and own blocks.                                        *)

\* An acknowledgement is never taken back.
LEMMA AckedGrows ==
    ASSUME IInv, [Next]_vars
    PROVE  acked \subseteq acked'
  <1>1. ASSUME NEW n \in Nodes, ServerStep(n)
        PROVE  acked \subseteq acked'
    BY <1>1 DEF ServerStep, HandleTextMessage, AnswerTextMessage, ValidateBlock, CheckBlock,
       InsertBlock, HandleBlockchainError, DropClosed, ReceivePart
  <1>2. QED
    BY <1>1, ClientStepLocal DEF Next, Connect, ConnectFails, Crash, vars

\* wasCut after a step.
nowCut(type, n, hash) == \E c \in cut' : c.type = type /\ c.at = n /\ c.block.hash = hash

\* What has been read in part stays so.
LEMMA CutGrows ==
    ASSUME [Next]_vars
    PROVE  /\ cut \subseteq cut'
           /\ \A type, n, hash : wasCut(type, n, hash) => nowCut(type, n, hash)
           /\ \A type, n, hash : wasCut(type, n, hash)' <=> nowCut(type, n, hash)
  <1>1. cut \subseteq cut'
    <2>1. ASSUME NEW n \in Nodes, ServerStep(n)
          PROVE  cut \subseteq cut'
      BY <2>1 DEF ServerStep, HandleTextMessage, AnswerTextMessage, ValidateBlock, CheckBlock,
         InsertBlock, HandleBlockchainError, DropClosed, ReceivePart, readPart
    <2>2. ASSUME NEW n \in Nodes, ClientStep(n)
          PROVE  cut \subseteq cut'
      BY <2>2 DEF ClientStep, SendText, MessageTooBig, SendTextLost, TextAnswered, AddChatPeer,
         SendBlock, SkipPeer, BlockAnswered, BlockAnswerCut, CheckOwnBlock, InsertOwnBlock,
         Rollback, NotifyRecipient, readPart
    <2>3. QED
      BY <2>1, <2>2 DEF Next, Connect, ConnectFails, Crash, vars
  <1>2. QED
    BY <1>1 DEF wasCut, nowCut

\* An own block gets committed by the SELECT of insertBlock.
LEMMA CommitOrigin ==
    ASSUME IInv, SocketsInv, [Next]_vars, NEW n \in Nodes, NEW b, committed(n, b)'
    PROVE  \/ committed(n, b)
           \/ /\ CheckOwnBlock(n) /\ b = cli[n].block /\ insertAllowed(chain[n], b)
              /\ cli[n].todo = {} /\ cli[n].pc = "broadcast" /\ up[n] /\ chain' = chain
  <1>1. ASSUME b.hash \in Msgs, b.author = n, NEW i \in DOMAIN chain'[n], chain'[n][i] = b
        PROVE  committed(n, b)
    <2>1. i \in DOMAIN chain[n] /\ chain'[n][i] = chain[n][i] => committed(n, b)
      BY <1>1 DEF committed
    <2>2. InsertOwnBlock(n) => committed(n, cli[n].block)
      BY DEF committed, InsertOwnBlock
    <2>3. InsertBlock(n) => request(n).block.author # n
      BY ServedRequest DEF InsertBlock, serving
    <2>4. QED
      BY <1>1, <2>1, <2>2, <2>3, TableOrigin
  <1>2. CASE cli'[n].pc = "insert" /\ cli'[n].block = b
    <2>1. CASE cli'[n] = cli[n]
      BY <1>2, <2>1 DEF committed
    <2>2. CASE ClientStep(n)
      <3>1. CheckOwnBlock(n)
        <4>1. ~(SendText(n) \/ TextAnswered(n) \/ AddChatPeer(n) \/ MessageTooBig(n))
          BY <1>2, ClientFields, BroadcastFields DEF Idle
        <4>2. ~SendTextLost(n)
          BY <1>2, ClientFields DEF Idle
        <4>3. \A p \in Nodes : ~(SendBlock(n, p) \/ SkipPeer(n, p))
          BY <1>2, BroadcastFields
        <4>4. ~(BlockAnswered(n) \/ BlockAnswerCut(n) \/ InsertOwnBlock(n) \/ Rollback(n)
                \/ NotifyRecipient(n))
          BY <1>2, BroadcastFields DEF Idle
        <4>5. QED
          BY <2>2, <4>1, <4>2, <4>3, <4>4 DEF ClientStep
      <3>2. insertAllowed(chain[n], cli[n].block) /\ cli'[n].block = cli[n].block
        BY <1>2, <3>1, BroadcastFields
      <3>3. QED
        BY <1>2, <3>1, <3>2 DEF CheckOwnBlock
    <2>3. cli'[n] # Idle /\ \A m, p : ~Connect(n, m, p)
      BY <1>2, ConnectFields DEF Idle
    <2>4. QED
      BY <1>2, <2>1, <2>2, <2>3, ClientMoves
  <1>3. QED
    BY <1>1, <1>2 DEF committed

\* A good answer to a block comes from the peer that was asked, and is on record.
LEMMA OkAcked ==
    ASSUME IInv, SocketsInv, [Next]_vars, NEW k \in Nodes, cli[k].pc = "waitBlock",
           cli'[k] # cli[k], ~ClientStep(k), cli'[k].reply = "ok"
    PROVE  <<cli[k].dst, cli[k].block>> \in acked'
  <1>1. cli \in [Nodes -> Client] /\ cli[k] \in Client
    BY DEF IInv, TypeOK
  <1>2. ASSUME NEW n \in Nodes, ServerStep(n)
        PROVE  <<cli[k].dst, cli[k].block>> \in acked'
    <2>1. PICK a : /\ answerWith(n, a) /\ backlog[n] # << >>
                   /\ request(n).type \in {"TEXT_MESSAGE", "BLOCK"}
      BY <1>2, ServerStepLocal
    <2>2. /\ cli'[k] = [cli[k] EXCEPT !.reply = a] /\ cli[k].dst = n
          /\ request(n).block = cli[k].block /\ request(n).type = "BLOCK"
      BY <2>1, AnsweredClient
    <2>3. cli'[k].reply = a /\ a = "ok"
      BY <1>1, <2>2 DEF Client
    <2>0. ~ReceivePart(n)
      <3>1. SUFFICES ASSUME ReceivePart(n) PROVE FALSE
        OBVIOUS
      <3>2. answerWith(n, "closed")
        BY <2>1, <3>1 DEF ReceivePart
      <3>3. cli'[k] = [cli[k] EXCEPT !.reply = "closed"]
        BY <2>1, <3>2, AnsweredClient
      <3>4. QED
        BY <1>1, <2>3, <3>3 DEF Client
    <2>4. ~ValidateBlock(n)
      <3>1. SUFFICES ASSUME ValidateBlock(n) PROVE FALSE
        OBVIOUS
      <3>2. cli' = cli \/ answerWith(n, "error")
        BY <3>1 DEF ValidateBlock
      <3>3. answerWith(n, "error") => cli'[k] = [cli[k] EXCEPT !.reply = "error"]
        BY <2>1, AnsweredClient
      <3>4. answerWith(n, "error") => cli'[k].reply = "error"
        BY <1>1, <3>3 DEF Client
      <3>5. QED
        BY <2>3, <3>2, <3>4
    <2>5. InsertBlock(n) \/ CheckBlock(n)
      BY <1>2, <2>0, <2>2, <2>4 DEF ServerStep, HandleTextMessage, AnswerTextMessage,
         HandleBlockchainError, DropClosed, serving
    <2>6. <<n, request(n).block>> \in acked'
      BY <2>5 DEF InsertBlock, CheckBlock
    <2>7. QED
      BY <2>2, <2>6
  <1>3. ASSUME NEW n \in Nodes, Crash(n)
        PROVE  FALSE
    <2>1. cli'[k] = IF k = n THEN Idle ELSE IF awaits(k, n) THEN [cli[k] EXCEPT !.reply = "closed"]
                                            ELSE cli[k]
      BY <1>3 DEF Crash
    <2>2. cli'[k].reply # "ok"
      BY <1>1, <2>1 DEF Idle, Client
    <2>3. QED
      BY <2>2
  <1>4. ASSUME NEW n \in Nodes, ClientStep(n)
        PROVE  FALSE
    BY <1>4, ClientStepLocal
  <1>5. ASSUME NEW n \in Nodes, NEW m \in Msgs, NEW p \in Nodes,
               Connect(n, m, p) \/ ConnectFails(n, m, p)
        PROVE  FALSE
    BY <1>1, <1>5 DEF Connect, ConnectFails
  <1>6. QED
    BY <1>2, <1>3, <1>4, <1>5 DEF Next, vars

\* Every step keeps the record of a broadcast.
LEMMA AskedStep ==
    ASSUME IInv, SocketsInv, [Next]_vars, NEW k \in Nodes, AskedOK(k)
    PROVE  AskedOK(k)'
  <1>1. acked \subseteq acked' /\ SocketOK(k)
    BY AckedGrows DEF SocketsInv
  <1>2. SUFFICES ASSUME NEW p \in Peers[k], up'[p]
                 PROVE  /\ \A b \in Block : committed(k, b)' => <<p, b>> \in acked'
                        /\ cli'[k].pc \in {"broadcast", "waitBlock"} =>
                               \/ p \in cli'[k].todo \/ <<p, cli'[k].block>> \in acked'
                               \/ cli'[k].pc = "waitBlock" /\ cli'[k].dst = p /\ cli'[k].reply # "ok"
    BY DEF AskedOK, committed
  <1>3. p \in Nodes
    BY NetworkAssumption
  <1>4. up[p]
    BY <1>2, <1>3, UpShrinks
  <1>5. /\ \A b \in Block : committed(k, b) => <<p, b>> \in acked
        /\ cli[k].pc \in {"broadcast", "waitBlock"} =>
               \/ p \in cli[k].todo \/ <<p, cli[k].block>> \in acked
               \/ cli[k].pc = "waitBlock" /\ cli[k].dst = p /\ cli[k].reply # "ok"
    BY <1>2, <1>4 DEF AskedOK
  <1>6. ASSUME NEW b \in Block, committed(k, b)'
        PROVE  <<p, b>> \in acked'
    BY <1>1, <1>5, <1>6, CommitOrigin
  <1>7. ASSUME cli'[k].pc \in {"broadcast", "waitBlock"}
        PROVE  \/ p \in cli'[k].todo \/ <<p, cli'[k].block>> \in acked'
               \/ cli'[k].pc = "waitBlock" /\ cli'[k].dst = p /\ cli'[k].reply # "ok"
    <2>1. CASE cli'[k] = cli[k]
      BY <1>1, <1>5, <1>7, <2>1
    <2>2. CASE ClientStep(k)
      <3>1. CASE AddChatPeer(k)
        BY <1>2, <3>1, ClientFields
      <3>2. ASSUME NEW q \in Nodes, SendBlock(k, q)
            PROVE  \/ p \in cli'[k].todo \/ <<p, cli'[k].block>> \in acked'
                   \/ cli'[k].pc = "waitBlock" /\ cli'[k].dst = p /\ cli'[k].reply # "ok"
        <4>1. /\ cli[k].pc = "broadcast" /\ cli'[k].pc = "waitBlock" /\ cli'[k].block = cli[k].block
              /\ cli'[k].todo = cli[k].todo \ {q} /\ cli'[k].dst = q /\ cli'[k].reply = "none"
          BY <1>1, <3>2, BroadcastFields DEF SocketOK
        <4>2. QED
          BY <1>1, <1>5, <4>1
      <3>3. ASSUME NEW q \in Nodes, SkipPeer(k, q)
            PROVE  p \in cli'[k].todo \/ <<p, cli'[k].block>> \in acked'
        <4>1. /\ cli[k].pc = "broadcast" /\ cli'[k].block = cli[k].block
              /\ cli'[k].todo = cli[k].todo \ {q} /\ ~up[q]
          BY <3>3, BroadcastFields DEF SkipPeer
        <4>2. QED
          BY <1>1, <1>4, <1>5, <4>1
      <3>4. CASE BlockAnswered(k)
        <4>1. /\ cli[k].pc = "waitBlock" /\ cli[k].reply = "ok"
              /\ cli'[k].block = cli[k].block /\ cli'[k].todo = cli[k].todo
          BY <1>7, <3>4, BroadcastFields
        <4>2. QED
          BY <1>1, <1>5, <4>1
      <3>5. ~(SendText(k) \/ TextAnswered(k) \/ SendTextLost(k))
        BY <1>7, ClientFields DEF Idle
      <3>6. ~(MessageTooBig(k) \/ BlockAnswerCut(k) \/ CheckOwnBlock(k) \/ InsertOwnBlock(k)
              \/ Rollback(k) \/ NotifyRecipient(k))
        BY <1>7, BroadcastFields DEF Idle
      <3>7. QED
        BY <2>2, <3>1, <3>2, <3>3, <3>4, <3>5, <3>6 DEF ClientStep
    <2>3. CASE /\ cli[k].pc \in {"waitText", "waitBlock"} /\ cli[k].reply = "none"
               /\ cli'[k].pc = cli[k].pc /\ sameSend(k) /\ cli'[k].block = cli[k].block
               /\ cli'[k].todo = cli[k].todo /\ cli'[k].dst = cli[k].dst
               /\ ~ClientStep(k) /\ cli'[k] # cli[k]
      BY <1>1, <1>5, <1>7, <2>3, OkAcked
    <2>4. cli'[k] # Idle /\ \A m, q : ~Connect(k, m, q)
      BY <1>7, ConnectFields DEF Idle
    <2>5. QED
      BY <2>1, <2>2, <2>3, <2>4, ClientMoves
  <1>8. QED
    BY <1>6, <1>7

\* Every step keeps what an acknowledged block may have been outrun by.
LEMMA OutrunStep ==
    ASSUME IInv, SocketsInv, \A n \in Nodes : ReceivedOK(n), [Next]_vars,
           \A a \in acked : OutrunOK(a[1], a[2])
    PROVE  \A a \in acked' : OutrunOK(a[1], a[2])'
  <1>1. acked \subseteq Nodes \X Block /\ acked' \subseteq Nodes \X Block
    BY TypeStep DEF IInv, TypeOK
  <1>2. ASSUME NEW p \in Nodes, NEW b, OutrunOK(p, b)
        PROVE  OutrunOK(p, b)'
    BY <1>2, TableKeeps DEF OutrunOK, hasBlock, hashes
  <1>3. ASSUME NEW p \in Nodes, NEW b, b = request(p).block, InsertBlock(p)
        PROVE  OutrunOK(p, b)'
    <2>1. chain'[p] = insertRow(chain[p], b) /\ chain[p] \in Seq(Block)
      BY <1>3 DEF InsertBlock, IInv, TypeOK
    <2>2. b \in Block
      BY <1>3, ServedRequest DEF InsertBlock, serving
    <2>3. hasBlock(chain'[p], b.hash)
      BY <2>1, <2>2, AppendBlock DEF insertRow, hasBlock
    <2>4. QED
      BY <2>3 DEF OutrunOK, hasBlock, hashes
  <1>4. ASSUME NEW p \in Nodes, NEW b, b = request(p).block, CheckBlock(p),
               ~insertAllowed(chain[p], b)
        PROVE  OutrunOK(p, b)'
    <2>1. srv[p] = "check" /\ ReceivedOK(p) /\ ServerOK(p)
      BY <1>4 DEF CheckBlock, IInv
    <2>2. PICK i \in DOMAIN chain[p] : chain[p][i].previousHash = b.previousHash
      BY <1>4 DEF insertAllowed, hasChild
    <2>3. b.previousHash # NoHash
      BY <1>4 DEF insertAllowed
    <2>4. chain[p][i].author = p /\ chain[p][i].hash \in Msgs
      BY <1>4, <2>1, <2>2 DEF ServerOK, siblingsOwn, ReceivedOK
    <2>5. OutrunOK(p, b)
      BY <2>2, <2>3, <2>4 DEF OutrunOK
    <2>6. QED
      BY <1>2, <2>5
  <1>5. ASSUME NEW p \in Nodes, NEW b \in Block, <<p, b>> \in acked'
        PROVE  OutrunOK(p, b)'
    <2>1. CASE <<p, b>> \in acked
      BY <1>2, <2>1
    <2>2. QED
      BY <1>3, <1>4, <1>5, <2>1, AckOrigin
  <1>6. QED
    BY <1>1, <1>5

\* What is committed has been seen.
LEMMA CommittedSeen ==
    ASSUME IInv, NEW n \in Nodes, NEW b, committed(n, b)
    PROVE  b \in Block /\ blockSeen(b)
  <1>1. chain[n] \in Seq(Block) /\ ClientOK(n)
    BY DEF IInv, TypeOK
  <1>2. QED
    BY <1>1, HashesOfTable DEF committed, blockSeen, ClientOK

\* Every step keeps two nodes that list each other from both committing a block
\* to one parent.
LEMMA RaceStep ==
    ASSUME IInv, SocketsInv, UniqueInv, BroadcastInv, [Next]_vars
    PROVE  RaceOK'
  <1>1. SUFFICES ASSUME NEW n \in Nodes, NEW p \in Nodes, n \in Peers[p], p \in Peers[n],
                        NEW b \in Block, NEW c \in Block, committed(n, b)', committed(p, c)',
                        b.previousHash = c.previousHash
                 PROVE  b.previousHash = NoHash
    BY DEF RaceOK, committed
  <1>2. ASSUME NEW x \in Nodes, NEW y \in Nodes, x \in Peers[y], NEW d \in Block, NEW e \in Block,
               CheckOwnBlock(x), insertAllowed(chain[x], d), up[x],
               committed(y, e), d.previousHash = e.previousHash
        PROVE  d.previousHash = NoHash
    <2>1. <<x, e>> \in acked
      BY <1>2 DEF BroadcastInv, AskedOK
    <2>2. OutrunOK(x, e)
      BY <2>1 DEF BroadcastInv
    <2>3. \E i \in DOMAIN chain[x] : chain[x][i].previousHash = e.previousHash
      <3>1. CASE hasBlock(chain[x], e.hash)
        <4>1. PICK i \in DOMAIN chain[x] : chain[x][i].hash = e.hash
          BY <3>1 DEF hasBlock, hashes
        <4>2. chain[x][i] \in Block /\ blockSeen(chain[x][i]) /\ blockSeen(e)
          BY <1>2, CommittedSeen, HashesOfTable DEF blockSeen, IInv, TypeOK
        <4>3. chain[x][i] = e
          BY <4>1, <4>2 DEF UniqueInv
        <4>4. QED
          BY <4>3
      <3>2. QED
        BY <2>2, <3>1 DEF OutrunOK
    <2>4. QED
      BY <1>2, <2>3 DEF insertAllowed, hasChild
  <1>3. n # p
    BY <1>1, NetworkAssumption
  <1>4. ~(CheckOwnBlock(n) /\ CheckOwnBlock(p))
    <2>1. SUFFICES ASSUME CheckOwnBlock(n), CheckOwnBlock(p) PROVE FALSE
      OBVIOUS
    <2>2. ClientStep(n) /\ cli'[p].pc # cli[p].pc
      BY <2>1, BroadcastFields DEF ClientStep
    <2>3. QED
      BY <1>3, <2>2, ClientStepLocal
  <1>5. CASE committed(n, b) /\ committed(p, c)
    BY <1>1, <1>5 DEF BroadcastInv, RaceOK
  <1>6. CASE CheckOwnBlock(n) /\ insertAllowed(chain[n], b) /\ up[n] /\ committed(p, c)
    BY <1>1, <1>2, <1>6
  <1>7. CASE CheckOwnBlock(p) /\ insertAllowed(chain[p], c) /\ up[p] /\ committed(n, b)
    BY <1>1, <1>2, <1>7
  <1>8. QED
    BY <1>1, <1>4, <1>5, <1>6, <1>7, CommitOrigin

\* Nothing has been broadcast at the start.
LEMMA BroadcastInit == Init => BroadcastInv
  <1>1. SUFFICES ASSUME Init PROVE BroadcastInv
    OBVIOUS
  <1>2. \A n \in Nodes : chain[n] = InitialChain /\ cli[n].pc = "idle"
    BY <1>1 DEF Init, Idle
  <1>3. \A n \in Nodes : \A b : ~committed(n, b)
    BY <1>2, ChainAssumption DEF committed, hashes
  <1>4. acked = {}
    BY <1>1 DEF Init
  <1>5. QED
    BY <1>2, <1>3, <1>4 DEF BroadcastInv, AskedOK, RaceOK

\* A committed block has been acknowledged by every listed peer that runs, which
\* therefore holds it or a block of its own instead; of two nodes that list each
\* other only one commits a block to a parent.
THEOREM BroadcastAlways == Spec => []BroadcastInv
  <1>1. /\ IInv /\ SocketsInv /\ UniqueInv /\ (\A n \in Nodes : ReceivedOK(n)) /\ BroadcastInv
        /\ [Next]_vars
        => BroadcastInv'
    <2>1. SUFFICES ASSUME IInv, SocketsInv, UniqueInv, \A n \in Nodes : ReceivedOK(n), BroadcastInv,
                          [Next]_vars
                   PROVE  BroadcastInv'
      OBVIOUS
    <2>2. \A n \in Nodes : AskedOK(n)'
      BY <2>1, AskedStep DEF BroadcastInv
    <2>3. \A a \in acked' : OutrunOK(a[1], a[2])'
      BY <2>1, OutrunStep DEF BroadcastInv
    <2>4. RaceOK'
      BY <2>1, RaceStep
    <2>5. QED
      BY <2>2, <2>3, <2>4 DEF BroadcastInv
  <1>2. QED
    BY <1>1, BroadcastInit, Inductive, SocketsAlways, UniqueAlways, ReceivedAlways, PTL DEF Spec

\* verifyBlockSignature succeeds for blocks of nodes whose keys fit.
LEMMA BlockSigned ==
    ASSUME NEW b
    PROVE  verifyBlockSignature(b) <=> b.author \notin BadKeys
  BY SignedWell DEF verifyBlockSignature, signature

\* Only signed blocks of others are stored and acknowledged.
LEMMA SignedStep ==
    ASSUME IInv, \A n \in Nodes : ReceivedOK(n), SignedInv, [Next]_vars
    PROVE  SignedInv'
  <1>1. ASSUME NEW n \in Nodes, InsertBlock(n) \/ CheckBlock(n)
        PROVE  request(n).block.author \notin BadKeys
    <2>1. srv[n] \in {"check", "insert"} /\ ReceivedOK(n)
      BY <1>1 DEF InsertBlock, CheckBlock
    <2>2. validateSingleBlock(request(n).block)
      BY <2>1 DEF ReceivedOK
    <2>3. QED
      BY <2>2, BlockSigned DEF validateSingleBlock
  <1>2. ASSUME NEW n \in Nodes, NEW i \in DOMAIN chain'[n], NEW b, b = chain'[n][i],
               b.hash \in Msgs, b.author # n
        PROVE  b.author \notin BadKeys
    <2>1. CASE i \in DOMAIN chain[n] /\ chain'[n][i] = chain[n][i]
      BY <1>2, <2>1 DEF SignedInv
    <2>2. CASE InsertOwnBlock(n) /\ chain'[n][i] = cli[n].block
      BY <1>2, <2>2 DEF InsertOwnBlock, IInv, ClientOK
    <2>3. CASE InsertBlock(n) /\ chain'[n][i] = request(n).block
      BY <1>1, <1>2, <2>3
    <2>4. QED
      BY <2>1, <2>2, <2>3, TableOrigin
  <1>3. ASSUME NEW a \in acked'
        PROVE  a[2].author \notin BadKeys
    <2>1. ASSUME NEW n \in Nodes, ServerStep(n)
          PROVE  acked' = acked \/ ((InsertBlock(n) \/ CheckBlock(n))
                                    /\ acked' = acked \cup {<<n, request(n).block>>})
      BY <2>1 DEF ServerStep, HandleTextMessage, AnswerTextMessage, ValidateBlock, CheckBlock,
         InsertBlock, HandleBlockchainError, DropClosed, ReceivePart
    <2>2. CASE acked' = acked
      BY <1>3, <2>2 DEF SignedInv
    <2>3. ASSUME NEW n \in Nodes, InsertBlock(n) \/ CheckBlock(n),
                 acked' = acked \cup {<<n, request(n).block>>}
          PROVE  a[2].author \notin BadKeys
      BY <1>1, <1>3, <2>3 DEF SignedInv
    <2>4. QED
      BY <2>1, <2>2, <2>3, ClientStepLocal DEF Next, Connect, ConnectFails, Crash, vars
  <1>4. QED
    BY <1>2, <1>3 DEF SignedInv

\* A block without a valid signature is stored by nobody but its author, whose
\* insert does not validate it, and there only when every peer the author lists
\* has gone: whoever had answered would have refused it.
THEOREM UnsignedAlwaysStaysAlone == Spec => []UnsignedStaysAlone
  <1>1. Init => SignedInv
    <2>1. ASSUME Init PROVE acked = {} /\ \A n \in Nodes : chain[n] = InitialChain
      BY <2>1 DEF Init
    <2>2. \A i \in DOMAIN InitialChain : InitialChain[i].hash \notin Msgs
      BY ChainAssumption DEF hashes
    <2>3. QED
      BY <2>1, <2>2 DEF SignedInv
  <1>2. IInv /\ (\A n \in Nodes : ReceivedOK(n)) /\ SignedInv /\ [Next]_vars => SignedInv'
    BY SignedStep
  <1>3. /\ IInv /\ (\A n \in Nodes : ReceivedOK(n)) /\ BroadcastInv /\ SignedInv
        => UnsignedStaysAlone
    <2>1. SUFFICES ASSUME IInv, \A n \in Nodes : ReceivedOK(n), BroadcastInv, SignedInv,
                          NEW n \in Nodes, NEW i \in DOMAIN chain[n], i > Len(InitialChain),
                          NEW b, b = chain[n][i], b.author \in BadKeys
                   PROVE  b.author = n /\ \A p \in Peers[n] : ~up[p]
      BY DEF UnsignedStaysAlone
    <2>2. i \notin DOMAIN InitialChain /\ b \in Block
      BY <2>1, LenProperties, HashesOfTable, ChainAssumption DEF IInv, TypeOK
    <2>3. b.hash \in Msgs
      BY <2>1, <2>2 DEF ReceivedOK
    <2>4. b.author = n
      BY <2>1, <2>3 DEF SignedInv
    <2>5. committed(n, b)
      BY <2>1, <2>3, <2>4 DEF committed
    <2>6. ASSUME NEW p \in Peers[n], up[p]
          PROVE  FALSE
      <3>1. <<p, b>> \in acked
        BY <2>1, <2>2, <2>5, <2>6 DEF BroadcastInv, AskedOK
      <3>2. QED
        BY <2>1, <3>1 DEF SignedInv
    <2>7. QED
      BY <2>4, <2>6
  <1>4. QED
    BY <1>1, <1>2, <1>3, Inductive, ReceivedAlways, BroadcastAlways, PTL DEF Spec

\* A message whose block its sender has stored is marked [INVALID] at its
\* recipient only if the recipient does not list the sender and has stored a
\* block of its own on the same parent: between nodes that list each other,
\* validation, SELECT and acknowledgement together notice every race of two own
\* blocks at one of the two ends, whoever else crashes.
THEOREM InvalidOnlyIfUnlistedAlways == Spec => []InvalidOnlyIfUnlisted
  <1>1. /\ IInv /\ UniqueInv /\ (\A n \in Nodes : ShownOK(n)) /\ BroadcastInv
        => InvalidOnlyIfUnlisted
    <2>1. SUFFICES ASSUME IInv, UniqueInv, \A n \in Nodes : ShownOK(n), BroadcastInv,
                          NEW n \in Nodes, NEW p \in Nodes, up[n],
                          NEW l \in DOMAIN chain[p], NEW b, b = chain[p][l],
                          [id |-> b.hash, from |-> p, to |-> n] \in messages[n],
                          b.hash \in findInvalidChatMessageIDs(n, findChatMessages(n, p))
                   PROVE  /\ p \notin Peers[n]
                          /\ \E j \in DOMAIN chain[n] :
                                 /\ chain[n][j].author = n
                                 /\ chain[n][j].previousHash = b.previousHash
      BY DEF InvalidOnlyIfUnlisted
    <2> DEFINE r == [id |-> b.hash, from |-> p, to |-> n]
    <2>2. /\ messages[n] \subseteq Row /\ chain[n] \in Seq(Block) /\ chain[p] \in Seq(Block)
      BY <2>1 DEF IInv, TypeOK
    <2>3. /\ r \in messages[n] /\ r \in Row /\ rowSeen(r)
          /\ r.id = b.hash /\ r.from = p /\ r.to = n
      BY <2>1, <2>2 DEF rowSeen
    <2> HIDE DEF r
    <2>4. b \in Block /\ blockSeen(b)
      BY <2>1, <2>2, HashesOfTable DEF blockSeen
    <2>5. b.author = p /\ n \in Peers[p] /\ b.hash \in Msgs
      BY <2>1, <2>3, <2>4 DEF UniqueInv, Row
    <2>6. n # p
      BY <2>5, NetworkAssumption
    <2>7. committed(p, b)
      BY <2>1, <2>5 DEF committed
    <2>8. <<n, b>> \in acked
      BY <2>1, <2>4, <2>5, <2>7 DEF BroadcastInv, AskedOK
    <2>9. OutrunOK(n, b)
      BY <2>1, <2>8 DEF BroadcastInv
    <2>10. ~hasBlock(chain[n], b.hash)
      <3>1. SUFFICES ASSUME NEW i \in DOMAIN chain[n], chain[n][i].hash = b.hash
                     PROVE  FALSE
        BY DEF hasBlock, hashes
      <3>2. chain[n][i] = b
        BY <2>1, <2>2, <2>4, <3>1, HashesOfTable DEF UniqueInv, blockSeen
      <3>3. PICK q \in findChatMessages(n, p) :
                q.id = b.hash /\ ~compareBlockWithMessage(b, q)
        BY <2>1, <3>1, <3>2 DEF findInvalidChatMessageIDs
      <3>4. PICK s \in messages[n], inv \in BOOLEAN :
                /\ q = readBack(n, s, inv)
                /\ IF inv THEN s.from = n ELSE s.from = p
        BY <3>3 DEF findChatMessages
      <3>5. q.id = s.id /\ q.from = s.from /\ q.text = textOf(n, messageJson(s), inv)
        BY <3>4 DEF readBack
      <3>6. s = r
        BY <2>1, <2>2, <2>3, <3>3, <3>5 DEF UniqueInv, rowSeen
      <3>7. inv = FALSE
        BY <2>3, <2>6, <3>4, <3>6
      <3>8. readable(n, messageJson(r), FALSE)
        BY <2>1, <2>3, <2>6 DEF ShownOK
      <3>9. q.text = b.hash /\ q.from = p /\ p \notin BadKeys
        BY <2>3, <3>5, <3>6, <3>7, <3>8, ReadByRecipient
      <3>10. compareBlockWithMessage(b, q)
        BY <2>5, <3>9, BlockSigned DEF compareBlockWithMessage
      <3>11. QED
        BY <3>3, <3>10
    <2>11. PICK i \in DOMAIN chain[n] :
              /\ chain[n][i].author = n /\ chain[n][i].hash \in Msgs
              /\ chain[n][i].previousHash = b.previousHash /\ b.previousHash # NoHash
      BY <2>9, <2>10 DEF OutrunOK
    <2>12. committed(n, chain[n][i]) /\ chain[n][i] \in Block
      BY <2>2, <2>11, HashesOfTable DEF committed
    <2>13. p \notin Peers[n]
      BY <2>1, <2>4, <2>5, <2>7, <2>11, <2>12 DEF BroadcastInv, RaceOK
    <2>14. QED
      BY <2>11, <2>13
  <1>2. QED
    BY <1>1, Inductive, UniqueAlways, ShownAlways, BroadcastAlways, PTL

-----------------------------------------------------------------------------
(* Both ends of a message.                                                 *)

\* A queue keeps the requests it has, but the one that is served.
LEMMA RequestKept ==
    ASSUME IInv, [Next]_vars, NEW k \in Nodes, up'[k], NEW i \in DOMAIN backlog[k],
           backlog[k][i].type # "open"
    PROVE  \/ \E j \in DOMAIN backlog'[k] : backlog'[k][j] = backlog[k][i]
           \/ ServerStep(k) /\ backlog[k][i] = request(k)
  <1>1. backlog \in [Nodes -> Seq(Request)] /\ backlog[k] \in Seq(Request) /\ TypeOK
    BY DEF IInv, TypeOK
  <1> DEFINE Kept == \E j \in DOMAIN backlog'[k] : backlog'[k][j] = backlog[k][i]
  <1>2. CASE backlog'[k] = backlog[k]
    BY <1>2
  <1>3. ASSUME NEW q \in Request, backlog'[k] = Append(backlog[k], q) PROVE Kept
    BY <1>1, <1>3, AppendProperties, LenProperties
  <1>4. ASSUME NEW n, NEW q, backlog'[k] = nowCarries(n, backlog[k], q) PROVE Kept
    <2>1. backlog[k][i] # Open(n)
      BY DEF Open
    <2>2. i \in DOMAIN backlog'[k] /\ backlog'[k][i] = backlog[k][i]
      BY <1>4, <2>1 DEF nowCarries
    <2>3. QED
      BY <2>2
  <1>5. ASSUME NEW n \in Nodes, NEW m \in Msgs, NEW p \in Nodes,
               Connect(n, m, p) \/ ConnectFails(n, m, p)
        PROVE  Kept
    <2>1. backlog'[k] = backlog[k] \/ backlog'[k] = Append(backlog[k], Open(n))
      BY <1>1, <1>5 DEF Connect, ConnectFails, connectTo
    <2>2. QED
      BY <1>2, <1>3, <2>1, Requests
  <1>6. ASSUME NEW n \in Nodes, ServerStep(n)
        PROVE  Kept \/ (ServerStep(k) /\ backlog[k][i] = request(k))
    <2>1. backlog'[k] = backlog[k] \/ (n = k /\ backlog[k] # << >> /\ backlog'[k] = Tail(backlog[k]))
      BY <1>6, ServerStepLocal
    <2>2. CASE n = k /\ backlog[k] # << >> /\ backlog'[k] = Tail(backlog[k])
      <3>1. CASE i = 1
        BY <1>1, <1>6, <2>2, <3>1, TailOfQueue DEF request
      <3>2. CASE i # 1
        <4>1. i - 1 \in DOMAIN Tail(backlog[k]) /\ (i - 1) + 1 = i
          BY <1>1, <2>2, <3>2, HeadTailProperties, LenProperties
        <4>2. backlog'[k][i - 1] = backlog[k][i]
          BY <1>1, <2>2, <4>1, TailOfQueue
        <4>3. QED
          BY <2>2, <4>1, <4>2
      <3>3. QED
        BY <3>1, <3>2
    <2>3. QED
      BY <1>2, <2>1, <2>2
  <1>7. ASSUME NEW n \in Nodes, Crash(n) PROVE Kept
    <2>1. k # n
      BY <1>7, UpShrinks
    <2>2. backlog'[k] = nowCarries(n, backlog[k], Closed(n))
      BY <1>7, <2>1 DEF Crash
    <2>3. QED
      BY <1>4, <2>2
  <1>8. ASSUME NEW n \in Nodes, ClientStep(n) PROVE Kept
    <2>1. ClientOK(n)
      BY DEF IInv
    <2>2. CASE SendText(n)
      <3> DEFINE q == TextMessage(n, createBlockFromMessage(chain[n], n, cli[n].msg))
      <3>1. backlog'[k] = backlog[k] \/ backlog'[k] = nowCarries(n, backlog[k], q)
        BY <1>1, <2>2 DEF SendText
      <3> HIDE DEF q
      <3>2. QED
        BY <1>2, <1>4, <3>1
    <2>3. CASE MessageTooBig(n)
      <3>1. backlog'[k] = backlog[k] \/ backlog'[k] = nowCarries(n, backlog[k], Closed(n))
        BY <1>1, <2>3 DEF MessageTooBig
      <3>2. QED
        BY <1>2, <1>4, <3>1
    <2>4. ASSUME NEW p \in Nodes, SendBlock(n, p) PROVE Kept
      <3>1. cli[n].block \in Block
        BY <2>1, <2>4 DEF SendBlock, ClientOK
      <3>2. backlog'[k] = backlog[k] \/ backlog'[k] = Append(backlog[k], BlockMessage(n, cli[n].block))
        BY <1>1, <2>4 DEF SendBlock, connectTo
      <3>3. QED
        BY <1>2, <1>3, <3>1, <3>2, Requests
    <2>5. CASE NotifyRecipient(n)
      <3>1. cli[n].block \in Block
        BY <2>1, <2>5 DEF NotifyRecipient, ClientOK
      <3>2. \/ backlog'[k] = backlog[k]
            \/ backlog'[k] = Append(backlog[k], BlockchainErrorMessage(n, cli[n].block))
        BY <1>1, <2>5 DEF NotifyRecipient, connectTo
      <3>3. QED
        BY <1>2, <1>3, <3>1, <3>2, Requests
    <2>6. QED
      BY <1>2, <1>8, <2>2, <2>3, <2>4, <2>5
         DEF ClientStep, SendTextLost, TextAnswered, AddChatPeer, SkipPeer, BlockAnswered, BlockAnswerCut,
             CheckOwnBlock, InsertOwnBlock, Rollback
  <1>9. UNCHANGED vars => Kept
    BY <1>2 DEF vars
  <1> HIDE DEF Kept
  <1>10. QED
    BY <1>5, <1>6, <1>7, <1>8, <1>9 DEF Next, Kept

\* Every step keeps withdrawn messages out of their sender's table.
LEMMA WithdrawStep ==
    ASSUME IInv, SocketsInv, UniqueInv, \A n \in Nodes : SentOK(n) /\ WithdrawOK(n), [Next]_vars,
           NEW k \in Nodes
    PROVE  WithdrawOK(k)'
  <1>1. SUFFICES ASSUME NEW i \in DOMAIN backlog'[k], NEW q, q = backlog'[k][i],
                        q.type = "BLOCKCHAIN_ERROR_RESPONSE"
                 PROVE  cli'[q.from].msg # q.block.hash /\ ~hasSent(q.from, q.block.hash)'
    BY DEF WithdrawOK, hasSent
  <1>2. None \notin Msgs /\ Idle.msg = None /\ Idle.pc = "idle"
    BY ChainAssumption DEF Idle
  <1>3. ASSUME NEW n \in Nodes, NotifyRecipient(n), q = BlockchainErrorMessage(n, cli[n].block)
        PROVE  cli'[q.from].msg # q.block.hash /\ ~hasSent(q.from, q.block.hash)'
    <2>1. q.from = n /\ q.block = cli[n].block
      BY <1>3 DEF BlockchainErrorMessage
    <2>2. cli[n].pc = "notify" /\ cli'[n] = Idle /\ up[n]
      BY <1>3, BroadcastFields DEF NotifyRecipient
    <2>3. q.block.hash = cli[n].msg /\ cli[n].msg \in Msgs
      BY <2>1, <2>2 DEF IInv, ClientOK
    <2>4. PICK h \in Msgs : h = q.block.hash
      BY <2>3
    <2>5. ~hasSent(n, h)
      BY <2>2, <2>3, <2>4 DEF SentOK
    <2>6. ~TextAnswered(n)
      BY <2>2 DEF TextAnswered
    <2>7. ~hasSent(n, h)'
      BY <2>5, <2>6, SentStep
    <2>8. QED
      BY <1>2, <2>1, <2>2, <2>4, <2>7
  <1>4. ASSUME NEW j \in DOMAIN backlog[k], q = backlog[k][j]
        PROVE  cli'[q.from].msg # q.block.hash /\ ~hasSent(q.from, q.block.hash)'
    <2>1. RequestOK(k, q) /\ q.from \in Nodes
      BY <1>4, QueueType DEF IInv, RequestsOK
    <2>2. q.block \in Block /\ q.block.hash \in Msgs /\ blockSeen(q.block)
      BY <1>1, <1>4, <2>1 DEF RequestOK, blockSeen
    <2>3. PICK h \in Msgs, f \in Nodes : h = q.block.hash /\ f = q.from
      BY <2>1, <2>2
    <2>4. cli[f].msg # h /\ ~hasSent(f, h) /\ h \notin fresh
      BY <1>1, <1>4, <2>2, <2>3 DEF WithdrawOK, UniqueInv
    <2>5. ~hasSent(f, h)'
      BY <2>4, SentStep
    <2>6. cli'[f].msg # h
      <3>1. CASE cli'[f].pc = "idle"
        BY <1>2, <3>1, SocketStep DEF SocketOK
      <3>2. CASE cli'[f].pc # "idle"
        <4>1. Types(f, [id |-> cli'[f].msg, from |-> f, to |-> cli'[f].to]) => cli'[f].msg \in fresh
          BY DEF Types
        <4>2. QED
          BY <2>4, <3>2, <4>1, ClientOrigin DEF sameSend, Makes
      <3>3. QED
        BY <3>1, <3>2
    <2>7. QED
      BY <2>3, <2>5, <2>6
  <1>5. ASSUME NEW n, NEW b, q = TextMessage(n, b) \/ q = BlockMessage(n, b)
        PROVE  FALSE
    <2>1. q.type \in {"TEXT_MESSAGE", "BLOCK"}
      BY <1>5 DEF TextMessage, BlockMessage
    <2>2. QED
      BY <1>1, <2>1
  <1>6. QED
    BY <1>1, <1>3, <1>4, <1>5, RequestOrigin

\* A message stored by its recipient is not lost while its sender has not
\* withdrawn it.
LEMMA RecipientKeeps ==
    ASSUME IInv, UniqueInv, \A n \in Nodes : WithdrawOK(n), [Next]_vars,
           NEW p \in Nodes, NEW r \in messages[p], r.to = p,
           cli[r.from].msg = r.id \/ hasSent(r.from, r.id)
    PROVE  r \in messages'[p]
  <1>1. r \in Row /\ rowSeen(r)
    BY DEF IInv, TypeOK, rowSeen
  <1>2. r.to \in Peers[r.from] /\ r.from # p /\ r.from \in Nodes
    BY <1>1, NetworkAssumption DEF UniqueInv, Row
  <1>3. ~(Rollback(p) /\ r.id = cli[p].msg)
    <2>1. SUFFICES ASSUME Rollback(p), r.id = cli[p].msg PROVE FALSE
      OBVIOUS
    <2>2. cli[p].pc # "idle"
      BY <2>1 DEF Rollback
    <2>3. r = rowOf(p)
      BY <1>1, <2>1, <2>2, SendingSeen, RowOfType DEF UniqueInv
    <2>4. QED
      BY <1>2, <2>2, <2>3, RowOfType
  <1>4. ~(HandleBlockchainError(p) /\ r.id = request(p).block.hash)
    <2>1. SUFFICES ASSUME HandleBlockchainError(p), r.id = request(p).block.hash PROVE FALSE
      OBVIOUS
    <2>2. r.from = request(p).from
      BY <2>1, WithdrawalOfSender
    <2>3. 1 \in DOMAIN backlog[p] /\ request(p) = backlog[p][1]
          /\ request(p).type = "BLOCKCHAIN_ERROR_RESPONSE"
      BY <2>1, TailOfQueue DEF HandleBlockchainError, serving, IInv, TypeOK, request
    <2>4. cli[r.from].msg # r.id /\ ~hasSent(r.from, r.id)
      BY <2>1, <2>2, <2>3 DEF WithdrawOK
    <2>5. QED
      BY <2>4
  <1>5. QED
    BY <1>3, <1>4, RowKept

\* Nobody crashes in a step after which everybody runs.
LEMMA NobodyCrashes ==
    ASSUME IInv, [Next]_vars, \A n \in Nodes : up'[n]
    PROVE  \A n \in Nodes : up[n] /\ ~Crash(n)
  BY UpShrinks

\* Who gets an answer to a text message can rely on it being stored, unless only a
\* part of it was read.
LEMMA TextAnswerStored ==
    ASSUME IInv, SocketsInv, \A n \in Nodes : DeliveredOK(n), [Next]_vars, NEW k \in Nodes,
           \A n \in Nodes : ~Crash(n),
           cli[k].pc = "waitText", cli'[k] # cli[k], ~ClientStep(k),
           fits(cli[k].msg), {k, cli[k].to} \cap BadKeys = {}
    PROVE  \/ rowOf(k) \in messages[cli[k].to] /\ messages' = messages
           \/ nowCut("TEXT_MESSAGE", cli[k].to, cli[k].msg)
  <1>1. cli[k].dst = cli[k].to /\ cli[k].block.hash = cli[k].msg /\ cli[k].msg \in Msgs
    BY DEF SocketsInv, SocketOK, IInv, ClientOK
  <1>2. ASSUME NEW n \in Nodes, NEW m \in Msgs, NEW p \in Nodes,
               Connect(n, m, p) \/ ConnectFails(n, m, p)
        PROVE  FALSE
    BY <1>2 DEF Connect, ConnectFails, IInv, TypeOK
  <1>3. PICK n \in Nodes : ServerStep(n)
    BY <1>2, ClientStepLocal DEF Next, vars
  <1>4. PICK a : /\ answerWith(n, a) /\ backlog[n] # << >>
                 /\ request(n).type \in {"TEXT_MESSAGE", "BLOCK"}
    BY <1>3, ServerStepLocal
  <1>5. /\ k = request(n).from /\ cli[k].to = n /\ request(n).block = cli[k].block
        /\ request(n).type = "TEXT_MESSAGE"
    <2>1. /\ k = request(n).from /\ cli[k].dst = n /\ request(n).block = cli[k].block
          /\ cli[k].pc = IF request(n).type = "TEXT_MESSAGE" THEN "waitText" ELSE "waitBlock"
      BY <1>4, AnsweredClient
    <2>2. QED
      BY <1>1, <2>1
  <1> DEFINE r == [id |-> request(n).block.hash, from |-> request(n).from, to |-> n]
  <1>6. r = rowOf(k) /\ r.id = cli[k].msg /\ r.from = k /\ r.to = n
    BY <1>1, <1>5 DEF rowOf
  <1>7. fits(r.id) /\ readable(n, messageJson(r), FALSE)
    BY <1>5, <1>6, ReadableIfKeysFit
  <1>8. ~HandleTextMessage(n)
    <2>1. SUFFICES ASSUME HandleTextMessage(n) PROVE FALSE
      OBVIOUS
    <2>2. cli' = cli
      BY <1>7, <2>1 DEF HandleTextMessage
    <2>3. QED
      BY <2>2
  <1>9. AnswerTextMessage(n) \/ ReceivePart(n)
    BY <1>3, <1>5, <1>8 DEF ServerStep, ValidateBlock, CheckBlock, InsertBlock,
       HandleBlockchainError, DropClosed, serving
  <1>10. CASE ReceivePart(n)
    <2>1. [type |-> "TEXT_MESSAGE", at |-> n, block |-> cli[k].block] \in cut'
      BY <1>5, <1>10 DEF ReceivePart, readPart
    <2>2. QED
      BY <1>1, <1>5, <2>1 DEF nowCut
  <1>11. SUFFICES ASSUME AnswerTextMessage(n)
                  PROVE  rowOf(k) \in messages[cli[k].to] /\ messages' = messages
    BY <1>9, <1>10
  <1>12. srv[n] = "addChat" /\ messages' = messages
    BY <1>11 DEF AnswerTextMessage
  <1>13. QED
    BY <1>5, <1>6, <1>12 DEF DeliveredOK

\* Every step keeps what is known of delivered messages.
LEMMA DeliveredStep ==
    ASSUME IInv, SocketsInv, UniqueInv, \A n \in Nodes : WithdrawOK(n) /\ DeliveredOK(n),
           [Next]_vars, \A n \in Nodes : up'[n], NEW k \in Nodes
    PROVE  DeliveredOK(k)'
  <1>1. \A n \in Nodes : up[n] /\ ~Crash(n)
    BY NobodyCrashes
  <1>2. messages \in [Nodes -> SUBSET Row] /\ DeliveredOK(k) /\ SocketOK(k)
    BY DEF IInv, TypeOK, SocketsInv
  <1>3. ASSUME srv'[k] = "addChat"
        PROVE  [id |-> request(k)'.block.hash, from |-> request(k)'.from, to |-> k] \in messages'[k]
    <2> DEFINE r == [id |-> request(k).block.hash, from |-> request(k).from, to |-> k]
    <2>1. CASE HandleTextMessage(k)
      <3>1. srv[k] = "accept"
        BY <2>1 DEF HandleTextMessage
      <3>2. backlog' = backlog /\ r \in messages'[k]
        BY <1>2, <1>3, <2>1, <3>1 DEF HandleTextMessage
      <3>3. QED
        BY <3>2 DEF request
    <2>2. CASE ServerStep(k) /\ ~HandleTextMessage(k)
      <3>1. srv[k] = "addChat" /\ ~AnswerTextMessage(k)
        BY <1>3, <2>2 DEF ServerStep, AnswerTextMessage, ValidateBlock, CheckBlock,
           InsertBlock, HandleBlockchainError, DropClosed, ReceivePart, IInv, TypeOK
      <3>2. request(k).type = "TEXT_MESSAGE"
        BY <3>1 DEF SocketsInv, HandlerOK
      <3>3. QED
        BY <2>2, <3>1, <3>2 DEF ServerStep, ValidateBlock, CheckBlock, InsertBlock,
           HandleBlockchainError, DropClosed, ReceivePart, serving
    <2>3. CASE ~ServerStep(k)
      <3>1. srv[k] = "addChat" /\ request(k)' = request(k)
        BY <1>3, <2>3, HandlerMoves, HandlerStep
      <3>2. r \in messages[k] /\ backlog[k] # << >> /\ request(k).type = "TEXT_MESSAGE"
        BY <1>2, <3>1 DEF DeliveredOK, SocketsInv, HandlerOK
      <3>3. awaited(k, request(k))
        <4>1. /\ 1 \in DOMAIN backlog[k] /\ request(k) = backlog[k][1]
              /\ request(k).from \in Nodes
          BY <3>2, TailOfQueue, ServedRequest DEF IInv, TypeOK, request
        <4>2. QED
          BY <1>1, <3>2, <4>1 DEF SocketsInv, QueueOK, live
      <3>4. cli[request(k).from].msg = r.id
        BY <3>2, <3>3, ServedRequest DEF awaited, IInv, ClientOK
      <3>5. r.to = k /\ r.from = request(k).from
        OBVIOUS
      <3> HIDE DEF r
      <3>6. r \in messages'[k]
        BY <3>2, <3>4, <3>5, RecipientKeeps
      <3>7. QED
        BY <3>1, <3>6 DEF r
    <2>4. QED
      BY <2>1, <2>2, <2>3
  <1>4. ASSUME cli'[k].pc = "waitText", cli'[k].reply # "none", fits(cli'[k].msg),
               {k, cli'[k].to} \cap BadKeys = {}
        PROVE  \/ [id |-> cli'[k].msg, from |-> k, to |-> cli'[k].to] \in messages'[cli'[k].to]
               \/ nowCut("TEXT_MESSAGE", cli'[k].to, cli'[k].msg)
    <2>1. cli'[k] # Idle /\ \A m, p : ~Connect(k, m, p)
      BY <1>4, ConnectFields DEF Idle
    <2>2. ~ClientStep(k)
      <3>1. SUFFICES ASSUME ClientStep(k) PROVE FALSE
        OBVIOUS
      <3>2. ~SendText(k)
        <4>1. SUFFICES ASSUME SendText(k) PROVE FALSE
          OBVIOUS
        <4>2. cli[k] \in Client /\ cli[k].reply = "none"
          BY <1>2, <4>1 DEF SendText, SocketOK, IInv, TypeOK
        <4> DEFINE b == createBlockFromMessage(chain[k], k, cli[k].msg)
        <4>3. cli'[k] = [cli[k] EXCEPT !.pc = "waitText", !.block = b]
          BY <4>1 DEF SendText, IInv, TypeOK
        <4> HIDE DEF b
        <4>4. cli'[k].reply = "none"
          BY <4>2, <4>3 DEF Client
        <4>5. QED
          BY <1>4, <4>4
      <3>3. ~SendTextLost(k)
        <4>1. cli[k].pc = "connected" => cli[k].to \in Nodes
          BY DEF IInv, ClientOK
        <4>2. QED
          BY <1>1, <4>1 DEF SendTextLost
      <3>4. ~(TextAnswered(k) \/ AddChatPeer(k))
        BY <1>4, ClientFields
      <3>5. \A p \in Nodes : ~(SendBlock(k, p) \/ SkipPeer(k, p))
        BY <1>4, BroadcastFields
      <3>6. ~(MessageTooBig(k) \/ BlockAnswered(k) \/ BlockAnswerCut(k) \/ CheckOwnBlock(k)
              \/ InsertOwnBlock(k) \/ Rollback(k) \/ NotifyRecipient(k))
        BY <1>4, <2>1, BroadcastFields
      <3>7. QED
        BY <3>1, <3>2, <3>3, <3>4, <3>5, <3>6 DEF ClientStep
    <2>3. CASE cli'[k] = cli[k]
      <3>1. CASE wasCut("TEXT_MESSAGE", cli[k].to, cli[k].msg)
        BY <2>3, <3>1, CutGrows
      <3>2. SUFFICES ASSUME rowOf(k) \in messages[cli[k].to]
                     PROVE  rowOf(k) \in messages'[cli[k].to]
        BY <1>2, <1>4, <2>3, <3>1 DEF DeliveredOK, rowOf
      <3>3. cli[k].to \in Nodes /\ rowOf(k).to = cli[k].to /\ rowOf(k).from = k
            /\ rowOf(k).id = cli[k].msg
        BY <1>4, <2>3, RowOfType DEF IInv, ClientOK
      <3>4. QED
        BY <3>2, <3>3, RecipientKeeps
    <2>4. CASE /\ cli[k].pc \in {"waitText", "waitBlock"} /\ cli'[k] # cli[k]
               /\ cli'[k].pc = cli[k].pc /\ sameSend(k)
      <3>1. \/ rowOf(k) \in messages[cli[k].to] /\ messages' = messages
            \/ nowCut("TEXT_MESSAGE", cli[k].to, cli[k].msg)
        BY <1>1, <1>4, <2>2, <2>4, TextAnswerStored DEF sameSend
      <3>2. QED
        BY <2>4, <3>1 DEF sameSend, rowOf
    <2>5. QED
      BY <2>1, <2>2, <2>3, <2>4, ClientMoves
  <1>5. QED
    BY <1>3, <1>4 DEF DeliveredOK, rowOf, wasCut, nowCut

\* Every step keeps withdrawals and deliveries consistent.
LEMMA DeliveryStep ==
    ASSUME IInv, SocketsInv, UniqueInv, \A n \in Nodes : SentOK(n), DeliveryInv, [Next]_vars
    PROVE  DeliveryInv'
  <1>1. \A n \in Nodes : WithdrawOK(n)'
    BY WithdrawStep DEF DeliveryInv
  <1>2. ASSUME \A n \in Nodes : up'[n], NEW k \in Nodes
        PROVE  DeliveredOK(k)'
    <2>1. \A n \in Nodes : up[n]
      BY <1>2, NobodyCrashes
    <2>2. \A n \in Nodes : WithdrawOK(n) /\ DeliveredOK(n)
      BY <2>1 DEF DeliveryInv
    <2>3. QED
      BY <1>2, <2>2, DeliveredStep
  <1>3. QED
    BY <1>1, <1>2 DEF DeliveryInv

\* A message whose withdrawal is on the way is gone at its sender; and while
\* nobody has crashed, an answered message that can be read there, and was read
\* there in full, is stored at its recipient.
THEOREM DeliveryAlways == Spec => []DeliveryInv
  <1>1. Init => DeliveryInv
    <2>1. SUFFICES ASSUME Init, NEW n \in Nodes PROVE WithdrawOK(n) /\ DeliveredOK(n)
      BY DEF DeliveryInv
    <2>2. backlog[n] = << >> /\ srv[n] = "accept" /\ cli[n].pc = "idle"
      BY <2>1 DEF Init, Idle
    <2>3. DOMAIN backlog[n] = {}
      BY <2>2
    <2>4. QED
      BY <2>2, <2>3 DEF WithdrawOK, DeliveredOK
  <1>2. /\ IInv /\ SocketsInv /\ UniqueInv /\ (\A n \in Nodes : SentOK(n)) /\ DeliveryInv
        /\ [Next]_vars
        => DeliveryInv'
    BY DeliveryStep
  <1>3. QED
    BY <1>1, <1>2, Inductive, SocketsAlways, UniqueAlways, SentAlways, PTL DEF Spec

\* The sender's half of a message that its recipient n holds.
accountedFor(n, r) ==
    \/ r \in messages[r.from]
    \/ cli[r.from].msg = r.id
    \/ \E i \in DOMAIN backlog[n] :
           /\ backlog[n][i].type = "BLOCKCHAIN_ERROR_RESPONSE"
           /\ backlog[n][i].block.hash = r.id
    \/ wasCut("BLOCKCHAIN_ERROR_RESPONSE", n, r.id)

\* A message held at both ends, or being sent, is held at the sender's, or being
\* sent, or withdrawn after the next step.
LEMMA SenderStep ==
    ASSUME IInv, SocketsInv, UniqueInv, \A n \in Nodes : SentOK(n), [Next]_vars,
           \A n \in Nodes : up[n] /\ ~Crash(n),
           NEW k \in Nodes, NEW r \in messages[k], r.to = k,
           r \in messages[r.from] \/ cli[r.from].msg = r.id
    PROVE  accountedFor(k, r)'
  <1>1. r \in Row /\ rowSeen(r)
    BY DEF IInv, TypeOK, rowSeen
  <1>2. PICK f \in Nodes : f = r.from
    BY <1>1 DEF Row
  <1>3. f # k /\ r.id \in Msgs /\ None \notin Msgs /\ Idle.msg = None
    BY <1>1, <1>2, NetworkAssumption, ChainAssumption DEF UniqueInv, Row, Idle
  <1>4. ASSUME \/ r \in messages'[f]
               \/ cli'[f].msg = r.id
               \/ \E i \in DOMAIN backlog'[k] :
                      /\ backlog'[k][i].type = "BLOCKCHAIN_ERROR_RESPONSE"
                      /\ backlog'[k][i].block.hash = r.id
        PROVE  accountedFor(k, r)'
    BY <1>2, <1>4 DEF accountedFor
  <1>5. CASE r \in messages[f] /\ r \notin messages'[f]
    <2>1. ~(HandleBlockchainError(f) /\ r.id = request(f).block.hash)
      BY <1>3, <1>5, WithdrawalOfSender
    <2>2. Rollback(f) /\ r.id = cli[f].msg
      BY <1>5, <2>1, RowKept
    <2>3. cli'[f].msg = cli[f].msg
      BY <2>2, BroadcastFields DEF sameSend
    <2>4. QED
      BY <1>4, <2>2, <2>3
  <1>6. CASE cli[f].msg = r.id
    <2>1. CASE cli'[f].msg = cli[f].msg
      BY <1>4, <1>6, <2>1
    <2>2. ASSUME NEW m, NEW p, Connect(f, m, p) PROVE FALSE
      BY <1>3, <1>6, <2>2, ConnectFields
    <2>3. CASE ClientStep(f) /\ cli'[f].msg # cli[f].msg
      <3>1. cli[f].pc # "connected"
        BY <1>1, <1>6 DEF UniqueInv
      <3>2. ~(SendText(f) \/ SendTextLost(f) \/ MessageTooBig(f))
        BY <3>1 DEF SendText, SendTextLost, MessageTooBig
      <3>3. ~(TextAnswered(f) \/ AddChatPeer(f))
        BY <2>3, ClientFields DEF sameSend
      <3>4. \A p \in Nodes : ~(SendBlock(f, p) \/ SkipPeer(f, p))
        BY <2>3, BroadcastFields DEF sameSend
      <3>5. ~(BlockAnswered(f) \/ BlockAnswerCut(f) \/ CheckOwnBlock(f) \/ Rollback(f))
        BY <2>3, BroadcastFields DEF sameSend
      <3>6. CASE InsertOwnBlock(f)
        <4>1. cli[f].pc = "insert" /\ messages' = messages
          BY <3>6 DEF InsertOwnBlock
        <4>2. hasSent(f, r.id)
          BY <1>3, <1>6, <4>1 DEF SentOK
        <4>3. PICK s \in messages[f] : s.id = r.id
          BY <4>2 DEF hasSent
        <4>4. s \in Row /\ rowSeen(s)
          BY DEF IInv, TypeOK, rowSeen
        <4>5. s = r
          BY <1>1, <4>3, <4>4 DEF UniqueInv
        <4>6. QED
          BY <1>4, <4>1, <4>5
      <3>7. CASE NotifyRecipient(f)
        <4>1. cli[f].pc = "notify" /\ ClientOK(f) /\ cli[f].pc # "idle"
          BY <3>7 DEF NotifyRecipient, IInv
        <4>2. r = rowOf(f)
          BY <1>1, <1>6, <4>1, SendingSeen, RowOfType DEF UniqueInv
        <4>3. cli[f].to = k
          BY <4>1, <4>2, RowOfType
        <4>4. cli[f].block \in Block /\ cli[f].block.hash = r.id
          BY <1>6, <4>1 DEF ClientOK
        <4>5. backlog'[k] = Append(backlog[k], BlockchainErrorMessage(f, cli[f].block))
          BY <3>7, <4>3 DEF NotifyRecipient, connectTo, IInv, TypeOK
        <4>6. PICK x \in DOMAIN backlog'[k] :
                  backlog'[k][x] = BlockchainErrorMessage(f, cli[f].block)
          BY <4>4, <4>5, AppendedLast, Requests
        <4>7. /\ backlog'[k][x].type = "BLOCKCHAIN_ERROR_RESPONSE"
              /\ backlog'[k][x].block.hash = r.id
          BY <4>4, <4>6 DEF BlockchainErrorMessage
        <4>8. QED
          BY <1>4, <4>7
      <3>8. QED
        BY <2>3, <3>2, <3>3, <3>4, <3>5, <3>6, <3>7 DEF ClientStep
    <2>4. QED
      BY <2>1, <2>2, <2>3, ClientMoves DEF sameSend
  <1>7. QED
    BY <1>2, <1>4, <1>5, <1>6

\* Every step keeps the two ends of a message in agreement.
LEMMA BothEndsStep ==
    ASSUME IInv, SocketsInv, UniqueInv, \A n \in Nodes : SentOK(n) /\ ShownOK(n), DeliveryInv,
           WithdrawnAtBothEnds, [Next]_vars
    PROVE  WithdrawnAtBothEnds'
  <1>1. SUFFICES ASSUME \A n \in Nodes : up'[n], NEW k \in Nodes, NEW r \in messages'[k]
                 PROVE  /\ r.to = k => accountedFor(k, r)'
                        /\ r.from = k /\ fits(r.id) /\ {k, r.to} \cap BadKeys = {} =>
                               r \in messages'[r.to] \/ wasCut("TEXT_MESSAGE", r.to, r.id)'
    BY DEF WithdrawnAtBothEnds, accountedFor
  <1>2. \A n \in Nodes : up[n] /\ ~Crash(n)
    BY <1>1, NobodyCrashes
  <1>3. \A n \in Nodes : WithdrawOK(n) /\ DeliveredOK(n)
    BY <1>2 DEF DeliveryInv
  <1>4. \A n \in Nodes : \A s \in messages[n] :
            /\ s.to = n => accountedFor(n, s)
            /\ s.from = n /\ fits(s.id) /\ {n, s.to} \cap BadKeys = {} =>
                   s \in messages[s.to] \/ wasCut("TEXT_MESSAGE", s.to, s.id)
    BY <1>2 DEF WithdrawnAtBothEnds, accountedFor
  <1>5. ASSUME r.to = k PROVE accountedFor(k, r)'
    <2>1. CASE r \in messages[k]
      <3>1. accountedFor(k, r)
        BY <1>4, <1>5, <2>1
      <3>2. CASE r \in messages[r.from] \/ cli[r.from].msg = r.id
        BY <1>2, <1>5, <2>1, <3>2, SenderStep
      <3>3. ASSUME NEW i \in DOMAIN backlog[k],
                   backlog[k][i].type = "BLOCKCHAIN_ERROR_RESPONSE", backlog[k][i].block.hash = r.id
            PROVE  accountedFor(k, r)'
        <4>0. CASE ReceivePart(k) /\ backlog[k][i] = request(k)
          <5>1. [type |-> "BLOCKCHAIN_ERROR_RESPONSE", at |-> k, block |-> request(k).block] \in cut'
            BY <3>3, <4>0 DEF ReceivePart, readPart
          <5>2. QED
            BY <3>3, <4>0, <5>1 DEF accountedFor, wasCut
        <4>1. ~ReceivePart(k) => ~(ServerStep(k) /\ backlog[k][i] = request(k))
          <5>1. SUFFICES ASSUME ServerStep(k), ~ReceivePart(k), backlog[k][i] = request(k)
                         PROVE  FALSE
            OBVIOUS
          <5>2. HandleBlockchainError(k)
            BY <3>3, <5>1 DEF ServerStep, HandleTextMessage, AnswerTextMessage, ValidateBlock,
               CheckBlock, InsertBlock, DropClosed, serving
          <5>3. messages'[k] = {x \in messages[k] : x.id # request(k).block.hash}
            BY <5>2 DEF HandleBlockchainError, removeMessageByBlockHashOrId, IInv, TypeOK
          <5>4. QED
            BY <1>1, <3>3, <5>1, <5>3
        <4>2. ASSUME NEW j \in DOMAIN backlog'[k], backlog'[k][j] = backlog[k][i]
              PROVE  accountedFor(k, r)'
          BY <3>3, <4>2 DEF accountedFor
        <4>3. QED
          BY <1>1, <3>3, <4>0, <4>1, <4>2, RequestKept
      <3>4. wasCut("BLOCKCHAIN_ERROR_RESPONSE", k, r.id) => accountedFor(k, r)'
        BY CutGrows DEF accountedFor
      <3>5. QED
        BY <3>1, <3>2, <3>3, <3>4 DEF accountedFor
    <2>2. CASE TextAnswered(k) /\ r = rowOf(k)
      <3>1. r.to = cli[k].to /\ cli[k].to # k
        BY <2>2, RowOfType DEF TextAnswered, IInv, ClientOK
      <3>2. QED
        BY <1>5, <3>1
    <2>3. CASE /\ HandleTextMessage(k) /\ cli' = cli
               /\ r = [id |-> request(k).block.hash, from |-> request(k).from, to |-> k]
      <3>1. backlog[k] # << >> /\ request(k).type = "TEXT_MESSAGE"
        BY <2>3 DEF HandleTextMessage, serving
      <3>2. /\ 1 \in DOMAIN backlog[k] /\ request(k) = backlog[k][1] /\ request(k).from \in Nodes
        BY <3>1, TailOfQueue, ServedRequest DEF IInv, TypeOK, request
      <3>3. awaited(k, request(k))
        BY <1>2, <3>1, <3>2 DEF SocketsInv, QueueOK, live
      <3>4. cli[request(k).from].msg = request(k).block.hash
        BY <3>1, <3>2, <3>3 DEF awaited, IInv, ClientOK
      <3>5. cli'[r.from].msg = r.id
        BY <2>3, <3>4
      <3>6. QED
        BY <3>5 DEF accountedFor
    <2>4. QED
      BY <2>1, <2>2, <2>3, RowOrigin
  <1>6. ASSUME r.from = k, fits(r.id), {k, r.to} \cap BadKeys = {}
        PROVE  r \in messages'[r.to] \/ wasCut("TEXT_MESSAGE", r.to, r.id)'
    <2>1. CASE r \in messages[k]
      <3>1. /\ r \in messages[r.to] \/ wasCut("TEXT_MESSAGE", r.to, r.id)
            /\ r \in Row
        BY <1>4, <1>6, <2>1 DEF IInv, TypeOK
      <3>2. hasSent(r.from, r.id) /\ r.to \in Nodes
        BY <1>6, <2>1, <3>1 DEF hasSent, Row
      <3>3. QED
        BY <1>3, <3>1, <3>2, CutGrows, RecipientKeeps
    <2>2. CASE TextAnswered(k) /\ r = rowOf(k)
      <3>1. /\ cli[k].pc = "waitText" /\ cli[k].reply # "none" /\ ClientStep(k)
            /\ cli[k].to \in Nodes \ {k} /\ r.to = cli[k].to /\ r.id = cli[k].msg
        BY <2>2, ClientFields, RowOfType DEF ClientStep, IInv, ClientOK
      <3>2. r \in messages[cli[k].to] \/ wasCut("TEXT_MESSAGE", cli[k].to, cli[k].msg)
        BY <1>3, <1>6, <2>2, <3>1 DEF DeliveredOK
      <3>3. messages'[cli[k].to] = messages[cli[k].to]
        BY <3>1, ClientStepLocal
      <3>4. QED
        BY <3>1, <3>2, <3>3, CutGrows
    <2>3. CASE /\ HandleTextMessage(k)
               /\ r = [id |-> request(k).block.hash, from |-> request(k).from, to |-> k]
      <3>1. request(k).from # k
        BY <2>3, ServedRequest DEF HandleTextMessage, serving
      <3>2. QED
        BY <1>6, <2>3, <3>1
    <2>4. QED
      BY <2>1, <2>2, <2>3, RowOrigin
  <1>7. QED
    BY <1>5, <1>6

\* While no node has crashed, the two ends of a chat agree in the end: what the
\* recipient holds the sender holds or is sending, or its withdrawal is on the
\* way or was read in part; and what the sender has kept the recipient holds, if it
\* can read it and has read all of it.  No order of sends, answers, rollbacks and
\* notices loses a withdrawal.
THEOREM WithdrawnAtBothEndsAlways == Spec => []WithdrawnAtBothEnds
  <1>1. Init => WithdrawnAtBothEnds
    BY DEF Init, WithdrawnAtBothEnds
  <1>2. /\ IInv /\ SocketsInv /\ UniqueInv /\ (\A n \in Nodes : SentOK(n))
        /\ (\A n \in Nodes : ShownOK(n)) /\ DeliveryInv /\ WithdrawnAtBothEnds /\ [Next]_vars
        => WithdrawnAtBothEnds'
    BY BothEndsStep
  <1>3. QED
    BY <1>1, <1>2, Inductive, SocketsAlways, UniqueAlways, SentAlways, ShownAlways,
       DeliveryAlways,
       PTL DEF Spec
=============================================================================
