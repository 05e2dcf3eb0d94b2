----------------------------- MODULE DChatProofs -----------------------------
(***************************************************************************)
(* Proofs about DChat, for any set of nodes, messages, peer lists, keys,   *)
(* clocks, message lengths and number of crashes and messages read in part.*)
(***************************************************************************)
EXTENDS DChat, SequenceTheorems, TLAPS

-----------------------------------------------------------------------------
(* Tables.                                                                 *)

\* Appending a block keeps the rows of a table and adds one at its end.
LEMMA AppendBlock ==
    ASSUME NEW t \in Seq(Block), NEW b \in Block
    PROVE  /\ Append(t, b) \in Seq(Block)
           /\ DOMAIN Append(t, b) = 1..(Len(t) + 1)
           /\ DOMAIN t = 1..Len(t)
           /\ Len(t) \in Nat
           /\ \A i \in DOMAIN t : Append(t, b)[i] = t[i]
           /\ Append(t, b)[Len(t) + 1] = b
           /\ hashes(Append(t, b)) = hashes(t) \cup {b.hash}
  <1>1. /\ Append(t, b) \in Seq(Block)
        /\ Len(Append(t, b)) = Len(t) + 1
        /\ \A i \in 1..Len(t) : Append(t, b)[i] = t[i]
        /\ Append(t, b)[Len(t) + 1] = b
    BY AppendProperties
  <1>2. DOMAIN t = 1..Len(t) /\ Len(t) \in Nat /\ DOMAIN Append(t, b) = 1..(Len(t) + 1)
    BY <1>1, LenProperties
  <1>3. hashes(Append(t, b)) = hashes(t) \cup {b.hash}
    <2>1. ASSUME NEW h \in hashes(Append(t, b))
          PROVE  h \in hashes(t) \cup {b.hash}
      <3>1. PICK i \in DOMAIN Append(t, b) : h = Append(t, b)[i].hash
        BY DEF hashes
      <3>2. CASE i = Len(t) + 1
        BY <1>1, <3>1, <3>2
      <3>3. CASE i \in DOMAIN t
        BY <1>1, <1>2, <3>1, <3>3 DEF hashes
      <3>4. QED
        BY <1>2, <3>2, <3>3
    <2>2. ASSUME NEW h \in hashes(t) \cup {b.hash}
          PROVE  h \in hashes(Append(t, b))
      <3>1. CASE h \in hashes(t)
        <4>1. PICK i \in DOMAIN t : h = t[i].hash
          BY <3>1 DEF hashes
        <4>2. i \in DOMAIN Append(t, b) /\ Append(t, b)[i].hash = h
          BY <1>1, <1>2, <4>1
        <4>3. QED
          BY <4>2 DEF hashes
      <3>2. CASE h = b.hash
        <4>1. Len(t) + 1 \in DOMAIN Append(t, b) /\ Append(t, b)[Len(t) + 1].hash = h
          BY <1>1, <1>2, <3>2
        <4>2. QED
          BY <4>1 DEF hashes
      <3>3. QED
        BY <3>1, <3>2
    <2>3. QED
      BY <2>1, <2>2
  <1>4. QED
    BY <1>1, <1>2, <1>3

\* A block record has its fields, and its hash is never "0".
LEMMA BlockFields ==
    ASSUME NEW b \in Block
    PROVE  b.hash \in Hash /\ b.hash # NoHash /\ b.author \in Nodes
  BY ChainAssumption DEF Block

\* No stored block has the hash "0", so a tip "0" means an empty table.
LEMMA HashesOfTable ==
    ASSUME NEW t \in Seq(Block)
    PROVE  /\ NoHash \notin hashes(t)
           /\ \A i \in DOMAIN t : t[i] \in Block
           /\ findTip(t) \in hashes(t) \cup {NoHash}
           /\ findTip(t) = NoHash => t = << >>
  <1>1. DOMAIN t = 1..Len(t) /\ Len(t) \in Nat /\ \A i \in DOMAIN t : t[i] \in Block
    BY LenProperties, ElementOfSeq
  <1>2. NoHash \notin hashes(t)
    BY <1>1, BlockFields DEF hashes
  <1>3. CASE t = << >>
    BY <1>1, <1>2, <1>3 DEF findTip
  <1>4. CASE t # << >>
    <2>1. Len(t) \in DOMAIN t
      BY <1>1, <1>4, EmptySeq
    <2>2. findTip(t) = t[Len(t)].hash
      BY <1>4 DEF findTip
    <2>3. findTip(t) \in hashes(t)
      BY <2>1, <2>2 DEF hashes
    <2>4. QED
      BY <1>1, <1>2, <2>3
  <1>5. QED
    BY <1>3, <1>4

\* Nothing in a well-formed table extends its tip.
LEMMA TipHasNoChild ==
    ASSUME TypeOK, NEW n \in Nodes, TableOK(n)
    PROVE  \A i \in DOMAIN chain[n] : chain[n][i].previousHash # findTip(chain[n])
  <1> DEFINE t == chain[n]
  <1>1. t \in Seq(Block)
    BY DEF TypeOK
  <1>2. DOMAIN t = 1..Len(t) /\ Len(t) \in Nat
    BY <1>1, LenProperties
  <1>3. SUFFICES ASSUME NEW i \in DOMAIN t, t[i].previousHash = findTip(t)
                 PROVE  FALSE
    OBVIOUS
  <1>4. t # << >>
    BY <1>2, EmptySeq
  <1>5. Len(t) \in DOMAIN t /\ findTip(t) = t[Len(t)].hash /\ findTip(t) # NoHash
    BY <1>1, <1>2, <1>3, <1>4, HashesOfTable DEF findTip
  <1>6. PICK j \in 1..(i - 1) : t[j].hash = t[i].previousHash
    BY <1>3, <1>5 DEF TableOK
  <1>7. j \in DOMAIN t /\ j # Len(t)
    BY <1>2, <1>6
  <1>8. QED
    BY <1>3, <1>5, <1>6, <1>7 DEF TableOK

-----------------------------------------------------------------------------
(* Queues.                                                                 *)

\* A new connection is the last of a queue; a silent one that begins to carry a
\* request keeps its place.
LEMMA QueueOps ==
    ASSUME NEW s \in Seq(Request), NEW q \in Request, NEW n
    PROVE  /\ DOMAIN s = 1..Len(s) /\ Len(s) \in Nat
           /\ \A i \in DOMAIN s : s[i] \in Request
           /\ Append(s, q) \in Seq(Request)
           /\ \A i \in DOMAIN Append(s, q) :
                  Append(s, q)[i] = q \/ (i \in DOMAIN s /\ Append(s, q)[i] = s[i])
           /\ nowCarries(n, s, q) \in Seq(Request)
           /\ DOMAIN nowCarries(n, s, q) = DOMAIN s
           /\ \A i \in DOMAIN s :
                  nowCarries(n, s, q)[i] = IF s[i] = Open(n) THEN q ELSE s[i]
           /\ s # << >> =>
                  /\ Append(s, q) # << >> /\ Head(Append(s, q)) = Head(s)
                  /\ nowCarries(n, s, q) # << >>
                  /\ Head(nowCarries(n, s, q)) = IF Head(s) = Open(n) THEN q ELSE Head(s)
  <1>1. /\ DOMAIN s = 1..Len(s) /\ Len(s) \in Nat
        /\ \A i \in DOMAIN s : s[i] \in Request
    BY LenProperties, ElementOfSeq
  <1>2. /\ Append(s, q) \in Seq(Request) /\ Append(s, q) # << >>
        /\ \A i \in DOMAIN Append(s, q) :
               Append(s, q)[i] = q \/ (i \in DOMAIN s /\ Append(s, q)[i] = s[i])
        /\ s # << >> => Head(Append(s, q)) = Head(s)
    BY <1>1, AppendProperties, HeadTailAppend, LenProperties
  <1>3. /\ DOMAIN nowCarries(n, s, q) = DOMAIN s
        /\ \A i \in DOMAIN s :
               nowCarries(n, s, q)[i] = IF s[i] = Open(n) THEN q ELSE s[i]
    BY DEF nowCarries
  <1>4. nowCarries(n, s, q) \in [1..Len(s) -> Request]
    BY <1>1 DEF nowCarries
  <1>5. nowCarries(n, s, q) \in Seq(Request)
    BY <1>1, <1>4, SeqDef
  <1>6. s # << >> =>
            /\ nowCarries(n, s, q) # << >>
            /\ Head(nowCarries(n, s, q)) = IF Head(s) = Open(n) THEN q ELSE Head(s)
    <2>1. SUFFICES ASSUME s # << >>
                   PROVE  /\ nowCarries(n, s, q) # << >>
                          /\ Head(nowCarries(n, s, q)) =
                                 IF Head(s) = Open(n) THEN q ELSE Head(s)
      OBVIOUS
    <2>2. 1 \in DOMAIN s
      BY <1>1, <2>1, EmptySeq
    <2>3. Len(nowCarries(n, s, q)) = Len(s) /\ nowCarries(n, s, q) # << >>
      BY <1>1, <1>3, <1>5, <2>2, LenProperties, EmptySeq
    <2>4. Head(s) = s[1] /\ Head(nowCarries(n, s, q)) = nowCarries(n, s, q)[1]
      BY <1>5, <2>1, <2>3
    <2>5. QED
      BY <1>3, <2>2, <2>3, <2>4
  <1>7. QED
    BY <1>1, <1>2, <1>3, <1>5, <1>6

\* Neither disturbs the request being served, unless it is the silent one.
LEMMA HeadStays ==
    ASSUME NEW s \in Seq(Request), NEW q \in Request, NEW n, s # << >>, Head(s) # Open(n)
    PROVE  /\ Append(s, q) # << >> /\ Head(Append(s, q)) = Head(s)
           /\ nowCarries(n, s, q) # << >> /\ Head(nowCarries(n, s, q)) = Head(s)
  BY QueueOps

\* Accepting the oldest connection leaves the others, one place further.
LEMMA TailOfQueue ==
    ASSUME NEW s \in Seq(Request), s # << >>
    PROVE  /\ Tail(s) \in Seq(Request) /\ Head(s) \in Request
           /\ 1 \in DOMAIN s /\ Head(s) = s[1]
           /\ \A i \in DOMAIN Tail(s) : i + 1 \in DOMAIN s /\ Tail(s)[i] = s[i + 1]
  <1>1. DOMAIN s = 1..Len(s) /\ Len(s) \in Nat \ {0}
    BY LenProperties, EmptySeq
  <1>2. /\ Tail(s) \in Seq(Request) /\ Head(s) \in Request /\ Len(Tail(s)) = Len(s) - 1
        /\ \A i \in 1..Len(Tail(s)) : Tail(s)[i] = s[i + 1]
    BY HeadTailProperties
  <1>3. DOMAIN Tail(s) = 1..(Len(s) - 1)
    BY <1>1, <1>2, LenProperties
  <1>4. QED
    BY <1>1, <1>2, <1>3

-----------------------------------------------------------------------------
(* Steps.                                                                  *)

\* The requests a node sends have the type of requests.
LEMMA Requests ==
    ASSUME NEW n \in Nodes
    PROVE  /\ Open(n) \in Request /\ Closed(n) \in Request
           /\ \A b \in Block : /\ TextMessage(n, b) \in Request
                               /\ BlockMessage(n, b) \in Request
                               /\ BlockchainErrorMessage(n, b) \in Request
  BY DEF Open, Closed, TextMessage, BlockMessage, BlockchainErrorMessage, Request, RequestType

\* The request being served is one of the queue's.
LEMMA ServedRequest ==
    ASSUME IInv, NEW n \in Nodes, backlog[n] # << >>
    PROVE  /\ request(n) \in Request /\ request(n).from \in Nodes \ {n}
           /\ request(n).type \notin {"open", "closed"} =>
                  /\ request(n).block \in Block
                  /\ request(n).block.hash \in Msgs
                  /\ request(n).block.author = request(n).from
  <1>1. backlog[n] \in Seq(Request) /\ RequestsOK(n)
    BY DEF IInv, TypeOK
  <1>2. request(n) \in Request /\ 1 \in DOMAIN backlog[n] /\ request(n) = backlog[n][1]
    BY <1>1, TailOfQueue DEF request
  <1>3. request(n).from \in Nodes
    BY <1>2 DEF Request
  <1>4. QED
    BY <1>1, <1>2, <1>3 DEF RequestsOK, RequestOK

\* A block made on a well-formed table is a block, extends the table, and has
\* no sibling there.
LEMMA CreatedBlock ==
    ASSUME TypeOK, NEW n \in Nodes, TableOK(n), NEW m \in Msgs
    PROVE  LET b == createBlockFromMessage(chain[n], n, m)
           IN  /\ b \in Block /\ b.hash = m /\ b.author = n
               /\ Store!extendsStored(chain[n], b)
               /\ \A i \in DOMAIN chain[n] : chain[n][i].previousHash # b.previousHash
  <1> DEFINE b == createBlockFromMessage(chain[n], n, m)
  <1>1. chain[n] \in Seq(Block)
    BY DEF TypeOK
  <1>2. hashes(chain[n]) \subseteq Hash
    BY <1>1, HashesOfTable, BlockFields DEF hashes
  <1>3. /\ b = [hash |-> m, previousHash |-> findTip(chain[n]), author |-> n]
        /\ findTip(chain[n]) \in hashes(chain[n]) \cup {NoHash}
    BY <1>1, HashesOfTable DEF createBlockFromMessage
  <1>4. b \in Block /\ b.hash = m /\ b.author = n /\ b.previousHash = findTip(chain[n])
    BY <1>2, <1>3 DEF Block, Hash
  <1>5. Store!extendsStored(chain[n], b)
    BY <1>3, <1>4 DEF Store!extendsStored, Store!hashes, hashes
  <1>6. QED
    BY <1>4, <1>5, TipHasNoChild

\* A step leaves a table alone, or appends the node's own block to it, or the
\* block its server thread has validated; both are new to the table.
LEMMA Growth ==
    ASSUME IInv, [Next]_vars, NEW n \in Nodes
    PROVE  \/ chain'[n] = chain[n]
           \/ /\ InsertOwnBlock(n) /\ ~hasBlock(chain[n], cli[n].block.hash)
              /\ chain'[n] = Append(chain[n], cli[n].block)
           \/ /\ InsertBlock(n) /\ ~hasBlock(chain[n], request(n).block.hash)
              /\ chain'[n] = Append(chain[n], request(n).block)
  <1>1. CASE chain' = chain
    BY <1>1
  <1>2. ASSUME NEW p \in Nodes, InsertOwnBlock(p)
        PROVE  \/ chain'[n] = chain[n]
               \/ /\ InsertOwnBlock(n) /\ ~hasBlock(chain[n], cli[n].block.hash)
                  /\ chain'[n] = Append(chain[n], cli[n].block)
    BY <1>2 DEF InsertOwnBlock, insertRow, IInv, TypeOK
  <1>3. ASSUME NEW p \in Nodes, InsertBlock(p)
        PROVE  \/ chain'[n] = chain[n]
               \/ /\ InsertBlock(n) /\ ~hasBlock(chain[n], request(n).block.hash)
                  /\ chain'[n] = Append(chain[n], request(n).block)
    BY <1>3 DEF InsertBlock, insertRow, IInv, TypeOK
  <1>4. Next => \/ chain' = chain
                \/ \E p \in Nodes : InsertOwnBlock(p) \/ InsertBlock(p)
    <2>1. \A p \in Nodes : ClientStep(p) => chain' = chain \/ InsertOwnBlock(p)
      BY DEF ClientStep, SendText, MessageTooBig, SendTextLost, TextAnswered, AddChatPeer,
             SendBlock, SkipPeer, BlockAnswered, BlockAnswerCut, CheckOwnBlock, Rollback, NotifyRecipient
    <2>2. \A p \in Nodes : ServerStep(p) => chain' = chain \/ InsertBlock(p)
      BY DEF ServerStep, HandleTextMessage, AnswerTextMessage, ValidateBlock, CheckBlock,
             HandleBlockchainError, DropClosed, ReceivePart
    <2>3. QED
      BY <2>1, <2>2 DEF Next, Connect, ConnectFails, Crash
  <1>5. UNCHANGED vars => chain' = chain
    BY DEF vars
  <1>6. QED
    BY <1>1, <1>2, <1>3, <1>4, <1>5

\* What both kinds of insertion have in common.
LEMMA GrowthFacts ==
    ASSUME IInv, [Next]_vars, NEW n \in Nodes, chain'[n] # chain[n]
    PROVE  \E b \in Block :
               /\ chain'[n] = Append(chain[n], b)
               /\ ~hasBlock(chain[n], b.hash)
               /\ Store!extendsStored(chain[n], b)
               /\ \/ b.author = n /\ siblingsForeign(n, chain[n], b)
                     /\ InsertOwnBlock(n) /\ b = cli[n].block
                  \/ b.author # n /\ siblingsOwn(n, chain[n], b)
                     /\ InsertBlock(n) /\ b = request(n).block
  <1>1. CASE InsertOwnBlock(n) /\ ~hasBlock(chain[n], cli[n].block.hash)
             /\ chain'[n] = Append(chain[n], cli[n].block)
    <2>1. cli[n].pc = "insert" /\ ClientOK(n)
      BY <1>1 DEF InsertOwnBlock, IInv
    <2>2. /\ cli[n].block \in Block /\ cli[n].block.author = n
          /\ Store!extendsStored(chain[n], cli[n].block)
          /\ siblingsForeign(n, chain[n], cli[n].block)
      BY <2>1 DEF ClientOK
    <2>3. QED
      BY <1>1, <2>2
  <1>2. CASE InsertBlock(n) /\ ~hasBlock(chain[n], request(n).block.hash)
             /\ chain'[n] = Append(chain[n], request(n).block)
    <2>1. serving(n, "BLOCK") /\ srv[n] = "insert" /\ ServerOK(n)
      BY <1>2 DEF InsertBlock, IInv
    <2>2. request(n).block \in Block /\ request(n).block.author # n
      BY <2>1, ServedRequest DEF serving
    <2>3. /\ Store!extendsStored(chain[n], request(n).block)
          /\ siblingsOwn(n, chain[n], request(n).block)
      BY <2>1 DEF ServerOK
    <2>4. QED
      BY <1>2, <2>2, <2>3
  <1>3. QED
    BY <1>1, <1>2, Growth

\* The tables stay well formed.
LEMMA TableStep ==
    ASSUME IInv, [Next]_vars, NEW n \in Nodes
    PROVE  TableOK(n)'
  <1>1. TableOK(n) /\ chain[n] \in Seq(Block)
    BY DEF IInv, TypeOK
  <1>2. CASE chain'[n] = chain[n]
    BY <1>1, <1>2 DEF TableOK
  <1>3. CASE chain'[n] # chain[n]
    <2> DEFINE t == chain[n]
               u == chain'[n]
    <2>1. PICK b \in Block :
               /\ u = Append(t, b) /\ ~hasBlock(t, b.hash) /\ Store!extendsStored(t, b)
               /\ \/ b.author = n /\ siblingsForeign(n, t, b)
                  \/ b.author # n /\ siblingsOwn(n, t, b)
      BY <1>3, GrowthFacts
    <2>2. /\ DOMAIN t = 1..Len(t) /\ Len(t) \in Nat /\ DOMAIN u = 1..(Len(t) + 1)
          /\ \A i \in DOMAIN t : u[i] = t[i]
          /\ u[Len(t) + 1] = b
      BY <1>1, <2>1, AppendBlock
    <2>3. \A i \in DOMAIN u : i \in DOMAIN t \/ i = Len(t) + 1
      BY <2>2
    <2>4. ASSUME NEW i \in DOMAIN u
          PROVE  \/ u[i].previousHash = NoHash
                 \/ \E j \in 1..(i - 1) : u[j].hash = u[i].previousHash
      <3>1. CASE i \in DOMAIN t
        <4>1. \/ t[i].previousHash = NoHash
              \/ \E j \in 1..(i - 1) : t[j].hash = t[i].previousHash
          BY <1>1, <3>1 DEF TableOK
        <4>2. 1..(i - 1) \subseteq DOMAIN t
          BY <2>2, <3>1
        <4>3. QED
          BY <2>2, <3>1, <4>1, <4>2
      <3>2. CASE i = Len(t) + 1
        <4>1. b.previousHash = NoHash \/ b.previousHash \in hashes(t)
          BY <2>1 DEF Store!extendsStored, Store!hashes, hashes
        <4>2. CASE b.previousHash \in hashes(t)
          <5>1. PICK j \in DOMAIN t : t[j].hash = b.previousHash
            BY <4>2 DEF hashes
          <5>2. j \in 1..(i - 1) /\ u[j].hash = b.previousHash
            BY <2>2, <3>2, <5>1
          <5>3. QED
            BY <2>2, <3>2, <5>2
        <4>3. QED
          BY <2>2, <3>2, <4>1, <4>2
      <3>3. QED
        BY <2>3, <3>1, <3>2
    <2>5. ASSUME NEW i \in DOMAIN u, NEW j \in DOMAIN u, u[i].hash = u[j].hash
          PROVE  i = j
      <3>1. \A k \in DOMAIN t : t[k].hash # b.hash
        BY <2>1 DEF hasBlock, hashes
      <3>2. CASE i \in DOMAIN t /\ j \in DOMAIN t
        BY <1>1, <2>2, <2>5, <3>2 DEF TableOK
      <3>3. QED
        BY <2>2, <2>3, <2>5, <3>1, <3>2
    <2>6. ASSUME NEW i \in DOMAIN u, NEW j \in DOMAIN u,
                 i # j, u[i].previousHash = u[j].previousHash
          PROVE  u[i].author = n <=> u[j].author # n
      <3>1. CASE i \in DOMAIN t /\ j \in DOMAIN t
        BY <1>1, <2>2, <2>6, <3>1 DEF TableOK
      <3>2. \A k \in DOMAIN t : t[k].previousHash = b.previousHash =>
                (t[k].author = n <=> b.author # n)
        BY <2>1 DEF siblingsForeign, siblingsOwn
      <3>3. CASE i = Len(t) + 1 /\ j \in DOMAIN t
        BY <2>2, <2>6, <3>2, <3>3
      <3>4. CASE j = Len(t) + 1 /\ i \in DOMAIN t
        BY <2>2, <2>6, <3>2, <3>4
      <3>5. QED
        BY <2>3, <2>6, <3>1, <3>3, <3>4
    <2>7. QED
      BY <2>4, <2>5, <2>6 DEF TableOK
  <1>4. QED
    BY <1>2, <1>3

-----------------------------------------------------------------------------
(* Type correctness.                                                       *)

\* insertRow keeps a table a table.
LEMMA InsertRowType ==
    ASSUME NEW t \in Seq(Block), NEW b \in Block
    PROVE  insertRow(t, b) \in Seq(Block)
  BY AppendBlock DEF insertRow

\* The history of messages read in part keeps its type.
LEMMA PartRead ==
    ASSUME cut \subseteq Part, NEW n \in Nodes, NEW b \in Block,
           NEW type \in RequestType \cup {"answer"}, readPart(type, n, b)
    PROVE  cut' \subseteq Part
  BY DEF readPart, Part

\* Answering a request changes the queue and one client's reply.
LEMMA AnswerType ==
    ASSUME IInv, NEW n \in Nodes, backlog[n] # << >>,
           NEW answer \in {"none", "ok", "error", "closed"}, answerWith(n, answer)
    PROVE  backlog' \in [Nodes -> Seq(Request)] /\ cli' \in [Nodes -> Client]
  <1>1. backlog \in [Nodes -> Seq(Request)] /\ cli \in [Nodes -> Client]
    BY DEF IInv, TypeOK
  <1>2. backlog' \in [Nodes -> Seq(Request)]
    BY <1>1, TailOfQueue DEF answerWith, accepted
  <1>3. request(n).from \in Nodes
    BY ServedRequest
  <1>4. [cli[request(n).from] EXCEPT !.reply = answer] \in Client
    <2>1. \A c \in Client : [c EXCEPT !.reply = answer] \in Client
      BY DEF Client
    <2>2. QED
      BY <1>1, <1>3, <2>1
  <1>5. cli' \in [Nodes -> Client]
    BY <1>1, <1>3, <1>4 DEF answerWith
  <1>6. QED
    BY <1>2, <1>5

\* A step of the input thread keeps the types.
LEMMA TypeStepClient ==
    ASSUME IInv, NEW n \in Nodes, ClientStep(n)
    PROVE  TypeOK'
  <1> DEFINE c == cli[n]
  <1>1. TypeOK /\ ClientOK(n) /\ TableOK(n) /\ c \in Client
    BY DEF IInv, TypeOK
  <1>2. CASE SendText(n)
    <2> DEFINE b == createBlockFromMessage(chain[n], n, c.msg)
    <2>1. c.to \in Nodes /\ b \in Block
      BY <1>1, <1>2, CreatedBlock DEF SendText, ClientOK
    <2>2. [c EXCEPT !.pc = "waitText", !.block = b] \in Client
      BY <1>1, <2>1 DEF Client, ClientPC
    <2>3. cli' \in [Nodes -> Client]
      BY <1>1, <1>2, <2>2 DEF SendText, TypeOK
    <2>4. nowCarries(n, backlog[c.to], TextMessage(n, b)) \in Seq(Request)
      BY <1>1, <2>1, Requests, QueueOps DEF TypeOK
    <2>5. backlog' \in [Nodes -> Seq(Request)]
      BY <1>1, <1>2, <2>4 DEF SendText, TypeOK
    <2>6. QED
      BY <1>1, <1>2, <2>3, <2>5 DEF SendText, TypeOK
  <1>3. CASE MessageTooBig(n)
    <2>1. Idle \in Client /\ c.to \in Nodes
      BY <1>1, <1>3 DEF Idle, Client, ClientPC, MessageTooBig, ClientOK
    <2>2. nowCarries(n, backlog[c.to], Closed(n)) \in Seq(Request)
      BY <1>1, <2>1, Requests, QueueOps DEF TypeOK
    <2>3. QED
      BY <1>1, <1>3, <2>1, <2>2 DEF MessageTooBig, TypeOK
  <1>4. CASE SendTextLost(n)
    <2> DEFINE b == createBlockFromMessage(chain[n], n, c.msg)
    <2>1. Idle \in Client /\ b \in Block
      BY <1>1, <1>4, CreatedBlock DEF Idle, Client, ClientPC, SendTextLost, ClientOK
    <2>2. [c EXCEPT !.pc = "waitText", !.block = b, !.reply = "closed"] \in Client
      BY <1>1, <2>1 DEF Client, ClientPC
    <2>3. cli' \in [Nodes -> Client]
      BY <1>1, <1>4, <2>1, <2>2 DEF SendTextLost, TypeOK
    <2>4. QED
      BY <1>1, <1>4, <2>3 DEF SendTextLost, TypeOK
  <1>5. CASE TextAnswered(n)
    <2>1. rowOf(n) \in Row
      BY <1>1, <1>5 DEF rowOf, Row, TextAnswered, ClientOK
    <2>2. [c EXCEPT !.pc = "addChat", !.dst = None, !.reply = "none"] \in Client
      BY <1>1 DEF Client, ClientPC
    <2>3. cli' \in [Nodes -> Client]
      BY <1>1, <1>5, <2>2 DEF TextAnswered, TypeOK
    <2>4. messages' \in [Nodes -> SUBSET Row]
      BY <1>1, <1>5, <2>1 DEF TextAnswered, TypeOK
    <2>5. QED
      BY <1>1, <1>5, <2>3, <2>4 DEF TextAnswered, TypeOK
  <1>6. ASSUME NEW p \in Nodes, SendBlock(n, p)
        PROVE  TypeOK'
    <2>1. [c EXCEPT !.pc = "waitBlock", !.todo = c.todo \ {p}, !.dst = p] \in Client
      BY <1>1 DEF Client, ClientPC
    <2>2. cli' \in [Nodes -> Client]
      BY <1>1, <1>6, <2>1 DEF SendBlock, TypeOK
    <2>3. c.block \in Block
      BY <1>1, <1>6 DEF SendBlock, ClientOK
    <2>4. backlog' \in [Nodes -> Seq(Request)]
      BY <1>1, <1>6, <2>3, Requests, QueueOps DEF SendBlock, connectTo, TypeOK
    <2>5. QED
      BY <1>1, <1>6, <2>2, <2>4 DEF SendBlock, TypeOK
  <1>7. ASSUME NEW p \in Nodes, SkipPeer(n, p)
        PROVE  TypeOK'
    <2>1. [c EXCEPT !.todo = c.todo \ {p}] \in Client
      BY <1>1 DEF Client
    <2>2. cli' \in [Nodes -> Client]
      BY <1>1, <1>7, <2>1 DEF SkipPeer, TypeOK
    <2>3. QED
      BY <1>1, <1>7, <2>2 DEF SkipPeer, TypeOK
  <1>8. CASE BlockAnswered(n) \/ BlockAnswerCut(n)
    <2>1. \A x \in ClientPC :
              [c EXCEPT !.pc = x, !.dst = None, !.reply = "none"] \in Client
      BY <1>1 DEF Client
    <2>2. cli' \in [Nodes -> Client]
      BY <1>1, <1>8, <2>1 DEF BlockAnswered, BlockAnswerCut, TypeOK, ClientPC
    <2>3. cut' \subseteq Part
      BY <1>1, <1>8, PartRead DEF BlockAnswered, BlockAnswerCut, TypeOK, ClientOK
    <2>4. QED
      BY <1>1, <1>8, <2>2, <2>3 DEF BlockAnswered, BlockAnswerCut, TypeOK
  <1>9. \A x \in ClientPC : [c EXCEPT !.pc = x] \in Client
    BY <1>1 DEF Client
  <1>10. CASE CheckOwnBlock(n)
    <2>1. cli' \in [Nodes -> Client]
      BY <1>1, <1>9, <1>10 DEF CheckOwnBlock, TypeOK, ClientPC
    <2>2. QED
      BY <1>1, <1>10, <2>1 DEF CheckOwnBlock, TypeOK
  <1>11. CASE InsertOwnBlock(n)
    <2>1. Idle \in Client
      BY DEF Idle, Client, ClientPC
    <2>2. cli' \in [Nodes -> Client]
      BY <1>1, <1>9, <1>11, <2>1 DEF InsertOwnBlock, TypeOK, ClientPC
    <2>3. c.block \in Block
      BY <1>1, <1>11 DEF InsertOwnBlock, ClientOK
    <2>4. chain' \in [Nodes -> Seq(Block)]
      BY <1>1, <1>11, <2>3, InsertRowType DEF InsertOwnBlock, TypeOK
    <2>5. QED
      BY <1>1, <1>11, <2>2, <2>4 DEF InsertOwnBlock, TypeOK
  <1>12. CASE Rollback(n)
    <2>1. cli' \in [Nodes -> Client]
      BY <1>1, <1>9, <1>12 DEF Rollback, TypeOK, ClientPC
    <2>2. messages' \in [Nodes -> SUBSET Row]
      BY <1>1, <1>12 DEF Rollback, removeMessageByBlockHashOrId, TypeOK
    <2>3. QED
      BY <1>1, <1>12, <2>1, <2>2 DEF Rollback, TypeOK
  <1>13. CASE NotifyRecipient(n)
    <2>1. Idle \in Client /\ c.to \in Nodes /\ c.block \in Block
      BY <1>1, <1>13 DEF Idle, Client, ClientPC, NotifyRecipient, ClientOK
    <2>2. Append(backlog[c.to], BlockchainErrorMessage(n, c.block)) \in Seq(Request)
      BY <1>1, <2>1, Requests, QueueOps DEF TypeOK
    <2>3. backlog' \in [Nodes -> Seq(Request)]
      BY <1>1, <1>13, <2>2 DEF NotifyRecipient, connectTo, TypeOK
    <2>4. QED
      BY <1>1, <1>13, <2>1, <2>3 DEF NotifyRecipient, TypeOK
  <1>14. CASE AddChatPeer(n)
    <2>1. [c EXCEPT !.pc = "broadcast", !.todo = Peers[n]] \in Client
      BY <1>1, NetworkAssumption DEF Client, ClientPC
    <2>2. cli' \in [Nodes -> Client]
      BY <1>1, <1>14, <2>1 DEF AddChatPeer, TypeOK
    <2>3. c.to \in Nodes
      BY <1>1, <1>14 DEF AddChatPeer, ClientOK
    <2>4. chats' \in [Nodes -> SUBSET Nodes]
      BY <1>1, <1>14, <2>3 DEF AddChatPeer, TypeOK
    <2>5. QED
      BY <1>1, <1>14, <2>2, <2>4 DEF AddChatPeer, TypeOK
  <1>15. QED
    BY <1>2, <1>3, <1>4, <1>5, <1>6, <1>7, <1>8, <1>10, <1>11, <1>12, <1>13, <1>14
       DEF ClientStep

\* A step of the server thread keeps the types.
LEMMA TypeStepServer ==
    ASSUME IInv, NEW n \in Nodes, ServerStep(n)
    PROVE  TypeOK'
  <1>1. TypeOK /\ backlog[n] # << >>
    BY DEF IInv, ServerStep, HandleTextMessage, AnswerTextMessage, ValidateBlock, CheckBlock,
           InsertBlock, HandleBlockchainError, DropClosed, ReceivePart, serving
  <1>2. accepted(n) => backlog' \in [Nodes -> Seq(Request)]
    BY <1>1, TailOfQueue DEF accepted, TypeOK
  <1>3. CASE HandleTextMessage(n)
    <2> DEFINE r == [id |-> request(n).block.hash, from |-> request(n).from, to |-> n]
    <2>1. r \in Row
      BY <1>1, <1>3, ServedRequest DEF HandleTextMessage, serving, Row
    <2>2. messages' \in [Nodes -> SUBSET Row]
      <3>1. messages' = messages \/ messages' = [messages EXCEPT ![n] = @ \cup {r}]
        BY <1>3 DEF HandleTextMessage
      <3>2. messages \in [Nodes -> SUBSET Row] /\ r \in Row
        BY <1>1, <2>1 DEF TypeOK
      <3> HIDE DEF r
      <3>3. QED
        BY <3>1, <3>2
    <2>3. backlog' \in [Nodes -> Seq(Request)] /\ cli' \in [Nodes -> Client]
      BY <1>1, <1>3, AnswerType DEF HandleTextMessage, TypeOK
    <2>4. srv' \in [Nodes -> {"accept", "addChat", "check", "insert"}]
      BY <1>1, <1>3 DEF HandleTextMessage, TypeOK
    <2>5. QED
      BY <1>1, <1>3, <2>2, <2>3, <2>4 DEF HandleTextMessage, TypeOK
  <1>4. CASE ValidateBlock(n)
    <2>1. backlog' \in [Nodes -> Seq(Request)] /\ cli' \in [Nodes -> Client]
      BY <1>1, <1>4, AnswerType DEF ValidateBlock, TypeOK
    <2>2. QED
      BY <1>1, <1>4, <2>1 DEF ValidateBlock, TypeOK
  <1>5. CASE CheckBlock(n)
    <2>1. request(n).block \in Block
      BY <1>1, <1>5, ServedRequest DEF CheckBlock, serving
    <2>2. backlog' \in [Nodes -> Seq(Request)] /\ cli' \in [Nodes -> Client]
      BY <1>1, <1>5, AnswerType DEF CheckBlock, TypeOK
    <2>3. acked' \subseteq Nodes \X Block
      BY <1>1, <1>5, <2>1 DEF CheckBlock, TypeOK
    <2>4. srv' \in [Nodes -> {"accept", "addChat", "check", "insert"}]
      BY <1>1, <1>5 DEF CheckBlock, TypeOK
    <2>5. QED
      BY <1>1, <1>5, <2>2, <2>3, <2>4 DEF CheckBlock, TypeOK
  <1>6. CASE InsertBlock(n)
    <2>1. request(n).block \in Block
      BY <1>1, <1>6, ServedRequest DEF InsertBlock, serving
    <2>2. backlog' \in [Nodes -> Seq(Request)] /\ cli' \in [Nodes -> Client]
      BY <1>1, <1>6, AnswerType DEF InsertBlock
    <2>3. acked' \subseteq Nodes \X Block
      BY <1>1, <1>6, <2>1 DEF InsertBlock, TypeOK
    <2>4. chain' \in [Nodes -> Seq(Block)]
      BY <1>1, <1>6, <2>1, InsertRowType DEF InsertBlock, TypeOK
    <2>5. QED
      BY <1>1, <1>6, <2>2, <2>3, <2>4 DEF InsertBlock, TypeOK
  <1>7. CASE HandleBlockchainError(n)
    <2>1. messages' \in [Nodes -> SUBSET Row]
      BY <1>1, <1>7 DEF HandleBlockchainError, removeMessageByBlockHashOrId, TypeOK
    <2>2. QED
      BY <1>1, <1>2, <1>7, <2>1 DEF HandleBlockchainError, TypeOK
  <1>8. CASE DropClosed(n)
    BY <1>1, <1>2, <1>8 DEF DropClosed, TypeOK
  <1>9. CASE AnswerTextMessage(n)
    <2>1. request(n).from \in Nodes
      BY <1>1, ServedRequest
    <2>2. backlog' \in [Nodes -> Seq(Request)] /\ cli' \in [Nodes -> Client]
      BY <1>1, <1>9, AnswerType DEF AnswerTextMessage
    <2>3. chats' \in [Nodes -> SUBSET Nodes]
      BY <1>1, <1>9, <2>1 DEF AnswerTextMessage, TypeOK
    <2>4. QED
      BY <1>1, <1>9, <2>2, <2>3 DEF AnswerTextMessage, TypeOK
  <1>10. CASE ReceivePart(n)
    <2>1. request(n).block \in Block /\ request(n).type \in RequestType
      BY <1>1, <1>10, ServedRequest DEF ReceivePart, Request
    <2>2. cut' \subseteq Part
      BY <1>1, <1>10, <2>1, PartRead DEF ReceivePart, TypeOK
    <2>3. backlog' \in [Nodes -> Seq(Request)] /\ cli' \in [Nodes -> Client]
      BY <1>1, <1>2, <1>10, AnswerType DEF ReceivePart, TypeOK
    <2>4. QED
      BY <1>1, <1>10, <2>2, <2>3 DEF ReceivePart, TypeOK
  <1>11. QED
    BY <1>3, <1>4, <1>5, <1>6, <1>7, <1>8, <1>9, <1>10 DEF ServerStep

\* Every step keeps the types.
LEMMA TypeStep ==
    ASSUME IInv, [Next]_vars
    PROVE  TypeOK'
  <1>1. TypeOK
    BY DEF IInv
  <1>2. ASSUME NEW n \in Nodes, NEW m \in Msgs, NEW p \in Nodes, Connect(n, m, p)
        PROVE  TypeOK'
    <2>1. [Idle EXCEPT !.pc = "connected", !.msg = m, !.to = p, !.dst = p] \in Client
      BY DEF Idle, Client, ClientPC
    <2>2. cli' \in [Nodes -> Client]
      BY <1>1, <1>2, <2>1 DEF Connect, TypeOK
    <2>3. backlog' \in [Nodes -> Seq(Request)]
      BY <1>1, <1>2, Requests, QueueOps DEF Connect, connectTo, TypeOK
    <2>4. QED
      BY <1>1, <1>2, <2>2, <2>3 DEF Connect, TypeOK
  <1>3. ASSUME NEW n \in Nodes, NEW m \in Msgs, NEW p \in Nodes, ConnectFails(n, m, p)
        PROVE  TypeOK'
    BY <1>1, <1>3 DEF ConnectFails, TypeOK
  <1>4. ASSUME NEW n \in Nodes, Crash(n)
        PROVE  TypeOK'
    <2>1. Idle \in Client /\ \A c \in Client : [c EXCEPT !.reply = "closed"] \in Client
      BY DEF Idle, Client, ClientPC
    <2>2. cli' \in [Nodes -> Client]
      BY <1>1, <1>4, <2>1 DEF Crash, TypeOK
    <2>3. \A p \in Nodes : nowCarries(n, backlog[p], Closed(n)) \in Seq(Request)
      BY <1>1, Requests, QueueOps DEF TypeOK
    <2>4. backlog' \in [Nodes -> Seq(Request)]
      BY <1>4, <2>3, EmptySeq DEF Crash
    <2>5. up' \in [Nodes -> BOOLEAN] /\ srv' \in [Nodes -> {"accept", "addChat", "check", "insert"}]
      BY <1>1, <1>4 DEF Crash, TypeOK
    <2>6. QED
      BY <1>1, <1>4, <2>2, <2>4, <2>5 DEF Crash, TypeOK
  <1>5. CASE UNCHANGED vars
    BY <1>1, <1>5 DEF vars, TypeOK
  <1>6. QED
    BY <1>2, <1>3, <1>4, <1>5, TypeStepClient, TypeStepServer DEF Next

-----------------------------------------------------------------------------
(* The queues.                                                             *)

\* Sending, on a new connection or an open one, keeps a queue well formed when
\* the request is.
LEMMA SentRequestOK ==
    ASSUME IInv, NEW p \in Nodes, NEW q \in Request, RequestOK(p, q), NEW n
    PROVE  /\ \A i \in DOMAIN Append(backlog[p], q) : RequestOK(p, Append(backlog[p], q)[i])
           /\ \A i \in DOMAIN nowCarries(n, backlog[p], q) :
                  RequestOK(p, nowCarries(n, backlog[p], q)[i])
  <1>1. backlog[p] \in Seq(Request) /\ \A i \in DOMAIN backlog[p] : RequestOK(p, backlog[p][i])
    BY DEF IInv, TypeOK, RequestsOK
  <1> DEFINE s == backlog[p]
  <1>2. \A i \in DOMAIN Append(s, q) : RequestOK(p, Append(s, q)[i])
    <2>1. \A i \in DOMAIN Append(s, q) :
              Append(s, q)[i] = q \/ (i \in DOMAIN s /\ Append(s, q)[i] = s[i])
      BY <1>1, AppendProperties, LenProperties
    <2>2. QED
      BY <1>1, <2>1
  <1>3. \A i \in DOMAIN nowCarries(n, s, q) : RequestOK(p, nowCarries(n, s, q)[i])
    BY <1>1 DEF nowCarries
  <1>4. QED
    BY <1>2, <1>3

\* Connections that carry nothing are well formed.
LEMMA ClosedOK ==
    ASSUME NEW p \in Nodes, NEW n \in Nodes, n # p
    PROVE  RequestOK(p, Open(n)) /\ RequestOK(p, Closed(n))
  BY DEF RequestOK, Open, Closed

\* Every request in a queue stays one of another node with that node's block.
LEMMA RequestsStep ==
    ASSUME IInv, [Next]_vars, NEW k \in Nodes
    PROVE  RequestsOK(k)'
  <1>1. TypeOK /\ backlog \in [Nodes -> Seq(Request)] /\ backlog[k] \in Seq(Request)
    BY DEF IInv, TypeOK
  <1>2. RequestsOK(k)
    BY DEF IInv
  <1>3. CASE backlog'[k] = backlog[k]
    BY <1>2, <1>3 DEF RequestsOK
  <1>4. CASE backlog[k] # << >> /\ backlog'[k] = Tail(backlog[k])
    BY <1>1, <1>2, <1>4, TailOfQueue DEF RequestsOK
  <1>5. ASSUME NEW n \in Nodes, NEW m \in Msgs, NEW p \in Nodes, Connect(n, m, p)
        PROVE  RequestsOK(k)'
    <2>1. n # p
      BY <1>5, NetworkAssumption DEF Connect
    <2>2. \A i \in DOMAIN Append(backlog[p], Open(n)) : RequestOK(p, Append(backlog[p], Open(n))[i])
      BY <2>1, ClosedOK, Requests, SentRequestOK
    <2>3. backlog'[k] = IF k = p THEN Append(backlog[p], Open(n)) ELSE backlog[k]
      BY <1>1, <1>5 DEF Connect, connectTo
    <2>4. QED
      BY <1>3, <2>2, <2>3 DEF RequestsOK
  <1>6. ASSUME NEW n \in Nodes, ClientStep(n)
        PROVE  RequestsOK(k)'
    <2> DEFINE c == cli[n]
    <2>1. ClientOK(n) /\ TableOK(n) /\ c \in Client
      BY <1>1 DEF IInv, TypeOK
    <2>2. CASE SendText(n)
      <3> DEFINE q == TextMessage(n, createBlockFromMessage(chain[n], n, c.msg))
      <3>1. c.msg \in Msgs /\ c.to \in Nodes \ {n}
        BY <2>1, <2>2 DEF SendText, ClientOK
      <3>2. q \in Request /\ RequestOK(c.to, q)
        BY <1>1, <2>1, <3>1, CreatedBlock, Requests DEF RequestOK, TextMessage
      <3>3. backlog'[k] = IF k = c.to THEN nowCarries(n, backlog[c.to], q) ELSE backlog[k]
        BY <1>1, <2>2, <3>1 DEF SendText
      <3>4. QED
        BY <1>3, <3>1, <3>2, <3>3, SentRequestOK DEF RequestsOK
    <2>3. CASE MessageTooBig(n)
      <3>1. c.to \in Nodes \ {n}
        BY <2>1, <2>3 DEF MessageTooBig, ClientOK
      <3>2. Closed(n) \in Request /\ RequestOK(c.to, Closed(n))
        BY <3>1, ClosedOK, Requests
      <3>3. backlog'[k] = IF k = c.to THEN nowCarries(n, backlog[c.to], Closed(n)) ELSE backlog[k]
        BY <1>1, <2>3, <3>1 DEF MessageTooBig
      <3>4. QED
        BY <1>3, <3>1, <3>2, <3>3, SentRequestOK DEF RequestsOK
    <2>4. ASSUME NEW p \in Nodes, SendBlock(n, p)
          PROVE  RequestsOK(k)'
      <3> DEFINE q == BlockMessage(n, c.block)
      <3>1. c.msg \in Msgs /\ c.block \in Block /\ c.block.hash = c.msg /\ c.block.author = n /\ p # n
        BY <2>1, <2>4 DEF SendBlock, ClientOK
      <3>2. q \in Request /\ RequestOK(p, q)
        BY <3>1, Requests DEF RequestOK, BlockMessage
      <3>3. backlog'[k] = IF k = p THEN Append(backlog[p], q) ELSE backlog[k]
        BY <1>1, <2>4 DEF SendBlock, connectTo
      <3>4. QED
        BY <1>3, <3>2, <3>3, SentRequestOK DEF RequestsOK
    <2>5. CASE NotifyRecipient(n)
      <3> DEFINE q == BlockchainErrorMessage(n, c.block)
      <3>1. /\ c.msg \in Msgs /\ c.to \in Nodes \ {n}
            /\ c.block \in Block /\ c.block.hash = c.msg /\ c.block.author = n
        BY <2>1, <2>5 DEF NotifyRecipient, ClientOK
      <3>2. q \in Request /\ RequestOK(c.to, q)
        BY <3>1, Requests DEF RequestOK, BlockchainErrorMessage
      <3>3. backlog'[k] = backlog[k] \/ (k = c.to /\ backlog'[k] = Append(backlog[c.to], q))
        BY <1>1, <2>5, <3>1 DEF NotifyRecipient, connectTo
      <3>4. QED
        BY <1>3, <3>1, <3>2, <3>3, SentRequestOK DEF RequestsOK
    <2>6. QED
      BY <1>3, <1>6, <2>2, <2>3, <2>4, <2>5 DEF ClientStep, SendTextLost, TextAnswered,
         AddChatPeer, SkipPeer, BlockAnswered, BlockAnswerCut, CheckOwnBlock, InsertOwnBlock, Rollback
  <1>7. ASSUME NEW n \in Nodes, ServerStep(n)
        PROVE  RequestsOK(k)'
    <2>1. backlog[n] # << >> /\ (backlog' = backlog \/ backlog' = [backlog EXCEPT ![n] = Tail(@)])
      BY <1>7 DEF ServerStep, HandleTextMessage, AnswerTextMessage, ValidateBlock, CheckBlock,
         InsertBlock, HandleBlockchainError, DropClosed, ReceivePart, serving, answerWith, accepted
    <2>2. QED
      BY <1>1, <1>3, <1>4, <2>1
  <1>8. ASSUME NEW n \in Nodes, Crash(n)
        PROVE  RequestsOK(k)'
    <2>1. CASE k = n
      <3>1. backlog'[k] = << >>
        BY <1>8, <2>1 DEF Crash
      <3>2. QED
        BY <3>1 DEF RequestsOK
    <2>2. CASE k # n
      <3>1. backlog'[k] = nowCarries(n, backlog[k], Closed(n))
        BY <1>8, <2>2 DEF Crash
      <3>2. QED
        BY <2>2, <3>1, ClosedOK, Requests, SentRequestOK DEF RequestsOK
    <2>3. QED
      BY <2>1, <2>2
  <1>9. QED
    BY <1>3, <1>5, <1>6, <1>7, <1>8 DEF Next, ConnectFails, vars

-----------------------------------------------------------------------------
(* The threads.                                                            *)

\* A table keeps the blocks that could be extended.
LEMMA ExtendsStays ==
    ASSUME IInv, [Next]_vars, NEW n \in Nodes, NEW b, Store!extendsStored(chain[n], b)
    PROVE  Store!extendsStored(chain'[n], b)
  <1>1. chain[n] \in Seq(Block)
    BY DEF IInv, TypeOK
  <1>2. CASE chain'[n] # chain[n]
    <2>1. PICK x \in Block : chain'[n] = Append(chain[n], x)
      BY <1>2, GrowthFacts
    <2>2. hashes(chain[n]) \subseteq hashes(chain'[n])
      BY <1>1, <2>1, AppendBlock
    <2>3. QED
      BY <2>2 DEF Store!extendsStored, Store!hashes, hashes
  <1>3. QED
    BY <1>2

\* Unless sendSecretMessage ends in this step, no own block is inserted.
LEMMA ForeignStays ==
    ASSUME IInv, [Next]_vars, NEW n \in Nodes, NEW b,
           cli'[n].pc # "idle", siblingsForeign(n, chain[n], b)
    PROVE  siblingsForeign(n, chain'[n], b)
  <1>1. chain[n] \in Seq(Block) /\ cli \in [Nodes -> Client]
    BY DEF IInv, TypeOK
  <1>2. CASE chain'[n] # chain[n]
    <2>1. PICK x \in Block :
              /\ chain'[n] = Append(chain[n], x) /\ ~hasBlock(chain[n], x.hash)
              /\ (InsertOwnBlock(n) /\ x = cli[n].block) \/ x.author # n
      BY <1>2, GrowthFacts
    <2>2. x.author # n
      BY <1>1, <2>1 DEF InsertOwnBlock, Idle
    <2>3. QED
      BY <1>1, <2>1, <2>2, AppendBlock DEF siblingsForeign
  <1>3. QED
    BY <1>2

\* Unless the server thread is done with its block in this step, no received
\* block is inserted.
LEMMA OwnStays ==
    ASSUME IInv, [Next]_vars, NEW n \in Nodes, NEW b,
           srv'[n] \in {"check", "insert"}, siblingsOwn(n, chain[n], b)
    PROVE  siblingsOwn(n, chain'[n], b)
  <1>1. chain[n] \in Seq(Block) /\ srv \in [Nodes -> {"accept", "addChat", "check", "insert"}]
    BY DEF IInv, TypeOK
  <1>2. CASE chain'[n] # chain[n]
    <2>1. PICK x \in Block :
              /\ chain'[n] = Append(chain[n], x)
              /\ InsertBlock(n) \/ x.author = n
      BY <1>2, GrowthFacts
    <2>2. x.author = n
      BY <1>1, <2>1 DEF InsertBlock
    <2>3. QED
      BY <1>1, <2>1, <2>2, AppendBlock DEF siblingsOwn
  <1>3. QED
    BY <1>2

\* A step that keeps the message, the recipient and the block of a running
\* sendSecretMessage keeps what is known about them.
LEMMA ClientKept ==
    ASSUME IInv, [Next]_vars, NEW k \in Nodes,
           cli'[k].pc # "idle" =>
               cli[k].pc # "idle" /\ cli'[k].msg = cli[k].msg /\ cli'[k].to = cli[k].to,
           k \notin cli'[k].todo,
           cli'[k].pc \notin {"idle", "connected"} =>
               cli[k].pc \notin {"idle", "connected"} /\ cli'[k].block = cli[k].block
    PROVE  ClientOK(k)'
  <1>1. ClientOK(k)
    BY DEF IInv
  <1>2. ASSUME cli'[k].pc \notin {"idle", "connected"}
        PROVE  /\ cli'[k].block \in Block
               /\ cli'[k].block.hash = cli'[k].msg /\ cli'[k].block.author = k
               /\ Store!extendsStored(chain'[k], cli'[k].block)
               /\ siblingsForeign(k, chain'[k], cli'[k].block)
    <2>1. /\ cli[k].block \in Block
          /\ cli[k].block.hash = cli[k].msg /\ cli[k].block.author = k
          /\ Store!extendsStored(chain[k], cli[k].block)
          /\ siblingsForeign(k, chain[k], cli[k].block)
      BY <1>1, <1>2 DEF ClientOK
    <2>2. cli'[k].block = cli[k].block /\ cli'[k].msg = cli[k].msg
      BY <1>2
    <2>3. /\ Store!extendsStored(chain'[k], cli[k].block)
          /\ siblingsForeign(k, chain'[k], cli[k].block)
      BY <1>2, <2>1, ExtendsStays, ForeignStays
    <2>4. QED
      BY <2>1, <2>2, <2>3
  <1>3. cli'[k].pc # "idle" => cli'[k].msg \in Msgs /\ cli'[k].to \in Nodes \ {k}
    BY <1>1 DEF ClientOK
  <1>4. QED
    BY <1>2, <1>3 DEF ClientOK, Store!extendsStored, siblingsForeign

\* The block made for a message has no sibling when it is made.
LEMMA ClientStarts ==
    ASSUME IInv, [Next]_vars, NEW k \in Nodes, ClientOK(k), chain' = chain,
           cli[k].pc = "connected",
           cli'[k].msg = cli[k].msg, cli'[k].to = cli[k].to, cli'[k].todo = cli[k].todo,
           cli'[k].block = createBlockFromMessage(chain[k], k, cli[k].msg)
    PROVE  ClientOK(k)'
  <1> DEFINE b == createBlockFromMessage(chain[k], k, cli[k].msg)
  <1>1. cli[k].msg \in Msgs /\ cli[k].to \in Nodes \ {k} /\ k \notin cli[k].todo
    BY DEF ClientOK
  <1>2. /\ b \in Block /\ b.hash = cli[k].msg /\ b.author = k
        /\ Store!extendsStored(chain[k], b)
        /\ \A i \in DOMAIN chain[k] : chain[k][i].previousHash # b.previousHash
    BY <1>1, CreatedBlock DEF IInv
  <1>3. siblingsForeign(k, chain[k], b)
    BY <1>2 DEF siblingsForeign
  <1>4. cli'[k].block = b /\ chain'[k] = chain[k]
    OBVIOUS
  <1> HIDE DEF b
  <1>5. QED
    BY <1>1, <1>2, <1>3, <1>4 DEF ClientOK, Store!extendsStored, siblingsForeign

\* Every step keeps what is known about the running sendSecretMessage.
LEMMA ClientsStep ==
    ASSUME IInv, [Next]_vars, NEW k \in Nodes
    PROVE  ClientOK(k)'
  <1>1. ClientOK(k) /\ cli \in [Nodes -> Client] /\ cli[k] \in Client /\ k \notin cli[k].todo
    BY DEF IInv, TypeOK, ClientOK
  <1>2. CASE cli'[k] = cli[k]
    BY <1>1, <1>2, ClientKept
  <1>3. CASE cli'[k] = Idle
    BY <1>3, ClientKept DEF Idle
  <1>4. ASSUME NEW x, cli'[k] = [cli[k] EXCEPT !.reply = x]
        PROVE  ClientOK(k)'
    <2>1. /\ cli'[k].pc = cli[k].pc /\ cli'[k].msg = cli[k].msg /\ cli'[k].to = cli[k].to
          /\ cli'[k].block = cli[k].block /\ cli'[k].todo = cli[k].todo
      BY <1>1, <1>4 DEF Client
    <2>2. QED
      BY <1>1, <2>1, ClientKept
  <1>5. ASSUME NEW m \in Msgs, NEW p \in Nodes, Connect(k, m, p)
        PROVE  ClientOK(k)'
    <2>1. p # k
      BY <1>5, NetworkAssumption DEF Connect
    <2>2. /\ cli'[k].pc = "connected" /\ cli'[k].msg = m /\ cli'[k].to = p
          /\ cli'[k].todo = {}
      BY <1>1, <1>5 DEF Connect, Idle
    <2>3. QED
      BY <2>1, <2>2 DEF ClientOK
  <1>6. CASE SendText(k)
    <2>1. /\ cli[k].pc = "connected" /\ chain' = chain
          /\ cli'[k].msg = cli[k].msg /\ cli'[k].to = cli[k].to
          /\ cli'[k].todo = cli[k].todo
          /\ cli'[k].block = createBlockFromMessage(chain[k], k, cli[k].msg)
      BY <1>1, <1>6 DEF SendText, Client
    <2>2. QED
      BY <1>1, <2>1, ClientStarts
  <1>7. CASE SendTextLost(k) /\ cli'[k] # Idle
    <2>1. /\ cli[k].pc = "connected" /\ chain' = chain
          /\ cli'[k].msg = cli[k].msg /\ cli'[k].to = cli[k].to
          /\ cli'[k].todo = cli[k].todo
          /\ cli'[k].block = createBlockFromMessage(chain[k], k, cli[k].msg)
      <3>1. /\ cli[k].pc = "connected" /\ chain' = chain
            /\ cli'[k] = [cli[k] EXCEPT !.pc = "waitText", !.reply = "closed",
                              !.block = createBlockFromMessage(chain[k], k, cli[k].msg)]
        BY <1>1, <1>7 DEF SendTextLost
      <3>2. QED
        BY <1>1, <3>1 DEF Client
    <2>2. QED
      BY <1>1, <2>1, ClientStarts
  <1>8. CASE TextAnswered(k)
    <2>1. /\ cli[k].pc = "waitText"
          /\ cli'[k].msg = cli[k].msg /\ cli'[k].to = cli[k].to
          /\ cli'[k].block = cli[k].block /\ cli'[k].todo = cli[k].todo
      BY <1>1, <1>8 DEF TextAnswered, Client
    <2>2. QED
      BY <1>1, <2>1, ClientKept
  <1>9. CASE AddChatPeer(k)
    <2>1. /\ cli[k].pc = "addChat"
          /\ cli'[k].msg = cli[k].msg /\ cli'[k].to = cli[k].to
          /\ cli'[k].block = cli[k].block /\ cli'[k].todo = Peers[k]
      BY <1>1, <1>9 DEF AddChatPeer, Client
    <2>2. QED
      BY <2>1, ClientKept, NetworkAssumption
  <1>10. ASSUME NEW p \in Nodes, SendBlock(k, p) \/ SkipPeer(k, p)
        PROVE  ClientOK(k)'
    <2>1. /\ cli[k].pc = "broadcast"
          /\ cli'[k].msg = cli[k].msg /\ cli'[k].to = cli[k].to
          /\ cli'[k].block = cli[k].block /\ cli'[k].todo = cli[k].todo \ {p}
      <3>1. CASE SendBlock(k, p)
        BY <1>1, <3>1 DEF SendBlock, Client
      <3>2. CASE SkipPeer(k, p)
        BY <1>1, <3>2 DEF SkipPeer, Client
      <3>3. QED
        BY <1>10, <3>1, <3>2
    <2>2. QED
      BY <1>1, <2>1, ClientKept
  <1>11. CASE BlockAnswered(k) \/ BlockAnswerCut(k) \/ CheckOwnBlock(k) \/ Rollback(k)
              \/ (InsertOwnBlock(k) /\ cli'[k] # Idle)
    <2>1. /\ cli[k].pc \in {"waitBlock", "broadcast", "rollback", "insert"}
          /\ cli'[k].msg = cli[k].msg /\ cli'[k].to = cli[k].to
          /\ cli'[k].block = cli[k].block /\ cli'[k].todo = cli[k].todo
      <3>1. CASE BlockAnswered(k)
        BY <1>1, <3>1 DEF BlockAnswered, Client
      <3>2. CASE CheckOwnBlock(k)
        BY <1>1, <3>2 DEF CheckOwnBlock, Client
      <3>3. CASE Rollback(k)
        BY <1>1, <3>3 DEF Rollback, Client
      <3>4. CASE InsertOwnBlock(k) /\ cli'[k] # Idle
        <4>1. cli[k].pc = "insert" /\ cli'[k] = [cli[k] EXCEPT !.pc = "rollback"]
          BY <1>1, <3>4 DEF InsertOwnBlock
        <4>2. QED
          BY <1>1, <4>1 DEF Client
      <3>5. CASE BlockAnswerCut(k)
        BY <1>1, <3>5 DEF BlockAnswerCut, Client
      <3>6. QED
        BY <1>11, <3>1, <3>2, <3>3, <3>4, <3>5
    <2>2. QED
      BY <1>1, <2>1, ClientKept
  <1>12. ASSUME NEW n \in Nodes, ClientStep(n)
         PROVE  ClientOK(k)'
    <2>1. CASE n # k
      <3>1. cli'[k] = cli[k]
        BY <1>1, <1>12, <2>1 DEF ClientStep, SendText, MessageTooBig, SendTextLost,
           TextAnswered,
           AddChatPeer, SendBlock, SkipPeer, BlockAnswered, BlockAnswerCut, CheckOwnBlock, InsertOwnBlock, Rollback,
           NotifyRecipient
      <3>2. QED
        BY <1>2, <3>1
    <2>2. CASE n = k
      <3>1. MessageTooBig(k) \/ NotifyRecipient(k) => cli'[k] = Idle
        BY <1>1 DEF MessageTooBig, NotifyRecipient
      <3>2. QED
        BY <1>3, <1>6, <1>7, <1>8, <1>9, <1>10, <1>11, <1>12, <2>2, <3>1 DEF ClientStep
    <2>3. QED
      BY <2>1, <2>2
  <1>13. ASSUME NEW n \in Nodes, ServerStep(n)
         PROVE  ClientOK(k)'
    <2>1. cli' = cli \/ \E p \in Nodes, x \in {"ok", "error", "closed"} :
                            cli' = [cli EXCEPT ![p].reply = x]
      <3>1. ASSUME NEW x, answerWith(n, x), backlog[n] # << >>
            PROVE  cli' = cli \/ \E p \in Nodes : cli' = [cli EXCEPT ![p].reply = x]
        BY <3>1, ServedRequest DEF answerWith
      <3>2. QED
        BY <1>13, <3>1 DEF ServerStep, HandleTextMessage, AnswerTextMessage, ValidateBlock,
           CheckBlock,
           InsertBlock, HandleBlockchainError, DropClosed, ReceivePart, serving
    <2>2. cli'[k] = cli[k] \/ \E x \in {"ok", "error", "closed"} :
                                  cli'[k] = [cli[k] EXCEPT !.reply = x]
      BY <1>1, <2>1
    <2>3. QED
      BY <1>2, <1>4, <2>2
  <1>14. ASSUME NEW n \in Nodes, Crash(n)
         PROVE  ClientOK(k)'
    <2>1. cli'[k] = Idle \/ cli'[k] = cli[k] \/ cli'[k] = [cli[k] EXCEPT !.reply = "closed"]
      BY <1>14 DEF Crash
    <2>2. QED
      BY <1>2, <1>3, <1>4, <2>1
  <1>15. ASSUME NEW n \in Nodes, NEW m \in Msgs, NEW p \in Nodes,
                Connect(n, m, p) \/ ConnectFails(n, m, p)
         PROVE  ClientOK(k)'
    <2>1. cli'[k] = cli[k] \/ (n = k /\ Connect(k, m, p))
      BY <1>1, <1>15 DEF Connect, ConnectFails
    <2>2. QED
      BY <1>2, <1>5, <2>1
  <1>16. UNCHANGED vars => ClientOK(k)'
    BY <1>2 DEF vars
  <1>17. QED
    BY <1>12, <1>13, <1>14, <1>15, <1>16 DEF Next

\* While the server thread is at work on a block, it stays at the head of the
\* queue; it starts with a block that extends the tip.
LEMMA ServersStep ==
    ASSUME IInv, [Next]_vars, NEW k \in Nodes
    PROVE  ServerOK(k)'
  <1>1. /\ TypeOK /\ TableOK(k) /\ ServerOK(k)
        /\ backlog \in [Nodes -> Seq(Request)] /\ backlog[k] \in Seq(Request)
        /\ srv \in [Nodes -> {"accept", "addChat", "check", "insert"}]
    BY DEF IInv, TypeOK
  <1>2. SUFFICES ASSUME srv'[k] \in {"check", "insert"}
                 PROVE  /\ backlog'[k] # << >> /\ Head(backlog'[k]).type = "BLOCK"
                        /\ Store!extendsStored(chain'[k], Head(backlog'[k]).block)
                        /\ siblingsOwn(k, chain'[k], Head(backlog'[k]).block)
    BY DEF ServerOK, request, Store!extendsStored, siblingsOwn
  <1>3. CASE /\ srv[k] \in {"check", "insert"}
             /\ backlog'[k] # << >> /\ Head(backlog'[k]) = Head(backlog[k])
    <2>1. /\ Head(backlog[k]).type = "BLOCK"
          /\ Store!extendsStored(chain[k], Head(backlog[k]).block)
          /\ siblingsOwn(k, chain[k], Head(backlog[k]).block)
      BY <1>1, <1>3 DEF ServerOK, request
    <2>2. /\ Store!extendsStored(chain'[k], Head(backlog[k]).block)
          /\ siblingsOwn(k, chain'[k], Head(backlog[k]).block)
      BY <1>2, <2>1, ExtendsStays, OwnStays
    <2>3. QED
      BY <1>3, <2>1, <2>2
  <1>4. CASE srv[k] \in {"check", "insert"} /\ backlog'[k] = backlog[k]
    BY <1>1, <1>3, <1>4 DEF ServerOK
  <1>5. ASSUME NEW n, NEW q \in Request, srv[k] \in {"check", "insert"},
               backlog'[k] = Append(backlog[k], q) \/ backlog'[k] = nowCarries(n, backlog[k], q)
        PROVE  backlog'[k] # << >> /\ Head(backlog'[k]) = Head(backlog[k])
    <2>1. backlog[k] # << >> /\ Head(backlog[k]).type = "BLOCK"
      BY <1>1, <1>5 DEF ServerOK, request
    <2>2. Head(backlog[k]) # Open(n)
      BY <2>1 DEF Open
    <2>3. QED
      <3> DEFINE s == backlog[k]
      <3>1. s \in Seq(Request) /\ s # << >> /\ Head(s) # Open(n)
        BY <1>1, <2>1, <2>2
      <3> HIDE DEF s
      <3>2. /\ Append(s, q) # << >> /\ Head(Append(s, q)) = Head(s)
            /\ nowCarries(n, s, q) # << >> /\ Head(nowCarries(n, s, q)) = Head(s)
        BY <3>1, HeadStays
      <3>3. QED
        BY <1>5, <3>2 DEF s
  <1>6. CASE ValidateBlock(k)
    <2>1. /\ backlog[k] # << >> /\ Head(backlog[k]).type = "BLOCK"
          /\ validateIncomingBlock(k, chain[k], Head(backlog[k]).block)
          /\ backlog' = backlog /\ chain' = chain
      BY <1>1, <1>2, <1>6 DEF ValidateBlock, serving, request
    <2>2. Head(backlog[k]).block.previousHash = findTip(chain[k])
      BY <2>1 DEF validateIncomingBlock
    <2>3. findTip(chain[k]) \in hashes(chain[k]) \cup {NoHash}
      BY <1>1, HashesOfTable DEF TypeOK
    <2>4. Store!extendsStored(chain[k], Head(backlog[k]).block)
      BY <2>2, <2>3 DEF Store!extendsStored, Store!hashes, hashes
    <2>5. siblingsOwn(k, chain[k], Head(backlog[k]).block)
      BY <1>1, <2>2, TipHasNoChild DEF siblingsOwn
    <2>6. QED
      BY <2>1, <2>4, <2>5
  <1>7. ASSUME NEW n \in Nodes, ServerStep(n), n # k
        PROVE  srv'[k] = srv[k] /\ backlog'[k] = backlog[k]
    BY <1>1, <1>7 DEF ServerStep, HandleTextMessage, AnswerTextMessage, ValidateBlock,
       CheckBlock,
       InsertBlock, HandleBlockchainError, DropClosed, ReceivePart, answerWith, accepted
  <1>8. ASSUME ServerStep(k)
        PROVE  ValidateBlock(k) \/ (srv[k] \in {"check", "insert"} /\ backlog'[k] = backlog[k])
    <2>1. ~InsertBlock(k)
      BY <1>1, <1>2 DEF InsertBlock
    <2>2. HandleTextMessage(k) \/ AnswerTextMessage(k) \/ HandleBlockchainError(k)
              \/ DropClosed(k) \/ ReceivePart(k) => FALSE
      <3>1. srv[k] \in {"check", "insert"} => request(k).type = "BLOCK"
        BY <1>1 DEF ServerOK
      <3>2. QED
        BY <1>1, <1>2, <3>1 DEF HandleTextMessage, AnswerTextMessage, HandleBlockchainError,
           DropClosed, ReceivePart, serving
    <2>3. CheckBlock(k) => srv[k] \in {"check", "insert"} /\ backlog'[k] = backlog[k]
      BY <1>1, <1>2 DEF CheckBlock
    <2>4. QED
      BY <1>8, <2>1, <2>2, <2>3 DEF ServerStep
  <1>9. ASSUME NEW n \in Nodes, ClientStep(n)
        PROVE  /\ srv[k] \in {"check", "insert"}
               /\ backlog'[k] # << >> /\ Head(backlog'[k]) = Head(backlog[k])
    <2>1. srv' = srv
      BY <1>9 DEF ClientStep, SendText, MessageTooBig, SendTextLost, TextAnswered, AddChatPeer,
         SendBlock, SkipPeer, BlockAnswered, BlockAnswerCut, CheckOwnBlock, InsertOwnBlock, Rollback, NotifyRecipient
    <2>2. ClientOK(n) /\ TableOK(n)
      BY DEF IInv
    <2>3. \/ backlog'[k] = backlog[k]
          \/ \E q \in Request : \/ backlog'[k] = Append(backlog[k], q)
                                \/ backlog'[k] = nowCarries(n, backlog[k], q)
      <3> DEFINE b == createBlockFromMessage(chain[n], n, cli[n].msg)
      <3>1. SendText(n) => b \in Block
        BY <1>1, <2>2, CreatedBlock DEF SendText, ClientOK
      <3>2. cli[n].pc \in {"broadcast", "notify"} => cli[n].block \in Block
        BY <2>2 DEF ClientOK
      <3> HIDE DEF b
      <3>3. SendText(n) => TextMessage(n, b) \in Request
                           /\ (backlog'[k] = backlog[k]
                               \/ backlog'[k] = nowCarries(n, backlog[k], TextMessage(n, b)))
        BY <1>1, <3>1, Requests DEF SendText, b
      <3>4. MessageTooBig(n) => Closed(n) \in Request
                           /\ (backlog'[k] = backlog[k]
                               \/ backlog'[k] = nowCarries(n, backlog[k], Closed(n)))
        BY <1>1, Requests DEF MessageTooBig
      <3>5. ASSUME NEW p \in Nodes, SendBlock(n, p)
            PROVE  BlockMessage(n, cli[n].block) \in Request
                   /\ (backlog'[k] = backlog[k]
                       \/ backlog'[k] = Append(backlog[k], BlockMessage(n, cli[n].block)))
        BY <1>1, <3>2, <3>5, Requests DEF SendBlock, connectTo
      <3>6. NotifyRecipient(n) =>
                   BlockchainErrorMessage(n, cli[n].block) \in Request
                   /\ (backlog'[k] = backlog[k]
                       \/ backlog'[k] = Append(backlog[k], BlockchainErrorMessage(n, cli[n].block)))
        BY <1>1, <3>2, Requests DEF NotifyRecipient, connectTo
      <3>7. QED
        BY <1>9, <3>3, <3>4, <3>5, <3>6 DEF ClientStep, SendTextLost, TextAnswered, AddChatPeer,
           SkipPeer, BlockAnswered, BlockAnswerCut, CheckOwnBlock, InsertOwnBlock, Rollback
    <2>4. QED
      BY <1>1, <1>2, <1>5, <2>1, <2>3 DEF ServerOK
  <1>10. ASSUME NEW n \in Nodes, NEW m \in Msgs, NEW p \in Nodes,
                Connect(n, m, p) \/ ConnectFails(n, m, p)
         PROVE  /\ srv[k] \in {"check", "insert"}
                /\ backlog'[k] # << >> /\ Head(backlog'[k]) = Head(backlog[k])
    <2>1. srv' = srv /\ (backlog'[k] = backlog[k] \/ backlog'[k] = Append(backlog[k], Open(n)))
      BY <1>1, <1>10 DEF Connect, ConnectFails, connectTo
    <2>2. QED
      BY <1>1, <1>2, <1>5, <2>1, Requests DEF ServerOK
  <1>11. ASSUME NEW n \in Nodes, Crash(n)
         PROVE  /\ srv[k] \in {"check", "insert"}
                /\ backlog'[k] # << >> /\ Head(backlog'[k]) = Head(backlog[k])
    <2>1. k # n /\ srv[k] \in {"check", "insert"} /\ backlog'[k] = nowCarries(n, backlog[k], Closed(n))
      BY <1>1, <1>2, <1>11 DEF Crash
    <2>2. QED
      BY <1>5, <1>11, <2>1, Requests
  <1>12. UNCHANGED vars => srv'[k] = srv[k] /\ backlog'[k] = backlog[k]
    BY DEF vars
  <1>13. QED
    BY <1>2, <1>3, <1>4, <1>6, <1>7, <1>8, <1>9, <1>10, <1>11, <1>12 DEF Next

-----------------------------------------------------------------------------
(* The theorems.                                                           *)

\* The table all nodes start with is well formed.
LEMMA InitialTable ==
    ASSUME Init, NEW n \in Nodes
    PROVE  TableOK(n)
  <1> DEFINE t == InitialChain
  <1>1. t \in Seq(Block) /\ chain[n] = t
    BY ChainAssumption DEF Init
  <1>2. DOMAIN t = 1..Len(t) /\ Len(t) \in Nat /\ \A i \in DOMAIN t : t[i].hash # NoHash
    BY <1>1, LenProperties, HashesOfTable, BlockFields
  <1>3. /\ \A i \in DOMAIN t : t[i].previousHash = IF i = 1 THEN NoHash ELSE t[i - 1].hash
        /\ \A i, j \in DOMAIN t : t[i].hash = t[j].hash => i = j
    BY ChainAssumption DEF linear
  <1>4. ASSUME NEW i \in DOMAIN t
        PROVE  \/ t[i].previousHash = NoHash
               \/ \E j \in 1..(i - 1) : t[j].hash = t[i].previousHash
    <2>1. CASE i # 1
      <3>1. i - 1 \in 1..(i - 1) /\ t[i - 1].hash = t[i].previousHash
        BY <1>2, <1>3, <2>1
      <3>2. QED
        BY <3>1
    <2>2. QED
      BY <1>3, <2>1
  <1>5. ASSUME NEW i \in DOMAIN t, NEW j \in DOMAIN t, i # j
        PROVE  t[i].previousHash # t[j].previousHash
    <2>1. i # 1 => i - 1 \in DOMAIN t /\ t[i].previousHash = t[i - 1].hash
      BY <1>2, <1>3
    <2>2. j # 1 => j - 1 \in DOMAIN t /\ t[j].previousHash = t[j - 1].hash
      BY <1>2, <1>3
    <2>3. CASE i = 1 \/ j = 1
      BY <1>2, <1>3, <1>5, <2>1, <2>2, <2>3
    <2>4. CASE i # 1 /\ j # 1
      <3>1. i - 1 # j - 1
        BY <1>2, <1>5
      <3>2. QED
        BY <1>3, <2>1, <2>2, <2>4, <3>1
    <2>5. QED
      BY <2>3, <2>4
  <1> HIDE DEF t
  <1>6. QED
    BY <1>1, <1>3, <1>4, <1>5 DEF TableOK

\* The inductive invariant holds initially.
LEMMA InitIInv == Init => IInv
  <1>1. SUFFICES ASSUME Init PROVE IInv
    OBVIOUS
  <1>2. Idle \in Client
    BY DEF Idle, Client, ClientPC
  <1>3. TypeOK
    BY <1>1, <1>2, ChainAssumption, EmptySeq DEF Init, TypeOK
  <1>4. ASSUME NEW n \in Nodes
        PROVE  ClientOK(n) /\ RequestsOK(n) /\ ServerOK(n)
    <2>1. cli[n] = Idle /\ backlog[n] = << >> /\ srv[n] = "accept"
      BY <1>1 DEF Init
    <2>2. cli[n].pc = "idle" /\ cli[n].todo = {}
      BY <2>1 DEF Idle
    <2>3. QED
      BY <2>1, <2>2 DEF ClientOK, RequestsOK, ServerOK
  <1>5. QED
    BY <1>1, <1>3, <1>4, InitialTable DEF IInv

\* Every step keeps the inductive invariant.
LEMMA NextIInv == IInv /\ [Next]_vars => IInv'
  BY TypeStep, TableStep, ClientsStep, RequestsStep, ServersStep DEF IInv

\* The inductive invariant holds of every reachable state: it relates what the
\* input thread and the server thread of a node each know about its table while
\* the other one may be inserting into it.
THEOREM Inductive == Spec => []IInv
  BY InitIInv, NextIInv, PTL DEF Spec

\* Every variable of the model, the queues and the two threads' local state
\* included, keeps its type.
THEOREM TypeCorrect == Spec => []TypeOK
  <1>1. IInv => TypeOK
    BY DEF IInv
  <1>2. QED
    BY <1>1, Inductive, PTL

\* insertBlock never stores a block before its parent, although the tip may move
\* between validateIncomingBlock or createBlockFromMessage and the INSERT.
THEOREM ParentsAlwaysStored == Spec => []ParentsStored
  <1>1. IInv => ParentsStored
    BY DEF IInv, TableOK, ParentsStored
  <1>2. QED
    BY <1>1, Inductive, PTL

\* However sends and receptions interleave, insertBlock's SELECT and INSERT let
\* a node store at most two children of a block, its own and a received one.
THEOREM ForksOnlyWithOwnBlock == Spec => []ForkOnlyWithOwnBlock
  <1>1. IInv => ForkOnlyWithOwnBlock
    BY DEF IInv, TableOK, ForkOnlyWithOwnBlock
  <1>2. QED
    BY <1>1, Inductive, PTL

\* Every step maps to a step of the abstract store or to a stuttering one.
LEMMA StoreStep == IInv /\ [Next]_vars => [Store!Next]_chain
  <1>1. SUFFICES ASSUME IInv, [Next]_vars, chain' # chain
                 PROVE  Store!Next
    OBVIOUS
  <1>2. chain \in [Nodes -> Seq(Block)] /\ chain' \in [Nodes -> Seq(Block)]
    BY <1>1, TypeStep DEF IInv, TypeOK
  <1>3. PICK n \in Nodes : chain'[n] # chain[n]
    BY <1>1, <1>2
  <1>4. PICK b \in Block :
            /\ ~hasBlock(chain[n], b.hash)
            /\ Store!extendsStored(chain[n], b)
            /\ \/ b.author = n /\ siblingsForeign(n, chain[n], b)
                  /\ InsertOwnBlock(n) /\ b = cli[n].block
               \/ b.author # n /\ siblingsOwn(n, chain[n], b)
                  /\ InsertBlock(n) /\ b = request(n).block
    BY <1>1, <1>3, GrowthFacts
  <1>5. chain' = [chain EXCEPT ![n] = Append(@, b)]
    BY <1>4 DEF InsertOwnBlock, InsertBlock, insertRow
  <1>6. Store!siblingsDiffer(n, chain[n], b)
    BY <1>4 DEF Store!siblingsDiffer, siblingsForeign, siblingsOwn
  <1>7. ~Store!hasBlock(chain[n], b.hash)
    BY <1>4 DEF Store!hasBlock, Store!hashes, hasBlock, hashes
  <1>8. QED
    BY <1>4, <1>5, <1>6, <1>7 DEF Store!Next, Store!Add

\* The protocol implements the abstract append-only store: every step of two
\* threads on every node adds one admissible block to one table or leaves all
\* tables alone.
THEOREM ImplementsStore == Spec => TablesImplementStore
  <1>1. Init => Store!Init
    BY DEF Init, Store!Init
  <1>2. QED
    BY <1>1, StoreStep, Inductive, PTL DEF Spec, TablesImplementStore, Store!Spec

-----------------------------------------------------------------------------
(* Acknowledged blocks.                                                    *)

\* What AcknowledgedOrOutrun says of one acknowledgement.
LEMMA AckedStays ==
    ASSUME IInv, [Next]_vars, NEW n \in Nodes, NEW b,
           \/ hasBlock(chain[n], b.hash)
           \/ \E i \in DOMAIN chain[n] :
                  chain[n][i].author = n /\ chain[n][i].previousHash = b.previousHash
    PROVE  \/ hasBlock(chain'[n], b.hash)
           \/ \E i \in DOMAIN chain'[n] :
                  chain'[n][i].author = n /\ chain'[n][i].previousHash = b.previousHash
  <1>1. chain[n] \in Seq(Block)
    BY DEF IInv, TypeOK
  <1>2. CASE chain'[n] # chain[n]
    <2>1. PICK x \in Block : chain'[n] = Append(chain[n], x)
      BY <1>2, GrowthFacts
    <2>2. /\ hashes(chain[n]) \subseteq hashes(chain'[n])
          /\ DOMAIN chain[n] \subseteq DOMAIN chain'[n]
          /\ \A i \in DOMAIN chain[n] : chain'[n][i] = chain[n][i]
      BY <1>1, <2>1, AppendBlock
    <2>3. QED
      BY <2>2 DEF hasBlock
  <1>3. QED
    BY <1>2

\* Every step keeps AcknowledgedOrOutrun.
LEMMA AckedStep ==
    ASSUME IInv, AcknowledgedOrOutrun, [Next]_vars
    PROVE  AcknowledgedOrOutrun'
  <1> DEFINE Settled(n, b) ==
                 \/ hasBlock(chain'[n], b.hash)
                 \/ \E i \in DOMAIN chain'[n] :
                        chain'[n][i].author = n /\ chain'[n][i].previousHash = b.previousHash
  <1>1. acked \subseteq Nodes \X Block
    BY DEF IInv, TypeOK
  <1>2. ASSUME NEW x \in acked
        PROVE  Settled(x[1], x[2])
    <2>1. x[1] \in Nodes
      BY <1>1
    <2>2. \/ hasBlock(chain[x[1]], x[2].hash)
          \/ \E i \in DOMAIN chain[x[1]] :
                 /\ chain[x[1]][i].author = x[1]
                 /\ chain[x[1]][i].previousHash = x[2].previousHash
      BY DEF AcknowledgedOrOutrun
    <2>3. QED
      BY <2>1, <2>2, AckedStays
  <1>3. ASSUME NEW n \in Nodes, CheckBlock(n), acked' # acked
        PROVE  Settled(n, request(n).block) /\ acked' = acked \cup {<<n, request(n).block>>}
    <2>1. /\ ~insertAllowed(chain[n], request(n).block)
          /\ chain' = chain /\ acked' = acked \cup {<<n, request(n).block>>}
          /\ srv[n] = "check" /\ ServerOK(n)
      BY <1>3 DEF CheckBlock, IInv
    <2>2. \E i \in DOMAIN chain[n] : chain[n][i].previousHash = request(n).block.previousHash
      BY <2>1 DEF insertAllowed, hasChild
    <2>3. siblingsOwn(n, chain[n], request(n).block)
      BY <2>1 DEF ServerOK
    <2>4. QED
      BY <2>1, <2>2, <2>3 DEF siblingsOwn
  <1>4. ASSUME NEW n \in Nodes, InsertBlock(n)
        PROVE  Settled(n, request(n).block) /\ acked' = acked \cup {<<n, request(n).block>>}
    <2>1. /\ chain[n] \in Seq(Block) /\ request(n).block \in Block
          /\ chain' = [chain EXCEPT ![n] = insertRow(@, request(n).block)]
          /\ chain \in [Nodes -> Seq(Block)]
          /\ acked' = acked \cup {<<n, request(n).block>>}
      BY <1>4, ServedRequest DEF InsertBlock, serving, IInv, TypeOK
    <2>2. chain'[n] = insertRow(chain[n], request(n).block)
      BY <2>1
    <2>3. hasBlock(chain'[n], request(n).block.hash)
      BY <2>1, <2>2, AppendBlock DEF insertRow, hasBlock
    <2>4. QED
      BY <2>1, <2>3
  <1>5. \/ acked' = acked
        \/ \E n \in Nodes : /\ acked' = acked \cup {<<n, request(n).block>>}
                            /\ Settled(n, request(n).block)
    <2> HIDE DEF Settled
    <2>1. Next => \/ acked' = acked
                  \/ \E n \in Nodes : CheckBlock(n) \/ InsertBlock(n)
      <3>1. \A n \in Nodes : ClientStep(n) => acked' = acked
        BY DEF ClientStep, SendText, MessageTooBig, SendTextLost, TextAnswered, AddChatPeer,
               SendBlock, SkipPeer, BlockAnswered, BlockAnswerCut, CheckOwnBlock, InsertOwnBlock, Rollback, NotifyRecipient
      <3>2. \A n \in Nodes : ServerStep(n) => acked' = acked \/ CheckBlock(n) \/ InsertBlock(n)
        BY DEF ServerStep, HandleTextMessage, AnswerTextMessage, ValidateBlock,
               HandleBlockchainError, DropClosed, ReceivePart
      <3>3. \A n \in Nodes : Crash(n) => acked' = acked
        BY DEF Crash
      <3>4. \A n, p \in Nodes, m \in Msgs :
                Connect(n, m, p) \/ ConnectFails(n, m, p) => acked' = acked
        BY DEF Connect, ConnectFails
      <3>5. QED
        BY <3>1, <3>2, <3>3, <3>4 DEF Next
    <2>2. UNCHANGED vars => acked' = acked
      BY DEF vars
    <2>3. QED
      BY <1>3, <1>4, <2>1, <2>2
  <1>6. \A x \in acked' : Settled(x[1], x[2])
    <2>1. SUFFICES ASSUME NEW x \in acked', x \notin acked
                   PROVE  Settled(x[1], x[2])
      BY <1>2
    <2>2. PICK n \in Nodes : x = <<n, request(n).block>> /\ Settled(n, request(n).block)
      <3> HIDE DEF Settled
      <3>1. QED
        BY <1>5, <2>1
    <2>3. x[1] = n /\ x[2] = request(n).block
      BY <2>2
    <2>4. QED
      BY <2>2, <2>3
  <1>7. QED
    BY <1>6 DEF AcknowledgedOrOutrun, hasBlock, hashes

\* onIncomingBlock acknowledges a block whatever insertBlock returned: the block
\* is stored nevertheless, or an own block of the peer took its place.
THEOREM AcknowledgedOrOutrunAlways == Spec => []AcknowledgedOrOutrun
  <1>1. Init => AcknowledgedOrOutrun
    BY DEF Init, AcknowledgedOrOutrun
  <1>2. IInv /\ AcknowledgedOrOutrun /\ [Next]_vars => AcknowledgedOrOutrun'
    BY AckedStep
  <1>3. QED
    BY <1>1, <1>2, Inductive, PTL DEF Spec
=============================================================================
