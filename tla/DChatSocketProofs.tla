-------------------------- MODULE DChatSocketProofs --------------------------
(***************************************************************************)
(* Proofs about DChat, continued: who waits for whom.                      *)
(***************************************************************************)
EXTENDS DChatProofs

-----------------------------------------------------------------------------
(* What a step leaves alone.                                               *)

\* A step of an input thread changes only its own node's state and queues.
LEMMA ClientStepLocal ==
    ASSUME IInv, NEW n \in Nodes, ClientStep(n)
    PROVE  /\ up[n] /\ cli[n].pc # "idle"
           /\ up' = up /\ srv' = srv /\ fresh' = fresh /\ acked' = acked
           /\ \A k \in Nodes \ {n} : /\ cli'[k] = cli[k] /\ chain'[k] = chain[k]
                                     /\ messages'[k] = messages[k] /\ chats'[k] = chats[k]
  <1>1. /\ chain \in [Nodes -> Seq(Block)] /\ messages \in [Nodes -> SUBSET Row]
        /\ chats \in [Nodes -> SUBSET Nodes] /\ cli \in [Nodes -> Client]
    BY DEF IInv, TypeOK
  <1>2. CASE SendText(n) \/ MessageTooBig(n) \/ SendTextLost(n)
    BY <1>1, <1>2 DEF SendText, MessageTooBig, SendTextLost
  <1>3. CASE TextAnswered(n) \/ AddChatPeer(n) \/ Rollback(n)
    BY <1>1, <1>3 DEF TextAnswered, AddChatPeer, Rollback
  <1>4. CASE BlockAnswered(n) \/ BlockAnswerCut(n) \/ CheckOwnBlock(n) \/ InsertOwnBlock(n)
             \/ NotifyRecipient(n)
    BY <1>1, <1>4 DEF BlockAnswered, BlockAnswerCut, CheckOwnBlock, InsertOwnBlock,
       NotifyRecipient
  <1>5. CASE \E p \in Nodes : SendBlock(n, p) \/ SkipPeer(n, p)
    BY <1>1, <1>5 DEF SendBlock, SkipPeer
  <1>6. QED
    BY <1>2, <1>3, <1>4, <1>5 DEF ClientStep

\* A step of a server thread changes its own node's state and, if it answers,
\* the reply of the client it answers.
LEMMA ServerStepLocal ==
    ASSUME IInv, NEW n \in Nodes, ServerStep(n)
    PROVE  /\ up[n] /\ backlog[n] # << >>
           /\ up' = up /\ fresh' = fresh
           /\ \A k \in Nodes \ {n} : /\ backlog'[k] = backlog[k] /\ srv'[k] = srv[k]
                                     /\ chain'[k] = chain[k] /\ messages'[k] = messages[k]
                                     /\ chats'[k] = chats[k]
           /\ \/ backlog' = backlog /\ cli' = cli
              \/ /\ backlog'[n] = Tail(backlog[n]) /\ srv' = srv
                 /\ ~live(request(n)) /\ cli' = cli
              \/ /\ backlog'[n] = Tail(backlog[n]) /\ srv'[n] = "accept"
                 /\ request(n).type \in {"TEXT_MESSAGE", "BLOCK"}
                 /\ \E a \in {"ok", "error", "closed"} : answerWith(n, a)
  <1>1. /\ chain \in [Nodes -> Seq(Block)] /\ messages \in [Nodes -> SUBSET Row]
        /\ chats \in [Nodes -> SUBSET Nodes] /\ backlog \in [Nodes -> Seq(Request)]
        /\ srv \in [Nodes -> {"accept", "addChat", "check", "insert"}] /\ ServerOK(n)
    BY DEF IInv, TypeOK
  <1>2. accepted(n) => /\ backlog'[n] = Tail(backlog[n])
                       /\ \A k \in Nodes \ {n} : backlog'[k] = backlog[k]
    BY <1>1 DEF accepted
  <1>3. \A a : answerWith(n, a) => accepted(n)
    BY DEF answerWith
  <1>0. \A type \in {"TEXT_MESSAGE", "BLOCK"} : serving(n, type) => request(n).type = type
    BY DEF serving
  <1>4. CASE HandleTextMessage(n)
    <2>0. request(n).type \in {"TEXT_MESSAGE", "BLOCK"}
      BY <1>0, <1>4 DEF HandleTextMessage
    <2>1. /\ up[n] /\ backlog[n] # << >> /\ up' = up /\ fresh' = fresh
          /\ srv[n] = "accept" /\ chain' = chain /\ chats' = chats
      BY <1>4 DEF HandleTextMessage, serving
    <2>2. \/ /\ backlog' = backlog /\ cli' = cli /\ srv' = [srv EXCEPT ![n] = "addChat"]
             /\ \E r : messages' = [messages EXCEPT ![n] = @ \cup {r}]
          \/ /\ srv' = srv /\ messages' = messages
             /\ \E a \in {"ok", "error", "closed"} : answerWith(n, a)
      BY <1>4 DEF HandleTextMessage
    <2>3. QED
      BY <1>1, <1>2, <1>3, <2>0, <2>1, <2>2
  <1>5. CASE AnswerTextMessage(n)
    BY <1>0, <1>1, <1>2, <1>3, <1>5 DEF AnswerTextMessage, serving
  <1>6. CASE ValidateBlock(n)
    <2>0. request(n).type \in {"TEXT_MESSAGE", "BLOCK"}
      BY <1>0, <1>6 DEF ValidateBlock
    <2>1. /\ up[n] /\ backlog[n] # << >> /\ up' = up /\ fresh' = fresh
          /\ srv[n] = "accept" /\ chain' = chain /\ chats' = chats /\ messages' = messages
      BY <1>6 DEF ValidateBlock, serving
    <2>2. \/ backlog' = backlog /\ cli' = cli /\ srv' = [srv EXCEPT ![n] = "check"]
          \/ srv' = srv /\ answerWith(n, "error")
      BY <1>6 DEF ValidateBlock
    <2>3. QED
      BY <1>1, <1>2, <1>3, <2>0, <2>1, <2>2
  <1>7. CASE CheckBlock(n)
    <2>0. request(n).type \in {"TEXT_MESSAGE", "BLOCK"}
      BY <1>0, <1>7 DEF CheckBlock
    <2>1. /\ up[n] /\ backlog[n] # << >> /\ up' = up /\ fresh' = fresh
          /\ chain' = chain /\ chats' = chats /\ messages' = messages
      BY <1>7 DEF CheckBlock, serving
    <2>2. \/ backlog' = backlog /\ cli' = cli /\ srv' = [srv EXCEPT ![n] = "insert"]
          \/ srv' = [srv EXCEPT ![n] = "accept"] /\ answerWith(n, "ok")
      BY <1>7 DEF CheckBlock
    <2>3. QED
      BY <1>1, <1>2, <1>3, <2>0, <2>1, <2>2
  <1>8. CASE InsertBlock(n)
    BY <1>0, <1>1, <1>2, <1>3, <1>8 DEF InsertBlock, serving
  <1>9. CASE HandleBlockchainError(n) \/ DropClosed(n)
    <2>1. /\ up[n] /\ backlog[n] # << >> /\ up' = up /\ fresh' = fresh /\ accepted(n)
          /\ request(n).type \in {"BLOCKCHAIN_ERROR_RESPONSE", "closed"}
          /\ chain' = chain /\ chats' = chats /\ srv' = srv /\ cli' = cli
          /\ \A k \in Nodes \ {n} : messages'[k] = messages[k]
      BY <1>1, <1>9 DEF HandleBlockchainError, DropClosed, serving
    <2>2. ~live(request(n))
      BY <2>1 DEF live
    <2>3. QED
      BY <1>1, <1>2, <2>1, <2>2
  <1>10. CASE ReceivePart(n)
    <2>1. /\ up[n] /\ backlog[n] # << >> /\ up' = up /\ fresh' = fresh
          /\ srv[n] = "accept" /\ srv' = srv
          /\ chain' = chain /\ chats' = chats /\ messages' = messages
      BY <1>10 DEF ReceivePart
    <2>2. \/ ~live(request(n)) /\ accepted(n) /\ cli' = cli
          \/ request(n).type \in {"TEXT_MESSAGE", "BLOCK"} /\ answerWith(n, "closed")
      <3>1. request(n).type \in RequestType
        BY <2>1, ServedRequest DEF Request
      <3>2. QED
        BY <1>10, <3>1 DEF ReceivePart, RequestType, live
    <2>3. QED
      BY <1>1, <1>2, <1>3, <2>1, <2>2
  <1>11. QED
    BY <1>4, <1>5, <1>6, <1>7, <1>8, <1>9, <1>10 DEF ServerStep

-----------------------------------------------------------------------------
(* Who waits for whom.                                                     *)

\* A queue that only lost requests, and none of whose live requests' clients have
\* moved, is as it should be.
LEMMA QueueKept ==
    ASSUME SocketsInv, NEW k \in Nodes, NEW d \in {0, 1},
           DOMAIN backlog'[k] \subseteq Int,
           ~up'[k] => backlog'[k] = << >>,
           \A j \in DOMAIN backlog'[k] :
               live(backlog'[k][j]) /\ up'[backlog'[k][j].from] =>
                   /\ j + d \in DOMAIN backlog[k] /\ backlog'[k][j] = backlog[k][j + d]
                   /\ cli'[backlog'[k][j].from] = cli[backlog'[k][j].from]
                   /\ up[backlog'[k][j].from]
    PROVE  QueueOK(k)'
  <1>1. QueueOK(k)
    BY DEF SocketsInv
  <1>2. ASSUME NEW i \in DOMAIN backlog'[k],
               live(backlog'[k][i]), up'[backlog'[k][i].from]
        PROVE  awaited(k, backlog[k][i])'
    BY <1>1, <1>2 DEF QueueOK, awaited
  <1>3. ASSUME NEW i \in DOMAIN backlog'[k], NEW j \in DOMAIN backlog'[k],
               live(backlog'[k][i]), up'[backlog'[k][i].from],
               live(backlog'[k][j]), backlog'[k][j].from = backlog'[k][i].from
        PROVE  i = j
    <2>1. i + d = j + d
      BY <1>1, <1>3 DEF QueueOK
    <2>2. QED
      BY <2>1
  <1>4. QED
    BY <1>2, <1>3 DEF QueueOK

\* The same for requests that keep their places.
LEMMA QueueStays ==
    ASSUME SocketsInv, NEW k \in Nodes,
           DOMAIN backlog'[k] \subseteq Int,
           ~up'[k] => backlog'[k] = << >>,
           \A j \in DOMAIN backlog'[k] :
               live(backlog'[k][j]) /\ up'[backlog'[k][j].from] =>
                   /\ j \in DOMAIN backlog[k] /\ backlog'[k][j] = backlog[k][j]
                   /\ cli'[backlog'[k][j].from] = cli[backlog'[k][j].from]
                   /\ up[backlog'[k][j].from]
    PROVE  QueueOK(k)'
  <1>1. \A j \in DOMAIN backlog'[k] : j + 0 = j
    OBVIOUS
  <1>2. 0 \in {0, 1}
    OBVIOUS
  <1>3. QED
    BY <1>1, <1>2, QueueKept

\* The same when one live request x, the only one of its client, is new.
LEMMA QueueGains ==
    ASSUME SocketsInv, NEW k \in Nodes, up'[k], NEW x \in DOMAIN backlog'[k],
           awaited(k, backlog[k][x])',
           \A j \in DOMAIN backlog'[k] :
               j # x /\ live(backlog'[k][j]) =>
                   /\ backlog'[k][j].from # backlog'[k][x].from
                   /\ up'[backlog'[k][j].from] =>
                          /\ j \in DOMAIN backlog[k] /\ backlog'[k][j] = backlog[k][j]
                          /\ cli'[backlog'[k][j].from] = cli[backlog'[k][j].from]
                          /\ up[backlog'[k][j].from]
    PROVE  QueueOK(k)'
  <1>1. QueueOK(k)
    BY DEF SocketsInv
  <1>2. ASSUME NEW i \in DOMAIN backlog'[k],
               live(backlog'[k][i]), up'[backlog'[k][i].from]
        PROVE  awaited(k, backlog[k][i])'
    <2>1. CASE i # x
      BY <1>1, <1>2, <2>1 DEF QueueOK, awaited
    <2>2. QED
      BY <2>1
  <1>3. ASSUME NEW i \in DOMAIN backlog'[k], NEW j \in DOMAIN backlog'[k],
               live(backlog'[k][i]), up'[backlog'[k][i].from],
               live(backlog'[k][j]), backlog'[k][j].from = backlog'[k][i].from
        PROVE  i = j
    BY <1>1, <1>3 DEF QueueOK
  <1>4. QED
    BY <1>2, <1>3 DEF QueueOK

\* A client that is not connected or has its answer has no live request.
LEMMA NoLive ==
    ASSUME IInv, SocketsInv, NEW n \in Nodes, up[n],
           cli[n].pc \notin {"connected", "waitText", "waitBlock"} \/ cli[n].reply # "none",
           NEW k \in Nodes, NEW i \in DOMAIN backlog[k], live(backlog[k][i])
    PROVE  backlog[k][i].from # n
  <1>1. QueueOK(k)
    BY DEF SocketsInv
  <1>2. SUFFICES ASSUME backlog[k][i].from = n PROVE FALSE
    OBVIOUS
  <1>3. awaited(k, backlog[k][i])
    BY <1>1, <1>2 DEF QueueOK
  <1>4. backlog[k][i].type \in {"open", "TEXT_MESSAGE", "BLOCK"}
    BY DEF live
  <1>5. QED
    BY <1>2, <1>3, <1>4 DEF awaited

\* A client in the middle of connecting has only its silent connection.
LEMMA OnlyOpen ==
    ASSUME IInv, SocketsInv, NEW n \in Nodes, up[n], cli[n].pc = "connected",
           NEW k \in Nodes, NEW i \in DOMAIN backlog[k], live(backlog[k][i]),
           backlog[k][i].from = n
    PROVE  k = cli[n].to /\ backlog[k][i] = Open(n)
  <1>1. QueueOK(k) /\ SocketOK(n)
    BY DEF SocketsInv
  <1>2. awaited(k, backlog[k][i])
    BY <1>1 DEF QueueOK
  <1>3. backlog[k][i].type \in {"open", "TEXT_MESSAGE", "BLOCK"}
    BY DEF live
  <1>4. cli[n].dst = k /\ cli[n].dst = cli[n].to
    BY <1>1, <1>2 DEF awaited, SocketOK
  <1>5. backlog[k][i].type = "open" /\ backlog[k][i].block = None
    BY <1>2, <1>3 DEF awaited
  <1>6. backlog[k][i] \in Request
    BY QueueOps, Requests DEF IInv, TypeOK
  <1>7. QED
    BY <1>4, <1>5, <1>6 DEF Request, Open

\* A queue as such.
LEMMA QueueType ==
    ASSUME IInv, NEW k \in Nodes
    PROVE  /\ backlog[k] \in Seq(Request) /\ DOMAIN backlog[k] = 1..Len(backlog[k])
           /\ Len(backlog[k]) \in Nat
           /\ \A i \in DOMAIN backlog[k] : backlog[k][i] \in Request /\ backlog[k][i].from \in Nodes
  <1>1. backlog[k] \in Seq(Request)
    BY DEF IInv, TypeOK
  <1>2. \A q \in Request : q.from \in Nodes
    BY DEF Request
  <1>3. QED
    BY <1>1, <1>2, LenProperties, ElementOfSeq

\* A request that is added comes last.
LEMMA AppendedLast ==
    ASSUME IInv, NEW k \in Nodes, NEW q \in Request, backlog'[k] = Append(backlog[k], q)
    PROVE  \E x \in DOMAIN backlog'[k] :
               /\ backlog'[k][x] = q
               /\ \A j \in DOMAIN backlog'[k] :
                      j # x => j \in DOMAIN backlog[k] /\ backlog'[k][j] = backlog[k][j]
  <1> DEFINE x == Len(backlog[k]) + 1
  <1>1. /\ DOMAIN backlog'[k] = 1..x /\ x \in DOMAIN backlog'[k] /\ backlog'[k][x] = q
        /\ \A j \in DOMAIN backlog'[k] :
               j # x => j \in DOMAIN backlog[k] /\ backlog'[k][j] = backlog[k][j]
    BY QueueType, AppendProperties, LenProperties
  <1>2. QED
    BY <1>1

\* A step of the input thread of n that moves nothing but n's client, which has
\* no live request, leaves every queue in order, also when it sends a notice.
LEMMA QueueUntouched ==
    ASSUME IInv, SocketsInv, NEW n \in Nodes, NEW k \in Nodes, up[n],
           cli[n].pc \notin {"connected", "waitText", "waitBlock"} \/ cli[n].reply # "none",
           up' = up, \A m \in Nodes \ {n} : cli'[m] = cli[m],
           \/ backlog'[k] = backlog[k]
           \/ \E q \in Request : ~live(q) /\ up[k] /\ backlog'[k] = Append(backlog[k], q)
    PROVE  QueueOK(k)'
  <1>1. /\ \A i \in DOMAIN backlog[k] :
               live(backlog[k][i]) => backlog[k][i].from \in Nodes \ {n}
        /\ backlog[k] \in Seq(Request) /\ DOMAIN backlog[k] \subseteq Int /\ QueueOK(k)
    BY QueueType, NoLive DEF SocketsInv
  <1>2. \A j \in DOMAIN backlog'[k] :
            live(backlog'[k][j]) => j \in DOMAIN backlog[k] /\ backlog'[k][j] = backlog[k][j]
    BY <1>1, QueueOps
  <1>3. DOMAIN backlog'[k] \subseteq Int
    BY <1>1, AppendProperties, LenProperties
  <1>4. \A j \in DOMAIN backlog[k] : j + 0 = j
    BY <1>1
  <1>5. ~up'[k] => backlog'[k] = << >>
    BY <1>1 DEF QueueOK
  <1>6. QED
    BY <1>1, <1>2, <1>3, <1>4, <1>5, QueueKept

\* Every step keeps the queues in order.
LEMMA QueueStep ==
    ASSUME IInv, SocketsInv, [Next]_vars, NEW k \in Nodes
    PROVE  QueueOK(k)'
  <1>1. /\ backlog \in [Nodes -> Seq(Request)] /\ cli \in [Nodes -> Client] /\ QueueOK(k)
        /\ up \in [Nodes -> BOOLEAN] /\ DOMAIN backlog[k] \subseteq Int
        /\ \A i \in DOMAIN backlog[k] : backlog[k][i] \in Request /\ backlog[k][i].from \in Nodes
        /\ \A i \in DOMAIN backlog[k] : i + 0 = i
    BY QueueType DEF IInv, TypeOK, SocketsInv
  <1>2. ASSUME NEW n \in Nodes, NEW m \in Msgs, NEW p \in Nodes, Connect(n, m, p)
        PROVE  QueueOK(k)'
    <2>1. /\ up' = up /\ up[n] /\ up[p] /\ cli[n].pc = "idle"
          /\ \A l \in Nodes \ {n} : cli'[l] = cli[l]
          /\ cli'[n].pc = "connected" /\ cli'[n].dst = p /\ cli'[n].reply = "none"
          /\ backlog'[k] = IF k = p THEN Append(backlog[k], Open(n)) ELSE backlog[k]
      BY <1>1, <1>2 DEF Connect, connectTo, Idle
    <2>2. CASE k # p
      BY <2>1, <2>2, QueueUntouched
    <2>3. CASE k = p
      <3>1. PICK x \in DOMAIN backlog'[k] :
                /\ backlog'[k][x] = Open(n)
                /\ \A j \in DOMAIN backlog'[k] :
                       j # x => j \in DOMAIN backlog[k] /\ backlog'[k][j] = backlog[k][j]
        BY <2>1, <2>3, Requests, AppendedLast
      <3>2. awaited(k, backlog[k][x])'
        BY <2>1, <2>3, <3>1 DEF awaited, Open
      <3>3. \A j \in DOMAIN backlog[k] : live(backlog[k][j]) => backlog[k][j].from # n
        BY <2>1, NoLive
      <3>4. backlog'[k][x].from = n
        BY <3>1 DEF Open
      <3>5. \A j \in DOMAIN backlog'[k] :
                j # x /\ live(backlog'[k][j]) =>
                    /\ backlog'[k][j].from # backlog'[k][x].from
                    /\ up'[backlog'[k][j].from] =>
                           /\ j \in DOMAIN backlog[k] /\ backlog'[k][j] = backlog[k][j]
                           /\ cli'[backlog'[k][j].from] = cli[backlog'[k][j].from]
                           /\ up[backlog'[k][j].from]
        BY <1>1, <2>1, <3>1, <3>3, <3>4
      <3>6. up'[k]
        BY <2>1, <2>3
      <3>8. QED
        BY <3>2, <3>5, <3>6, QueueGains
    <2>4. QED
      BY <2>2, <2>3
  <1>3. ASSUME NEW n \in Nodes, NEW p \in Nodes, SendBlock(n, p)
        PROVE  QueueOK(k)'
    <2>1. /\ up' = up /\ up[n] /\ up[p] /\ cli[n].pc = "broadcast"
          /\ \A l \in Nodes \ {n} : cli'[l] = cli[l]
          /\ cli'[n].pc = "waitBlock" /\ cli'[n].dst = p /\ cli'[n].reply = cli[n].reply
          /\ cli'[n].block = cli[n].block
          /\ backlog'[k] = IF k = p THEN Append(backlog[k], BlockMessage(n, cli[n].block))
                                    ELSE backlog[k]
      BY <1>1, <1>3 DEF SendBlock, connectTo, Client
    <2>2. CASE k # p
      BY <2>1, <2>2, QueueUntouched
    <2>3. CASE k = p
      <3>1. cli[n].block \in Block /\ cli[n].reply = "none"
        BY <2>1 DEF IInv, ClientOK, SocketsInv, SocketOK
      <3>2. PICK x \in DOMAIN backlog'[k] :
                /\ backlog'[k][x] = BlockMessage(n, cli[n].block)
                /\ \A j \in DOMAIN backlog'[k] :
                       j # x => j \in DOMAIN backlog[k] /\ backlog'[k][j] = backlog[k][j]
        <4>1. BlockMessage(n, cli[n].block) \in Request
          BY <3>1, Requests
        <4>2. backlog'[k] = Append(backlog[k], BlockMessage(n, cli[n].block))
          BY <2>1, <2>3
        <4>3. QED
          BY <4>1, <4>2, AppendedLast
      <3>3. awaited(k, backlog[k][x])'
        BY <2>1, <2>3, <3>1, <3>2 DEF awaited, BlockMessage
      <3>4. \A j \in DOMAIN backlog[k] : live(backlog[k][j]) => backlog[k][j].from # n
        BY <2>1, NoLive
      <3>5. backlog'[k][x].from = n
        BY <3>2 DEF BlockMessage
      <3>6. \A j \in DOMAIN backlog'[k] :
                j # x /\ live(backlog'[k][j]) =>
                    /\ backlog'[k][j].from # backlog'[k][x].from
                    /\ up'[backlog'[k][j].from] =>
                           /\ j \in DOMAIN backlog[k] /\ backlog'[k][j] = backlog[k][j]
                           /\ cli'[backlog'[k][j].from] = cli[backlog'[k][j].from]
                           /\ up[backlog'[k][j].from]
        BY <1>1, <2>1, <3>2, <3>4, <3>5, SMTT(30)
      <3>7. up'[k]
        BY <2>1, <2>3
      <3>8. QED
        BY <3>3, <3>6, <3>7, QueueGains
    <2>4. QED
      BY <2>2, <2>3
  <1>4. ASSUME NEW n \in Nodes, SendText(n)
        PROVE  QueueOK(k)'
    <2> DEFINE b == createBlockFromMessage(chain[n], n, cli[n].msg)
               p == cli[n].to
    <2>1. /\ up' = up /\ up[n] /\ up[p] /\ cli[n].pc = "connected"
          /\ \A l \in Nodes \ {n} : cli'[l] = cli[l]
          /\ cli'[n].pc = "waitText" /\ cli'[n].dst = cli[n].dst /\ cli'[n].block = b
          /\ cli'[n].reply = cli[n].reply
          /\ backlog'[k] = IF k = p THEN nowCarries(n, backlog[k], TextMessage(n, b))
                                    ELSE backlog[k]
      BY <1>1, <1>4 DEF SendText, Client
    <2>2. /\ p \in Nodes /\ cli[n].reply = "none" /\ cli[n].dst = p
          /\ TableOK(n) /\ TypeOK /\ cli[n].msg \in Msgs
      BY <2>1 DEF IInv, ClientOK, SocketsInv, SocketOK
    <2>3. b \in Block
      BY <2>2, CreatedBlock
    <2>4. \A i \in DOMAIN backlog[k] : live(backlog[k][i]) /\ backlog[k][i].from = n
                                          => k = p /\ backlog[k][i] = Open(n)
      BY <2>1, OnlyOpen
    <2> HIDE DEF b
    <2>5. CASE k # p \/ \A i \in DOMAIN backlog[k] : backlog[k][i] # Open(n)
      <3>1. /\ DOMAIN backlog'[k] = DOMAIN backlog[k]
            /\ \A i \in DOMAIN backlog[k] : backlog'[k][i] = backlog[k][i]
        BY <2>1, <2>5 DEF nowCarries
      <3>2. \A i \in DOMAIN backlog[k] : live(backlog[k][i]) => backlog[k][i].from # n
        BY <2>4, <2>5
      <3>3. ~up'[k] => backlog'[k] = << >>
        BY <1>1, <2>1 DEF QueueOK
      <3>4. QED
        BY <1>1, <2>1, <3>1, <3>2, <3>3, QueueKept
    <2>6. ASSUME k = p, NEW x \in DOMAIN backlog[k], backlog[k][x] = Open(n)
          PROVE  QueueOK(k)'
      <3>1. live(backlog[k][x]) /\ backlog[k][x].from = n
        BY <2>6 DEF live, Open
      <3>2. \A i \in DOMAIN backlog[k] : i # x =>
                ~(live(backlog[k][i]) /\ backlog[k][i].from = n) /\ backlog[k][i] # Open(n)
        BY <1>1, <2>1, <3>1 DEF QueueOK, Open, live
      <3>3. /\ DOMAIN backlog'[k] = DOMAIN backlog[k]
            /\ \A i \in DOMAIN backlog[k] :
                   backlog'[k][i] = IF i = x THEN TextMessage(n, b) ELSE backlog[k][i]
        BY <2>1, <2>6, <3>2 DEF nowCarries
      <3>4. backlog'[k][x] = TextMessage(n, b) /\ TextMessage(n, b).from = n
        BY <3>3 DEF TextMessage
      <3>5. awaited(k, backlog[k][x])'
        BY <2>1, <2>2, <2>6, <3>4 DEF awaited, TextMessage
      <3>6. \A j \in DOMAIN backlog'[k] :
                j # x /\ live(backlog'[k][j]) =>
                    /\ backlog'[k][j].from # n /\ backlog'[k][j] = backlog[k][j]
                    /\ cli'[backlog'[k][j].from] = cli[backlog'[k][j].from]
        BY <1>1, <2>1, <3>2, <3>3
      <3>7. QED
        BY <2>1, <2>6, <3>3, <3>4, <3>5, <3>6, QueueGains
    <2>7. QED
      BY <2>5, <2>6
  <1>5. ASSUME NEW n \in Nodes, MessageTooBig(n)
        PROVE  QueueOK(k)'
    <2> DEFINE p == cli[n].to
    <2>1. /\ up' = up /\ up[n] /\ cli[n].pc = "connected"
          /\ \A l \in Nodes \ {n} : cli'[l] = cli[l]
          /\ backlog'[k] = IF k = p THEN nowCarries(n, backlog[k], Closed(n)) ELSE backlog[k]
      BY <1>1, <1>5 DEF MessageTooBig
    <2>2. \A i \in DOMAIN backlog[k] : live(backlog[k][i]) /\ backlog[k][i].from = n
                                          => k = p /\ backlog[k][i] = Open(n)
      BY <2>1, OnlyOpen
    <2>3. /\ DOMAIN backlog'[k] = DOMAIN backlog[k]
          /\ \A i \in DOMAIN backlog[k] :
                 backlog'[k][i] = IF k = p /\ backlog[k][i] = Open(n) THEN Closed(n)
                                  ELSE backlog[k][i]
      BY <2>1 DEF nowCarries
    <2>4. ~live(Closed(n))
      BY DEF live, Closed
    <2>5. \A i \in DOMAIN backlog[k] :
              live(backlog'[k][i]) => backlog'[k][i] = backlog[k][i] /\ backlog[k][i].from # n
      BY <2>2, <2>3, <2>4
    <2>6. ~up'[k] => backlog'[k] = << >>
      <3>1. SUFFICES ASSUME ~up[k] PROVE backlog'[k] = << >>
        BY <2>1
      <3>2. backlog[k] = << >>
        BY <1>1, <3>1 DEF QueueOK
      <3>3. nowCarries(n, << >>, Closed(n)) = << >>
        BY DEF nowCarries
      <3>4. QED
        BY <2>1, <3>2, <3>3
    <2>7. QED
      BY <1>1, <2>1, <2>3, <2>5, <2>6, QueueKept
  <1>6. ASSUME NEW n \in Nodes, SendTextLost(n)
        PROVE  QueueOK(k)'
    <2>1. /\ up' = up /\ up[n] /\ ~up[cli[n].to] /\ cli[n].pc = "connected"
          /\ \A l \in Nodes \ {n} : cli'[l] = cli[l]
          /\ backlog'[k] = backlog[k]
      BY <1>1, <1>6 DEF SendTextLost
    <2>2. k = cli[n].to => backlog[k] = << >>
      BY <1>1, <2>1 DEF QueueOK
    <2>3. \A i \in DOMAIN backlog[k] : live(backlog[k][i]) => backlog[k][i].from # n
      BY <2>1, <2>2, OnlyOpen
    <2>4. ~up'[k] => backlog'[k] = << >>
      BY <1>1, <2>1 DEF QueueOK
    <2>5. QED
      BY <1>1, <2>1, <2>3, <2>4, QueueKept
  <1>7. ASSUME NEW n \in Nodes,
               \/ TextAnswered(n) \/ AddChatPeer(n) \/ BlockAnswered(n) \/ BlockAnswerCut(n)
               \/ CheckOwnBlock(n) \/ InsertOwnBlock(n) \/ Rollback(n) \/ \E p \in Nodes : SkipPeer(n, p)
        PROVE  QueueOK(k)'
    <2>1. /\ up[n] /\ backlog' = backlog
          /\ cli[n].pc \notin {"connected", "waitText", "waitBlock"} \/ cli[n].reply # "none"
      BY <1>7 DEF TextAnswered, AddChatPeer, BlockAnswered, BlockAnswerCut, CheckOwnBlock,
         InsertOwnBlock,
                  Rollback, SkipPeer
    <2>2. up' = up /\ \A m \in Nodes \ {n} : cli'[m] = cli[m]
      BY <1>7, ClientStepLocal DEF ClientStep
    <2>3. QED
      BY <2>1, <2>2, QueueUntouched
  <1>8. ASSUME NEW n \in Nodes, NotifyRecipient(n)
        PROVE  QueueOK(k)'
    <2>1. /\ up[n] /\ cli[n].pc = "notify" /\ cli[n].block \in Block /\ up' = up
          /\ \A m \in Nodes \ {n} : cli'[m] = cli[m]
      BY <1>1, <1>8 DEF NotifyRecipient, IInv, ClientOK
    <2>2. \/ backlog'[k] = backlog[k]
          \/ up[k] /\ backlog'[k] = Append(backlog[k], BlockchainErrorMessage(n, cli[n].block))
      BY <1>1, <1>8 DEF NotifyRecipient, connectTo
    <2>3. BlockchainErrorMessage(n, cli[n].block) \in Request
      BY <2>1, Requests
    <2>4. ~live(BlockchainErrorMessage(n, cli[n].block))
      BY DEF live, BlockchainErrorMessage
    <2>5. QED
      BY <2>1, <2>2, <2>3, <2>4, QueueUntouched
  <1>9. ASSUME NEW n \in Nodes, ServerStep(n)
        PROVE  QueueOK(k)'
    <2>1. /\ up[n] /\ backlog[n] # << >> /\ up' = up
          /\ k # n => backlog'[k] = backlog[k]
      BY <1>9, ServerStepLocal
    <2>2. CASE backlog' = backlog /\ cli' = cli
      <3>1. ~up'[k] => backlog'[k] = << >>
        BY <1>1, <2>1, <2>2 DEF QueueOK
      <3>2. QED
        BY <1>1, <2>1, <2>2, <3>1, QueueKept
    <2>3. /\ DOMAIN Tail(backlog[n]) \subseteq Int /\ 1 \in DOMAIN backlog[n]
          /\ request(n) = backlog[n][1] /\ backlog[n] \in Seq(Request)
          /\ \A j \in DOMAIN Tail(backlog[n]) :
                 j + 1 \in DOMAIN backlog[n] /\ Tail(backlog[n])[j] = backlog[n][j + 1]
      BY <1>1, <2>1, TailOfQueue, LenProperties DEF request
    <2>4. \A j \in DOMAIN Tail(backlog[n]) : j + 1 # 1
      BY <2>3, TailOfQueue, LenProperties
    <2>5. /\ up'[n] /\ (~up'[k] => k # n /\ backlog[k] = << >>)
      BY <1>1, <2>1 DEF QueueOK
    <2>6. CASE backlog'[n] = Tail(backlog[n]) /\ cli' = cli
      <3>1. CASE k = n
        <4>1. \A j \in DOMAIN backlog'[k] :
                  j + 1 \in DOMAIN backlog[k] /\ backlog'[k][j] = backlog[k][j + 1]
          BY <2>3, <2>6, <3>1
        <4>2. DOMAIN backlog'[k] \subseteq Int /\ up'[k]
          BY <2>3, <2>5, <2>6, <3>1
        <4>3. QED
          BY <2>1, <2>6, <4>1, <4>2, QueueKept
      <3>2. CASE k # n
        BY <1>1, <2>1, <2>5, <2>6, <3>2, QueueKept
      <3>3. QED
        BY <3>1, <3>2
    <2>7. ASSUME backlog'[n] = Tail(backlog[n]), live(request(n)), NEW a, answerWith(n, a)
          PROVE  QueueOK(k)'
      <3> DEFINE f == request(n).from
      <3>1. /\ \A m \in Nodes \ {f} : cli'[m] = cli[m]
            /\ ~up[f] => cli' = cli
        BY <1>1, <2>7 DEF answerWith
      <3>2. CASE ~up[f]
        BY <2>6, <2>7, <3>1, <3>2
      <3>3. ASSUME up[f], NEW j \in DOMAIN backlog[k], live(backlog[k][j]),
                   backlog[k][j].from = f
            PROVE  k = n /\ j = 1
        <4>1. QueueOK(n) /\ awaited(k, backlog[k][j])
          BY <1>1, <3>3 DEF QueueOK, SocketsInv
        <4>2. awaited(n, backlog[n][1])
          BY <2>3, <2>7, <3>3, <4>1 DEF QueueOK
        <4>3. k = n
          BY <2>3, <3>3, <4>1, <4>2 DEF awaited
        <4>4. QED
          BY <2>3, <2>7, <3>3, <4>1, <4>3 DEF QueueOK
      <3>4. CASE up[f] /\ k # n
        <4>1. \A j \in DOMAIN backlog[k] : live(backlog[k][j]) => backlog[k][j].from # f
          BY <3>3, <3>4
        <4>2. QED
          BY <1>1, <2>1, <2>5, <3>1, <3>4, <4>1, QueueStays
      <3>5. CASE up[f] /\ k = n
        <4>1. \A j \in DOMAIN backlog'[k] :
                  /\ j + 1 \in DOMAIN backlog[k] /\ backlog'[k][j] = backlog[k][j + 1]
                  /\ j + 1 # 1
          BY <2>3, <2>4, <2>7, <3>5
        <4>2. \A j \in DOMAIN backlog'[k] :
                  live(backlog'[k][j]) => cli'[backlog'[k][j].from] = cli[backlog'[k][j].from]
          BY <1>1, <3>1, <3>3, <3>5, <4>1
        <4>3. DOMAIN backlog'[k] \subseteq Int /\ up'[k]
          BY <2>3, <2>5, <2>7, <3>5
        <4>4. QED
          BY <2>1, <4>1, <4>2, <4>3, QueueKept
      <3>6. QED
        BY <3>2, <3>4, <3>5
    <2>8. QED
      BY <1>9, <2>2, <2>6, <2>7, ServerStepLocal DEF live
  <1>10. ASSUME NEW n \in Nodes, Crash(n)
         PROVE  QueueOK(k)'
    <2>1. /\ up' = [up EXCEPT ![n] = FALSE]
          /\ backlog'[k] = IF k = n THEN << >> ELSE nowCarries(n, backlog[k], Closed(n))
          /\ \A m \in Nodes \ {n} : cli'[m] = IF awaits(m, n) THEN [cli[m] EXCEPT !.reply = "closed"]
                                                              ELSE cli[m]
      BY <1>10 DEF Crash
    <2>2. /\ up'[n] = FALSE /\ \A m \in Nodes \ {n} : up'[m] = up[m]
      BY <1>1, <2>1
    <2>3. CASE k = n
      <3>1. backlog'[k] = << >> /\ DOMAIN backlog'[k] = {}
        BY <2>1, <2>3
      <3>2. QED
        BY <3>1 DEF QueueOK
    <2>4. CASE k # n
      <3>1. /\ DOMAIN backlog'[k] = DOMAIN backlog[k]
            /\ \A i \in DOMAIN backlog[k] :
                   backlog'[k][i] = IF backlog[k][i] = Open(n) THEN Closed(n) ELSE backlog[k][i]
        BY <2>1, <2>4 DEF nowCarries
      <3>2. ASSUME NEW i \in DOMAIN backlog[k], live(backlog'[k][i]), up'[backlog'[k][i].from]
            PROVE  /\ backlog'[k][i] = backlog[k][i] /\ up[backlog[k][i].from]
                   /\ cli'[backlog[k][i].from] = cli[backlog[k][i].from]
        <4>1. ~live(Closed(n))
          BY DEF live, Closed
        <4>2. backlog'[k][i] = backlog[k][i]
          BY <3>1, <3>2, <4>1
        <4>3. backlog[k][i].from \in Nodes \ {n} /\ up[backlog[k][i].from]
          BY <1>1, <2>2, <3>2, <4>2
        <4>4. cli[backlog[k][i].from].dst = k
          BY <1>1, <3>2, <4>2, <4>3 DEF QueueOK, awaited
        <4>5. QED
          BY <2>1, <2>4, <4>2, <4>3, <4>4 DEF awaits
      <3>3. ~up'[k] => backlog'[k] = << >>
        <4>1. SUFFICES ASSUME ~up[k] PROVE backlog'[k] = << >>
          BY <2>2, <2>4
        <4>2. backlog[k] = << >>
          BY <1>1, <4>1 DEF QueueOK
        <4>3. nowCarries(n, << >>, Closed(n)) = << >>
          BY DEF nowCarries
        <4>4. QED
          BY <2>1, <2>4, <4>2, <4>3
      <3>4. QED
        BY <1>1, <3>1, <3>2, <3>3, QueueStays
    <2>5. QED
      BY <2>3, <2>4
  <1>11. CASE (\E n, p \in Nodes, m \in Msgs : ConnectFails(n, m, p)) \/ UNCHANGED vars
    <2>1. backlog' = backlog /\ cli' = cli /\ up' = up
      BY <1>11 DEF ConnectFails, vars
    <2>2. ~up'[k] => backlog'[k] = << >>
      BY <1>1, <2>1 DEF QueueOK
    <2>3. QED
      BY <1>1, <2>1, <2>2, QueueKept
  <1>12. QED
    BY <1>2, <1>3, <1>4, <1>5, <1>6, <1>7, <1>8, <1>9, <1>10, <1>11 DEF Next, ClientStep

\* A client whose reply has just come in was waiting for it.
LEMMA AnsweredClient ==
    ASSUME IInv, SocketsInv, NEW n \in Nodes, backlog[n] # << >>,
           request(n).type \in {"TEXT_MESSAGE", "BLOCK"}, NEW a, answerWith(n, a),
           NEW k \in Nodes, cli'[k] # cli[k]
    PROVE  /\ k = request(n).from /\ up[k] /\ k # n /\ cli'[k] = [cli[k] EXCEPT !.reply = a]
           /\ cli[k].dst = n /\ cli[k].reply = "none"
           /\ request(n).block = cli[k].block
           /\ cli[k].pc = IF request(n).type = "TEXT_MESSAGE" THEN "waitText" ELSE "waitBlock"
  <1>1. cli \in [Nodes -> Client] /\ QueueOK(n)
    BY DEF IInv, TypeOK, SocketsInv
  <1>2. k = request(n).from /\ up[k] /\ cli'[k] = [cli[k] EXCEPT !.reply = a]
    BY <1>1 DEF answerWith
  <1>3. 1 \in DOMAIN backlog[n] /\ request(n) = backlog[n][1] /\ k # n
    BY <1>2, TailOfQueue, ServedRequest DEF IInv, TypeOK, request
  <1>4. awaited(n, request(n))
    BY <1>1, <1>2, <1>3 DEF QueueOK, live
  <1>5. QED
    BY <1>2, <1>3, <1>4 DEF awaited

\* Every step keeps what is known of a client and its socket.
LEMMA SocketStep ==
    ASSUME IInv, SocketsInv, [Next]_vars, NEW k \in Nodes
    PROVE  SocketOK(k)'
  <1>1. /\ cli \in [Nodes -> Client] /\ cli[k] \in Client /\ SocketOK(k) /\ ClientOK(k)
        /\ up \in [Nodes -> BOOLEAN]
    BY DEF IInv, TypeOK, SocketsInv
  <1>2. CASE cli'[k] = cli[k] /\ up'[k] = up[k]
    BY <1>1, <1>2 DEF SocketOK
  <1>3. CASE cli'[k] = Idle
    BY <1>3 DEF SocketOK, Idle
  <1>4. ASSUME NEW n \in Nodes, NEW m \in Msgs, NEW p \in Nodes,
               Connect(n, m, p) \/ ConnectFails(n, m, p)
        PROVE  SocketOK(k)'
    <2>1. CASE cli'[k] # cli[k]
      <3>1. /\ up'[k] = up[k] /\ up[k] /\ p \in Peers[k]
            /\ cli'[k] = [Idle EXCEPT !.pc = "connected", !.msg = m, !.to = p, !.dst = p]
        BY <1>1, <1>4, <2>1 DEF Connect, ConnectFails
      <3>2. QED
        BY <3>1 DEF SocketOK, Idle
    <2>2. QED
      BY <1>2, <1>4, <2>1 DEF Connect, ConnectFails
  <1>5. ASSUME NEW n \in Nodes, Crash(n)
        PROVE  SocketOK(k)'
    <2>1. CASE k = n
      BY <1>3, <1>5, <2>1 DEF Crash
    <2>2. CASE k # n
      <3>1. up'[k] = up[k] /\ cli'[k] = IF awaits(k, n) THEN [cli[k] EXCEPT !.reply = "closed"]
                                                        ELSE cli[k]
        BY <1>1, <1>5, <2>2 DEF Crash
      <3>2. CASE awaits(k, n)
        BY <1>1, <3>1, <3>2 DEF awaits, SocketOK, Client, Idle
      <3>3. QED
        BY <1>2, <3>1, <3>2
    <2>3. QED
      BY <2>1, <2>2
  <1>6. ASSUME NEW n \in Nodes, ServerStep(n)
        PROVE  SocketOK(k)'
    <2>1. up' = up /\ backlog[n] # << >>
      BY <1>6, ServerStepLocal
    <2>2. ASSUME NEW a, answerWith(n, a), request(n).type \in {"TEXT_MESSAGE", "BLOCK"},
                 cli'[k] # cli[k]
          PROVE  SocketOK(k)'
      <3>1. /\ cli'[k] = [cli[k] EXCEPT !.reply = a] /\ up[k]
            /\ cli[k].pc \in {"waitText", "waitBlock"}
        BY <2>1, <2>2, AnsweredClient
      <3>2. QED
        BY <1>1, <2>1, <3>1 DEF SocketOK, Client
    <2>3. QED
      BY <1>2, <1>6, <2>1, <2>2, ServerStepLocal
  <1>7. ASSUME NEW n \in Nodes, ClientStep(n)
        PROVE  SocketOK(k)'
    <2>1. up' = up /\ up[n] /\ cli[n].pc # "idle" /\ (k # n => cli'[k] = cli[k])
      BY <1>7, ClientStepLocal
    <2>2. CASE k # n
      BY <1>2, <2>1, <2>2
    <2>3. CASE k = n
      <3>1. cli[k].to \in Peers[k] /\ up'[k] /\ up[k]
        BY <1>1, <2>1, <2>3 DEF SocketOK
      <3>2. CASE SendText(k)
        BY <1>1, <3>1, <3>2 DEF SendText, SocketOK, Client
      <3>3. CASE MessageTooBig(k) \/ NotifyRecipient(k)
        BY <1>1, <1>3, <3>3 DEF MessageTooBig, NotifyRecipient
      <3>4. CASE SendTextLost(k)
        <4>1. CASE cli'[k] # Idle
          <5> DEFINE b == createBlockFromMessage(chain[k], k, cli[k].msg)
          <5>1. /\ cli[k].pc = "connected"
                /\ cli'[k] = [cli[k] EXCEPT !.pc = "waitText", !.block = b, !.reply = "closed"]
            BY <1>1, <3>4, <4>1 DEF SendTextLost
          <5> HIDE DEF b
          <5>2. QED
            BY <1>1, <3>1, <5>1 DEF SocketOK, Client
        <4>2. QED
          BY <1>3, <4>1
      <3>5. CASE TextAnswered(k)
        BY <1>1, <3>1, <3>5 DEF TextAnswered, SocketOK, Client
      <3>6. CASE AddChatPeer(k)
        BY <1>1, <3>1, <3>6 DEF AddChatPeer, SocketOK, Client
      <3>7. ASSUME NEW p \in Nodes, SendBlock(k, p) \/ SkipPeer(k, p)
            PROVE  SocketOK(k)'
        <4>1. CASE SendBlock(k, p)
          BY <1>1, <3>1, <4>1 DEF SendBlock, SocketOK, Client
        <4>2. CASE SkipPeer(k, p)
          BY <1>1, <3>1, <4>2 DEF SkipPeer, SocketOK, Client
        <4>3. QED
          BY <3>7, <4>1, <4>2
      <3>8. CASE BlockAnswered(k)
        BY <1>1, <3>1, <3>8 DEF BlockAnswered, SocketOK, Client
      <3>9. CASE CheckOwnBlock(k)
        BY <1>1, <3>1, <3>9 DEF CheckOwnBlock, SocketOK, Client
      <3>10. CASE InsertOwnBlock(k)
        <4>1. CASE cli'[k] # Idle
          BY <1>1, <3>1, <3>10, <4>1 DEF InsertOwnBlock, SocketOK, Client
        <4>2. QED
          BY <1>3, <4>1
      <3>11. CASE Rollback(k)
        BY <1>1, <3>1, <3>11 DEF Rollback, SocketOK, Client
      <3>12. CASE BlockAnswerCut(k)
        BY <1>1, <3>1, <3>12 DEF BlockAnswerCut, SocketOK, Client
      <3>13. QED
        BY <1>7, <2>3, <3>2, <3>3, <3>4, <3>5, <3>6, <3>7, <3>8, <3>9, <3>10, <3>11, <3>12
           DEF ClientStep
    <2>4. QED
      BY <2>2, <2>3
  <1>8. QED
    BY <1>2, <1>4, <1>5, <1>6, <1>7 DEF Next, vars

\* The request a server thread is in the middle of stays the first of its queue,
\* whatever other nodes send; only its own steps move on from it.
LEMMA HandlerStep ==
    ASSUME IInv, SocketsInv, [Next]_vars, NEW k \in Nodes
    PROVE  /\ HandlerOK(k)'
           /\ srv[k] # "accept" /\ up'[k] =>
                  \/ srv'[k] = srv[k] /\ backlog'[k] # << >> /\ request(k)' = request(k)
                  \/ ServerStep(k)
  <1>1. /\ backlog \in [Nodes -> Seq(Request)] /\ HandlerOK(k) /\ QueueOK(k)
        /\ srv \in [Nodes -> {"accept", "addChat", "check", "insert"}]
        /\ up \in [Nodes -> BOOLEAN]
    BY DEF IInv, TypeOK, SocketsInv
  <1> DEFINE Stays == /\ up'[k] = up[k] /\ srv'[k] = srv[k]
                      /\ srv[k] # "accept" => backlog'[k] # << >> /\ request(k)' = request(k)
  <1>2. Stays => HandlerOK(k)' /\ (srv[k] # "accept" /\ up'[k] =>
                  \/ srv'[k] = srv[k] /\ backlog'[k] # << >> /\ request(k)' = request(k)
                  \/ ServerStep(k))
    BY <1>1 DEF HandlerOK
  <1>3. srv[k] # "accept" => backlog[k] # << >> /\ \A n : Head(backlog[k]) # Open(n)
    BY <1>1 DEF HandlerOK, request, Open
  <1>4. ASSUME up'[k] = up[k], srv'[k] = srv[k],
               \/ backlog'[k] = backlog[k]
               \/ \E q \in Request : backlog'[k] = Append(backlog[k], q)
               \/ \E n \in Nodes, q \in Request : backlog'[k] = nowCarries(n, backlog[k], q)
        PROVE  Stays
    BY <1>1, <1>3, <1>4, HeadStays DEF request
  <1> HIDE DEF Stays
  <1>5. ASSUME NEW n \in Nodes, NEW m \in Msgs, NEW p \in Nodes,
               Connect(n, m, p) \/ ConnectFails(n, m, p)
        PROVE  Stays
    <2>1. up' = up /\ srv' = srv /\ (backlog'[k] = backlog[k] \/ backlog'[k] = Append(backlog[k], Open(n)))
      BY <1>1, <1>5 DEF Connect, ConnectFails, connectTo
    <2>2. QED
      BY <1>4, <2>1, Requests
  <1>6. ASSUME NEW n \in Nodes, ClientStep(n)
        PROVE  Stays
    <2>1. up' = up /\ srv' = srv /\ TypeOK /\ TableOK(n) /\ ClientOK(n)
      BY <1>6, ClientStepLocal DEF IInv
    <2>2. CASE SendText(n)
      <3> DEFINE b == createBlockFromMessage(chain[n], n, cli[n].msg)
      <3>1. b \in Block
        BY <2>1, <2>2, CreatedBlock DEF SendText, ClientOK
      <3>2. backlog'[k] = backlog[k] \/ backlog'[k] = nowCarries(n, backlog[k], TextMessage(n, b))
        BY <1>1, <2>2 DEF SendText
      <3> HIDE DEF b
      <3>3. QED
        BY <1>4, <2>1, <3>1, <3>2, Requests
    <2>3. CASE MessageTooBig(n)
      <3>1. backlog'[k] = backlog[k] \/ backlog'[k] = nowCarries(n, backlog[k], Closed(n))
        BY <1>1, <2>3 DEF MessageTooBig
      <3>2. QED
        BY <1>4, <2>1, <3>1, Requests
    <2>4. ASSUME NEW p \in Nodes, SendBlock(n, p)
          PROVE  Stays
      <3>1. cli[n].block \in Block
        BY <2>1, <2>4 DEF SendBlock, ClientOK
      <3>2. backlog'[k] = backlog[k] \/ backlog'[k] = Append(backlog[k], BlockMessage(n, cli[n].block))
        BY <1>1, <2>4 DEF SendBlock, connectTo
      <3>3. QED
        BY <1>4, <2>1, <3>1, <3>2, Requests
    <2>5. CASE NotifyRecipient(n)
      <3>1. cli[n].block \in Block
        BY <2>1, <2>5 DEF NotifyRecipient, ClientOK
      <3>2. \/ backlog'[k] = backlog[k]
            \/ backlog'[k] = Append(backlog[k], BlockchainErrorMessage(n, cli[n].block))
        BY <1>1, <2>5 DEF NotifyRecipient, connectTo
      <3>3. QED
        BY <1>4, <2>1, <3>1, <3>2, Requests
    <2>6. QED
      BY <1>4, <1>6, <2>1, <2>2, <2>3, <2>4, <2>5
         DEF ClientStep, SendTextLost, TextAnswered, AddChatPeer, SkipPeer, BlockAnswered, BlockAnswerCut,
             CheckOwnBlock, InsertOwnBlock, Rollback
  <1>7. ASSUME NEW n \in Nodes, ServerStep(n), n # k
        PROVE  Stays
    BY <1>4, <1>7, ServerStepLocal
  <1>8. ASSUME ServerStep(k)
        PROVE  HandlerOK(k)'
    <2>1. srv'[k] # "accept" =>
              /\ backlog' = backlog /\ serving(k, IF srv'[k] = "addChat" THEN "TEXT_MESSAGE" ELSE "BLOCK")
      <3>1. (HandleTextMessage(k) \/ ValidateBlock(k) \/ CheckBlock(k)) /\ srv'[k] # "accept" =>
                    /\ backlog' = backlog
                    /\ serving(k, IF srv'[k] = "addChat" THEN "TEXT_MESSAGE" ELSE "BLOCK")
        BY <1>1 DEF HandleTextMessage, ValidateBlock, CheckBlock
      <3>2. AnswerTextMessage(k) \/ InsertBlock(k) => srv'[k] = "accept"
        BY <1>1 DEF AnswerTextMessage, InsertBlock
      <3>3. HandleBlockchainError(k) \/ DropClosed(k) \/ ReceivePart(k) => srv'[k] = "accept"
        BY <1>1 DEF HandleBlockchainError, DropClosed, ReceivePart, serving, HandlerOK
      <3>4. QED
        BY <1>8, <3>1, <3>2, <3>3 DEF ServerStep
    <2>2. up' = up
      BY <1>8, ServerStepLocal
    <2>3. QED
      BY <2>1, <2>2 DEF HandlerOK, serving, request
  <1>9. ASSUME NEW n \in Nodes, Crash(n)
        PROVE  HandlerOK(k)' /\ (up'[k] => Stays)
    <2>1. CASE k = n
      BY <1>1, <1>9, <2>1 DEF Crash, HandlerOK
    <2>2. CASE k # n
      <3>1. /\ up'[k] = up[k] /\ srv'[k] = srv[k]
            /\ backlog'[k] = nowCarries(n, backlog[k], Closed(n))
        BY <1>1, <1>9, <2>2 DEF Crash
      <3>2. QED
        BY <1>2, <1>4, <3>1, Requests
    <2>3. QED
      BY <2>1, <2>2
  <1>10. UNCHANGED vars => Stays
    BY <1>4 DEF vars
  <1>11. QED
    BY <1>2, <1>5, <1>6, <1>7, <1>8, <1>9, <1>10 DEF Next

\* Nobody waits at the start.
LEMMA SocketsInit == Init => SocketsInv
  <1>1. SUFFICES ASSUME Init, NEW n \in Nodes
                 PROVE  QueueOK(n) /\ SocketOK(n) /\ HandlerOK(n)
    BY DEF SocketsInv
  <1>2. cli[n] = Idle /\ backlog[n] = << >> /\ srv[n] = "accept" /\ up[n]
    BY <1>1 DEF Init
  <1>3. DOMAIN backlog[n] = {}
    BY <1>2
  <1>4. QED
    BY <1>2, <1>3 DEF QueueOK, SocketOK, HandlerOK, Idle

\* Who waits for whom: a running client has one live request at most, at the
\* node it is connected to, and an answer reaches the client that waits for it.
THEOREM SocketsAlways == Spec => []SocketsInv
  <1>1. IInv /\ SocketsInv /\ [Next]_vars => SocketsInv'
    BY QueueStep, SocketStep, HandlerStep DEF SocketsInv
  <1>2. QED
    BY <1>1, SocketsInit, Inductive, PTL DEF Spec
=============================================================================
