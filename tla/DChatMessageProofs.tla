-------------------------- MODULE DChatMessageProofs --------------------------
(***************************************************************************)
(* Proofs about DChat, continued: a message has one sender, one recipient  *)
(* and one block; it is stored as long as its block is, and can be shown.  *)
(***************************************************************************)
EXTENDS DChatSocketProofs

-----------------------------------------------------------------------------
(* What a step does to the input thread, field by field.                   *)

\* The message and the recipient of a send stay the same.
sameSend(n) == cli'[n].msg = cli[n].msg /\ cli'[n].to = cli[n].to

\* The first half of sendSecretMessage.
LEMMA ClientFields ==
    ASSUME IInv, NEW n \in Nodes
    PROVE  /\ SendText(n) \/ (SendTextLost(n) /\ cli'[n] # Idle) =>
                  /\ cli[n].pc = "connected" /\ cli'[n].pc = "waitText" /\ sameSend(n)
                  /\ cli'[n].block = createBlockFromMessage(chain[n], n, cli[n].msg)
                  /\ cli'[n].todo = cli[n].todo /\ cli'[n].dst = cli[n].dst
           /\ TextAnswered(n) =>
                  /\ cli[n].pc = "waitText" /\ cli'[n].pc = "addChat" /\ sameSend(n)
                  /\ cli'[n].block = cli[n].block /\ cli'[n].reply = "none"
                  /\ cli[n].reply # "none"
           /\ AddChatPeer(n) =>
                  /\ cli[n].pc = "addChat" /\ cli'[n].pc = "broadcast" /\ sameSend(n)
                  /\ cli'[n].block = cli[n].block /\ cli'[n].todo = Peers[n]
  <1>1. cli \in [Nodes -> Client] /\ cli[n] \in Client
    BY DEF IInv, TypeOK
  <1> DEFINE b == createBlockFromMessage(chain[n], n, cli[n].msg)
  <1>2. ASSUME SendText(n) \/ (SendTextLost(n) /\ cli'[n] # Idle)
        PROVE  /\ cli[n].pc = "connected"
               /\ \/ cli'[n] = [cli[n] EXCEPT !.pc = "waitText", !.block = b]
                  \/ cli'[n] = [cli[n] EXCEPT !.pc = "waitText", !.block = b, !.reply = "closed"]
    BY <1>1, <1>2 DEF SendText, SendTextLost
  <1> HIDE DEF b
  <1>3. ASSUME SendText(n) \/ (SendTextLost(n) /\ cli'[n] # Idle)
        PROVE  /\ cli[n].pc = "connected" /\ cli'[n].pc = "waitText" /\ sameSend(n)
               /\ cli'[n].block = b
               /\ cli'[n].todo = cli[n].todo /\ cli'[n].dst = cli[n].dst
    BY <1>1, <1>2, <1>3 DEF Client, sameSend
  <1>4. ASSUME TextAnswered(n)
        PROVE  /\ cli[n].pc = "waitText" /\ cli'[n].pc = "addChat" /\ sameSend(n)
               /\ cli'[n].block = cli[n].block /\ cli'[n].reply = "none"
               /\ cli[n].reply # "none"
    BY <1>1, <1>4 DEF TextAnswered, Client, sameSend
  <1>5. ASSUME AddChatPeer(n)
        PROVE  /\ cli[n].pc = "addChat" /\ cli'[n].pc = "broadcast" /\ sameSend(n)
               /\ cli'[n].block = cli[n].block /\ cli'[n].todo = Peers[n]
    BY <1>1, <1>5 DEF AddChatPeer, Client, sameSend
  <1>6. QED
    BY <1>3, <1>4, <1>5 DEF b

\* The /send command.
LEMMA ConnectFields ==
    ASSUME IInv, SocketsInv, NEW n \in Nodes, NEW m, NEW p, Connect(n, m, p)
    PROVE  /\ cli[n] = Idle /\ m \in fresh /\ p \in Peers[n]
           /\ cli'[n].pc = "connected" /\ cli'[n].msg = m /\ cli'[n].to = p
           /\ \A k \in Nodes \ {n} : cli'[k] = cli[k]
  <1>1. cli \in [Nodes -> Client] /\ SocketOK(n)
    BY DEF IInv, TypeOK, SocketsInv
  <1>2. /\ cli'[n] = [Idle EXCEPT !.pc = "connected", !.msg = m, !.to = p, !.dst = p]
        /\ \A k \in Nodes \ {n} : cli'[k] = cli[k]
        /\ cli[n].pc = "idle" /\ m \in fresh /\ p \in Peers[n]
    BY <1>1 DEF Connect
  <1>3. QED
    BY <1>1, <1>2 DEF Idle, SocketOK

\* The broadcast, and what comes after it.
LEMMA BroadcastFields ==
    ASSUME IInv, NEW n \in Nodes
    PROVE  /\ \A p \in Nodes : SendBlock(n, p) =>
                  /\ cli[n].pc = "broadcast" /\ cli'[n].pc = "waitBlock" /\ sameSend(n)
                  /\ cli'[n].block = cli[n].block /\ cli'[n].todo = cli[n].todo \ {p}
                  /\ cli'[n].dst = p /\ cli'[n].reply = cli[n].reply
           /\ \A p \in Nodes : SkipPeer(n, p) =>
                  /\ cli[n].pc = "broadcast" /\ cli'[n].pc = "broadcast" /\ sameSend(n)
                  /\ cli'[n].block = cli[n].block /\ cli'[n].todo = cli[n].todo \ {p}
           /\ BlockAnswered(n) =>
                  /\ cli[n].pc = "waitBlock" /\ sameSend(n)
                  /\ cli'[n].pc = IF cli[n].reply = "ok" THEN "broadcast" ELSE "rollback"
                  /\ cli'[n].block = cli[n].block /\ cli'[n].todo = cli[n].todo
           /\ BlockAnswerCut(n) =>
                  /\ cli[n].pc = "waitBlock" /\ cli'[n].pc = "rollback" /\ sameSend(n)
                  /\ cli'[n].block = cli[n].block /\ cli'[n].todo = cli[n].todo
           /\ CheckOwnBlock(n) =>
                  /\ cli[n].pc = "broadcast" /\ sameSend(n)
                  /\ cli'[n].pc = IF insertAllowed(chain[n], cli[n].block)
                                  THEN "insert" ELSE "rollback"
                  /\ cli'[n].block = cli[n].block
           /\ InsertOwnBlock(n) =>
                  /\ cli[n].pc = "insert"
                  /\ IF hasBlock(chain[n], cli[n].block.hash)
                     THEN /\ cli'[n].pc = "rollback" /\ sameSend(n)
                          /\ cli'[n].block = cli[n].block
                     ELSE cli'[n] = Idle
           /\ Rollback(n) =>
                  /\ cli[n].pc = "rollback" /\ cli'[n].pc = "notify" /\ sameSend(n)
                  /\ cli'[n].block = cli[n].block
           /\ MessageTooBig(n) => cli[n].pc = "connected" /\ cli'[n] = Idle
           /\ NotifyRecipient(n) => cli[n].pc = "notify" /\ cli'[n] = Idle
  <1>1. cli \in [Nodes -> Client] /\ cli[n] \in Client
    BY DEF IInv, TypeOK
  <1>2. ASSUME NEW p \in Nodes, SendBlock(n, p)
        PROVE  /\ cli[n].pc = "broadcast" /\ cli'[n].pc = "waitBlock" /\ sameSend(n)
               /\ cli'[n].block = cli[n].block /\ cli'[n].todo = cli[n].todo \ {p}
               /\ cli'[n].dst = p /\ cli'[n].reply = cli[n].reply
    BY <1>1, <1>2 DEF SendBlock, Client, sameSend
  <1>3. ASSUME NEW p \in Nodes, SkipPeer(n, p)
        PROVE  /\ cli[n].pc = "broadcast" /\ cli'[n].pc = "broadcast" /\ sameSend(n)
               /\ cli'[n].block = cli[n].block /\ cli'[n].todo = cli[n].todo \ {p}
    BY <1>1, <1>3 DEF SkipPeer, Client, sameSend
  <1>4. ASSUME BlockAnswered(n)
        PROVE  /\ cli[n].pc = "waitBlock" /\ sameSend(n)
               /\ cli'[n].pc = IF cli[n].reply = "ok" THEN "broadcast" ELSE "rollback"
               /\ cli'[n].block = cli[n].block /\ cli'[n].todo = cli[n].todo
    BY <1>1, <1>4 DEF BlockAnswered, Client, sameSend
  <1>0. ASSUME BlockAnswerCut(n)
        PROVE  /\ cli[n].pc = "waitBlock" /\ cli'[n].pc = "rollback" /\ sameSend(n)
               /\ cli'[n].block = cli[n].block /\ cli'[n].todo = cli[n].todo
    BY <1>0, <1>1 DEF BlockAnswerCut, Client, sameSend
  <1>5. ASSUME CheckOwnBlock(n)
        PROVE  /\ cli[n].pc = "broadcast" /\ sameSend(n)
               /\ cli'[n].pc = IF insertAllowed(chain[n], cli[n].block)
                               THEN "insert" ELSE "rollback"
               /\ cli'[n].block = cli[n].block
    BY <1>1, <1>5 DEF CheckOwnBlock, Client, sameSend
  <1>6. ASSUME InsertOwnBlock(n)
        PROVE  /\ cli[n].pc = "insert"
               /\ IF hasBlock(chain[n], cli[n].block.hash)
                  THEN /\ cli'[n].pc = "rollback" /\ sameSend(n)
                       /\ cli'[n].block = cli[n].block
                  ELSE cli'[n] = Idle
    <2>1. cli[n].pc = "insert"
      BY <1>6 DEF InsertOwnBlock
    <2>2. cli'[n] = IF hasBlock(chain[n], cli[n].block.hash)
                    THEN [cli[n] EXCEPT !.pc = "rollback"] ELSE Idle
      BY <1>1, <1>6 DEF InsertOwnBlock
    <2>3. QED
      BY <1>1, <2>1, <2>2 DEF Client, sameSend
  <1>7. ASSUME Rollback(n)
        PROVE  /\ cli[n].pc = "rollback" /\ cli'[n].pc = "notify" /\ sameSend(n)
               /\ cli'[n].block = cli[n].block
    BY <1>1, <1>7 DEF Rollback, Client, sameSend
  <1>8. /\ MessageTooBig(n) => cli[n].pc = "connected" /\ cli'[n] = Idle
        /\ NotifyRecipient(n) => cli[n].pc = "notify" /\ cli'[n] = Idle
    BY <1>1 DEF MessageTooBig, NotifyRecipient
  <1>9. QED
    BY <1>0, <1>2, <1>3, <1>4, <1>5, <1>6, <1>7, <1>8

\* What a step of anything but n's own input thread does to it.
LEMMA ClientMoves ==
    ASSUME IInv, SocketsInv, [Next]_vars, NEW k \in Nodes
    PROVE  \/ cli'[k] = cli[k]
           \/ ClientStep(k)
           \/ Crash(k) /\ cli'[k] = Idle
           \/ \E m \in Msgs, p \in Nodes : Connect(k, m, p)
           \/ /\ cli[k].pc \in {"waitText", "waitBlock"} /\ cli[k].reply = "none"
              /\ cli'[k].pc = cli[k].pc /\ sameSend(k) /\ cli'[k].block = cli[k].block
              /\ cli'[k].todo = cli[k].todo /\ cli'[k].dst = cli[k].dst
  <1>1. cli \in [Nodes -> Client] /\ cli[k] \in Client
    BY DEF IInv, TypeOK
  <1>2. ASSUME NEW a, cli'[k] = [cli[k] EXCEPT !.reply = a]
        PROVE  /\ cli'[k].pc = cli[k].pc /\ sameSend(k) /\ cli'[k].block = cli[k].block
               /\ cli'[k].todo = cli[k].todo /\ cli'[k].dst = cli[k].dst
    BY <1>1, <1>2 DEF Client, sameSend
  <1>3. SUFFICES ASSUME cli'[k] # cli[k], ~ClientStep(k), Next
                 PROVE  \/ Crash(k) /\ cli'[k] = Idle
                        \/ \E m \in Msgs, p \in Nodes : Connect(k, m, p)
                        \/ /\ cli[k].pc \in {"waitText", "waitBlock"} /\ cli[k].reply = "none"
                           /\ \E a : cli'[k] = [cli[k] EXCEPT !.reply = a]
    BY <1>2 DEF vars
  <1>4. ASSUME NEW n \in Nodes, ClientStep(n)
        PROVE  FALSE
    BY <1>3, <1>4, ClientStepLocal
  <1>5. ASSUME NEW n \in Nodes, ServerStep(n)
        PROVE  /\ cli[k].pc \in {"waitText", "waitBlock"} /\ cli[k].reply = "none"
               /\ \E a : cli'[k] = [cli[k] EXCEPT !.reply = a]
    <2>1. PICK a : /\ answerWith(n, a) /\ backlog[n] # << >>
                   /\ request(n).type \in {"TEXT_MESSAGE", "BLOCK"}
      BY <1>3, <1>5, ServerStepLocal
    <2>2. QED
      BY <1>3, <2>1, AnsweredClient
  <1>6. ASSUME NEW n \in Nodes, Crash(n)
        PROVE  \/ Crash(k) /\ cli'[k] = Idle
               \/ /\ cli[k].pc \in {"waitText", "waitBlock"} /\ cli[k].reply = "none"
                  /\ \E a : cli'[k] = [cli[k] EXCEPT !.reply = a]
    <2>1. cli'[k] = IF k = n THEN Idle ELSE IF awaits(k, n) THEN [cli[k] EXCEPT !.reply = "closed"]
                                            ELSE cli[k]
      BY <1>6 DEF Crash
    <2>2. QED
      BY <1>3, <1>6, <2>1 DEF awaits
  <1>7. ASSUME NEW n \in Nodes, NEW m \in Msgs, NEW p \in Nodes,
               Connect(n, m, p) \/ ConnectFails(n, m, p)
        PROVE  Connect(k, m, p)
    BY <1>1, <1>3, <1>7 DEF Connect, ConnectFails
  <1>8. QED
    BY <1>3, <1>4, <1>5, <1>6, <1>7 DEF Next

-----------------------------------------------------------------------------
(* Where blocks and messages come from.                                    *)

\* This step makes block b for the message n is sending.
Makes(n, b) ==
    /\ cli[n].pc = "connected" /\ b = createBlockFromMessage(chain[n], n, cli[n].msg)
    /\ cli'[n].pc = "waitText" /\ sameSend(n)
    /\ fresh' = fresh /\ messages' = messages
    /\ \A m \in Nodes \ {n} : cli'[m] = cli[m]

\* This step is the /send command of message r.
Types(n, r) ==
    /\ cli[n].pc = "idle" /\ cli'[n].pc = "connected"
    /\ cli'[n].msg = r.id /\ cli'[n].to = r.to
    /\ r.id \in fresh /\ fresh' = fresh \ {r.id}
    /\ r.from = n /\ r.to \in Peers[n]
    /\ messages' = messages
    /\ \A m \in Nodes \ {n} : cli'[m] = cli[m]

\* Sending the text makes a block.
LEMMA TextMakes ==
    ASSUME IInv, NEW n \in Nodes, SendText(n) \/ (SendTextLost(n) /\ cli'[n] # Idle)
    PROVE  Makes(n, createBlockFromMessage(chain[n], n, cli[n].msg))
  <1>1. ClientStep(n) /\ messages' = messages
    BY DEF ClientStep, SendText, SendTextLost
  <1>2. fresh' = fresh /\ \A m \in Nodes \ {n} : cli'[m] = cli[m]
    BY <1>1, ClientStepLocal
  <1>3. QED
    BY <1>1, <1>2, ClientFields DEF Makes

\* An input thread is with the message and the block it was with before, or has
\* just made the block, or has just got the command.
LEMMA ClientOrigin ==
    ASSUME IInv, SocketsInv, [Next]_vars, NEW k \in Nodes, cli'[k].pc # "idle"
    PROVE  \/ /\ cli[k].pc # "idle" /\ sameSend(k)
              /\ cli'[k].pc = "connected" <=> cli[k].pc = "connected"
              /\ cli'[k].pc # "connected" => cli'[k].block = cli[k].block
           \/ Makes(k, cli'[k].block)
           \/ Types(k, [id |-> cli'[k].msg, from |-> k, to |-> cli'[k].to])
  <1>1. CASE cli'[k] = cli[k]
    BY <1>1 DEF sameSend
  <1>2. CASE Crash(k) /\ cli'[k] = Idle
    BY <1>2 DEF Idle
  <1>3. ASSUME NEW m \in Msgs, NEW p \in Nodes, Connect(k, m, p)
        PROVE  Types(k, [id |-> cli'[k].msg, from |-> k, to |-> cli'[k].to])
    <2>1. /\ cli'[k] = [Idle EXCEPT !.pc = "connected", !.msg = m, !.to = p, !.dst = p]
          /\ \A l \in Nodes \ {k} : cli'[l] = cli[l]
      BY <1>3 DEF Connect, IInv, TypeOK
    <2>2. cli'[k].pc = "connected" /\ cli'[k].msg = m /\ cli'[k].to = p
      BY <2>1 DEF Idle
    <2>3. QED
      BY <1>3, <2>1, <2>2 DEF Connect, Types
  <1>4. CASE ClientStep(k)
    <2>1. cli'[k] # Idle
      BY DEF Idle
    <2>2. CASE SendText(k) \/ SendTextLost(k)
      BY <2>1, <2>2, TextMakes, ClientFields
    <2>3. CASE TextAnswered(k) \/ AddChatPeer(k)
      BY <2>3, ClientFields
    <2>4. ASSUME NEW p \in Nodes, SendBlock(k, p) \/ SkipPeer(k, p)
          PROVE  cli[k].pc \notin {"idle", "connected"} /\ cli'[k].pc # "connected" /\ sameSend(k)
                 /\ cli'[k].block = cli[k].block
      BY <2>4, BroadcastFields
    <2>5. CASE BlockAnswered(k) \/ BlockAnswerCut(k) \/ CheckOwnBlock(k) \/ InsertOwnBlock(k) \/ Rollback(k)
      BY <2>1, <2>5, BroadcastFields
    <2>6. CASE MessageTooBig(k) \/ NotifyRecipient(k)
      BY <2>1, <2>6, BroadcastFields
    <2>7. QED
      BY <1>4, <2>2, <2>3, <2>4, <2>5, <2>6 DEF ClientStep
  <1>5. QED
    BY <1>1, <1>2, <1>3, <1>4, ClientMoves

\* A request in a queue was there before or has just been sent.
LEMMA RequestOrigin ==
    ASSUME IInv, [Next]_vars, NEW k \in Nodes, NEW i \in DOMAIN backlog'[k],
           backlog'[k][i].type \notin {"open", "closed"}
    PROVE  \/ \E j \in DOMAIN backlog[k] : backlog'[k][i] = backlog[k][j]
           \/ \E n \in Nodes :
                  /\ SendText(n) /\ k = cli[n].to
                  /\ backlog'[k][i] =
                         TextMessage(n, createBlockFromMessage(chain[n], n, cli[n].msg))
           \/ \E n \in Nodes : SendBlock(n, k) /\ backlog'[k][i] = BlockMessage(n, cli[n].block)
           \/ \E n \in Nodes :
                  /\ NotifyRecipient(n) /\ k = cli[n].to /\ up[k]
                  /\ backlog'[k][i] = BlockchainErrorMessage(n, cli[n].block)
  <1>1. backlog \in [Nodes -> Seq(Request)] /\ backlog[k] \in Seq(Request)
    BY DEF IInv, TypeOK
  <1> DEFINE Old == \E j \in DOMAIN backlog[k] : backlog'[k][i] = backlog[k][j]
  <1>2. CASE backlog'[k] = backlog[k]
    BY <1>2
  <1>3. ASSUME NEW q \in Request, backlog'[k] = Append(backlog[k], q)
        PROVE  Old \/ backlog'[k][i] = q
    BY <1>1, <1>3, QueueOps
  <1>4. ASSUME NEW n, NEW q, backlog'[k] = nowCarries(n, backlog[k], q)
        PROVE  Old \/ backlog'[k][i] = q
    BY <1>4 DEF nowCarries
  <1>5. \A n : Open(n).type \in {"open", "closed"} /\ Closed(n).type \in {"open", "closed"}
    BY DEF Open, Closed
  <1>6. ASSUME NEW n \in Nodes, NEW m \in Msgs, NEW p \in Nodes,
               Connect(n, m, p) \/ ConnectFails(n, m, p)
        PROVE  Old
    <2>1. backlog'[k] = backlog[k] \/ backlog'[k] = Append(backlog[k], Open(n))
      BY <1>1, <1>6 DEF Connect, ConnectFails, connectTo
    <2>2. QED
      BY <1>2, <1>3, <1>5, <2>1, Requests
  <1>7. ASSUME NEW n \in Nodes, ServerStep(n)
        PROVE  Old
    <2>1. backlog'[k] = backlog[k] \/ (backlog[k] # << >> /\ backlog'[k] = Tail(backlog[k]))
      BY <1>7, ServerStepLocal
    <2>2. CASE backlog[k] # << >> /\ backlog'[k] = Tail(backlog[k])
      <3>1. i + 1 \in DOMAIN backlog[k] /\ backlog'[k][i] = backlog[k][i + 1]
        BY <1>1, <2>2, TailOfQueue
      <3>2. QED
        BY <3>1
    <2>3. QED
      BY <1>2, <2>1, <2>2
  <1>8. ASSUME NEW n \in Nodes, Crash(n)
        PROVE  Old
    <2>1. CASE k = n
      <3>1. backlog'[k] = << >>
        BY <1>8, <2>1 DEF Crash
      <3>2. QED
        BY <3>1
    <2>2. CASE k # n
      <3>1. backlog'[k] = nowCarries(n, backlog[k], Closed(n))
        BY <1>8, <2>2 DEF Crash
      <3>2. QED
        BY <1>4, <1>5, <3>1
    <2>3. QED
      BY <2>1, <2>2
  <1>9. ASSUME NEW n \in Nodes, SendText(n)
        PROVE  \/ Old
               \/ /\ k = cli[n].to
                  /\ backlog'[k][i] =
                         TextMessage(n, createBlockFromMessage(chain[n], n, cli[n].msg))
    <2> DEFINE q == TextMessage(n, createBlockFromMessage(chain[n], n, cli[n].msg))
    <2>1. backlog'[k] = backlog[k] \/ (k = cli[n].to /\ backlog'[k] = nowCarries(n, backlog[k], q))
      BY <1>1, <1>9 DEF SendText
    <2> HIDE DEF q
    <2>2. Old \/ (k = cli[n].to /\ backlog'[k][i] = q)
      BY <1>2, <1>4, <2>1
    <2>3. QED
      BY <2>2 DEF q
  <1>10. ASSUME NEW n \in Nodes, MessageTooBig(n)
         PROVE  Old
    <2>1. backlog'[k] = backlog[k] \/ backlog'[k] = nowCarries(n, backlog[k], Closed(n))
      BY <1>1, <1>10 DEF MessageTooBig
    <2>2. QED
      BY <1>2, <1>4, <1>5, <2>1
  <1>11. ASSUME NEW n \in Nodes, NEW p \in Nodes, SendBlock(n, p)
         PROVE  Old \/ (k = p /\ backlog'[k][i] = BlockMessage(n, cli[n].block))
    <2>1. cli[n].block \in Block
      BY <1>11 DEF SendBlock, ClientOK, IInv
    <2>2. \/ backlog'[k] = backlog[k]
          \/ k = p /\ backlog'[k] = Append(backlog[k], BlockMessage(n, cli[n].block))
      BY <1>1, <1>11 DEF SendBlock, connectTo
    <2>3. QED
      BY <1>2, <1>3, <2>1, <2>2, Requests
  <1>12. ASSUME NEW n \in Nodes, NotifyRecipient(n)
         PROVE  \/ Old
                \/ k = cli[n].to /\ up[k]
                   /\ backlog'[k][i] = BlockchainErrorMessage(n, cli[n].block)
    <2>1. cli[n].block \in Block
      BY <1>12 DEF NotifyRecipient, ClientOK, IInv
    <2>2. \/ backlog'[k] = backlog[k]
          \/ /\ k = cli[n].to /\ up[k]
             /\ backlog'[k] = Append(backlog[k], BlockchainErrorMessage(n, cli[n].block))
      BY <1>1, <1>12 DEF NotifyRecipient, connectTo
    <2>3. QED
      BY <1>2, <1>3, <2>1, <2>2, Requests
  <1>13. ASSUME NEW n \in Nodes, ClientStep(n)
         PROVE  \/ Old \/ SendText(n) \/ NotifyRecipient(n)
                \/ \E p \in Nodes : SendBlock(n, p)
    BY <1>2, <1>10, <1>13 DEF ClientStep, SendTextLost, TextAnswered, AddChatPeer, SkipPeer,
       BlockAnswered, BlockAnswerCut, CheckOwnBlock, InsertOwnBlock, Rollback
  <1>14. UNCHANGED vars => Old
    BY <1>2 DEF vars
  <1> HIDE DEF Old
  <1>15. QED
    BY <1>6, <1>7, <1>8, <1>9, <1>11, <1>12, <1>13, <1>14 DEF Next, Old

\* A block in a table was there before, or one of the node's two threads has
\* just inserted it.
LEMMA TableOrigin ==
    ASSUME IInv, [Next]_vars, NEW k \in Nodes, NEW i \in DOMAIN chain'[k]
    PROVE  \/ i \in DOMAIN chain[k] /\ chain'[k][i] = chain[k][i]
           \/ /\ InsertOwnBlock(k) /\ chain'[k][i] = cli[k].block
              /\ chain'[k] = Append(chain[k], cli[k].block)
              /\ ~hasBlock(chain[k], cli[k].block.hash)
           \/ /\ InsertBlock(k) /\ chain'[k][i] = request(k).block
              /\ chain'[k] = Append(chain[k], request(k).block)
              /\ ~hasBlock(chain[k], request(k).block.hash)
  <1>1. chain[k] \in Seq(Block)
    BY DEF IInv, TypeOK
  <1>2. CASE chain'[k] = chain[k]
    BY <1>2
  <1>3. ASSUME NEW b \in Block, chain'[k] = Append(chain[k], b)
        PROVE  (i \in DOMAIN chain[k] /\ chain'[k][i] = chain[k][i]) \/ chain'[k][i] = b
    BY <1>1, <1>3, AppendBlock
  <1>4. CASE chain'[k] # chain[k]
    BY <1>3, <1>4, GrowthFacts
  <1>5. QED
    BY <1>2, <1>4

\* A table keeps its rows.
LEMMA TableKeeps ==
    ASSUME IInv, [Next]_vars, NEW k \in Nodes, NEW i \in DOMAIN chain[k]
    PROVE  i \in DOMAIN chain'[k] /\ chain'[k][i] = chain[k][i]
  <1>1. chain[k] \in Seq(Block)
    BY DEF IInv, TypeOK
  <1>2. ASSUME NEW b \in Block, chain'[k] = Append(chain[k], b)
        PROVE  i \in DOMAIN chain'[k] /\ chain'[k][i] = chain[k][i]
    BY <1>1, <1>2, AppendBlock
  <1>3. QED
    BY <1>2, GrowthFacts

\* An acknowledgement was given before, or is given for the block being served.
LEMMA AckOrigin ==
    ASSUME IInv, [Next]_vars, NEW k, NEW b, <<k, b>> \in acked'
    PROVE  \/ <<k, b>> \in acked
           \/ /\ k \in Nodes /\ serving(k, "BLOCK") /\ b = request(k).block
              /\ InsertBlock(k) \/ (CheckBlock(k) /\ ~insertAllowed(chain[k], b))
              /\ answerWith(k, "ok")
  <1>1. SUFFICES ASSUME <<k, b>> \notin acked, Next
                 PROVE  \E n \in Nodes :
                           /\ serving(n, "BLOCK") /\ <<k, b>> = <<n, request(n).block>>
                           /\ \/ InsertBlock(n)
                              \/ CheckBlock(n) /\ ~insertAllowed(chain[n], request(n).block)
                           /\ answerWith(n, "ok")
    BY DEF vars
  <1>2. ASSUME NEW n \in Nodes, ClientStep(n) PROVE FALSE
    BY <1>1, <1>2, ClientStepLocal
  <1>3. ASSUME NEW n \in Nodes, ServerStep(n) PROVE InsertBlock(n) \/ CheckBlock(n)
    BY <1>1, <1>3 DEF ServerStep, HandleTextMessage, AnswerTextMessage, ValidateBlock,
       HandleBlockchainError, DropClosed, ReceivePart
  <1>4. ASSUME NEW n \in Nodes, CheckBlock(n)
        PROVE  /\ serving(n, "BLOCK") /\ <<k, b>> = <<n, request(n).block>>
               /\ ~insertAllowed(chain[n], request(n).block) /\ answerWith(n, "ok")
    BY <1>1, <1>4 DEF CheckBlock
  <1>5. ASSUME NEW n \in Nodes, InsertBlock(n)
        PROVE  serving(n, "BLOCK") /\ <<k, b>> = <<n, request(n).block>> /\ answerWith(n, "ok")
    BY <1>1, <1>5 DEF InsertBlock
  <1>6. ASSUME NEW n \in Nodes, Crash(n) PROVE FALSE
    BY <1>1, <1>6 DEF Crash
  <1>7. ASSUME NEW n \in Nodes, NEW p \in Nodes, NEW m \in Msgs,
               Connect(n, m, p) \/ ConnectFails(n, m, p)
        PROVE  FALSE
    BY <1>1, <1>7 DEF Connect, ConnectFails
  <1>8. QED
    BY <1>1, <1>2, <1>3, <1>4, <1>5, <1>6, <1>7 DEF Next

\* A message in a table was there before, or has just been sent or received.
LEMMA RowOrigin ==
    ASSUME IInv, [Next]_vars, NEW k \in Nodes, NEW r \in messages'[k]
    PROVE  \/ r \in messages[k]
           \/ TextAnswered(k) /\ r = rowOf(k)
           \/ /\ HandleTextMessage(k) /\ srv'[k] = "addChat" /\ backlog' = backlog /\ cli' = cli
              /\ r = [id |-> request(k).block.hash, from |-> request(k).from, to |-> k]
              /\ readable(k, messageJson(r), FALSE) /\ fits(r.id)
  <1>1. /\ messages \in [Nodes -> SUBSET Row]
        /\ srv \in [Nodes -> {"accept", "addChat", "check", "insert"}]
    BY DEF IInv, TypeOK
  <1>2. SUFFICES ASSUME r \notin messages[k], Next
                 PROVE  \/ TextAnswered(k) /\ r = rowOf(k)
                        \/ /\ HandleTextMessage(k) /\ srv'[k] = "addChat" /\ backlog' = backlog /\ cli' = cli
                           /\ r = [id |-> request(k).block.hash, from |-> request(k).from, to |-> k]
                           /\ readable(k, messageJson(r), FALSE) /\ fits(r.id)
    BY DEF vars
  <1>3. ASSUME NEW n \in Nodes, ClientStep(n)
        PROVE  TextAnswered(k) /\ r = rowOf(k)
    <2>1. n = k
      BY <1>2, <1>3, ClientStepLocal
    <2>2. TextAnswered(k) => messages'[k] = messages[k] \cup {rowOf(k)}
      BY <1>1 DEF TextAnswered
    <2>3. Rollback(k) => messages'[k] \subseteq messages[k]
      BY <1>1 DEF Rollback, removeMessageByBlockHashOrId
    <2>4. TextAnswered(k) \/ Rollback(k) \/ messages' = messages
      BY <1>3, <2>1 DEF ClientStep, SendText, MessageTooBig, SendTextLost, AddChatPeer,
         SendBlock,
         SkipPeer, BlockAnswered, BlockAnswerCut, CheckOwnBlock, InsertOwnBlock, NotifyRecipient
    <2>5. QED
      BY <1>2, <2>2, <2>3, <2>4
  <1>4. ASSUME NEW n \in Nodes, ServerStep(n)
        PROVE  /\ HandleTextMessage(k) /\ srv'[k] = "addChat" /\ backlog' = backlog /\ cli' = cli
               /\ r = [id |-> request(k).block.hash, from |-> request(k).from, to |-> k]
               /\ readable(k, messageJson(r), FALSE) /\ fits(r.id)
    <2>1. n = k
      BY <1>2, <1>4, ServerStepLocal
    <2>2. HandleBlockchainError(k) => messages'[k] \subseteq messages[k]
      BY <1>1 DEF HandleBlockchainError, removeMessageByBlockHashOrId
    <2>3. HandleTextMessage(k) \/ HandleBlockchainError(k) \/ messages' = messages
      BY <1>4, <2>1 DEF ServerStep, AnswerTextMessage, ValidateBlock, CheckBlock, InsertBlock,
         DropClosed, ReceivePart
    <2>4. CASE HandleTextMessage(k)
      <3> DEFINE x == [id |-> request(k).block.hash, from |-> request(k).from, to |-> k]
      <3>1. messages' # messages
        BY <1>2
      <3>2. /\ fits(x.id) /\ readable(k, messageJson(x), FALSE)
            /\ messages' = [messages EXCEPT ![k] = @ \cup {x}]
            /\ srv' = [srv EXCEPT ![k] = "addChat"] /\ backlog' = backlog /\ cli' = cli
        BY <2>4, <3>1 DEF HandleTextMessage
      <3> HIDE DEF x
      <3>3. r = x
        BY <1>1, <1>2, <3>2
      <3>4. QED
        BY <1>1, <2>4, <3>2, <3>3 DEF x
    <2>5. QED
      BY <1>2, <2>2, <2>3, <2>4
  <1>5. ASSUME NEW n \in Nodes, Crash(n) PROVE FALSE
    BY <1>2, <1>5 DEF Crash
  <1>6. ASSUME NEW n \in Nodes, NEW p \in Nodes, NEW m \in Msgs,
               Connect(n, m, p) \/ ConnectFails(n, m, p)
        PROVE  FALSE
    BY <1>2, <1>6 DEF Connect, ConnectFails
  <1>7. QED
    BY <1>2, <1>3, <1>4, <1>5, <1>6 DEF Next

-----------------------------------------------------------------------------
(* A message has one sender, one recipient and one block.                  *)

\* The queues hold blocks that have been seen.
LEMMA RequestSeen ==
    ASSUME IInv, NEW k \in Nodes, backlog[k] # << >>, request(k).type \notin {"open", "closed"}
    PROVE  blockSeen(request(k).block)
  <1>1. 1 \in DOMAIN backlog[k] /\ request(k) = backlog[k][1]
    BY TailOfQueue DEF IInv, TypeOK, request
  <1>2. QED
    BY <1>1 DEF blockSeen

\* Every block there is has been there before, or has just been made.
LEMMA BlockOrigin ==
    ASSUME IInv, SocketsInv, [Next]_vars, NEW b \in Block, blockSeen(b)'
    PROVE  blockSeen(b) \/ \E n \in Nodes : Makes(n, b)
  <1>1. PICK k \in Nodes :
            \/ \E i \in DOMAIN chain'[k] : chain'[k][i] = b
            \/ \E i \in DOMAIN backlog'[k] :
                   backlog'[k][i].type \notin {"open", "closed"} /\ backlog'[k][i].block = b
            \/ cli'[k].pc \notin {"idle", "connected"} /\ cli'[k].block = b
            \/ <<k, b>> \in acked'
    BY DEF blockSeen
  <1>2. \A n \in Nodes : cli[n].pc \notin {"idle", "connected"} => blockSeen(cli[n].block)
    BY DEF blockSeen
  <1>3. ASSUME NEW i \in DOMAIN chain'[k], chain'[k][i] = b
        PROVE  blockSeen(b)
    <2>1. i \in DOMAIN chain[k] /\ chain'[k][i] = chain[k][i] => blockSeen(b)
      BY <1>3 DEF blockSeen
    <2>2. InsertOwnBlock(k) => blockSeen(cli[k].block)
      BY <1>2 DEF InsertOwnBlock
    <2>3. InsertBlock(k) => blockSeen(request(k).block)
      BY RequestSeen DEF InsertBlock, serving
    <2>4. QED
      BY <1>3, <2>1, <2>2, <2>3, TableOrigin
  <1>4. ASSUME NEW i \in DOMAIN backlog'[k], backlog'[k][i].type \notin {"open", "closed"},
               backlog'[k][i].block = b
        PROVE  blockSeen(b) \/ \E n \in Nodes : Makes(n, b)
    <2>1. ASSUME NEW j \in DOMAIN backlog[k], backlog'[k][i] = backlog[k][j]
          PROVE  blockSeen(b)
      BY <1>4, <2>1 DEF blockSeen
    <2>2. ASSUME NEW n \in Nodes, SendText(n),
                 backlog'[k][i] = TextMessage(n, createBlockFromMessage(chain[n], n, cli[n].msg))
          PROVE  Makes(n, b)
      BY <1>4, <2>2, TextMakes DEF TextMessage
    <2>3. ASSUME NEW n \in Nodes, SendBlock(n, k), backlog'[k][i] = BlockMessage(n, cli[n].block)
          PROVE  blockSeen(b)
      BY <1>2, <1>4, <2>3 DEF SendBlock, BlockMessage
    <2>4. ASSUME NEW n \in Nodes, NotifyRecipient(n),
                 backlog'[k][i] = BlockchainErrorMessage(n, cli[n].block)
          PROVE  blockSeen(b)
      BY <1>2, <1>4, <2>4 DEF NotifyRecipient, BlockchainErrorMessage
    <2>5. QED
      BY <1>4, <2>1, <2>2, <2>3, <2>4, RequestOrigin
  <1>5. CASE cli'[k].pc \notin {"idle", "connected"} /\ cli'[k].block = b
    <2>1. Types(k, [id |-> cli'[k].msg, from |-> k, to |-> cli'[k].to]) => cli'[k].pc = "connected"
      BY DEF Types
    <2>2. QED
      BY <1>2, <1>5, <2>1, ClientOrigin
  <1>6. CASE <<k, b>> \in acked'
    <2>1. <<k, b>> \in acked => blockSeen(b)
      BY DEF blockSeen
    <2>2. serving(k, "BLOCK") => blockSeen(request(k).block)
      BY RequestSeen DEF serving
    <2>3. QED
      BY <1>6, <2>1, <2>2, AckOrigin
  <1>7. QED
    BY <1>1, <1>3, <1>4, <1>5, <1>6

\* A sending thread's message has been seen.
LEMMA SendingSeen ==
    ASSUME NEW n \in Nodes, cli[n].pc # "idle"
    PROVE  rowSeen(rowOf(n))
  BY DEF rowSeen

\* Every message there is has been there before, or has just been typed.
LEMMA MessageOrigin ==
    ASSUME IInv, SocketsInv, [Next]_vars, NEW r \in Row, rowSeen(r)'
    PROVE  rowSeen(r) \/ \E n \in Nodes : Types(n, r)
  <1>1. PICK k \in Nodes :
            \/ r \in messages'[k]
            \/ \E i \in DOMAIN backlog'[k] :
                   /\ backlog'[k][i].type \in {"TEXT_MESSAGE", "BLOCKCHAIN_ERROR_RESPONSE"}
                   /\ r = [id |-> backlog'[k][i].block.hash, from |-> backlog'[k][i].from, to |-> k]
            \/ cli'[k].pc # "idle" /\ r = [id |-> cli'[k].msg, from |-> k, to |-> cli'[k].to]
    BY DEF rowSeen, rowOf
  <1>2. CASE r \in messages'[k]
    <2>1. r \in messages[k] => rowSeen(r)
      BY DEF rowSeen
    <2>2. TextAnswered(k) => rowSeen(rowOf(k))
      BY SendingSeen DEF TextAnswered
    <2>3. HandleTextMessage(k) =>
              rowSeen([id |-> request(k).block.hash, from |-> request(k).from, to |-> k])
      <3>1. SUFFICES ASSUME HandleTextMessage(k)
                     PROVE  rowSeen([id |-> request(k).block.hash, from |-> request(k).from, to |-> k])
        OBVIOUS
      <3>2. /\ request(k).type = "TEXT_MESSAGE" /\ 1 \in DOMAIN backlog[k]
            /\ request(k) = backlog[k][1]
        BY <3>1, TailOfQueue DEF HandleTextMessage, serving, IInv, TypeOK, request
      <3>3. QED
        BY <3>2 DEF rowSeen
    <2>4. QED
      BY <1>2, <2>1, <2>2, <2>3, RowOrigin
  <1>3. ASSUME NEW i \in DOMAIN backlog'[k],
               backlog'[k][i].type \in {"TEXT_MESSAGE", "BLOCKCHAIN_ERROR_RESPONSE"},
               r = [id |-> backlog'[k][i].block.hash, from |-> backlog'[k][i].from, to |-> k]
        PROVE  rowSeen(r)
    <2>1. ASSUME NEW j \in DOMAIN backlog[k], backlog'[k][i] = backlog[k][j]
          PROVE  rowSeen(r)
      BY <1>3, <2>1 DEF rowSeen
    <2>2. ASSUME NEW n \in Nodes, SendText(n), k = cli[n].to,
                 backlog'[k][i] = TextMessage(n, createBlockFromMessage(chain[n], n, cli[n].msg))
          PROVE  rowSeen(r)
      <3>1. /\ backlog'[k][i].from = n /\ cli[n].pc # "idle"
            /\ backlog'[k][i].block = createBlockFromMessage(chain[n], n, cli[n].msg)
        BY <2>2 DEF TextMessage, SendText
      <3>2. backlog'[k][i].block.hash = cli[n].msg
        BY <3>1 DEF createBlockFromMessage
      <3>3. r = rowOf(n)
        BY <1>3, <2>2, <3>1, <3>2 DEF rowOf
      <3>4. QED
        BY <3>1, <3>3, SendingSeen
    <2>3. ASSUME NEW n \in Nodes, backlog'[k][i] = BlockMessage(n, cli[n].block)
          PROVE  FALSE
      BY <1>3, <2>3 DEF BlockMessage
    <2>4. ASSUME NEW n \in Nodes, NotifyRecipient(n), k = cli[n].to,
                 backlog'[k][i] = BlockchainErrorMessage(n, cli[n].block)
          PROVE  rowSeen(r)
      <3>1. backlog'[k][i].from = n /\ cli[n].pc = "notify" /\ backlog'[k][i].block = cli[n].block
        BY <2>4 DEF BlockchainErrorMessage, NotifyRecipient
      <3>2. cli[n].block.hash = cli[n].msg
        BY <3>1 DEF IInv, ClientOK
      <3>3. r = rowOf(n)
        BY <1>3, <2>4, <3>1, <3>2 DEF rowOf
      <3>4. QED
        BY <3>1, <3>3, SendingSeen
    <2>5. QED
      BY <1>3, <2>1, <2>2, <2>3, <2>4, RequestOrigin
  <1>4. CASE cli'[k].pc # "idle" /\ r = [id |-> cli'[k].msg, from |-> k, to |-> cli'[k].to]
    <2>1. cli[k].pc # "idle" /\ sameSend(k) => rowSeen(r)
      BY <1>4, SendingSeen DEF sameSend, rowOf
    <2>2. Makes(k, cli'[k].block) => cli[k].pc # "idle" /\ sameSend(k)
      BY DEF Makes
    <2>3. QED
      BY <1>4, <2>1, <2>2, ClientOrigin
  <1>5. QED
    BY <1>1, <1>2, <1>3, <1>4

\* A message is typed once.
LEMMA FreshShrinks ==
    ASSUME IInv, [Next]_vars
    PROVE  fresh' \subseteq fresh
  BY ClientStepLocal, ServerStepLocal DEF Next, Connect, ConnectFails, Crash, vars

\* A step makes one block at most, and types one message at most, not both.
LEMMA OneMade ==
    ASSUME NEW n \in Nodes, NEW k \in Nodes
    PROVE  /\ \A b, c : Makes(n, b) /\ Makes(k, c) => n = k /\ b = c
           /\ \A b, r : Makes(n, b) => ~Types(k, r)
           /\ \A r, s : Types(n, r) /\ Types(k, s) => n = k
  BY DEF Makes, Types

\* What a sending thread sends is a message.
LEMMA RowOfType ==
    ASSUME IInv, NEW n \in Nodes, cli[n].pc # "idle"
    PROVE  /\ rowOf(n) \in Row /\ rowOf(n).id = cli[n].msg /\ rowOf(n).from = n
           /\ rowOf(n).to = cli[n].to
  <1>1. cli[n].msg \in Msgs /\ cli[n].to \in Nodes
    BY DEF IInv, ClientOK
  <1>2. QED
    BY <1>1 DEF rowOf, Row

\* Two threads never send the same message.
LEMMA OneSender ==
    ASSUME IInv, UniqueInv, NEW n \in Nodes, NEW k \in Nodes,
           cli[n].pc # "idle", cli[k].pc # "idle", cli[n].msg = cli[k].msg
    PROVE  n = k
  <1>1. rowSeen(rowOf(n)) /\ rowSeen(rowOf(k)) /\ rowOf(n).id = rowOf(k).id
    BY SendingSeen, RowOfType
  <1>2. rowOf(n) = rowOf(k)
    BY <1>1, RowOfType DEF UniqueInv
  <1>3. QED
    BY <1>2, RowOfType

\* Every step keeps messages and blocks unique.
LEMMA UniqueStep ==
    ASSUME IInv, SocketsInv, UniqueInv, [Next]_vars
    PROVE  UniqueInv'
  <1>1. \A b \in Block : blockSeen(b)' => blockSeen(b) \/ \E n \in Nodes : Makes(n, b)
    BY BlockOrigin
  <1>2. \A r \in Row : rowSeen(r)' => rowSeen(r) \/ \E n \in Nodes : Types(n, r)
    BY MessageOrigin
  <1>3. ASSUME NEW n \in Nodes, NEW b, Makes(n, b)
        PROVE  /\ b.hash = cli[n].msg /\ b.author = n /\ cli[n].pc # "idle"
               /\ cli[n].pc = "connected"
               /\ rowOf(n) \in Row /\ rowSeen(rowOf(n)) /\ rowOf(n).id = b.hash
               /\ rowOf(n).from = n
    BY <1>3, RowOfType, SendingSeen DEF Makes, createBlockFromMessage
  <1>4. ASSUME NEW n \in Nodes, NEW r, Types(n, r)
        PROVE  r.id \in fresh /\ r.id \notin fresh' /\ r.to \in Peers[r.from] /\ r.from = n
    BY <1>4 DEF Types
  <1>5. /\ \A b, c \in Block : blockSeen(b) /\ blockSeen(c) /\ b.hash = c.hash => b = c
        /\ \A r, s \in Row : rowSeen(r) /\ rowSeen(s) /\ r.id = s.id => r = s
        /\ \A b \in Block, r \in Row : blockSeen(b) /\ rowSeen(r) /\ b.hash = r.id
                                          => b.author = r.from
        /\ \A b \in Block : blockSeen(b) => b.hash \notin fresh
        /\ \A b \in Block, n \in Nodes :
               blockSeen(b) /\ cli[n].pc = "connected" => cli[n].msg # b.hash
        /\ \A r \in Row : rowSeen(r) => r.id \notin fresh /\ r.to \in Peers[r.from]
        /\ \A n, k \in Nodes, r \in Row :
               cli[n].pc = "connected" /\ r \in messages[k] => r.id # cli[n].msg
    BY DEF UniqueInv
  <1>6. fresh' \subseteq fresh
    BY FreshShrinks
  <1>7. ASSUME NEW n \in Nodes, cli'[n].pc = "connected"
        PROVE  \/ cli[n].pc = "connected" /\ cli'[n].msg = cli[n].msg
               \/ cli'[n].msg \in fresh /\ \E r \in Row : Types(n, r) /\ r.id = cli'[n].msg
    <2> DEFINE r == [id |-> cli'[n].msg, from |-> n, to |-> cli'[n].to]
    <2>1. ~Makes(n, cli'[n].block)
      BY <1>7 DEF Makes
    <2>2. ASSUME Types(n, r)
          PROVE  cli'[n].msg \in fresh /\ \E x \in Row : Types(n, x) /\ x.id = cli'[n].msg
      <3>1. r.id \in fresh /\ r.to \in Peers[n] /\ r.id = cli'[n].msg /\ r.to = cli'[n].to
        BY <2>2 DEF Types
      <3>2. r \in Row
        BY <3>1, NetworkAssumption DEF Row, IInv, TypeOK
      <3>3. QED
        BY <2>2, <3>1, <3>2
    <2>3. QED
      BY <1>7, <2>1, <2>2, ClientOrigin DEF sameSend
  <1>8. ASSUME NEW b \in Block, NEW c \in Block, blockSeen(b)', blockSeen(c)', b.hash = c.hash
        PROVE  b = c
    <2>1. CASE blockSeen(b) /\ blockSeen(c)
      BY <1>5, <1>8, <2>1
    <2>2. ASSUME NEW n \in Nodes, NEW x \in Block, NEW y \in Block,
                 Makes(n, x), blockSeen(y), x.hash = y.hash
          PROVE  FALSE
      BY <1>3, <1>5, <2>2
    <2>3. QED
      BY <1>1, <1>8, <2>1, <2>2, OneMade
  <1>9. ASSUME NEW r \in Row, NEW s \in Row, rowSeen(r)', rowSeen(s)', r.id = s.id
        PROVE  r = s
    <2>1. CASE rowSeen(r) /\ rowSeen(s)
      BY <1>5, <1>9, <2>1
    <2>2. ASSUME NEW n \in Nodes, NEW x \in Row, NEW y \in Row,
                 Types(n, x), rowSeen(y), x.id = y.id
          PROVE  FALSE
      BY <1>4, <1>5, <2>2
    <2>3. ASSUME NEW n \in Nodes, NEW k \in Nodes, Types(n, r), Types(k, s)
          PROVE  r = s
      <3>1. r.from = s.from /\ r.to = s.to
        BY <1>4, <2>3, OneMade DEF Types
      <3>2. QED
        BY <1>9, <3>1 DEF Row
    <2>4. QED
      BY <1>2, <1>9, <2>1, <2>2, <2>3
  <1>10. ASSUME NEW b \in Block, NEW r \in Row, blockSeen(b)', rowSeen(r)', b.hash = r.id
         PROVE  b.author = r.from
    <2>1. ASSUME NEW n \in Nodes, Makes(n, b), rowSeen(r)
          PROVE  b.author = r.from
      BY <1>3, <1>5, <1>10, <2>1
    <2>2. ASSUME NEW n \in Nodes, Types(n, r), blockSeen(b)
          PROVE  FALSE
      BY <1>4, <1>5, <1>10, <2>2
    <2>3. QED
      BY <1>1, <1>2, <1>5, <1>10, <2>1, <2>2, OneMade
  <1>11. ASSUME NEW b \in Block, blockSeen(b)'
         PROVE  /\ b.hash \notin fresh'
                /\ \A n \in Nodes : cli'[n].pc = "connected" => cli'[n].msg # b.hash
    <2>1. CASE blockSeen(b)
      BY <1>5, <1>6, <1>7, <2>1
    <2>2. ASSUME NEW n \in Nodes, Makes(n, b)
          PROVE  b.hash \notin fresh'
      BY <1>3, <1>5, <1>6, <2>2
    <2>3. ASSUME NEW n \in Nodes, Makes(n, b), NEW k \in Nodes, cli'[k].pc = "connected",
                 cli'[k].msg = b.hash
          PROVE  FALSE
      <3>1. \A r : ~Types(k, r)
        BY <2>3, OneMade
      <3>2. cli[k].pc = "connected" /\ cli'[k].msg = cli[k].msg
        BY <1>7, <2>3, <3>1
      <3>3. cli[n].pc # "idle" /\ cli[k].pc # "idle" /\ cli[n].msg = cli[k].msg
        BY <1>3, <2>3, <3>2
      <3>4. n = k
        BY <3>3, OneSender
      <3>5. QED
        BY <2>3, <3>4 DEF Makes
    <2>4. QED
      BY <1>1, <1>11, <2>1, <2>2, <2>3
  <1>12. ASSUME NEW r \in Row, rowSeen(r)'
         PROVE  r.id \notin fresh' /\ r.to \in Peers[r.from]
    BY <1>2, <1>4, <1>5, <1>6, <1>12
  <1>13. ASSUME NEW n \in Nodes, NEW k \in Nodes, NEW r \in Row, cli'[n].pc = "connected",
                r \in messages'[k]
         PROVE  r.id # cli'[n].msg
    <2>1. CASE r \in messages[k]
      <3>1. rowSeen(r)
        BY <2>1 DEF rowSeen
      <3>2. QED
        BY <1>5, <1>7, <1>13, <2>1, <3>1
    <2>2. CASE TextAnswered(k) /\ r = rowOf(k)
      <3>1. cli[k].pc # "idle" /\ r.id = cli[k].msg
        BY <2>2, RowOfType DEF TextAnswered
      <3>2. ASSUME cli[n].pc = "connected", cli[n].msg = cli[k].msg
            PROVE  FALSE
        <4>1. n = k
          BY <3>1, <3>2, OneSender
        <4>2. QED
          BY <2>2, <3>2, <4>1 DEF TextAnswered
      <3>3. r.id \notin fresh
        BY <1>5, <1>13, <2>2, <3>1, SendingSeen
      <3>4. QED
        BY <1>7, <1>13, <3>1, <3>2, <3>3
    <2>3. CASE /\ HandleTextMessage(k)
               /\ r = [id |-> request(k).block.hash, from |-> request(k).from, to |-> k]
      <3>1. request(k).type = "TEXT_MESSAGE" /\ backlog[k] # << >>
        BY <2>3 DEF HandleTextMessage, serving
      <3>2. blockSeen(request(k).block) /\ request(k).block \in Block /\ r.id = request(k).block.hash
        BY <2>3, <3>1, RequestSeen, ServedRequest
      <3>3. r.id \notin fresh /\ (cli[n].pc = "connected" => cli[n].msg # r.id)
        BY <1>5, <3>2
      <3>4. QED
        BY <1>7, <1>13, <3>3
    <2>4. QED
      BY <1>13, <2>1, <2>2, <2>3, RowOrigin
  <1>14. QED
    BY <1>8, <1>9, <1>10, <1>11, <1>12, <1>13 DEF UniqueInv

\* At the start there are only the initial blocks.
LEMMA UniqueInit == Init => UniqueInv
  <1>1. SUFFICES ASSUME Init PROVE UniqueInv
    OBVIOUS
  <1>2. \A n \in Nodes : /\ chain[n] = InitialChain /\ messages[n] = {} /\ backlog[n] = << >>
                         /\ cli[n].pc = "idle"
    BY <1>1 DEF Init, Idle
  <1>3. \A n \in Nodes : DOMAIN backlog[n] = {}
    BY <1>2
  <1>4. \A b : blockSeen(b) => \E i \in DOMAIN InitialChain : InitialChain[i] = b
    BY <1>1, <1>2, <1>3 DEF blockSeen, Init
  <1>5. \A r : ~rowSeen(r)
    BY <1>2, <1>3 DEF rowSeen
  <1>6. \A b : blockSeen(b) => b.hash \notin fresh
    BY <1>1, <1>4, ChainAssumption DEF Init, hashes
  <1>7. \A b, c : blockSeen(b) /\ blockSeen(c) /\ b.hash = c.hash => b = c
    BY <1>4, ChainAssumption
  <1>8. QED
    BY <1>2, <1>5, <1>6, <1>7 DEF UniqueInv

\* A message identifies its sender, its recipient and its block, wherever the
\* three are stored or travelling: removeMessageByBlockHashOrId can only hit the
\* message whose block it was called for.
THEOREM UniqueAlways == Spec => []UniqueInv
  <1>1. IInv /\ SocketsInv /\ UniqueInv /\ [Next]_vars => UniqueInv'
    BY UniqueStep
  <1>2. QED
    BY <1>1, UniqueInit, Inductive, SocketsAlways, PTL DEF Spec

-----------------------------------------------------------------------------
(* What a node has sent.                                                   *)

\* A table gets an own block only at the end of sendSecretMessage.
LEMMA OwnStep ==
    ASSUME IInv, [Next]_vars, NEW k \in Nodes, NEW m
    PROVE  hasOwn(k, m)' <=>
               \/ hasOwn(k, m)
               \/ /\ InsertOwnBlock(k) /\ ~hasBlock(chain[k], cli[k].block.hash)
                  /\ m = cli[k].msg
  <1>1. chain[k] \in Seq(Block) /\ chain \in [Nodes -> Seq(Block)] /\ ClientOK(k)
    BY DEF IInv, TypeOK
  <1>2. ASSUME hasOwn(k, m) PROVE hasOwn(k, m)'
    BY <1>2, TableKeeps DEF hasOwn
  <1>3. ASSUME InsertOwnBlock(k), ~hasBlock(chain[k], cli[k].block.hash), m = cli[k].msg
        PROVE  hasOwn(k, m)'
    <2>1. /\ cli[k].block \in Block /\ cli[k].block.hash = m /\ cli[k].block.author = k
      BY <1>1, <1>3 DEF InsertOwnBlock, ClientOK
    <2>2. chain'[k] = Append(chain[k], cli[k].block)
      BY <1>1, <1>3 DEF InsertOwnBlock, insertRow
    <2>3. PICK i \in DOMAIN chain'[k] : chain'[k][i] = cli[k].block
      BY <1>1, <2>1, <2>2, AppendBlock
    <2>4. QED
      BY <2>1, <2>3 DEF hasOwn
  <1>4. ASSUME hasOwn(k, m)', ~hasOwn(k, m)
        PROVE  /\ InsertOwnBlock(k) /\ ~hasBlock(chain[k], cli[k].block.hash)
               /\ m = cli[k].msg
    <2>1. PICK i \in DOMAIN chain'[k] : chain'[k][i].hash = m /\ chain'[k][i].author = k
      BY <1>4 DEF hasOwn
    <2>2. ~(i \in DOMAIN chain[k] /\ chain'[k][i] = chain[k][i])
      BY <1>4, <2>1 DEF hasOwn
    <2>3. ~(InsertBlock(k) /\ chain'[k][i] = request(k).block)
      BY <2>1, ServedRequest DEF InsertBlock, serving
    <2>4. InsertOwnBlock(k) /\ chain'[k][i] = cli[k].block /\ ~hasBlock(chain[k], cli[k].block.hash)
      BY <2>2, <2>3, TableOrigin
    <2>5. cli[k].block.hash = cli[k].msg
      BY <1>1, <2>4 DEF InsertOwnBlock, ClientOK
    <2>6. QED
      BY <2>1, <2>4, <2>5
  <1>5. QED
    BY <1>2, <1>3, <1>4

\* No row is lost but by the own rollback or by a withdrawal of its sender.
LEMMA RowKept ==
    ASSUME IInv, [Next]_vars, NEW k \in Nodes, NEW r \in messages[k], r \notin messages'[k]
    PROVE  \/ Rollback(k) /\ r.id = cli[k].msg
           \/ HandleBlockchainError(k) /\ r.id = request(k).block.hash
  <1>1. messages \in [Nodes -> SUBSET Row] /\ ClientOK(k)
    BY DEF IInv, TypeOK
  <1>2. SUFFICES ASSUME Next
                 PROVE  \/ Rollback(k) /\ r.id = cli[k].msg
                        \/ HandleBlockchainError(k) /\ r.id = request(k).block.hash
    BY DEF vars
  <1>3. ASSUME NEW n \in Nodes, ClientStep(n)
        PROVE  Rollback(k) /\ r.id = cli[k].msg
    <2>1. n = k
      BY <1>3, ClientStepLocal
    <2>2. TextAnswered(k) => messages'[k] = messages[k] \cup {rowOf(k)}
      BY <1>1 DEF TextAnswered
    <2>3. ASSUME Rollback(k) PROVE r.id = cli[k].msg
      <3>1. messages'[k] = {x \in messages[k] : x.id # cli[k].block.hash}
        BY <1>1, <2>3 DEF Rollback, removeMessageByBlockHashOrId
      <3>2. cli[k].block.hash = cli[k].msg
        BY <1>1, <2>3 DEF Rollback, ClientOK
      <3>3. QED
        BY <3>1, <3>2
    <2>4. TextAnswered(k) \/ Rollback(k) \/ messages' = messages
      BY <1>3, <2>1 DEF ClientStep, SendText, MessageTooBig, SendTextLost, AddChatPeer,
         SendBlock,
         SkipPeer, BlockAnswered, BlockAnswerCut, CheckOwnBlock, InsertOwnBlock, NotifyRecipient
    <2>5. QED
      BY <2>2, <2>3, <2>4
  <1>4. ASSUME NEW n \in Nodes, ServerStep(n)
        PROVE  HandleBlockchainError(k) /\ r.id = request(k).block.hash
    <2>1. n = k
      BY <1>4, ServerStepLocal
    <2>2. HandleBlockchainError(k) =>
              messages'[k] = {x \in messages[k] : x.id # request(k).block.hash}
      BY <1>1 DEF HandleBlockchainError, removeMessageByBlockHashOrId
    <2>3. HandleTextMessage(k) \/ HandleBlockchainError(k) \/ messages' = messages
      BY <1>4, <2>1 DEF ServerStep, AnswerTextMessage, ValidateBlock, CheckBlock, InsertBlock,
         DropClosed, ReceivePart
    <2>4. HandleTextMessage(k) => messages[k] \subseteq messages'[k]
      BY <1>1 DEF HandleTextMessage
    <2>5. QED
      BY <2>2, <2>3, <2>4
  <1>5. ASSUME NEW n \in Nodes, Crash(n) PROVE FALSE
    BY <1>5 DEF Crash
  <1>6. ASSUME NEW n \in Nodes, NEW p \in Nodes, NEW m \in Msgs,
               Connect(n, m, p) \/ ConnectFails(n, m, p)
        PROVE  FALSE
    BY <1>6 DEF Connect, ConnectFails
  <1>7. QED
    BY <1>2, <1>3, <1>4, <1>5, <1>6 DEF Next

\* A withdrawal only hits messages of its sender.
LEMMA WithdrawalOfSender ==
    ASSUME IInv, UniqueInv, NEW k \in Nodes, HandleBlockchainError(k),
           NEW p \in Nodes, NEW r \in messages[p], r.id = request(k).block.hash
    PROVE  r \in Row /\ r.from = request(k).from /\ r.from # k /\ r.to = k
  <1>1. r \in Row
    BY DEF IInv, TypeOK
  <1>2. /\ backlog[k] # << >> /\ request(k).type = "BLOCKCHAIN_ERROR_RESPONSE"
        /\ 1 \in DOMAIN backlog[k] /\ request(k) = backlog[k][1]
    BY TailOfQueue DEF HandleBlockchainError, serving, IInv, TypeOK, request
  <1>3. /\ request(k).block.hash \in Msgs /\ request(k).from \in Nodes /\ request(k).from # k
    BY <1>2, ServedRequest
  <1> DEFINE x == [id |-> request(k).block.hash, from |-> request(k).from, to |-> k]
  <1>4. x \in Row /\ rowSeen(x) /\ rowSeen(r)
    BY <1>2, <1>3 DEF rowSeen, Row
  <1>5. r = x
    BY <1>1, <1>4 DEF UniqueInv
  <1>6. QED
    BY <1>1, <1>3, <1>5

\* A message counts as sent from its answer to its rollback.
LEMMA SentStep ==
    ASSUME IInv, UniqueInv, [Next]_vars, NEW k \in Nodes, NEW m
    PROVE  hasSent(k, m)' <=>
               \/ hasSent(k, m) /\ ~(Rollback(k) /\ m = cli[k].msg)
               \/ TextAnswered(k) /\ m = cli[k].msg
  <1>1. messages \in [Nodes -> SUBSET Row] /\ ClientOK(k)
    BY DEF IInv, TypeOK
  <1>2. ASSUME hasSent(k, m), ~(Rollback(k) /\ m = cli[k].msg)
        PROVE  hasSent(k, m)'
    <2>1. PICK r \in messages[k] : r.id = m /\ r.from = k
      BY <1>2 DEF hasSent
    <2>2. ~(HandleBlockchainError(k) /\ r.id = request(k).block.hash)
      BY <2>1, WithdrawalOfSender
    <2>3. r \in messages'[k]
      BY <1>2, <2>1, <2>2, RowKept
    <2>4. QED
      BY <2>1, <2>3 DEF hasSent
  <1>3. ASSUME TextAnswered(k), m = cli[k].msg
        PROVE  hasSent(k, m)'
    <2>1. rowOf(k) \in messages'[k]
      BY <1>1, <1>3 DEF TextAnswered
    <2>2. rowOf(k).id = m /\ rowOf(k).from = k
      BY <1>3 DEF rowOf
    <2>3. QED
      BY <2>1, <2>2 DEF hasSent
  <1>4. ASSUME hasSent(k, m)', ~hasSent(k, m)
        PROVE  TextAnswered(k) /\ m = cli[k].msg
    <2>1. PICK r \in messages'[k] : r.id = m /\ r.from = k
      BY <1>4 DEF hasSent
    <2>2. r \notin messages[k]
      BY <1>4, <2>1 DEF hasSent
    <2>3. ~(/\ HandleTextMessage(k)
            /\ r = [id |-> request(k).block.hash, from |-> request(k).from, to |-> k])
      <3>1. HandleTextMessage(k) => request(k).from # k
        BY ServedRequest DEF HandleTextMessage, serving
      <3>2. QED
        BY <2>1, <3>1
    <2>4. TextAnswered(k) /\ r = rowOf(k)
      BY <2>2, <2>3, RowOrigin
    <2>5. QED
      BY <2>1, <2>4 DEF rowOf
  <1>5. ASSUME hasSent(k, m)', Rollback(k), m = cli[k].msg
        PROVE  FALSE
    <2>1. messages'[k] = {x \in messages[k] : x.id # cli[k].block.hash}
      BY <1>1, <1>5 DEF Rollback, removeMessageByBlockHashOrId
    <2>2. cli[k].block.hash = cli[k].msg
      BY <1>1, <1>5 DEF Rollback, ClientOK
    <2>3. QED
      BY <1>5, <2>1, <2>2 DEF hasSent
  <1>6. QED
    BY <1>2, <1>3, <1>4, <1>5

\* Every step keeps what is known of sent messages.
LEMMA SentOKStep ==
    ASSUME IInv, SocketsInv, UniqueInv, [Next]_vars, NEW k \in Nodes, SentOK(k)
    PROVE  SentOK(k)'
  <1> DEFINE Stored == {"addChat", "broadcast", "waitBlock", "insert", "rollback"}
  <1>0. None \notin Msgs
    BY ChainAssumption
  <1>1. SUFFICES ASSUME NEW m \in Msgs, up[k], ~Crash(k)
                 PROVE  IF m = cli'[k].msg
                        THEN ~hasOwn(k, m)' /\ (hasSent(k, m)' <=> cli'[k].pc \in Stored)
                        ELSE hasSent(k, m)' <=> hasOwn(k, m)'
    <2>1. up'[k] => up[k] /\ ~Crash(k)
      BY ClientStepLocal, ServerStepLocal
         DEF Next, Connect, ConnectFails, Crash, vars, IInv, TypeOK
    <2>2. QED
      BY <2>1 DEF SentOK, hasOwn, hasSent
  <1>2. /\ hasOwn(k, m)' <=> \/ hasOwn(k, m)
                             \/ /\ InsertOwnBlock(k) /\ ~hasBlock(chain[k], cli[k].block.hash)
                                /\ m = cli[k].msg
        /\ hasSent(k, m)' <=> \/ hasSent(k, m) /\ ~(Rollback(k) /\ m = cli[k].msg)
                              \/ TextAnswered(k) /\ m = cli[k].msg
    BY OwnStep, SentStep
  <1>3. IF m = cli[k].msg
        THEN ~hasOwn(k, m) /\ (hasSent(k, m) <=> cli[k].pc \in Stored)
        ELSE hasSent(k, m) <=> hasOwn(k, m)
    BY <1>1 DEF SentOK
  <1>4. /\ InsertOwnBlock(k) => cli[k].pc = "insert" /\ cli'[k].pc # "insert"
        /\ Rollback(k) => cli[k].pc = "rollback" /\ cli'[k].pc # "rollback"
        /\ TextAnswered(k) => /\ cli[k].pc = "waitText" /\ cli'[k].pc # "waitText"
                              /\ cli[k].reply # "none"
    BY ClientFields, BroadcastFields DEF Idle
  <1>5. Idle.msg = None /\ Idle.pc = "idle"
    BY DEF Idle
  <1> HIDE DEF Stored
  <1>6. CASE cli'[k].pc = cli[k].pc /\ cli'[k].msg = cli[k].msg
    BY <1>2, <1>3, <1>4, <1>6
  <1>7. ASSUME NEW x \in Msgs, NEW p \in Nodes, Connect(k, x, p)
        PROVE  IF m = cli'[k].msg
               THEN ~hasOwn(k, m)' /\ (hasSent(k, m)' <=> cli'[k].pc \in Stored)
               ELSE hasSent(k, m)' <=> hasOwn(k, m)'
    <2>1. cli[k].pc = "idle" /\ x \in fresh /\ cli'[k].pc = "connected" /\ cli'[k].msg = x
      BY <1>7 DEF Connect, Idle, IInv, TypeOK
    <2>2. cli[k].msg = None
      BY <1>5, <2>1 DEF SocketsInv, SocketOK
    <2>3. (hasSent(k, m) <=> hasOwn(k, m)) /\ (hasSent(k, m)' <=> hasSent(k, m))
          /\ (hasOwn(k, m)' <=> hasOwn(k, m))
      BY <1>0, <1>2, <1>3, <1>4, <2>1, <2>2
    <2>4. hasOwn(k, m) => m \notin fresh
      <3>1. SUFFICES ASSUME NEW i \in DOMAIN chain[k], chain[k][i].hash = m
                     PROVE  m \notin fresh
        BY DEF hasOwn
      <3>2. chain[k][i] \in Block /\ blockSeen(chain[k][i])
        BY HashesOfTable DEF blockSeen, IInv, TypeOK
      <3>3. QED
        BY <3>1, <3>2 DEF UniqueInv
    <2>5. "connected" \notin Stored
      BY DEF Stored
    <2>6. QED
      BY <2>1, <2>3, <2>4, <2>5
  <1>8. CASE ClientStep(k)
    <2>1. CASE cli'[k] = Idle /\ ~InsertOwnBlock(k)
      <3>1. cli[k].pc \in {"connected", "notify"}
        BY <1>5, <1>8, <2>1, ClientFields, BroadcastFields
           DEF ClientStep, MessageTooBig, SendTextLost
      <3>2. QED
        BY <1>0, <1>2, <1>3, <1>4, <1>5, <2>1, <3>1 DEF Stored
    <2>2. CASE InsertOwnBlock(k)
      BY <1>0, <1>2, <1>3, <1>4, <1>5, <2>2, BroadcastFields DEF Stored, sameSend
    <2>3. CASE SendText(k) \/ (SendTextLost(k) /\ cli'[k] # Idle)
      BY <1>2, <1>3, <1>4, <2>3, ClientFields DEF Stored, sameSend
    <2>4. CASE TextAnswered(k)
      BY <1>2, <1>3, <1>4, <2>4, ClientFields DEF Stored, sameSend
    <2>5. CASE AddChatPeer(k)
      BY <1>2, <1>3, <1>4, <2>5, ClientFields DEF Stored, sameSend
    <2>6. CASE Rollback(k)
      BY <1>2, <1>3, <1>4, <2>6, BroadcastFields DEF Stored, sameSend
    <2>7. CASE BlockAnswered(k) \/ BlockAnswerCut(k) \/ CheckOwnBlock(k)
      BY <1>2, <1>3, <1>4, <2>7, BroadcastFields DEF Stored, sameSend
    <2>8. ASSUME NEW p \in Nodes, SendBlock(k, p) \/ SkipPeer(k, p)
          PROVE  IF m = cli'[k].msg
                 THEN ~hasOwn(k, m)' /\ (hasSent(k, m)' <=> cli'[k].pc \in Stored)
                 ELSE hasSent(k, m)' <=> hasOwn(k, m)'
      BY <1>2, <1>3, <1>4, <2>8, BroadcastFields DEF Stored, sameSend
    <2>9. QED
      BY <1>8, <2>1, <2>2, <2>3, <2>4, <2>5, <2>6, <2>7, <2>8, BroadcastFields DEF ClientStep
  <1>9. QED
    BY <1>1, <1>6, <1>7, <1>8, ClientMoves DEF sameSend

\* Nothing has been sent at the start.
LEMMA SentInit ==
    ASSUME Init, NEW n \in Nodes
    PROVE  SentOK(n)
  <1>1. chain[n] = InitialChain /\ messages[n] = {} /\ cli[n].msg = None
    BY DEF Init, Idle
  <1>2. \A m \in Msgs : m # None /\ ~hasOwn(n, m) /\ ~hasSent(n, m)
    BY <1>1, ChainAssumption DEF hasOwn, hasSent, hashes
  <1>3. QED
    BY <1>1, <1>2 DEF SentOK

\* During a send its message is stored from the answer to the rollback, and its
\* block only at the end; of all other messages a node has both or none.
THEOREM SentAlways == Spec => [](\A n \in Nodes : SentOK(n))
  <1>1. Init => \A n \in Nodes : SentOK(n)
    BY SentInit
  <1>2. /\ IInv /\ SocketsInv /\ UniqueInv /\ (\A n \in Nodes : SentOK(n)) /\ [Next]_vars
        => (\A n \in Nodes : SentOK(n))'
    BY SentOKStep
  <1>3. QED
    BY <1>1, <1>2, Inductive, SocketsAlways, UniqueAlways, PTL DEF Spec

\* Between two sends a running node lists as sent exactly the messages whose
\* block is in its own table: the rollback in sendSecretMessage undoes every send
\* whose block was refused, outrun or never answered for, whoever crashed, and a
\* withdrawal that arrives meanwhile never removes one's own message.
THEOREM SentMatchOwnBlocksAlways == Spec => []SentMessagesMatchOwnBlocks
  <1>1. SocketsInv /\ (\A n \in Nodes : SentOK(n)) => SentMessagesMatchOwnBlocks
    <2>1. SUFFICES ASSUME SocketsInv, \A n \in Nodes : SentOK(n),
                          NEW n \in Nodes, up[n], cli[n].pc = "idle", NEW m \in Msgs
                   PROVE  hasSent(n, m) <=> hasOwn(n, m)
      BY DEF SentMessagesMatchOwnBlocks, hasSent, hasOwn
    <2>2. cli[n].msg = None
      BY <2>1 DEF SocketsInv, SocketOK, Idle
    <2>3. QED
      BY <2>1, <2>2, ChainAssumption DEF SentOK
  <1>2. QED
    BY <1>1, SentAlways, SocketsAlways, PTL

\* The tables of a node that is down stay as they are.
LEMMA DownKept ==
    ASSUME IInv, [Next]_vars, NEW n \in Nodes, ~up'[n]
    PROVE  \A m \in Msgs : (hasOwn(n, m)' <=> hasOwn(n, m)) /\ (hasSent(n, m)' <=> hasSent(n, m))
  <1>1. chain'[n] = chain[n] /\ messages'[n] = messages[n]
    <2>1. ASSUME NEW p \in Nodes, ClientStep(p) \/ ServerStep(p)
          PROVE  p # n /\ chain'[n] = chain[n] /\ messages'[n] = messages[n]
      <3>1. p # n
        BY <2>1, ClientStepLocal, ServerStepLocal
      <3>2. QED
        BY <2>1, <3>1, ClientStepLocal, ServerStepLocal
    <2>2. QED
      BY <2>1 DEF Next, Connect, ConnectFails, Crash, vars
  <1>2. QED
    BY <1>1 DEF hasOwn, hasSent

\* The messages that n lists as sent and has no block for.
loose(n) == {m \in Msgs : hasSent(n, m) /\ ~hasOwn(n, m)}
oneLoose(n) == (\A m, k \in loose(n) : m = k) /\ (\A m \in Msgs : hasOwn(n, m) => hasSent(n, m))

\* What a node may have sent or stored, one message is the one it is sending.
LEMMA RunningLoose ==
    ASSUME NEW n \in Nodes, up[n], SentOK(n)
    PROVE  oneLoose(n)
  <1>1. \A m \in loose(n) : m = cli[n].msg
    BY DEF SentOK, loose
  <1>2. \A m \in Msgs : hasOwn(n, m) => hasSent(n, m)
    BY DEF SentOK
  <1>3. QED
    BY <1>1, <1>2 DEF oneLoose

\* However a node ends, and whatever it was sending, it leaves at most one message
\* without its block and no block without its message.
THEOREM CrashAlwaysLeavesOneMessage == Spec => []CrashLeavesOneMessage
  <1>1. (\A n \in Nodes : up[n] /\ SentOK(n)) => \A n \in Nodes : oneLoose(n)
    BY RunningLoose
  <1>2. Init => CrashLeavesOneMessage
    <2>1. Init => \A n \in Nodes : up[n] /\ SentOK(n)
      BY SentInit DEF Init
    <2>2. QED
      BY <1>1, <2>1 DEF CrashLeavesOneMessage, oneLoose, loose
  <1>3. IInv /\ CrashLeavesOneMessage /\ (\A n \in Nodes : SentOK(n))' /\ [Next]_vars
            => CrashLeavesOneMessage'
    <2>1. SUFFICES ASSUME IInv, CrashLeavesOneMessage, (\A n \in Nodes : SentOK(n))',
                          [Next]_vars, NEW n \in Nodes
                   PROVE  oneLoose(n)'
      BY DEF CrashLeavesOneMessage, oneLoose, loose
    <2>2. CASE up'[n]
      <3>1. ASSUME NEW m \in Msgs
            PROVE  IF m = cli'[n].msg THEN ~hasOwn(n, m)' ELSE hasSent(n, m)' <=> hasOwn(n, m)'
        BY <2>1, <2>2 DEF SentOK
      <3>2. QED
        BY <3>1 DEF oneLoose, loose
    <2>3. CASE ~up'[n]
      <3>1. oneLoose(n)
        BY <2>1 DEF CrashLeavesOneMessage, oneLoose, loose
      <3>2. QED
        BY <2>1, <2>3, <3>1, DownKept DEF oneLoose, loose
    <2>4. QED
      BY <2>2, <2>3
  <1>4. QED
    BY <1>2, <1>3, Inductive, SentAlways, PTL DEF Spec

-----------------------------------------------------------------------------
(* What a node can show.                                                   *)

\* The pair a key belongs to.
LEMMA Keys ==
    ASSUME NEW n
    PROVE  /\ evpFromPem(publicKey(n)) = <<n, "generated">>
           /\ evpFromPem(privateKey(n)) =
                  <<n, IF n \in BadKeys THEN "replaced" ELSE "generated">>
  BY DEF evpFromPem, publicKey, privateKey, generateKeyPair, pemFromEVP

\* A signature verifies with the public key of a node whose private key fits it.
LEMMA SignedWell ==
    ASSUME NEW n, NEW x
    PROVE  verify(x, sign(x, privateKey(n)), publicKey(n)) <=> n \notin BadKeys
  <1>1. sign(x, privateKey(n)) = [message |-> x, by |-> evpFromPem(privateKey(n))]
    BY DEF sign
  <1>2. verify(x, sign(x, privateKey(n)), publicKey(n))
            <=> evpFromPem(privateKey(n)) = evpFromPem(publicKey(n))
    BY <1>1 DEF verify
  <1>3. QED
    BY <1>2, Keys

\* The sender of a message can read it back unless its keys do not fit.
LEMMA ReadBackBySender ==
    ASSUME NEW r, NEW n, n = r.from
    PROVE  textOf(n, messageJson(r), TRUE) = IF n \in BadKeys THEN CrashedMessage ELSE r.id
  <1> DEFINE key == createSessionKey(privateKey(n), publicKey(r.to))
             json == messageJson(r)
  <1>1. /\ json.from = n /\ json.to = r.to /\ json.message = encrypt(r.id, key)
        /\ json.signature = sign(r.id, privateKey(n))
    BY DEF messageJson, serializeText
  <1> HIDE DEF key, json
  <1>2. json.message.plain = r.id /\ json.message.key = key
    BY <1>1 DEF encrypt
  <1>3. readable(n, json, TRUE) <=>
            /\ decrypts(json.message, createSessionKey(privateKey(n), publicKey(json.to)))
            /\ verify(json.message.plain, json.signature, publicKey(json.from))
    BY DEF readable, decrypt
  <1>4. decrypts(json.message, createSessionKey(privateKey(n), publicKey(json.to)))
    BY <1>1, <1>2 DEF decrypts, key
  <1>5. readable(n, json, TRUE) <=> n \notin BadKeys
    BY <1>1, <1>2, <1>3, <1>4, SignedWell
  <1>6. QED
    BY <1>2, <1>5 DEF textOf, json

\* A message that can be read reads as it was typed, and its sender's keys fit.
LEMMA ReadByRecipient ==
    ASSUME NEW r, NEW n, readable(n, messageJson(r), FALSE)
    PROVE  textOf(n, messageJson(r), FALSE) = r.id /\ r.from \notin BadKeys
  <1> DEFINE key == createSessionKey(privateKey(r.from), publicKey(r.to))
             json == messageJson(r)
  <1>1. /\ json.from = r.from /\ json.message = encrypt(r.id, key)
        /\ json.signature = sign(r.id, privateKey(r.from))
    BY DEF messageJson, serializeText
  <1> HIDE DEF key, json
  <1>2. json.message.plain = r.id
    BY <1>1 DEF encrypt
  <1>3. verify(json.message.plain, json.signature, publicKey(json.from))
    BY DEF readable, decrypt, json
  <1>4. QED
    BY <1>1, <1>2, <1>3, SignedWell DEF textOf, json

\* A message between two nodes whose keys fit can be read by the recipient: both
\* ends derive the same session key.
LEMMA ReadableIfKeysFit ==
    ASSUME NEW r, r.from \notin BadKeys, r.to \notin BadKeys
    PROVE  readable(r.to, messageJson(r), FALSE)
  <1> DEFINE key == createSessionKey(privateKey(r.from), publicKey(r.to))
             json == messageJson(r)
  <1>1. /\ json.from = r.from /\ json.message = encrypt(r.id, key)
        /\ json.signature = sign(r.id, privateKey(r.from))
    BY DEF messageJson, serializeText
  <1>2. createSessionKey(privateKey(r.to), publicKey(r.from)) = key
    BY Keys DEF createSessionKey
  <1> HIDE DEF key, json
  <1>3. json.message.plain = r.id /\ json.message.key = key
    BY <1>1 DEF encrypt
  <1>4. decrypts(json.message, createSessionKey(privateKey(r.to), publicKey(json.from)))
    BY <1>1, <1>2, <1>3 DEF decrypts
  <1>5. verify(json.message.plain, json.signature, publicKey(json.from))
    BY <1>1, <1>3, SignedWell
  <1>6. QED
    BY <1>4, <1>5 DEF readable, decrypt, json

\* No chat is ever taken off the list.
LEMMA ChatsGrow ==
    ASSUME IInv, [Next]_vars, NEW k \in Nodes
    PROVE  chats[k] \subseteq chats'[k]
  <1>1. chats \in [Nodes -> SUBSET Nodes]
    BY DEF IInv, TypeOK
  <1>2. ASSUME NEW n \in Nodes, ClientStep(n) PROVE chats' = chats \/ AddChatPeer(n)
    BY <1>2 DEF ClientStep, SendText, MessageTooBig, SendTextLost, TextAnswered, SendBlock,
       SkipPeer,
       BlockAnswered, BlockAnswerCut, CheckOwnBlock, InsertOwnBlock, Rollback, NotifyRecipient
  <1>3. ASSUME NEW n \in Nodes, ServerStep(n) PROVE chats' = chats \/ AnswerTextMessage(n)
    BY <1>3 DEF ServerStep, HandleTextMessage, ValidateBlock, CheckBlock, InsertBlock,
       HandleBlockchainError, DropClosed, ReceivePart
  <1>4. ASSUME NEW n \in Nodes, AddChatPeer(n) \/ AnswerTextMessage(n)
        PROVE  chats[k] \subseteq chats'[k]
    BY <1>1, <1>4 DEF AddChatPeer, AnswerTextMessage
  <1>5. QED
    BY <1>2, <1>3, <1>4 DEF Next, Connect, ConnectFails, Crash, vars

\* Who runs after a step ran before it.
LEMMA UpShrinks ==
    ASSUME IInv, [Next]_vars, NEW k \in Nodes, up'[k]
    PROVE  up[k] /\ ~Crash(k)
  BY ClientStepLocal, ServerStepLocal
     DEF Next, Connect, ConnectFails, Crash, vars, IInv, TypeOK

\* Every step keeps stored messages listed and readable.
LEMMA ShownStep ==
    ASSUME IInv, SocketsInv, [Next]_vars, NEW k \in Nodes, ShownOK(k)
    PROVE  ShownOK(k)'
  <1>1. SUFFICES ASSUME up'[k], NEW r \in messages'[k]
                 PROVE  IF r.from = k
                        THEN /\ r.to # k
                             /\ r.to \in chats'[k] \/ (cli'[k].pc = "addChat" /\ cli'[k].to = r.to)
                        ELSE /\ r.to = k /\ readable(k, messageJson(r), FALSE)
                             /\ \/ r.from \in chats'[k]
                                \/ srv'[k] = "addChat" /\ request(k)'.from = r.from
    BY DEF ShownOK
  <1>2. up[k] /\ ~Crash(k) /\ chats[k] \subseteq chats'[k] /\ chats \in [Nodes -> SUBSET Nodes]
    BY <1>1, UpShrinks, ChatsGrow DEF IInv, TypeOK
  <1>3. CASE r \in messages[k] /\ r.from = k
    <2>1. r.to # k /\ (r.to \in chats[k] \/ (cli[k].pc = "addChat" /\ cli[k].to = r.to))
      BY <1>2, <1>3 DEF ShownOK
    <2>2. ASSUME cli[k].pc = "addChat", cli[k].to = r.to
          PROVE  r.to \in chats'[k] \/ (cli'[k].pc = "addChat" /\ cli'[k].to = r.to)
      <3>1. ASSUME NEW m \in Msgs, NEW p \in Nodes, Connect(k, m, p) PROVE FALSE
        BY <2>2, <3>1 DEF Connect
      <3>2. ClientStep(k) => AddChatPeer(k)
        BY <2>2 DEF ClientStep, SendText, MessageTooBig, SendTextLost, TextAnswered, SendBlock,
           SkipPeer, BlockAnswered, BlockAnswerCut, CheckOwnBlock, InsertOwnBlock, Rollback, NotifyRecipient
      <3>3. AddChatPeer(k) => cli[k].to \in chats'[k]
        BY <1>2 DEF AddChatPeer
      <3>4. QED
        BY <1>2, <2>2, <3>1, <3>2, <3>3, ClientMoves
    <2>3. QED
      BY <1>2, <1>3, <2>1, <2>2
  <1>4. CASE r \in messages[k] /\ r.from # k
    <2>1. /\ r.to = k /\ readable(k, messageJson(r), FALSE)
          /\ r.from \in chats[k] \/ (srv[k] = "addChat" /\ request(k).from = r.from)
      BY <1>2, <1>4 DEF ShownOK
    <2>2. ASSUME srv[k] = "addChat", request(k).from = r.from
          PROVE  r.from \in chats'[k] \/ (srv'[k] = "addChat" /\ request(k)'.from = r.from)
      <3>1. request(k).type = "TEXT_MESSAGE"
        BY <2>2 DEF SocketsInv, HandlerOK
      <3>2. ServerStep(k) => AnswerTextMessage(k)
        BY <2>2, <3>1 DEF ServerStep, HandleTextMessage, ValidateBlock, CheckBlock, InsertBlock,
           HandleBlockchainError, DropClosed, ReceivePart, serving
      <3>3. AnswerTextMessage(k) => request(k).from \in chats'[k]
        BY <1>2 DEF AnswerTextMessage
      <3>4. \/ srv'[k] = srv[k] /\ request(k)' = request(k)
            \/ ServerStep(k)
        BY <1>1, <2>2, HandlerStep
      <3>5. QED
        BY <2>2, <3>2, <3>3, <3>4
    <2>3. QED
      BY <1>2, <1>4, <2>1, <2>2
  <1>5. CASE TextAnswered(k) /\ r = rowOf(k)
    <2>1. cli'[k].pc = "addChat" /\ cli'[k].to = cli[k].to /\ cli[k].pc # "idle"
      BY <1>5, ClientFields DEF sameSend
    <2>2. r.from = k /\ r.to = cli[k].to /\ cli[k].to # k
      BY <1>5, <2>1, RowOfType DEF IInv, ClientOK
    <2>3. QED
      BY <2>1, <2>2
  <1>6. CASE /\ HandleTextMessage(k) /\ srv'[k] = "addChat" /\ backlog' = backlog
             /\ r = [id |-> request(k).block.hash, from |-> request(k).from, to |-> k]
             /\ readable(k, messageJson(r), FALSE)
    <2>1. request(k).from # k
      BY <1>6, ServedRequest DEF HandleTextMessage, serving
    <2>2. request(k)' = request(k)
      BY <1>6 DEF request
    <2>3. r.from = request(k).from /\ r.to = k
      BY <1>6
    <2>4. QED
      BY <1>6, <2>1, <2>2, <2>3
  <1>7. QED
    BY <1>3, <1>4, <1>5, <1>6, RowOrigin

\* Stored messages belong to a listed chat, or the thread that stored one is at
\* the statement that lists it; and received ones can be decrypted and verified.
THEOREM ShownAlways == Spec => [](\A n \in Nodes : ShownOK(n))
  <1>1. Init => \A n \in Nodes : ShownOK(n)
    BY DEF Init, ShownOK
  <1>2. /\ IInv /\ SocketsInv /\ (\A n \in Nodes : ShownOK(n)) /\ [Next]_vars
        => (\A n \in Nodes : ShownOK(n))'
    BY ShownStep
  <1>3. QED
    BY <1>1, <1>2, Inductive, SocketsAlways, PTL DEF Spec

\* /chat shows every stored message, with the text that was typed: the peers
\* table is filled by another statement than the messages table, and the one
\* encrypted copy of a text is read at both ends, with different keys.
THEOREM StoredAlwaysShown == Spec => []StoredMessagesShown
  <1>1. (\A n \in Nodes : ShownOK(n)) => StoredMessagesShown
    <2>1. SUFFICES ASSUME \A n \in Nodes : ShownOK(n), NEW n \in Nodes, up[n], NEW r \in messages[n]
                   PROVE  \/ [id |-> r.id, from |-> r.from, to |-> r.to,
                              text |-> IF r.from = n /\ n \in BadKeys THEN CrashedMessage ELSE r.id]
                                 \in handleChatCommand(n, IF r.from = n THEN r.to ELSE r.from)
                          \/ IF r.from = n THEN cli[n].pc = "addChat" ELSE srv[n] = "addChat"
      BY DEF StoredMessagesShown
    <2>2. CASE r.from = n /\ cli[n].pc # "addChat"
      <3>1. r.to # n /\ r.to \in chats[n]
        BY <2>1, <2>2 DEF ShownOK
      <3>2. readBack(n, r, TRUE) = [id |-> r.id, from |-> r.from, to |-> r.to,
                                    text |-> IF n \in BadKeys THEN CrashedMessage ELSE r.id]
        BY <2>2, ReadBackBySender DEF readBack
      <3>3. readBack(n, r, TRUE) \in findChatMessages(n, r.to)
        BY <2>1, <2>2 DEF findChatMessages
      <3>4. QED
        BY <2>2, <3>1, <3>2, <3>3 DEF handleChatCommand
    <2>3. CASE r.from # n /\ srv[n] # "addChat"
      <3>1. r.to = n /\ readable(n, messageJson(r), FALSE) /\ r.from \in chats[n]
        BY <2>1, <2>3 DEF ShownOK
      <3>2. readBack(n, r, FALSE) = [id |-> r.id, from |-> r.from, to |-> r.to, text |-> r.id]
        BY <3>1, ReadByRecipient DEF readBack
      <3>3. readBack(n, r, FALSE) \in findChatMessages(n, r.from)
        BY <2>1, <3>1 DEF findChatMessages
      <3>4. QED
        BY <2>3, <3>1, <3>2, <3>3 DEF handleChatCommand
    <2>4. QED
      BY <2>2, <2>3
  <1>2. QED
    BY <1>1, ShownAlways, PTL

-----------------------------------------------------------------------------
(* What a node has received.                                               *)

\* The initial rows are those of every table.
LEMMA InitialRows ==
    ASSUME IInv, NEW n \in Nodes, ReceivedOK(n)
    PROVE  /\ DOMAIN InitialChain = 1..Len(InitialChain) /\ Len(InitialChain) \in Nat
           /\ DOMAIN chain[n] = 1..Len(chain[n]) /\ Len(chain[n]) \in Nat
           /\ DOMAIN InitialChain \subseteq DOMAIN chain[n]
           /\ \A i \in DOMAIN chain[n] :
                  /\ i \in DOMAIN InitialChain <=> i <= Len(InitialChain)
                  /\ i \in DOMAIN InitialChain <=> chain[n][i].hash \notin Msgs
  <1>1. chain[n] \in Seq(Block) /\ InitialChain \in Seq(Block)
    BY ChainAssumption DEF IInv, TypeOK
  <1>2. /\ DOMAIN InitialChain = 1..Len(InitialChain) /\ Len(InitialChain) \in Nat
        /\ DOMAIN chain[n] = 1..Len(chain[n]) /\ Len(chain[n]) \in Nat
    BY <1>1, LenProperties
  <1>3. \A i \in DOMAIN InitialChain : InitialChain[i].hash \notin Msgs
    BY ChainAssumption DEF hashes
  <1>4. /\ Len(InitialChain) <= Len(chain[n])
        /\ \A i \in DOMAIN chain[n] : IF i \in DOMAIN InitialChain THEN chain[n][i] = InitialChain[i]
                                      ELSE chain[n][i].hash \in Msgs
    BY DEF ReceivedOK
  <1>5. QED
    BY <1>2, <1>3, <1>4

\* A table grows by blocks of messages.
LEMMA TableGrows ==
    ASSUME IInv, [Next]_vars, NEW k \in Nodes, ReceivedOK(k)
    PROVE  /\ Len(InitialChain) <= Len(chain'[k])
           /\ \A i \in DOMAIN chain'[k] :
                  IF i \in DOMAIN InitialChain THEN chain'[k][i] = InitialChain[i]
                  ELSE chain'[k][i].hash \in Msgs
  <1>1. chain[k] \in Seq(Block)
    BY DEF IInv, TypeOK
  <1>2. chain'[k] # chain[k] => Len(chain'[k]) = Len(chain[k]) + 1
    BY <1>1, GrowthFacts, AppendProperties
  <1>3. Len(InitialChain) <= Len(chain'[k])
    BY <1>2, InitialRows DEF ReceivedOK
  <1>4. ASSUME NEW i \in DOMAIN chain'[k]
        PROVE  IF i \in DOMAIN InitialChain THEN chain'[k][i] = InitialChain[i]
               ELSE chain'[k][i].hash \in Msgs
    <2>1. CASE i \in DOMAIN chain[k]
      BY <2>1, TableKeeps DEF ReceivedOK
    <2>2. CASE i \notin DOMAIN chain[k]
      <3>1. i \notin DOMAIN InitialChain
        BY <2>2, InitialRows
      <3>2. InsertOwnBlock(k) => cli[k].block.hash \in Msgs
        BY DEF InsertOwnBlock, IInv, ClientOK
      <3>3. InsertBlock(k) => request(k).block.hash \in Msgs
        BY ServedRequest DEF InsertBlock, serving
      <3>4. QED
        BY <2>2, <3>1, <3>2, <3>3, TableOrigin
    <2>3. QED
      BY <2>1, <2>2
  <1>5. QED
    BY <1>3, <1>4

\* Only its own steps, and a crash, move a server thread.
LEMMA HandlerMoves ==
    ASSUME IInv, [Next]_vars, NEW k \in Nodes
    PROVE  srv'[k] = srv[k] \/ ServerStep(k) \/ srv'[k] = "accept"
  BY ClientStepLocal, ServerStepLocal
     DEF Next, Connect, ConnectFails, Crash, vars, IInv, TypeOK

\* Every step keeps what is known of a validated block and its table.
LEMMA ReceivedStep ==
    ASSUME IInv, SocketsInv, [Next]_vars, NEW k \in Nodes, ReceivedOK(k)
    PROVE  ReceivedOK(k)'
  <1>1. chain[k] \in Seq(Block) /\ srv \in [Nodes -> {"accept", "addChat", "check", "insert"}]
    BY DEF IInv, TypeOK
  <1> DEFINE Goal == /\ validateSingleBlock(request(k)'.block)
                     /\ \/ request(k)'.block.previousHash = findTip(chain'[k])
                        \/ \E m \in Msgs : hasOwn(k, m)'
                     /\ \A i \in DOMAIN chain'[k] :
                            chain'[k][i].previousHash = request(k)'.block.previousHash
                                => chain'[k][i].hash \in Msgs
  <1>2. ASSUME srv'[k] \in {"check", "insert"} PROVE Goal
    <2>1. HandlerOK(k)' /\ up'[k]
      BY <1>2, HandlerStep DEF HandlerOK
    <2>2. CASE ValidateBlock(k)
      <3>1. validateIncomingBlock(k, chain[k], request(k).block) /\ backlog' = backlog
        <4>1. srv[k] = "accept"
          BY <2>2 DEF ValidateBlock
        <4>2. QED
          BY <1>2, <2>2, <4>1 DEF ValidateBlock
      <3>2. chain' = chain /\ request(k)' = request(k)
        BY <2>2, <3>1 DEF ValidateBlock, request
      <3>3. /\ validateSingleBlock(request(k).block)
            /\ request(k).block.previousHash = findTip(chain[k])
        BY <3>1 DEF validateIncomingBlock
      <3>4. \A i \in DOMAIN chain[k] : chain[k][i].previousHash # findTip(chain[k])
        BY TipHasNoChild DEF IInv
      <3>5. QED
        BY <3>2, <3>3, <3>4
    <2>3. CASE srv[k] \in {"check", "insert"} /\ request(k)' = request(k)
      <3>1. /\ validateSingleBlock(request(k).block)
            /\ request(k).block.previousHash = findTip(chain[k]) \/ \E m \in Msgs : hasOwn(k, m)
            /\ \A i \in DOMAIN chain[k] : chain[k][i].previousHash = request(k).block.previousHash
                                              => chain[k][i].hash \in Msgs
        BY <2>3 DEF ReceivedOK
      <3>2. \/ request(k).block.previousHash = findTip(chain'[k])
            \/ \E m \in Msgs : hasOwn(k, m)'
        <4>1. \A m : hasOwn(k, m) => hasOwn(k, m)'
          BY OwnStep
        <4>2. CASE chain'[k] # chain[k]
          <5>1. ~InsertBlock(k)
            BY <1>1, <1>2 DEF InsertBlock
          <5>2. InsertOwnBlock(k) /\ ~hasBlock(chain[k], cli[k].block.hash)
            BY <4>2, <5>1, Growth
          <5>3. PICK m \in Msgs : m = cli[k].msg
            BY <5>2 DEF InsertOwnBlock, IInv, ClientOK
          <5>4. hasOwn(k, m)'
            BY <5>2, <5>3, OwnStep
          <5>5. QED
            BY <5>4
        <4>3. CASE chain'[k] = chain[k]
          BY <3>1, <4>1, <4>3
        <4>4. QED
          BY <4>2, <4>3
      <3>3. ASSUME NEW i \in DOMAIN chain'[k],
                   chain'[k][i].previousHash = request(k).block.previousHash
            PROVE  chain'[k][i].hash \in Msgs
        <4>1. CASE i \in DOMAIN chain[k]
          BY <3>1, <3>3, <4>1, TableKeeps
        <4>2. CASE i \notin DOMAIN chain[k]
          BY <4>2, TableGrows, InitialRows
        <4>3. QED
          BY <4>1, <4>2
      <3>4. QED
        BY <2>3, <3>1, <3>2, <3>3
    <2>4. CASE CheckBlock(k)
      <3>1. srv[k] = "check" /\ backlog' = backlog
        BY <1>1, <1>2, <2>4 DEF CheckBlock
      <3>2. QED
        BY <2>3, <3>1 DEF request
    <2>5. CASE ServerStep(k)
      BY <1>1, <1>2, <2>2, <2>4, <2>5
         DEF ServerStep, HandleTextMessage, AnswerTextMessage, InsertBlock, HandleBlockchainError,
             DropClosed, ReceivePart, serving, SocketsInv, HandlerOK
    <2>6. CASE ~ServerStep(k)
      BY <1>2, <2>1, <2>3, <2>6, HandlerStep, HandlerMoves
    <2>7. QED
      BY <2>5, <2>6
  <1>3. QED
    BY <1>2, TableGrows DEF ReceivedOK

\* A validated block is still signed and still on the tip when it is inserted,
\* unless an own block has come between; every block but the initial ones is
\* that of a message.
THEOREM ReceivedAlways == Spec => [](\A n \in Nodes : ReceivedOK(n))
  <1>1. Init => \A n \in Nodes : ReceivedOK(n)
    <2>1. SUFFICES ASSUME Init, NEW n \in Nodes PROVE ReceivedOK(n)
      OBVIOUS
    <2>2. chain[n] = InitialChain /\ srv[n] = "accept" /\ Len(InitialChain) \in Nat
      BY <2>1, ChainAssumption, LenProperties DEF Init
    <2>3. QED
      BY <2>2 DEF ReceivedOK
  <1>2. /\ IInv /\ SocketsInv /\ (\A n \in Nodes : ReceivedOK(n)) /\ [Next]_vars
        => (\A n \in Nodes : ReceivedOK(n))'
    BY ReceivedStep
  <1>3. QED
    BY <1>1, <1>2, Inductive, SocketsAlways, PTL DEF Spec

\* A block on the tip extends a valid chain to a valid chain.
LEMMA ExtendsValid ==
    ASSUME NEW t \in Seq(Block), NEW b \in Block, validateLocalChain(t),
           b.previousHash = findTip(t), validateSingleBlock(b)
    PROVE  validateLocalChain(Append(t, b))
  <1> DEFINE u == Append(t, b)
             l == Len(t)
  <1>1. /\ DOMAIN u = 1..(l + 1) /\ DOMAIN t = 1..l /\ l \in Nat
        /\ \A i \in DOMAIN t : u[i] = t[i]
        /\ u[l + 1] = b
    BY AppendBlock
  <1>2. /\ \A i \in DOMAIN t : t[i].previousHash = IF i = 1 THEN NoHash ELSE t[i - 1].hash
        /\ \A i \in DOMAIN t : validateSingleBlock(t[i])
    BY DEF validateLocalChain, linear
  <1>3. b.previousHash = IF l = 0 THEN NoHash ELSE t[l].hash
    BY EmptySeq DEF findTip
  <1> HIDE DEF u, l
  <1>4. ASSUME NEW i \in DOMAIN u
        PROVE  u[i].previousHash = (IF i = 1 THEN NoHash ELSE u[i - 1].hash)
               /\ validateSingleBlock(u[i])
    <2>1. CASE i \in DOMAIN t
      <3>1. i # 1 => i - 1 \in DOMAIN t
        BY <1>1, <2>1
      <3>2. QED
        BY <1>1, <1>2, <2>1, <3>1
    <2>2. CASE i = l + 1
      <3>1. l # 0 => l \in DOMAIN t
        BY <1>1
      <3>2. i - 1 = l /\ (i = 1 <=> l = 0)
        BY <1>1, <2>2
      <3>3. QED
        BY <1>1, <1>3, <2>2, <3>1, <3>2
    <2>3. QED
      BY <1>1, <2>1, <2>2
  <1>5. QED
    BY <1>4 DEF validateLocalChain, linear, u

\* Every step keeps tables without an own block valid.
LEMMA ReceivedValidStep ==
    ASSUME IInv, SocketsInv, \A n \in Nodes : ReceivedOK(n), ReceivedChainValid, [Next]_vars
    PROVE  ReceivedChainValid'
  <1>1. SUFFICES ASSUME NEW n \in Nodes, validateLocalChain(InitialChain),
                        \A i \in DOMAIN chain'[n] :
                            i > Len(InitialChain) => chain'[n][i].author # n
                 PROVE  validateLocalChain(chain'[n])
    BY DEF ReceivedChainValid
  <1>2. /\ chain[n] \in Seq(Block) /\ ReceivedOK(n)
        /\ \A i \in DOMAIN chain[n] : i > Len(InitialChain) => chain[n][i].author # n
    BY <1>1, TableKeeps DEF IInv, TypeOK
  <1>3. validateLocalChain(chain[n])
    BY <1>1, <1>2 DEF ReceivedChainValid
  <1>4. CASE chain'[n] # chain[n]
    <2>1. PICK b \in Block :
              /\ chain'[n] = Append(chain[n], b)
              /\ \/ b.author = n
                 \/ InsertBlock(n) /\ b = request(n).block
      BY <1>4, GrowthFacts
    <2>2. /\ Len(chain[n]) + 1 \in DOMAIN chain'[n] /\ chain'[n][Len(chain[n]) + 1] = b
          /\ Len(chain[n]) + 1 > Len(InitialChain)
      BY <1>2, <2>1, AppendBlock, InitialRows DEF ReceivedOK
    <2>3. InsertBlock(n) /\ b = request(n).block
      BY <1>1, <2>1, <2>2
    <2>4. \A m \in Msgs : ~hasOwn(n, m)
      <3>1. ASSUME NEW i \in DOMAIN chain[n], chain[n][i].hash \in Msgs
            PROVE  chain[n][i].author # n
        BY <1>2, <3>1, InitialRows
      <3>2. QED
        BY <3>1 DEF hasOwn
    <2>5. validateSingleBlock(b) /\ b.previousHash = findTip(chain[n])
      BY <1>2, <2>3, <2>4 DEF ReceivedOK, InsertBlock
    <2>6. QED
      BY <1>2, <1>3, <2>1, <2>5, ExtendsValid
  <1>5. QED
    BY <1>3, <1>4

\* A table that holds no block its owner has sent passes validateLocalChain,
\* however receptions interleave with the owner's sends: only the owner's own
\* insert, which is not validated, can damage its chain.
THEOREM ReceivedChainAlwaysValid == Spec => []ReceivedChainValid
  <1>1. Init => ReceivedChainValid
    BY DEF Init, ReceivedChainValid
  <1>2. /\ IInv /\ SocketsInv /\ (\A n \in Nodes : ReceivedOK(n)) /\ ReceivedChainValid
        /\ [Next]_vars
        => ReceivedChainValid'
    BY ReceivedValidStep
  <1>3. QED
    BY <1>1, <1>2, Inductive, SocketsAlways, ReceivedAlways, PTL DEF Spec
=============================================================================
