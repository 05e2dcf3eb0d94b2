------------------------------ MODULE BlockStore ------------------------------
(***************************************************************************)
(* What the blocks tables of the nodes promise, whatever protocol fills    *)
(* them: a table only grows, one block at a time; a block is stored once,  *)
(* after the block it extends; and of the blocks extending one parent a    *)
(* node stores at most one that it received and one of its own.            *)
(***************************************************************************)
EXTENDS ChainDB

CONSTANTS
    Nodes,
    Block,          \* records with fields hash, previousHash and author
    InitialChain    \* what every table holds at the start

VARIABLE store      \* store[n]: the blocks table of n

extendsStored(blocks, b) == b.previousHash \in hashes(blocks) \cup {NoHash}

\* b and a stored block have the same parent: one of them is n's, one is not
siblingsDiffer(n, blocks, b) ==
    \A i \in DOMAIN blocks :
        blocks[i].previousHash = b.previousHash =>
            (blocks[i].author = n <=> b.author # n)

Init == store = [n \in Nodes |-> InitialChain]

Add(n, b) ==
    /\ ~hasBlock(store[n], b.hash)
    /\ extendsStored(store[n], b)
    /\ siblingsDiffer(n, store[n], b)
    /\ store' = [store EXCEPT ![n] = Append(@, b)]

Next == \E n \in Nodes, b \in Block : Add(n, b)

Spec == Init /\ [][Next]_store
=============================================================================
