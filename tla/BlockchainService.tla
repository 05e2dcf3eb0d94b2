-------------------------- MODULE BlockchainService --------------------------
(***************************************************************************)
(* Creation and validation of blocks (domain/blockchain), as operators on  *)
(* the blocks table of the node that runs them.                            *)
(*                                                                         *)
(* A block stands for [hash, previousHash, author]: its hash is the        *)
(* identity of the message it was made for (SHA-256 taken as free of       *)
(* collisions), payload hash, timestamp and signature are functions of     *)
(* that message and of its author.                                         *)
(***************************************************************************)
EXTENDS ChainDB, Crypto

CONSTANT Ahead  \* <<a, b>>: a's clock runs over five minutes ahead of b's

createBlockFromMessage(chain, author, msg) ==
    [hash |-> msg, previousHash |-> findTip(chain), author |-> author]

\* What the author signs: everything of the block but hash and signature.
toStringForHash(block) == <<block.previousHash, block.hash, block.author>>

\* The signature createBlockFromMessage made, which travels with the block.
signature(block) == sign(toStringForHash(block), privateKey(block.author))

verifyBlockSignature(block) ==
    verify(toStringForHash(block), signature(block), publicKey(block.author))

\* After the signature the hash is recomputed, which for a block made by
\* createBlockFromMessage always agrees.
validateSingleBlock(block) == verifyBlockSignature(block)

notInFuture(node, block) == <<block.author, node>> \notin Ahead

\* Mutant: a block is accepted wherever it attaches.
validateIncomingAnywhere(node, chain, block) ==
    /\ validateSingleBlock(block)
    /\ notInFuture(node, block)
    /\ ~hasBlock(chain, block.hash)

\* Mutant: signature and hash are not checked.
validateIncomingUnsigned(node, chain, block) ==
    /\ notInFuture(node, block)
    /\ block.previousHash = findTip(chain)
    /\ ~hasBlock(chain, block.hash)

\* If the previous hash is not the tip's, the block is refused whether it is
\* found in the table ("fork detected") or not ("previous block not found").
validateIncomingBlock(node, chain, block) ==
    /\ validateSingleBlock(block)
    /\ notInFuture(node, block)
    /\ block.previousHash = findTip(chain)
    /\ ~hasBlock(chain, block.hash)

\* The table is one line from "0": each row names the row before it.
linear(chain) ==
    \A i \in DOMAIN chain :
        chain[i].previousHash = IF i = 1 THEN NoHash ELSE chain[i - 1].hash

validateLocalChain(chain) ==
    /\ linear(chain)
    /\ \A i \in DOMAIN chain : validateSingleBlock(chain[i])

\* Author, timestamp and payload hash of a block against those of a message as
\* read back, then the block's signature.  The payload hash is that of the text
\* the block was made for.
compareBlockWithMessage(block, message) ==
    /\ block.author = message.from
    /\ block.hash = message.text
    /\ verifyBlockSignature(block)

\* Mutant: the first block is not compared with the own tip.
validateNewBlocksUnattached(chain, newBlocks) ==
    newBlocks # << >> =>
        /\ \A i \in 2..Len(newBlocks) :
               newBlocks[i].previousHash = newBlocks[i - 1].hash
        /\ \A i \in DOMAIN newBlocks : validateSingleBlock(newBlocks[i])

\* The blocks a starting node fetched: linked to one another and, unless the
\* own table is empty, to its tip.
validateNewBlocks(chain, newBlocks) ==
    newBlocks # << >> =>
        /\ \A i \in 2..Len(newBlocks) :
               newBlocks[i].previousHash = newBlocks[i - 1].hash
        /\ chain # << >> => newBlocks[1].previousHash = findTip(chain)
        /\ \A i \in DOMAIN newBlocks : validateSingleBlock(newBlocks[i])
=============================================================================
