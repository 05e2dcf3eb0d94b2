------------------------------- MODULE ChainDB -------------------------------
(***************************************************************************)
(* The blocks table of one node (infra/blockchain/ChainDB.cpp).            *)
(*                                                                         *)
(* Rows are never deleted or updated and the AUTOINCREMENT id grows by one *)
(* with each of them, so the table is the sequence of its blocks ordered   *)
(* by id, and the id of a row is its position.  A block is a record        *)
(* [hash, previousHash, author]; the operators are the queries.            *)
(***************************************************************************)
EXTENDS Integers, Sequences

CONSTANT NoHash     \* the hash "0" of a default-constructed Block

hashes(chain) == {chain[i].hash : i \in DOMAIN chain}

\* Mutant: the row is never copied, the block keeps its default hash.
findTipDefault(chain) == NoHash

\* SELECT ... ORDER BY id DESC LIMIT 1.  The callers only use the hash of the
\* block, and an empty table leaves their default Block, of hash "0", alone.
findTip(chain) == IF chain = << >> THEN NoHash ELSE chain[Len(chain)].hash

hasBlock(chain, hash) == hash \in hashes(chain)

hasChild(chain, hash) == \E i \in DOMAIN chain : chain[i].previousHash = hash

\* Mutant: the SELECT looks for the parent where it should look for its child.
insertAllowedByHash(chain, block) ==
    block.previousHash # NoHash => ~hasBlock(chain, block.previousHash)

\* insertBlock is two statements, each under its own lock of the database
\* mutex.  insertAllowed is the SELECT that refuses a second child of a block
\* (a first block, whose previous hash is "0", is not looked up at all);
\* insertRow is the INSERT, which the UNIQUE hash column may refuse.
insertAllowed(chain, block) ==
    block.previousHash # NoHash => ~hasChild(chain, block.previousHash)

insertRow(chain, block) ==
    IF hasBlock(chain, block.hash) THEN chain ELSE Append(chain, block)

\* Both statements, where no other thread can come between them.
insertBlock(chain, block) ==
    IF insertAllowed(chain, block) THEN insertRow(chain, block) ELSE chain

-----------------------------------------------------------------------------
(* What a starting node asks of the table of another one.                  *)

\* id of the row with this hash
idOf(chain, hash) == CHOOSE i \in DOMAIN chain : chain[i].hash = hash

\* Mutant: the known block is counted out twice.
countBlocksOneLess(chain, hash) ==
    IF hash # NoHash /\ hasBlock(chain, hash)
    THEN Len(chain) - idOf(chain, hash) - 1
    ELSE Len(chain)

\* The number of blocks after the one with this hash; an unknown hash counts
\* every block, exactly as "0" does.
countBlocksAfterHash(chain, hash) ==
    IF hash # NoHash /\ hasBlock(chain, hash)
    THEN Len(chain) - idOf(chain, hash)
    ELSE Len(chain)

\* Mutant: ids taken to begin at 0.
getBlocksOneOff(chain, start, count, lastHash) ==
    LET first == IF lastHash = NoHash THEN 2 + start
                 ELSE idOf(chain, lastHash) + 2 + start
        last  == IF first + count - 1 < Len(chain) THEN first + count - 1 ELSE Len(chain)
    IN  IF lastHash # NoHash /\ ~hasBlock(chain, lastHash)
        THEN << >>
        ELSE SubSeq(chain, first, last)

\* At most count blocks from the start-th after lastHash on; nothing at all
\* when lastHash is unknown.
getBlocksByIndexRange(chain, start, count, lastHash) ==
    LET first == IF lastHash = NoHash THEN 1 + start
                 ELSE idOf(chain, lastHash) + 1 + start
        last  == IF first + count - 1 < Len(chain) THEN first + count - 1 ELSE Len(chain)
    IN  IF lastHash # NoHash /\ ~hasBlock(chain, lastHash)
        THEN << >>
        ELSE SubSeq(chain, first, last)
=============================================================================
