----------------------------- MODULE MCMembership -----------------------------
(* Small instances of Membership.                                          *)
EXTENDS Membership

CONSTANTS alice, bob, carol, dave, m1, m2, g1, g2, g3

\* everybody trusts alice, who runs; or two hosts are trusted
TrustAlice == [n \in Nodes |-> IF n = alice THEN << >> ELSE <<alice>>]
TrustTwo == [n \in Nodes |-> CASE n = alice -> <<bob>> [] n = bob -> <<alice>> [] OTHER -> <<alice, bob>>]

Alone == [n \in Nodes |-> << >>]
\* lists after alice, then bob, then carol have been started
Joined == [n \in Nodes |-> CASE n = alice -> SelectSeq(<<bob, carol>>, LAMBDA p : p \in Running)
                             [] n = bob -> SelectSeq(<<alice, carol>>, LAMBDA p : p \in Running)
                             [] OTHER -> SelectSeq(<<alice, bob>>, LAMBDA p : p \in Running)]

\* three blocks of alice; the others have one of them, or none
Three == << [hash |-> g1, previousHash |-> NoHash, author |-> alice],
            [hash |-> g2, previousHash |-> g1, author |-> alice],
            [hash |-> g3, previousHash |-> g2, author |-> alice] >>
Behind == [n \in Nodes |-> IF n \in Running THEN Three ELSE SubSeq(Three, 1, 1)]
Empty == [n \in Nodes |-> IF n \in Running THEN Three ELSE << >>]

Nobody == {}
=============================================================================
