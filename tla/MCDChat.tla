------------------------------- MODULE MCDChat -------------------------------
(* Small instances of DChat.                                               *)
EXTENDS DChat

CONSTANTS alice, bob, carol, m1, m2, m3, g

\* everyone knows everyone; the same, but carol has only heard of alice, or bob has
\* not heard of her
FullMesh == [n \in Nodes |-> Nodes \ {n}]
CarolKnowsAlice == [n \in Nodes |-> IF n = carol THEN {alice} ELSE Nodes \ {n}]
BobUnawareOfAlice == [n \in Nodes |-> IF n = bob THEN Nodes \ {alice, bob} ELSE Nodes \ {n}]

\* the common first block of the stress test, made by alice; or a new network
Genesis == << [hash |-> g, previousHash |-> NoHash, author |-> alice] >>
EmptyChain == << >>

\* message lengths around the limit: m2 fills the buffer, m3 exceeds it
SizeLimit == 2
AllShort == [m \in Msgs |-> 1]
EdgeSizes == [m \in Msgs |-> CASE m = m2 -> SizeLimit [] m = m3 -> SizeLimit + 1 [] OTHER -> 1]

Nobody == {}
OnlyCarol == {carol}
BobAheadOfAlice == {<<bob, alice>>}
=============================================================================
