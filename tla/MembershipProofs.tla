--------------------------- MODULE MembershipProofs ---------------------------
(***************************************************************************)
(* Proofs about Membership, in three parts after the loops it is made of:  *)
(*   - the peer lists and the calls (ListsInv);                            *)
(*   - hashes, fetched blocks and single lines (SyncInv): what a starting  *)
(*     node stores, whatever crashes and gets lost;                        *)
(*   - who is listed while somebody starts or leaves (OnlineInv), in a     *)
(*     network where nothing crashes or gets lost.                         *)
(***************************************************************************)
EXTENDS Membership, FiniteSetTheorems, WellFoundedInduction, TLAPS

-----------------------------------------------------------------------------
(* Loops.  FoldLeft is defined by recursion over the parts of the domain;  *)
(* what it does is shown here once for each loop of the model.             *)

\* Every set of numbers has a smallest one.
LEMMA NatMin ==
    ASSUME NEW T, T \subseteq Nat, T # {}
    PROVE  \E x \in T : \A y \in T : x <= y
  <1> DEFINE R == {ss \in Nat \X Nat : ss[1] < ss[2]}
  <1>1. R = OpToRel(<, Nat)
    BY DEF OpToRel
  <1>2. IsWellFoundedOn(R, Nat)
    BY <1>1, NatLessThanWellFounded DEF OpToRel
  <1> HIDE DEF R
  <1>3. PICK x \in T : \A y \in T : ~(<<y, x>> \in R)
    BY <1>2, WFMin
  <1>4. \A y \in T : ~(y < x)
    BY <1>3 DEF R
  <1>5. QED
    BY <1>4

\* A set with 0 that is closed under successors has all numbers.
LEMMA Induct ==
    ASSUME NEW S, S \subseteq Nat, 0 \in S, \A n \in S : n + 1 \in S
    PROVE  S = Nat
  <1>1. SUFFICES ASSUME Nat \ S # {} PROVE FALSE
    OBVIOUS
  <1>2. PICK x \in Nat \ S : \A y \in Nat \ S : x <= y
    BY <1>1, NatMin
  <1>3. x # 0 /\ x - 1 \in Nat
    BY <1>2
  <1>4. x - 1 \in S
    BY <1>2, <1>3
  <1>5. QED
    BY <1>2, <1>3, <1>4

\* The largest element of a part of an interval, and what is left without it.
LEMMA PartsOfInterval ==
    ASSUME NEW k \in Nat, NEW u, u \subseteq 1..(k + 1)
    PROVE  /\ k + 1 \notin u => u \subseteq 1..k
           /\ k + 1 \in u => Max(u) = k + 1 /\ u \ {k + 1} \subseteq 1..k
  <1>1. \A y \in u : y \in Nat /\ k + 1 >= y
    OBVIOUS
  <1>2. ASSUME k + 1 \in u
        PROVE  Max(u) = k + 1
    <2>1. \A x \in u : (\A y \in u : x >= y) => x = k + 1
      BY <1>1, <1>2
    <2>2. Max(u) \in u /\ \A y \in u : Max(u) >= y
      BY <1>1, <1>2 DEF Max
    <2>3. QED
      BY <2>1, <2>2
  <1>3. QED
    BY <1>2

\* Every part of an interval but the empty one has a largest element.
LEMMA MaxOfPart ==
    ASSUME NEW k \in Nat, NEW u, u \subseteq 1..k, u # {}
    PROVE  Max(u) \in u
  <1> DEFINE S == {j \in Nat : \A v \in SUBSET (1..j) : v # {} => Max(v) \in v}
  <1>1. 0 \in S
    <2>1. 1..0 = {}
      OBVIOUS
    <2>2. QED
      BY <2>1
  <1>2. ASSUME NEW j \in S
        PROVE  j + 1 \in S
    <2>1. j \in Nat /\ j + 1 \in Nat /\ \A v \in SUBSET (1..j) : v # {} => Max(v) \in v
      BY <1>2
    <2>2. ASSUME NEW v \in SUBSET (1..(j + 1)), v # {}
          PROVE  Max(v) \in v
      <3>1. CASE j + 1 \in v
        BY <2>1, <3>1, PartsOfInterval
      <3>2. CASE j + 1 \notin v
        <4>1. v \in SUBSET (1..j)
          BY <2>1, <3>2, PartsOfInterval
        <4>2. QED
          BY <2>1, <2>2, <4>1
      <3>3. QED
        BY <3>1, <3>2
    <2>3. QED
      BY <2>1, <2>2
  <1>3. S \subseteq Nat
    OBVIOUS
  <1> HIDE DEF S
  <1>4. k \in S
    BY <1>1, <1>2, <1>3, Induct
  <1>5. QED
    BY <1>4 DEF S

\* The whole interval.
LEMMA Interval ==
    ASSUME NEW i \in Nat \ {0}
    PROVE  /\ Max(1..i) = i /\ (1..i) \ {i} = 1..(i - 1) /\ 1..i # {}
           /\ \A k \in Nat : i <= k => 1..i \in SUBSET (1..k)
  <1>1. PICK j \in Nat : i = j + 1
    BY i - 1 \in Nat /\ i = (i - 1) + 1
  <1>2. 1..i \subseteq 1..(j + 1) /\ j + 1 \in 1..i
    BY <1>1
  <1> DEFINE u == 1..i
  <1>3. Max(u) = j + 1
    <2> HIDE DEF u
    <2>1. u \subseteq 1..(j + 1) /\ j + 1 \in u
      BY <1>2 DEF u
    <2>2. QED
      BY <2>1, PartsOfInterval
  <1>4. QED
    BY <1>1, <1>2, <1>3

\* f maps the parts of 1..k to what the steps G[i], for the i of the part in
\* ascending order, make of base.
iterates(f, G, base, k, V) ==
    /\ f \in [SUBSET (1..k) -> V]
    /\ f[{}] = base
    /\ \A u \in SUBSET (1..k) : u # {} => f[u] = G[Max(u)][f[u \ {Max(u)}]]

\* What FoldLeft recurs over exists, for steps that stay in a set.
LEMMA Iteration ==
    ASSUME NEW V, NEW base \in V, NEW k \in Nat, NEW G \in [1..k -> [V -> V]]
    PROVE  \E f : iterates(f, G, base, k, V)
  <1> DEFINE good(j, f) == \A u \in SUBSET (1..j) :
                 f[u] = IF u = {} THEN base ELSE G[Max(u)][f[u \ {Max(u)}]]
             S == {j \in Nat : j <= k => \E f \in [SUBSET (1..j) -> V] : good(j, f)}
  <1>1. 0 \in S
    <2> DEFINE f == [u \in SUBSET (1..0) |-> base]
    <2>1. \A u \in SUBSET (1..0) : u = {}
      OBVIOUS
    <2>2. good(0, f) /\ f \in [SUBSET (1..0) -> V]
      BY <2>1
    <2> HIDE DEF f, good
    <2>3. QED
      BY <2>2
  <1>2. ASSUME NEW j \in S
        PROVE  j + 1 \in S
    <2>1. SUFFICES ASSUME j + 1 <= k
                   PROVE  \E g \in [SUBSET (1..(j + 1)) -> V] : good(j + 1, g)
      <3>1. j + 1 \in Nat
        BY <1>2
      <3> HIDE DEF good
      <3>2. QED
        BY <3>1
    <2>2. j \in Nat /\ j <= k /\ j + 1 \in 1..k
      BY <1>2, <2>1
    <2>3. PICK f \in [SUBSET (1..j) -> V] : good(j, f)
      <3> HIDE DEF good
      <3>1. QED
        BY <1>2, <2>2
    <2> DEFINE g == [u \in SUBSET (1..(j + 1)) |->
                         IF j + 1 \in u THEN G[j + 1][f[u \ {j + 1}]] ELSE f[u]]
    <2>4. ASSUME NEW u \in SUBSET (1..(j + 1))
          PROVE  /\ g[u] \in V
                 /\ g[u] = IF u = {} THEN base ELSE G[Max(u)][g[u \ {Max(u)}]]
      <3>1. CASE j + 1 \in u
        <4>1. /\ Max(u) = j + 1 /\ u \ {j + 1} \in SUBSET (1..j)
              /\ u \ {j + 1} \in SUBSET (1..(j + 1))
          BY <2>2, <3>1, PartsOfInterval
        <4>2. g[u \ {j + 1}] = f[u \ {j + 1}] /\ f[u \ {j + 1}] \in V
          BY <4>1
        <4>3. QED
          BY <2>2, <3>1, <4>1, <4>2
      <3>2. CASE j + 1 \notin u
        <4>1. u \in SUBSET (1..j) /\ (u # {} => u \ {Max(u)} \in SUBSET (1..j))
          BY <2>2, <3>2, PartsOfInterval, MaxOfPart
        <4>2. /\ f[u] = IF u = {} THEN base ELSE G[Max(u)][f[u \ {Max(u)}]]
              /\ f[u] \in V
          BY <2>3, <4>1
        <4>3. u # {} => g[u \ {Max(u)}] = f[u \ {Max(u)}]
          BY <3>2, <4>1
        <4>4. QED
          BY <3>2, <4>2, <4>3
      <3>3. QED
        BY <3>1, <3>2
    <2>5. g \in [SUBSET (1..(j + 1)) -> V] /\ good(j + 1, g)
      BY <2>4
    <2> HIDE DEF g, good
    <2>6. QED
      BY <2>5
  <1>3. S \subseteq Nat
    OBVIOUS
  <1> HIDE DEF S
  <1>4. k \in S
    BY <1>1, <1>2, <1>3, Induct
  <1>5. PICK f \in [SUBSET (1..k) -> V] : good(k, f)
    BY <1>4, k <= k DEF S
  <1>6. f[{}] = base
    BY <1>5
  <1>7. \A u \in SUBSET (1..k) : u # {} => f[u] = G[Max(u)][f[u \ {Max(u)}]]
    BY <1>5
  <1>8. iterates(f, G, base, k, V)
    BY <1>5, <1>6, <1>7 DEF iterates
  <1> HIDE DEF good
  <1>9. QED
    BY <1>8

\* Append and Contains.
LEMMA ContainsAppend ==
    ASSUME NEW list \in Seq(Nodes), NEW p \in Nodes
    PROVE  /\ Append(list, p) \in Seq(Nodes)
           /\ \A q : Contains(Append(list, p), q) <=> Contains(list, q) \/ q = p
  <1>1. /\ Append(list, p) \in Seq(Nodes) /\ Len(list) \in Nat /\ DOMAIN list = 1..Len(list)
        /\ DOMAIN Append(list, p) = 1..(Len(list) + 1)
        /\ \A i \in 1..Len(list) : Append(list, p)[i] = list[i]
        /\ Append(list, p)[Len(list) + 1] = p
    OBVIOUS
  <1>2. Len(Append(list, p)) = Len(list) + 1
    BY <1>1
  <1>3. ASSUME NEW q, Contains(list, q) \/ q = p
        PROVE  Contains(Append(list, p), q)
    BY <1>1, <1>2, <1>3 DEF Contains
  <1>4. ASSUME NEW q, NEW i \in 1..(Len(list) + 1), Append(list, p)[i] = q
        PROVE  Contains(list, q) \/ q = p
    <2>1. i \in 1..Len(list) \/ i = Len(list) + 1
      BY <1>1
    <2>2. QED
      BY <1>1, <1>4, <2>1 DEF Contains
  <1>5. QED
    BY <1>1, <1>2, <1>3, <1>4 DEF Contains

\* A list with one more peer.
LEMMA AddPeer ==
    ASSUME NEW list \in Seq(Nodes), NEW p \in Nodes
    PROVE  /\ addPeer(list, p) \in Seq(Nodes)
           /\ \A q : Contains(addPeer(list, p), q) <=> Contains(list, q) \/ q = p
           /\ listedOnce(list) => listedOnce(addPeer(list, p))
  <1>1. CASE Contains(list, p)
    BY <1>1 DEF addPeer
  <1>2. CASE ~Contains(list, p)
    <2>1. addPeer(list, p) = Append(list, p)
      BY <1>2 DEF addPeer
    <2>2. \A i \in 1..Len(list) : list[i] # p
      BY <1>2 DEF Contains
    <2>3. ASSUME listedOnce(list)
          PROVE  listedOnce(Append(list, p))
      BY <2>2, <2>3 DEF listedOnce
    <2>4. QED
      BY <2>1, <2>3, ContainsAppend
  <1>3. QED
    BY <1>1, <1>2

\* handleOutgoingPeerListMessage, peer by peer.
LEMMA AddPeersLoop ==
    ASSUME NEW list \in Seq(Nodes), NEW s \in Seq(Nodes)
    PROVE  \E F : /\ F[0] = list /\ F[Len(s)] = FoldLeft(addPeer, list, s)
                  /\ \A i \in 1..Len(s) : F[i] = addPeer(F[i - 1], s[i])
  <1> DEFINE V == Seq(Nodes)
             G == [i \in 1..Len(s) |-> [y \in V |-> addPeer(y, s[i])]]
             h == CHOOSE h : h = [u \in SUBSET DOMAIN s |->
                      IF u = {} THEN list ELSE addPeer(h[u \ {Max(u)}], s[Max(u)])]
             F == [i \in 0..Len(s) |-> h[1..i]]
  <1>1. Len(s) \in Nat /\ DOMAIN s = 1..Len(s) /\ \A i \in 1..Len(s) : s[i] \in Nodes
    OBVIOUS
  <1>2. G \in [1..Len(s) -> [V -> V]]
    <2>1. \A y \in V, i \in 1..Len(s) : addPeer(y, s[i]) \in V
      BY <1>1, AddPeer
    <2> HIDE DEF V
    <2>2. QED
      BY <2>1
  <1>3. PICK f \in [SUBSET (1..Len(s)) -> V] :
            /\ f[{}] = list
            /\ \A u \in SUBSET (1..Len(s)) : u # {} => f[u] = G[Max(u)][f[u \ {Max(u)}]]
    <2>1. list \in V
      OBVIOUS
    <2> DEFINE k == Len(s)
    <2>2. k \in Nat /\ G \in [1..k -> [V -> V]]
      BY <1>1, <1>2
    <2> HIDE DEF G, V, k
    <2>3. PICK f : iterates(f, G, list, k, V)
      BY <2>1, <2>2, Iteration
    <2>4. QED
      BY <2>3 DEF k, iterates
  <1>4. f = [u \in SUBSET DOMAIN s |->
                 IF u = {} THEN list ELSE addPeer(f[u \ {Max(u)}], s[Max(u)])]
    <2>1. ASSUME NEW u \in SUBSET (1..Len(s)), u # {}
          PROVE  G[Max(u)][f[u \ {Max(u)}]] = addPeer(f[u \ {Max(u)}], s[Max(u)])
      <3>1. Max(u) \in 1..Len(s) /\ f[u \ {Max(u)}] \in V
        BY <1>1, <1>3, <2>1, MaxOfPart
      <3> HIDE DEF V
      <3>2. QED
        BY <3>1
    <2> HIDE DEF G, V
    <2>2. QED
      BY <1>1, <1>3, <2>1
  <1>5. h = [u \in SUBSET DOMAIN s |->
                 IF u = {} THEN list ELSE addPeer(h[u \ {Max(u)}], s[Max(u)])]
    BY <1>4
  <1>6. FoldLeft(addPeer, list, s) = h[DOMAIN s]
    BY Zenon DEF FoldLeft, MapThenFoldSet
  <1> HIDE DEF h
  <1>7. ASSUME NEW i \in 1..Len(s)
        PROVE  h[1..i] = addPeer(h[1..(i - 1)], s[i])
    <2>1. /\ Max(1..i) = i /\ (1..i) \ {i} = 1..(i - 1) /\ 1..i # {}
          /\ 1..i \in SUBSET (1..Len(s))
      BY <1>1, Interval
    <2>2. QED
      BY <1>1, <1>5, <2>1
  <1>8. F[0] = list /\ F[Len(s)] = FoldLeft(addPeer, list, s)
    BY <1>1, <1>5, <1>6
  <1>9. \A i \in 1..Len(s) : F[i] = addPeer(F[i - 1], s[i])
    BY <1>1, <1>7
  <1> HIDE DEF F
  <1>10. QED
    BY <1>8, <1>9

\* What the loop does to the list: it is extended by exactly the peers of s, and
\* nobody is listed twice if nobody was.
LEMMA AddPeers ==
    ASSUME NEW list \in Seq(Nodes), NEW s \in Seq(Nodes)
    PROVE  /\ FoldLeft(addPeer, list, s) \in Seq(Nodes)
           /\ \A q : Contains(FoldLeft(addPeer, list, s), q) <=>
                         Contains(list, q) \/ Contains(s, q)
           /\ listedOnce(list) => listedOnce(FoldLeft(addPeer, list, s))
  <1>1. PICK F : /\ F[0] = list /\ F[Len(s)] = FoldLeft(addPeer, list, s)
                 /\ \A i \in 1..Len(s) : F[i] = addPeer(F[i - 1], s[i])
    BY AddPeersLoop
  <1>2. Len(s) \in Nat /\ DOMAIN s = 1..Len(s) /\ \A i \in 1..Len(s) : s[i] \in Nodes
    OBVIOUS
  <1> DEFINE good(i) ==
                 /\ F[i] \in Seq(Nodes)
                 /\ \A q : Contains(F[i], q) <=>
                               Contains(list, q) \/ \E j \in 1..i : s[j] = q
                 /\ listedOnce(list) => listedOnce(F[i])
             S == {i \in Nat : i <= Len(s) => good(i)}
  <1>3. 0 \in S
    <2>1. 1..0 = {}
      OBVIOUS
    <2>2. good(0)
      BY <1>1, <2>1
    <2> HIDE DEF good
    <2>3. QED
      BY <2>2
  <1>4. ASSUME NEW i \in S
        PROVE  i + 1 \in S
    <2>1. SUFFICES ASSUME i + 1 <= Len(s) PROVE good(i + 1)
      <3>1. i + 1 \in Nat
        BY <1>4
      <3> HIDE DEF good
      <3>2. QED
        BY <3>1
    <2>2. i \in Nat /\ i + 1 \in 1..Len(s) /\ (i + 1) - 1 = i /\ good(i)
      <3> HIDE DEF good
      <3>1. QED
        BY <1>2, <1>4, <2>1
    <2>3. F[i + 1] = addPeer(F[i], s[i + 1])
      BY <1>1, <2>2
    <2>4. s[i + 1] \in Nodes
      BY <1>2, <2>2
    <2>5. /\ addPeer(F[i], s[i + 1]) \in Seq(Nodes)
          /\ \A q : Contains(addPeer(F[i], s[i + 1]), q) <=> Contains(F[i], q) \/ q = s[i + 1]
          /\ listedOnce(F[i]) => listedOnce(addPeer(F[i], s[i + 1]))
      BY <2>2, <2>4, AddPeer
    <2>6. \A q : (\E j \in 1..(i + 1) : s[j] = q) <=> (\E j \in 1..i : s[j] = q) \/ q = s[i + 1]
      <3>1. 1..(i + 1) = (1..i) \cup {i + 1}
        BY <2>2
      <3>2. QED
        BY <3>1, Zenon
    <2>7. QED
      BY <2>2, <2>3, <2>5, <2>6
  <1>5. S \subseteq Nat
    OBVIOUS
  <1> HIDE DEF S
  <1>6. Len(s) \in S
    BY <1>2, <1>3, <1>4, <1>5, Induct
  <1>7. good(Len(s))
    <2> HIDE DEF good
    <2>1. QED
      BY <1>2, <1>6 DEF S
  <1>8. \A q : Contains(s, q) <=> \E j \in 1..Len(s) : s[j] = q
    BY <1>2 DEF Contains
  <1>9. QED
    BY <1>1, <1>7, <1>8

\* handleIncomingPeerListMessage, peer by peer.
LEMMA PageLoop ==
    ASSUME NEW asking, NEW s \in Seq(Nodes)
    PROVE  \E F : /\ F[0] = << >>
                  /\ F[Len(s)] = others(s, asking)
                  /\ \A i \in 1..Len(s) :
                         F[i] = IF s[i] = asking THEN F[i - 1] ELSE Append(F[i - 1], s[i])
  <1> DEFINE V == Seq(Nodes)
             add(page, p) == IF p = asking THEN page ELSE Append(page, p)
             G == [i \in 1..Len(s) |-> [y \in V |-> add(y, s[i])]]
             h == CHOOSE h : h = [u \in SUBSET DOMAIN s |->
                      IF u = {} THEN << >> ELSE add(h[u \ {Max(u)}], s[Max(u)])]
             F == [i \in 0..Len(s) |-> h[1..i]]
  <1>1. Len(s) \in Nat /\ DOMAIN s = 1..Len(s) /\ \A i \in 1..Len(s) : s[i] \in Nodes
    OBVIOUS
  <1>2. G \in [1..Len(s) -> [V -> V]]
    <2>1. \A y \in V, i \in 1..Len(s) : add(y, s[i]) \in V
      BY <1>1
    <2> HIDE DEF V, add
    <2>2. QED
      BY <2>1
  <1>3. PICK f \in [SUBSET (1..Len(s)) -> V] :
            /\ f[{}] = << >>
            /\ \A u \in SUBSET (1..Len(s)) : u # {} => f[u] = G[Max(u)][f[u \ {Max(u)}]]
    <2>1. << >> \in V
      OBVIOUS
    <2> DEFINE k == Len(s)
    <2>2. k \in Nat /\ G \in [1..k -> [V -> V]]
      BY <1>1, <1>2
    <2> HIDE DEF G, V, k
    <2>3. PICK f : iterates(f, G, << >>, k, V)
      BY <2>1, <2>2, Iteration
    <2>4. QED
      BY <2>3 DEF k, iterates
  <1>6. others(s, asking) = h[DOMAIN s]
    BY Zenon DEF others, FoldLeft, MapThenFoldSet
  <1> HIDE DEF add
  <1>4. f = [u \in SUBSET DOMAIN s |->
                 IF u = {} THEN << >> ELSE add(f[u \ {Max(u)}], s[Max(u)])]
    <2>1. ASSUME NEW u \in SUBSET (1..Len(s)), u # {}
          PROVE  G[Max(u)][f[u \ {Max(u)}]] = add(f[u \ {Max(u)}], s[Max(u)])
      <3>1. Max(u) \in 1..Len(s) /\ f[u \ {Max(u)}] \in V
        BY <1>1, <1>3, <2>1, MaxOfPart
      <3> HIDE DEF V
      <3>2. QED
        BY <3>1
    <2> HIDE DEF G, V
    <2>2. QED
      BY <1>1, <1>3, <2>1
  <1>5. h = [u \in SUBSET DOMAIN s |->
                 IF u = {} THEN << >> ELSE add(h[u \ {Max(u)}], s[Max(u)])]
    BY <1>4
  <1> HIDE DEF h
  <1>7. ASSUME NEW i \in 1..Len(s)
        PROVE  h[1..i] = add(h[1..(i - 1)], s[i])
    <2>1. /\ Max(1..i) = i /\ (1..i) \ {i} = 1..(i - 1) /\ 1..i # {}
          /\ 1..i \in SUBSET (1..Len(s))
      BY <1>1, Interval
    <2>2. QED
      BY <1>1, <1>5, <2>1
  <1>8. F[0] = << >> /\ F[Len(s)] = h[DOMAIN s]
    BY <1>1, <1>5
  <1>9. \A i \in 1..Len(s) : F[i] = IF s[i] = asking THEN F[i - 1] ELSE Append(F[i - 1], s[i])
    BY <1>1, <1>7 DEF add
  <1> HIDE DEF F
  <1>10. QED
    BY <1>6, <1>8, <1>9

\* Append and Range.
LEMMA RangeAppend ==
    ASSUME NEW table \in Seq(Block), NEW b \in Block
    PROVE  /\ Append(table, b) \in Seq(Block)
           /\ Range(Append(table, b)) = Range(table) \cup {b}
  <1>1. /\ Append(table, b) \in Seq(Block) /\ Len(table) \in Nat
        /\ DOMAIN table = 1..Len(table) /\ DOMAIN Append(table, b) = 1..(Len(table) + 1)
        /\ \A i \in 1..Len(table) : Append(table, b)[i] = table[i]
        /\ Append(table, b)[Len(table) + 1] = b
    OBVIOUS
  <1>2. \A i \in 1..(Len(table) + 1) : i \in 1..Len(table) \/ i = Len(table) + 1
    BY <1>1
  <1>3. \A i \in 1..Len(table) : i \in 1..(Len(table) + 1)
    BY <1>1
  <1>4. Len(table) + 1 \in 1..(Len(table) + 1)
    BY <1>1
  <1>5. QED
    BY <1>1, <1>2, <1>3, <1>4 DEF Range

\* insertBlock adds the block, if its hash is new, or nothing.
LEMMA InsertBlock ==
    ASSUME NEW table \in Seq(Block), NEW b \in Block
    PROVE  /\ insertBlock(table, b) \in Seq(Block)
           /\ Range(table) \subseteq Range(insertBlock(table, b))
           /\ Range(insertBlock(table, b)) \subseteq Range(table) \cup {b}
           /\ storedOnce(table) => storedOnce(insertBlock(table, b))
  <1>1. CASE insertBlock(table, b) = table
    BY <1>1
  <1>2. CASE insertBlock(table, b) = Append(table, b) /\ ~hasBlock(table, b.hash)
    <2>1. ASSUME storedOnce(table)
          PROVE  storedOnce(Append(table, b))
      <3>1. \A i \in DOMAIN table : table[i].hash # b.hash
        BY <1>2 DEF hasBlock, hashes
      <3>2. QED
        BY <2>1, <3>1 DEF storedOnce
    <2>2. QED
      BY <1>2, <2>1, RangeAppend
  <1>3. QED
    BY <1>1, <1>2 DEF insertBlock, insertRow

\* addBlocks, block by block.
LEMMA InsertLoop ==
    ASSUME NEW table \in Seq(Block), NEW s \in Seq(Block)
    PROVE  \E F : /\ F[0] = table /\ F[Len(s)] = FoldLeft(insertBlock, table, s)
                  /\ \A i \in 1..Len(s) : F[i] = insertBlock(F[i - 1], s[i])
  <1> DEFINE V == Seq(Block)
             G == [i \in 1..Len(s) |-> [y \in V |-> insertBlock(y, s[i])]]
             h == CHOOSE h : h = [u \in SUBSET DOMAIN s |->
                      IF u = {} THEN table ELSE insertBlock(h[u \ {Max(u)}], s[Max(u)])]
             F == [i \in 0..Len(s) |-> h[1..i]]
  <1>1. Len(s) \in Nat /\ DOMAIN s = 1..Len(s) /\ \A i \in 1..Len(s) : s[i] \in Block
    OBVIOUS
  <1>2. G \in [1..Len(s) -> [V -> V]]
    <2>1. \A y \in V, i \in 1..Len(s) : insertBlock(y, s[i]) \in V
      BY <1>1, InsertBlock
    <2> HIDE DEF V
    <2>2. QED
      BY <2>1
  <1>3. PICK f \in [SUBSET (1..Len(s)) -> V] :
            /\ f[{}] = table
            /\ \A u \in SUBSET (1..Len(s)) : u # {} => f[u] = G[Max(u)][f[u \ {Max(u)}]]
    <2>1. table \in V
      OBVIOUS
    <2> DEFINE k == Len(s)
    <2>2. k \in Nat /\ G \in [1..k -> [V -> V]]
      BY <1>1, <1>2
    <2> HIDE DEF G, V, k
    <2>3. PICK f : iterates(f, G, table, k, V)
      BY <2>1, <2>2, Iteration
    <2>4. QED
      BY <2>3 DEF k, iterates
  <1>4. f = [u \in SUBSET DOMAIN s |->
                 IF u = {} THEN table ELSE insertBlock(f[u \ {Max(u)}], s[Max(u)])]
    <2>1. ASSUME NEW u \in SUBSET (1..Len(s)), u # {}
          PROVE  G[Max(u)][f[u \ {Max(u)}]] = insertBlock(f[u \ {Max(u)}], s[Max(u)])
      <3>1. Max(u) \in 1..Len(s) /\ f[u \ {Max(u)}] \in V
        BY <1>1, <1>3, <2>1, MaxOfPart
      <3> HIDE DEF V
      <3>2. QED
        BY <3>1
    <2> HIDE DEF G, V
    <2>2. QED
      BY <1>1, <1>3, <2>1
  <1>5. h = [u \in SUBSET DOMAIN s |->
                 IF u = {} THEN table ELSE insertBlock(h[u \ {Max(u)}], s[Max(u)])]
    BY <1>4
  <1>6. FoldLeft(insertBlock, table, s) = h[DOMAIN s]
    BY Zenon DEF FoldLeft, MapThenFoldSet
  <1> HIDE DEF h
  <1>7. ASSUME NEW i \in 1..Len(s)
        PROVE  h[1..i] = insertBlock(h[1..(i - 1)], s[i])
    <2>1. /\ Max(1..i) = i /\ (1..i) \ {i} = 1..(i - 1) /\ 1..i # {}
          /\ 1..i \in SUBSET (1..Len(s))
      BY <1>1, Interval
    <2>2. QED
      BY <1>1, <1>5, <2>1
  <1>8. F[0] = table /\ F[Len(s)] = FoldLeft(insertBlock, table, s)
    BY <1>1, <1>5, <1>6
  <1>9. \A i \in 1..Len(s) : F[i] = insertBlock(F[i - 1], s[i])
    BY <1>1, <1>7
  <1> HIDE DEF F
  <1>10. QED
    BY <1>8, <1>9

\* What the loop of a page collects: exactly the peers of s but the asking node.
LEMMA PageOf ==
    ASSUME NEW asking, NEW s \in Seq(Nodes)
    PROVE  /\ others(s, asking) \in Seq(Nodes)
           /\ \A q : Contains(others(s, asking), q) <=> Contains(s, q) /\ q # asking
  <1>1. PICK F : /\ F[0] = << >> /\ F[Len(s)] = others(s, asking)
                 /\ \A i \in 1..Len(s) :
                        F[i] = IF s[i] = asking THEN F[i - 1] ELSE Append(F[i - 1], s[i])
    BY PageLoop
  <1>2. Len(s) \in Nat /\ DOMAIN s = 1..Len(s) /\ \A i \in 1..Len(s) : s[i] \in Nodes
    OBVIOUS
  <1> DEFINE good(i) ==
                 /\ F[i] \in Seq(Nodes)
                 /\ \A q : Contains(F[i], q) <=>
                               q # asking /\ \E j \in 1..i : s[j] = q
             S == {i \in Nat : i <= Len(s) => good(i)}
  <1>3. 0 \in S
    <2>1. 1..0 = {} /\ \A q : ~Contains(<< >>, q)
      BY DEF Contains
    <2>2. good(0)
      BY <1>1, <2>1
    <2> HIDE DEF good
    <2>3. QED
      BY <2>2
  <1>4. ASSUME NEW i \in S
        PROVE  i + 1 \in S
    <2>1. SUFFICES ASSUME i + 1 <= Len(s) PROVE good(i + 1)
      <3>1. i + 1 \in Nat
        BY <1>4
      <3> HIDE DEF good
      <3>2. QED
        BY <3>1
    <2>2. i \in Nat /\ i + 1 \in 1..Len(s) /\ (i + 1) - 1 = i /\ good(i)
      <3> HIDE DEF good
      <3>1. QED
        BY <1>2, <1>4, <2>1
    <2>3. F[i + 1] = IF s[i + 1] = asking THEN F[i] ELSE Append(F[i], s[i + 1])
      BY <1>1, <2>2
    <2>4. s[i + 1] \in Nodes
      BY <1>2, <2>2
    <2>5. /\ Append(F[i], s[i + 1]) \in Seq(Nodes)
          /\ \A q : Contains(Append(F[i], s[i + 1]), q) <=> Contains(F[i], q) \/ q = s[i + 1]
      BY <2>2, <2>4, ContainsAppend
    <2>6. \A q : (\E j \in 1..(i + 1) : s[j] = q) <=> (\E j \in 1..i : s[j] = q) \/ q = s[i + 1]
      <3>1. 1..(i + 1) = (1..i) \cup {i + 1}
        BY <2>2
      <3>2. QED
        BY <3>1, Zenon
    <2>7. QED
      BY <2>2, <2>3, <2>5, <2>6
  <1>5. S \subseteq Nat
    OBVIOUS
  <1> HIDE DEF S
  <1>6. Len(s) \in S
    BY <1>2, <1>3, <1>4, <1>5, Induct
  <1>7. good(Len(s))
    <2> HIDE DEF good
    <2>1. QED
      BY <1>2, <1>6 DEF S
  <1>8. \A q : Contains(s, q) <=> \E j \in 1..Len(s) : s[j] = q
    BY <1>2 DEF Contains
  <1>9. QED
    BY <1>1, <1>7, <1>8

\* A page of a peer list: the peers at its positions but the asking node.
LEMMA PeerPage ==
    ASSUME NEW list \in Seq(Nodes), NEW q, q.start \in Nat, q.count \in Nat, NEW asking
    PROVE  /\ peerPage(list, q, asking) \in Seq(Nodes)
           /\ \A p : Contains(peerPage(list, q, asking), p) <=>
                  /\ p # asking
                  /\ \E i \in DOMAIN list :
                         i > q.start /\ i <= q.start + q.count /\ list[i] = p
  <1> DEFINE last == Min({q.start + q.count, Len(list)})
             s == SubSeq(list, q.start + 1, last)
  <1>1. last = IF q.start + q.count <= Len(list) THEN q.start + q.count ELSE Len(list)
    BY DEF Min
  <1>2. last \in Nat /\ last <= Len(list) /\ last <= q.start + q.count
    BY <1>1
  <1>3. \A i \in 1..Len(list) : i <= q.start + q.count => i <= last
    BY <1>1
  <1> HIDE DEF last
  <1>4. /\ s \in Seq(Nodes)
        /\ DOMAIN s = 1..(last - q.start) \/ (last <= q.start /\ DOMAIN s = {})
        /\ \A i \in DOMAIN s : s[i] = list[q.start + i]
    <2>1. CASE last <= q.start
      BY <1>2, <2>1
    <2>2. CASE last > q.start
      BY <1>2, <2>2
    <2>3. QED
      BY <1>2, <2>1, <2>2
  <1> HIDE DEF s
  <1>5. \A p : Contains(s, p) <=>
            \E i \in DOMAIN list : i > q.start /\ i <= q.start + q.count /\ list[i] = p
    <2>1. ASSUME NEW p, NEW i \in DOMAIN s, s[i] = p
          PROVE  \E k \in DOMAIN list : k > q.start /\ k <= q.start + q.count /\ list[k] = p
      <3>1. q.start + i \in DOMAIN list /\ q.start + i > q.start /\ q.start + i <= q.start + q.count
        BY <1>2, <1>4
      <3>2. QED
        BY <1>4, <2>1, <3>1
    <2>2. ASSUME NEW p, NEW i \in DOMAIN list, i > q.start, i <= q.start + q.count, list[i] = p
          PROVE  \E k \in DOMAIN s : s[k] = p
      <3>1. i <= last /\ i - q.start \in DOMAIN s /\ q.start + (i - q.start) = i
        BY <1>2, <1>3, <1>4, <2>2
      <3>2. QED
        BY <1>4, <2>2, <3>1
    <2>3. \A p : Contains(s, p) <=> \E i \in DOMAIN s : s[i] = p
      BY <1>4 DEF Contains
    <2>4. QED
      BY <2>1, <2>2, <2>3
  <1>6. peerPage(list, q, asking) = others(s, asking)
    BY DEF peerPage, s, last
  <1>7. QED
    BY <1>4, <1>5, <1>6, PageOf

\* A list without one of its peers.
LEMMA RemovePeer ==
    ASSUME NEW list \in Seq(Nodes), NEW p, listedOnce(list)
    PROVE  /\ removePeer(list, p) \in Seq(Nodes)
           /\ \A q : Contains(removePeer(list, p), q) <=> Contains(list, q) /\ q # p
           /\ listedOnce(removePeer(list, p))
  <1>1. CASE ~\E i \in 1..Len(list) : list[i] = p
    <2>1. removePeer(list, p) = list
      BY <1>1 DEF removePeer, RemoveFirst
    <2>2. QED
      BY <1>1, <2>1 DEF Contains
  <1>2. CASE \E i \in 1..Len(list) : list[i] = p
    <2> DEFINE I == {i \in 1..Len(list) : list[i] = p}
    <2>1. SelectInSeq(list, LAMBDA v : v = p) = Min(I)
      <3>1. I # {}
        BY <1>2
      <3>2. SelectInSeq(list, LAMBDA v : v = p) = IF I # {} THEN Min(I) ELSE 0
        BY Zenon DEF SelectInSeq
      <3>3. QED
        BY <3>1, <3>2
    <2>2. PICK k \in 1..Len(list) : list[k] = p
      BY <1>2
    <2>3. I = {k}
      BY <2>2 DEF listedOnce
    <2>4. Min(I) = k
      BY <2>3 DEF Min
    <2>5. removePeer(list, p) = SubSeq(list, 1, k - 1) \o SubSeq(list, k + 1, Len(list))
      <3>1. removePeer(list, p) = RemoveAt(list, SelectInSeq(list, LAMBDA v : v = p))
        BY <1>2, Zenon DEF removePeer, RemoveFirst
      <3> HIDE DEF I
      <3>2. removePeer(list, p) = RemoveAt(list, k)
        BY <2>1, <2>4, <3>1
      <3>3. QED
        BY <3>2 DEF RemoveAt
    <2> HIDE DEF I
    <2> DEFINE r == SubSeq(list, 1, k - 1) \o SubSeq(list, k + 1, Len(list))
    <2>6. /\ SubSeq(list, 1, k - 1) \in Seq(Nodes) /\ Len(SubSeq(list, 1, k - 1)) = k - 1
          /\ \A i \in 1..(k - 1) : SubSeq(list, 1, k - 1)[i] = list[i]
      OBVIOUS
    <2>7. /\ SubSeq(list, k + 1, Len(list)) \in Seq(Nodes)
          /\ Len(SubSeq(list, k + 1, Len(list))) = Len(list) - k
          /\ \A i \in 1..(Len(list) - k) : SubSeq(list, k + 1, Len(list))[i] = list[k + i]
      OBVIOUS
    <2>8. /\ r \in Seq(Nodes) /\ Len(r) = Len(list) - 1 /\ DOMAIN r = 1..(Len(list) - 1)
          /\ \A i \in 1..(Len(list) - 1) : r[i] = IF i < k THEN list[i] ELSE list[i + 1]
      <3>1. PICK a \in Seq(Nodes) : a = SubSeq(list, 1, k - 1)
        BY <2>6
      <3>2. PICK b \in Seq(Nodes) : b = SubSeq(list, k + 1, Len(list))
        BY <2>7
      <3>3. Len(a) = k - 1 /\ Len(b) = Len(list) - k /\ r = a \o b
        BY <2>6, <2>7, <3>1, <3>2
      <3> HIDE DEF r
      <3>4. r \in Seq(Nodes) /\ Len(r) = Len(list) - 1 /\ DOMAIN r = 1..(Len(list) - 1)
        <4>1. a \o b \in Seq(Nodes) /\ Len(a \o b) = Len(a) + Len(b)
          OBVIOUS
        <4>2. Len(a) + Len(b) = Len(list) - 1
          BY <3>3
        <4>3. r \in Seq(Nodes) /\ Len(r) = Len(list) - 1
          BY <3>3, <4>1, <4>2
        <4>4. QED
          BY <4>3
      <3>5. ASSUME NEW i \in 1..(Len(list) - 1)
            PROVE  r[i] = IF i < k THEN list[i] ELSE list[i + 1]
        <4>1. CASE i < k
          <5>1. (a \o b)[i] = a[i]
            BY <3>3, <4>1
          <5>2. a[i] = list[i]
            BY <2>6, <3>1, <4>1
          <5>3. QED
            BY <3>3, <4>1, <5>1, <5>2
        <4>2. CASE ~(i < k)
          <5>1. (a \o b)[i] = b[i - (k - 1)]
            BY <3>3, <4>2
          <5>2. i - (k - 1) \in 1..(Len(list) - k) /\ k + (i - (k - 1)) = i + 1
            BY <4>2
          <5>3. b[i - (k - 1)] = list[i + 1]
            BY <2>7, <3>2, <5>2
          <5>4. QED
            BY <3>3, <4>2, <5>1, <5>3
        <4>3. QED
          BY <4>1, <4>2
      <3>6. QED
        BY <3>4, <3>5
    <2> HIDE DEF r
    <2>9. listedOnce(r)
      <3>1. ASSUME NEW i \in DOMAIN r, NEW j \in DOMAIN r, r[i] = r[j]
            PROVE  i = j
        <4> DEFINE at(x) == IF x < k THEN x ELSE x + 1
        <4>1. /\ r[i] = list[at(i)] /\ r[j] = list[at(j)]
              /\ at(i) \in DOMAIN list /\ at(j) \in DOMAIN list
          BY <2>8
        <4>2. at(i) = at(j)
          <5> HIDE DEF at
          <5>1. QED
            BY <3>1, <4>1 DEF listedOnce
        <4>3. i \in Nat /\ j \in Nat
          BY <2>8
        <4>4. QED
          BY <4>2, <4>3
      <3>2. QED
        BY <3>1 DEF listedOnce
    <2>10. ASSUME NEW q, NEW i \in 1..Len(r), r[i] = q
           PROVE  Contains(list, q) /\ q # p
      BY <2>2, <2>8, <2>10 DEF Contains, listedOnce
    <2>11. ASSUME NEW q, NEW i \in 1..Len(list), list[i] = q, q # p
           PROVE  Contains(r, q)
      <3>1. CASE i < k
        <4>1. i \in 1..Len(r) /\ r[i] = q
          BY <2>8, <2>11, <3>1
        <4>2. QED
          BY <4>1 DEF Contains
      <3>2. CASE ~(i < k)
        <4>1. i # k /\ i - 1 \in 1..Len(r) /\ ~(i - 1 < k) /\ (i - 1) + 1 = i
          BY <2>2, <2>8, <2>11, <3>2
        <4>2. r[i - 1] = q
          BY <2>8, <2>11, <4>1
        <4>3. QED
          BY <4>1, <4>2 DEF Contains
      <3>3. QED
        BY <3>1, <3>2
    <2>12. QED
      BY <2>5, <2>8, <2>9, <2>10, <2>11 DEF Contains, r
  <1>3. QED
    BY <1>1, <1>2

-----------------------------------------------------------------------------
(* Types, and well-formed lists.                                           *)

\* The queries of a table answer with numbers, hashes and blocks.
LEMMA Queries ==
    ASSUME NEW table \in Seq(Block), NEW hash
    PROVE  /\ countBlocksAfterHash(table, hash) \in Nat
           /\ findTip(table) \in Hash \cup {NoHash}
           /\ \A start, count \in Nat :
                  getBlocksByIndexRange(table, start, count, hash) \in Seq(Block)
           /\ hasBlock(table, hash) => idOf(table, hash) \in DOMAIN table
  <1>1. ASSUME hasBlock(table, hash)
        PROVE  idOf(table, hash) \in DOMAIN table
    BY <1>1 DEF hasBlock, hashes, idOf
  <1>2. countBlocksAfterHash(table, hash) \in Nat
    BY <1>1 DEF countBlocksAfterHash
  <1>3. findTip(table) \in Hash \cup {NoHash}
    <2>1. CASE table = << >>
      BY <2>1 DEF findTip
    <2>2. CASE table # << >>
      <3>1. table[Len(table)] \in Block
        BY <2>2
      <3>2. QED
        BY <2>2, <3>1 DEF findTip, Block
    <2>3. QED
      BY <2>1, <2>2
  <1>4. ASSUME NEW start \in Nat, NEW count \in Nat
        PROVE  getBlocksByIndexRange(table, start, count, hash) \in Seq(Block)
    <2>1. CASE hash # NoHash /\ ~hasBlock(table, hash)
      BY <2>1 DEF getBlocksByIndexRange
    <2>2. CASE ~(hash # NoHash /\ ~hasBlock(table, hash))
      <3> DEFINE first == IF hash = NoHash THEN 1 + start ELSE idOf(table, hash) + 1 + start
                 last == IF first + count - 1 < Len(table) THEN first + count - 1 ELSE Len(table)
      <3>1. getBlocksByIndexRange(table, start, count, hash) = SubSeq(table, first, last)
        BY <2>2 DEF getBlocksByIndexRange
      <3>2. first \in Nat /\ first >= 1
        BY <1>1, <2>2
      <3> HIDE DEF first
      <3>3. last \in Int /\ last <= Len(table)
        BY <3>2
      <3> HIDE DEF last
      <3>4. SubSeq(table, first, last) \in Seq(Block)
        BY <3>2, <3>3
      <3>5. QED
        BY <3>1, <3>4
    <2>3. QED
      BY <2>1, <2>2
  <1>5. QED
    BY <1>1, <1>2, <1>3, <1>4

\* The node called is another one.
LEMMA Callee ==
    ASSUME ListsInv, NEW n \in Nodes, calling(n)
    PROVE  /\ callee(n) \in Nodes \ {n}
           /\ phase[n] \in {"hosts", "peerList", "blocks", "all", "broadcast", "leaving"}
           /\ phase[n] \notin {"peerList", "blocks"} => job[n].todo # << >>
  <1>1. job[n].todo \in Seq(Nodes) /\ JobOK(n)
    BY DEF ListsInv, TypeOK, Job
  <1>2. CASE phase[n] \in {"peerList", "blocks"}
    BY <1>1, <1>2 DEF JobOK, callee
  <1>3. CASE phase[n] \notin {"peerList", "blocks"}
    <2>1. phase[n] \in {"hosts", "all", "broadcast", "leaving"} /\ job[n].todo # << >>
      BY <1>3 DEF calling
    <2>2. Head(job[n].todo) \in Nodes /\ Contains(job[n].todo, Head(job[n].todo))
      BY <1>1, <2>1 DEF Contains
    <2>3. QED
      BY <1>1, <1>3, <2>1, <2>2 DEF JobOK, callee
  <1>4. QED
    BY <1>2, <1>3

\* The next call of the loop, or the next page.
LEMMA NextCall ==
    ASSUME ListsInv, NEW n \in Nodes, calling(n)
    PROVE  /\ nextCall(n) \in Job
           /\ ~Contains(nextCall(n).todo, n)
           /\ nextCall(n).first = job[n].first
           /\ nextCall(n).hung = job[n].hung
           /\ nextCall(n).block = job[n].block
           /\ nextCall(n).tip = job[n].tip
           /\ nextCall(n).newBlocks = job[n].newBlocks
  <1>1. job[n] \in Job /\ JobOK(n)
    BY DEF ListsInv, TypeOK
  <1>2. PEERS_BATCH_SIZE \in Nat /\ BLOCKS_BATCH_SIZE \in Nat
    BY MembershipAssumption
  <1>3. CASE phase[n] = "peerList"
    <2>1. nextCall(n) = [job[n] EXCEPT !.start = @ + PEERS_BATCH_SIZE]
      BY <1>3 DEF nextCall
    <2>2. job[n].start + PEERS_BATCH_SIZE \in Nat
      BY <1>1, <1>2 DEF Job
    <2>3. QED
      BY <1>1, <2>1, <2>2 DEF Job, JobOK
  <1>4. CASE phase[n] = "blocks"
    <2>1. nextCall(n) = [job[n] EXCEPT !.start = @ + BLOCKS_BATCH_SIZE]
      BY <1>4 DEF nextCall
    <2>2. job[n].start + BLOCKS_BATCH_SIZE \in Nat
      BY <1>1, <1>2 DEF Job
    <2>3. QED
      BY <1>1, <2>1, <2>2 DEF Job, JobOK
  <1>5. CASE phase[n] \notin {"peerList", "blocks"}
    <2>1. nextCall(n) = [job[n] EXCEPT !.todo = Tail(@)]
      BY <1>5 DEF nextCall
    <2>2. PICK s \in Seq(Nodes) : s = job[n].todo
      BY <1>1 DEF Job
    <2>3. s # << >>
      BY <1>5, <2>2, Callee
    <2>4. Tail(s) \in Seq(Nodes) /\ \A q : Contains(Tail(s), q) => Contains(s, q)
      <3>1. Tail(s) \in Seq(Nodes) /\ Len(Tail(s)) = Len(s) - 1
        BY <2>3
      <3>2. \A i \in 1..(Len(s) - 1) : i + 1 \in 1..Len(s) /\ Tail(s)[i] = s[i + 1]
        BY <2>3
      <3>3. QED
        BY <3>1, <3>2 DEF Contains
    <2>5. QED
      BY <1>1, <2>1, <2>2, <2>4 DEF Job, JobOK
  <1>6. QED
    BY <1>3, <1>4, <1>5

\* The same, after a call without an answer.
LEMMA MissedCall ==
    ASSUME ListsInv, NEW n \in Nodes, calling(n)
    PROVE  /\ missedCall(n) \in Job
           /\ ~Contains(missedCall(n).todo, n)
           /\ missedCall(n).todo = nextCall(n).todo
           /\ missedCall(n).start = nextCall(n).start
           /\ missedCall(n).peersToReceive = nextCall(n).peersToReceive
           /\ missedCall(n).first = job[n].first
           /\ missedCall(n).hung = job[n].hung
           /\ missedCall(n).block = job[n].block
           /\ missedCall(n).newBlocks = job[n].newBlocks
  <1>1. PICK j \in Job : /\ j = nextCall(n) /\ ~Contains(j.todo, n)
                         /\ j.first = job[n].first /\ j.hung = job[n].hung
                         /\ j.block = job[n].block /\ j.newBlocks = job[n].newBlocks
    BY NextCall
  <1>2. PICK c \in BOOLEAN : c = (j.covered /\ phase[n] # "blocks")
    OBVIOUS
  <1>3. missedCall(n) = [j EXCEPT !.covered = c]
    BY <1>1, <1>2 DEF missedCall
  <1>4. QED
    BY <1>1, <1>3 DEF Job

\* Storing fetched blocks keeps a table a table, and what was in it.
LEMMA InsertBlocks ==
    ASSUME NEW table \in Seq(Block), NEW s \in Seq(Block)
    PROVE  /\ FoldLeft(insertBlock, table, s) \in Seq(Block)
           /\ Range(table) \subseteq Range(FoldLeft(insertBlock, table, s))
           /\ Range(FoldLeft(insertBlock, table, s)) \subseteq Range(table) \cup Range(s)
           /\ storedOnce(table) => storedOnce(FoldLeft(insertBlock, table, s))
  <1>1. PICK F : /\ F[0] = table /\ F[Len(s)] = FoldLeft(insertBlock, table, s)
                 /\ \A i \in 1..Len(s) : F[i] = insertBlock(F[i - 1], s[i])
    BY InsertLoop
  <1>2. Len(s) \in Nat /\ \A i \in 1..Len(s) : s[i] \in Block /\ s[i] \in Range(s)
    BY DEF Range
  <1> DEFINE good(i) == /\ F[i] \in Seq(Block) /\ Range(table) \subseteq Range(F[i])
                        /\ Range(F[i]) \subseteq Range(table) \cup Range(s)
                        /\ storedOnce(table) => storedOnce(F[i])
             S == {i \in Nat : i <= Len(s) => good(i)}
  <1>3. 0 \in S
    <2>1. good(0)
      BY <1>1
    <2> HIDE DEF good
    <2>2. QED
      BY <2>1
  <1>4. ASSUME NEW i \in S
        PROVE  i + 1 \in S
    <2>1. SUFFICES ASSUME i + 1 <= Len(s) PROVE good(i + 1)
      <3>1. i + 1 \in Nat
        BY <1>4
      <3> HIDE DEF good
      <3>2. QED
        BY <3>1
    <2>2. i + 1 \in 1..Len(s) /\ (i + 1) - 1 = i /\ good(i)
      <3> HIDE DEF good
      <3>1. QED
        BY <1>2, <1>4, <2>1
    <2>3. F[i + 1] = insertBlock(F[i], s[i + 1]) /\ s[i + 1] \in Block /\ s[i + 1] \in Range(s)
      BY <1>1, <1>2, <2>2
    <2>4. PICK t \in Seq(Block), b \in Block : t = F[i] /\ b = s[i + 1]
      BY <2>2, <2>3
    <2>5. F[i + 1] = insertBlock(t, b) /\ b \in Range(s)
      BY <2>3, <2>4
    <2>6. /\ insertBlock(t, b) \in Seq(Block)
          /\ Range(t) \subseteq Range(insertBlock(t, b))
          /\ Range(insertBlock(t, b)) \subseteq Range(t) \cup {b}
          /\ storedOnce(t) => storedOnce(insertBlock(t, b))
      BY InsertBlock
    <2>7. /\ Range(table) \subseteq Range(t)
          /\ Range(t) \subseteq Range(table) \cup Range(s)
          /\ storedOnce(table) => storedOnce(t)
      BY <2>2, <2>4
    <2>8. QED
      BY <2>5, <2>6, <2>7
  <1>5. S \subseteq Nat
    OBVIOUS
  <1> HIDE DEF S
  <1>6. Len(s) \in S
    BY <1>2, <1>3, <1>4, <1>5, Induct
  <1>7. good(Len(s))
    <2> HIDE DEF good
    <2>1. QED
      BY <1>2, <1>6 DEF S
  <1>8. QED
    BY <1>1, <1>7

\* A step of n leaves the jobs of the others alone.
LEMMA OtherJobs ==
    ASSUME ListsInv, NEW n \in Nodes, JobOK(n)',
           \A p \in Nodes \ {n} : phase'[p] = phase[p] /\ job'[p] = job[p]
    PROVE  \A p \in Nodes : JobOK(p)'
  <1>1. ASSUME NEW p \in Nodes \ {n}
        PROVE  JobOK(p)'
    BY <1>1 DEF ListsInv, JobOK, calling
  <1>2. QED
    BY <1>1

\* A job that has just been taken up, with a copy of the peers to call.
LEMMA NewJob ==
    ASSUME NEW s \in Seq(Nodes)
    PROVE  /\ NoJob \in Job
           /\ [NoJob EXCEPT !.todo = s] \in Job
           /\ \A t \in Hash \cup {NoHash} : [NoJob EXCEPT !.todo = s, !.tip = t] \in Job
           /\ \A b \in Block : [NoJob EXCEPT !.todo = s, !.block = b] \in Job
  <1>1. /\ << >> \in Seq(Nodes) /\ << >> \in Seq(Block) /\ 0 \in Nat
        /\ NoHash \in Hash \cup {NoHash}
    OBVIOUS
  <1>2. NoJob \in Job
    BY <1>1 DEF NoJob, Job
  <1> HIDE DEF NoJob
  <1>3. [NoJob EXCEPT !.todo = s] \in Job
    BY <1>2 DEF Job
  <1>4. ASSUME NEW t \in Hash \cup {NoHash}
        PROVE  [NoJob EXCEPT !.todo = s, !.tip = t] \in Job
    BY <1>2 DEF Job
  <1>5. ASSUME NEW b \in Block
        PROVE  [NoJob EXCEPT !.todo = s, !.block = b] \in Job
    BY <1>2 DEF Job
  <1>6. QED
    BY <1>2, <1>3, <1>4, <1>5

\* Calls that fail keep ListsInv.
LEMMA ListsFailedCall ==
    ASSUME ListsInv, NEW n \in Nodes, Refused(n) \/ Hang(n) \/ Released(n) \/ Dropped(n)
    PROVE  ListsInv'
  <1> USE DEF ListsInv, TypeOK
  <1>1. CASE Refused(n)
    <2>1. calling(n) /\ ~job[n].hung /\ job' = [job EXCEPT ![n] = missedCall(n)]
      BY <1>1 DEF Refused
    <2>2. job' \in [Nodes -> Job] /\ job'[n] = missedCall(n)
      BY <2>1, MissedCall
    <2>3. JobOK(n)'
      <3>1. ~Contains(job'[n].todo, n) /\ job'[n].first = job[n].first /\ ~job'[n].hung
            /\ job'[n].block = job[n].block
        BY <2>1, <2>2, MissedCall
      <3>2. QED
        BY <1>1, <3>1 DEF JobOK, Refused
    <2>4. \A p \in Nodes : JobOK(p)'
      <3>1. \A p \in Nodes \ {n} : phase'[p] = phase[p] /\ job'[p] = job[p]
        BY <1>1, <2>1 DEF Refused
      <3>2. QED
        BY <2>3, <3>1, OtherJobs
    <2>5. QED
      BY <1>1, <2>2, <2>4 DEF Refused, ListsWellFormed
  <1>2. CASE Hang(n)
    <2>1. calling(n) /\ job' = [job EXCEPT ![n].hung = TRUE] /\ job[n] \in Job /\ JobOK(n)
      BY <1>2 DEF Hang
    <2>2. [job[n] EXCEPT !.hung = TRUE] \in Job
      BY <2>1 DEF Job
    <2>3. job' \in [Nodes -> Job] /\ job'[n] = [job[n] EXCEPT !.hung = TRUE]
      BY <2>1, <2>2
    <2>4. JobOK(n)'
      <3>1. /\ job'[n].todo = job[n].todo /\ job'[n].first = job[n].first
            /\ job'[n].start = job[n].start /\ job'[n].missing = job[n].missing
            /\ job'[n].peersToReceive = job[n].peersToReceive /\ job'[n].block = job[n].block
        BY <2>1, <2>3 DEF Job
      <3>2. QED
        BY <1>2, <2>1, <3>1 DEF JobOK, Hang, calling
    <2>5. \A p \in Nodes : JobOK(p)'
      <3>1. \A p \in Nodes \ {n} : phase'[p] = phase[p] /\ job'[p] = job[p]
        BY <1>2, <2>1 DEF Hang
      <3>2. QED
        BY <2>4, <3>1, OtherJobs
    <2>6. QED
      BY <1>2, <2>3, <2>5 DEF Hang, ListsWellFormed
  <1>3. CASE Released(n)
    <2>1. calling(n) /\ job[n].hung
      BY <1>3 DEF Released, JobOK
    <2>2. CASE phase[n] = "broadcast"
      <3>1. phase' = [phase EXCEPT ![n] = "run"] /\ job' = [job EXCEPT ![n] = NoJob]
        BY <1>3, <2>2 DEF Released
      <3>2. /\ phase' \in [Nodes -> Phase] /\ phase'[n] = "run"
            /\ job' \in [Nodes -> Job] /\ job'[n] = NoJob
        BY <3>1, NewJob DEF Phase
      <3>3. JobOK(n)'
        BY <3>2 DEF JobOK, NoJob, Contains
      <3>4. \A p \in Nodes : JobOK(p)'
        <4>1. \A p \in Nodes \ {n} : phase'[p] = phase[p] /\ job'[p] = job[p]
          BY <3>1
        <4>2. QED
          BY <3>3, <4>1, OtherJobs
      <3>5. QED
        BY <1>3, <3>2, <3>4 DEF Released, ListsWellFormed
    <2>3. CASE phase[n] # "broadcast"
      <3>1. /\ job' = [job EXCEPT ![n] = [missedCall(n) EXCEPT !.hung = FALSE]]
            /\ phase' = phase
        BY <1>3, <2>3 DEF Released
      <3>2. PICK j \in Job : j = missedCall(n)
        BY <2>1, MissedCall
      <3>3. [j EXCEPT !.hung = FALSE] \in Job
        BY DEF Job
      <3>4. job' \in [Nodes -> Job] /\ job'[n] = [j EXCEPT !.hung = FALSE]
        BY <3>1, <3>2, <3>3
      <3>5. JobOK(n)'
        <4>1. ~Contains(j.todo, n) /\ j.first = job[n].first /\ j.block = job[n].block
          BY <2>1, <3>2, MissedCall
        <4>2. /\ job'[n].todo = j.todo /\ job'[n].first = j.first /\ ~job'[n].hung
              /\ job'[n].block = j.block
          BY <3>4 DEF Job
        <4>3. QED
          BY <3>1, <4>1, <4>2 DEF JobOK
      <3>6. \A p \in Nodes : JobOK(p)'
        <4>1. \A p \in Nodes \ {n} : phase'[p] = phase[p] /\ job'[p] = job[p]
          BY <3>1
        <4>2. QED
          BY <3>5, <4>1, OtherJobs
      <3>7. QED
        BY <1>3, <3>1, <3>4, <3>6 DEF Released, ListsWellFormed
    <2>4. QED
      BY <2>2, <2>3
  <1>4. CASE Dropped(n)
    <2>1. /\ calling(n) /\ ~job[n].hung /\ served(callee(n))
          /\ chain' = chain /\ peers' = peers /\ fresh' = fresh /\ starts' = starts
          /\ crashes' = crashes
      BY <1>4 DEF Dropped, answers
    <2>2. alive' \in [Nodes -> BOOLEAN] /\ lost' \in Nat
      <3>1. loseMessage
        BY <1>4 DEF Dropped
      <3>2. lost' \in Nat
        BY <3>1 DEF loseMessage
      <3>3. QED
        BY <2>1, <3>2 DEF served
    <2>3. phase' \in [Nodes -> Phase] /\ job' \in [Nodes -> Job] /\ JobOK(n)'
      <3>1. CASE phase[n] = "broadcast"
        <4>1. phase' = [phase EXCEPT ![n] = "run"] /\ job' = [job EXCEPT ![n] = NoJob]
          BY <1>4, <3>1 DEF Dropped
        <4>2. /\ phase' \in [Nodes -> Phase] /\ phase'[n] = "run"
              /\ job' \in [Nodes -> Job] /\ job'[n] = NoJob
          BY <4>1, NewJob DEF Phase
        <4>3. QED
          BY <4>2 DEF JobOK, NoJob, Contains
      <3>2. CASE phase[n] # "broadcast"
        <4>1. phase' = phase /\ job' = [job EXCEPT ![n] = missedCall(n)]
          BY <1>4, <3>2 DEF Dropped
        <4>2. job' \in [Nodes -> Job] /\ job'[n] = missedCall(n)
          BY <2>1, <4>1, MissedCall
        <4>3. ~Contains(job'[n].todo, n) /\ job'[n].first = job[n].first /\ ~job'[n].hung
          BY <2>1, <4>2, MissedCall
        <4>4. QED
          BY <3>2, <4>1, <4>2, <4>3 DEF JobOK
      <3>3. QED
        BY <3>1, <3>2
    <2>4. \A p \in Nodes \ {n} : phase'[p] = phase[p] /\ job'[p] = job[p]
      BY <1>4 DEF Dropped
    <2>5. \A p \in Nodes : JobOK(p)'
      BY <2>3, <2>4, OtherJobs
    <2>6. QED
      BY <2>1, <2>2, <2>3, <2>5 DEF ListsWellFormed
  <1>5. QED
    BY <1>1, <1>2, <1>3, <1>4

\* So does taking up a job.
LEMMA ListsNewJob ==
    ASSUME ListsInv, NEW n \in Nodes,
           \/ Start(n) \/ StoreNewBlocks(n) \/ Exit(n)
           \/ \E m \in Msgs : CreateBlock(n, m)
    PROVE  ListsInv'
  <1> USE DEF ListsInv, TypeOK
  <1>1. /\ Hosts[n] \in Seq(Nodes) /\ ~Contains(Hosts[n], n)
        /\ peers[n] \in Seq(Nodes) /\ ~Contains(peers[n], n)
    BY MembershipAssumption DEF ListsWellFormed
  <1>2. ASSUME NEW s \in Seq(Nodes), ~Contains(s, n), NEW ph \in Phase,
               ph \notin {"peerList", "blocks"},
               phase' = [phase EXCEPT ![n] = ph],
               NEW j \in Job, job' = [job EXCEPT ![n] = j], j.todo = s, ~j.hung,
               ph = "broadcast" => j.block \in Block
        PROVE  /\ phase' \in [Nodes -> Phase] /\ job' \in [Nodes -> Job]
               /\ \A p \in Nodes : JobOK(p)'
    <2>1. phase' \in [Nodes -> Phase] /\ job' \in [Nodes -> Job] /\ phase'[n] = ph /\ job'[n] = j
      BY <1>2
    <2>2. JobOK(n)'
      BY <1>2, <2>1 DEF JobOK
    <2>3. \A p \in Nodes \ {n} : phase'[p] = phase[p] /\ job'[p] = job[p]
      BY <1>2
    <2>4. QED
      BY <2>1, <2>2, <2>3, OtherJobs
  <1>3. CASE Start(n)
    <2> DEFINE j == [NoJob EXCEPT !.todo = Hosts[n], !.tip = findTip(chain[n])]
    <2>1. j \in Job /\ j.todo = Hosts[n] /\ ~j.hung
      <3>1. findTip(chain[n]) \in Hash \cup {NoHash}
        BY Queries
      <3>2. j \in Job
        BY <1>1, <3>1, NewJob
      <3>3. QED
        BY <3>2 DEF NoJob
    <2> HIDE DEF j
    <2>2. phase' = [phase EXCEPT ![n] = "hosts"] /\ job' = [job EXCEPT ![n] = j]
      BY <1>3 DEF Start, j
    <2>3. /\ phase' \in [Nodes -> Phase] /\ job' \in [Nodes -> Job]
          /\ \A p \in Nodes : JobOK(p)'
      <3>1. "hosts" \in Phase
        BY DEF Phase
      <3>2. QED
        BY <1>1, <1>2, <2>1, <2>2, <3>1
    <2>4. /\ peers' = [peers EXCEPT ![n] = << >>] /\ starts' = starts + 1
          /\ UNCHANGED <<chain, alive, fresh, crashes, lost>>
      BY <1>3 DEF Start
    <2>5. TypeOK'
      BY <2>3, <2>4
    <2>6. ListsWellFormed'
      <3>1. ~Contains(<< >>, n) /\ listedOnce(<< >>)
        BY DEF Contains, listedOnce
      <3>2. peers'[n] = << >> /\ \A p \in Nodes \ {n} : peers'[p] = peers[p]
        BY <2>4
      <3>3. QED
        BY <3>1, <3>2 DEF ListsWellFormed
    <2>7. QED
      BY <2>3, <2>5, <2>6
  <1>4. [NoJob EXCEPT !.todo = peers[n]] \in Job
    BY <1>1, NewJob
  <1>5. [NoJob EXCEPT !.todo = peers[n]].todo = peers[n] /\ ~[NoJob EXCEPT !.todo = peers[n]].hung
    BY DEF NoJob
  <1>6. CASE StoreNewBlocks(n)
    <2> DEFINE j == [NoJob EXCEPT !.todo = peers[n]]
    <2> HIDE DEF j
    <2>1. phase' = [phase EXCEPT ![n] = "all"] /\ job' = [job EXCEPT ![n] = j]
      BY <1>6 DEF StoreNewBlocks, j
    <2>2. /\ phase' \in [Nodes -> Phase] /\ job' \in [Nodes -> Job]
          /\ \A p \in Nodes : JobOK(p)'
      <3>1. "all" \in Phase
        BY DEF Phase
      <3>2. j \in Job /\ j.todo = peers[n] /\ ~j.hung
        BY <1>4, <1>5 DEF j
      <3>3. QED
        BY <1>1, <1>2, <2>1, <3>1, <3>2
    <2>3. chain' \in [Nodes -> Seq(Block)]
      <3>1. job[n].newBlocks \in Seq(Block) /\ chain[n] \in Seq(Block)
        BY DEF Job
      <3>2. FoldLeft(insertBlock, chain[n], job[n].newBlocks) \in Seq(Block)
        BY <3>1, InsertBlocks
      <3>3. PICK new : new = FoldLeft(insertBlock, chain[n], job[n].newBlocks)
        OBVIOUS
      <3>4. chain' = [chain EXCEPT ![n] =
                IF validateNewBlocks(@, job[n].newBlocks) THEN new ELSE @]
        BY <1>6, <3>3 DEF StoreNewBlocks
      <3>5. QED
        BY <3>1, <3>2, <3>3, <3>4
    <2>4. UNCHANGED <<peers, alive, fresh, starts, crashes, lost>>
      BY <1>6 DEF StoreNewBlocks
    <2>5. QED
      BY <2>2, <2>3, <2>4 DEF ListsWellFormed
  <1>7. CASE Exit(n)
    <2> DEFINE j == [NoJob EXCEPT !.todo = peers[n]]
    <2> HIDE DEF j
    <2>1. phase' = [phase EXCEPT ![n] = "leaving"] /\ job' = [job EXCEPT ![n] = j]
      BY <1>7 DEF Exit, j
    <2>2. /\ phase' \in [Nodes -> Phase] /\ job' \in [Nodes -> Job]
          /\ \A p \in Nodes : JobOK(p)'
      <3>1. "leaving" \in Phase
        BY DEF Phase
      <3>2. j \in Job /\ j.todo = peers[n] /\ ~j.hung
        BY <1>4, <1>5 DEF j
      <3>3. QED
        BY <1>1, <1>2, <2>1, <3>1, <3>2
    <2>3. UNCHANGED <<chain, peers, alive, fresh, starts, crashes, lost>>
      BY <1>7 DEF Exit
    <2>4. QED
      BY <2>2, <2>3 DEF ListsWellFormed
  <1>8. ASSUME NEW m \in Msgs, CreateBlock(n, m)
        PROVE  ListsInv'
    <2> DEFINE b == createBlockFromMessage(chain[n], n, m)
               j == [NoJob EXCEPT !.todo = peers[n], !.block = b]
    <2>1. b \in Block
      <3>1. findTip(chain[n]) \in Hash \cup {NoHash}
        BY Queries
      <3>2. m \in Hash
        BY DEF Hash
      <3>3. QED
        BY <3>1, <3>2 DEF createBlockFromMessage, Block
    <2> HIDE DEF b
    <2>2. j \in Job /\ j.todo = peers[n] /\ ~j.hung /\ j.block = b
      <3>1. j \in Job
        BY <1>1, <2>1, NewJob
      <3>2. QED
        BY <3>1 DEF NoJob
    <2> HIDE DEF j
    <2>3. phase' = [phase EXCEPT ![n] = "broadcast"] /\ job' = [job EXCEPT ![n] = j]
      BY <1>8 DEF CreateBlock, j, b
    <2>4. /\ phase' \in [Nodes -> Phase] /\ job' \in [Nodes -> Job]
          /\ \A p \in Nodes : JobOK(p)'
      <3>1. "broadcast" \in Phase
        BY DEF Phase
      <3>2. QED
        BY <1>1, <1>2, <2>1, <2>2, <2>3, <3>1
    <2>5. fresh' = fresh \ {m} /\ UNCHANGED <<chain, peers, alive, starts, crashes, lost>>
      BY <1>8 DEF CreateBlock
    <2>6. QED
      BY <2>4, <2>5 DEF ListsWellFormed
  <1>9. QED
    BY <1>3, <1>6, <1>7, <1>8

\* And being done with one.
LEMMA ListsJobDone ==
    ASSUME ListsInv, NEW n \in Nodes, Run(n) \/ StoreOwnBlock(n) \/ Left(n) \/ Crash(n)
    PROVE  ListsInv'
  <1> USE DEF ListsInv, TypeOK
  <1>1. PICK ph \in {"run", "off"} :
            phase' = [phase EXCEPT ![n] = ph] /\ job' = [job EXCEPT ![n] = NoJob]
    BY DEF Run, StoreOwnBlock, Left, Crash
  <1>2. /\ phase' \in [Nodes -> Phase] /\ phase'[n] = ph
        /\ job' \in [Nodes -> Job] /\ job'[n] = NoJob
    BY <1>1, NewJob DEF Phase
  <1>3. \A p \in Nodes : JobOK(p)'
    <2>1. JobOK(n)'
      BY <1>2 DEF JobOK, NoJob, Contains
    <2>2. \A p \in Nodes \ {n} : phase'[p] = phase[p] /\ job'[p] = job[p]
      BY <1>1
    <2>3. QED
      BY <2>1, <2>2, OtherJobs
  <1>4. alive' \in [Nodes -> BOOLEAN]
    BY DEF Run, StoreOwnBlock, Left, Crash
  <1>5. chain' \in [Nodes -> Seq(Block)]
    <2>1. CASE StoreOwnBlock(n)
      <3>1. job[n].block \in Block
        BY <2>1 DEF StoreOwnBlock, JobOK
      <3>2. insertBlock(chain[n], job[n].block) \in Seq(Block)
        BY <3>1, InsertBlock
      <3>3. QED
        BY <2>1, <3>2 DEF StoreOwnBlock
    <2>2. CASE ~StoreOwnBlock(n)
      BY <2>2 DEF Run, Left, Crash
    <2>3. QED
      BY <2>1, <2>2
  <1>6. /\ fresh' = fresh /\ starts' = starts /\ lost' = lost
        /\ crashes' \in {crashes, crashes + 1}
    BY DEF Run, StoreOwnBlock, Left, Crash
  <1>7. peers' = peers \/ peers' = [peers EXCEPT ![n] = << >>]
    BY DEF Run, StoreOwnBlock, Left, Crash
  <1>8. peers' \in [Nodes -> Seq(Nodes)] /\ ListsWellFormed'
    <2>1. ~Contains(<< >>, n) /\ listedOnce(<< >>)
      BY DEF Contains, listedOnce
    <2>2. peers' \in [Nodes -> Seq(Nodes)] /\ \A p \in Nodes : peers'[p] \in {peers[p], << >>}
      <3>1. << >> \in Seq(Nodes)
        OBVIOUS
      <3>2. PICK e \in Seq(Nodes) : e = << >>
        BY <3>1
      <3>3. peers' = peers \/ peers' = [peers EXCEPT ![n] = e]
        BY <1>7, <3>2
      <3>4. peers' \in [Nodes -> Seq(Nodes)] /\ \A p \in Nodes : peers'[p] \in {peers[p], e}
        BY <3>3
      <3>5. QED
        BY <3>2, <3>4
    <2>3. \A p \in Nodes : ~Contains(<< >>, p)
      BY DEF Contains
    <2>4. QED
      BY <2>1, <2>2, <2>3 DEF ListsWellFormed
  <1>9. QED
    BY <1>2, <1>3, <1>4, <1>5, <1>6, <1>8

\* And going on to the next part of the start.
LEMMA ListsNextPart ==
    ASSUME ListsInv, NEW n \in Nodes, HostsConnected(n) \/ PeersReceived(n) \/ BlocksReceived(n)
    PROVE  ListsInv'
  <1> USE DEF ListsInv, TypeOK
  <1>1. ~calling(n) /\ ~job[n].hung /\ JobOK(n) /\ job[n] \in Job
    BY DEF HostsConnected, PeersReceived, BlocksReceived, JobOK
  <1>2. PICK ph \in {"store", "peerList", "blocks"} : phase' = [phase EXCEPT ![n] = ph]
    BY DEF HostsConnected, PeersReceived, BlocksReceived
  <1>3. PICK j : job' = [job EXCEPT ![n] = j] /\ j \in Job /\ ~Contains(j.todo, n) /\ ~j.hung
                 /\ (ph \in {"peerList", "blocks"} => j.first \in Nodes \ {n})
    <2>1. CASE HostsConnected(n) /\ peers[n] = << >>
      <3>1. job' = [job EXCEPT ![n] = job[n]] /\ phase'[n] = "store" /\ phase'[n] = ph
        BY <1>2, <2>1 DEF HostsConnected
      <3>2. QED
        BY <1>1, <3>1 DEF JobOK
    <2>2. CASE HostsConnected(n) /\ peers[n] # << >>
      <3>1. Head(peers[n]) \in Nodes \ {n}
        <4>1. peers[n] \in Seq(Nodes) /\ ~Contains(peers[n], n)
          BY DEF ListsWellFormed
        <4>2. QED
          BY <2>2, <4>1 DEF Contains
      <3>2. PICK q \in Nodes \ {n} : q = Head(peers[n])
        BY <3>1
      <3>3. job' = [job EXCEPT ![n] = [job[n] EXCEPT !.first = q]]
        BY <2>2, <3>2 DEF HostsConnected
      <3> DEFINE j == [job[n] EXCEPT !.first = q]
      <3>4. j \in Job /\ j.todo = job[n].todo /\ j.hung = job[n].hung /\ j.first = q
        BY <1>1 DEF Job
      <3> HIDE DEF j
      <3>5. QED
        BY <1>1, <3>3, <3>4 DEF JobOK, j
    <2>3. CASE PeersReceived(n)
      <3>1. job' = [job EXCEPT ![n] = [job[n] EXCEPT !.start = 0]] /\ phase[n] = "peerList"
        BY <2>3 DEF PeersReceived
      <3> DEFINE j == [job[n] EXCEPT !.start = 0]
      <3>2. /\ j \in Job /\ j.todo = job[n].todo /\ j.hung = job[n].hung
            /\ j.first = job[n].first
        BY <1>1 DEF Job
      <3> HIDE DEF j
      <3>3. QED
        BY <1>1, <3>1, <3>2 DEF JobOK, j
    <2>4. CASE BlocksReceived(n)
      <3>1. job' = [job EXCEPT ![n] = job[n]] /\ phase'[n] = "store" /\ phase'[n] = ph
        BY <1>2, <2>4 DEF BlocksReceived
      <3>2. QED
        BY <1>1, <3>1 DEF JobOK
    <2>5. QED
      BY <2>1, <2>2, <2>3, <2>4
  <1>4. /\ phase' \in [Nodes -> Phase] /\ phase'[n] = ph
        /\ job' \in [Nodes -> Job] /\ job'[n] = j
    BY <1>2, <1>3 DEF Phase
  <1>5. \A p \in Nodes : JobOK(p)'
    <2>1. JobOK(n)'
      BY <1>3, <1>4 DEF JobOK
    <2>2. \A p \in Nodes \ {n} : phase'[p] = phase[p] /\ job'[p] = job[p]
      BY <1>2, <1>3
    <2>3. QED
      BY <2>1, <2>2, OtherJobs
  <1>6. UNCHANGED <<chain, peers, alive, fresh, starts, crashes, lost>>
    BY DEF HostsConnected, PeersReceived, BlocksReceived
  <1>7. QED
    BY <1>4, <1>5, <1>6 DEF ListsWellFormed

\* And the calls that are answered.
LEMMA ListsCall ==
    ASSUME ListsInv, NEW n \in Nodes,
           \/ SendConnect(n) \/ SendPeerList(n) \/ SendBlockRange(n)
           \/ SendBlock(n) \/ SendDisconnect(n)
    PROVE  ListsInv'
  <1> USE DEF ListsInv, TypeOK
  <1>1. calling(n) /\ ~job[n].hung /\ served(callee(n))
    BY DEF SendConnect, SendPeerList, SendBlockRange, SendBlock, SendDisconnect, answers
  <1>2. PICK p \in Nodes \ {n} : p = callee(n)
    BY <1>1, Callee
  <1>3. alive' \in [Nodes -> BOOLEAN]
    BY <1>1 DEF served
  <1>4. PICK j \in Job : /\ j = nextCall(n) /\ ~Contains(j.todo, n) /\ ~j.hung
                         /\ j.first = job[n].first /\ j.block = job[n].block
                         /\ j.newBlocks = job[n].newBlocks
    BY <1>1, NextCall
  <1>5. ASSUME NEW k \in Job, job' = [job EXCEPT ![n] = k], k.todo = j.todo, ~k.hung,
               k.first = j.first, k.block = j.block, phase' = phase
        PROVE  job' \in [Nodes -> Job] /\ \A q \in Nodes : JobOK(q)'
    <2>1. job' \in [Nodes -> Job] /\ job'[n] = k
      BY <1>5
    <2>2. JobOK(n)'
      BY <1>4, <1>5, <2>1 DEF JobOK
    <2>3. \A q \in Nodes \ {n} : phase'[q] = phase[q] /\ job'[q] = job[q]
      BY <1>5
    <2>4. QED
      BY <2>1, <2>2, <2>3, OtherJobs
  <1>6. loseMessage => lost' \in Nat
    BY DEF loseMessage
  <1>7. CASE SendConnect(n)
    <2> DEFINE list == addPeer(peers[p], n)
               own == addPeer(peers[n], p)
    <2>1. /\ list \in Seq(Nodes) /\ own \in Seq(Nodes)
          /\ ~Contains(list, p) /\ listedOnce(list) /\ ~Contains(own, n) /\ listedOnce(own)
      BY <1>2, AddPeer DEF ListsWellFormed
    <2>2. /\ phase' = phase /\ UNCHANGED <<chain, fresh, starts, crashes>>
          /\ \/ /\ peers' = [peers EXCEPT ![p] = list, ![n] = own]
                /\ lost' = lost
             \/ loseMessage /\ peers' = [peers EXCEPT ![p] = list]
      BY <1>2, <1>7 DEF SendConnect
    <2>3. job' \in [Nodes -> Job] /\ \A q \in Nodes : JobOK(q)'
      <3>1. CASE job' = [job EXCEPT ![n] = nextCall(n)]
        BY <1>4, <1>5, <2>2, <3>1
      <3>2. ASSUME NEW a, NEW b, NEW c,
                   job' = [job EXCEPT ![n] = [nextCall(n) EXCEPT !.peersToReceive = a,
                               !.missing = b, !.covered = c]],
                   a \in Nat, b \in Nat, c \in BOOLEAN
            PROVE  job' \in [Nodes -> Job] /\ \A q \in Nodes : JobOK(q)'
        <4> DEFINE k == [j EXCEPT !.peersToReceive = a, !.missing = b, !.covered = c]
        <4>1. /\ k \in Job /\ k.todo = j.todo /\ k.hung = j.hung
              /\ k.first = j.first /\ k.block = j.block
          BY <3>2 DEF Job
        <4> HIDE DEF k
        <4>2. job' = [job EXCEPT ![n] = k]
          BY <1>4, <3>2 DEF k
        <4>3. QED
          BY <1>4, <1>5, <2>2, <4>1, <4>2
      <3> DEFINE hash == ConnectionMessage(n).lastBlockHash
                 missing == countBlocksAfterHash(chain[p], hash)
                 known == Head(peers'[n]) = p /\ (hash = NoHash \/ hasBlock(chain[p], hash))
      <3>3. Len(list) \in Nat /\ missing \in Nat /\ known \in BOOLEAN
        BY <2>1, Queries
      <3>4. \/ job' = [job EXCEPT ![n] = nextCall(n)]
            \/ job' = [job EXCEPT ![n] = [nextCall(n) EXCEPT !.peersToReceive = Len(list),
                               !.missing = missing, !.covered = known]]
        BY <1>2, <1>7 DEF SendConnect, ConnectionMessageResponse
      <3> HIDE DEF list, missing, known, hash
      <3>5. QED
        BY <3>1, <3>2, <3>3, <3>4
    <2> HIDE DEF list, own
    <2>4. peers' \in [Nodes -> Seq(Nodes)] /\ ListsWellFormed'
      <3>1. /\ peers' \in [Nodes -> Seq(Nodes)]
            /\ peers'[p] = list /\ peers'[n] \in {peers[n], own}
            /\ \A q \in Nodes \ {p, n} : peers'[q] = peers[q]
        BY <1>2, <2>1, <2>2
      <3>2. QED
        BY <2>1, <3>1 DEF ListsWellFormed
    <2>5. QED
      BY <1>3, <1>6, <2>2, <2>3, <2>4
  <1>8. CASE SendPeerList(n)
    <2>1. /\ phase' = phase /\ job' = [job EXCEPT ![n] = j]
          /\ UNCHANGED <<chain, fresh, starts, crashes>>
      BY <1>4, <1>8 DEF SendPeerList
    <2>2. job' \in [Nodes -> Job] /\ \A q \in Nodes : JobOK(q)'
      BY <1>4, <1>5, <2>1
    <2> DEFINE page == peerPage(peers[p], PeerListMessage(n), n)
               own == FoldLeft(addPeer, peers[n], page)
    <2>3. page \in Seq(Nodes) /\ ~Contains(page, n)
      <3>1. PeerListMessage(n).start \in Nat /\ PeerListMessage(n).count \in Nat
        BY MembershipAssumption DEF PeerListMessage, Job
      <3>2. QED
        BY <1>2, <3>1, PeerPage
    <2> HIDE DEF page
    <2>4. own \in Seq(Nodes) /\ ~Contains(own, n) /\ listedOnce(own)
      BY <2>3, AddPeers DEF ListsWellFormed
    <2> HIDE DEF own
    <2>5. \/ peers' = [peers EXCEPT ![n] = own] /\ lost' = lost
          \/ loseMessage /\ peers' = peers
      BY <1>2, <1>8 DEF SendPeerList, own, page
    <2>6. peers' \in [Nodes -> Seq(Nodes)] /\ ListsWellFormed'
      <3>1. /\ peers' \in [Nodes -> Seq(Nodes)] /\ peers'[n] \in {peers[n], own}
            /\ \A q \in Nodes \ {n} : peers'[q] = peers[q]
        BY <2>4, <2>5
      <3>2. QED
        BY <2>4, <3>1 DEF ListsWellFormed
    <2>7. QED
      BY <1>3, <1>6, <2>1, <2>2, <2>5, <2>6
  <1>9. CASE SendBlockRange(n)
    <2>1. /\ phase' = phase /\ UNCHANGED <<chain, peers, fresh, starts, crashes>>
          /\ lost' = lost \/ loseMessage
      BY <1>9 DEF SendBlockRange
    <2> DEFINE page == getBlocksByIndexRange(chain[p], job[n].start, BLOCKS_BATCH_SIZE, job[n].tip)
    <2>2. page \in Seq(Block)
      BY MembershipAssumption, Queries DEF Job
    <2>3. \/ job' = [job EXCEPT ![n] = j]
          \/ job' = [job EXCEPT ![n] = [j EXCEPT !.newBlocks = @ \o page]]
      BY <1>2, <1>4, <1>9 DEF SendBlockRange, BlockRangeMessage
    <2> HIDE DEF page
    <2>4. job' \in [Nodes -> Job] /\ \A q \in Nodes : JobOK(q)'
      <3>1. CASE job' = [job EXCEPT ![n] = j]
        BY <1>4, <1>5, <2>1, <3>1
      <3>2. CASE job' = [job EXCEPT ![n] = [j EXCEPT !.newBlocks = @ \o page]]
        <4> DEFINE k == [j EXCEPT !.newBlocks = @ \o page]
        <4>1. j.newBlocks \o page \in Seq(Block)
          BY <2>2 DEF Job
        <4>2. /\ k \in Job /\ k.todo = j.todo /\ k.hung = j.hung
              /\ k.first = j.first /\ k.block = j.block
          BY <4>1 DEF Job
        <4> HIDE DEF k
        <4>3. job' = [job EXCEPT ![n] = k]
          BY <3>2 DEF k
        <4>4. QED
          BY <1>4, <1>5, <2>1, <4>2, <4>3
      <3>3. QED
        BY <2>3, <3>1, <3>2
    <2>5. QED
      BY <1>3, <1>6, <2>1, <2>4 DEF ListsWellFormed
  <1>10. CASE SendBlock(n)
    <2>1. /\ UNCHANGED <<peers, fresh, starts, crashes>> /\ (lost' = lost \/ loseMessage)
          /\ phase[n] = "broadcast"
      BY <1>10 DEF SendBlock
    <2>2. chain' \in [Nodes -> Seq(Block)]
      <3>1. job[n].block \in Block /\ chain[p] \in Seq(Block)
        BY <1>2, <2>1 DEF JobOK
      <3>2. PICK new \in Seq(Block) : new = insertBlock(chain[p], job[n].block)
        BY <3>1, InsertBlock
      <3>3. \/ chain' = [chain EXCEPT ![p] = new]
            \/ chain' = [chain EXCEPT ![p] = @]
        BY <1>2, <1>10, <3>2 DEF SendBlock
      <3>4. QED
        BY <3>3
    <2>3. /\ phase' \in [Nodes -> Phase] /\ job' \in [Nodes -> Job]
          /\ \A q \in Nodes : JobOK(q)'
      <3>1. CASE phase' = phase /\ job' = [job EXCEPT ![n] = nextCall(n)]
        BY <1>4, <1>5, <3>1
      <3>2. CASE phase' = [phase EXCEPT ![n] = "run"] /\ job' = [job EXCEPT ![n] = NoJob]
        <4>1. /\ phase' \in [Nodes -> Phase] /\ phase'[n] = "run"
              /\ job' \in [Nodes -> Job] /\ job'[n] = NoJob
          BY <3>2, NewJob DEF Phase
        <4>2. JobOK(n)'
          BY <4>1 DEF JobOK, NoJob, Contains
        <4>3. \A q \in Nodes \ {n} : phase'[q] = phase[q] /\ job'[q] = job[q]
          BY <3>2
        <4>4. QED
          BY <4>1, <4>2, <4>3, OtherJobs
      <3>3. QED
        BY <1>10, <3>1, <3>2 DEF SendBlock
    <2>4. QED
      BY <1>3, <1>6, <2>1, <2>2, <2>3 DEF ListsWellFormed
  <1>11. CASE SendDisconnect(n)
    <2>1. /\ phase' = phase /\ job' = [job EXCEPT ![n] = j]
          /\ UNCHANGED <<chain, fresh, starts, crashes, lost>>
          /\ peers' = [peers EXCEPT ![p] = removePeer(@, n)]
      BY <1>2, <1>4, <1>11 DEF SendDisconnect
    <2>2. job' \in [Nodes -> Job] /\ \A q \in Nodes : JobOK(q)'
      BY <1>4, <1>5, <2>1
    <2>3. PICK list \in Seq(Nodes) : /\ list = removePeer(peers[p], n)
                                     /\ ~Contains(list, p) /\ listedOnce(list)
      BY <1>2, RemovePeer DEF ListsWellFormed
    <2>4. peers' \in [Nodes -> Seq(Nodes)] /\ ListsWellFormed'
      <3>1. /\ peers' \in [Nodes -> Seq(Nodes)] /\ peers'[p] = list
            /\ \A q \in Nodes \ {p} : peers'[q] = peers[q]
        BY <1>2, <2>1, <2>3
      <3>2. QED
        BY <2>3, <3>1 DEF ListsWellFormed
    <2>5. QED
      BY <1>3, <2>1, <2>2, <2>4
  <1>12. QED
    BY <1>7, <1>8, <1>9, <1>10, <1>11

\* Every step keeps ListsInv.
LEMMA ListsStep ==
    ListsInv /\ [Next]_vars => ListsInv'
  <1>1. SUFFICES ASSUME ListsInv, [Next]_vars PROVE ListsInv'
    OBVIOUS
  <1>2. CASE UNCHANGED vars
    BY <1>1, <1>2 DEF vars, ListsInv, TypeOK, ListsWellFormed, JobOK, calling
  <1>3. CASE Next
    <2>1. PICK n \in Nodes : \/ Start(n) \/ Exit(n) \/ Crash(n)
                             \/ \E m \in Msgs : CreateBlock(n, m)
                             \/ Step(n)
      BY <1>3 DEF Next
    <2>2. QED
      BY <1>1, <2>1, ListsFailedCall, ListsNewJob, ListsJobDone, ListsNextPart, ListsCall
      DEF Step
  <1>4. QED
    BY <1>1, <1>2, <1>3

\* It holds at the start.
LEMMA ListsInit ==
    Init => ListsInv
  <1>1. SUFFICES ASSUME Init PROVE ListsInv
    OBVIOUS
  <1> USE MembershipAssumption
  <1>2. phase \in [Nodes -> Phase] /\ \A n \in Nodes : phase[n] \in {"run", "off"}
    BY <1>1 DEF Init, Phase
  <1>3. job \in [Nodes -> Job] /\ \A n \in Nodes : job[n] = NoJob
    BY <1>1, NewJob DEF Init
  <1>4. peers \in [Nodes -> Seq(Nodes)] /\ \A n \in Nodes : peers[n] \in {Known[n], << >>}
    BY <1>1 DEF Init
  <1>5. TypeOK
    BY <1>1, <1>2, <1>3, <1>4 DEF Init, TypeOK
  <1>6. ListsWellFormed
    <2>1. \A n \in Nodes : /\ ~Contains(<< >>, n) /\ listedOnce(<< >>)
                           /\ ~Contains(Known[n], n) /\ listedOnce(Known[n])
      BY StoredAssumption DEF Contains, listedOnce
    <2>2. QED
      BY <1>4, <2>1 DEF ListsWellFormed
  <1>7. \A n \in Nodes : JobOK(n)
    <2>1. NoJob.todo = << >> /\ NoJob.hung = FALSE /\ \A n : ~Contains(<< >>, n)
      BY DEF NoJob, Contains
    <2>2. ASSUME NEW n \in Nodes
          PROVE  JobOK(n)
      <3>1. phase[n] \in {"run", "off"} /\ job[n].todo = << >> /\ job[n].hung = FALSE
        BY <1>2, <1>3, <2>1
      <3>2. QED
        BY <2>1, <3>1 DEF JobOK
    <2>3. QED
      BY <2>2
  <1>8. QED
    BY <1>5, <1>6, <1>7 DEF ListsInv

\* Every variable of Membership always has its type.
THEOREM TypeCorrect == Spec => []TypeOK
  <1>1. ListsInv => TypeOK
    BY DEF ListsInv
  <1>2. QED
    BY <1>1, ListsInit, ListsStep, PTL DEF Spec

\* No node ever lists, or calls, itself, nor lists anybody twice, for any network,
\* configuration and page size and however often processes start, leave and crash.
THEOREM ListsAlwaysWellFormed == Spec => []ListsWellFormed
  <1>1. ListsInv => ListsWellFormed
    BY DEF ListsInv
  <1>2. QED
    BY <1>1, ListsInit, ListsStep, PTL DEF Spec

-----------------------------------------------------------------------------
(* Tables that are one line.                                               *)

\* "0" is the hash of no block.
LEMMA BlockHash ==
    \A b \in Block : b.hash # NoHash
  BY MembershipAssumption DEF Block

\* A new block on the tip is stored, and the table stays one line.
LEMMA InsertTip ==
    ASSUME NEW table \in Seq(Block), table # << >>, linear(table), storedOnce(table),
           NEW b \in Block, b.previousHash = findTip(table), ~hasBlock(table, b.hash)
    PROVE  /\ insertBlock(table, b) = Append(table, b)
           /\ linear(Append(table, b)) /\ findTip(Append(table, b)) = b.hash
  <1>1. /\ Len(table) \in Nat \ {0} /\ DOMAIN table = 1..Len(table)
        /\ \A i \in 1..Len(table) : table[i] \in Block
    OBVIOUS
  <1>2. findTip(table) = table[Len(table)].hash
    BY DEF findTip
  <1>3. table[Len(table)].hash # NoHash
    <2>1. table[Len(table)] \in Block
      BY <1>1
    <2>2. QED
      BY <2>1, BlockHash
  <1>4. ASSUME NEW i \in DOMAIN table, table[i].previousHash = b.previousHash
        PROVE  FALSE
    <2>1. i # 1
      BY <1>2, <1>3, <1>4 DEF linear
    <2>2. i - 1 \in DOMAIN table /\ table[i - 1].hash = table[Len(table)].hash
      BY <1>1, <1>2, <1>4, <2>1 DEF linear
    <2>3. i - 1 = Len(table)
      BY <1>1, <2>2 DEF storedOnce
    <2>4. QED
      BY <1>1, <1>4, <2>3
  <1>5. insertBlock(table, b) = Append(table, b)
    BY <1>4 DEF insertBlock, insertAllowed, hasChild, insertRow
  <1>6. /\ Append(table, b) # << >> /\ Len(Append(table, b)) = Len(table) + 1
        /\ DOMAIN Append(table, b) = 1..(Len(table) + 1)
        /\ \A i \in 1..Len(table) : Append(table, b)[i] = table[i]
        /\ Append(table, b)[Len(table) + 1] = b
    OBVIOUS
  <1>7. linear(Append(table, b))
    <2>1. ASSUME NEW i \in 1..(Len(table) + 1)
          PROVE  Append(table, b)[i].previousHash =
                     IF i = 1 THEN NoHash ELSE Append(table, b)[i - 1].hash
      <3>1. CASE i = Len(table) + 1
        <4>1. i - 1 = Len(table) /\ i # 1
          BY <1>1, <3>1
        <4>2. Append(table, b)[i] = b /\ Append(table, b)[i - 1] = table[Len(table)]
          <5>1. Len(table) \in 1..Len(table)
            BY <1>1
          <5>2. Append(table, b)[Len(table)] = table[Len(table)]
            BY <1>6, <5>1
          <5>3. QED
            BY <1>6, <3>1, <4>1, <5>2
        <4>3. QED
          BY <1>2, <4>1, <4>2
      <3>2. CASE i \in 1..Len(table)
        <4>1. table[i].previousHash = IF i = 1 THEN NoHash ELSE table[i - 1].hash
          BY <1>1, <3>2 DEF linear
        <4>2. i # 1 => i - 1 \in 1..Len(table)
          BY <1>1, <3>2
        <4>3. QED
          BY <1>6, <3>2, <4>1, <4>2
      <3>3. QED
        BY <1>1, <3>1, <3>2
    <2>2. QED
      BY <1>6, <2>1 DEF linear
  <1>8. findTip(Append(table, b)) = b.hash
    BY <1>6 DEF findTip
  <1>9. QED
    BY <1>5, <1>7, <1>8

\* A block whose predecessor is stored is either new on the tip or not stored.
LEMMA InsertInLine ==
    ASSUME NEW table \in Seq(Block), table # << >>, linear(table), storedOnce(table),
           NEW b \in Block, hasBlock(table, b.previousHash)
    PROVE  linear(insertBlock(table, b)) /\ insertBlock(table, b) # << >>
  <1>1. /\ Len(table) \in Nat \ {0} /\ DOMAIN table = 1..Len(table)
        /\ \A i \in 1..Len(table) : table[i] \in Block
    OBVIOUS
  <1>2. PICK i \in DOMAIN table : table[i].hash = b.previousHash
    BY DEF hasBlock, hashes
  <1>3. b.previousHash # NoHash
    BY <1>1, <1>2, BlockHash
  <1>4. CASE i = Len(table)
    <2>1. b.previousHash = findTip(table)
      BY <1>2, <1>4 DEF findTip
    <2>2. CASE hasBlock(table, b.hash)
      BY <2>2 DEF insertBlock, insertRow
    <2>3. CASE ~hasBlock(table, b.hash)
      <3>1. insertBlock(table, b) = Append(table, b) /\ linear(Append(table, b))
        BY <2>1, <2>3, InsertTip
      <3>2. Append(table, b) # << >>
        OBVIOUS
      <3>3. QED
        BY <3>1, <3>2
    <2>4. QED
      BY <2>2, <2>3
  <1>5. CASE i # Len(table)
    <2>1. i + 1 \in DOMAIN table /\ i + 1 # 1 /\ (i + 1) - 1 = i
      BY <1>1, <1>5
    <2>2. table[i + 1].previousHash = b.previousHash
      BY <1>2, <2>1 DEF linear
    <2>3. insertBlock(table, b) = table
      BY <1>3, <2>1, <2>2 DEF insertBlock, insertAllowed, hasChild
    <2>4. QED
      BY <2>3
  <1>6. QED
    BY <1>4, <1>5

\* Fetched blocks that validate are all stored, and the table stays one line that
\* ends with the last of them.
LEMMA InsertLine ==
    ASSUME NEW table \in Seq(Block), table # << >>, linear(table), storedOnce(table),
           NEW s \in Seq(Block), validateNewBlocks(table, s),
           \A b, c \in Range(table) \cup Range(s) : b.hash = c.hash => b = c
    PROVE  /\ linear(FoldLeft(insertBlock, table, s))
           /\ FoldLeft(insertBlock, table, s) # << >>
           /\ Len(FoldLeft(insertBlock, table, s)) = Len(table) + Len(s)
           /\ s # << >> => findTip(FoldLeft(insertBlock, table, s)) = s[Len(s)].hash
  <1>1. PICK F : /\ F[0] = table /\ F[Len(s)] = FoldLeft(insertBlock, table, s)
                 /\ \A i \in 1..Len(s) : F[i] = insertBlock(F[i - 1], s[i])
    BY InsertLoop
  <1>2. Len(s) \in Nat /\ \A i \in 1..Len(s) : s[i] \in Block /\ s[i] \in Range(s)
    BY DEF Range
  <1>3. \A i \in 1..Len(s) : s[i].previousHash = IF i = 1 THEN findTip(table) ELSE s[i - 1].hash
    <2>1. CASE s = << >>
      BY <2>1
    <2>2. CASE s # << >>
      <3>1. /\ \A i \in 2..Len(s) : s[i].previousHash = s[i - 1].hash
            /\ s[1].previousHash = findTip(table)
        BY <2>2 DEF validateNewBlocks
      <3>2. QED
        BY <1>2, <3>1
    <2>3. QED
      BY <2>1, <2>2
  <1> DEFINE good(i) == /\ F[i] \in Seq(Block) /\ F[i] # << >>
                        /\ linear(F[i]) /\ storedOnce(F[i])
                        /\ Len(F[i]) = Len(table) + i
                        /\ Range(F[i]) \subseteq Range(table) \cup Range(s)
                        /\ findTip(F[i]) = IF i = 0 THEN findTip(table) ELSE s[i].hash
             S == {i \in Nat : i <= Len(s) => good(i)}
  <1>4. 0 \in S
    <2>1. good(0)
      BY <1>1
    <2> HIDE DEF good
    <2>2. QED
      BY <2>1
  <1>5. ASSUME NEW i \in S
        PROVE  i + 1 \in S
    <2>1. SUFFICES ASSUME i + 1 <= Len(s) PROVE good(i + 1)
      <3>1. i + 1 \in Nat
        BY <1>5
      <3> HIDE DEF good
      <3>2. QED
        BY <3>1
    <2>2. i \in Nat /\ i + 1 \in 1..Len(s) /\ (i + 1) - 1 = i /\ good(i)
      <3> HIDE DEF good
      <3>1. QED
        BY <1>2, <1>5, <2>1
    <2>3. PICK t \in Seq(Block), b \in Block : t = F[i] /\ b = s[i + 1]
      BY <1>2, <2>2
    <2>4. F[i + 1] = insertBlock(t, b) /\ b \in Range(s)
      BY <1>1, <1>2, <2>2, <2>3
    <2>5. /\ t # << >> /\ linear(t) /\ storedOnce(t) /\ Len(t) = Len(table) + i
          /\ Range(t) \subseteq Range(table) \cup Range(s)
      BY <2>2, <2>3
    <2>6. b.previousHash = findTip(t)
      <3>1. b.previousHash = IF i = 0 THEN findTip(table) ELSE s[i].hash
        BY <1>3, <2>2, <2>3
      <3>2. QED
        BY <2>2, <2>3, <3>1
    <2>7. ~hasBlock(t, b.hash)
      <3>1. SUFFICES ASSUME NEW k \in DOMAIN t, t[k].hash = b.hash
                     PROVE  FALSE
        BY DEF hasBlock, hashes
      <3>2. t[k] = b
        <4>1. t[k] \in Range(t)
          BY DEF Range
        <4>2. QED
          BY <2>4, <2>5, <3>1, <4>1
      <3>3. /\ Len(t) \in Nat \ {0} /\ DOMAIN t = 1..Len(t)
            /\ \A j \in 1..Len(t) : t[j] \in Block
        BY <2>5
      <3>4. t[k].previousHash = t[Len(t)].hash
        BY <2>5, <2>6, <3>2 DEF findTip
      <3>5. k # 1
        <4>1. t[Len(t)].hash # NoHash
          BY <3>3, BlockHash
        <4>2. QED
          BY <2>5, <3>4, <4>1 DEF linear
      <3>6. k - 1 \in DOMAIN t /\ t[k - 1].hash = t[Len(t)].hash
        BY <2>5, <3>3, <3>4, <3>5 DEF linear
      <3>7. k - 1 = Len(t)
        BY <2>5, <3>3, <3>6 DEF storedOnce
      <3>8. QED
        BY <3>3, <3>7
    <2>8. /\ insertBlock(t, b) = Append(t, b)
          /\ linear(Append(t, b)) /\ findTip(Append(t, b)) = b.hash
      BY <2>5, <2>6, <2>7, InsertTip
    <2>9. /\ Append(t, b) \in Seq(Block) /\ Append(t, b) # << >>
          /\ Len(Append(t, b)) = Len(table) + (i + 1)
      <3>1. /\ Append(t, b) \in Seq(Block) /\ Append(t, b) # << >>
            /\ Len(Append(t, b)) = Len(t) + 1 /\ Len(table) \in Nat
        OBVIOUS
      <3> HIDE DEF good
      <3>2. QED
        BY <2>2, <2>5, <3>1
    <2>10. /\ storedOnce(insertBlock(t, b))
           /\ Range(insertBlock(t, b)) \subseteq Range(t) \cup {b}
      BY <2>5, InsertBlock
    <2>11. i + 1 # 0
      BY <2>2
    <2>12. QED
      BY <2>3, <2>4, <2>5, <2>8, <2>9, <2>10, <2>11
  <1>6. S \subseteq Nat
    OBVIOUS
  <1> HIDE DEF S
  <1>7. Len(s) \in S
    BY <1>2, <1>4, <1>5, <1>6, Induct
  <1>8. good(Len(s))
    <2> HIDE DEF good
    <2>1. QED
      BY <1>2, <1>7 DEF S
  <1>9. s # << >> => Len(s) # 0
    OBVIOUS
  <1>10. QED
    BY <1>1, <1>8, <1>9

\* Two lines that share a block are the same up to it.
LEMMA SameLine ==
    ASSUME NEW s \in Seq(Block), NEW t \in Seq(Block), linear(s), linear(t),
           \A i \in DOMAIN s, j \in DOMAIN t : s[i].hash = t[j].hash => s[i] = t[j],
           NEW x \in DOMAIN s, NEW y \in DOMAIN t, s[x] = t[y]
    PROVE  x = y /\ \A k \in 1..x : s[k] = t[k]
  <1> DEFINE good(i) == \A j \in DOMAIN t : s[i] = t[j] => i = j /\ \A k \in 1..i : s[k] = t[k]
             S == {i \in Nat : i \in DOMAIN s => good(i)}
  <1>1. /\ Len(s) \in Nat /\ DOMAIN s = 1..Len(s) /\ \A i \in 1..Len(s) : s[i].hash # NoHash
        /\ Len(t) \in Nat /\ DOMAIN t = 1..Len(t) /\ \A i \in 1..Len(t) : t[i].hash # NoHash
    <2>1. /\ Len(s) \in Nat /\ DOMAIN s = 1..Len(s) /\ \A i \in 1..Len(s) : s[i] \in Block
          /\ Len(t) \in Nat /\ DOMAIN t = 1..Len(t) /\ \A i \in 1..Len(t) : t[i] \in Block
      OBVIOUS
    <2>2. QED
      BY <2>1, BlockHash
  <1>2. 0 \in S
    <2>1. 0 \notin DOMAIN s
      BY <1>1
    <2> HIDE DEF good
    <2>2. QED
      BY <2>1
  <1>3. ASSUME NEW i \in S
        PROVE  i + 1 \in S
    <2>1. SUFFICES ASSUME i + 1 \in DOMAIN s PROVE good(i + 1)
      <3>1. i + 1 \in Nat
        BY <1>3
      <3> HIDE DEF good
      <3>2. QED
        BY <3>1
    <2>2. i \in Nat /\ (i + 1) - 1 = i
      BY <1>3
    <2>3. SUFFICES ASSUME NEW j \in DOMAIN t, s[i + 1] = t[j]
                   PROVE  i + 1 = j /\ \A k \in 1..(i + 1) : s[k] = t[k]
      OBVIOUS
    <2>4. CASE i = 0
      <3>1. t[j].previousHash = NoHash
        BY <2>1, <2>2, <2>3, <2>4 DEF linear
      <3>2. j = 1
        <4>1. SUFFICES ASSUME j # 1 PROVE FALSE
          OBVIOUS
        <4>2. j - 1 \in 1..Len(t) /\ t[j - 1].hash = NoHash
          BY <1>1, <3>1, <4>1 DEF linear
        <4>3. QED
          BY <1>1, <4>2
      <3>3. \A k \in 1..(i + 1) : k = 1
        BY <2>4
      <3>4. QED
        BY <2>3, <2>4, <3>2, <3>3
    <2>5. CASE i # 0
      <3>1. i \in DOMAIN s /\ i + 1 # 1
        BY <1>1, <2>1, <2>2, <2>5
      <3>2. t[j].previousHash = s[i].hash
        BY <2>1, <2>2, <2>3, <3>1 DEF linear
      <3>3. j # 1
        BY <1>1, <3>1, <3>2 DEF linear
      <3>4. j - 1 \in DOMAIN t /\ t[j - 1].hash = s[i].hash
        BY <1>1, <3>2, <3>3 DEF linear
      <3>5. s[i] = t[j - 1]
        BY <3>1, <3>4
      <3>6. i = j - 1 /\ \A k \in 1..i : s[k] = t[k]
        BY <1>3, <3>1, <3>4, <3>5
      <3>7. i + 1 = j
        BY <1>1, <2>2, <3>6
      <3>8. \A k \in 1..(i + 1) : k \in 1..i \/ k = i + 1
        BY <2>2
      <3>9. QED
        BY <2>3, <3>6, <3>7, <3>8
    <2>6. QED
      BY <2>4, <2>5
  <1>4. S \subseteq Nat
    OBVIOUS
  <1> HIDE DEF S
  <1>5. x \in S
    <2>1. S = Nat
      BY <1>2, <1>3, <1>4, Induct
    <2>2. QED
      BY <1>1, <2>1
  <1>6. good(x)
    <2> HIDE DEF good
    <2>1. QED
      BY <1>1, <1>5 DEF S
  <1>7. QED
    BY <1>6

-----------------------------------------------------------------------------
(* Hashes, fetched blocks and lines, step by step.                         *)

\* A step of n that leaves the tables alone and brings no block to n.
quiet(n) ==
    /\ chain' = chain /\ fresh' = fresh
    /\ \A q \in Nodes \ {n} : phase'[q] = phase[q] /\ job'[q] = job[q]
    /\ \/ job'[n].newBlocks = << >>
       \/ /\ job'[n].newBlocks = job[n].newBlocks /\ job'[n].first = job[n].first
          /\ phase'[n] = "hosts" => phase[n] = "hosts"
    /\ phase'[n] = "broadcast" => phase[n] = "broadcast" /\ job'[n].block = job[n].block

\* Most steps are quiet.
LEMMA QuietSteps ==
    ASSUME ListsInv, FetchInv, NEW n \in Nodes,
           \/ Refused(n) \/ Hang(n) \/ Released(n) \/ Dropped(n)
           \/ SendConnect(n) \/ HostsConnected(n) \/ SendPeerList(n) \/ PeersReceived(n)
           \/ BlocksReceived(n) \/ Run(n) \/ SendDisconnect(n) \/ Left(n)
           \/ Start(n) \/ Exit(n) \/ Crash(n)
    PROVE  quiet(n)
  <1> USE DEF ListsInv, TypeOK
  <1>1. NoJob.newBlocks = << >> /\ NoJob \in [DOMAIN NoJob -> {NoJob[x] : x \in DOMAIN NoJob}]
    BY DEF NoJob
  <1>2. ASSUME NEW s, NEW t
        PROVE  /\ [NoJob EXCEPT !.todo = s].newBlocks = << >>
               /\ [NoJob EXCEPT !.todo = s, !.tip = t].newBlocks = << >>
    BY DEF NoJob
  <1>3. job[n] \in Job /\ JobOK(n)
    OBVIOUS
  <1>4. CASE Run(n) \/ Left(n) \/ Crash(n)
    <2>1. PICK ph \in {"run", "off"} :
              phase' = [phase EXCEPT ![n] = ph] /\ job' = [job EXCEPT ![n] = NoJob]
      BY <1>4 DEF Run, Left, Crash
    <2>2. chain' = chain /\ fresh' = fresh
      BY <1>4 DEF Run, Left, Crash
    <2>3. QED
      BY <1>1, <2>1, <2>2 DEF quiet
  <1>5. CASE Start(n) \/ Exit(n)
    <2>1. PICK ph \in {"hosts", "leaving"} : phase' = [phase EXCEPT ![n] = ph]
      BY <1>5 DEF Start, Exit
    <2>2. PICK j : job' = [job EXCEPT ![n] = j] /\ j.newBlocks = << >>
      <3>1. CASE Start(n)
        <4> DEFINE k == [NoJob EXCEPT !.todo = Hosts[n], !.tip = findTip(chain[n])]
        <4>1. job' = [job EXCEPT ![n] = k] /\ k.newBlocks = << >>
          BY <1>2, <3>1 DEF Start
        <4> HIDE DEF k
        <4>2. QED
          BY <4>1
      <3>2. CASE Exit(n)
        <4> DEFINE k == [NoJob EXCEPT !.todo = peers[n]]
        <4>1. job' = [job EXCEPT ![n] = k] /\ k.newBlocks = << >>
          BY <1>2, <3>2 DEF Exit
        <4> HIDE DEF k
        <4>2. QED
          BY <4>1
      <3>3. QED
        BY <1>5, <3>1, <3>2
    <2>3. chain' = chain /\ fresh' = fresh
      BY <1>5 DEF Start, Exit
    <2>4. QED
      BY <2>1, <2>2, <2>3 DEF quiet
  <1>6. CASE HostsConnected(n)
    <2>1. job[n].newBlocks = << >>
      BY <1>6 DEF HostsConnected, FetchInv
    <2>2. PICK ph \in {"store", "peerList"} : phase' = [phase EXCEPT ![n] = ph]
      BY <1>6 DEF HostsConnected
    <2>3. PICK j : job' = [job EXCEPT ![n] = j] /\ j.newBlocks = << >>
      <3>1. CASE peers[n] = << >>
        <4>1. job' = [job EXCEPT ![n] = job[n]]
          BY <1>6, <3>1 DEF HostsConnected
        <4>2. QED
          BY <2>1, <4>1
      <3>2. CASE peers[n] # << >>
        <4>1. job' = [job EXCEPT ![n] = [job[n] EXCEPT !.first = Head(peers[n])]]
          BY <1>6, <3>2 DEF HostsConnected
        <4>2. [job[n] EXCEPT !.first = Head(peers[n])].newBlocks = << >>
          BY <1>3, <2>1 DEF Job
        <4>3. QED
          BY <4>1, <4>2
      <3>3. QED
        BY <3>1, <3>2
    <2>4. chain' = chain /\ fresh' = fresh
      BY <1>6 DEF HostsConnected
    <2>5. QED
      BY <2>2, <2>3, <2>4 DEF quiet
  <1>7. CASE PeersReceived(n) \/ BlocksReceived(n)
    <2>1. PICK ph \in {"blocks", "store"} : phase' = [phase EXCEPT ![n] = ph]
      BY <1>7 DEF PeersReceived, BlocksReceived
    <2>2. PICK j : /\ job' = [job EXCEPT ![n] = j] /\ j.newBlocks = job[n].newBlocks
                   /\ j.first = job[n].first
      <3>1. CASE PeersReceived(n)
        <4>1. job' = [job EXCEPT ![n] = [job[n] EXCEPT !.start = 0]]
          BY <3>1 DEF PeersReceived
        <4>2. /\ [job[n] EXCEPT !.start = 0].newBlocks = job[n].newBlocks
              /\ [job[n] EXCEPT !.start = 0].first = job[n].first
          BY <1>3 DEF Job
        <4>3. QED
          BY <4>1, <4>2
      <3>2. CASE BlocksReceived(n)
        <4>1. job' = [job EXCEPT ![n] = job[n]]
          BY <3>2 DEF BlocksReceived
        <4>2. QED
          BY <4>1
      <3>3. QED
        BY <1>7, <3>1, <3>2
    <2>3. chain' = chain /\ fresh' = fresh
      BY <1>7 DEF PeersReceived, BlocksReceived
    <2>4. QED
      BY <2>1, <2>2, <2>3 DEF quiet
  <1>8. ASSUME chain' = chain, fresh' = fresh, phase' = phase,
               NEW j, job' = [job EXCEPT ![n] = j], j.newBlocks = job[n].newBlocks,
               j.first = job[n].first, j.block = job[n].block
        PROVE  quiet(n)
    BY <1>8 DEF quiet
  <1>9. CASE Hang(n)
    <2>1. job' = [job EXCEPT ![n] = [job[n] EXCEPT !.hung = TRUE]]
      BY <1>9 DEF Hang
    <2> DEFINE j == [job[n] EXCEPT !.hung = TRUE]
    <2>2. /\ j.newBlocks = job[n].newBlocks /\ j.first = job[n].first
          /\ j.block = job[n].block
      BY <1>3 DEF Job
    <2> HIDE DEF j
    <2>3. job' = [job EXCEPT ![n] = j] /\ chain' = chain /\ fresh' = fresh /\ phase' = phase
      BY <1>9, <2>1 DEF Hang, j
    <2>4. QED
      BY <1>8, <2>2, <2>3
  <1>10. ASSUME calling(n)
         PROVE  /\ nextCall(n) \in Job /\ nextCall(n).newBlocks = job[n].newBlocks
                /\ nextCall(n).first = job[n].first /\ nextCall(n).block = job[n].block
    BY <1>10, NextCall
  <1>11. CASE SendPeerList(n) \/ SendDisconnect(n)
    <2>1. calling(n) /\ job' = [job EXCEPT ![n] = nextCall(n)] /\ phase' = phase
          /\ chain' = chain /\ fresh' = fresh
      BY <1>11 DEF SendPeerList, SendDisconnect, answers
    <2>2. QED
      BY <1>8, <1>10, <2>1
  <1>12. CASE Refused(n) \/ Released(n) \/ Dropped(n)
    <2>1. calling(n) /\ chain' = chain /\ fresh' = fresh
      BY <1>3, <1>12 DEF Refused, Released, Dropped, JobOK, answers
    <2>2. CASE phase' = [phase EXCEPT ![n] = "run"] /\ job' = [job EXCEPT ![n] = NoJob]
      BY <1>1, <2>1, <2>2 DEF quiet
    <2>3. ASSUME phase' = phase,
                 NEW j, job' = [job EXCEPT ![n] = j],
                 j = missedCall(n) \/ j = [missedCall(n) EXCEPT !.hung = FALSE]
          PROVE  quiet(n)
      <3>1. PICK k \in Job : /\ k = missedCall(n) /\ k.newBlocks = job[n].newBlocks
                             /\ k.first = job[n].first /\ k.block = job[n].block
        BY <2>1, MissedCall
      <3>2. j = k \/ j = [k EXCEPT !.hung = FALSE]
        BY <2>3, <3>1
      <3>3. /\ j.newBlocks = job[n].newBlocks /\ j.first = job[n].first
            /\ j.block = job[n].block
        BY <3>1, <3>2 DEF Job
      <3>4. QED
        BY <1>8, <2>1, <2>3, <3>3
    <2>4. QED
      BY <1>12, <2>2, <2>3 DEF Refused, Released, Dropped
  <1>13. CASE SendConnect(n)
    <2>1. calling(n) /\ chain' = chain /\ fresh' = fresh /\ phase' = phase
      BY <1>13 DEF SendConnect, answers
    <2>2. ASSUME NEW a, NEW b, NEW c
          PROVE  LET j == [nextCall(n) EXCEPT !.peersToReceive = a, !.missing = b, !.covered = c]
                 IN  /\ j.newBlocks = job[n].newBlocks /\ j.first = job[n].first
                     /\ j.block = job[n].block
      BY <1>10, <2>1 DEF Job
    <2>3. PICK j : /\ job' = [job EXCEPT ![n] = j] /\ j.newBlocks = job[n].newBlocks
                   /\ j.first = job[n].first /\ j.block = job[n].block
      <3>1. CASE job' = [job EXCEPT ![n] = nextCall(n)]
        BY <1>10, <2>1, <3>1
      <3>2. CASE job' # [job EXCEPT ![n] = nextCall(n)]
        <4> DEFINE p == callee(n)
                   hash == ConnectionMessage(n).lastBlockHash
                   a == Len(addPeer(peers[p], n))
                   b == countBlocksAfterHash(chain[p], hash)
                   c == Head(peers'[n]) = p /\ (hash = NoHash \/ hasBlock(chain[p], hash))
        <4>1. job' = [job EXCEPT ![n] =
                  [nextCall(n) EXCEPT !.peersToReceive = a, !.missing = b, !.covered = c]]
          BY <1>13, <3>2 DEF SendConnect, ConnectionMessageResponse
        <4> HIDE DEF a, b, c
        <4> DEFINE k == [nextCall(n) EXCEPT !.peersToReceive = a, !.missing = b, !.covered = c]
        <4>2. /\ job' = [job EXCEPT ![n] = k] /\ k.newBlocks = job[n].newBlocks
              /\ k.first = job[n].first /\ k.block = job[n].block
          BY <2>2, <4>1
        <4> HIDE DEF k
        <4>3. QED
          BY <4>2
      <3>3. QED
        BY <3>1, <3>2
    <2>4. QED
      BY <1>8, <2>1, <2>3
  <1>14. QED
    BY <1>4, <1>5, <1>6, <1>7, <1>9, <1>11, <1>12, <1>13

\* What a node's blocks are after a step, from the parts the step changes.
LEMMA BlocksAt ==
    ASSUME NEW n \in Nodes, NEW B, Range(chain'[n]) \subseteq B,
           Range(job'[n].newBlocks) \subseteq B,
           phase'[n] = "broadcast" => job'[n].block \in B
    PROVE  blocksAt(n)' \subseteq B
  BY DEF blocksAt

\* The blocks of a node are blocks of the network.
LEMMA AllBlocks ==
    ASSUME NEW n \in Nodes
    PROVE  /\ Range(chain[n]) \subseteq allBlocks
           /\ Range(job[n].newBlocks) \subseteq allBlocks
           /\ phase[n] = "broadcast" => job[n].block \in allBlocks
  <1>1. blocksAt(n) \subseteq allBlocks
    BY DEF allBlocks
  <1>2. QED
    BY <1>1 DEF blocksAt

\* A step that brings no new block keeps the hashes unique.
LEMMA HashFrame ==
    ASSUME HashInv, fresh' = fresh,
           \A n \in Nodes : storedOnce(chain'[n]),
           \A n \in Nodes : /\ Range(chain'[n]) \subseteq allBlocks
                            /\ Range(job'[n].newBlocks) \subseteq allBlocks
                            /\ phase'[n] = "broadcast" => job'[n].block \in allBlocks
    PROVE  HashInv'
  <1>1. allBlocks' \subseteq allBlocks
    <2>1. \A n \in Nodes : blocksAt(n)' \subseteq allBlocks
      BY BlocksAt
    <2>2. allBlocks' = UNION {blocksAt(n)' : n \in Nodes}
      BY DEF allBlocks
    <2>3. QED
      BY <2>1, <2>2
  <1>2. \A n \in Nodes : storedOnce(chain[n])'
    BY DEF storedOnce
  <1>3. (\A b, c \in allBlocks : b.hash = c.hash => b = c)'
    BY <1>1 DEF HashInv
  <1>4. (\A b \in allBlocks : b.hash \notin fresh)'
    BY <1>1 DEF HashInv
  <1>5. QED
    BY <1>2, <1>3, <1>4 DEF HashInv

\* Quiet steps keep all parts of the invariant.
LEMMA QuietKeeps ==
    ASSUME SyncInv, NEW n \in Nodes, quiet(n)
    PROVE  HashInv' /\ FetchInv' /\ LineInv'
  <1> USE DEF quiet
  <1>1. Range(<< >>) = {}
    BY DEF Range
  <1>2. HashInv'
    <2>1. \A q \in Nodes : storedOnce(chain'[q]) /\ Range(chain'[q]) \subseteq allBlocks
      BY AllBlocks DEF SyncInv, HashInv
    <2>2. \A q \in Nodes : Range(job'[q].newBlocks) \subseteq Range(job[q].newBlocks)
      BY <1>1
    <2>3. \A q \in Nodes : phase'[q] = "broadcast" =>
              phase[q] = "broadcast" /\ job'[q].block = job[q].block
      OBVIOUS
    <2> HIDE DEF quiet
    <2>4. \A q \in Nodes : /\ Range(job'[q].newBlocks) \subseteq allBlocks
                           /\ phase'[q] = "broadcast" => job'[q].block \in allBlocks
      BY <2>2, <2>3, AllBlocks
    <2>5. HashInv /\ fresh' = fresh
      BY DEF quiet, SyncInv
    <2>6. QED
      BY <2>1, <2>4, <2>5, HashFrame
  <1>3. FetchInv'
    <2>1. ASSUME NEW q \in Nodes
          PROVE  /\ phase'[q] = "hosts" => job'[q].newBlocks = << >>
                 /\ \A b \in Range(job'[q].newBlocks) :
                        job'[q].first \in Nodes /\ b \in Range(chain'[job'[q].first])
      <3>1. CASE job'[q].newBlocks = << >>
        BY <1>1, <3>1
      <3>2. CASE job'[q].newBlocks # << >>
        <4>1. /\ job'[q].newBlocks = job[q].newBlocks /\ job'[q].first = job[q].first
              /\ phase'[q] = "hosts" => phase[q] = "hosts"
          BY <3>2
        <4>2. QED
          BY <4>1 DEF SyncInv, FetchInv
      <3>3. QED
        BY <3>1, <3>2
    <2>2. QED
      BY <2>1 DEF FetchInv
  <1>4. LineInv'
    <2>1. ASSUME OneLine, NEW q \in Nodes
          PROVE  /\ chain'[q] # << >> /\ linear(chain'[q])
                 /\ phase'[q] = "broadcast" => hasBlock(chain'[q], job'[q].block.previousHash)
      BY <2>1 DEF SyncInv, LineInv
    <2>2. QED
      BY <2>1 DEF LineInv, linear, hasBlock, hashes
  <1>5. QED
    BY <1>2, <1>3, <1>4

\* A created block is new to the network and continues the author's table.
LEMMA SyncCreateBlock ==
    ASSUME SyncInv, ListsInv', NEW n \in Nodes, NEW m \in Msgs, CreateBlock(n, m)
    PROVE  HashInv' /\ FetchInv' /\ LineInv'
  <1>1. TypeOK /\ HashInv /\ FetchInv /\ LineInv
    BY DEF SyncInv, ListsInv
  <1> DEFINE b == createBlockFromMessage(chain[n], n, m)
             j == [NoJob EXCEPT !.todo = peers[n], !.block = b]
  <1>2. b.hash = m /\ b.previousHash = findTip(chain[n])
    BY DEF createBlockFromMessage
  <1>3. j.newBlocks = << >> /\ j.block = b
    <2> HIDE DEF b
    <2>1. QED
      BY DEF NoJob
  <1>4. /\ m \in fresh /\ fresh' = fresh \ {m} /\ chain' = chain
        /\ phase' = [phase EXCEPT ![n] = "broadcast"] /\ job' = [job EXCEPT ![n] = j]
    BY DEF CreateBlock
  <1> HIDE DEF b, j
  <1>5. /\ phase'[n] = "broadcast" /\ job'[n] = j
        /\ \A q \in Nodes \ {n} : phase'[q] = phase[q] /\ job'[q] = job[q]
    BY <1>1, <1>4 DEF TypeOK
  <1>6. Range(<< >>) = {}
    BY DEF Range
  <1>7. HashInv'
    <2>1. ASSUME NEW q \in Nodes
          PROVE  blocksAt(q)' \subseteq allBlocks \cup {b}
      <3>1. /\ Range(chain'[q]) \subseteq allBlocks \cup {b}
            /\ Range(job'[q].newBlocks) \subseteq allBlocks \cup {b}
            /\ phase'[q] = "broadcast" => job'[q].block \in allBlocks \cup {b}
        BY <1>3, <1>4, <1>5, <1>6, AllBlocks
      <3>2. QED
        BY <3>1, BlocksAt
    <2>2. allBlocks' \subseteq allBlocks \cup {b}
      <3>1. allBlocks' = UNION {blocksAt(q)' : q \in Nodes}
        BY DEF allBlocks
      <3>2. QED
        BY <2>1, <3>1
    <2>3. \A c \in allBlocks : c.hash # b.hash
      BY <1>1, <1>2, <1>4 DEF HashInv
    <2>4. (\A c, d \in allBlocks : c.hash = d.hash => c = d)'
      BY <1>1, <2>2, <2>3 DEF HashInv
    <2>5. (\A c \in allBlocks : c.hash \notin fresh)'
      BY <1>1, <1>2, <1>4, <2>2 DEF HashInv
    <2>6. \A q \in Nodes : storedOnce(chain[q])'
      BY <1>1, <1>4 DEF HashInv, storedOnce
    <2>7. QED
      BY <2>4, <2>5, <2>6 DEF HashInv
  <1>8. FetchInv'
    <2>1. ASSUME NEW q \in Nodes
          PROVE  /\ phase'[q] = "hosts" => job'[q].newBlocks = << >>
                 /\ \A c \in Range(job'[q].newBlocks) :
                        job'[q].first \in Nodes /\ c \in Range(chain'[job'[q].first])
      <3>1. CASE q = n
        BY <1>3, <1>5, <1>6, <3>1
      <3>2. CASE q # n
        BY <1>1, <1>4, <1>5, <3>2 DEF FetchInv
      <3>3. QED
        BY <3>1, <3>2
    <2>2. QED
      BY <2>1 DEF FetchInv
  <1>9. LineInv'
    <2>1. ASSUME OneLine, NEW q \in Nodes
          PROVE  /\ chain'[q] # << >> /\ linear(chain'[q])
                 /\ phase'[q] = "broadcast" => hasBlock(chain'[q], job'[q].block.previousHash)
      <3>1. chain[q] # << >> /\ linear(chain[q])
        BY <1>1, <2>1 DEF LineInv
      <3>2. CASE q = n
        <4>1. hasBlock(chain[n], findTip(chain[n]))
          <5>1. chain[n] \in Seq(Block) /\ chain[n] # << >>
            BY <1>1, <3>1, <3>2 DEF TypeOK
          <5>2. Len(chain[n]) \in DOMAIN chain[n]
            BY <5>1
          <5>3. QED
            BY <5>1, <5>2 DEF hasBlock, hashes, findTip
        <4>2. QED
          BY <1>2, <1>3, <1>4, <1>5, <3>1, <3>2, <4>1
      <3>3. CASE q # n
        BY <1>1, <1>4, <1>5, <2>1, <3>3 DEF LineInv
      <3>4. QED
        BY <3>2, <3>3
    <2>2. QED
      BY <2>1 DEF LineInv, linear, hasBlock, hashes
  <1>10. QED
    BY <1>7, <1>8, <1>9

\* A page holds blocks of the table it was taken from.
LEMMA PageOfTable ==
    ASSUME NEW table \in Seq(Block), NEW hash, NEW start \in Nat, NEW count \in Nat
    PROVE  Range(getBlocksByIndexRange(table, start, count, hash)) \subseteq Range(table)
  <1>1. CASE hash # NoHash /\ ~hasBlock(table, hash)
    BY <1>1 DEF getBlocksByIndexRange, Range
  <1>2. CASE ~(hash # NoHash /\ ~hasBlock(table, hash))
    <2> DEFINE first == IF hash = NoHash THEN 1 + start ELSE idOf(table, hash) + 1 + start
               last == IF first + count - 1 < Len(table) THEN first + count - 1 ELSE Len(table)
    <2>1. getBlocksByIndexRange(table, start, count, hash) = SubSeq(table, first, last)
      BY <1>2 DEF getBlocksByIndexRange
    <2>2. first \in Nat /\ first >= 1
      <3>1. hash # NoHash => idOf(table, hash) \in DOMAIN table
        BY <1>2, Queries
      <3>2. QED
        BY <3>1
    <2> HIDE DEF first
    <2>3. last \in Int /\ last <= Len(table)
      BY <2>2
    <2> HIDE DEF last
    <2>4. \A i \in DOMAIN SubSeq(table, first, last) :
              /\ first + i - 1 \in DOMAIN table
              /\ SubSeq(table, first, last)[i] = table[first + i - 1]
      BY <2>2, <2>3
    <2>5. QED
      BY <2>1, <2>4 DEF Range
  <1>3. QED
    BY <1>1, <1>2

\* Concatenation and Range.
LEMMA RangeConcat ==
    ASSUME NEW s \in Seq(Block), NEW t \in Seq(Block)
    PROVE  Range(s \o t) \subseteq Range(s) \cup Range(t)
  <1>1. ASSUME NEW i \in DOMAIN (s \o t)
        PROVE  (s \o t)[i] \in Range(s) \cup Range(t)
    <2>1. i \in 1..(Len(s) + Len(t)) /\ Len(s) \in Nat /\ Len(t) \in Nat
      OBVIOUS
    <2>2. CASE i <= Len(s)
      <3>1. i \in DOMAIN s /\ (s \o t)[i] = s[i]
        BY <2>1, <2>2
      <3>2. QED
        BY <3>1 DEF Range
    <2>3. CASE i > Len(s)
      <3>1. i - Len(s) \in DOMAIN t /\ (s \o t)[i] = t[i - Len(s)]
        BY <2>1, <2>3
      <3>2. QED
        BY <3>1 DEF Range
    <2>4. QED
      BY <2>1, <2>2, <2>3
  <1>2. QED
    BY <1>1 DEF Range

\* Fetching a page.
LEMMA SyncBlockRange ==
    ASSUME SyncInv, NEW n \in Nodes, SendBlockRange(n)
    PROVE  HashInv' /\ FetchInv' /\ LineInv'
  <1>1. ListsInv /\ TypeOK /\ HashInv /\ FetchInv /\ LineInv /\ job[n] \in Job
    BY DEF SyncInv, ListsInv, TypeOK
  <1>2. calling(n) /\ phase[n] = "blocks" /\ phase' = phase /\ chain' = chain /\ fresh' = fresh
    BY DEF SendBlockRange, answers
  <1>3. PICK p \in Nodes : p = callee(n) /\ p = job[n].first
    BY <1>1, <1>2, Callee DEF callee
  <1> DEFINE page == getBlocksByIndexRange(chain[p], job[n].start, BLOCKS_BATCH_SIZE, job[n].tip)
  <1>4. page \in Seq(Block) /\ Range(page) \subseteq Range(chain[p])
    <2>1. /\ chain[p] \in Seq(Block) /\ job[n].start \in Nat /\ BLOCKS_BATCH_SIZE \in Nat
      BY <1>1, MembershipAssumption DEF TypeOK, Job
    <2>2. QED
      BY <2>1, Queries, PageOfTable
  <1>5. \/ job' = [job EXCEPT ![n] = nextCall(n)]
        \/ job' = [job EXCEPT ![n] = [nextCall(n) EXCEPT !.newBlocks = @ \o page]]
    BY <1>3 DEF SendBlockRange, BlockRangeMessage
  <1> HIDE DEF page
  <1>6. PICK j \in Job : /\ j = nextCall(n) /\ j.newBlocks = job[n].newBlocks
                         /\ j.first = job[n].first
    BY <1>1, <1>2, NextCall
  <1>7. PICK k \in Job : /\ k.first = job[n].first
                 /\ Range(k.newBlocks) \subseteq Range(job[n].newBlocks) \cup Range(chain[p])
                 /\ job' = [job EXCEPT ![n] = k]
    <2>1. CASE job' = [job EXCEPT ![n] = nextCall(n)]
      BY <1>6, <2>1
    <2>2. CASE job' = [job EXCEPT ![n] = [nextCall(n) EXCEPT !.newBlocks = @ \o page]]
      <3>1. PICK s \in Seq(Block) : s = job[n].newBlocks
        BY <1>1 DEF Job
      <3>2. s \o page \in Seq(Block) /\ Range(s \o page) \subseteq Range(s) \cup Range(page)
        BY <1>4, RangeConcat
      <3> DEFINE k == [j EXCEPT !.newBlocks = @ \o page]
      <3>3. k \in Job /\ k.first = job[n].first /\ k.newBlocks = s \o page
        BY <1>6, <3>1, <3>2 DEF Job
      <3>4. job' = [job EXCEPT ![n] = k]
        BY <1>6, <2>2
      <3> HIDE DEF k
      <3>5. QED
        BY <1>4, <3>1, <3>2, <3>3, <3>4
    <2>3. QED
      BY <1>5, <2>1, <2>2
  <1>8. job'[n] = k /\ \A q \in Nodes \ {n} : job'[q] = job[q]
    BY <1>1, <1>7 DEF TypeOK
  <1>9. HashInv'
    <2>1. ASSUME NEW q \in Nodes
          PROVE  /\ Range(job'[q].newBlocks) \subseteq allBlocks
                 /\ phase'[q] = "broadcast" => job'[q].block \in allBlocks
      <3>1. CASE q = n
        BY <1>2, <1>3, <1>7, <1>8, <3>1, AllBlocks
      <3>2. CASE q # n
        BY <1>2, <1>8, <3>2, AllBlocks
      <3>3. QED
        BY <3>1, <3>2
    <2>2. \A q \in Nodes : storedOnce(chain'[q]) /\ Range(chain'[q]) \subseteq allBlocks
      BY <1>1, <1>2, AllBlocks DEF HashInv
    <2>3. QED
      BY <1>1, <1>2, <2>1, <2>2, HashFrame
  <1>10. FetchInv'
    <2>1. ASSUME NEW q \in Nodes
          PROVE  /\ phase'[q] = "hosts" => job'[q].newBlocks = << >>
                 /\ \A c \in Range(job'[q].newBlocks) :
                        job'[q].first \in Nodes /\ c \in Range(chain'[job'[q].first])
      <3>1. CASE q = n
        <4>1. \A c \in Range(job[n].newBlocks) : c \in Range(chain[p])
          BY <1>1, <1>3 DEF FetchInv
        <4>2. QED
          BY <1>2, <1>3, <1>7, <1>8, <3>1, <4>1
      <3>2. CASE q # n
        BY <1>1, <1>2, <1>8, <3>2 DEF FetchInv
      <3>3. QED
        BY <3>1, <3>2
    <2>2. QED
      BY <2>1 DEF FetchInv
  <1>11. LineInv'
    <2>1. ASSUME OneLine, NEW q \in Nodes
          PROVE  /\ chain'[q] # << >> /\ linear(chain'[q])
                 /\ phase'[q] = "broadcast" => hasBlock(chain'[q], job'[q].block.previousHash)
      BY <1>1, <1>2, <1>8, <2>1 DEF LineInv
    <2>2. QED
      BY <2>1 DEF LineInv, linear, hasBlock, hashes
  <1>12. QED
    BY <1>9, <1>10, <1>11

\* A step that adds blocks of the network to one table.
LEMMA StoreKeeps ==
    ASSUME SyncInv, NEW n \in Nodes, NEW p \in Nodes, NEW table,
           chain' = [chain EXCEPT ![p] = table], fresh' = fresh,
           Range(chain[p]) \subseteq Range(table), Range(table) \subseteq allBlocks,
           storedOnce(table), OneLine => table # << >> /\ linear(table),
           \A q \in Nodes \ {n} : phase'[q] = phase[q] /\ job'[q] = job[q],
           \/ job'[n].newBlocks = << >>
           \/ /\ job'[n].newBlocks = job[n].newBlocks /\ job'[n].first = job[n].first
              /\ phase'[n] = phase[n],
           phase'[n] = "broadcast" => phase[n] = "broadcast" /\ job'[n].block = job[n].block
    PROVE  HashInv' /\ FetchInv' /\ LineInv'
  <1>1. TypeOK /\ HashInv /\ FetchInv /\ LineInv
    BY DEF SyncInv, ListsInv
  <1>2. chain'[p] = table /\ \A q \in Nodes \ {p} : chain'[q] = chain[q]
    BY <1>1 DEF TypeOK
  <1>3. \A q \in Nodes : Range(chain[q]) \subseteq Range(chain'[q])
    BY <1>2
  <1>4. Range(<< >>) = {}
    BY DEF Range
  <1>5. \A q \in Nodes : /\ Range(job'[q].newBlocks) \subseteq Range(job[q].newBlocks)
                         /\ phase'[q] = "broadcast" =>
                                phase[q] = "broadcast" /\ job'[q].block = job[q].block
    BY <1>4
  <1>6. HashInv'
    <2>1. \A q \in Nodes : storedOnce(chain'[q]) /\ Range(chain'[q]) \subseteq allBlocks
      BY <1>1, <1>2, AllBlocks DEF HashInv
    <2>2. \A q \in Nodes : /\ Range(job'[q].newBlocks) \subseteq allBlocks
                           /\ phase'[q] = "broadcast" => job'[q].block \in allBlocks
      BY <1>5, AllBlocks
    <2>3. QED
      BY <1>1, <2>1, <2>2, HashFrame
  <1>7. FetchInv'
    <2>1. ASSUME NEW q \in Nodes
          PROVE  /\ phase'[q] = "hosts" => job'[q].newBlocks = << >>
                 /\ \A c \in Range(job'[q].newBlocks) :
                        job'[q].first \in Nodes /\ c \in Range(chain'[job'[q].first])
      <3>1. CASE job'[q].newBlocks = << >>
        BY <1>4, <3>1
      <3>2. CASE job'[q].newBlocks # << >>
        <4>1. /\ job'[q].newBlocks = job[q].newBlocks /\ job'[q].first = job[q].first
              /\ phase'[q] = phase[q]
          BY <3>2
        <4>2. /\ phase[q] = "hosts" => job[q].newBlocks = << >>
              /\ \A c \in Range(job[q].newBlocks) :
                        job[q].first \in Nodes /\ c \in Range(chain[job[q].first])
          BY <1>1 DEF FetchInv
        <4>3. QED
          BY <1>3, <4>1, <4>2
      <3>3. QED
        BY <3>1, <3>2
    <2>2. QED
      BY <2>1 DEF FetchInv
  <1>8. LineInv'
    <2>1. ASSUME OneLine, NEW q \in Nodes
          PROVE  /\ chain'[q] # << >> /\ linear(chain'[q])
                 /\ phase'[q] = "broadcast" => hasBlock(chain'[q], job'[q].block.previousHash)
      <3>1. chain'[q] # << >> /\ linear(chain'[q])
        BY <1>1, <1>2, <2>1 DEF LineInv
      <3>2. ASSUME phase'[q] = "broadcast"
            PROVE  hasBlock(chain'[q], job'[q].block.previousHash)
        <4>1. job'[q].block = job[q].block /\ hasBlock(chain[q], job[q].block.previousHash)
          BY <1>1, <1>5, <2>1, <3>2 DEF LineInv
        <4>2. \A hash : hasBlock(chain[q], hash) => hasBlock(chain'[q], hash)
          BY <1>3 DEF hasBlock, hashes, Range
        <4>3. QED
          BY <4>1, <4>2
      <3>3. QED
        BY <3>1, <3>2
    <2>2. QED
      BY <2>1 DEF LineInv, linear, hasBlock, hashes
  <1>9. QED
    BY <1>6, <1>7, <1>8

\* Storing what was fetched.
LEMMA SyncStoreNewBlocks ==
    ASSUME SyncInv, NEW n \in Nodes, StoreNewBlocks(n)
    PROVE  /\ HashInv' /\ FetchInv' /\ LineInv'
           /\ OneLine /\ chain'[n] # chain[n] => IsPrefix(chain'[n], chain[job[n].first])
  <1>1. TypeOK /\ HashInv /\ FetchInv /\ LineInv /\ job[n] \in Job
    BY DEF SyncInv, ListsInv, TypeOK
  <1>2. PICK s \in Seq(Block) : s = job[n].newBlocks
    BY <1>1 DEF Job
  <1>3. PICK old \in Seq(Block) : old = chain[n]
    BY <1>1 DEF TypeOK
  <1>4. PICK new : new = FoldLeft(insertBlock, old, s)
    OBVIOUS
  <1>5. /\ new \in Seq(Block) /\ Range(old) \subseteq Range(new)
        /\ Range(new) \subseteq Range(old) \cup Range(s)
        /\ storedOnce(old) => storedOnce(new)
    BY <1>4, InsertBlocks
  <1>6. storedOnce(old) /\ Range(old) \subseteq allBlocks /\ Range(s) \subseteq allBlocks
    BY <1>1, <1>2, <1>3, AllBlocks DEF HashInv
  <1>7. OneLine => old # << >> /\ linear(old)
    BY <1>1, <1>3 DEF LineInv
  <1>8. ASSUME OneLine, validateNewBlocks(old, s)
        PROVE  /\ new # << >> /\ linear(new) /\ Len(new) = Len(old) + Len(s)
               /\ s # << >> => findTip(new) = s[Len(s)].hash
    <2>1. \A b, c \in Range(old) \cup Range(s) : b.hash = c.hash => b = c
      BY <1>1, <1>6 DEF HashInv
    <2>2. QED
      BY <1>4, <1>6, <1>7, <1>8, <2>1, InsertLine
  <1>9. /\ phase' = [phase EXCEPT ![n] = "all"] /\ fresh' = fresh
        /\ job' = [job EXCEPT ![n] = [NoJob EXCEPT !.todo = peers[n]]]
        /\ chain' = [chain EXCEPT ![n] = IF validateNewBlocks(old, s) THEN new ELSE old]
    BY <1>2, <1>3, <1>4 DEF StoreNewBlocks
  <1>10. /\ job'[n].newBlocks = << >> /\ phase'[n] = "all"
         /\ \A q \in Nodes \ {n} : phase'[q] = phase[q] /\ job'[q] = job[q]
    BY <1>1, <1>9 DEF TypeOK, NoJob
  <1>11. HashInv' /\ FetchInv' /\ LineInv'
    <2> DEFINE table == IF validateNewBlocks(old, s) THEN new ELSE old
    <2>1. /\ Range(chain[n]) \subseteq Range(table) /\ Range(table) \subseteq allBlocks
          /\ storedOnce(table) /\ (OneLine => table # << >> /\ linear(table))
      BY <1>3, <1>5, <1>6, <1>7, <1>8
    <2>2. chain' = [chain EXCEPT ![n] = table]
      BY <1>9
    <2> HIDE DEF table
    <2>3. phase'[n] # "broadcast"
      BY <1>10
    <2>4. QED
      BY <1>9, <1>10, <2>1, <2>2, <2>3, StoreKeeps
  <1>12. ASSUME OneLine, chain'[n] # chain[n]
         PROVE  IsPrefix(chain'[n], chain[job[n].first])
    <2>1. validateNewBlocks(old, s) /\ chain'[n] = new /\ new # old
      BY <1>1, <1>3, <1>9, <1>12 DEF TypeOK
    <2>2. s # << >>
      <3>1. SUFFICES ASSUME s = << >> PROVE FALSE
        OBVIOUS
      <3>2. PICK F : F[0] = old /\ F[Len(s)] = FoldLeft(insertBlock, old, s)
        BY InsertLoop
      <3>3. QED
        BY <1>4, <2>1, <3>1, <3>2
    <2>3. Len(s) \in DOMAIN s /\ s[Len(s)] \in Range(s)
      BY <2>2 DEF Range
    <2>4. PICK p \in Nodes : p = job[n].first /\ s[Len(s)] \in Range(chain[p])
      BY <1>1, <1>2, <2>3 DEF FetchInv
    <2>5. PICK t \in Seq(Block) : t = chain[p] /\ linear(t) /\ Range(t) \subseteq allBlocks
      BY <1>1, <1>12, AllBlocks DEF TypeOK, LineInv
    <2>6. PICK y \in DOMAIN t : t[y] = s[Len(s)]
      BY <2>4, <2>5 DEF Range
    <2>7. new # << >> /\ linear(new) /\ findTip(new) = s[Len(s)].hash
      BY <1>8, <1>12, <2>1, <2>2
    <2>8. \A i \in DOMAIN new, j \in DOMAIN t : new[i].hash = t[j].hash => new[i] = t[j]
      <3>1. \A i \in DOMAIN new : new[i] \in allBlocks
        BY <1>5, <1>6 DEF Range
      <3>2. \A i \in DOMAIN t : t[i] \in allBlocks
        BY <2>5 DEF Range
      <3>3. QED
        BY <1>1, <3>1, <3>2 DEF HashInv
    <2>9. Len(new) \in DOMAIN new /\ new[Len(new)] = t[y]
      <3>1. Len(new) \in DOMAIN new
        BY <1>5, <2>7
      <3>2. new[Len(new)].hash = t[y].hash
        BY <2>6, <2>7 DEF findTip
      <3>3. QED
        BY <2>8, <3>1, <3>2
    <2>10. Len(new) = y /\ \A k \in 1..Len(new) : new[k] = t[k]
      BY <1>5, <2>5, <2>7, <2>8, <2>9, SameLine
    <2>11. Len(new) <= Len(t)
      BY <1>5, <2>10
    <2>12. SubSeq(new, 1, Len(new)) = SubSeq(t, 1, Len(new))
      BY <1>5, <2>10, <2>11
    <2>13. QED
      BY <2>1, <2>4, <2>5, <2>11, <2>12 DEF IsPrefix
  <1>13. QED
    BY <1>11, <1>12

\* A block that arrives, and the author's own.
LEMMA SyncStoreBlock ==
    ASSUME SyncInv, NEW n \in Nodes, SendBlock(n) \/ StoreOwnBlock(n)
    PROVE  HashInv' /\ FetchInv' /\ LineInv'
  <1>1. ListsInv /\ TypeOK /\ HashInv /\ FetchInv /\ LineInv /\ job[n] \in Job /\ JobOK(n)
    BY DEF SyncInv, ListsInv, TypeOK
  <1>2. phase[n] = "broadcast" /\ fresh' = fresh
    BY DEF SendBlock, StoreOwnBlock
  <1>3. PICK b \in Block : b = job[n].block /\ b \in allBlocks
    BY <1>1, <1>2, AllBlocks DEF JobOK
  <1>4. NoJob.newBlocks = << >>
    BY DEF NoJob
  <1>5. CASE StoreOwnBlock(n)
    <2>1. PICK old \in Seq(Block) :
              old = chain[n] /\ storedOnce(old) /\ Range(old) \subseteq allBlocks
      BY <1>1, AllBlocks DEF TypeOK, HashInv
    <2>2. PICK table : table = insertBlock(old, b)
      OBVIOUS
    <2>3. /\ Range(old) \subseteq Range(table) /\ Range(table) \subseteq Range(old) \cup {b}
          /\ storedOnce(table)
      BY <2>1, <2>2, InsertBlock
    <2>4. OneLine => table # << >> /\ linear(table)
      <3>1. OneLine => old # << >> /\ linear(old) /\ hasBlock(old, b.previousHash)
        BY <1>1, <1>2, <1>3, <2>1 DEF LineInv
      <3>2. QED
        BY <2>1, <2>2, <3>1, InsertInLine
    <2>5. /\ chain' = [chain EXCEPT ![n] = table]
          /\ phase' = [phase EXCEPT ![n] = "run"] /\ job' = [job EXCEPT ![n] = NoJob]
      BY <1>3, <1>5, <2>1, <2>2 DEF StoreOwnBlock
    <2>6. /\ job'[n].newBlocks = << >> /\ phase'[n] # "broadcast"
          /\ \A q \in Nodes \ {n} : phase'[q] = phase[q] /\ job'[q] = job[q]
      BY <1>1, <1>4, <2>5 DEF TypeOK
    <2>7. Range(chain[n]) \subseteq Range(table) /\ Range(table) \subseteq allBlocks
      BY <1>3, <2>1, <2>3
    <2>8. QED
      BY <1>2, <2>3, <2>4, <2>5, <2>6, <2>7, StoreKeeps
  <1>6. CASE SendBlock(n)
    <2>1. calling(n)
      BY <1>6 DEF SendBlock, answers
    <2>2. PICK p \in Nodes : p = callee(n)
      BY <1>1, <2>1, Callee
    <2>3. PICK old \in Seq(Block) :
              old = chain[p] /\ storedOnce(old) /\ Range(old) \subseteq allBlocks
      BY <1>1, AllBlocks DEF TypeOK, HashInv
    <2> DEFINE valid == validateIncomingBlock(p, old, b)
    <2>4. PICK table : table = IF valid THEN insertBlock(old, b) ELSE old
      OBVIOUS
    <2>5. /\ Range(old) \subseteq Range(table) /\ Range(table) \subseteq Range(old) \cup {b}
          /\ storedOnce(table)
      <3> HIDE DEF valid
      <3>1. QED
        BY <2>3, <2>4, InsertBlock
    <2>6. OneLine => table # << >> /\ linear(table)
      <3>1. OneLine => old # << >> /\ linear(old)
        BY <1>1, <2>3 DEF LineInv
      <3>2. ASSUME OneLine, valid
            PROVE  insertBlock(old, b) # << >> /\ linear(insertBlock(old, b))
        <4>1. b.previousHash = findTip(old) /\ ~hasBlock(old, b.hash)
          BY <3>2 DEF validateIncomingBlock
        <4>2. insertBlock(old, b) = Append(old, b) /\ linear(Append(old, b))
          BY <2>3, <3>1, <3>2, <4>1, InsertTip
        <4> HIDE DEF valid
        <4>3. Append(old, b) # << >>
          BY <2>3
        <4>4. QED
          BY <4>2, <4>3
      <3> HIDE DEF valid
      <3>3. QED
        BY <2>4, <3>1, <3>2
    <2>7. chain' = [chain EXCEPT ![p] = table]
      BY <1>3, <1>6, <2>2, <2>3, <2>4 DEF SendBlock
    <2> HIDE DEF valid
    <2>8. \/ phase' = phase /\ job' = [job EXCEPT ![n] = nextCall(n)]
          \/ phase' = [phase EXCEPT ![n] = "run"] /\ job' = [job EXCEPT ![n] = NoJob]
      BY <1>6 DEF SendBlock
    <2>9. /\ nextCall(n).newBlocks = job[n].newBlocks /\ nextCall(n).first = job[n].first
          /\ nextCall(n).block = job[n].block
      BY <1>1, <2>1, NextCall
    <2>10. /\ \/ job'[n].newBlocks = << >>
              \/ /\ job'[n].newBlocks = job[n].newBlocks /\ job'[n].first = job[n].first
                 /\ phase'[n] = phase[n]
           /\ phase'[n] = "broadcast" => phase[n] = "broadcast" /\ job'[n].block = job[n].block
           /\ \A q \in Nodes \ {n} : phase'[q] = phase[q] /\ job'[q] = job[q]
      BY <1>1, <1>4, <2>8, <2>9 DEF TypeOK
    <2>11. Range(chain[p]) \subseteq Range(table) /\ Range(table) \subseteq allBlocks
      BY <1>3, <2>3, <2>5
    <2>12. QED
      BY <1>2, <2>5, <2>6, <2>7, <2>10, <2>11, StoreKeeps
  <1>7. QED
    BY <1>5, <1>6

\* Every step keeps SyncInv.
LEMMA SyncStep ==
    SyncInv /\ [Next]_vars => SyncInv'
  <1>1. SUFFICES ASSUME SyncInv, [Next]_vars PROVE SyncInv'
    OBVIOUS
  <1>2. ListsInv /\ FetchInv /\ ListsInv'
    BY <1>1, ListsStep DEF SyncInv
  <1>3. CASE UNCHANGED vars
    <2>1. SUFFICES HashInv' /\ FetchInv' /\ LineInv'
      BY <1>2 DEF SyncInv
    <2>2. HashInv /\ FetchInv /\ LineInv
      BY <1>1 DEF SyncInv
    <2>3. chain' = chain /\ job' = job /\ phase' = phase /\ fresh' = fresh
      BY <1>3 DEF vars
    <2>4. allBlocks' = allBlocks
      BY <2>3 DEF allBlocks, blocksAt
    <2>5. QED
      BY <2>2, <2>3, <2>4 DEF HashInv, FetchInv, LineInv, storedOnce, linear, hasBlock, hashes
  <1>4. CASE Next
    <2>1. PICK n \in Nodes : \/ Start(n) \/ Exit(n) \/ Crash(n)
                             \/ \E m \in Msgs : CreateBlock(n, m)
                             \/ Step(n)
      BY <1>4 DEF Next
    <2>2. HashInv' /\ FetchInv' /\ LineInv'
      BY <1>1, <1>2, <2>1, QuietSteps, QuietKeeps, SyncCreateBlock, SyncBlockRange,
         SyncStoreNewBlocks, SyncStoreBlock
      DEF Step
    <2>3. QED
      BY <1>2, <2>2 DEF SyncInv
  <1>5. QED
    BY <1>1, <1>3, <1>4

\* It holds at the start.
LEMMA SyncInit ==
    Init => SyncInv
  <1>1. SUFFICES ASSUME Init PROVE SyncInv
    OBVIOUS
  <1>2. /\ chain = Tables /\ fresh = Msgs /\ \A n \in Nodes : job[n] = NoJob
        /\ \A n \in Nodes : phase[n] \in {"run", "off"}
    BY <1>1 DEF Init
  <1>3. NoJob.newBlocks = << >> /\ Range(<< >>) = {}
    BY DEF NoJob, Range
  <1>4. \A n \in Nodes : blocksAt(n) = Range(Tables[n])
    BY <1>2, <1>3 DEF blocksAt
  <1>5. HashInv
    <2>1. ASSUME NEW b \in allBlocks
          PROVE  \E n \in Nodes : \E i \in DOMAIN Tables[n] : b = Tables[n][i]
      BY <1>4 DEF allBlocks, Range
    <2>2. \A b, c \in allBlocks : b.hash = c.hash => b = c
      BY <2>1, StoredAssumption
    <2>3. \A b \in allBlocks : b.hash \notin fresh
      BY <1>2, <2>1, StoredAssumption DEF hashes
    <2>4. \A n \in Nodes : storedOnce(chain[n])
      BY <1>2, StoredAssumption DEF storedOnce
    <2>5. QED
      BY <2>2, <2>3, <2>4 DEF HashInv
  <1>6. FetchInv
    BY <1>2, <1>3 DEF FetchInv
  <1>7. LineInv
    BY <1>2 DEF LineInv, OneLine
  <1>8. QED
    BY <1>1, <1>5, <1>6, <1>7, ListsInit DEF SyncInv

\* The invariant behind the next two theorems: in any network, however often
\* processes start, leave and crash and answers get lost, a hash belongs to one
\* block, stored at most once per table, and whatever a starting node has fetched
\* is in the table of the peer it asked.
THEOREM SyncAlways == Spec => []SyncInv
  BY SyncInit, SyncStep, PTL DEF Spec

\* No table of a network that starts from single lines ever gets a gap, although
\* a starting node misses the blocks broadcast before its server thread runs.
THEOREM NeverAGapAfterStart == Spec => []NoGapAfterStart
  <1>1. SyncInv => NoGapAfterStart
    BY DEF SyncInv, LineInv, NoGapAfterStart
  <1>2. QED
    BY <1>1, SyncInit, SyncStep, PTL DEF Spec

\* Nobody but the node itself stores in its table while it starts.
LEMMA OnlyOwnStore ==
    ASSUME ListsInv, Next, NEW n \in Nodes, phase[n] = "store", chain'[n] # chain[n]
    PROVE  StoreNewBlocks(n)
  <1>1. PICK q \in Nodes : \/ Start(q) \/ Exit(q) \/ Crash(q)
                           \/ \E m \in Msgs : CreateBlock(q, m)
                           \/ Step(q)
    BY DEF Next
  <1>2. chain \in [Nodes -> Seq(Block)]
    BY DEF ListsInv, TypeOK
  <1>3. CASE StoreNewBlocks(q)
    <2>1. q = n
      BY <1>2, <1>3 DEF StoreNewBlocks
    <2>2. QED
      BY <1>3, <2>1
  <1>4. ASSUME StoreOwnBlock(q)
        PROVE  FALSE
    <2>1. phase[q] = "broadcast" /\ chain' = [chain EXCEPT ![q] = insertBlock(@, job[q].block)]
      BY <1>4 DEF StoreOwnBlock
    <2>2. q # n
      BY <2>1
    <2>3. QED
      BY <1>2, <2>1, <2>2
  <1>5. ASSUME SendBlock(q)
        PROVE  FALSE
    <2>1. calling(q) /\ listening(callee(q))
      BY <1>5 DEF SendBlock, answers, serves
    <2>2. callee(q) # n
      BY <2>1 DEF listening
    <2>3. PICK t : chain' = [chain EXCEPT ![callee(q)] = t]
      BY <1>5 DEF SendBlock
    <2>4. QED
      BY <1>2, <2>2, <2>3
  <1>6. CASE ~(StoreNewBlocks(q) \/ StoreOwnBlock(q) \/ SendBlock(q))
    <2>1. chain' = chain
      BY <1>1, <1>6 DEF Step, Start, Exit, Crash, CreateBlock, Refused, Hang, Released, Dropped,
            SendConnect, HostsConnected, SendPeerList, PeersReceived, SendBlockRange,
            BlocksReceived, Run, SendDisconnect, Left
    <2>2. QED
      BY <2>1
  <1>7. QED
    BY <1>3, <1>4, <1>5, <1>6

\* What a starting node adds to its table makes it a prefix of the asked peer's, in
\* any network of single lines and whatever happens to either in between.
THEOREM SyncAlwaysFollowsPeer == Spec => SyncFollowsPeer
  <1>1. SyncInv /\ [Next]_vars =>
            [\A n \in Nodes :
                OneLine /\ phase[n] = "store" /\ chain'[n] # chain[n]
                    => IsPrefix(chain'[n], chain[job[n].first])]_vars
    <2>1. SUFFICES ASSUME SyncInv, Next, OneLine,
                          NEW n \in Nodes, phase[n] = "store", chain'[n] # chain[n]
                   PROVE  IsPrefix(chain'[n], chain[job[n].first])
      OBVIOUS
    <2>2. StoreNewBlocks(n)
      BY <2>1, OnlyOwnStore DEF SyncInv
    <2>3. QED
      BY <2>1, <2>2, SyncStoreNewBlocks
  <1>2. QED
    BY <1>1, SyncInit, SyncStep, PTL DEF Spec, SyncFollowsPeer

-----------------------------------------------------------------------------
(* Who is online.                                                          *)

\* A list without repetitions is as long as the set of its peers is large.
LEMMA ListLength ==
    ASSUME NEW s \in Seq(Nodes), listedOnce(s)
    PROVE  IsFiniteSet(Range(s)) /\ Cardinality(Range(s)) = Len(s)
  <1>1. Len(s) \in Nat /\ DOMAIN s = 1..Len(s)
    OBVIOUS
  <1>2. IsFiniteSet(1..Len(s)) /\ Cardinality(1..Len(s)) = Len(s)
    BY <1>1, FS_Interval
  <1>3. s \in [1..Len(s) -> Range(s)]
    BY <1>1 DEF Range
  <1>4. s \in Bijection(1..Len(s), Range(s))
    BY <1>1, <1>3 DEF Bijection, Injection, Surjection, IsInjective, Range, listedOnce
  <1>5. ExistsBijection(1..Len(s), Range(s))
    BY <1>4 DEF ExistsBijection
  <1>6. QED
    BY <1>2, <1>5, FS_Bijection

\* Two nodes that list everybody else online have lists of the same length.
LEMMA SameLength ==
    ASSUME NEW s \in Seq(Nodes), listedOnce(s), NEW t \in Seq(Nodes), listedOnce(t),
           NEW O, NEW p \in O, NEW q \in O,
           \A x : Contains(s, x) <=> x \in O \ {p}, \A x : Contains(t, x) <=> x \in O \ {q}
    PROVE  Len(s) = Len(t)
  <1>1. Range(s) = O \ {p} /\ Range(t) = O \ {q}
    <2>1. \A x : Contains(s, x) <=> x \in Range(s)
      BY DEF Contains, Range
    <2>2. \A x : Contains(t, x) <=> x \in Range(t)
      BY DEF Contains, Range
    <2>3. QED
      BY <2>1, <2>2
  <1>2. O = Range(s) \cup {p} /\ O = Range(t) \cup {q} /\ p \notin Range(s) /\ q \notin Range(t)
    BY <1>1
  <1>3. Cardinality(O) = Len(s) + 1
    <2>1. PICK R : R = Range(s) /\ IsFiniteSet(R) /\ Cardinality(R) = Len(s)
      BY ListLength
    <2>2. Cardinality(R \cup {p}) = Cardinality(R) + 1
      BY <1>2, <2>1, FS_AddElement
    <2>3. QED
      BY <1>2, <2>1, <2>2
  <1>4. Cardinality(O) = Len(t) + 1
    <2>1. PICK R : R = Range(t) /\ IsFiniteSet(R) /\ Cardinality(R) = Len(t)
      BY ListLength
    <2>2. Cardinality(R \cup {q}) = Cardinality(R) + 1
      BY <1>2, <2>1, FS_AddElement
    <2>3. QED
      BY <1>2, <2>1, <2>2
  <1>5. Len(s) \in Nat /\ Len(t) \in Nat
    OBVIOUS
  <1>6. QED
    BY <1>3, <1>4, <1>5

\* The first of a list, and the others.
LEMMA HeadTail ==
    ASSUME NEW s \in Seq(Nodes), s # << >>
    PROVE  /\ Tail(s) \in Seq(Nodes)
           /\ \A x : Contains(s, x) <=> x = Head(s) \/ Contains(Tail(s), x)
  <1>1. /\ Tail(s) \in Seq(Nodes) /\ Len(Tail(s)) = Len(s) - 1 /\ Len(s) \in Nat \ {0}
        /\ \A i \in 1..(Len(s) - 1) : Tail(s)[i] = s[i + 1]
        /\ Head(s) = s[1]
    OBVIOUS
  <1>2. ASSUME NEW x, NEW i \in 1..Len(s), s[i] = x
        PROVE  x = Head(s) \/ Contains(Tail(s), x)
    <2>1. CASE i = 1
      BY <1>1, <1>2, <2>1
    <2>2. CASE i # 1
      <3>1. i - 1 \in 1..(Len(s) - 1) /\ (i - 1) + 1 = i
        BY <1>1, <2>2
      <3>2. Tail(s)[i - 1] = x
        BY <1>1, <1>2, <3>1
      <3>3. QED
        BY <1>1, <3>1, <3>2 DEF Contains
    <2>3. QED
      BY <2>1, <2>2
  <1>3. ASSUME NEW x, NEW i \in 1..(Len(s) - 1), Tail(s)[i] = x
        PROVE  Contains(s, x)
    <2>1. i + 1 \in 1..Len(s) /\ s[i + 1] = x
      BY <1>1, <1>3
    <2>2. QED
      BY <2>1 DEF Contains
  <1>4. Contains(s, Head(s))
    <2>1. 1 \in 1..Len(s)
      BY <1>1
    <2>2. QED
      BY <1>1, <2>1 DEF Contains
  <1>5. QED
    BY <1>1, <1>2, <1>3, <1>4 DEF Contains

\* The calls of a loop over peers.
LEMMA NextTodo ==
    ASSUME ListsInv, NEW n \in Nodes, calling(n), phase[n] \notin {"peerList", "blocks"}
    PROVE  /\ nextCall(n).start = job[n].start
           /\ nextCall(n).peersToReceive = job[n].peersToReceive
           /\ \A x : Contains(job[n].todo, x) <=> x = callee(n) \/ Contains(nextCall(n).todo, x)
  <1>1. PICK j \in Job : j = job[n]
    BY DEF ListsInv, TypeOK
  <1>2. PICK s \in Seq(Nodes) : s = j.todo
    BY DEF Job
  <1>3. s # << >>
    BY <1>1, <1>2, Callee
  <1>4. nextCall(n) = [j EXCEPT !.todo = Tail(s)] /\ callee(n) = Head(s)
    BY <1>1, <1>2 DEF nextCall, callee
  <1>5. Tail(s) \in Seq(Nodes)
    BY <1>3
  <1>6. /\ nextCall(n).todo = Tail(s) /\ nextCall(n).start = j.start
        /\ nextCall(n).peersToReceive = j.peersToReceive
    BY <1>4, <1>5 DEF Job
  <1>7. QED
    BY <1>1, <1>2, <1>3, <1>4, <1>6, HeadTail

\* Who is trusted by everybody.
LEMMA HostTrusted ==
    Steady => host \in Nodes /\ trusted(host)
  BY DEF Steady, host

\* Whom a starting or leaving node calls is neither, and answers if it runs.
LEMMA BusyCall ==
    ASSUME ListsInv, OnlineOK, NEW n \in Nodes, busy(n), calling(n)
    PROVE  /\ callee(n) \in Nodes \ {n} /\ ~busy(callee(n))
           /\ listening(callee(n)) <=> online(callee(n))
           /\ online(callee(n)) => serves(callee(n))
           /\ phase[callee(n)] \in {"run", "broadcast", "off"}
  <1>1. callee(n) \in Nodes \ {n}
    BY Callee
  <1>2. ~busy(callee(n))
    BY <1>1 DEF OnlineOK
  <1>3. phase[callee(n)] \in {"run", "broadcast", "off"}
    BY <1>1, <1>2 DEF busy, starting, ListsInv, TypeOK, Phase
  <1>4. alive[callee(n)]
    BY <1>1, <1>3 DEF OnlineOK
  <1>5. QED
    BY <1>1, <1>2, <1>3, <1>4 DEF listening, online, serves

\* A step of the one node that starts or leaves.
LEMMA BusyFrame ==
    ASSUME OnlineOK, NEW n \in Nodes, n # host, host \in Nodes,
           \A q \in Nodes \ {n} : ~busy(q) /\ phase'[q] = phase[q],
           \A p \in Nodes \ {n}, q \in Nodes \ {n} :
               p # q => (Contains(peers'[p], q) <=> Contains(peers[p], q)),
           \A p \in Nodes : phase'[p] # "leaving" => alive'[p],
           busy(n)' => BusyOK(n)',
           ~busy(n)' => \A q \in Nodes \ {n} :
               /\ online(q) => (Contains(peers'[q], n) <=> online(n)')
               /\ online(n)' => (Contains(peers'[n], q) <=> online(q))
    PROVE  OnlineOK'
  <1>1. \A q \in Nodes \ {n} : ~busy(q)' /\ (online(q)' <=> online(q))
    BY DEF busy, starting, online
  <1>2. (\A p, q \in Nodes : busy(p) /\ busy(q) => p = q)'
    BY <1>1
  <1>3. (\A p \in Nodes : phase[p] # "leaving" => alive[p])'
    OBVIOUS
  <1>4. phase'[host] \in {"run", "broadcast"}
    BY DEF OnlineOK
  <1>5. ASSUME NEW p \in Nodes, NEW q \in Nodes, p # q, online(p)', ~busy(p)', ~busy(q)'
        PROVE  lists(p, q)' <=> online(q)'
    <2>1. CASE p # n /\ q # n
      <3>1. lists(p, q)' <=> lists(p, q)
        BY <1>5, <2>1 DEF lists
      <3>2. QED
        BY <1>1, <1>5, <2>1, <3>1 DEF OnlineOK
    <2>2. CASE q = n
      BY <1>1, <1>5, <2>2 DEF lists
    <2>3. CASE p = n
      BY <1>1, <1>5, <2>3 DEF lists
    <2>4. QED
      BY <2>1, <2>2, <2>3
  <1>6. (\A q \in Nodes : busy(q) => BusyOK(q))'
    BY <1>1
  <1>7. host' = host
    BY DEF host, trusted
  <1>8. QED
    BY <1>2, <1>3, <1>4, <1>5, <1>6, <1>7 DEF OnlineOK

\* A step of a node that neither starts nor leaves.
LEMMA IdleFrame ==
    ASSUME ListsInv, OnlineOK, host \in Nodes, NEW n \in Nodes,
           phase[n] \in {"run", "broadcast"}, phase'[n] \in {"run", "broadcast"},
           \A q \in Nodes \ {n} : phase'[q] = phase[q] /\ job'[q] = job[q],
           peers' = peers,
           \A p \in Nodes : phase'[p] # "leaving" => alive'[p]
    PROVE  OnlineOK'
  <1>1. \A q \in Nodes : (busy(q)' <=> busy(q)) /\ (online(q)' <=> online(q))
    BY DEF busy, starting, online
  <1>2. \A p, q \in Nodes : lists(p, q)' <=> lists(p, q)
    BY DEF lists
  <1>3. host' = host
    BY DEF host, trusted
  <1>4. phase'[host] \in {"run", "broadcast"}
    <2>1. CASE host \in Nodes \ {n}
      BY <2>1 DEF OnlineOK
    <2>2. CASE host = n
      BY <2>2
    <2>3. QED
      BY <2>1, <2>2 DEF OnlineOK
  <1>5. ASSUME NEW q \in Nodes, busy(q)'
        PROVE  BusyOK(q)'
    <2>1. busy(q) /\ q # n
      BY <1>1, <1>5 DEF busy, starting
    <2>2. BusyOK(q) /\ phase'[q] = phase[q] /\ job'[q] = job[q]
      BY <2>1 DEF OnlineOK
    <2>3. QED
      BY <1>1, <1>2, <1>3, <2>2 DEF BusyOK, lists
  <1>6. QED
    BY <1>1, <1>2, <1>3, <1>4, <1>5 DEF OnlineOK

\* Who is served stays alive unless it leaves.
LEMMA StaysAlive ==
    ASSUME ListsInv, OnlineOK, NEW n \in Nodes,
           \A q \in Nodes \ {n} : phase'[q] = phase[q],
           \/ alive' = alive /\ phase'[n] \in {phase[n], "leaving"}
           \/ alive' = alive /\ phase[n] # "leaving"
           \/ alive' = [alive EXCEPT ![n] = TRUE]
           \/ \E p \in Nodes \ {n} : /\ alive' = [alive EXCEPT ![p] = phase[p] # "leaving"]
                                     /\ phase'[n] = phase[n] \/ phase[n] # "leaving"
    PROVE  \A p \in Nodes : phase'[p] # "leaving" => alive'[p]
  <1>1. alive \in [Nodes -> BOOLEAN] /\ \A p \in Nodes : phase[p] # "leaving" => alive[p]
    BY DEF ListsInv, TypeOK, OnlineOK
  <1>2. QED
    BY <1>1

\* Steps of nodes that run.
LEMMA OnlineRun ==
    ASSUME Steady, ListsInv, OnlineOK, NEW n \in Nodes,
           \/ phase[n] = "broadcast" /\ (Refused(n) \/ Hang(n) \/ Released(n))
           \/ SendBlock(n) \/ StoreOwnBlock(n) \/ \E m \in Msgs : CreateBlock(n, m)
    PROVE  OnlineOK'
  <1>1. /\ phase \in [Nodes -> Phase] /\ job \in [Nodes -> Job]
        /\ alive \in [Nodes -> BOOLEAN]
    BY DEF ListsInv, TypeOK
  <1>2. phase[n] \in {"run", "broadcast"} /\ peers' = peers
    BY DEF Refused, Hang, Released, SendBlock, StoreOwnBlock, CreateBlock
  <1>3. phase' = phase \/ \E ph \in {"run", "broadcast"} : phase' = [phase EXCEPT ![n] = ph]
    BY DEF Refused, Hang, Released, SendBlock, StoreOwnBlock, CreateBlock
  <1>4. phase'[n] \in {"run", "broadcast"} /\ \A q \in Nodes \ {n} : phase'[q] = phase[q]
    BY <1>1, <1>2, <1>3
  <1>5. \E j : job' = [job EXCEPT ![n] = j]
    <2>1. CASE Hang(n)
      <3>1. job' = [job EXCEPT ![n] = [job[n] EXCEPT !.hung = TRUE]]
        BY <2>1 DEF Hang
      <3>2. QED
        BY <3>1
    <2>2. CASE ~Hang(n)
      BY <2>2 DEF Refused, Released, SendBlock, StoreOwnBlock, CreateBlock
    <2>3. QED
      BY <2>1, <2>2
  <1>6. \A q \in Nodes \ {n} : job'[q] = job[q]
    BY <1>1, <1>5
  <1>7. \A p \in Nodes : phase'[p] # "leaving" => alive'[p]
    <2>1. CASE SendBlock(n)
      <3>1. calling(n) /\ served(callee(n))
        BY <2>1 DEF SendBlock, answers
      <3>2. callee(n) \in Nodes \ {n}
        BY <3>1, Callee
      <3>3. phase[n] # "leaving"
        BY <1>2
      <3>4. QED
        BY <1>4, <3>1, <3>2, <3>3, StaysAlive DEF served
    <2>2. CASE ~SendBlock(n)
      <3>1. alive' = alive
        BY <2>2 DEF Refused, Hang, Released, StoreOwnBlock, CreateBlock
      <3>2. QED
        BY <1>2, <1>4, <3>1, StaysAlive
    <2>3. QED
      BY <2>1, <2>2
  <1>8. QED
    BY <1>2, <1>4, <1>6, <1>7, HostTrusted, IdleFrame

\* A node starts, or begins to leave.
LEMMA OnlineBegin ==
    ASSUME Steady, ListsInv, OnlineOK, NEW n \in Nodes, Start(n) \/ Exit(n)
    PROVE  OnlineOK'
  <1>1. /\ phase \in [Nodes -> Phase] /\ job \in [Nodes -> Job]
        /\ alive \in [Nodes -> BOOLEAN] /\ peers \in [Nodes -> Seq(Nodes)]
    BY DEF ListsInv, TypeOK
  <1>2. host \in Nodes /\ trusted(host) /\ OneAtATime
    BY HostTrusted DEF Steady
  <1>3. n # host
    BY <1>2 DEF Start, Exit, trusted, OnlineOK
  <1>4. \A q \in Nodes \ {n} : ~busy(q)
    BY <1>2 DEF Start, Exit, calm, busy
  <1>5. phase' = [phase EXCEPT ![n] = "hosts"] \/ phase' = [phase EXCEPT ![n] = "leaving"]
    BY DEF Start, Exit
  <1>6. \A q \in Nodes \ {n} : phase'[q] = phase[q]
    BY <1>1, <1>5
  <1>7. busy(n)'
    BY <1>1, <1>5 DEF busy, starting
  <1>8. alive' = alive /\ phase[n] # "leaving"
    BY DEF Start, Exit
  <1>9. \A p \in Nodes : phase'[p] # "leaving" => alive'[p]
    BY <1>6, <1>8, StaysAlive
  <1>10. peers' = peers \/ peers' = [peers EXCEPT ![n] = << >>]
    BY DEF Start, Exit
  <1>11. \A q \in Nodes \ {n} : peers'[q] = peers[q]
    BY <1>1, <1>10
  <1>12. BusyOK(n)'
    <2>1. CASE Start(n)
      <3> DEFINE j == [NoJob EXCEPT !.todo = Hosts[n], !.tip = findTip(chain[n])]
      <3>1. j.todo = Hosts[n] /\ ~j.hung /\ j.start = 0
        BY DEF NoJob
      <3>2. job' = [job EXCEPT ![n] = j]
        BY <2>1 DEF Start
      <3> HIDE DEF j
      <3>3. job'[n] = j /\ peers'[n] = << >> /\ phase'[n] = "hosts"
        BY <1>1, <2>1, <3>2 DEF Start
      <3>4. \A q : ~Contains(<< >>, q)
        BY DEF Contains
      <3>5. Contains(Hosts[n], host) /\ host' = host
        BY <1>2, <1>3 DEF trusted, host
      <3>6. QED
        BY <3>1, <3>3, <3>4, <3>5 DEF BusyOK, lists
    <2>2. CASE Exit(n)
      <3> DEFINE j == [NoJob EXCEPT !.todo = peers[n]]
      <3>1. j.todo = peers[n] /\ ~j.hung
        BY DEF NoJob
      <3>2. job' = [job EXCEPT ![n] = j]
        BY <2>2 DEF Exit
      <3> HIDE DEF j
      <3>3. job'[n] = j /\ phase'[n] = "leaving" /\ phase[n] = "run"
        BY <1>1, <2>2, <3>2 DEF Exit
      <3>4. \A q \in Nodes \ {n} : Contains(peers[n], q) <=> online(q)
        <4>1. ~busy(n) /\ online(n)
          BY <3>3 DEF busy, starting, online
        <4>2. QED
          BY <1>4, <4>1 DEF OnlineOK, lists
      <3>5. QED
        BY <1>6, <3>1, <3>3, <3>4 DEF BusyOK, online
    <2>3. QED
      BY <2>1, <2>2
  <1>13. QED
    BY <1>2, <1>3, <1>4, <1>6, <1>7, <1>9, <1>11, <1>12, BusyFrame

\* While a node starts or leaves, no other does, and its host runs.
LEMMA BusyAlone ==
    ASSUME Steady, ListsInv, OnlineOK, NEW n \in Nodes, busy(n)
    PROVE  /\ host \in Nodes /\ n # host /\ online(host) /\ BusyOK(n) /\ ~job[n].hung
           /\ phase[n] \in {"hosts", "peerList", "blocks", "store", "all", "leaving"}
           /\ \A q \in Nodes \ {n} : ~busy(q)
           /\ phase \in [Nodes -> Phase] /\ job \in [Nodes -> Job]
           /\ alive \in [Nodes -> BOOLEAN] /\ peers \in [Nodes -> Seq(Nodes)]
  <1>1. host \in Nodes
    BY HostTrusted
  <1>2. ~busy(host) /\ online(host)
    BY <1>1 DEF OnlineOK, busy, starting, online
  <1>3. BusyOK(n) /\ ~job[n].hung
    BY DEF OnlineOK, BusyOK
  <1>4. \A q \in Nodes \ {n} : ~busy(q)
    BY DEF OnlineOK
  <1>5. phase[n] \in {"hosts", "peerList", "blocks", "store", "all", "leaving"}
    BY DEF busy, starting
  <1>6. QED
    BY <1>1, <1>2, <1>3, <1>4, <1>5 DEF ListsInv, TypeOK

\* Nothing gets lost in a steady network.
LEMMA NoLoss ==
    ASSUME Steady, ListsInv
    PROVE  ~loseMessage
  BY DEF Steady, ListsInv, TypeOK, loseMessage

\* Somebody a starting or leaving node calls does not run.
LEMMA OnlineFailedCall ==
    ASSUME Steady, ListsInv, OnlineOK, NEW n \in Nodes, busy(n),
           Refused(n) \/ Hang(n) \/ Released(n)
    PROVE  OnlineOK'
  <1>1. /\ host \in Nodes /\ n # host /\ online(host) /\ BusyOK(n) /\ ~job[n].hung
        /\ phase[n] \in {"hosts", "peerList", "blocks", "store", "all", "leaving"}
        /\ \A q \in Nodes \ {n} : ~busy(q)
        /\ job \in [Nodes -> Job]
    BY BusyAlone
  <1>2. ASSUME Hang(n)
        PROVE  FALSE
    BY <1>2, BusyCall DEF Hang
  <1>3. ~Released(n)
    BY <1>1 DEF Released
  <1>4. /\ Refused(n) /\ calling(n) /\ ~listening(callee(n))
        /\ job' = [job EXCEPT ![n] = missedCall(n)]
        /\ phase' = phase /\ peers' = peers /\ alive' = alive
    BY <1>2, <1>3 DEF Refused
  <1>5. ~online(callee(n))
    BY <1>4, BusyCall
  <1>6. PICK j : /\ j = missedCall(n) /\ j.hung = job[n].hung /\ j.first = job[n].first
                 /\ j.todo = nextCall(n).todo /\ j.start = nextCall(n).start
                 /\ j.peersToReceive = nextCall(n).peersToReceive
    BY <1>4, MissedCall
  <1>7. job'[n] = j
    BY <1>1, <1>4, <1>6
  <1>8. phase[n] # "peerList"
    <2>1. SUFFICES ASSUME phase[n] = "peerList" PROVE FALSE
      OBVIOUS
    <2>2. callee(n) = job[n].first /\ callee(n) \in Nodes
      BY <1>4, <2>1, Callee DEF callee
    <2>3. QED
      BY <1>1, <1>5, <2>1, <2>2 DEF BusyOK
  <1>9. phase[n] # "blocks" =>
            /\ j.start = job[n].start /\ j.peersToReceive = job[n].peersToReceive
            /\ \A x : Contains(job[n].todo, x) <=> x = callee(n) \/ Contains(j.todo, x)
    BY <1>4, <1>6, <1>8, NextTodo
  <1>10. host' = host /\ \A q \in Nodes : (online(q)' <=> online(q))
    BY <1>4 DEF host, trusted, online
  <1>11. BusyOK(n)'
    <2>1. CASE phase[n] = "hosts"
      BY <1>1, <1>4, <1>5, <1>6, <1>7, <1>9, <1>10, <2>1 DEF BusyOK, lists
    <2>2. CASE phase[n] \in {"blocks", "store"}
      BY <1>1, <1>4, <1>6, <1>7, <1>10, <2>2 DEF BusyOK, lists
    <2>3. CASE phase[n] \in {"all", "leaving"}
      BY <1>1, <1>4, <1>5, <1>6, <1>7, <1>9, <1>10, <2>3 DEF BusyOK, lists
    <2>4. QED
      BY <1>1, <1>8, <2>1, <2>2, <2>3
  <1>12. \A p \in Nodes : phase'[p] # "leaving" => alive'[p]
    BY <1>4 DEF OnlineOK
  <1>13. busy(n)'
    BY <1>4 DEF busy, starting
  <1>14. QED
    BY <1>1, <1>4, <1>11, <1>12, <1>13, BusyFrame

\* The lists of those who list everybody else, the starting node included.
LEMMA WholeLists ==
    ASSUME ListsInv, OnlineOK, NEW n \in Nodes, online(n), \A q \in Nodes \ {n} : ~busy(q),
           NEW p \in Nodes \ {n}, online(p), NEW s \in Seq(Nodes), listedOnce(s),
           \A x : Contains(s, x) <=> Contains(peers[p], x) \/ x = n,
           NEW O, O = {x \in Nodes : online(x)}
    PROVE  \A x : Contains(s, x) <=> x \in O \ {p}
  <1>1. peers[p] \in Seq(Nodes) /\ ~Contains(peers[p], p)
    BY DEF ListsInv, TypeOK, ListsWellFormed
  <1>2. \A x : Contains(peers[p], x) => x \in Nodes
    BY <1>1 DEF Contains
  <1>3. \A x \in Nodes \ {n, p} : Contains(peers[p], x) <=> online(x)
    BY DEF OnlineOK, lists
  <1>4. QED
    BY <1>1, <1>2, <1>3

\* CONNECT.
LEMMA OnlineConnect ==
    ASSUME Steady, ListsInv, OnlineOK, NEW n \in Nodes, SendConnect(n)
    PROVE  OnlineOK'
  <1>1. busy(n) /\ phase[n] \in {"hosts", "all"} /\ calling(n) /\ serves(callee(n))
        /\ served(callee(n))
    BY DEF SendConnect, answers, busy, starting
  <1>2. /\ host \in Nodes /\ n # host /\ BusyOK(n) /\ ~job[n].hung
        /\ \A q \in Nodes \ {n} : ~busy(q)
        /\ job \in [Nodes -> Job] /\ peers \in [Nodes -> Seq(Nodes)]
    BY <1>1, BusyAlone
  <1>3. PICK p \in Nodes \ {n} : p = callee(n) /\ ~busy(p) /\ online(p)
    BY <1>1, BusyCall DEF serves
  <1> DEFINE list == addPeer(peers[p], n)
             own == addPeer(peers[n], p)
  <1>4. /\ list \in Seq(Nodes) /\ listedOnce(list)
        /\ \A x : Contains(list, x) <=> Contains(peers[p], x) \/ x = n
        /\ \A x : Contains(own, x) <=> Contains(peers[n], x) \/ x = p
    BY <1>2, AddPeer DEF ListsInv, ListsWellFormed
  <1> DEFINE hash == ConnectionMessage(n).lastBlockHash
             missing == countBlocksAfterHash(chain[p], hash)
             known == Head(peers'[n]) = p /\ (hash = NoHash \/ hasBlock(chain[p], hash))
             k == [nextCall(n) EXCEPT !.peersToReceive = Len(list),
                                      !.missing = missing, !.covered = known]
  <1>5. /\ phase' = phase /\ peers' = [peers EXCEPT ![p] = list, ![n] = own]
        /\ job' = [job EXCEPT ![n] = k]
    BY <1>3, NoLoss DEF SendConnect, ConnectionMessageResponse
  <1>6. /\ k.peersToReceive = Len(list) /\ k.start = nextCall(n).start
        /\ k.todo = nextCall(n).todo /\ k.hung = nextCall(n).hung
    <2> HIDE DEF list, missing, known
    <2>1. nextCall(n) \in Job
      BY <1>1, NextCall
    <2>2. QED
      BY <2>1 DEF Job
  <1> HIDE DEF k, list, own, hash, missing, known
  <1>7. /\ peers'[p] = list /\ peers'[n] = own /\ job'[n] = k
        /\ \A q \in Nodes \ {n, p} : peers'[q] = peers[q]
    BY <1>2, <1>3, <1>5
  <1>8. /\ k.start = job[n].start /\ ~k.hung
        /\ \A x : Contains(job[n].todo, x) <=> x = p \/ Contains(k.todo, x)
    BY <1>1, <1>2, <1>3, <1>6, NextCall, NextTodo
  <1>9. host' = host /\ \A q \in Nodes : (online(q)' <=> online(q))
    BY <1>5 DEF host, trusted, online
  <1>10. BusyOK(n)'
    <2>1. CASE phase[n] = "hosts"
      <3>1. \A q \in Nodes : lists(n, q)' => online(q)'
        BY <1>2, <1>3, <1>4, <1>7, <1>9, <2>1 DEF BusyOK, lists
      <3>2. k.start = 0 /\ (Contains(k.todo, host) \/ Contains(own, host))
        BY <1>2, <1>4, <1>8, <2>1 DEF BusyOK, lists
      <3>3. ASSUME NEW q \in Nodes, Contains(own, q)
            PROVE  Contains(peers'[q], n) /\ Len(peers'[q]) = k.peersToReceive
        <4>1. CASE q = p
          BY <1>4, <1>6, <1>7, <4>1
        <4>2. CASE q # p
          <5>1. Contains(peers[n], q) /\ q # n
            BY <1>4, <3>3, <4>2 DEF ListsInv, ListsWellFormed
          <5>2. online(q) /\ Contains(peers[q], n) /\ peers'[q] = peers[q]
            BY <1>2, <1>7, <2>1, <4>2, <5>1 DEF BusyOK, lists
          <5>3. PICK s \in Seq(Nodes) : s = peers[q] /\ listedOnce(s)
            BY <1>2 DEF ListsInv, ListsWellFormed
          <5>4. online(n)
            BY <2>1 DEF online
          <5>5. PICK O : O = {x \in Nodes : online(x)}
            OBVIOUS
          <5>6. \A x : Contains(s, x) <=> x \in O \ {q}
            <6>1. \A x : Contains(s, x) <=> Contains(peers[q], x) \/ x = n
              BY <5>2, <5>3
            <6>2. q \in Nodes \ {n} /\ \A x \in Nodes \ {n} : ~busy(x)
              BY <1>2, <5>1
            <6>3. QED
              BY <5>2, <5>3, <5>4, <5>5, <6>1, <6>2, WholeLists
          <5>7. \A x : Contains(list, x) <=> x \in O \ {p}
            <6>1. \A x \in Nodes \ {n} : ~busy(x)
              BY <1>2
            <6>2. PICK l \in Seq(Nodes) : /\ l = list /\ listedOnce(l)
                          /\ \A x : Contains(l, x) <=> Contains(peers[p], x) \/ x = n
              BY <1>4
            <6>3. \A x : Contains(l, x) <=> x \in O \ {p}
              BY <1>3, <5>4, <5>5, <6>1, <6>2, WholeLists
            <6>4. QED
              BY <6>2, <6>3
          <5>8. Len(s) = Len(list)
            BY <1>3, <1>4, <5>2, <5>3, <5>5, <5>6, <5>7, SameLength
          <5>9. QED
            BY <1>6, <5>2, <5>3, <5>8
        <4>3. QED
          BY <4>1, <4>2
      <3>4. QED
        BY <1>5, <1>7, <1>8, <1>9, <2>1, <3>1, <3>2, <3>3 DEF BusyOK, lists
    <2>2. CASE phase[n] = "all"
      <3>1. \A q \in Nodes \ {n} : Contains(own, q) <=> online(q)
        BY <1>2, <1>3, <1>4, <2>2 DEF BusyOK, lists
      <3>2. ASSUME NEW q \in Nodes \ {n}, online(q)
            PROVE  Contains(k.todo, q) \/ Contains(peers'[q], n)
        <4>1. Contains(job[n].todo, q) \/ Contains(peers[q], n)
          BY <1>2, <2>2, <3>2 DEF BusyOK, lists
        <4>2. QED
          BY <1>4, <1>7, <1>8, <4>1
      <3>3. QED
        BY <1>5, <1>7, <1>8, <1>9, <2>2, <3>1, <3>2 DEF BusyOK, lists
    <2>3. QED
      BY <1>1, <2>1, <2>2
  <1>11. \A x \in Nodes \ {n}, y \in Nodes \ {n} :
             x # y => (Contains(peers'[x], y) <=> Contains(peers[x], y))
    BY <1>4, <1>7
  <1>12. \A x \in Nodes : phase'[x] # "leaving" => alive'[x]
    BY <1>1, <1>3, <1>5, StaysAlive DEF served
  <1>13. busy(n)'
    BY <1>1, <1>5 DEF busy, starting
  <1>14. QED
    BY <1>2, <1>5, <1>10, <1>11, <1>12, <1>13, BusyFrame

\* PEER_LIST.
LEMMA OnlinePeerList ==
    ASSUME Steady, ListsInv, OnlineOK, NEW n \in Nodes, SendPeerList(n)
    PROVE  OnlineOK'
  <1>1. /\ busy(n) /\ phase[n] = "peerList" /\ calling(n) /\ serves(callee(n))
        /\ served(callee(n))
    BY DEF SendPeerList, answers, busy, starting
  <1>2. /\ host \in Nodes /\ n # host /\ BusyOK(n) /\ ~job[n].hung
        /\ \A q \in Nodes \ {n} : ~busy(q)
        /\ job \in [Nodes -> Job] /\ peers \in [Nodes -> Seq(Nodes)]
    BY <1>1, BusyAlone
  <1>3. PICK p \in Nodes \ {n} : p = callee(n) /\ p = job[n].first /\ online(p)
    BY <1>1, BusyCall DEF callee, serves
  <1> DEFINE q == PeerListMessage(n)
             page == peerPage(peers[p], q, n)
             own == FoldLeft(addPeer, peers[n], page)
  <1>4. /\ q.start = job[n].start /\ q.count = PEERS_BATCH_SIZE
        /\ job[n].start \in Nat /\ PEERS_BATCH_SIZE \in Nat
    BY <1>2, MembershipAssumption DEF PeerListMessage, Job
  <1>5. /\ page \in Seq(Nodes)
        /\ \A x : Contains(page, x) <=>
               /\ x # n
               /\ \E i \in DOMAIN peers[p] :
                      i > job[n].start /\ i <= job[n].start + PEERS_BATCH_SIZE /\ peers[p][i] = x
    <2> HIDE DEF q
    <2>1. peers[p] \in Seq(Nodes) /\ q.start \in Nat /\ q.count \in Nat
      BY <1>2, <1>4
    <2>2. QED
      BY <1>4, <2>1, PeerPage
  <1> HIDE DEF page, q
  <1>6. \A x : Contains(own, x) <=> Contains(peers[n], x) \/ Contains(page, x)
    BY <1>2, <1>5, AddPeers
  <1>7. /\ phase' = phase /\ peers' = [peers EXCEPT ![n] = own]
        /\ job' = [job EXCEPT ![n] = nextCall(n)]
    BY <1>3, NoLoss DEF SendPeerList, page, q
  <1> HIDE DEF own
  <1>8. PICK j : /\ j = nextCall(n) /\ ~j.hung /\ j.first = p
                 /\ j.start = job[n].start + PEERS_BATCH_SIZE
                 /\ j.peersToReceive = job[n].peersToReceive
    <2>1. PICK k \in Job : k = job[n]
      BY <1>2
    <2>2. nextCall(n) = [k EXCEPT !.start = @ + PEERS_BATCH_SIZE]
      BY <1>1, <2>1 DEF nextCall
    <2>3. /\ nextCall(n).hung = k.hung /\ nextCall(n).first = k.first
          /\ nextCall(n).start = k.start + PEERS_BATCH_SIZE
          /\ nextCall(n).peersToReceive = k.peersToReceive
      BY <2>2 DEF Job
    <2>4. QED
      BY <1>2, <1>3, <2>1, <2>3
  <1>9. peers'[n] = own /\ job'[n] = j /\ \A x \in Nodes \ {n} : peers'[x] = peers[x]
    BY <1>2, <1>7, <1>8
  <1>10. \A x \in Nodes : online(x)' <=> online(x)
    BY <1>7 DEF online
  <1>11. BusyOK(n)'
    <2>1. \A x \in Nodes : Contains(own, x) => online(x)
      <3>1. \A x \in Nodes : Contains(peers[n], x) => online(x)
        BY <1>1, <1>2 DEF BusyOK, lists
      <3>2. ASSUME NEW x \in Nodes, Contains(page, x)
            PROVE  online(x)
        <4>1. x # n /\ Contains(peers[p], x)
          <5>1. x # n /\ \E i \in DOMAIN peers[p] : peers[p][i] = x
            BY <1>5, <3>2
          <5>2. DOMAIN peers[p] = 1 .. Len(peers[p])
            BY <1>2
          <5>3. QED
            BY <5>1, <5>2 DEF Contains
        <4>2. x # p
          BY <4>1 DEF ListsInv, ListsWellFormed
        <4>3. QED
          BY <1>2, <1>3, <4>1, <4>2 DEF OnlineOK, lists
      <3>3. QED
        BY <1>6, <3>1, <3>2
    <2>2. Contains(own, p) /\ Len(peers'[p]) = j.peersToReceive
      BY <1>1, <1>2, <1>3, <1>6, <1>8, <1>9 DEF BusyOK, lists
    <2>3. ASSUME NEW i \in DOMAIN peers[p], i <= j.start, peers[p][i] # n
          PROVE  Contains(own, peers[p][i])
      <3>1. i \in Nat
        BY <1>2
      <3>2. CASE i <= job[n].start
        BY <1>1, <1>2, <1>3, <1>6, <2>3, <3>2 DEF BusyOK, lists
      <3>3. CASE i > job[n].start
        BY <1>5, <1>6, <1>8, <2>3, <3>3
      <3>4. QED
        BY <1>4, <3>1, <3>2, <3>3
    <2>4. phase'[n] = "peerList"
      BY <1>1, <1>7
    <2>5. peers'[p] = peers[p]
      BY <1>9
    <2>6. QED
      BY <1>8, <1>9, <1>10, <2>1, <2>2, <2>3, <2>4, <2>5 DEF BusyOK, lists
  <1>12. \A x \in Nodes : phase'[x] # "leaving" => alive'[x]
    BY <1>1, <1>3, <1>7, StaysAlive DEF served
  <1>13. busy(n)'
    BY <1>1, <1>7 DEF busy, starting
  <1>14. QED
    BY <1>2, <1>7, <1>9, <1>11, <1>12, <1>13, BusyFrame

\* The other steps of a start.
LEMMA OnlineNextPart ==
    ASSUME Steady, ListsInv, OnlineOK, NEW n \in Nodes,
           \/ HostsConnected(n) \/ PeersReceived(n) \/ SendBlockRange(n)
           \/ BlocksReceived(n) \/ StoreNewBlocks(n)
    PROVE  OnlineOK'
  <1>1. busy(n) /\ peers' = peers
    BY DEF HostsConnected, PeersReceived, SendBlockRange, BlocksReceived, StoreNewBlocks,
           busy, starting
  <1>2. /\ host \in Nodes /\ n # host /\ online(host) /\ BusyOK(n) /\ ~job[n].hung
        /\ \A q \in Nodes \ {n} : ~busy(q)
        /\ phase \in [Nodes -> Phase] /\ job \in [Nodes -> Job] /\ peers \in [Nodes -> Seq(Nodes)]
    BY <1>1, BusyAlone
  <1>3. PICK ph \in {"store", "peerList", "blocks", "all"} : phase' = [phase EXCEPT ![n] = ph]
    <2>1. CASE SendBlockRange(n)
      <3>1. phase[n] = "blocks" /\ phase' = phase
        BY <2>1 DEF SendBlockRange
      <3>2. QED
        BY <1>2, <3>1
    <2>2. CASE ~SendBlockRange(n)
      BY <2>2 DEF HostsConnected, PeersReceived, BlocksReceived, StoreNewBlocks
    <2>3. QED
      BY <2>1, <2>2
  <1>4. phase'[n] = ph /\ \A q \in Nodes \ {n} : phase'[q] = phase[q]
    BY <1>2, <1>3
  <1>5. \A q \in Nodes : online(q)' <=> online(q)
    BY <1>1, <1>4 DEF online, busy, starting
  <1>6. busy(n)'
    BY <1>4 DEF busy, starting
  <1>7. \A p \in Nodes : phase'[p] # "leaving" => alive'[p]
    <2>1. phase[n] # "leaving"
      BY DEF HostsConnected, PeersReceived, SendBlockRange, BlocksReceived, StoreNewBlocks
    <2>2. CASE SendBlockRange(n)
      <3>1. calling(n) /\ served(callee(n))
        BY <2>2 DEF SendBlockRange, answers
      <3>2. callee(n) \in Nodes \ {n}
        BY <3>1, Callee
      <3>3. QED
        BY <1>4, <2>1, <3>1, <3>2, StaysAlive DEF served
    <2>3. CASE ~SendBlockRange(n)
      <3>1. alive' = alive
        BY <2>3 DEF HostsConnected, PeersReceived, BlocksReceived, StoreNewBlocks
      <3>2. QED
        BY <1>4, <2>1, <3>1, StaysAlive
    <2>4. QED
      BY <2>2, <2>3
  <1>8. BusyOK(n)'
    <2>1. CASE HostsConnected(n)
      <3>1. phase[n] = "hosts" /\ job[n].todo = << >>
        BY <2>1 DEF HostsConnected, calling
      <3>2. Contains(peers[n], host)
        BY <1>2, <3>1 DEF BusyOK, lists, Contains
      <3>3. peers[n] # << >> /\ peers[n] \in Seq(Nodes)
        BY <1>2, <3>2 DEF Contains
      <3>4. PICK p \in Nodes : p = Head(peers[n]) /\ Contains(peers[n], p)
        BY <3>3, HeadTail
      <3>5. phase'[n] = "peerList" /\ job' = [job EXCEPT ![n] = [job[n] EXCEPT !.first = p]]
        BY <1>2, <2>1, <3>3, <3>4 DEF HostsConnected
      <3>6. PICK j : /\ job'[n] = j /\ j.first = p /\ ~j.hung /\ j.start = 0
                     /\ j.peersToReceive = job[n].peersToReceive
        <4>1. PICK k \in Job : k = job[n] /\ k.start = 0
          BY <1>2, <3>1 DEF BusyOK
        <4>2. job'[n] = [k EXCEPT !.first = p]
          BY <1>2, <3>5, <4>1
        <4>3. QED
          BY <1>2, <4>1, <4>2 DEF Job
      <3>7. \A i \in DOMAIN peers[p] : ~(i <= 0)
        BY <1>2
      <3>8. QED
        BY <1>1, <1>2, <1>5, <3>1, <3>4, <3>5, <3>6, <3>7 DEF BusyOK, lists
    <2>2. CASE PeersReceived(n)
      <3>1. phase[n] = "peerList" /\ ~calling(n) /\ phase'[n] = "blocks"
        BY <1>2, <2>2 DEF PeersReceived
      <3>2. PICK p \in Nodes \ {n} : p = job[n].first /\ Contains(peers[n], p)
        BY <1>2, <3>1 DEF BusyOK, lists, ListsInv, JobOK
      <3>3. online(p)
        BY <1>2, <3>1, <3>2 DEF BusyOK, lists
      <3>4. \A i \in DOMAIN peers[p] : i <= job[n].start
        <4>1. ~(job[n].start < job[n].peersToReceive)
          BY <3>1 DEF calling
        <4>2. Len(peers[p]) = job[n].peersToReceive /\ job[n].start \in Nat
          BY <1>2, <3>1, <3>2 DEF BusyOK, Job
        <4>3. QED
          BY <1>2, <4>1, <4>2
      <3>5. ASSUME NEW q \in Nodes \ {n}
            PROVE  Contains(peers[n], q) <=> online(q)
        <4>1. CASE q = p
          BY <3>2, <3>3, <4>1
        <4>2. CASE q # p
          <5>1. Contains(peers[p], q) <=> online(q)
            BY <1>2, <3>2, <3>3, <4>2 DEF OnlineOK, lists
          <5>2. Contains(peers[p], q) => Contains(peers[n], q)
            <6>1. \A i \in DOMAIN peers[p] : peers[p][i] # n => Contains(peers[n], peers[p][i])
              BY <1>2, <3>1, <3>2, <3>4 DEF BusyOK, lists
            <6>2. DOMAIN peers[p] = 1..Len(peers[p])
              BY <1>2
            <6>3. QED
              BY <6>1, <6>2 DEF Contains
          <5>3. QED
            BY <1>2, <3>1, <5>1, <5>2 DEF BusyOK, lists
        <4>3. QED
          BY <4>1, <4>2
      <3>6. ~job'[n].hung
        <4>1. job' = [job EXCEPT ![n] = [job[n] EXCEPT !.start = 0]]
          BY <2>2 DEF PeersReceived
        <4>2. PICK k \in Job : k = job[n]
          BY <1>2
        <4>3. job'[n] = [k EXCEPT !.start = 0]
          BY <1>2, <4>1, <4>2
        <4>4. QED
          BY <1>2, <4>2, <4>3 DEF Job
      <3>7. QED
        BY <1>1, <1>5, <3>1, <3>5, <3>6 DEF BusyOK, lists
    <2>3. CASE SendBlockRange(n) \/ BlocksReceived(n)
      <3>1. phase[n] = "blocks" /\ ph \in {"blocks", "store"}
        BY <1>2, <1>4, <2>3 DEF SendBlockRange, BlocksReceived
      <3>2. ~job'[n].hung
        <4>1. CASE BlocksReceived(n)
          BY <1>2, <4>1 DEF BlocksReceived
        <4>2. CASE SendBlockRange(n)
          <5>1. calling(n)
            BY <4>2 DEF SendBlockRange, answers
          <5>2. PICK k \in Job : k = nextCall(n) /\ ~k.hung
            BY <1>2, <5>1, NextCall
          <5>3. PICK page : \/ job' = [job EXCEPT ![n] = k]
                            \/ job' = [job EXCEPT ![n] = [k EXCEPT !.newBlocks = @ \o page]]
            BY <4>2, <5>2 DEF SendBlockRange
          <5>4. job'[n] = k \/ job'[n] = [k EXCEPT !.newBlocks = @ \o page]
            BY <1>2, <5>3
          <5>5. [k EXCEPT !.newBlocks = @ \o page].hung = k.hung
            BY DEF Job
          <5>6. QED
            BY <5>2, <5>4, <5>5
        <4>3. QED
          BY <2>3, <4>1, <4>2
      <3>3. QED
        BY <1>1, <1>2, <1>4, <1>5, <3>1, <3>2 DEF BusyOK, lists
    <2>4. CASE StoreNewBlocks(n)
      <3>1. phase[n] = "store" /\ phase'[n] = "all"
        BY <1>2, <2>4 DEF StoreNewBlocks
      <3>2. ~job'[n].hung /\ job'[n].todo = peers[n]
        BY <1>2, <2>4 DEF StoreNewBlocks, NoJob
      <3>3. QED
        BY <1>1, <1>2, <1>5, <3>1, <3>2 DEF BusyOK, lists
    <2>5. QED
      BY <2>1, <2>2, <2>3, <2>4
  <1>9. QED
    BY <1>1, <1>2, <1>4, <1>6, <1>7, <1>8, BusyFrame

\* A node has started: everybody lists it.
LEMMA OnlineEndStart ==
    ASSUME Steady, ListsInv, OnlineOK, NEW n \in Nodes, Run(n)
    PROVE  OnlineOK'
  <1>1. phase[n] = "all" /\ job[n].todo = << >> /\ peers' = peers
    BY DEF Run, calling
  <1>2. busy(n)
    BY <1>1 DEF busy, starting
  <1>3. /\ host \in Nodes /\ n # host /\ BusyOK(n)
        /\ \A q \in Nodes \ {n} : ~busy(q)
        /\ phase \in [Nodes -> Phase]
    BY <1>2, BusyAlone
  <1>4. phase'[n] = "run" /\ \A q \in Nodes \ {n} : phase'[q] = phase[q]
    BY <1>3 DEF Run
  <1>5. \A p \in Nodes : phase'[p] # "leaving" => alive'[p]
    BY <1>4, StaysAlive DEF Run
  <1>6. \A x : ~Contains(job[n].todo, x)
    BY <1>1 DEF Contains
  <1>7. \A q \in Nodes \ {n} : /\ online(q) => Contains(peers[q], n)
                               /\ Contains(peers[n], q) <=> online(q)
    BY <1>1, <1>3, <1>6 DEF BusyOK, lists
  <1>8. ~busy(n)' /\ online(n)'
    BY <1>4 DEF busy, starting, online
  <1>9. QED
    BY <1>1, <1>3, <1>4, <1>5, <1>7, <1>8, BusyFrame

\* A peer is told that a node leaves, and forgets it.
LEMMA OnlineDisconnect ==
    ASSUME Steady, ListsInv, OnlineOK, NEW n \in Nodes, SendDisconnect(n)
    PROVE  OnlineOK'
  <1>1. phase[n] = "leaving" /\ calling(n)
    BY DEF SendDisconnect, answers
  <1>2. busy(n)
    BY <1>1 DEF busy
  <1>3. /\ host \in Nodes /\ n # host /\ BusyOK(n) /\ ~job[n].hung
        /\ \A q \in Nodes \ {n} : ~busy(q)
        /\ phase \in [Nodes -> Phase] /\ job \in [Nodes -> Job]
        /\ peers \in [Nodes -> Seq(Nodes)]
    BY <1>2, BusyAlone
  <1>4. PICK p \in Nodes \ {n} : p = callee(n)
    BY <1>1, Callee
  <1>5. PICK list : /\ list = removePeer(peers[p], n)
                    /\ \A q : Contains(list, q) <=> Contains(peers[p], q) /\ q # n
    <2>1. peers[p] \in Seq(Nodes) /\ listedOnce(peers[p])
      BY <1>3 DEF ListsInv, ListsWellFormed
    <2>2. QED
      BY <2>1, RemovePeer
  <1>6. PICK j : /\ j = nextCall(n) /\ ~j.hung
                 /\ \A x : Contains(job[n].todo, x) <=> x = p \/ Contains(j.todo, x)
    <2>1. PICK k : k = nextCall(n) /\ k.hung = job[n].hung
      BY <1>1, NextCall
    <2>2. phase[n] \notin {"peerList", "blocks"}
      BY <1>1
    <2>3. \A x : Contains(job[n].todo, x) <=> x = p \/ Contains(k.todo, x)
      BY <1>1, <1>4, <2>1, <2>2, NextTodo
    <2>4. QED
      BY <1>3, <2>1, <2>3
  <1>7. phase' = phase /\ peers' = [peers EXCEPT ![p] = list] /\ job' = [job EXCEPT ![n] = j]
    BY <1>4, <1>5, <1>6 DEF SendDisconnect
  <1>8. /\ peers'[p] = list /\ \A q \in Nodes \ {p} : peers'[q] = peers[q]
        /\ job'[n] = j
    BY <1>3, <1>7
  <1>9. \A q \in Nodes : online(q)' <=> online(q)
    BY <1>7 DEF online
  <1>10. \A p1 \in Nodes : phase'[p1] # "leaving" => alive'[p1]
    BY <1>4, <1>7, StaysAlive DEF SendDisconnect, answers, served
  <1>11. ASSUME NEW q \in Nodes \ {n}, online(q)
         PROVE  Contains(j.todo, q) \/ ~Contains(peers'[q], n)
    <2>1. CASE q = p
      BY <1>5, <1>8, <2>1
    <2>2. CASE q # p
      BY <1>1, <1>3, <1>6, <1>8, <1>11, <2>2 DEF BusyOK, lists
    <2>3. QED
      BY <2>1, <2>2
  <1>12. BusyOK(n)'
    BY <1>1, <1>6, <1>7, <1>8, <1>9, <1>11 DEF BusyOK, lists
  <1>13. \A a \in Nodes \ {n}, q \in Nodes \ {n} :
             a # q => (Contains(peers'[a], q) <=> Contains(peers[a], q))
    BY <1>5, <1>8
  <1>14. busy(n)'
    BY <1>1, <1>7 DEF busy, starting
  <1>15. QED
    BY <1>3, <1>7, <1>10, <1>12, <1>13, <1>14, BusyFrame

\* A node has left: nobody lists it.
LEMMA OnlineEndLeave ==
    ASSUME Steady, ListsInv, OnlineOK, NEW n \in Nodes, Left(n)
    PROVE  OnlineOK'
  <1>1. phase[n] = "leaving" /\ job[n].todo = << >>
    BY DEF Left, calling
  <1>2. busy(n)
    BY <1>1 DEF busy
  <1>3. /\ host \in Nodes /\ n # host /\ BusyOK(n)
        /\ \A q \in Nodes \ {n} : ~busy(q)
        /\ phase \in [Nodes -> Phase] /\ peers \in [Nodes -> Seq(Nodes)]
    BY <1>2, BusyAlone
  <1>4. /\ phase'[n] = "off" /\ \A q \in Nodes \ {n} : phase'[q] = phase[q]
        /\ \A q \in Nodes \ {n} : peers'[q] = peers[q]
    BY <1>3 DEF Left
  <1>5. \A p \in Nodes : phase'[p] # "leaving" => alive'[p]
    BY <1>4, StaysAlive DEF Left
  <1>6. \A x : ~Contains(job[n].todo, x)
    BY <1>1 DEF Contains
  <1>7. \A q \in Nodes \ {n} : online(q) => ~Contains(peers[q], n)
    BY <1>1, <1>3, <1>6 DEF BusyOK, lists
  <1>8. ~busy(n)' /\ ~online(n)'
    BY <1>4 DEF busy, starting, online
  <1>9. QED
    BY <1>3, <1>4, <1>5, <1>7, <1>8, BusyFrame

\* Only nodes that start, send or leave have failed calls.
LEMMA OnlineFailed ==
    ASSUME Steady, ListsInv, OnlineOK, NEW n \in Nodes, Refused(n) \/ Hang(n) \/ Released(n)
    PROVE  OnlineOK'
  <1>1. calling(n)
    BY DEF Refused, Hang, Released, ListsInv, JobOK
  <1>2. CASE busy(n)
    BY <1>2, OnlineFailedCall
  <1>3. CASE ~busy(n)
    <2>1. phase[n] \notin {"run", "off"}
      BY <1>1 DEF calling
    <2>2. phase[n] = "broadcast"
      BY <1>3, <2>1 DEF busy, starting, ListsInv, TypeOK, Phase
    <2>3. QED
      BY <2>2, OnlineRun
  <1>4. QED
    BY <1>2, <1>3

\* Every step keeps OnlineInv.
LEMMA OnlineStep ==
    ListsInv /\ OnlineInv /\ [Next]_vars => OnlineInv'
  <1>1. SUFFICES ASSUME ListsInv, OnlineOK, Steady, [Next]_vars PROVE OnlineOK'
    BY DEF OnlineInv, Steady, trusted
  <1>2. CASE UNCHANGED vars
    <2>1. phase' = phase /\ job' = job /\ peers' = peers /\ alive' = alive
      BY <1>2 DEF vars
    <2>2. host' = host
      BY DEF host, trusted
    <2>3. QED
      BY <1>1, <2>1, <2>2 DEF OnlineOK, BusyOK, busy, starting, online, lists
  <1>3. CASE Next
    <2>1. PICK n \in Nodes : \/ Start(n) \/ Exit(n) \/ Crash(n)
                             \/ \E m \in Msgs : CreateBlock(n, m)
                             \/ Step(n)
      BY <1>3 DEF Next
    <2>2. ~Crash(n) /\ ~Dropped(n)
      BY <1>1, NoLoss DEF Crash, Dropped, Steady, ListsInv, TypeOK
    <2>3. QED
      BY <1>1, <2>1, <2>2, OnlineFailed, OnlineRun, OnlineBegin, OnlineConnect,
         OnlinePeerList, OnlineNextPart, OnlineEndStart, OnlineDisconnect, OnlineEndLeave
      DEF Step
  <1>4. QED
    BY <1>1, <1>2, <1>3

\* It holds at the start.
LEMMA OnlineInit ==
    Init => OnlineInv
  <1>1. SUFFICES ASSUME Init, Steady PROVE OnlineOK
    BY DEF OnlineInv
  <1>2. host \in Nodes /\ host \in Running
    BY <1>1, HostTrusted DEF trusted
  <1>3. /\ \A n \in Nodes : phase[n] = IF n \in Running THEN "run" ELSE "off"
        /\ \A n \in Nodes : alive[n]
        /\ \A n \in Nodes \cap Running : peers[n] = Known[n]
    BY <1>1 DEF Init
  <1>4. \A n \in Nodes : ~busy(n) /\ (online(n) <=> n \in Running)
    BY <1>3 DEF busy, starting, online
  <1>5. \A n \in Running : \A q : Contains(Known[n], q) <=> q \in Running \ {n}
    <2>1. \A n \in Running : \A q : Contains(Known[n], q) <=> q \in Range(Known[n])
      <3>1. ASSUME NEW n \in Running
            PROVE  Known[n] \in Seq(Nodes)
        BY MembershipAssumption
      <3>2. QED
        BY <3>1 DEF Contains, Range
    <2>2. QED
      BY <1>1, <2>1 DEF Steady
  <1>6. QED
    BY <1>2, <1>3, <1>4, <1>5 DEF OnlineOK, lists

\* The peer lists of a steady network, while somebody starts or leaves too.
THEOREM OnlineAlways == Spec => [](ListsInv /\ OnlineInv)
  BY ListsInit, ListsStep, OnlineInit, OnlineStep, PTL DEF Spec

\* "/peers - Show list of online peers" is right in a steady network whenever
\* nobody starts or leaves: whatever the pages of the lists, every running node
\* has learned of everybody who came and forgotten everybody who went.
THEOREM PeersStayOnline == Spec => [](Steady => PeersAreOnline)
  <1>1. ASSUME ListsInv, OnlineInv, Steady,
               \A n \in Nodes : ~starting(n) /\ phase[n] # "leaving",
               NEW n \in Nodes, phase[n] # "off"
        PROVE  {peers[n][i] : i \in DOMAIN peers[n]} = {p \in Nodes \ {n} : phase[p] # "off"}
    <2>1. \A p \in Nodes \ {n} : Contains(peers[n], p) <=> phase[p] # "off"
      BY <1>1 DEF OnlineInv, OnlineOK, busy, online, lists
    <2>2. PICK s \in Seq(Nodes) : s = peers[n]
      BY <1>1 DEF ListsInv, TypeOK
    <2>3. ~Contains(s, n)
      BY <1>1, <2>2 DEF ListsInv, ListsWellFormed
    <2>4. \A x : Contains(s, x) <=> x \in {s[i] : i \in DOMAIN s}
      BY DEF Contains
    <2>5. \A x : Contains(s, x) => x \in Nodes
      BY DEF Contains
    <2>6. QED
      BY <2>1, <2>2, <2>3, <2>4, <2>5
  <1>2. ListsInv /\ OnlineInv => (Steady => PeersAreOnline)
    BY <1>1 DEF PeersAreOnline
  <1>3. QED
    BY <1>2, ListsInit, ListsStep, OnlineInit, OnlineStep, PTL DEF Spec
=============================================================================
