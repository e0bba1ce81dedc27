------------------------------ MODULE ListProofs ------------------------------
(***************************************************************************)
(* Proofs about LinkedList, for any finite set of nodes and any data: the  *)
(* pointers of list.c always make up a sequence of nodes, which are the    *)
(* ones that are allocated, and the operations on pointers are those of    *)
(* SeqList on what the nodes hold.                                         *)
(***************************************************************************)
EXTENDS MCTransfers, SequenceTheorems, FiniteSetTheorems, WellFoundedInduction, TLAPS

\* What makes a walk unique is an induction over its length, by the least element of a set
\* of places where two walks differ.
LEMMA LeastOf ==
    ASSUME NEW T \in SUBSET Nat, T # {}
    PROVE  \E x \in T : \A y \in T : x <= y
<1> DEFINE Less == OpToRel(<, Nat)
<1>1. IsWellFoundedOn(Less, Nat)
  BY NatLessThanWellFounded, Zenon
<1>2. \A x, y \in Nat : <<y, x>> \in Less <=> y < x
  BY DEF OpToRel
<1> HIDE DEF Less
<1>3. PICK x \in T : \A y \in T : ~(<<y, x>> \in Less)
  BY <1>1, WFMin
<1>4. \A y \in T : x \in Nat /\ y \in Nat /\ ~(y < x)
  BY <1>2, <1>3
<1> QED BY <1>3, <1>4

-----------------------------------------------------------------------------
(* The nodes of the list.                                                   *)

ListTypes ==
    /\ next \in [Node -> Node \cup {NULL}]
    /\ data \in [Node -> Data \cup {NULL}]
    /\ totalNode \in Nat

\* s is the list: it holds every node that is allocated, and no node twice.
Links(s) ==
    /\ s \in Seq(Node)
    /\ List!IsWalk(s)
    /\ \A j, k \in 1 .. Len(s) : s[j] = s[k] => j = k
    /\ used = {s[k] : k \in 1 .. Len(s)}
    /\ last = IF Len(s) = 0 THEN NULL ELSE s[Len(s)]
    /\ Len(s) <= totalNode

ListInv == ListTypes /\ \E s \in Seq(Node) : Links(s)

\* IsWalk, link by link.
LEMMA WalkLinks ==
    ASSUME NEW s \in Seq(Node)
    PROVE  /\ Len(s) \in Nat /\ DOMAIN s = 1 .. Len(s)
           /\ \A k \in 1 .. Len(s) : s[k] \in Node /\ s[k] # NULL
           /\ List!IsWalk(s) <=>
                 /\ first = IF Len(s) = 0 THEN NULL ELSE s[1]
                 /\ \A k \in 1 .. Len(s) : next[s[k]] = IF k = Len(s) THEN NULL ELSE s[k + 1]
<1>1. Len(s) \in Nat /\ DOMAIN s = 1 .. Len(s) /\ (s = <<>> <=> Len(s) = 0)
  BY LenProperties, EmptySeq
<1>2. \A k \in 1 .. Len(s) : s[k] \in Node
  BY ElementOfSeq
<1>3. \A k \in 1 .. Len(s) : s[k] # NULL
  BY <1>2, TransfersAssumption
<1> QED BY <1>1, <1>2, <1>3, Zenon DEF List!IsWalk

\* No walk is longer than another one.
LEMMA WalksAgree ==
    ASSUME NEW s \in Seq(Node), NEW t \in Seq(Node), List!IsWalk(s), List!IsWalk(t)
    PROVE  \A k \in 1 .. Len(s) : k <= Len(t) /\ s[k] = t[k]
<1>1. /\ Len(s) \in Nat /\ Len(t) \in Nat
      /\ \A k \in 1 .. Len(s) : s[k] \in Node /\ s[k] # NULL
      /\ \A k \in 1 .. Len(t) : t[k] \in Node /\ t[k] # NULL
      /\ first = IF Len(s) = 0 THEN NULL ELSE s[1]
      /\ first = IF Len(t) = 0 THEN NULL ELSE t[1]
      /\ \A k \in 1 .. Len(s) : next[s[k]] = IF k = Len(s) THEN NULL ELSE s[k + 1]
      /\ \A k \in 1 .. Len(t) : next[t[k]] = IF k = Len(t) THEN NULL ELSE t[k + 1]
  BY WalkLinks
<1> DEFINE Differ == {k \in 1 .. Len(s) : ~(k <= Len(t) /\ s[k] = t[k])}
<1>2. ASSUME Differ # {} PROVE FALSE
  <2>1. Differ \in SUBSET Nat
    BY <1>1
  <2>2. PICK m \in Differ : \A k \in Differ : m <= k
    BY <1>2, <2>1, LeastOf
  <2>3. m \in Nat /\ 1 <= m /\ m <= Len(s)
    BY <1>1
  <2>4. CASE m = 1
    <3>1. Len(s) # 0 /\ s[1] # NULL
      BY <1>1, <2>3
    <3>2. Len(t) # 0 /\ s[1] = t[1]
      BY <1>1, <3>1
    <3>3. 1 <= Len(t)
      BY <1>1, <3>2
    <3> QED BY <2>4, <3>2, <3>3
  <2>5. CASE m # 1
    <3>1. PICK p \in 1 .. Len(s) : p + 1 = m /\ p # Len(s)
      <4>1. m - 1 \in 1 .. Len(s) /\ (m - 1) + 1 = m /\ m - 1 # Len(s)
        BY <1>1, <2>3, <2>5
      <4> QED BY <4>1
    <3>2. p \notin Differ
      BY <1>1, <2>2, <2>3, <3>1
    <3>3. p \in 1 .. Len(t) /\ s[p] = t[p]
      BY <1>1, <3>1, <3>2
    <3>4. next[s[p]] = s[m] /\ s[m] # NULL
      BY <1>1, <2>3, <3>1
    <3>5. p # Len(t)
      BY <1>1, <3>3, <3>4
    <3>6. next[t[p]] = t[m]
      BY <1>1, <3>1, <3>3, <3>5
    <3>7. m <= Len(t) /\ s[m] = t[m]
      BY <1>1, <3>1, <3>3, <3>4, <3>5, <3>6
    <3> QED BY <3>7
  <2> QED BY <2>4, <2>5
<1> QED BY <1>2

LEMMA OneWalk ==
    ASSUME NEW s \in Seq(Node), NEW t \in Seq(Node), List!IsWalk(s), List!IsWalk(t)
    PROVE  s = t
<1>1. Len(s) \in Nat /\ Len(t) \in Nat
  BY LenProperties
<1>2. \A k \in 1 .. Len(s) : k <= Len(t) /\ s[k] = t[k]
  BY WalksAgree
<1>3. \A k \in 1 .. Len(t) : k <= Len(s)
  BY WalksAgree
<1>4. Len(s) = Len(t)
  <2>1. Len(s) > Len(t) => Len(s) \in 1 .. Len(s) /\ ~(Len(s) <= Len(t))
    BY <1>1
  <2>2. Len(t) > Len(s) => Len(t) \in 1 .. Len(t) /\ ~(Len(t) <= Len(s))
    BY <1>1
  <2> QED BY <1>1, <1>2, <1>3, <2>1, <2>2
<1> QED BY <1>2, <1>4, SeqEqual

\* What printList visits is the list.
LEMMA WalkIs == ASSUME NEW s \in Seq(Node), Links(s) PROVE List!Walk = s
<1>1. Len(s) \in Nat /\ s \in [1 .. Len(s) -> Node]
  BY LenProperties
<1>2. Len(s) <= Cardinality(Node) /\ Cardinality(Node) \in Nat
  <2>1. s \in Injection(1 .. Len(s), Node)
    BY <1>1 DEF Links, Injection, IsInjective
  <2>2. IsFiniteSet(Node)
    BY TransfersAssumption
  <2>3. Cardinality(1 .. Len(s)) <= Cardinality(Node)
    BY <2>1, <2>2, FS_Injection
  <2>4. Cardinality(1 .. Len(s)) = Len(s)
    BY <1>1, FS_Interval
  <2>5. Cardinality(Node) \in Nat
    BY <2>2, FS_CardinalityType
  <2> QED BY <2>3, <2>4, <2>5
<1>3. List!Cardinality(Node) = Cardinality(Node)
  BY DEF List!Cardinality, Cardinality
<1>4. s \in List!SeqOf(Node, List!Cardinality(Node))
  BY <1>1, <1>2, <1>3 DEF List!SeqOf
<1>5. \A t \in List!SeqOf(Node, List!Cardinality(Node)) : t \in Seq(Node)
  BY <1>2, <1>3 DEF List!SeqOf
<1>6. List!IsWalk(s)
  BY DEF Links
<1>7. \A t \in List!SeqOf(Node, List!Cardinality(Node)) : List!IsWalk(t) => t = s
  BY <1>5, <1>6, OneWalk
<1> QED BY <1>4, <1>6, <1>7 DEF List!Walk

\* The same of the next state.
WalkIsList == \A s \in Seq(Node) : Links(s) => List!Walk = s

LEMMA WalkIsListNow == WalkIsList
  BY WalkIs DEF WalkIsList

LEMMA WalkIsListNext == WalkIsList'
  BY WalkIsListNow, PTL

-----------------------------------------------------------------------------
(* What the list holds.                                                     *)

DataOf(s) == [k \in 1 .. Len(s) |-> data[s[k]]]

\* What SeqList's items stand for.
Items == [k \in DOMAIN List!Walk |-> data[List!Walk[k]]]

LEMMA ItemsAre == ASSUME NEW s \in Seq(Node), Links(s) PROVE Items = DataOf(s)
<1>1. List!Walk = s /\ DOMAIN s = 1 .. Len(s)
  BY WalkIs, LenProperties
<1> QED BY <1>1 DEF Items, DataOf

LEMMA ItemsAreNext == ASSUME NEW s \in Seq(Node), Links(s)' PROVE Items' = DataOf(s)'
<1>1. List!Walk' = s /\ DOMAIN s = 1 .. Len(s)
  BY WalkIsListNext, LenProperties DEF WalkIsList
<1> QED BY <1>1 DEF Items, DataOf

LEMMA DataType ==
    ASSUME ListTypes, NEW s \in Seq(Node)
    PROVE  /\ DataOf(s) \in Seq(Data \cup {NULL}) /\ Len(DataOf(s)) = Len(s)
           /\ \A k \in 1 .. Len(s) : DataOf(s)[k] = data[s[k]]
<1>1. Len(s) \in Nat /\ \A k \in 1 .. Len(s) : s[k] \in Node
  BY LenProperties, ElementOfSeq
<1>2. \A k \in 1 .. Len(s) : data[s[k]] \in Data \cup {NULL}
  BY <1>1 DEF ListTypes
<1>3. DataOf(s) \in [1 .. Len(s) -> Data \cup {NULL}]
  BY <1>2 DEF DataOf
<1>4. DataOf(s) \in Seq(Data \cup {NULL}) /\ Len(DataOf(s)) = Len(s)
  BY <1>1, <1>3
<1> QED BY <1>4 DEF DataOf

\* The pointers after a step make up t.
LEMMA LinksNext ==
    ASSUME NEW t \in Seq(Node), NEW n \in Nat, n = Len(t),
           first' = IF n = 0 THEN NULL ELSE t[1],
           \A k \in 1 .. n : next'[t[k]] = IF k = n THEN NULL ELSE t[k + 1],
           \A j, k \in 1 .. n : t[j] = t[k] => j = k,
           used' = {t[k] : k \in 1 .. n},
           last' = IF n = 0 THEN NULL ELSE t[n],
           n <= totalNode'
    PROVE  Links(t)'
<1>1. DOMAIN t = 1 .. n /\ (t = <<>> <=> n = 0)
  BY LenProperties, EmptySeq
<1>2. List!IsWalk(t)'
  BY <1>1 DEF List!IsWalk
<1> QED BY <1>2 DEF Links

\* What the pointers say of s.
LEMMA LinksNow ==
    ASSUME NEW s \in Seq(Node), Links(s)
    PROVE  /\ Len(s) \in Nat /\ Len(s) <= totalNode
           /\ \A k \in 1 .. Len(s) : s[k] \in Node /\ s[k] # NULL /\ s[k] \in used
           /\ first = IF Len(s) = 0 THEN NULL ELSE s[1]
           /\ \A k \in 1 .. Len(s) : next[s[k]] = IF k = Len(s) THEN NULL ELSE s[k + 1]
           /\ \A j, k \in 1 .. Len(s) : s[j] = s[k] => j = k
           /\ last = IF Len(s) = 0 THEN NULL ELSE s[Len(s)]
           /\ used = {s[k] : k \in 1 .. Len(s)}
<1>1. used = {s[k] : k \in 1 .. Len(s)}
  BY DEF Links
<1>2. \A k \in 1 .. Len(s) : s[k] \in used
  BY <1>1
<1> QED BY <1>1, <1>2, WalkLinks DEF Links

-----------------------------------------------------------------------------
(* The steps.                                                               *)

LEMMA AddedLast ==
    ASSUME ListTypes, NEW s \in Seq(Node), Links(s), NEW d \in Data, NEW n \in Node,
           List!NewNode(n, d, IF first = NULL THEN [next EXCEPT ![n] = NULL]
                              ELSE [next EXCEPT ![n] = NULL, ![last] = n]),
           first' = IF first = NULL THEN n ELSE first,
           last' = n
    PROVE  ListInv' /\ Items' = Append(Items, d)
<1>1. PICK len \in Nat : len = Len(s)
  BY LenProperties
<1>2. /\ len <= totalNode /\ totalNode \in Nat
      /\ \A k \in 1 .. len : s[k] \in Node /\ s[k] # NULL /\ s[k] \in used
      /\ first = IF len = 0 THEN NULL ELSE s[1]
      /\ \A k \in 1 .. len : next[s[k]] = IF k = len THEN NULL ELSE s[k + 1]
      /\ \A j, k \in 1 .. len : s[j] = s[k] => j = k
      /\ last = IF len = 0 THEN NULL ELSE s[len]
      /\ used = {s[k] : k \in 1 .. len}
  BY <1>1, LinksNow DEF ListTypes
<1>3. PICK t : t = Append(s, n)
  OBVIOUS
<1>4. /\ t \in Seq(Node) /\ Len(t) = len + 1
      /\ \A k \in 1 .. len : t[k] = s[k]
      /\ t[len + 1] = n
  BY <1>1, <1>3, AppendProperties
<1>5. /\ n \notin used /\ used' = used \cup {n} /\ totalNode' = totalNode + 1
      /\ data' = [data EXCEPT ![n] = d]
  BY DEF List!NewNode
<1>6. \A m \in Node : next'[m] = IF m = last THEN n ELSE IF m = n THEN NULL ELSE next[m]
  <2>1. CASE first = NULL
    <3>1. len = 0
      BY <1>2, <2>1
    <3>2. last = NULL /\ \A m \in Node : m # last
      BY <1>2, <3>1, TransfersAssumption
    <3>3. next' = [next EXCEPT ![n] = NULL]
      BY <2>1 DEF List!NewNode
    <3> QED BY <3>2, <3>3 DEF ListTypes
  <2>2. CASE first # NULL
    <3>1. len # 0 /\ last \in Node
      BY <1>2, <2>2
    <3>2. next' = [next EXCEPT ![n] = NULL, ![last] = n]
      BY <2>2 DEF List!NewNode
    <3> QED BY <3>1, <3>2 DEF ListTypes
  <2> QED BY <2>1, <2>2
<1>7. /\ first' = t[1]
      /\ last' = t[len + 1] /\ len + 1 \in Nat /\ len + 1 # 0 /\ len + 1 <= totalNode'
  <2>1. CASE len = 0
    BY <1>2, <1>4, <1>5, <2>1
  <2>2. CASE len # 0
    <3>1. 1 \in 1 .. len /\ len + 1 # 0
      BY <1>2, <2>2
    <3>2. first # NULL /\ t[1] = s[1]
      BY <1>2, <1>4, <2>2, <3>1
    <3> QED BY <1>2, <1>4, <1>5, <2>2, <3>1, <3>2
  <2> QED BY <2>1, <2>2
<1>8. \A j, k \in 1 .. len + 1 : t[j] = t[k] => j = k
  BY <1>2, <1>4, <1>5
<1>9. used' = {t[k] : k \in 1 .. len + 1}
  <2>1. \A m \in {t[k] : k \in 1 .. len + 1} : m \in used'
    <3> TAKE m \in {t[k] : k \in 1 .. len + 1}
    <3>1. PICK k \in 1 .. len + 1 : m = t[k]
      OBVIOUS
    <3>2. CASE k = len + 1
      BY <1>4, <1>5, <3>1, <3>2
    <3>3. CASE k \in 1 .. len
      BY <1>2, <1>4, <1>5, <3>1, <3>3
    <3> QED BY <3>2, <3>3
  <2>2. \A m \in used' : m \in {t[k] : k \in 1 .. len + 1}
    <3> TAKE m \in used'
    <3>1. CASE m = n
      <4>1. len + 1 \in 1 .. len + 1 /\ t[len + 1] = m
        BY <1>4, <3>1
      <4> QED BY <4>1
    <3>2. CASE m # n
      <4>1. PICK k \in 1 .. len : m = s[k]
        BY <1>2, <1>5, <3>2
      <4>2. k \in 1 .. len + 1 /\ m = t[k]
        BY <1>4, <4>1
      <4> QED BY <4>2
    <3> QED BY <3>1, <3>2
  <2> QED BY <2>1, <2>2, Zenon
<1>10. \A k \in 1 .. len + 1 : next'[t[k]] = IF k = len + 1 THEN NULL ELSE t[k + 1]
  <2> TAKE k \in 1 .. len + 1
  <2>1. CASE k = len + 1
    <3>1. n # last
      BY <1>2, <1>5, TransfersAssumption
    <3> QED BY <1>4, <1>6, <2>1, <3>1
  <2>2. CASE k = len
    <3>1. k \in 1 .. len /\ len # 0
      BY <2>2
    <3>2. t[k] = last /\ t[k] \in Node
      BY <1>2, <1>4, <2>2, <3>1
    <3> QED BY <1>4, <1>6, <2>2, <3>2
  <2>3. CASE k # len /\ k # len + 1
    <3>1. k \in 1 .. len /\ k + 1 \in 1 .. len /\ len # 0 /\ len \in 1 .. len
      BY <2>3
    <3>2. t[k] = s[k] /\ t[k + 1] = s[k + 1] /\ next[s[k]] = s[k + 1]
      BY <1>2, <1>4, <2>3, <3>1
    <3>3. s[k] # last
      BY <1>2, <2>3, <3>1
    <3>4. s[k] # n /\ s[k] \in Node
      BY <1>2, <1>5, <3>1
    <3> QED BY <1>6, <2>3, <3>2, <3>3, <3>4
  <2> QED BY <2>1, <2>2, <2>3
<1>11. Links(t)'
  BY <1>4, <1>7, <1>8, <1>9, <1>10, LinksNext
<1>12. ListTypes'
  <2>1. next' \in [Node -> Node \cup {NULL}]
    <3>1. next' = [next EXCEPT ![n] = NULL] \/ next' = [next EXCEPT ![n] = NULL, ![last] = n]
      BY DEF List!NewNode
    <3> QED BY <3>1 DEF ListTypes
  <2>2. data' \in [Node -> Data \cup {NULL}]
    BY <1>5 DEF ListTypes
  <2> QED BY <1>2, <1>5, <2>1, <2>2 DEF ListTypes
<1>13. Items' = Append(Items, d)
  <2>1. Items = DataOf(s) /\ Items' = DataOf(t)'
    BY <1>4, <1>11, ItemsAre, ItemsAreNext
  <2>2. PICK u : u = Append(DataOf(s), d)
    OBVIOUS
  <2>3. /\ u \in Seq(Data \cup {NULL}) /\ Len(u) = len + 1
        /\ \A k \in 1 .. len : u[k] = data[s[k]]
        /\ u[len + 1] = d
    <3>1. /\ DataOf(s) \in Seq(Data \cup {NULL}) /\ Len(DataOf(s)) = len
          /\ \A k \in 1 .. len : DataOf(s)[k] = data[s[k]]
      BY <1>1, DataType
    <3>2. d \in Data \cup {NULL}
      OBVIOUS
    <3> QED BY <2>2, <3>1, <3>2, AppendProperties
  <2>4. PICK v : v = DataOf(t)'
    OBVIOUS
  <2>5. v = [k \in 1 .. len + 1 |-> data'[t[k]]]
    BY <1>4, <2>4 DEF DataOf
  <2>6. \A k \in 1 .. len + 1 : data'[t[k]] = u[k]
    <3> TAKE k \in 1 .. len + 1
    <3>1. CASE k = len + 1
      BY <1>4, <1>5, <2>3, <3>1 DEF ListTypes
    <3>2. CASE k \in 1 .. len
      <4>1. s[k] # n /\ s[k] \in Node /\ t[k] = s[k]
        BY <1>2, <1>4, <1>5, <3>2
      <4> QED BY <1>5, <2>3, <3>2, <4>1 DEF ListTypes
    <3> QED BY <3>1, <3>2
  <2>7. u = v
    <3>1. u \in [1 .. len + 1 -> Data \cup {NULL}]
      BY <2>3, LenProperties
    <3> QED BY <2>5, <2>6, <3>1
  <2> QED BY <2>1, <2>2, <2>4, <2>7, Zenon
<1> QED BY <1>4, <1>11, <1>12, <1>13 DEF ListInv

\* The data of the list after a step is v.
LEMMA ItemsNext ==
    ASSUME NEW t \in Seq(Node), Links(t)', NEW len \in Nat, len = Len(t),
           NEW v \in Seq(Data \cup {NULL}), Len(v) = len,
           \A k \in 1 .. len : data'[t[k]] = v[k]
    PROVE  Items' = v
<1>1. Items' = [k \in 1 .. len |-> data'[t[k]]]
  BY ItemsAreNext DEF DataOf
<1>2. v \in [1 .. len -> Data \cup {NULL}]
  BY LenProperties
<1> QED BY <1>1, <1>2

LEMMA ConsElements ==
    ASSUME NEW S, NEW x \in S, NEW q \in Seq(S), NEW len \in Nat, len = Len(q)
    PROVE  /\ <<x>> \o q \in Seq(S) /\ Len(<<x>> \o q) = len + 1
           /\ (<<x>> \o q)[1] = x
           /\ \A k \in 1 .. len : (<<x>> \o q)[k + 1] = q[k]
<1>1. <<x>> \in Seq(S) /\ Len(<<x>>) = 1 /\ <<x>>[1] = x
  OBVIOUS
<1>2. PICK c : c = <<x>> \o q
  OBVIOUS
<1>3. /\ c \in Seq(S) /\ Len(c) = 1 + len
      /\ \A i \in 1 .. 1 + len : c[i] = IF i <= 1 THEN <<x>>[i] ELSE q[i - 1]
  BY <1>1, <1>2, ConcatProperties
<1>4. c[1] = x
  BY <1>1, <1>3
<1>5. ASSUME NEW k \in 1 .. len PROVE c[k + 1] = q[k]
  <2>1. k + 1 \in 1 .. 1 + len /\ ~(k + 1 <= 1) /\ (k + 1) - 1 = k
    OBVIOUS
  <2> QED BY <1>3, <2>1
<1> QED BY <1>2, <1>3, <1>4, <1>5

LEMMA AddedFirst ==
    ASSUME ListTypes, NEW s \in Seq(Node), Links(s), NEW d \in Data, NEW n \in Node,
           List!NewNode(n, d, [next EXCEPT ![n] = first]),
           first' = n,
           last' = IF first = NULL THEN n ELSE last
    PROVE  ListInv' /\ Items' = <<d>> \o Items
<1>1. PICK len \in Nat : len = Len(s)
  BY LenProperties
<1>2. /\ len <= totalNode /\ totalNode \in Nat
      /\ \A k \in 1 .. len : s[k] \in Node /\ s[k] # NULL /\ s[k] \in used
      /\ first = IF len = 0 THEN NULL ELSE s[1]
      /\ \A k \in 1 .. len : next[s[k]] = IF k = len THEN NULL ELSE s[k + 1]
      /\ \A j, k \in 1 .. len : s[j] = s[k] => j = k
      /\ last = IF len = 0 THEN NULL ELSE s[len]
      /\ used = {s[k] : k \in 1 .. len}
  BY <1>1, LinksNow DEF ListTypes
<1>3. PICK t : t = <<n>> \o s
  OBVIOUS
<1>4. /\ t \in Seq(Node) /\ Len(t) = len + 1 /\ t[1] = n
      /\ \A k \in 1 .. len : t[k + 1] = s[k]
  BY <1>1, <1>3, ConsElements
<1>5. /\ n \notin used /\ used' = used \cup {n} /\ totalNode' = totalNode + 1
      /\ data' = [data EXCEPT ![n] = d] /\ next' = [next EXCEPT ![n] = first]
  BY DEF List!NewNode
<1>6. \A k \in 1 .. len + 1 : k # 1 => \E i \in 1 .. len : k = i + 1
  <2> TAKE k \in 1 .. len + 1
  <2>1. k # 1 => k - 1 \in 1 .. len /\ k = (k - 1) + 1
    OBVIOUS
  <2> QED BY <2>1
<1>7. first' = t[1] /\ last' = t[len + 1] /\ len + 1 \in Nat /\ len + 1 # 0 /\ len + 1 <= totalNode'
  <2>1. CASE len = 0
    BY <1>2, <1>4, <1>5, <2>1
  <2>2. CASE len # 0
    <3>1. 1 \in 1 .. len /\ len \in 1 .. len
      BY <2>2
    <3>2. first # NULL /\ last' = t[len + 1]
      BY <1>2, <1>4, <2>2, <3>1
    <3> QED BY <1>2, <1>4, <1>5, <3>2
  <2> QED BY <2>1, <2>2
<1>8. \A j, k \in 1 .. len + 1 : t[j] = t[k] => j = k
  <2> TAKE j, k \in 1 .. len + 1
  <2> HAVE t[j] = t[k]
  <2>1. \A i \in 1 .. len : t[i + 1] # n
    BY <1>2, <1>4, <1>5
  <2>2. CASE j = 1 \/ k = 1
    <3>1. t[j] = n /\ t[k] = n
      BY <1>4, <2>2
    <3>2. j = 1 /\ k = 1
      BY <1>6, <2>1, <3>1
    <3> QED BY <3>2
  <2>3. CASE j # 1 /\ k # 1
    <3>1. PICK a \in 1 .. len : j = a + 1
      BY <1>6, <2>3
    <3>2. PICK b \in 1 .. len : k = b + 1
      BY <1>6, <2>3
    <3>3. s[a] = s[b]
      BY <1>4, <3>1, <3>2
    <3>4. a = b
      BY <1>2, <3>3
    <3> QED BY <3>1, <3>2, <3>4
  <2> QED BY <2>2, <2>3
<1>9. used' = {t[k] : k \in 1 .. len + 1}
  <2>1. \A m \in {t[k] : k \in 1 .. len + 1} : m \in used'
    <3> TAKE m \in {t[k] : k \in 1 .. len + 1}
    <3>1. PICK k \in 1 .. len + 1 : m = t[k]
      OBVIOUS
    <3>2. CASE k = 1
      BY <1>4, <1>5, <3>1, <3>2
    <3>3. CASE k # 1
      <4>1. PICK i \in 1 .. len : k = i + 1
        BY <1>6, <3>3
      <4>2. m = s[i]
        BY <1>4, <3>1, <4>1
      <4> QED BY <1>2, <1>5, <4>2
    <3> QED BY <3>2, <3>3
  <2>2. \A m \in used' : m \in {t[k] : k \in 1 .. len + 1}
    <3> TAKE m \in used'
    <3>1. CASE m = n
      <4>1. 1 \in 1 .. len + 1 /\ t[1] = m
        BY <1>4, <3>1
      <4> QED BY <4>1
    <3>2. CASE m # n
      <4>1. PICK k \in 1 .. len : m = s[k]
        BY <1>2, <1>5, <3>2
      <4>2. k + 1 \in 1 .. len + 1 /\ m = t[k + 1]
        BY <1>4, <4>1
      <4> QED BY <4>2
    <3> QED BY <3>1, <3>2
  <2> QED BY <2>1, <2>2, Zenon
<1>10. \A k \in 1 .. len + 1 : next'[t[k]] = IF k = len + 1 THEN NULL ELSE t[k + 1]
  <2> TAKE k \in 1 .. len + 1
  <2>1. CASE k = 1
    <3>1. next'[t[k]] = first
      BY <1>4, <1>5, <2>1 DEF ListTypes
    <3>2. len # 0 => 1 \in 1 .. len
      OBVIOUS
    <3> QED BY <1>2, <1>4, <2>1, <3>1, <3>2
  <2>2. CASE k # 1
    <3>1. PICK i \in 1 .. len : k = i + 1
      BY <1>6, <2>2
    <3>2. t[k] = s[i] /\ s[i] # n /\ s[i] \in Node
      BY <1>2, <1>4, <1>5, <3>1
    <3>3. next'[t[k]] = next[s[i]]
      BY <1>5, <3>2 DEF ListTypes
    <3>4. i # len => i + 1 \in 1 .. len
      OBVIOUS
    <3>5. i # len => t[k + 1] = s[i + 1]
      BY <1>4, <3>1, <3>4
    <3> QED BY <1>2, <3>1, <3>3, <3>5
  <2> QED BY <2>1, <2>2
<1>11. Links(t)'
  BY <1>4, <1>7, <1>8, <1>9, <1>10, LinksNext
<1>12. ListTypes'
  <2>1. next' \in [Node -> Node \cup {NULL}]
    <3>1. first \in Node \cup {NULL}
      <4>1. len # 0 => 1 \in 1 .. len
        OBVIOUS
      <4> QED BY <1>2, <4>1
    <3> QED BY <1>5, <3>1 DEF ListTypes
  <2>2. data' \in [Node -> Data \cup {NULL}]
    BY <1>5 DEF ListTypes
  <2> QED BY <1>2, <1>5, <2>1, <2>2 DEF ListTypes
<1>13. Items' = <<d>> \o Items
  <2>1. PICK q \in Seq(Data \cup {NULL}) :
            q = Items /\ Len(q) = len /\ \A k \in 1 .. len : q[k] = data[s[k]]
    BY <1>1, ItemsAre, DataType
  <2>2. PICK v : v = <<d>> \o q
    OBVIOUS
  <2>3. /\ v \in Seq(Data \cup {NULL}) /\ Len(v) = len + 1 /\ v[1] = d
        /\ \A k \in 1 .. len : v[k + 1] = q[k]
    <3>1. d \in Data \cup {NULL}
      OBVIOUS
    <3> QED BY <2>1, <2>2, <3>1, ConsElements
  <2>4. \A k \in 1 .. len + 1 : data'[t[k]] = v[k]
    <3> TAKE k \in 1 .. len + 1
    <3>1. CASE k = 1
      BY <1>4, <1>5, <2>3, <3>1 DEF ListTypes
    <3>2. CASE k # 1
      <4>1. PICK i \in 1 .. len : k = i + 1
        BY <1>6, <3>2
      <4>2. t[k] = s[i] /\ s[i] # n /\ s[i] \in Node
        BY <1>2, <1>4, <1>5, <4>1
      <4> QED BY <1>5, <2>1, <2>3, <4>1, <4>2 DEF ListTypes
    <3> QED BY <3>1, <3>2
  <2>5. Items' = v
    BY <1>4, <1>7, <1>11, <2>3, <2>4, ItemsNext
  <2> QED BY <2>1, <2>2, <2>5
<1> QED BY <1>4, <1>11, <1>12, <1>13 DEF ListInv

\* The k-th node is taken out of the list: the node before it leads to the one after it.
LEMMA TakenOut ==
    ASSUME ListTypes, NEW s \in Seq(Node), Links(s), NEW len \in Nat, len = Len(s),
           NEW k \in 1 .. len, NEW t \in Seq(Node), Len(t) = len - 1,
           \A m \in 1 .. len - 1 : t[m] = s[IF m < k THEN m ELSE m + 1],
           used' = used \ {s[k]},
           first' = IF k = 1 THEN next[s[k]] ELSE first,
           \A m \in Node : (k # 1 /\ m = s[k - 1]) => next'[m] = next[s[k]],
           \A m \in Node : ~(k # 1 /\ m = s[k - 1]) => next'[m] = next[m],
           last' = IF k # len THEN last ELSE IF k = 1 THEN NULL ELSE s[k - 1],
           len - 1 <= totalNode'
    PROVE  Links(t)'
<1>1. /\ len <= totalNode /\ totalNode \in Nat
      /\ \A m \in 1 .. len : s[m] \in Node /\ s[m] # NULL /\ s[m] \in used
      /\ first = IF len = 0 THEN NULL ELSE s[1]
      /\ \A m \in 1 .. len : next[s[m]] = IF m = len THEN NULL ELSE s[m + 1]
      /\ \A j, m \in 1 .. len : s[j] = s[m] => j = m
      /\ last = IF len = 0 THEN NULL ELSE s[len]
      /\ used = {s[m] : m \in 1 .. len}
  BY LinksNow DEF ListTypes
<1>2. PICK n \in Nat : n = len - 1 /\ n = Len(t)
  BY LenProperties
<1>3. \A m \in 1 .. n : \E i \in 1 .. len : /\ i = IF m < k THEN m ELSE m + 1
                                            /\ i # k /\ t[m] = s[i]
  <2> TAKE m \in 1 .. n
  <2>1. PICK i \in Nat : i = IF m < k THEN m ELSE m + 1
    OBVIOUS
  <2>2. i \in 1 .. len /\ i # k
    BY <1>2, <2>1
  <2>3. t[m] = s[i]
    BY <1>2, <2>1
  <2> QED BY <2>1, <2>2, <2>3
<1>4. \A i \in 1 .. len : i # k => \E m \in 1 .. n : i = IF m < k THEN m ELSE m + 1
  <2> TAKE i \in 1 .. len
  <2>1. CASE i < k
    <3>1. i \in 1 .. n
      BY <1>2, <2>1
    <3> QED BY <2>1, <3>1
  <2>2. CASE i > k
    <3>1. i - 1 \in 1 .. n /\ ~(i - 1 < k) /\ i = (i - 1) + 1
      BY <1>2, <2>2
    <3> QED BY <3>1
  <2> QED BY <2>1, <2>2
<1>5. first' = IF n = 0 THEN NULL ELSE t[1]
  <2>1. CASE n = 0
    BY <1>1, <1>2, <2>1
  <2>2. CASE n # 0 /\ k = 1
    <3>1. 1 \in 1 .. n /\ ~(1 < k) /\ k \in 1 .. len /\ k # len /\ k + 1 = 2
      BY <1>2, <2>2
    <3>2. t[1] = s[2]
      BY <1>3, <3>1
    <3>3. next[s[k]] = s[2]
      BY <1>1, <3>1
    <3> QED BY <2>2, <3>2, <3>3
  <2>3. CASE n # 0 /\ k # 1
    <3>1. 1 \in 1 .. n /\ 1 < k /\ len # 0
      BY <1>2, <2>3
    <3>2. t[1] = s[1]
      BY <1>3, <3>1
    <3> QED BY <1>1, <2>3, <3>1, <3>2
  <2> QED BY <2>1, <2>2, <2>3
<1>6. last' = IF n = 0 THEN NULL ELSE t[n]
  <2>1. CASE n = 0
    BY <1>1, <1>2, <2>1
  <2>2. CASE n # 0 /\ k = len
    <3>1. n \in 1 .. n /\ n < k /\ k # 1 /\ n = k - 1
      BY <1>2, <2>2
    <3>2. t[n] = s[n]
      BY <1>3, <3>1
    <3> QED BY <2>2, <3>1, <3>2
  <2>3. CASE n # 0 /\ k # len
    <3>1. n \in 1 .. n /\ ~(n < k) /\ n + 1 = len /\ len # 0
      BY <1>2, <2>3
    <3>2. t[n] = s[len]
      BY <1>3, <3>1
    <3> QED BY <1>1, <2>3, <3>1, <3>2
  <2> QED BY <2>1, <2>2, <2>3
<1>7. \A j, m \in 1 .. n : t[j] = t[m] => j = m
  <2> TAKE j, m \in 1 .. n
  <2> HAVE t[j] = t[m]
  <2>1. PICK a \in 1 .. len : a = (IF j < k THEN j ELSE j + 1) /\ t[j] = s[a]
    BY <1>3
  <2>2. PICK b \in 1 .. len : b = (IF m < k THEN m ELSE m + 1) /\ t[m] = s[b]
    BY <1>3
  <2>3. a = b
    <3>1. s[a] = s[b]
      BY <2>1, <2>2
    <3> QED BY <1>1, <3>1
  <2>4. j \in Nat /\ m \in Nat /\ (IF j < k THEN j ELSE j + 1) = (IF m < k THEN m ELSE m + 1)
    BY <2>1, <2>2, <2>3
  <2> QED BY <2>4
<1>8. used' = {t[m] : m \in 1 .. n}
  <2>1. \A e \in {t[m] : m \in 1 .. n} : e \in used'
    <3> TAKE e \in {t[m] : m \in 1 .. n}
    <3>1. PICK m \in 1 .. n : e = t[m]
      OBVIOUS
    <3>2. PICK i \in 1 .. len : i # k /\ e = s[i]
      BY <1>3, <3>1
    <3>3. s[i] # s[k] /\ s[i] \in used
      BY <1>1, <3>2
    <3> QED BY <3>2, <3>3
  <2>2. \A e \in used' : e \in {t[m] : m \in 1 .. n}
    <3> TAKE e \in used'
    <3>1. PICK i \in 1 .. len : e = s[i] /\ i # k
      BY <1>1
    <3>2. PICK m \in 1 .. n : i = IF m < k THEN m ELSE m + 1
      BY <1>4, <3>1
    <3>3. e = t[m]
      BY <1>3, <3>1, <3>2
    <3> QED BY <3>3
  <2> QED BY <2>1, <2>2, Zenon
<1>9. \A m \in 1 .. n : next'[t[m]] = IF m = n THEN NULL ELSE t[m + 1]
  <2> TAKE m \in 1 .. n
  <2>1. m # n => m + 1 \in 1 .. n
    OBVIOUS
  <2>2. CASE k # 1 /\ m = k - 1
    <3>1. PICK p \in 1 .. len : p = k - 1
      BY <2>2
    <3>2. t[m] = s[k - 1] /\ s[k - 1] \in Node
      BY <1>1, <1>3, <2>2, <3>1
    <3>3. next'[t[m]] = next[s[k]]
      BY <2>2, <3>2
    <3>4. CASE m = n
      <4>1. k = len
        BY <1>2, <2>2, <3>4
      <4> QED BY <1>1, <3>3, <3>4, <4>1
    <3>5. CASE m # n
      <4>1. k # len /\ ~(m + 1 < k) /\ (m + 1) + 1 = k + 1
        BY <1>2, <2>2, <3>5
      <4>2. t[m + 1] = s[k + 1]
        BY <1>3, <2>1, <3>5, <4>1
      <4> QED BY <1>1, <3>3, <3>5, <4>1, <4>2
    <3> QED BY <3>4, <3>5
  <2>3. CASE ~(k # 1 /\ m = k - 1)
    <3>1. PICK i \in 1 .. len : i = (IF m < k THEN m ELSE m + 1) /\ t[m] = s[i] /\ i # k
      BY <1>3
    <3>2. ~(k # 1 /\ s[i] = s[k - 1])
      <4>1. k # 1 => k - 1 \in 1 .. len
        OBVIOUS
      <4>2. k # 1 => i # k - 1
        BY <2>3, <3>1
      <4> QED BY <1>1, <4>1, <4>2
    <3>3. next'[t[m]] = next[s[i]]
      BY <1>1, <3>1, <3>2
    <3>4. CASE m = n
      <4>1. i = len
        BY <1>2, <2>3, <3>1, <3>4
      <4> QED BY <1>1, <3>3, <3>4, <4>1
    <3>5. CASE m # n
      <4>1. i # len /\ i + 1 = IF m + 1 < k THEN m + 1 ELSE (m + 1) + 1
        BY <1>2, <2>3, <3>1, <3>5
      <4>2. t[m + 1] = s[i + 1]
        BY <1>3, <2>1, <3>5, <4>1
      <4> QED BY <1>1, <3>3, <3>5, <4>1, <4>2
    <3> QED BY <3>4, <3>5
  <2> QED BY <2>2, <2>3
<1>10. n <= totalNode'
  BY <1>2
<1> QED BY <1>2, <1>5, <1>6, <1>7, <1>8, <1>9, <1>10, LinksNext

LEMMA RestElements ==
    ASSUME NEW S, NEW q \in Seq(S), NEW len \in Nat, len = Len(q), len # 0,
           NEW t, t = Tail(q)
    PROVE  /\ t \in Seq(S) /\ Len(t) = len - 1
           /\ \A k \in 1 .. len - 1 : t[k] = q[k + 1]
<1>1. q # <<>>
  BY EmptySeq
<1>2. t \in Seq(S) /\ Len(t) = Len(q) - 1 /\ \A k \in 1 .. Len(t) : t[k] = q[k + 1]
  BY <1>1, HeadTailProperties
<1> QED BY <1>2

LEMMA DeletedFirst ==
    ASSUME ListTypes, NEW s \in Seq(Node), Links(s), List!deleteFirst
    PROVE  ListInv' /\ Items # <<>> /\ Items' = Tail(Items) /\ totalNode' = totalNode - 1
<1>1. PICK len \in Nat : len = Len(s)
  BY LenProperties
<1>2. /\ len <= totalNode /\ totalNode \in Nat
      /\ first = IF len = 0 THEN NULL ELSE s[1]
      /\ \A k \in 1 .. len : next[s[k]] = IF k = len THEN NULL ELSE s[k + 1]
      /\ \A k \in 1 .. len : s[k] # NULL
  BY <1>1, LinksNow DEF ListTypes
<1>3. /\ first # NULL /\ used' = used \ {first} /\ first' = next[first]
      /\ last' = (IF next[first] = NULL THEN NULL ELSE last)
      /\ totalNode' = totalNode - 1 /\ next' = next /\ data' = data
  BY DEF List!deleteFirst
<1>4. len # 0 /\ 1 \in 1 .. len /\ len - 1 \in Nat /\ first = s[1] /\ s # <<>>
  BY <1>1, <1>2, <1>3, EmptySeq
<1>5. PICK t : t = Tail(s)
  OBVIOUS
<1>6. /\ t \in Seq(Node) /\ Len(t) = len - 1
      /\ \A m \in 1 .. len - 1 : t[m] = s[m + 1]
  BY <1>1, <1>4, <1>5, RestElements
<1>7. Links(t)'
  <2>1. \A m \in 1 .. len - 1 : t[m] = s[IF m < 1 THEN m ELSE m + 1]
    BY <1>6
  <2>2. last' = IF 1 # len THEN last ELSE NULL
    <3>1. next[s[1]] = IF 1 = len THEN NULL ELSE s[2]
      BY <1>2, <1>4
    <3>2. 1 # len => 2 \in 1 .. len
      BY <1>4
    <3> QED BY <1>2, <1>3, <1>4, <3>1, <3>2
  <2>3. len - 1 <= totalNode' /\ used' = used \ {s[1]} /\ first' = next[s[1]]
    BY <1>2, <1>3, <1>4
  <2>4. \A m \in Node : next'[m] = next[m]
    BY <1>3
  <2> QED BY <1>1, <1>4, <1>6, <2>1, <2>2, <2>3, <2>4, TakenOut
<1>8. ListTypes'
  <2>1. totalNode - 1 \in Nat
    BY <1>2, <1>4
  <2> QED BY <1>3, <2>1 DEF ListTypes
<1>9. PICK q \in Seq(Data \cup {NULL}) :
          q = Items /\ Len(q) = len /\ \A k \in 1 .. len : q[k] = data[s[k]]
  BY <1>1, ItemsAre, DataType
<1>10. q # <<>>
  BY <1>4, <1>9, EmptySeq
<1>11. PICK v : v = Tail(q)
  OBVIOUS
<1>12. /\ v \in Seq(Data \cup {NULL}) /\ Len(v) = len - 1
       /\ \A k \in 1 .. len - 1 : v[k] = q[k + 1]
  BY <1>4, <1>9, <1>11, RestElements
<1>13. \A k \in 1 .. len - 1 : data'[t[k]] = v[k]
  <2> TAKE k \in 1 .. len - 1
  <2>1. k + 1 \in 1 .. len
    BY <1>4
  <2> QED BY <1>3, <1>6, <1>9, <1>12, <2>1
<1>14. Items' = v
  BY <1>4, <1>6, <1>7, <1>12, <1>13, ItemsNext
<1> QED BY <1>3, <1>6, <1>7, <1>8, <1>9, <1>10, <1>11, <1>14 DEF ListInv

\* All nodes that a walk finds are freed, and there are no others.
LEMMA Cleared ==
    ASSUME ListTypes, NEW s \in Seq(Node), Links(s), List!deleteAllFromList
    PROVE  ListInv' /\ Items' = <<>> /\ totalNode' = totalNode - Len(Items)
<1>1. PICK len \in Nat : len = Len(s)
  BY LenProperties
<1>2. List!Walk = s /\ DOMAIN s = 1 .. len
  BY <1>1, WalkIs, LenProperties
<1>3. used = {s[k] : k \in 1 .. len} /\ len <= totalNode /\ totalNode \in Nat
  BY <1>1, LinksNow DEF ListTypes
<1>4. List!Range(List!Walk) = used
  BY <1>2, <1>3 DEF List!Range
<1>5. /\ used' = {} /\ first' = NULL /\ last' = NULL /\ totalNode' = totalNode - len
      /\ next' = next /\ data' = data
  BY <1>1, <1>2, <1>4 DEF List!deleteAllFromList
<1>6. PICK t \in Seq(Node), n \in Nat : n = 0 /\ Len(t) = n
  <2>1. <<>> \in Seq(Node) /\ Len(<<>>) = 0
    BY EmptySeq
  <2> QED BY <2>1
<1>7. Links(t)'
  <2>1. \A k \in 1 .. n : FALSE
    BY <1>6
  <2>2. used' = {t[k] : k \in 1 .. n} /\ n <= totalNode'
    BY <1>3, <1>5, <1>6, <2>1
  <2> QED BY <1>5, <1>6, <2>1, <2>2, LinksNext
<1>8. ListTypes'
  BY <1>3, <1>5 DEF ListTypes
<1>9. Items' = <<>>
  <2>1. Items' = [k \in 1 .. 0 |-> data'[t[k]]]
    BY <1>6, <1>7, ItemsAreNext DEF DataOf
  <2> QED BY <2>1
<1>10. Len(Items) = len
  BY <1>1, ItemsAre, DataType
<1> QED BY <1>5, <1>7, <1>8, <1>9, <1>10 DEF ListInv

\* A sequence without its k-th element.
LEMMA RemoveAtElements ==
    ASSUME NEW S, NEW s \in Seq(S), NEW k \in 1 .. Len(s)
    PROVE  /\ List!Abstract!RemoveAt(s, k) \in Seq(S)
           /\ Len(List!Abstract!RemoveAt(s, k)) = Len(s) - 1
           /\ \A m \in 1 .. Len(s) - 1 :
                 List!Abstract!RemoveAt(s, k)[m] = s[IF m < k THEN m ELSE m + 1]
<1>1. PICK len \in Nat : len = Len(s) /\ k \in 1 .. len
  BY LenProperties
<1>2. \A m \in 1 .. len : s[m] \in S
  BY <1>1, ElementOfSeq
<1>3. PICK before \in Seq(S) : /\ before = SubSeq(s, 1, k - 1) /\ Len(before) = k - 1
                               /\ \A m \in 1 .. k - 1 : before[m] = s[m]
  <2>1. \A m \in 1 .. k - 1 : s[m] \in S
    BY <1>2, <1>1
  <2>2. /\ SubSeq(s, 1, k - 1) \in Seq(S) /\ Len(SubSeq(s, 1, k - 1)) = k - 1
        /\ \A m \in 1 .. k - 1 : SubSeq(s, 1, k - 1)[m] = s[m]
    BY <1>1, <2>1, SubSeqProperties
  <2> QED BY <2>2
<1>4. PICK after \in Seq(S) : /\ after = SubSeq(s, k + 1, len) /\ Len(after) = len - k
                              /\ \A m \in 1 .. len - k : after[m] = s[k + m]
  <2> PICK rest : rest = SubSeq(s, k + 1, len)
    OBVIOUS
  <2>1. \A m \in k + 1 .. len : s[m] \in S
    BY <1>2, <1>1
  <2>2. \A m \in 1 .. len - (k + 1) + 1 : rest[m] = s[k + 1 + m - 1]
    BY <1>1, <2>1, SubSeqProperties
  <2>3. rest \in Seq(S) /\ Len(rest) = IF k + 1 <= len THEN len - (k + 1) + 1 ELSE 0
    BY <1>1, <2>1, SubSeqProperties
  <2>4. Len(rest) = len - k
    BY <1>1, <2>3
  <2>5. \A m \in 1 .. len - k : rest[m] = s[k + m]
    BY <1>1, <2>2
  <2> QED BY <2>3, <2>4, <2>5, Zenon
<1>5. PICK t : t = List!Abstract!RemoveAt(s, k)
  OBVIOUS
<1>6. t = before \o after
  BY <1>3, <1>4, <1>1, <1>5, Zenon DEF List!Abstract!RemoveAt
<1>7. PICK b \in Nat, a \in Nat : b = k - 1 /\ a = len - k
  <2>1. k - 1 \in Nat /\ len - k \in Nat
    BY <1>1
  <2> QED BY <2>1
<1>8. /\ t \in Seq(S) /\ Len(t) = b + a
      /\ \A m \in 1 .. b + a : t[m] = IF m <= b THEN before[m] ELSE after[m - b]
  <2>1. Len(before) = b /\ Len(after) = a
    BY <1>3, <1>4, <1>7, <1>1
  <2> QED BY <1>6, <2>1, ConcatProperties
<1>9. b + a = len - 1
  BY <1>7, <1>1
<1>10. ASSUME NEW m \in 1 .. len - 1 PROVE t[m] = s[IF m < k THEN m ELSE m + 1]
  <2>1. CASE m < k
    <3>1. m <= b /\ m \in 1 .. k - 1 /\ m \in 1 .. b + a
      BY <1>7, <1>9, <1>1, <2>1
    <3> QED BY <1>3, <1>8, <2>1, <3>1
  <2>2. CASE ~(m < k)
    <3>1. PICK i \in 1 .. len - k : i = m - b
      BY <1>7, <1>9, <1>1, <2>2
    <3>2. ~(m <= b) /\ m \in 1 .. b + a /\ k + i = m + 1
      BY <1>7, <1>9, <1>1, <2>2, <3>1
    <3> QED BY <1>4, <1>8, <2>2, <3>1, <3>2
  <2> QED BY <2>1, <2>2
<1>11. t \in Seq(S) /\ Len(t) = Len(s) - 1
  BY <1>8, <1>9, <1>1
<1> QED BY <1>10, <1>11, <1>1, <1>5, Zenon

LEMMA Unlinked ==
    ASSUME ListTypes, NEW s \in Seq(Node), Links(s), NEW k \in 1 .. Len(s), k # 1,
           List!unlink(s[k - 1])
    PROVE  /\ ListInv' /\ totalNode' = totalNode
           /\ k \in 2 .. Len(Items) /\ Items' = List!Abstract!RemoveAt(Items, k)
<1>1. PICK len \in Nat : len = Len(s)
  BY LenProperties
<1>2. /\ len <= totalNode /\ totalNode \in Nat
      /\ \A m \in 1 .. len : s[m] \in Node /\ s[m] # NULL
      /\ first = IF len = 0 THEN NULL ELSE s[1]
      /\ \A m \in 1 .. len : next[s[m]] = IF m = len THEN NULL ELSE s[m + 1]
      /\ \A j, m \in 1 .. len : s[j] = s[m] => j = m
      /\ last = IF len = 0 THEN NULL ELSE s[len]
  BY <1>1, LinksNow DEF ListTypes
<1>3. k \in 1 .. len /\ k - 1 \in 1 .. len /\ k - 1 # len /\ (k - 1) + 1 = k /\ len # 0 /\ len - 1 \in Nat
  BY <1>1
<1>4. next[s[k - 1]] = s[k]
  BY <1>2, <1>3
<1>5. s[k] = last <=> k = len
  <2>1. len \in 1 .. len
    BY <1>3
  <2> QED BY <1>2, <1>3, <2>1
<1>6. /\ used' = used \ {s[k]} /\ first' = first /\ data' = data /\ totalNode' = totalNode
      /\ next' = [next EXCEPT ![s[k - 1]] = IF s[k] = last THEN NULL ELSE next[s[k]]]
      /\ last' = IF s[k] = last THEN s[k - 1] ELSE last
  BY <1>4 DEF List!unlink
<1>7. /\ \A m \in Node : m = s[k - 1] => next'[m] = next[s[k]]
      /\ \A m \in Node : m # s[k - 1] => next'[m] = next[m]
  <2>1. (IF s[k] = last THEN NULL ELSE next[s[k]]) = next[s[k]]
    BY <1>2, <1>3, <1>5
  <2>2. next' = [next EXCEPT ![s[k - 1]] = next[s[k]]]
    BY <1>6, <2>1
  <2> QED BY <2>2 DEF ListTypes
<1>8. PICK t : t = List!Abstract!RemoveAt(s, k)
  OBVIOUS
<1>9. /\ t \in Seq(Node) /\ Len(t) = len - 1
      /\ \A m \in 1 .. len - 1 : t[m] = s[IF m < k THEN m ELSE m + 1]
  BY <1>1, <1>3, <1>8, RemoveAtElements
<1>10. Links(t)'
  <2>1. len - 1 <= totalNode'
    BY <1>2, <1>6
  <2>2. last' = IF k # len THEN last ELSE s[k - 1]
    BY <1>5, <1>6
  <2> QED BY <1>1, <1>3, <1>6, <1>7, <1>9, <2>1, <2>2, TakenOut
<1>11. ListTypes'
  <2>1. next[s[k]] \in Node \cup {NULL}
    BY <1>2, <1>3 DEF ListTypes
  <2>2. next' \in [Node -> Node \cup {NULL}]
    BY <1>6, <2>1 DEF ListTypes
  <2> QED BY <1>6, <2>2 DEF ListTypes
<1>12. PICK q \in Seq(Data \cup {NULL}) :
           q = Items /\ Len(q) = len /\ \A m \in 1 .. len : q[m] = data[s[m]]
  BY <1>1, ItemsAre, DataType
<1>13. PICK v : v = List!Abstract!RemoveAt(q, k)
  OBVIOUS
<1>14. /\ v \in Seq(Data \cup {NULL}) /\ Len(v) = len - 1
       /\ \A m \in 1 .. len - 1 : v[m] = q[IF m < k THEN m ELSE m + 1]
  BY <1>3, <1>12, <1>13, RemoveAtElements
<1>15. \A m \in 1 .. len - 1 : data'[t[m]] = v[m]
  <2> TAKE m \in 1 .. len - 1
  <2>1. PICK i \in 1 .. len : i = IF m < k THEN m ELSE m + 1
    OBVIOUS
  <2>2. t[m] = s[i] /\ v[m] = q[i]
    BY <1>9, <1>14, <2>1
  <2> QED BY <1>6, <1>12, <2>1, <2>2
<1>16. Items' = v
  BY <1>3, <1>9, <1>10, <1>14, <1>15, ItemsNext
<1>17. k \in 2 .. Len(Items)
  BY <1>3, <1>12
<1> QED BY <1>6, <1>9, <1>10, <1>11, <1>12, <1>13, <1>16, <1>17 DEF ListInv

-----------------------------------------------------------------------------
(* The theorems.                                                            *)

LEMMA ListInitInv == ASSUME List!Init PROVE ListInv /\ List!Abstract!Init
<1>1. PICK s \in Seq(Node) : s = <<>> /\ Len(s) = 0
  <2>1. <<>> \in Seq(Node) /\ Len(<<>>) = 0
    BY EmptySeq
  <2> QED BY <2>1
<1>2. /\ used = {} /\ next = [n \in Node |-> NULL] /\ data = [n \in Node |-> NULL]
      /\ first = NULL /\ last = NULL /\ totalNode = 0
  BY DEF List!Init
<1>3. \A k \in 1 .. Len(s) : FALSE
  BY <1>1
<1>4. List!IsWalk(s)
  BY <1>1, <1>2, <1>3, WalkLinks
<1>5. Links(s)
  <2>1. used = {s[k] : k \in 1 .. Len(s)}
    BY <1>2, <1>3
  <2>2. \A j, k \in 1 .. Len(s) : s[j] = s[k] => j = k
    BY <1>3
  <2> QED BY <1>1, <1>2, <1>4, <2>1, <2>2 DEF Links
<1>6. ListTypes
  BY <1>2 DEF ListTypes
<1>7. Items = <<>>
  <2>1. Items = [k \in 1 .. 0 |-> data[s[k]]]
    BY <1>1, <1>5, ItemsAre DEF DataOf
  <2> QED BY <2>1
<1> QED BY <1>2, <1>5, <1>6, <1>7 DEF ListInv, Items, List!Abstract!Init

\* One step for each operation of list.c.
LEMMA ListStep == ASSUME ListInv, List!Next PROVE ListInv' /\ List!Abstract!Next
<1>1. PICK s \in Seq(Node) : Links(s)
  BY DEF ListInv
<1>2. ListTypes
  BY DEF ListInv
<1>3. ASSUME NEW d \in Data, List!addLast(d) PROVE ListInv' /\ List!Abstract!Add(d)
  <2>1. PICK n \in Node :
            /\ List!NewNode(n, d, IF first = NULL THEN [next EXCEPT ![n] = NULL]
                                  ELSE [next EXCEPT ![n] = NULL, ![last] = n])
            /\ first' = IF first = NULL THEN n ELSE first
            /\ last' = n
    BY <1>3 DEF List!addLast
  <2>2. ListInv' /\ Items' = Append(Items, d)
    BY <1>1, <1>2, <2>1, AddedLast
  <2>3. totalNode' = totalNode + 1
    BY <2>1 DEF List!NewNode
  <2> QED BY <2>2, <2>3, Zenon DEF Items, List!Abstract!Add
<1>4. ASSUME NEW d \in Data, List!addFirst(d) PROVE ListInv' /\ List!Abstract!Add(d)
  <2>1. PICK n \in Node : /\ List!NewNode(n, d, [next EXCEPT ![n] = first])
                          /\ first' = n
                          /\ last' = IF first = NULL THEN n ELSE last
    BY <1>4 DEF List!addFirst
  <2>2. ListInv' /\ Items' = <<d>> \o Items
    BY <1>1, <1>2, <2>1, AddedFirst
  <2>3. totalNode' = totalNode + 1
    BY <2>1 DEF List!NewNode
  <2> QED BY <2>2, <2>3, Zenon DEF Items, List!Abstract!Add, List!Abstract!Cons
<1>5. ASSUME List!deleteFirst PROVE ListInv' /\ List!Abstract!RemoveHead
  BY <1>1, <1>2, <1>5, DeletedFirst, Zenon DEF Items, List!Abstract!RemoveHead
<1>6. ASSUME List!deleteAllFromList PROVE ListInv' /\ List!Abstract!Clear
  BY <1>1, <1>2, <1>6, Cleared, Zenon DEF Items, List!Abstract!Clear
<1>7. ASSUME NEW func \in SUBSET Data, List!deleteOneFromListHaving(func), ~List!deleteFirst
      PROVE  ListInv' /\ List!Abstract!RemoveLater
  <2>1. List!Walk = s /\ DOMAIN s = 1 .. Len(s)
    BY <1>1, WalkIs, LenProperties
  <2>2. PICK k \in 1 .. Len(s) : k # 1 /\ List!unlink(s[k - 1])
    BY <1>7, <2>1, Zenon DEF List!deleteOneFromListHaving
  <2>3. /\ ListInv' /\ totalNode' = totalNode
        /\ k \in 2 .. Len(Items) /\ Items' = List!Abstract!RemoveAt(Items, k)
    BY <1>1, <1>2, <2>2, Unlinked
  <2> QED BY <2>3, Zenon DEF Items, List!Abstract!RemoveLater
<1> QED
  BY <1>3, <1>4, <1>5, <1>6, <1>7, Zenon
  DEF List!Next, List!enqueue, List!push, List!dequeue, List!pop, List!Abstract!Next

LEMMA ListStutters ==
    ASSUME ListInv, UNCHANGED List!vars PROVE ListInv' /\ UNCHANGED List!Abstract!listVars
<1>1. /\ used' = used /\ next' = next /\ data' = data /\ first' = first /\ last' = last
      /\ totalNode' = totalNode
  BY DEF List!vars, List!heapVars
<1>2. PICK s \in Seq(Node) : Links(s)
  BY DEF ListInv
<1>3. Links(s)'
  BY <1>1, <1>2 DEF Links, List!IsWalk
<1>4. ListTypes'
  BY <1>1 DEF ListInv, ListTypes
<1>5. List!Walk' = List!Walk
  BY <1>2, <1>3, WalkIs, WalkIsListNext DEF WalkIsList
<1> QED BY <1>1, <1>3, <1>4, <1>5 DEF ListInv, List!Abstract!listVars

\* The pointers always make up a list of the nodes that are allocated (list.c).
LEMMA ListInvAlways == List!Spec => []ListInv
<1>1. List!Init => ListInv
  BY ListInitInv
<1>2. ListInv /\ [List!Next]_List!vars => ListInv'
  BY ListStep, ListStutters
<1> QED BY <1>1, <1>2, PTL DEF List!Spec

\* No node is lost, and none is freed that the list leads to (list.c:127, 247-254): freed
\* and allocated nodes are never taken for each other, however often nodes are reused.
THEOREM ListLosesNoNode == List!Spec => []NoNodeIsLost
<1>1. ListInv => NoNodeIsLost
  <2> SUFFICES ASSUME ListInv PROVE NoNodeIsLost
    OBVIOUS
  <2>1. PICK s \in Seq(Node) : Links(s)
    BY DEF ListInv
  <2>2. List!Walk = s /\ DOMAIN s = 1 .. Len(s)
    BY <2>1, WalkIs, LenProperties
  <2>3. used = {s[k] : k \in 1 .. Len(s)}
    BY <2>1 DEF Links
  <2> QED BY <2>2, <2>3 DEF NoNodeIsLost, List!NoNodeIsLost, List!Range
<1> QED BY <1>1, ListInvAlways, PTL

\* The operations on pointers are those of a sequence and a count (list.c, queue.c): each
\* adds at an end, takes from the front, takes out one later element, or empties it.
THEOREM ListImplementsSeqList == List!Spec => ImplementsSeqList
<1>1. List!Init => List!Abstract!Init
  BY ListInitInv
<1>2. ListInv /\ [List!Next]_List!vars => [List!Abstract!Next]_List!Abstract!listVars
  BY ListStep, ListStutters
<1> QED
  BY <1>1, <1>2, ListInvAlways, PTL
  DEF List!Spec, ImplementsSeqList, List!ImplementsSeqList, List!Abstract!Spec
=============================================================================
