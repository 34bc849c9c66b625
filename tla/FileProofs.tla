------------------------------ MODULE FileProofs ------------------------------
(***************************************************************************)
(* Proofs about the virtual file system and the shell.                     *)
(*                                                                         *)
(* The links of the nodes are related to K, which gives every node the     *)
(* list of its children, and to T, the nodes that are in no list: TreeOf.  *)
(* Every operation is a sequence of a few changes of (node, K, T), each    *)
(* shown to keep TreeOf on its own.                                        *)
(***************************************************************************)
EXTENDS Shell, NatInduction

-----------------------------------------------------------------------------
(* Trees.                                                                  *)

Held(f) == {n \in Nodes : f[n].type # "none"}

(* s is what is met along next, from the first child of p on.              *)
ListOf(f, p, s) ==
  /\ s \in Seq(Held(f))
  /\ s = <<>> => f[p].children = NoNode
  /\ s # <<>> => f[p].children = s[1] /\ f[s[Len(s)]].next = NoNode
  /\ \A i \in 1 .. Len(s) - 1 : f[s[i]].next = s[i + 1]
  /\ \A i, j \in 1 .. Len(s) : s[i] = s[j] => i = j
  /\ \A i \in 1 .. Len(s) : f[s[i]].parent = p

(* No nodes but those of T are their own ancestors.                        *)
Grounded(f, T) ==
  \A S \in SUBSET (Held(f) \ T) : (\A n \in S : f[n].parent \in S) => S = {}

In(n, s) == \E i \in 1 .. Len(s) : s[i] = n

Placed(f, K, T, n) ==
  /\ n \in T => \A p \in Nodes : ~ In(n, K[p])
  /\ n \notin T => f[n].parent \in Nodes /\ In(n, K[f[n].parent])

TreeOf(f, K, T) ==
  /\ f \in [Nodes -> Node]
  /\ T \in SUBSET Held(f)
  /\ \A p \in Nodes : ListOf(f, p, K[p]) /\ (f[p].type # "folder" => K[p] = <<>>)
  /\ \A n \in Held(f) : Placed(f, K, T, n)
  /\ Grounded(f, T)

LEMMA SizeIs == Cardinality(Nodes) \in Nat
  BY VfsAssumption, FS_CardinalityType

(* The first m elements.                                                   *)
LEMMA Prefix ==
  ASSUME NEW S, NEW s \in Seq(S), NEW m \in 0 .. Len(s)
  PROVE  /\ SubSeq(s, 1, m) \in Seq(S) /\ Len(SubSeq(s, 1, m)) = m
         /\ \A i \in 1 .. m : SubSeq(s, 1, m)[i] = s[i]
         /\ m = 0 => SubSeq(s, 1, m) = <<>>
         /\ m # 0 => SubSeq(s, 1, m) # <<>> /\ Last(SubSeq(s, 1, m)) = s[m]
         /\ m = Len(s) => SubSeq(s, 1, m) = s
  <1>1. PICK t : t = SubSeq(s, 1, m)
    OBVIOUS
  <1>2. t \in Seq(S) /\ Len(t) = m /\ \A i \in 1 .. m : t[i] = s[i]
    BY <1>1
  <1>3. m = 0 => t = <<>>
    BY <1>2
  <1>4. m # 0 => t # <<>> /\ Last(t) = s[m]
    BY <1>2 DEF Last
  <1>5. m = Len(s) => t = s
    BY <1>2
  <1>6. QED
    BY <1>1, <1>2, <1>3, <1>4, <1>5

(* The recursion of List.                                                  *)
ListStep(f, met) ==
  LET next == IF met = <<>> THEN NoNode ELSE f[Last(met)].next
  IN IF next = NoNode THEN met ELSE Append(met, next)

ListBody(f, first, h) ==
  h = [k \in 0 .. Cardinality(Nodes) |->
         IF k = 0 THEN IF first = NoNode THEN <<>> ELSE <<first>>
         ELSE ListStep(f, h[k - 1])]

LEMMA ListIs ==
  ASSUME NEW f, NEW first
  PROVE  List(f, first) = (CHOOSE h : ListBody(f, first, h))[Cardinality(Nodes)]
  BY Zenon DEF List, ListBody, ListStep

LEMMA ListFits ==
  ASSUME NEW f, NEW p, NEW s, ListOf(f, p, s)
  PROVE  Len(s) \in Nat /\ Len(s) <= Cardinality(Nodes)
  <1>1. PICK n \in Nat : n = Len(s)
    BY DEF ListOf
  <1>2. s \in [1 .. n -> Nodes]
    <2>1. s \in Seq(Nodes)
      BY DEF ListOf, Held
    <2>2. QED
      BY <1>1, <2>1
  <1>3. \A i, j \in 1 .. n : s[i] = s[j] => i = j
    BY <1>1 DEF ListOf
  <1>4. QED
    BY <1>1, <1>2, <1>3, InjectiveLength, VfsAssumption

(* The list of a node's children is found by walking along it.             *)
LEMMA ListWalk ==
  ASSUME NEW f, NEW p, NEW s, ListOf(f, p, s)
  PROVE  Children(f, p) = s
  <1>1. PICK N \in Nat : N = Cardinality(Nodes)
    BY SizeIs
  <1>2. PICK n \in Nat : n = Len(s) /\ n <= N
    BY <1>1, ListFits
  <1> DEFINE Upto(k) == IF k + 1 <= n THEN k + 1 ELSE n
             w == [k \in 0 .. N |-> SubSeq(s, 1, Upto(k))]
             first == f[p].children
  <1>3. s \in Seq(Nodes) /\ \A i \in 1 .. n : s[i] \in Nodes /\ s[i] # NoNode
    <2>1. s \in Seq(Nodes)
      BY DEF ListOf, Held
    <2>2. QED
      BY <1>2, <2>1, VfsAssumption
  <1>4. \A k \in 0 .. N :
          w[k] = IF k = 0 THEN IF first = NoNode THEN <<>> ELSE <<first>>
                 ELSE ListStep(f, w[k - 1])
    <2> SUFFICES ASSUME NEW k \in 0 .. N
                 PROVE  w[k] = IF k = 0 THEN IF first = NoNode THEN <<>> ELSE <<first>>
                               ELSE ListStep(f, w[k - 1])
      OBVIOUS
    <2>1. CASE n = 0
      <3>1. s = <<>> /\ \A j \in 0 .. N : w[j] = <<>>
        <4>1. \A j \in 0 .. N : w[j] = SubSeq(s, 1, 0)
          BY <1>2, <2>1
        <4>2. SubSeq(s, 1, 0) = <<>> /\ s = <<>>
          <5>1. s \in Seq(Nodes) /\ 0 \in 0 .. Len(s) /\ s = <<>>
            <6>1. s \in Seq(Nodes) /\ Len(s) = 0
              BY <1>2, <1>3, <2>1
            <6>2. QED
              BY <6>1
          <5>2. SubSeq(s, 1, 0) = <<>>
            BY <5>1, Prefix
          <5>3. QED
            BY <5>1, <5>2
        <4>3. QED
          BY <4>1, <4>2
      <3>2. first = NoNode
        BY <3>1 DEF ListOf
      <3>3. ListStep(f, <<>>) = <<>>
        BY DEF ListStep
      <3>4. w[k] = <<>> /\ (k # 0 => w[k - 1] = <<>>)
        <4>1. k # 0 => k - 1 \in 0 .. N
          OBVIOUS
        <4>2. QED
          BY <3>1, <4>1
      <3> HIDE DEF w
      <3>5. QED
        BY <3>2, <3>3, <3>4
    <2>2. CASE n # 0 /\ k = 0
      <3>1. first = s[1] /\ first # NoNode
        BY <1>2, <1>3, <2>2 DEF ListOf
      <3>2. w[0] = <<s[1]>>
        <4>1. w[0] = SubSeq(s, 1, 1)
          BY <1>2, <2>2
        <4>2. PICK t : t = SubSeq(s, 1, 1)
          OBVIOUS
        <4>3. t \in Seq(Nodes) /\ Len(t) = 1 /\ t[1] = s[1]
          BY <1>2, <1>3, <2>2, <4>2, Prefix
        <4>4. t = <<s[1]>>
          BY <4>3
        <4>5. QED
          BY <4>1, <4>2, <4>4
      <3>3. QED
        BY <2>2, <3>1, <3>2
    <2>3. CASE n # 0 /\ k # 0 /\ k < n
      <3>1. w[k - 1] = SubSeq(s, 1, k) /\ w[k] = SubSeq(s, 1, k + 1)
        BY <2>3
      <3>2. w[k - 1] # <<>> /\ Last(w[k - 1]) = s[k]
        <4>1. PICK m \in 0 .. Len(s) : m = k /\ m # 0
          BY <1>2, <2>3
        <4>2. SubSeq(s, 1, m) # <<>> /\ Last(SubSeq(s, 1, m)) = s[m]
          BY <1>3, <4>1, Prefix
        <4>3. QED
          BY <3>1, <4>1, <4>2, Zenon
      <3>3. f[s[k]].next = s[k + 1] /\ s[k + 1] # NoNode
        BY <1>2, <1>3, <2>3 DEF ListOf
      <3>4. ListStep(f, w[k - 1]) = Append(w[k - 1], s[k + 1])
        BY <3>2, <3>3, Zenon DEF ListStep
      <3>5. Append(SubSeq(s, 1, k), s[k + 1]) = SubSeq(s, 1, k + 1)
        BY <1>2, <1>3, <2>3
      <3>6. QED
        BY <2>3, <3>1, <3>4, <3>5
    <2>4. CASE n # 0 /\ k # 0 /\ ~ (k < n)
      <3>1. w[k - 1] = SubSeq(s, 1, n) /\ w[k] = SubSeq(s, 1, n)
        BY <1>2, <2>4
      <3>2. w[k - 1] # <<>> /\ Last(w[k - 1]) = s[n]
        BY <1>2, <1>3, <2>4, <3>1 DEF Last
      <3>3. f[s[n]].next = NoNode
        BY <1>2, <1>3, <2>4 DEF ListOf
      <3>4. ListStep(f, w[k - 1]) = w[k - 1]
        BY <3>2, <3>3, Zenon DEF ListStep
      <3>5. QED
        BY <2>4, <3>1, <3>4
    <2>5. QED
      BY <2>1, <2>2, <2>3, <2>4
  <1>5. w = [k \in 0 .. N |-> w[k]]
    OBVIOUS
  <1>6. w[N] = s
    <2>1. Upto(N) = n /\ SubSeq(s, 1, n) = s
      BY <1>2, <1>3
    <2>2. QED
      BY <2>1
  <1> HIDE DEF w, Upto
  <1>7. ListBody(f, first, w)
    <2>1. w = [k \in 0 .. N |-> IF k = 0 THEN IF first = NoNode THEN <<>> ELSE <<first>>
                                ELSE ListStep(f, w[k - 1])]
      BY <1>4, <1>5
    <2>2. QED
      BY <1>1, <2>1, Zenon DEF ListBody
  <1>8. PICK c : c = CHOOSE h : ListBody(f, first, h)
    OBVIOUS
  <1>9. ListBody(f, first, c)
    BY <1>7, <1>8, Zenon
  <1>10. \A k \in 0 .. N :
           c[k] = IF k = 0 THEN IF first = NoNode THEN <<>> ELSE <<first>>
                  ELSE ListStep(f, c[k - 1])
    <2>1. c = [k \in 0 .. N |-> IF k = 0 THEN IF first = NoNode THEN <<>> ELSE <<first>>
                                ELSE ListStep(f, c[k - 1])]
      BY <1>1, <1>9, Zenon DEF ListBody
    <2>2. QED
      BY <2>1, Zenon
  <1>11. \A k \in 0 .. N : c[k] = w[k]
    <2>1. c[0] = w[0]
      BY <1>4, <1>10
    <2>2. \A k \in 1 .. N : c[k - 1] = w[k - 1] => c[k] = w[k]
      BY <1>4, <1>10
    <2>3. QED
      BY <2>1, <2>2, SameWalk
  <1>12. c[N] = s
    BY <1>6, <1>11
  <1>13. QED
    BY <1>1, <1>8, <1>12, ListIs DEF Children

-----------------------------------------------------------------------------
(* What TreeOf says of one node.                                           *)

LEMMA TreeList ==
  ASSUME NEW f, NEW K, NEW T, TreeOf(f, K, T), NEW p \in Nodes
  PROVE  Children(f, p) = K[p] /\ ListOf(f, p, K[p]) /\ K[p] \in Seq(Held(f)) /\ Len(K[p]) \in Nat
  <1>1. ListOf(f, p, K[p])
    BY DEF TreeOf
  <1>2. Children(f, p) = K[p]
    BY <1>1, ListWalk
  <1>3. K[p] \in Seq(Held(f))
    BY <1>1 DEF ListOf
  <1>4. QED
    BY <1>1, <1>2, <1>3

LEMMA ChildIs ==
  ASSUME NEW f, NEW K, NEW T, TreeOf(f, K, T), NEW p \in Nodes, NEW c, In(c, K[p])
  PROVE  /\ c \in Held(f) /\ c \in Nodes /\ c \notin T /\ f[c].parent = p
         /\ p \in Held(f) /\ f[p].type = "folder"
  <1>1. PICK s \in Seq(Held(f)) : s = K[p] /\ ListOf(f, p, s)
    BY TreeList
  <1>2. PICK i \in 1 .. Len(s) : c = s[i]
    BY <1>1 DEF In
  <1>3. c \in Held(f) /\ f[c].parent = p
    BY <1>1, <1>2 DEF ListOf
  <1>4. c \in Nodes /\ Placed(f, K, T, c)
    BY <1>3 DEF TreeOf, Held
  <1>5. c \notin T
    BY <1>4 DEF Placed
  <1>6. f[p].type = "folder"
    <2>1. s # <<>>
      BY <1>2
    <2>2. QED
      BY <1>1, <2>1 DEF TreeOf
  <1>7. QED
    BY <1>3, <1>4, <1>5, <1>6 DEF Held

LEMMA ParentIs ==
  ASSUME NEW f, NEW K, NEW T, TreeOf(f, K, T), NEW n \in Held(f), n \notin T
  PROVE  /\ f[n].parent \in Nodes /\ f[n].parent \in Held(f) /\ In(n, K[f[n].parent])
         /\ f[f[n].parent].type = "folder"
  <1>1. f[n].parent \in Nodes /\ In(n, K[f[n].parent])
    BY DEF TreeOf, Placed
  <1>2. QED
    BY <1>1, ChildIs

LEMMA NotOwnChild ==
  ASSUME NEW f, NEW K, NEW T, TreeOf(f, K, T), NEW p \in Nodes
  PROVE  ~ In(p, K[p])
  <1> SUFFICES ASSUME In(p, K[p]) PROVE FALSE
    OBVIOUS
  <1>1. p \in Held(f) /\ p \notin T /\ f[p].parent = p
    BY ChildIs
  <1>2. PICK S \in SUBSET (Held(f) \ T) : S = {p}
    BY <1>1
  <1>3. S = {}
    BY <1>1, <1>2 DEF TreeOf, Grounded
  <1>4. QED
    BY <1>2, <1>3

(* Every list ends before it has met all nodes.                            *)
LEMMA ListShort ==
  ASSUME NEW f, NEW K, NEW T, TreeOf(f, K, T), NEW p \in Nodes
  PROVE  Len(K[p]) < Cardinality(Nodes)
  <1>1. PICK s \in Seq(Held(f)), m \in Nat : s = K[p] /\ ListOf(f, p, s) /\ m = Len(s)
    BY TreeList
  <1>2. PICK S : S = Nodes \ {p}
    OBVIOUS
  <1>3. IsFiniteSet(S) /\ Cardinality(S) = Cardinality(Nodes) - 1
    BY <1>2, VfsAssumption, FS_RemoveElement
  <1>4. \A i \in 1 .. m : s[i] \in S
    <2>1. ASSUME NEW i \in 1 .. m PROVE s[i] \in Nodes /\ s[i] # p
      <3>1. In(s[i], K[p])
        BY <1>1 DEF In
      <3>2. QED
        BY <3>1, NotOwnChild, ChildIs
    <2>2. QED
      BY <1>2, <2>1
  <1>5. s \in [1 .. m -> S]
    BY <1>1, <1>4
  <1>6. m <= Cardinality(S)
    <2>1. \A i, j \in 1 .. m : s[i] = s[j] => i = j
      BY <1>1 DEF ListOf
    <2>2. QED
      BY <1>3, <1>5, <2>1, InjectiveLength
  <1>7. QED
    BY <1>1, <1>3, <1>6, SizeIs

-----------------------------------------------------------------------------
(* Changes that move no node.                                              *)

(* The same but for the links to the first child and to the next.          *)
Alike(r, q) ==
  /\ r.type = q.type /\ r.name = q.name /\ r.parent = q.parent
  /\ r.size = q.size /\ r.has = q.has /\ r.data = q.data

Relinked(f, g) ==
  /\ g \in [Nodes -> Node] /\ Held(g) = Held(f)
  /\ \A m \in Nodes : Alike(f[m], g[m])

SameNext(f, g, T) == \A m \in T : g[m].next = f[m].next

SameLinks(r, q) ==
  /\ r.type = q.type /\ r.parent = q.parent /\ r.children = q.children /\ r.next = q.next

LEMMA SameListOf ==
  ASSUME NEW f, NEW g, NEW p \in Nodes, NEW s, ListOf(f, p, s), Held(f) \in SUBSET Held(g),
         g[p].children = f[p].children,
         \A i \in 1 .. Len(s) : g[s[i]].next = f[s[i]].next /\ g[s[i]].parent = f[s[i]].parent
  PROVE  ListOf(g, p, s)
  <1>1. PICK m \in Nat : m = Len(s)
    BY DEF ListOf
  <1>2. s \in Seq(Held(g))
    <2>1. s \in Seq(Held(f))
      BY DEF ListOf
    <2>2. QED
      BY <2>1
  <1>3. s # <<>> => m \in 1 .. m
    BY <1>1, <1>2
  <1>4. QED
    BY <1>1, <1>2, <1>3 DEF ListOf

LEMMA SameTree ==
  ASSUME NEW f, NEW K, NEW T, TreeOf(f, K, T), NEW g \in [Nodes -> Node],
         \A n \in Nodes : SameLinks(f[n], g[n])
  PROVE  TreeOf(g, K, T) /\ Held(g) = Held(f)
  <1>1. Held(g) = Held(f)
    BY DEF Held, SameLinks
  <1>2. ASSUME NEW p \in Nodes
        PROVE  ListOf(g, p, K[p]) /\ (g[p].type # "folder" => K[p] = <<>>)
    <2>1. ListOf(f, p, K[p]) /\ (f[p].type # "folder" => K[p] = <<>>)
      BY DEF TreeOf
    <2>2. \A i \in 1 .. Len(K[p]) : K[p][i] \in Nodes
      <3>1. K[p] \in Seq(Held(f))
        BY <2>1 DEF ListOf
      <3>2. QED
        BY <3>1 DEF Held
    <2>3. ListOf(g, p, K[p])
      BY <1>1, <2>1, <2>2, SameListOf DEF SameLinks
    <2>4. QED
      BY <2>1, <2>3 DEF SameLinks
  <1>3. ASSUME NEW n \in Held(g) PROVE Placed(g, K, T, n)
    BY <1>1 DEF TreeOf, Placed, SameLinks, Held
  <1>4. Grounded(g, T)
    BY <1>1 DEF TreeOf, Grounded, SameLinks, Held
  <1>5. QED
    BY <1>1, <1>2, <1>3, <1>4 DEF TreeOf

(* A node becomes, or stays, one that is in no list.                       *)
LEMMA NewTop ==
  ASSUME NEW f, NEW K, NEW T, TreeOf(f, K, T), NEW g \in [Nodes -> Node], NEW n \in Nodes,
         \A m \in Nodes : m # n => g[m] = f[m],
         n \in Held(f) => n \in T /\ g[n].children = f[n].children,
         n \notin Held(f) => g[n].children = NoNode,
         n \in Held(g), g[n].type = f[n].type \/ K[n] = <<>>
  PROVE  TreeOf(g, K, T \cup {n}) /\ Held(g) = Held(f) \cup {n}
  <1>1. Held(g) = Held(f) \cup {n}
    BY DEF Held
  <1>2. \A p \in Nodes : ~ In(n, K[p])
    <2>1. SUFFICES ASSUME NEW p \in Nodes, In(n, K[p]) PROVE FALSE
      OBVIOUS
    <2>2. n \in Held(f) /\ n \notin T
      BY <2>1, ChildIs
    <2>3. QED
      BY <2>2
  <1>3. n \notin Held(f) => K[n] = <<>>
    BY DEF TreeOf, Held
  <1>4. ASSUME NEW p \in Nodes
        PROVE  ListOf(g, p, K[p]) /\ (g[p].type # "folder" => K[p] = <<>>)
    <2>1. ListOf(f, p, K[p]) /\ (f[p].type # "folder" => K[p] = <<>>)
      BY DEF TreeOf
    <2>2. \A i \in 1 .. Len(K[p]) : K[p][i] \in Nodes /\ K[p][i] # n
      <3>1. K[p] \in Seq(Held(f))
        BY <2>1 DEF ListOf
      <3>2. QED
        BY <1>2, <3>1 DEF Held, In
    <2>3. g[p].children = f[p].children
      BY <1>3, <2>1 DEF ListOf
    <2>4. ListOf(g, p, K[p])
      BY <1>1, <2>1, <2>2, <2>3, SameListOf
    <2>5. QED
      BY <1>3, <2>1, <2>4
  <1>5. ASSUME NEW m \in Held(g) PROVE Placed(g, K, T \cup {n}, m)
    <2>1. CASE m = n
      BY <1>2, <2>1 DEF Placed
    <2>2. CASE m # n
      <3>1. Placed(f, K, T, m) /\ g[m] = f[m]
        BY <1>1, <2>2 DEF TreeOf, Held
      <3>2. QED
        BY <2>2, <3>1 DEF Placed
    <2>3. QED
      BY <2>1, <2>2
  <1>6. Grounded(g, T \cup {n})
    <2>1. SUFFICES ASSUME NEW S \in SUBSET (Held(g) \ (T \cup {n})), \A m \in S : g[m].parent \in S
                   PROVE  S = {}
      BY DEF Grounded
    <2>2. S \in SUBSET (Held(f) \ T)
      BY <1>1, <2>1
    <2>3. \A m \in S : f[m].parent \in S
      BY <2>1 DEF Held
    <2>4. QED
      BY <2>2, <2>3 DEF TreeOf, Grounded
  <1>7. T \cup {n} \in SUBSET Held(g)
    BY <1>1 DEF TreeOf
  <1>8. QED
    BY <1>1, <1>4, <1>5, <1>6, <1>7 DEF TreeOf

-----------------------------------------------------------------------------
(* Links set.                                                              *)

SetsChildren(f, g, p, c) ==
  /\ g \in [Nodes -> Node]
  /\ \A m \in Nodes : Alike(f[m], g[m]) /\ g[m].next = f[m].next
  /\ g[p].children = c
  /\ \A m \in Nodes : m # p => g[m].children = f[m].children

SetsNext(f, g, l, c) ==
  /\ g \in [Nodes -> Node]
  /\ \A m \in Nodes : Alike(f[m], g[m]) /\ g[m].children = f[m].children
  /\ g[l].next = c
  /\ \A m \in Nodes : m # l => g[m].next = f[m].next

LEMMA ChildrenSet ==
  ASSUME NEW f \in [Nodes -> Node], NEW p \in Nodes, NEW c \in Nodes \cup {NoNode}
  PROVE  SetsChildren(f, [f EXCEPT ![p].children = c], p, c)
  <1>1. PICK g : g = [f EXCEPT ![p].children = c]
    OBVIOUS
  <1>2. f[p] \in Node
    OBVIOUS
  <1>3. PICK r : r = [f[p] EXCEPT !.children = c]
    OBVIOUS
  <1>4. r \in Node /\ Alike(f[p], r) /\ r.next = f[p].next /\ r.children = c
    BY <1>2, <1>3 DEF Node, Alike
  <1>5. g[p] = r /\ \A m \in Nodes : m # p => g[m] = f[m]
    BY <1>1, <1>3
  <1>6. g \in [Nodes -> Node]
    <2>1. \A m \in Nodes : g[m] \in Node
      BY <1>4, <1>5
    <2>2. g = [m \in Nodes |-> g[m]]
      BY <1>1
    <2>3. QED
      BY <2>1, <2>2
  <1>7. \A m \in Nodes : Alike(f[m], f[m])
    BY DEF Alike
  <1>8. SetsChildren(f, g, p, c)
    BY <1>4, <1>5, <1>6, <1>7 DEF SetsChildren
  <1>9. QED
    BY <1>1, <1>8

LEMMA NextSet ==
  ASSUME NEW f \in [Nodes -> Node], NEW p \in Nodes, NEW c \in Nodes \cup {NoNode}
  PROVE  SetsNext(f, [f EXCEPT ![p].next = c], p, c)
  <1>1. PICK g : g = [f EXCEPT ![p].next = c]
    OBVIOUS
  <1>2. f[p] \in Node
    OBVIOUS
  <1>3. PICK r : r = [f[p] EXCEPT !.next = c]
    OBVIOUS
  <1>4. r \in Node /\ Alike(f[p], r) /\ r.children = f[p].children /\ r.next = c
    BY <1>2, <1>3 DEF Node, Alike
  <1>5. g[p] = r /\ \A m \in Nodes : m # p => g[m] = f[m]
    BY <1>1, <1>3
  <1>6. g \in [Nodes -> Node]
    <2>1. \A m \in Nodes : g[m] \in Node
      BY <1>4, <1>5
    <2>2. g = [m \in Nodes |-> g[m]]
      BY <1>1
    <2>3. QED
      BY <2>1, <2>2
  <1>7. \A m \in Nodes : Alike(f[m], f[m])
    BY DEF Alike
  <1>8. SetsNext(f, g, p, c)
    BY <1>4, <1>5, <1>6, <1>7 DEF SetsNext
  <1>9. QED
    BY <1>1, <1>8

Elsewhere(f, g, K, L, p) ==
  \A m \in Nodes : m # p => /\ L[m] = K[m] /\ g[m].children = f[m].children
                            /\ \A c \in Nodes : In(c, K[m]) => g[c].next = f[c].next

OthersStay(K, L, T, U, p, n) ==
  \A m \in Nodes : m # n => (In(m, L[p]) <=> In(m, K[p])) /\ (m \in U <=> m \in T)

(* The list of one node changes by one node, which joins or leaves T.      *)
LEMMA ListChanged ==
  ASSUME NEW f, NEW K, NEW T, TreeOf(f, K, T), NEW g \in [Nodes -> Node],
         \A m \in Nodes : Alike(f[m], g[m]),
         NEW p \in Nodes, NEW n \in Held(f), NEW L, NEW U \in SUBSET Held(f),
         ListOf(g, p, L[p]), g[p].type # "folder" => L[p] = <<>>,
         Elsewhere(f, g, K, L, p), OthersStay(K, L, T, U, p, n),
         n \in U => ~ In(n, L[p]) /\ f[n].parent = p,
         n \notin U => In(n, L[p]) /\ n \in T /\ f[n].parent = p,
         n \in T => n \notin U, Grounded(f, U)
  PROVE  TreeOf(g, L, U) /\ Held(g) = Held(f)
  <1>1. Held(g) = Held(f)
    BY DEF Held, Alike
  <1>2. ASSUME NEW m \in Nodes
        PROVE  ListOf(g, m, L[m]) /\ (g[m].type # "folder" => L[m] = <<>>)
    <2>1. CASE m # p
      <3>1. ListOf(f, m, K[m]) /\ (f[m].type # "folder" => K[m] = <<>>)
        BY DEF TreeOf
      <3>2. \A i \in 1 .. Len(K[m]) : K[m][i] \in Nodes /\ In(K[m][i], K[m])
        <4>1. K[m] \in Seq(Held(f))
          BY <3>1 DEF ListOf
        <4>2. QED
          BY <4>1 DEF Held, In
      <3>3. g[m].children = f[m].children /\ L[m] = K[m]
            /\ \A c \in Nodes : In(c, K[m]) => g[c].next = f[c].next
        BY <2>1 DEF Elsewhere
      <3>4. ListOf(g, m, K[m])
        <4>1. \A i \in 1 .. Len(K[m]) : /\ g[K[m][i]].next = f[K[m][i]].next
                                        /\ g[K[m][i]].parent = f[K[m][i]].parent
          BY <3>2, <3>3 DEF Alike
        <4>2. QED
          BY <1>1, <3>1, <3>3, <4>1, SameListOf
      <3>5. QED
        BY <2>1, <3>1, <3>3, <3>4 DEF Alike
    <2>2. QED
      BY <2>1
  <1>3. ASSUME NEW m \in Held(f) PROVE Placed(g, L, U, m)
    <2>1. m \in Nodes /\ g[m].parent = f[m].parent /\ Placed(f, K, T, m)
      BY DEF TreeOf, Held, Alike
    <2>2. CASE m # n
      <3>1. \A q \in Nodes : In(m, L[q]) <=> In(m, K[q])
        BY <2>1, <2>2 DEF OthersStay, Elsewhere
      <3>2. m \in U <=> m \in T
        BY <2>1, <2>2 DEF OthersStay
      <3>3. QED
        BY <2>1, <3>1, <3>2 DEF Placed
    <2>3. CASE m = n /\ n \in U
      <3>1. ASSUME NEW q \in Nodes, In(n, L[q]) PROVE FALSE
        <4>1. q # p
          BY <2>3, <3>1
        <4>2. In(n, K[q])
          BY <3>1, <4>1 DEF Elsewhere
        <4>3. f[n].parent = q
          BY <4>2, ChildIs
        <4>4. QED
          BY <2>3, <4>1, <4>3
      <3>2. QED
        BY <2>3, <3>1 DEF Placed
    <2>4. CASE m = n /\ n \notin U
      BY <2>1, <2>4 DEF Placed
    <2>5. QED
      BY <2>2, <2>3, <2>4
  <1>4. Grounded(g, U)
    <2>1. \A m \in Held(f) : g[m].parent = f[m].parent
      BY DEF Alike, Held
    <2>2. QED
      BY <1>1, <2>1 DEF Grounded
  <1>5. QED
    BY <1>1, <1>2, <1>3, <1>4 DEF TreeOf

-----------------------------------------------------------------------------
(* A node of T is put at the end of a list.                                *)

LEMMA AppendIs ==
  ASSUME NEW S, NEW s \in Seq(S), NEW n \in S
  PROVE  /\ Append(s, n) \in Seq(S) /\ Len(Append(s, n)) = Len(s) + 1
         /\ \A i \in 1 .. Len(s) : Append(s, n)[i] = s[i]
         /\ Append(s, n)[Len(s) + 1] = n
  OBVIOUS

LEMMA AppendIn ==
  ASSUME NEW S, NEW s \in Seq(S), NEW n \in S, NEW m
  PROVE  In(m, Append(s, n)) <=> In(m, s) \/ m = n
  <1>1. PICK k \in Nat : k = Len(s)
    OBVIOUS
  <1>2. PICK t : t = Append(s, n)
    OBVIOUS
  <1>3. Len(t) = k + 1 /\ t[k + 1] = n /\ \A i \in 1 .. k : t[i] = s[i]
    BY <1>1, <1>2, AppendIs
  <1>4. In(m, t) => In(m, s) \/ m = n
    BY <1>1, <1>3 DEF In
  <1>5. In(m, s) => In(m, t)
    BY <1>1, <1>3 DEF In
  <1>6. m = n => In(m, t)
    <2>1. k + 1 \in 1 .. k + 1
      BY <1>1
    <2>2. QED
      BY <1>3, <2>1 DEF In
  <1>7. QED
    BY <1>2, <1>4, <1>5, <1>6

Appended(K, p, n) == [m \in Nodes |-> IF m = p THEN Append(K[p], n) ELSE K[m]]

LEMMA AppendedList ==
  ASSUME NEW f, NEW g \in [Nodes -> Node], NEW p \in Nodes, NEW n \in Held(f), NEW s,
         ListOf(f, p, s), ~ In(n, s), f[n].parent = p, f[n].next = NoNode,
         \A m \in Nodes : Alike(f[m], g[m]),
         s = <<>> => SetsChildren(f, g, p, n),
         s # <<>> => SetsNext(f, g, s[Len(s)], n)
  PROVE  ListOf(g, p, Append(s, n))
  <1>1. PICK k \in Nat : k = Len(s)
    BY DEF ListOf
  <1>2. s \in Seq(Held(f)) /\ s \in Seq(Nodes)
    BY DEF ListOf, Held
  <1>3. PICK t : t = Append(s, n)
    OBVIOUS
  <1>4. /\ t \in Seq(Held(f)) /\ t \in Seq(Nodes) /\ Len(t) = k + 1
        /\ t[k + 1] = n /\ \A i \in 1 .. k : t[i] = s[i]
    <2>1. n \in Held(f) /\ n \in Nodes
      BY DEF Held
    <2>2. QED
      BY <1>1, <1>2, <1>3, <2>1, AppendIs
  <1>5. \A i \in 1 .. k : s[i] # n /\ s[i] \in Nodes
    BY <1>1, <1>2 DEF In
  <1>6. Held(g) = Held(f)
    BY DEF Alike, Held
  <1>7. n \in Nodes
    BY DEF Held
  <1>8. \A i \in 1 .. k + 1 : g[t[i]].parent = p
    <2>1. \A i \in 1 .. k + 1 : f[t[i]].parent = p /\ t[i] \in Nodes
      <3>1. ASSUME NEW i \in 1 .. k + 1 PROVE f[t[i]].parent = p /\ t[i] \in Nodes
        <4>1. CASE i = k + 1
          BY <1>4, <1>7, <4>1
        <4>2. CASE i # k + 1
          <5>1. i \in 1 .. k
            BY <4>2
          <5>2. f[s[i]].parent = p
            BY <1>1, <5>1 DEF ListOf
          <5>3. QED
            BY <1>4, <1>5, <5>1, <5>2
        <4>3. QED
          BY <4>1, <4>2
      <3>2. QED
        BY <3>1
    <2>2. QED
      BY <2>1 DEF Alike
  <1>9. \A i, j \in 1 .. k + 1 : t[i] = t[j] => i = j
    <2>1. \A i, j \in 1 .. k : s[i] = s[j] => i = j
      BY <1>1 DEF ListOf
    <2>2. QED
      BY <1>4, <1>5, <2>1
  <1>10. g[p].children = t[1] /\ g[n].next = NoNode /\ \A i \in 1 .. k : g[t[i]].next = t[i + 1]
    <2>1. CASE s = <<>>
      <3>1. k = 0
        BY <1>1, <2>1
      <3>2. g[p].children = n /\ g[n].next = f[n].next
        BY <1>7, <2>1 DEF SetsChildren
      <3>3. QED
        BY <1>4, <3>1, <3>2
    <2>2. CASE s # <<>>
      <3>1. k # 0 /\ k \in 1 .. k /\ 1 \in 1 .. k
        BY <1>1, <1>2, <2>2
      <3>2. SetsNext(f, g, s[k], n)
        BY <1>1, <2>2
      <3>3. g[n].next = NoNode
        BY <1>5, <1>7, <3>1, <3>2 DEF SetsNext
      <3>4. g[p].children = t[1]
        BY <1>1, <1>4, <2>2, <3>1, <3>2 DEF SetsNext, ListOf
      <3>5. ASSUME NEW i \in 1 .. k PROVE g[t[i]].next = t[i + 1]
        <4>1. CASE i = k
          BY <1>4, <3>2, <4>1 DEF SetsNext
        <4>2. CASE i # k
          <5>1. i \in 1 .. k - 1 /\ i + 1 \in 1 .. k
            BY <4>2
          <5>2. f[s[i]].next = s[i + 1]
            BY <1>1, <5>1 DEF ListOf
          <5>3. s[i] # s[k]
            BY <1>1, <3>1, <4>2 DEF ListOf
          <5>4. g[s[i]].next = s[i + 1]
            BY <1>5, <3>2, <5>2, <5>3 DEF SetsNext
          <5>5. QED
            BY <1>4, <5>1, <5>4
        <4>3. QED
          BY <4>1, <4>2
      <3>6. QED
        BY <3>3, <3>4, <3>5
    <2>3. QED
      BY <2>1, <2>2
  <1>11. ListOf(g, p, t)
    <2>1. t # <<>>
      BY <1>4
    <2>2. k + 1 - 1 = k
      OBVIOUS
    <2>3. QED
      BY <1>4, <1>6, <1>8, <1>9, <1>10, <2>1, <2>2 DEF ListOf
  <1>12. QED
    BY <1>3, <1>11

LEMMA Attached ==
  ASSUME NEW f, NEW K, NEW T, TreeOf(f, K, T), NEW n \in T, NEW p \in Nodes,
         f[p].type = "folder", f[n].parent = p, f[n].next = NoNode,
         Grounded(f, T \ {n}),
         NEW g, g = vfs_insert_node(f, p, n)
  PROVE  TreeOf(g, Appended(K, p, n), T \ {n}) /\ Relinked(f, g) /\ SameNext(f, g, T)
  <1>1. n \in Held(f) /\ n \in Nodes /\ f \in [Nodes -> Node]
    BY DEF TreeOf, Held
  <1>2. PICK s \in Seq(Held(f)), k \in Nat : s = K[p] /\ ListOf(f, p, s) /\ Children(f, p) = s /\ k = Len(s)
    BY TreeList
  <1>3. ~ In(n, s)
    BY <1>1, <1>2 DEF TreeOf, Placed
  <1>4. s = <<>> => SetsChildren(f, g, p, n)
    <2>1. SUFFICES ASSUME s = <<>> PROVE SetsChildren(f, g, p, n)
      OBVIOUS
    <2>2. f[p].children = NoNode
      BY <1>2, <2>1 DEF ListOf
    <2>3. g = [f EXCEPT ![p].children = n]
      BY <2>2, Zenon DEF vfs_insert_node
    <2>4. QED
      <3>1. SetsChildren(f, [f EXCEPT ![p].children = n], p, n)
        BY <1>1, ChildrenSet
      <3>2. QED
        BY <2>3, <3>1, Zenon
  <1>5. s # <<>> => SetsNext(f, g, s[Len(s)], n) /\ In(s[Len(s)], s) /\ s[Len(s)] \in Nodes
    <2>1. SUFFICES ASSUME s # <<>> PROVE SetsNext(f, g, s[Len(s)], n) /\ In(s[Len(s)], s) /\ s[Len(s)] \in Nodes
      OBVIOUS
    <2>2. k \in 1 .. Len(s) /\ 1 \in 1 .. Len(s)
      BY <1>2, <2>1
    <2>3. f[p].children = s[1] /\ s[1] \in Nodes /\ s[k] \in Nodes
      BY <1>2, <2>1, <2>2 DEF ListOf, Held
    <2>4. f[p].children # NoNode
      BY <2>3, VfsAssumption
    <2>5. Last(Children(f, p)) = s[k]
      BY <1>2 DEF Last
    <2>6. g = [f EXCEPT ![s[k]].next = n]
      BY <2>4, <2>5, Zenon DEF vfs_insert_node
    <2>7. SetsNext(f, g, s[k], n)
      BY <1>1, <2>3, <2>6, NextSet, ZenonT(60)
    <2>8. QED
      BY <1>2, <2>2, <2>3, <2>7 DEF In
  <1>6. g \in [Nodes -> Node] /\ \A m \in Nodes : Alike(f[m], g[m])
    BY <1>4, <1>5 DEF SetsChildren, SetsNext
  <1>7. PICK L : L = Appended(K, p, n)
    OBVIOUS
  <1>8. L[p] = Append(s, n) /\ \A m \in Nodes : m # p => L[m] = K[m]
    BY <1>2, <1>7 DEF Appended
  <1>9. ListOf(g, p, L[p])
    BY <1>1, <1>2, <1>3, <1>4, <1>5, <1>6, <1>8, AppendedList
  <1>10. \A m : In(m, L[p]) <=> In(m, K[p]) \/ m = n
    BY <1>1, <1>2, <1>8, AppendIn
  <1>11. ASSUME NEW m \in Nodes, m # p
         PROVE  /\ L[m] = K[m] /\ g[m].children = f[m].children
                /\ \A c \in Nodes : In(c, K[m]) => g[c].next = f[c].next
    <2>1. g[m].children = f[m].children
      BY <1>4, <1>5, <1>11 DEF SetsChildren, SetsNext
    <2>2. ASSUME NEW c \in Nodes, In(c, K[m]) PROVE g[c].next = f[c].next
      <3>1. f[c].parent = m
        BY <2>2, ChildIs
      <3>2. s # <<>> => f[s[Len(s)]].parent = p
        BY <1>2, <1>5, ChildIs
      <3>3. s # <<>> => c # s[Len(s)]
        BY <1>11, <3>1, <3>2
      <3>4. QED
        BY <1>4, <1>5, <3>3 DEF SetsChildren, SetsNext
    <2>3. QED
      BY <1>8, <1>11, <2>1, <2>2
  <1>12. g[p].type = "folder"
    BY <1>6 DEF Alike
  <1>13. PICK U : U = T \ {n}
    OBVIOUS
  <1>14. U \in SUBSET Held(f) /\ n \notin U /\ Grounded(f, U) /\ \A m \in Nodes : m # n => (m \in U <=> m \in T)
    BY <1>13 DEF TreeOf
  <1>15. TreeOf(g, L, U) /\ Held(g) = Held(f)
    <2>1. OthersStay(K, L, T, U, p, n)
      BY <1>10, <1>14 DEF OthersStay
    <2>2. n \notin U => In(n, L[p]) /\ n \in T /\ f[n].parent = p
      BY <1>10
    <2>3. Elsewhere(f, g, K, L, p)
      BY <1>11 DEF Elsewhere
    <2>4. g[p].type # "folder" => L[p] = <<>>
      BY <1>12
    <2>5. QED
      BY <1>1, <1>6, <1>9, <1>14, <2>1, <2>2, <2>3, <2>4, ListChanged
  <1>16. SameNext(f, g, T)
    <2>1. SUFFICES ASSUME NEW m \in T PROVE g[m].next = f[m].next
      BY DEF SameNext
    <2>2. m \in Nodes
      BY DEF TreeOf, Held
    <2>3. s # <<>> => s[Len(s)] \notin T
      BY <1>2, <1>5, ChildIs
    <2>4. QED
      BY <1>4, <1>5, <2>2, <2>3 DEF SetsChildren, SetsNext
  <1>17. QED
    BY <1>6, <1>7, <1>13, <1>15, <1>16 DEF Relinked

-----------------------------------------------------------------------------
(* A node leaves the list it is in.                                        *)

Without(s, i) == [j \in 1 .. Len(s) - 1 |-> IF j < i THEN s[j] ELSE s[j + 1]]

Taken(K, p, i) == [m \in Nodes |-> IF m = p THEN Without(K[p], i) ELSE K[m]]

LEMMA WithoutIs ==
  ASSUME NEW S, NEW s \in Seq(S), NEW i \in 1 .. Len(s)
  PROVE  /\ Without(s, i) \in Seq(S) /\ Len(Without(s, i)) = Len(s) - 1
         /\ \A j \in 1 .. Len(s) - 1 : Without(s, i)[j] = IF j < i THEN s[j] ELSE s[j + 1]
  <1>1. PICK k \in Nat : k = Len(s) - 1
    OBVIOUS
  <1>2. PICK t : t = Without(s, i)
    OBVIOUS
  <1>3. t = [j \in 1 .. k |-> IF j < i THEN s[j] ELSE s[j + 1]]
    BY <1>1, <1>2 DEF Without
  <1>4. \A j \in 1 .. k : t[j] \in S /\ t[j] = IF j < i THEN s[j] ELSE s[j + 1]
    BY <1>1, <1>3
  <1>5. t \in [1 .. k -> S]
    BY <1>3, <1>4
  <1>6. t \in Seq(S) /\ Len(t) = k
    BY <1>1, <1>5
  <1>7. QED
    BY <1>1, <1>2, <1>4, <1>6

LEMMA WithoutIn ==
  ASSUME NEW S, NEW s \in Seq(S), NEW i \in 1 .. Len(s), NEW m
  PROVE  /\ m # s[i] => (In(m, Without(s, i)) <=> In(m, s))
         /\ (\A a, b \in 1 .. Len(s) : s[a] = s[b] => a = b) => ~ In(s[i], Without(s, i))
  <1>1. PICK k \in Nat : k = Len(s) - 1
    OBVIOUS
  <1>2. PICK t : t = Without(s, i)
    OBVIOUS
  <1>3. Len(t) = k /\ \A j \in 1 .. k : t[j] = IF j < i THEN s[j] ELSE s[j + 1]
    BY <1>1, <1>2, WithoutIs
  <1>4. In(m, t) => In(m, s)
    <2>1. SUFFICES ASSUME NEW j \in 1 .. k, t[j] = m PROVE In(m, s)
      BY <1>3 DEF In
    <2>2. m = s[j] \/ m = s[j + 1]
      BY <1>3, <2>1
    <2>3. j \in 1 .. Len(s) /\ j + 1 \in 1 .. Len(s)
      BY <1>1
    <2>4. QED
      BY <2>2, <2>3 DEF In
  <1>5. m # s[i] /\ In(m, s) => In(m, t)
    <2>1. SUFFICES ASSUME m # s[i], NEW j \in 1 .. Len(s), s[j] = m PROVE In(m, t)
      BY DEF In
    <2>2. CASE j < i
      <3>1. j \in 1 .. k /\ t[j] = m
        BY <1>1, <1>3, <2>1, <2>2
      <3>2. QED
        BY <1>3, <3>1 DEF In
    <2>3. CASE j > i
      <3>1. j - 1 \in 1 .. k /\ t[j - 1] = m
        BY <1>1, <1>3, <2>1, <2>3
      <3>2. QED
        BY <1>3, <3>1 DEF In
    <2>4. QED
      BY <2>1, <2>2, <2>3
  <1>6. (\A a, b \in 1 .. Len(s) : s[a] = s[b] => a = b) => ~ In(s[i], t)
    <2>1. SUFFICES ASSUME \A a, b \in 1 .. Len(s) : s[a] = s[b] => a = b,
                          NEW j \in 1 .. k, t[j] = s[i]
                   PROVE  FALSE
      BY <1>3 DEF In
    <2>2. CASE j < i
      BY <1>1, <1>3, <2>1, <2>2
    <2>3. CASE ~ (j < i)
      BY <1>1, <1>3, <2>1, <2>3
    <2>4. QED
      BY <2>2, <2>3
  <1>7. QED
    BY <1>2, <1>4, <1>5, <1>6

LEMMA TakenList ==
  ASSUME NEW f, NEW g \in [Nodes -> Node], NEW p \in Nodes, NEW s,
         ListOf(f, p, s), NEW i \in 1 .. Len(s),
         \A m \in Nodes : Alike(f[m], g[m]),
         i = 1 => SetsChildren(f, g, p, f[s[1]].next),
         i # 1 => SetsNext(f, g, s[i - 1], f[s[i]].next)
  PROVE  ListOf(g, p, Without(s, i))
  <1>1. PICK k \in Nat : k = Len(s) - 1
    <2>1. s \in Seq(Held(f))
      BY DEF ListOf
    <2>2. Len(s) \in Nat /\ Len(s) # 0
      BY <2>1
    <2>3. QED
      BY <2>2
  <1>2. s \in Seq(Held(f)) /\ Len(s) = k + 1
    BY <1>1 DEF ListOf
  <1>3. PICK t : t = Without(s, i)
    OBVIOUS
  <1>4. t \in Seq(Held(f)) /\ Len(t) = k /\ \A j \in 1 .. k : t[j] = IF j < i THEN s[j] ELSE s[j + 1]
    BY <1>1, <1>2, <1>3, WithoutIs
  <1>5. \A j \in 1 .. k + 1 : s[j] \in Nodes /\ f[s[j]].parent = p
    BY <1>2 DEF ListOf, Held
  <1>6. \A a, b \in 1 .. k + 1 : s[a] = s[b] => a = b
    BY <1>2 DEF ListOf
  <1>7. /\ \A j \in 1 .. k : f[s[j]].next = s[j + 1]
        /\ f[s[k + 1]].next = NoNode /\ f[p].children = s[1]
    <2>1. s # <<>> /\ k + 1 - 1 = k
      BY <1>2
    <2>2. QED
      BY <1>2, <2>1 DEF ListOf
  <1>8. Held(g) = Held(f)
    BY DEF Alike, Held
  <1>9. \A j \in 1 .. k : t[j] \in Nodes /\ g[t[j]].parent = p
    <2>1. \A j \in 1 .. k : j \in 1 .. k + 1 /\ j + 1 \in 1 .. k + 1
      OBVIOUS
    <2>2. \A j \in 1 .. k : t[j] \in Nodes /\ f[t[j]].parent = p
      BY <1>4, <1>5, <2>1
    <2>3. QED
      BY <2>2 DEF Alike
  <1>10. \A a, b \in 1 .. k : t[a] = t[b] => a = b
    <2>1. SUFFICES ASSUME NEW a \in 1 .. k, NEW b \in 1 .. k, t[a] = t[b] PROVE a = b
      OBVIOUS
    <2>2. PICK x \in 1 .. k + 1 : x = (IF a < i THEN a ELSE a + 1) /\ t[a] = s[x]
      BY <1>4
    <2>3. PICK y \in 1 .. k + 1 : y = (IF b < i THEN b ELSE b + 1) /\ t[b] = s[y]
      BY <1>4
    <2>4. x = y
      BY <1>6, <2>1, <2>2, <2>3
    <2>5. QED
      BY <2>2, <2>3, <2>4
  <1>11. CASE i = 1
    <2>1. SetsChildren(f, g, p, f[s[1]].next)
      BY <1>11
    <2>2. \A j \in 1 .. k : t[j] = s[j + 1]
      BY <1>4, <1>11
    <2>3. \A j \in 1 .. k + 1 : g[s[j]].next = f[s[j]].next
      BY <1>5, <2>1 DEF SetsChildren
    <2>4. ASSUME NEW j \in 1 .. k - 1 PROVE g[t[j]].next = t[j + 1]
      <3>1. j \in 1 .. k /\ j + 1 \in 1 .. k + 1 /\ j + 1 \in 1 .. k
        OBVIOUS
      <3>2. QED
        BY <1>7, <2>2, <2>3, <3>1
    <2>5. CASE k = 0
      <3>1. g[p].children = NoNode /\ t = <<>>
        BY <1>4, <1>7, <2>1, <2>5 DEF SetsChildren
      <3>2. QED
        BY <1>3, <1>4, <1>8, <1>9, <1>10, <2>4, <2>5, <3>1 DEF ListOf
    <2>6. CASE k # 0
      <3>1. 1 \in 1 .. k /\ k \in 1 .. k /\ k + 1 \in 1 .. k + 1
        BY <2>6
      <3>2. g[p].children = t[1]
        BY <1>7, <2>1, <2>2, <3>1 DEF SetsChildren
      <3>3. g[t[k]].next = NoNode
        BY <1>7, <2>2, <2>3, <3>1
      <3>4. t # <<>>
        BY <1>4, <2>6
      <3>5. QED
        BY <1>3, <1>4, <1>8, <1>9, <1>10, <2>4, <3>2, <3>3, <3>4 DEF ListOf
    <2>7. QED
      BY <2>5, <2>6
  <1>12. CASE i # 1
    <2>1. i - 1 \in 1 .. k /\ i \in 1 .. k + 1
      BY <1>2, <1>12
    <2>2. SetsNext(f, g, s[i - 1], f[s[i]].next)
      BY <1>12
    <2>3. g[p].children = t[1] /\ t # <<>>
      BY <1>4, <1>7, <1>12, <2>1, <2>2 DEF SetsNext
    <2>4. \A j \in 1 .. k + 1 : g[s[j]].next = IF j = i - 1 THEN f[s[i]].next ELSE f[s[j]].next
      <3>1. SUFFICES ASSUME NEW j \in 1 .. k + 1
                     PROVE  g[s[j]].next = IF j = i - 1 THEN f[s[i]].next ELSE f[s[j]].next
        OBVIOUS
      <3>2. j # i - 1 => s[j] # s[i - 1]
        BY <1>6, <2>1
      <3>3. QED
        BY <1>5, <2>2, <3>2 DEF SetsNext
    <2>5. ASSUME NEW j \in 1 .. k - 1 PROVE g[t[j]].next = t[j + 1]
      <3>1. j \in 1 .. k /\ j + 1 \in 1 .. k + 1 /\ j + 1 \in 1 .. k /\ j \in 1 .. k + 1
        OBVIOUS
      <3>2. CASE j < i - 1
        <4>1. t[j] = s[j] /\ t[j + 1] = s[j + 1]
          BY <1>4, <2>1, <3>1, <3>2
        <4>2. QED
          BY <1>7, <2>4, <3>1, <3>2, <4>1
      <3>3. CASE j = i - 1
        <4>1. t[j] = s[j] /\ t[j + 1] = s[i + 1] /\ i \in 1 .. k
          BY <1>4, <2>1, <3>1, <3>3
        <4>2. QED
          BY <1>7, <2>4, <3>1, <3>3, <4>1
      <3>4. CASE j > i - 1
        <4>1. t[j] = s[j + 1] /\ t[j + 1] = s[j + 1 + 1]
          BY <1>4, <2>1, <3>1, <3>4
        <4>2. QED
          BY <1>7, <2>4, <3>1, <3>4, <4>1
      <3>5. QED
        BY <2>1, <3>2, <3>3, <3>4
    <2>6. g[t[k]].next = NoNode
      <3>1. k \in 1 .. k /\ k \in 1 .. k + 1 /\ k + 1 \in 1 .. k + 1
        BY <2>1
      <3>2. CASE i = k + 1
        <4>1. t[k] = s[k]
          BY <1>4, <3>1, <3>2
        <4>2. QED
          BY <1>7, <2>4, <3>1, <3>2, <4>1
      <3>3. CASE i # k + 1
        <4>1. t[k] = s[k + 1] /\ k + 1 # i - 1
          BY <1>4, <2>1, <3>1, <3>3
        <4>2. QED
          BY <1>7, <2>4, <3>1, <4>1
      <3>4. QED
        BY <3>2, <3>3
    <2>7. QED
      BY <1>3, <1>4, <1>8, <1>9, <1>10, <2>3, <2>5, <2>6 DEF ListOf
  <1>13. QED
    BY <1>11, <1>12

LEMMA Detached ==
  ASSUME NEW f, NEW K, NEW T, TreeOf(f, K, T), NEW p \in Nodes, NEW i \in 1 .. Len(K[p]),
         NEW n, n = K[p][i], NEW g, g = Unlinked(f, p, n)
  PROVE  TreeOf(g, Taken(K, p, i), T \cup {n}) /\ Relinked(f, g) /\ SameNext(f, g, T)
  <1>1. f \in [Nodes -> Node]
    BY DEF TreeOf
  <1>2. PICK s \in Seq(Held(f)), k \in Nat : s = K[p] /\ ListOf(f, p, s) /\ Children(f, p) = s /\ k = Len(s)
    BY TreeList
  <1>3. In(n, K[p]) /\ \A j \in 1 .. k : s[j] \in Nodes /\ In(s[j], K[p])
    BY <1>2 DEF In, Held
  <1>4. n \in Held(f) /\ n \in Nodes /\ n \notin T /\ f[n].parent = p /\ f[p].type = "folder"
    BY <1>3, ChildIs
  <1>5. f[n].next \in Nodes \cup {NoNode}
    BY <1>1, <1>4 DEF Node
  <1>6. \A a, b \in 1 .. k : s[a] = s[b] => a = b
    BY <1>2 DEF ListOf
  <1>7. /\ \A j \in 1 .. k - 1 : f[s[j]].next = s[j + 1]
        /\ f[s[k]].next = NoNode /\ f[p].children = s[1]
    <2>1. s # <<>>
      BY <1>2
    <2>2. QED
      BY <1>2, <2>1 DEF ListOf
  <1>8. i = 1 => SetsChildren(f, g, p, f[s[1]].next)
    <2>1. SUFFICES ASSUME i = 1 PROVE SetsChildren(f, g, p, f[n].next)
      BY <1>2
    <2>2. f[p].children = n
      BY <1>2, <1>7, <2>1
    <2>3. g = [f EXCEPT ![p].children = f[n].next]
      BY <2>2, Zenon DEF Unlinked
    <2>4. SetsChildren(f, [f EXCEPT ![p].children = f[n].next], p, f[n].next)
      BY <1>1, <1>5, ChildrenSet
    <2>5. QED
      BY <2>3, <2>4, Zenon
  <1>9. i # 1 => SetsNext(f, g, s[i - 1], f[s[i]].next)
    <2>1. SUFFICES ASSUME i # 1 PROVE SetsNext(f, g, s[i - 1], f[n].next)
      BY <1>2
    <2>2. i \in 1 .. k /\ 1 \in 1 .. k /\ i - 1 \in 1 .. k /\ i - 1 \in 1 .. k - 1
      BY <1>2, <2>1
    <2>3. f[p].children # n
      BY <1>2, <1>6, <1>7, <2>1, <2>2
    <2>4. PICK before : before = {m \in Range(Children(f, p)) : f[m].next = n}
      OBVIOUS
    <2>5. Range(Children(f, p)) = {s[j] : j \in 1 .. k}
      BY <1>2 DEF Range
    <2>6. \A j \in 1 .. k : f[s[j]].next = n <=> j = i - 1
      <3>1. SUFFICES ASSUME NEW j \in 1 .. k PROVE f[s[j]].next = n <=> j = i - 1
        OBVIOUS
      <3>2. CASE j = k
        <4>1. j # i - 1 /\ f[s[j]].next = NoNode
          BY <1>7, <2>2, <3>2
        <4>2. QED
          BY <1>4, <4>1, VfsAssumption
      <3>3. CASE j # k
        <4>1. j \in 1 .. k - 1 /\ j + 1 \in 1 .. k
          BY <3>3
        <4>2. f[s[j]].next = s[j + 1] /\ n = s[i]
          BY <1>2, <1>7, <4>1
        <4>3. s[j + 1] = s[i] <=> j + 1 = i
          BY <1>6, <2>2, <4>1
        <4>4. QED
          BY <2>2, <4>2, <4>3
      <3>4. QED
        BY <3>2, <3>3
    <2>7. before = {s[i - 1]}
      BY <2>2, <2>4, <2>5, <2>6
    <2>8. before # {} /\ (CHOOSE m \in before : TRUE) = s[i - 1]
      BY <2>7
    <2>9. g = [f EXCEPT ![CHOOSE m \in before : TRUE].next = f[n].next]
      BY <2>3, <2>4, <2>8, Zenon DEF Unlinked
    <2>10. SetsNext(f, [f EXCEPT ![s[i - 1]].next = f[n].next], s[i - 1], f[n].next)
      BY <1>1, <1>3, <1>5, <2>2, NextSet
    <2>11. QED
      BY <2>8, <2>9, <2>10, Zenon
  <1>10. g \in [Nodes -> Node] /\ \A m \in Nodes : Alike(f[m], g[m])
    BY <1>8, <1>9 DEF SetsChildren, SetsNext
  <1>11. PICK L : L = Taken(K, p, i)
    OBVIOUS
  <1>12. L[p] = Without(s, i) /\ \A m \in Nodes : m # p => L[m] = K[m]
    BY <1>2, <1>11 DEF Taken
  <1>13. i \in 1 .. Len(s)
    BY <1>2
  <1>14. ListOf(g, p, L[p])
    BY <1>2, <1>8, <1>9, <1>10, <1>12, <1>13, TakenList
  <1>15. (\A m : m # n => (In(m, L[p]) <=> In(m, K[p]))) /\ ~ In(n, L[p])
    BY <1>2, <1>6, <1>12, <1>13, WithoutIn
  <1>16. Elsewhere(f, g, K, L, p)
    <2>1. SUFFICES ASSUME NEW m \in Nodes, m # p
                   PROVE  /\ L[m] = K[m] /\ g[m].children = f[m].children
                          /\ \A c \in Nodes : In(c, K[m]) => g[c].next = f[c].next
      BY DEF Elsewhere
    <2>2. g[m].children = f[m].children
      BY <1>8, <1>9, <2>1 DEF SetsChildren, SetsNext
    <2>3. ASSUME NEW c \in Nodes, In(c, K[m]) PROVE g[c].next = f[c].next
      <3>1. f[c].parent = m
        BY <2>3, ChildIs
      <3>2. i # 1 => i - 1 \in 1 .. k
        BY <1>2
      <3>3. i # 1 => f[s[i - 1]].parent = p
        BY <1>3, <3>2, ChildIs
      <3>4. i # 1 => c # s[i - 1]
        BY <2>1, <3>1, <3>3
      <3>5. QED
        BY <1>8, <1>9, <3>4 DEF SetsChildren, SetsNext
    <2>4. QED
      BY <1>12, <2>1, <2>2, <2>3
  <1>17. PICK U : U = T \cup {n}
    OBVIOUS
  <1>18. U \in SUBSET Held(f) /\ n \in U /\ \A m \in Nodes : m # n => (m \in U <=> m \in T)
    BY <1>4, <1>17 DEF TreeOf
  <1>19. OthersStay(K, L, T, U, p, n)
    BY <1>15, <1>18 DEF OthersStay
  <1>20. Grounded(f, U)
    <2>1. SUFFICES ASSUME NEW S \in SUBSET (Held(f) \ U), \A m \in S : f[m].parent \in S
                   PROVE  S = {}
      BY DEF Grounded
    <2>2. S \in SUBSET (Held(f) \ T)
      BY <1>17
    <2>3. QED
      BY <2>1, <2>2 DEF TreeOf, Grounded
  <1>21. g[p].type # "folder" => L[p] = <<>>
    BY <1>4, <1>10 DEF Alike
  <1>22. n \in U => ~ In(n, L[p]) /\ f[n].parent = p
    BY <1>4, <1>15
  <1>23. n \in T => n \notin U
    BY <1>4
  <1>24. n \notin U => In(n, L[p]) /\ n \in T /\ f[n].parent = p
    BY <1>18
  <1>25. TreeOf(g, L, U) /\ Held(g) = Held(f)
    BY <1>4, <1>10, <1>14, <1>16, <1>18, <1>19, <1>20, <1>21, <1>22, <1>23, <1>24, ListChanged
  <1>26. SameNext(f, g, T)
    <2>1. SUFFICES ASSUME NEW m \in T PROVE g[m].next = f[m].next
      BY DEF SameNext
    <2>2. m \in Nodes
      BY DEF TreeOf, Held
    <2>3. i # 1 => i - 1 \in 1 .. k
      BY <1>2
    <2>4. i # 1 => s[i - 1] \notin T
      BY <1>3, <2>3, ChildIs
    <2>5. QED
      BY <1>8, <1>9, <2>2, <2>4 DEF SetsChildren, SetsNext
  <1>27. QED
    BY <1>10, <1>11, <1>17, <1>25, <1>26 DEF Relinked

-----------------------------------------------------------------------------
(* What is linked below a node.                                            *)

(* Only n has its parent outside.                                          *)
Branch(f, K, n, B) ==
  /\ B \in SUBSET Held(f) /\ n \in B
  /\ \A m \in B, c \in Nodes : In(c, K[m]) => c \in B
  /\ \A c \in B : c # n => f[c].parent \in B /\ In(c, K[f[c].parent])

(* No node above n is below it.                                            *)
LEMMA BranchTop ==
  ASSUME NEW f, NEW K, NEW T, TreeOf(f, K, T), NEW n \in Held(f), NEW B, Branch(f, K, n, B), n \notin T
  PROVE  f[n].parent \notin B
  <1> SUFFICES ASSUME f[n].parent \in B PROVE FALSE
    OBVIOUS
  <1>1. \A c \in B : f[c].parent \in B /\ c \notin T
    <2>1. ASSUME NEW c \in B, c # n PROVE c \notin T
      <3>1. f[c].parent \in Nodes /\ In(c, K[f[c].parent])
        BY <2>1 DEF Branch, Held
      <3>2. QED
        BY <3>1, ChildIs
    <2>2. QED
      BY <2>1 DEF Branch
  <1>2. B \in SUBSET (Held(f) \ T)
    BY <1>1 DEF Branch
  <1>3. B = {}
    BY <1>1, <1>2 DEF TreeOf, Grounded
  <1>4. QED
    BY <1>3 DEF Branch

(* A node of T and what is below it are freed.                             *)
Pruned(f, B) == [m \in Nodes |-> IF m \in B THEN Freed ELSE f[m]]

Frees(f, g, B) == Held(g) = Held(f) \ B

Bared(K, B) == [m \in Nodes |-> IF m \in B THEN <<>> ELSE K[m]]

LEMMA FreedIs == Freed \in Node
  <1>1. <<>> \in BoundedSeq(Bytes \cup {0, -1}, MaxSize)
    <2>1. <<>> \in [1 .. 0 -> Bytes \cup {0, -1}] /\ 0 \in 0 .. MaxSize
      BY VfsAssumption
    <2>2. QED
      BY <2>1 DEF BoundedSeq, SeqOf
  <1>2. QED
    BY <1>1, VfsAssumption DEF Freed, Node

LEMMA BranchFreed ==
  ASSUME NEW f, NEW K, NEW T, TreeOf(f, K, T), NEW n \in T, NEW B, Branch(f, K, n, B),
         NEW g, g = Pruned(f, B)
  PROVE  TreeOf(g, Bared(K, B), T \ {n}) /\ Frees(f, g, B)
  <1>1. f \in [Nodes -> Node] /\ B \subseteq Nodes /\ n \in Nodes
    BY DEF TreeOf, Branch, Held
  <1>3. PICK L : L = Bared(K, B)
    OBVIOUS
  <1>4. \A m \in Nodes : g[m] = IF m \in B THEN Freed ELSE f[m]
    BY DEF Pruned
  <1>5. \A m \in Nodes : L[m] = IF m \in B THEN <<>> ELSE K[m]
    BY <1>3 DEF Bared
  <1>6. g \in [Nodes -> Node]
    <2>1. \A m \in Nodes : (IF m \in B THEN Freed ELSE f[m]) \in Node
      BY <1>1, FreedIs
    <2>2. QED
      BY <2>1 DEF Pruned
  <1>7. Held(g) = Held(f) \ B
    BY <1>4 DEF Held, Freed
  <1>8. \A m \in Nodes, c \in Nodes : m \notin B /\ In(c, K[m]) => c \notin B
    <2>1. SUFFICES ASSUME NEW m \in Nodes, NEW c \in B, m \notin B, In(c, K[m]) PROVE FALSE
      OBVIOUS
    <2>2. f[c].parent = m /\ c \notin T
      BY <2>1, ChildIs
    <2>3. c # n
      BY <2>2
    <2>4. QED
      BY <2>1, <2>2, <2>3 DEF Branch
  <1>9. ASSUME NEW m \in Nodes
        PROVE  ListOf(g, m, L[m]) /\ (g[m].type # "folder" => L[m] = <<>>)
    <2>1. CASE m \in B
      <3>1. L[m] = <<>> /\ g[m] = Freed
        BY <1>4, <1>5, <2>1
      <3>2. QED
        BY <3>1 DEF ListOf, Freed
    <2>2. CASE m \notin B
      <3>1. PICK s \in Seq(Held(f)) : s = K[m] /\ ListOf(f, m, s) /\ (f[m].type # "folder" => s = <<>>)
        BY TreeList DEF TreeOf
      <3>2. L[m] = s /\ g[m] = f[m]
        BY <1>4, <1>5, <2>2, <3>1
      <3>3. \A i \in 1 .. Len(s) : s[i] \in Held(g) /\ s[i] \in Nodes /\ g[s[i]] = f[s[i]]
        <4>1. ASSUME NEW i \in 1 .. Len(s) PROVE s[i] \in Held(f) /\ s[i] \in Nodes /\ s[i] \notin B
          <5>1. s[i] \in Held(f) /\ s[i] \in Nodes
            BY <3>1 DEF Held
          <5>2. In(s[i], K[m])
            BY <3>1 DEF In
          <5>3. QED
            BY <1>8, <2>2, <5>1, <5>2
        <4>2. QED
          BY <1>4, <1>7, <4>1
      <3>4. s \in Seq(Held(g))
        BY <3>1, <3>3
      <3>5. PICK k \in Nat : k = Len(s) /\ (s # <<>> => k \in 1 .. k)
        BY <3>1
      <3>6. ListOf(g, m, s)
        BY <3>1, <3>2, <3>3, <3>4, <3>5 DEF ListOf
      <3>7. QED
        BY <3>1, <3>2, <3>6
    <2>3. QED
      BY <2>1, <2>2
  <1>10. T \ {n} \in SUBSET Held(g)
    <2>1. ASSUME NEW c \in T, c # n, c \in B PROVE FALSE
      <3>1. f[c].parent \in Nodes /\ In(c, K[f[c].parent])
        BY <1>1, <2>1 DEF Branch
      <3>2. QED
        BY <3>1, ChildIs
    <2>2. QED
      BY <1>7, <2>1 DEF TreeOf
  <1>11. ASSUME NEW c \in Held(g) PROVE Placed(g, L, T \ {n}, c)
    <2>1. c \in Held(f) /\ c \notin B /\ c # n /\ g[c] = f[c] /\ c \in Nodes
      BY <1>4, <1>7 DEF Branch, Held
    <2>2. CASE c \in T
      <3>1. \A q \in Nodes : ~ In(c, K[q])
        BY <2>1, <2>2 DEF TreeOf, Placed
      <3>2. \A q \in Nodes : ~ In(c, L[q])
        BY <1>5, <3>1 DEF In
      <3>3. QED
        BY <2>1, <2>2, <3>2 DEF Placed
    <2>3. CASE c \notin T
      <3>1. f[c].parent \in Nodes /\ In(c, K[f[c].parent])
        BY <2>1, <2>3, ParentIs
      <3>2. f[c].parent \notin B
        BY <2>1, <3>1 DEF Branch
      <3>3. QED
        BY <1>5, <2>1, <2>3, <3>1, <3>2 DEF Placed
    <2>4. QED
      BY <2>2, <2>3
  <1>12. Grounded(g, T \ {n})
    <2>1. SUFFICES ASSUME NEW S \in SUBSET (Held(g) \ (T \ {n})), \A m \in S : g[m].parent \in S
                   PROVE  S = {}
      BY DEF Grounded
    <2>2. \A m \in S : m \in Held(f) /\ m \notin T /\ f[m].parent \in S
      BY <1>4, <1>7, <2>1 DEF Branch, Held
    <2>3. S \in SUBSET (Held(f) \ T)
      BY <2>2
    <2>4. QED
      BY <2>2, <2>3 DEF TreeOf, Grounded
  <1>13. QED
    BY <1>3, <1>6, <1>7, <1>9, <1>10, <1>11, <1>12 DEF TreeOf, Frees

(* The recursion of Subtree.                                               *)
WithChildren(f, A) == A \cup UNION {Range(Children(f, m)) : m \in A}

SubtreeBody(f, n, h) ==
  h = [k \in 0 .. Cardinality(Nodes) |-> IF k = 0 THEN {n} ELSE WithChildren(f, h[k - 1])]

LEMMA SubtreeIs ==
  ASSUME NEW f, NEW n
  PROVE  Subtree(f, n) = (CHOOSE h : SubtreeBody(f, n, h))[Cardinality(Nodes)]
  BY Zenon DEF Subtree, SubtreeBody, WithChildren

LEMMA RangeIs ==
  ASSUME NEW f, NEW K, NEW T, TreeOf(f, K, T), NEW m \in Nodes
  PROVE  Range(Children(f, m)) = {c \in Nodes : In(c, K[m])}
  <1>1. PICK s \in Seq(Held(f)) : s = K[m] /\ Children(f, m) = s
    BY TreeList
  <1>2. Range(s) = {s[i] : i \in 1 .. Len(s)}
    BY <1>1 DEF Range
  <1>3. \A i \in 1 .. Len(s) : s[i] \in Nodes
    BY <1>1 DEF Held
  <1>4. QED
    BY <1>1, <1>2, <1>3 DEF In

LEMMA WithChildrenIs ==
  ASSUME NEW f, NEW K, NEW T, TreeOf(f, K, T), NEW A \in SUBSET Held(f)
  PROVE  /\ WithChildren(f, A) = A \cup {c \in Nodes : \E m \in A : In(c, K[m])}
         /\ WithChildren(f, A) \in SUBSET Held(f)
  <1>1. A \subseteq Nodes
    BY DEF Held
  <1>2. PICK R : R = UNION {Range(Children(f, m)) : m \in A}
    OBVIOUS
  <1>3. \A c : c \in R <=> \E m \in A : c \in Nodes /\ In(c, K[m])
    BY <1>1, <1>2, RangeIs
  <1>4. \A c \in R : c \in Held(f)
    BY <1>1, <1>3, ChildIs
  <1>5. R = {c \in Nodes : \E m \in A : In(c, K[m])}
    BY <1>3
  <1>6. QED
    BY <1>2, <1>4, <1>5 DEF WithChildren

(* Each member but n was added as a child of a member.                     *)
Grown(f, K, n, A) ==
  /\ A \in SUBSET Held(f) /\ n \in A
  /\ \A c \in A : c # n => \E m \in A : In(c, K[m])

SubtreeWalk(f, K, n, w) ==
  /\ w[0] = {n}
  /\ \A k \in 1 .. Cardinality(Nodes) : w[k] = WithChildren(f, w[k - 1])
  /\ \A k \in 0 .. Cardinality(Nodes) : Grown(f, K, n, w[k])

LEMMA SubtreeWay ==
  ASSUME NEW f, NEW K, NEW T, TreeOf(f, K, T), NEW n \in Held(f),
         NEW w, w = CHOOSE h : SubtreeBody(f, n, h)
  PROVE  SubtreeWalk(f, K, n, w)
  <1>1. PICK D : D = SUBSET Held(f)
    OBVIOUS
  <1>2. PICK G : G = [A \in D |-> WithChildren(f, A)]
    OBVIOUS
  <1>3. \A A \in D : G[A] \in D /\ G[A] = WithChildren(f, A)
    BY <1>1, <1>2, WithChildrenIs
  <1>4. G \in [D -> D]
    BY <1>2, <1>3
  <1>5. PICK N \in Nat, r \in D : N = Cardinality(Nodes) /\ r = {n}
    BY <1>1, SizeIs
  <1>6. PICK h \in [0 .. N -> D] : h[0] = r /\ \A k \in 1 .. N : h[k] = G[h[k - 1]]
    <2>1. Iterated(N, D, r, G)
      BY <1>4, Iterates
    <2>2. QED
      BY <2>1 DEF Iterated
  <1>7. SubtreeBody(f, n, h)
    <2>1. ASSUME NEW k \in 0 .. N
          PROVE  h[k] = IF k = 0 THEN {n} ELSE WithChildren(f, h[k - 1])
      <3>1. CASE k = 0
        BY <1>5, <1>6, <3>1
      <3>2. CASE k # 0
        <4>1. k \in 1 .. N /\ k - 1 \in 0 .. N
          BY <3>2
        <4>2. h[k] = G[h[k - 1]] /\ h[k - 1] \in D
          BY <1>6, <4>1
        <4>3. QED
          BY <1>3, <3>2, <4>2
      <3>3. QED
        BY <3>1, <3>2
    <2>2. h = [k \in 0 .. N |-> IF k = 0 THEN {n} ELSE WithChildren(f, h[k - 1])]
      BY <1>6, <2>1
    <2>3. QED
      BY <1>5, <2>2 DEF SubtreeBody
  <1>8. SubtreeBody(f, n, w)
    BY <1>7, Zenon
  <1>9. w = [k \in 0 .. N |-> IF k = 0 THEN {n} ELSE WithChildren(f, w[k - 1])]
    BY <1>5, <1>8 DEF SubtreeBody
  <1>10. \A k \in 0 .. N : w[k] = IF k = 0 THEN {n} ELSE WithChildren(f, w[k - 1])
    BY <1>9, Zenon
  <1>11. w[0] = {n} /\ \A k \in 1 .. N : w[k] = WithChildren(f, w[k - 1])
    BY <1>5, <1>10
  <1>12. \A k \in 0 .. N : Grown(f, K, n, w[k])
    <2> DEFINE S == {k \in 0 .. N : Grown(f, K, n, w[k])}
    <2>1. 0 \in S
      <3>1. Grown(f, K, n, {n})
        BY DEF Grown
      <3>2. Grown(f, K, n, w[0])
        BY <1>11, <3>1
      <3>3. QED
        BY <3>2
    <2>2. ASSUME NEW k \in 1 .. N, k - 1 \in S PROVE k \in S
      <3>1. PICK A \in SUBSET Held(f) : A = w[k - 1] /\ Grown(f, K, n, A)
        BY <2>2 DEF Grown
      <3>2. PICK B \in SUBSET Held(f) :
              B = w[k] /\ B = A \cup {c \in Nodes : \E m \in A : In(c, K[m])}
        <4>1. w[k] = WithChildren(f, A)
          BY <1>11, <3>1
        <4>2. WithChildren(f, A) = A \cup {c \in Nodes : \E m \in A : In(c, K[m])}
              /\ WithChildren(f, A) \in SUBSET Held(f)
          BY WithChildrenIs
        <4>3. QED
          BY <4>1, <4>2
      <3>3. Grown(f, K, n, B)
        BY <3>1, <3>2 DEF Grown
      <3>4. QED
        BY <3>2, <3>3
    <2>3. \A k \in 0 .. N : k \in S
      <3> HIDE DEF S
      <3>1. QED
        BY <2>1, <2>2, UpTo
    <2>4. QED
      BY <2>3
  <1>13. QED
    BY <1>5, <1>11, <1>12 DEF SubtreeWalk

(* As long as a child is missing a step adds one.                          *)
LEMMA SubtreeAll ==
  ASSUME NEW f, NEW K, NEW T, TreeOf(f, K, T), NEW n \in Held(f)
  PROVE  Branch(f, K, n, Subtree(f, n))
  <1>1. PICK N \in Nat : N = Cardinality(Nodes)
    BY SizeIs
  <1>2. PICK w : w = CHOOSE h : SubtreeBody(f, n, h)
    OBVIOUS
  <1>3. /\ w[0] = {n} /\ \A k \in 1 .. N : w[k] = WithChildren(f, w[k - 1])
        /\ \A k \in 0 .. N : Grown(f, K, n, w[k])
    BY <1>1, <1>2, SubtreeWay DEF SubtreeWalk
  <1>4. \A A \in SUBSET Held(f) : IsFiniteSet(A) /\ Cardinality(A) \in Nat /\ Cardinality(A) <= N
    <2>1. Held(f) \subseteq Nodes
      BY DEF Held
    <2>2. QED
      BY <1>1, <2>1, VfsAssumption, FS_Subset, FS_CardinalityType
  <1> DEFINE Closed(A) == WithChildren(f, A) = A
             S == {k \in 0 .. N : Closed(w[k]) \/ Cardinality(w[k]) >= k + 1}
  <1>5. 0 \in S
    <2>1. Cardinality({n}) = 1
      BY FS_Singleton
    <2>2. QED
      BY <1>3, <2>1
  <1>6. ASSUME NEW k \in 1 .. N, k - 1 \in S PROVE k \in S
    <2>1. PICK A \in SUBSET Held(f), B \in SUBSET Held(f) :
            A = w[k - 1] /\ B = w[k] /\ B = WithChildren(f, A)
      <3>1. k - 1 \in 0 .. N /\ k \in 0 .. N
        OBVIOUS
      <3>2. QED
        BY <1>3, <3>1 DEF Grown
    <2>2. A \subseteq B
      BY <2>1 DEF WithChildren
    <2>3. CASE A = B
      <3>1. k - 1 \in S /\ Cardinality(A) \in Nat
        BY <1>4, <1>6
      <3>2. WithChildren(f, A) = A
        BY <2>1, <2>3
      <3>3. Closed(w[k])
        BY <2>1, <2>3, <3>2
      <3>4. QED
        BY <3>3
    <2>4. CASE A # B
      <3>1. ~ Closed(A)
        BY <2>1, <2>4
      <3>2. Cardinality(A) >= k
        BY <1>6, <2>1, <3>1
      <3>3. Cardinality(A) # Cardinality(B) /\ Cardinality(A) <= Cardinality(B)
        BY <1>4, <2>2, <2>4, FS_Subset
      <3>4. Cardinality(B) >= k + 1
        BY <1>4, <3>2, <3>3
      <3>5. Cardinality(w[k]) >= k + 1
        BY <2>1, <3>4
      <3> HIDE DEF Closed
      <3>6. QED
        BY <3>5
    <2>5. QED
      BY <2>3, <2>4
  <1>7. \A k \in 0 .. N : k \in S
    <2> HIDE DEF S
    <2>1. QED
      BY <1>5, <1>6, UpTo
  <1>8. PICK A \in SUBSET Held(f) : A = w[N] /\ Grown(f, K, n, A)
    <2>1. N \in 0 .. N
      BY <1>1
    <2>2. QED
      BY <1>3, <2>1 DEF Grown
  <1>9. WithChildren(f, A) = A
    <2>1. N \in S
      BY <1>7
    <2>2. Cardinality(A) <= N /\ Cardinality(A) \in Nat
      BY <1>4
    <2>3. QED
      BY <1>8, <2>1, <2>2
  <1>10. \A m \in A, c \in Nodes : In(c, K[m]) => c \in A
    BY <1>9, WithChildrenIs
  <1>11. \A c \in A : c # n => f[c].parent \in A /\ In(c, K[f[c].parent])
    <2>1. SUFFICES ASSUME NEW c \in A, c # n PROVE f[c].parent \in A /\ In(c, K[f[c].parent])
      OBVIOUS
    <2>2. PICK m \in A : In(c, K[m])
      BY <1>8, <2>1 DEF Grown
    <2>3. f[c].parent = m
      <3>1. m \in Nodes
        BY <1>8 DEF Held
      <3>2. QED
        BY <2>2, <3>1, ChildIs
    <2>4. QED
      BY <2>2, <2>3
  <1>12. Branch(f, K, n, A)
    BY <1>8, <1>10, <1>11 DEF Branch, Grown
  <1>13. Subtree(f, n) = A
    BY <1>1, <1>2, <1>8, SubtreeIs
  <1>14. QED
    BY <1>12, <1>13

(* What is below the nodes of T is all there is.                           *)
LEMMA BranchesAll ==
  ASSUME NEW f, NEW K, NEW T, TreeOf(f, K, T), NEW n, NEW A, Branch(f, K, n, A),
         NEW m, NEW B, Branch(f, K, m, B), T \subseteq A \cup B
  PROVE  Held(f) = A \cup B
  <1>1. PICK S : S = Held(f) \ (A \cup B)
    OBVIOUS
  <1>2. \A c \in S : f[c].parent \in S
    <2>1. SUFFICES ASSUME NEW c \in S PROVE f[c].parent \in S
      OBVIOUS
    <2>2. c \in Held(f) /\ c \notin T /\ c \in Nodes
      BY <1>1 DEF Held
    <2>3. f[c].parent \in Held(f) /\ In(c, K[f[c].parent])
      BY <2>2, ParentIs
    <2>4. f[c].parent \notin A /\ f[c].parent \notin B
      BY <1>1, <2>2, <2>3 DEF Branch
    <2>5. QED
      BY <1>1, <2>3, <2>4
  <1>3. S = {}
    <2>1. S \in SUBSET (Held(f) \ T)
      BY <1>1
    <2>2. QED
      BY <1>2, <2>1 DEF TreeOf, Grounded
  <1>4. QED
    BY <1>1, <1>3 DEF Branch

-----------------------------------------------------------------------------
(* Paths.                                                                  *)

LEMMA Least ==
  ASSUME NEW S, S \subseteq Nat, S # {}
  PROVE  Min(S) \in S /\ \A x \in S : Min(S) <= x
  BY NatMin DEF Min

(* c is the first of the list s with that name, or there is none.          *)
FirstNamed(f, s, name, c) ==
  \/ c = NoNode /\ \A i \in 1 .. Len(s) : f[s[i]].name # name
  \/ \E i \in 1 .. Len(s) : /\ c = s[i] /\ f[c].name = name
                            /\ \A j \in 1 .. i - 1 : f[s[j]].name # name

LEMMA SearchFirst ==
  ASSUME NEW f, NEW K, NEW T, TreeOf(f, K, T), NEW p \in Nodes, NEW name
  PROVE  FirstNamed(f, K[p], name, vfs_search_node(f, p, name))
  <1>1. PICK s \in Seq(Held(f)), k \in Nat : s = K[p] /\ Children(f, p) = s /\ k = Len(s)
    BY TreeList
  <1>2. PICK hits : hits = {i \in DOMAIN s : f[s[i]].name = name}
    OBVIOUS
  <1>3. vfs_search_node(f, p, name) = IF hits = {} THEN NoNode ELSE s[Min(hits)]
    BY <1>1, <1>2, Zenon DEF vfs_search_node
  <1>4. DOMAIN s = 1 .. k
    BY <1>1
  <1>5. CASE hits = {}
    BY <1>1, <1>2, <1>3, <1>4, <1>5 DEF FirstNamed
  <1>6. CASE hits # {}
    <2>1. hits \subseteq Nat
      BY <1>2, <1>4
    <2>2. PICK i \in hits : i = Min(hits) /\ \A j \in hits : i <= j
      BY <1>6, <2>1, Least
    <2>3. i \in 1 .. k /\ f[s[i]].name = name
      BY <1>2, <1>4, <2>2
    <2>4. \A j \in 1 .. i - 1 : f[s[j]].name # name
      <3>1. SUFFICES ASSUME NEW j \in 1 .. i - 1, f[s[j]].name = name PROVE FALSE
        OBVIOUS
      <3>2. j \in hits /\ ~ (i <= j)
        BY <1>2, <1>4, <2>3, <3>1
      <3>3. QED
        BY <2>2, <3>2
    <2>5. vfs_search_node(f, p, name) = s[i]
      BY <1>3, <1>6, <2>2
    <2>6. QED
      BY <1>1, <2>3, <2>4, <2>5 DEF FirstNamed
  <1>7. QED
    BY <1>5, <1>6

LEMMA FirstIsOne ==
  ASSUME NEW f, NEW s, Len(s) \in Nat, \A i \in 1 .. Len(s) : s[i] # NoNode, NEW name,
         NEW c, FirstNamed(f, s, name, c), NEW d, FirstNamed(f, s, name, d)
  PROVE  c = d
  <1>1. PICK k \in Nat : k = Len(s)
    OBVIOUS
  <1>2. CASE c = NoNode
    BY <1>1, <1>2 DEF FirstNamed
  <1>3. CASE c # NoNode
    <2>1. PICK i \in 1 .. k : c = s[i] /\ f[c].name = name /\ \A j \in 1 .. i - 1 : f[s[j]].name # name
      BY <1>1, <1>3 DEF FirstNamed
    <2>2. PICK j \in 1 .. k : d = s[j] /\ f[d].name = name /\ \A l \in 1 .. j - 1 : f[s[l]].name # name
      BY <1>1, <2>1 DEF FirstNamed
    <2>3. ~ (i < j)
      BY <2>1, <2>2
    <2>4. ~ (j < i)
      BY <2>1, <2>2
    <2>5. QED
      BY <2>1, <2>2, <2>3, <2>4
  <1>4. QED
    BY <1>2, <1>3

(* At most one mount, of the other tree on the folder that it is in.       *)
Mounting(f, mounts, T) ==
  \/ mounts = <<>>
  \/ \E p \in Held(f) : /\ mounts = <<[mount_point |-> p, mounted_root |-> FsRoot]>>
                        /\ FsRoot \in Held(f) /\ FsRoot \notin T
                        /\ f[FsRoot].parent = p

LEMMA ThroughIs ==
  ASSUME NEW f, NEW mounts, NEW T, Mounting(f, mounts, T), NEW n
  PROVE  /\ Through(mounts, n) = n \/ (Through(mounts, n) = FsRoot /\ f[FsRoot].parent = n /\ FsRoot \notin T)
         /\ n \in Held(f) => Through(mounts, n) \in Held(f)
         /\ mounts = <<>> => Through(mounts, n) = n
         /\ mounts # <<>> /\ f[FsRoot].parent = n => Through(mounts, n) = FsRoot
  <1>1. PICK hits : hits = {k \in DOMAIN mounts : mounts[k].mount_point = n}
    OBVIOUS
  <1>2. Through(mounts, n) = IF hits = {} THEN n ELSE mounts[Min(hits)].mounted_root
    BY <1>1, Zenon DEF Through
  <1>3. CASE mounts = <<>>
    <2>1. hits = {}
      BY <1>1, <1>3
    <2>2. QED
      BY <1>2, <1>3, <2>1
  <1>4. CASE mounts # <<>>
    <2>1. PICK p \in Held(f) : /\ mounts = <<[mount_point |-> p, mounted_root |-> FsRoot]>>
                               /\ FsRoot \in Held(f) /\ FsRoot \notin T
                               /\ f[FsRoot].parent = p
      BY <1>4 DEF Mounting
    <2>2. DOMAIN mounts = {1} /\ mounts[1].mount_point = p /\ mounts[1].mounted_root = FsRoot
      BY <2>1
    <2>3. CASE n = p
      <3>1. hits = {1}
        BY <1>1, <2>2, <2>3
      <3>2. Min(hits) = 1 /\ hits # {}
        BY <3>1, Least
      <3>3. QED
        BY <1>2, <2>1, <2>2, <2>3, <3>2
    <2>4. CASE n # p
      <3>1. hits = {}
        BY <1>1, <2>2, <2>4
      <3>2. QED
        BY <1>2, <1>4, <2>1, <2>4, <3>1
    <2>5. QED
      BY <2>3, <2>4
  <1>5. QED
    BY <1>3, <1>4

(* What is met on the way along a path.                                    *)
Way(f, K, mounts, path, w) ==
  /\ w \in [0 .. Len(path) -> Held(f) \cup {NoNode}]
  /\ w[0] = Root
  /\ \A k \in 1 .. Len(path) :
       IF w[k - 1] = NoNode THEN w[k] = NoNode
       ELSE FirstNamed(f, K[Through(mounts, w[k - 1])], path[k], w[k])

TraverseBody(f, mounts, path, h) ==
  h = [k \in 0 .. Len(path) |->
         IF k = 0 THEN Root
         ELSE IF h[k - 1] = NoNode THEN NoNode
         ELSE vfs_search_node(f, Through(mounts, h[k - 1]), path[k])]

LEMMA TraverseIs ==
  ASSUME NEW f, NEW mounts, NEW path
  PROVE  vfs_traverse_path(f, mounts, path) = (CHOOSE h : TraverseBody(f, mounts, path, h))[Len(path)]
  BY Zenon DEF vfs_traverse_path, TraverseBody

NextOnWay(f, mounts, path, k, c) ==
  IF c = NoNode THEN NoNode ELSE vfs_search_node(f, Through(mounts, c), path[k])

LEMMA NextStep ==
  ASSUME NEW f, NEW K, NEW T, TreeOf(f, K, T), NEW mounts, Mounting(f, mounts, T),
         NEW path, NEW k, NEW c \in Held(f) \cup {NoNode}
  PROVE  /\ NextOnWay(f, mounts, path, k, c) \in Held(f) \cup {NoNode}
         /\ c # NoNode => FirstNamed(f, K[Through(mounts, c)], path[k], NextOnWay(f, mounts, path, k, c))
  <1>1. CASE c = NoNode
    BY <1>1 DEF NextOnWay
  <1>2. CASE c # NoNode
    <2>1. PICK q \in Nodes : q = Through(mounts, c)
      BY <1>2, ThroughIs DEF Held
    <2>2. PICK d : d = vfs_search_node(f, q, path[k])
      OBVIOUS
    <2>3. NextOnWay(f, mounts, path, k, c) = d
      BY <1>2, <2>1, <2>2 DEF NextOnWay
    <2>4. FirstNamed(f, K[q], path[k], d)
      BY <2>2, SearchFirst
    <2>5. d \in Held(f) \cup {NoNode}
      <3>1. K[q] \in Seq(Held(f))
        BY TreeList
      <3>2. QED
        BY <2>4, <3>1 DEF FirstNamed
    <2>6. QED
      BY <2>1, <2>3, <2>4, <2>5
  <1>3. QED
    BY <1>1, <1>2

LEMMA TraverseWay ==
  ASSUME NEW f, NEW K, NEW T, TreeOf(f, K, T), NEW mounts, Mounting(f, mounts, T),
         Root \in Held(f), NEW path \in Seq(Names)
  PROVE  \E w : /\ Way(f, K, mounts, path, w)
                /\ vfs_traverse_path(f, mounts, path) = w[Len(path)]
  <1> DEFINE D == Held(f) \cup {NoNode}
  <1>1. PICK N \in Nat : N = Len(path)
    OBVIOUS
  <1>2. PICK G : G = [k \in 1 .. N |-> [c \in D |-> NextOnWay(f, mounts, path, k, c)]]
    OBVIOUS
  <1>3. \A k \in 1 .. N, c \in D : NextOnWay(f, mounts, path, k, c) \in D
    BY <1>1, NextStep
  <1>4. G \in [1 .. N -> [D -> D]]
    BY <1>2, <1>3
  <1>5. PICK h \in [0 .. N -> D] : h[0] = Root /\ \A k \in 1 .. N : h[k] = G[k][h[k - 1]]
    <2>1. IteratedBy(N, D, Root, G)
      BY <1>1, <1>4, IteratesBy
    <2>2. QED
      BY <2>1 DEF IteratedBy
  <1>6. TraverseBody(f, mounts, path, h)
    <2>1. ASSUME NEW k \in 0 .. N
          PROVE  h[k] = IF k = 0 THEN Root
                        ELSE IF h[k - 1] = NoNode THEN NoNode
                        ELSE vfs_search_node(f, Through(mounts, h[k - 1]), path[k])
      <3>1. CASE k = 0
        BY <1>5, <3>1
      <3>2. CASE k # 0
        <4>1. k \in 1 .. N /\ k - 1 \in 0 .. N
          BY <3>2
        <4>2. h[k] = G[k][h[k - 1]] /\ h[k - 1] \in D
          BY <1>5, <4>1
        <4>3. G[k][h[k - 1]] = NextOnWay(f, mounts, path, k, h[k - 1])
          BY <1>2, <4>1, <4>2
        <4>4. QED
          BY <3>2, <4>2, <4>3 DEF NextOnWay
      <3>3. QED
        BY <3>1, <3>2
    <2>2. h = [k \in 0 .. N |-> IF k = 0 THEN Root
                                ELSE IF h[k - 1] = NoNode THEN NoNode
                                ELSE vfs_search_node(f, Through(mounts, h[k - 1]), path[k])]
      BY <1>5, <2>1
    <2>3. QED
      BY <1>1, <2>2 DEF TraverseBody
  <1>7. PICK w : w = CHOOSE x : TraverseBody(f, mounts, path, x)
    OBVIOUS
  <1>8. TraverseBody(f, mounts, path, w)
    BY <1>6, <1>7, Zenon
  <1>9. w = [k \in 0 .. N |-> IF k = 0 THEN Root
                              ELSE IF w[k - 1] = NoNode THEN NoNode
                              ELSE vfs_search_node(f, Through(mounts, w[k - 1]), path[k])]
    BY <1>1, <1>8 DEF TraverseBody
  <1>10. \A k \in 0 .. N : w[k] = IF k = 0 THEN Root
                                  ELSE IF w[k - 1] = NoNode THEN NoNode
                                  ELSE vfs_search_node(f, Through(mounts, w[k - 1]), path[k])
    BY <1>9, Zenon
  <1>11. w[0] = Root /\ \A k \in 1 .. N : w[k] = NextOnWay(f, mounts, path, k, w[k - 1])
    BY <1>10 DEF NextOnWay
  <1>12. \A k \in 0 .. N : w[k] \in D
    <2> DEFINE S == {k \in 0 .. N : w[k] \in D}
    <2>1. 0 \in S
      BY <1>1, <1>11
    <2>2. \A k \in 1 .. N : k - 1 \in S => k \in S
      BY <1>3, <1>11
    <2>3. \A k \in 0 .. N : k \in S
      <3> HIDE DEF S
      <3>1. QED
        BY <2>1, <2>2, UpTo
    <2>4. QED
      BY <2>3
  <1>13. w \in [0 .. N -> D]
    <2>1. w = [k \in 0 .. N |-> w[k]]
      BY <1>9
    <2>2. QED
      BY <1>12, <2>1
  <1>14. ASSUME NEW k \in 1 .. N
         PROVE  IF w[k - 1] = NoNode THEN w[k] = NoNode
                ELSE FirstNamed(f, K[Through(mounts, w[k - 1])], path[k], w[k])
    <2>1. w[k - 1] \in D /\ w[k] = NextOnWay(f, mounts, path, k, w[k - 1])
      BY <1>11, <1>12
    <2>2. CASE w[k - 1] = NoNode
      BY <2>1, <2>2 DEF NextOnWay
    <2>3. CASE w[k - 1] # NoNode
      <3>1. PICK c \in Held(f) \cup {NoNode} : c = w[k - 1]
        BY <1>1, <2>1
      <3>2. FirstNamed(f, K[Through(mounts, c)], path[k], NextOnWay(f, mounts, path, k, c))
        BY <2>3, <3>1, NextStep
      <3>3. QED
        BY <2>1, <2>3, <3>1, <3>2
    <2>4. QED
      BY <2>2, <2>3
  <1>15. Way(f, K, mounts, path, w)
    BY <1>1, <1>11, <1>13, <1>14 DEF Way
  <1>16. vfs_traverse_path(f, mounts, path) = w[Len(path)]
    BY <1>7, TraverseIs
  <1>17. QED
    BY <1>15, <1>16

(* There is one way along a path.                                          *)
LEMMA OneWay ==
  ASSUME NEW f, NEW K, NEW T, TreeOf(f, K, T), NEW mounts, Mounting(f, mounts, T),
         Root \in Held(f), NEW path \in Seq(Names), NEW w, Way(f, K, mounts, path, w)
  PROVE  vfs_traverse_path(f, mounts, path) = w[Len(path)]
  <1>1. PICK v : /\ Way(f, K, mounts, path, v)
                 /\ vfs_traverse_path(f, mounts, path) = v[Len(path)]
    BY TraverseWay
  <1>2. PICK N \in Nat : N = Len(path)
    OBVIOUS
  <1>3. v[0] = w[0]
    BY <1>1 DEF Way
  <1>4. ASSUME NEW k \in 1 .. N, v[k - 1] = w[k - 1] PROVE v[k] = w[k]
    <2>1. CASE w[k - 1] = NoNode
      BY <1>1, <1>2, <1>4, <2>1 DEF Way
    <2>2. CASE w[k - 1] # NoNode
      <3>1. w[k - 1] \in Held(f)
        BY <1>2, <2>2 DEF Way
      <3>2. PICK q \in Nodes : q = Through(mounts, w[k - 1])
        BY <3>1, ThroughIs DEF Held
      <3>3. FirstNamed(f, K[q], path[k], w[k]) /\ FirstNamed(f, K[q], path[k], v[k])
        BY <1>1, <1>2, <1>4, <2>2, <3>2 DEF Way
      <3>4. Len(K[q]) \in Nat /\ \A i \in 1 .. Len(K[q]) : K[q][i] # NoNode
        <4>1. K[q] \in Seq(Held(f)) /\ NoNode \notin Held(f)
          BY TreeList, VfsAssumption DEF Held
        <4>2. QED
          BY <4>1
      <3>5. QED
        BY <3>3, <3>4, FirstIsOne
    <2>3. QED
      BY <2>1, <2>2
  <1> DEFINE Same == {k \in 0 .. N : v[k] = w[k]}
  <1>5. 0 \in Same
    BY <1>3
  <1>6. \A k \in 1 .. N : k - 1 \in Same => k \in Same
    BY <1>4
  <1>7. \A k \in 0 .. N : k \in Same
    <2> HIDE DEF Same
    <2>1. QED
      BY <1>2, <1>5, <1>6, UpTo
  <1>8. QED
    BY <1>1, <1>2, <1>7

(* What is met on the way is linked to what was met before.                *)
LEMMA WayStep ==
  ASSUME NEW f, NEW K, NEW T, TreeOf(f, K, T), NEW mounts, Mounting(f, mounts, T),
         NEW path \in Seq(Names), NEW w, Way(f, K, mounts, path, w),
         NEW k \in 1 .. Len(path), w[k] # NoNode
  PROVE  /\ w[k - 1] # NoNode /\ w[k - 1] \in Held(f) /\ w[k] \in Held(f) /\ w[k] \notin T
         /\ Through(mounts, w[k - 1]) \in Nodes
         /\ FirstNamed(f, K[Through(mounts, w[k - 1])], path[k], w[k])
         /\ In(w[k], K[Through(mounts, w[k - 1])])
         /\ f[w[k]].parent = Through(mounts, w[k - 1])
         /\ f[w[k]].name = path[k]
  <1>1. w[k - 1] # NoNode /\ FirstNamed(f, K[Through(mounts, w[k - 1])], path[k], w[k])
    BY DEF Way
  <1>2. w[k - 1] \in Held(f)
    <2>1. k - 1 \in 0 .. Len(path)
      OBVIOUS
    <2>2. QED
      BY <1>1, <2>1 DEF Way
  <1>3. PICK q \in Nodes : q = Through(mounts, w[k - 1])
    BY <1>2, ThroughIs DEF Held
  <1>4. In(w[k], K[q]) /\ f[w[k]].name = path[k]
    BY <1>1, <1>3 DEF FirstNamed, In
  <1>5. QED
    BY <1>1, <1>2, <1>3, <1>4, ChildIs

LEMMA LookupHeld ==
  ASSUME NEW f, NEW K, NEW T, TreeOf(f, K, T), NEW mounts, Mounting(f, mounts, T),
         Root \in T, NEW path \in Seq(Names),
         NEW r, r = vfs_traverse_path(f, mounts, path), r # NoNode
  PROVE  /\ r \in Held(f) /\ r \in Nodes
         /\ r # Root => r \notin T /\ f[r].name \in Names
  <1>1. Root \in Held(f)
    BY DEF TreeOf
  <1>2. PICK w : Way(f, K, mounts, path, w) /\ r = w[Len(path)]
    BY <1>1, TraverseWay
  <1>3. PICK N \in Nat : N = Len(path)
    OBVIOUS
  <1>4. CASE N = 0
    BY <1>1, <1>2, <1>3, <1>4 DEF Way, Held
  <1>5. CASE N # 0
    <2>1. N \in 1 .. Len(path) /\ path[N] \in Names
      BY <1>3, <1>5
    <2>2. r \in Held(f) /\ r \notin T /\ f[r].name = path[N]
      BY <1>2, <1>3, <2>1, WayStep
    <2>3. QED
      BY <2>1, <2>2 DEF Held
  <1>6. QED
    BY <1>4, <1>5

(* Without mounts a set that holds all parents of its nodes and something  *)
(* that a path leads to holds the root.                                    *)
LEMMA LookupBelow ==
  ASSUME NEW f, NEW K, NEW T, TreeOf(f, K, T), Root \in T, NEW path \in Seq(Names),
         NEW S \in SUBSET Held(f), vfs_traverse_path(f, <<>>, path) \in S,
         \A m \in S : m \notin T => f[m].parent \in S
  PROVE  Root \in S
  <1>1. Root \in Held(f) /\ Mounting(f, <<>>, T)
    BY DEF TreeOf, Mounting
  <1>2. PICK w : Way(f, K, <<>>, path, w) /\ vfs_traverse_path(f, <<>>, path) = w[Len(path)]
    BY <1>1, TraverseWay
  <1>3. PICK N \in Nat : N = Len(path)
    OBVIOUS
  <1> DEFINE Met == {k \in 0 .. N : w[k] \in S}
  <1>4. N \in Met
    BY <1>2, <1>3
  <1>5. ASSUME NEW k \in 1 .. N, k \in Met PROVE k - 1 \in Met
    <2>1. w[k] \in S /\ w[k] # NoNode
      BY <1>5, VfsAssumption DEF Held
    <2>2. w[k] \notin T /\ f[w[k]].parent = Through(<<>>, w[k - 1])
      BY <1>1, <1>2, <1>3, <2>1, WayStep
    <2>3. Through(<<>>, w[k - 1]) = w[k - 1]
      BY <1>1, ThroughIs
    <2>4. w[k - 1] \in S
      BY <2>1, <2>2, <2>3
    <2>5. QED
      BY <2>4
  <1>6. \A k \in 0 .. N : k \in Met
    <2> HIDE DEF Met
    <2>1. QED
      BY <1>4, <1>5, DownTo
  <1>7. w[0] \in S
    BY <1>6
  <1>8. QED
    BY <1>2, <1>7 DEF Way

-----------------------------------------------------------------------------
(* Nodes created and removed.                                              *)

Creates(f, g, K, T, p, n, r) ==
  /\ p \in Nodes /\ p \in Held(f) /\ f[p].type = "folder"
  /\ n \in Nodes /\ n \notin Held(f)
  /\ TreeOf(g, Appended(K, p, n), T) /\ Held(g) = Held(f) \cup {n}
  /\ Alike(r, g[n]) /\ \A m \in Nodes : m # n => Alike(f[m], g[m])
  /\ SameNext(f, g, T) /\ g \in [Nodes -> Node]

LEMMA CreateTree ==
  ASSUME NEW f, NEW K, NEW T, TreeOf(f, K, T), NEW p \in Nodes, f[p].type = "folder",
         NEW n \in Nodes, n \notin Held(f), NEW r \in Node, r.type # "none",
         r.parent = p, r.children = NoNode, r.next = NoNode,
         NEW g, g = vfs_insert_node([f EXCEPT ![n] = r], p, n)
  PROVE  Creates(f, g, K, T, p, n, r)
  <1>1. f \in [Nodes -> Node] /\ T \subseteq Held(f) /\ p \in Held(f) /\ n # p
    BY DEF TreeOf, Held
  <1>2. PICK h : h = [f EXCEPT ![n] = r]
    OBVIOUS
  <1>3. h[n] = r /\ \A m \in Nodes : m # n => h[m] = f[m]
    BY <1>1, <1>2
  <1>4. h \in [Nodes -> Node]
    BY <1>1, <1>2
  <1>5. K[n] = <<>>
    BY DEF TreeOf, Held
  <1>6. PICK U : U = T \cup {n}
    OBVIOUS
  <1>7. n \in Held(h)
    BY <1>3 DEF Held
  <1>8. TreeOf(h, K, U) /\ Held(h) = Held(f) \cup {n}
    BY <1>3, <1>4, <1>5, <1>6, <1>7, NewTop
  <1>9. U \ {n} = T
    BY <1>1, <1>6
  <1>10. Grounded(h, T)
    <2>1. SUFFICES ASSUME NEW S \in SUBSET (Held(h) \ T), \A m \in S : h[m].parent \in S
                   PROVE  S = {}
      BY DEF Grounded
    <2>2. PICK R : R = S \ {n}
      OBVIOUS
    <2>3. R \in SUBSET (Held(f) \ T)
      BY <1>8, <2>1, <2>2
    <2>4. \A m \in R : f[m].parent \in R
      <3>1. SUFFICES ASSUME NEW m \in R PROVE f[m].parent \in R
        OBVIOUS
      <3>2. m \in Nodes /\ m # n /\ m \in S
        BY <2>1, <2>2 DEF Held
      <3>3. f[m].parent \in S
        BY <1>3, <2>1, <3>2
      <3>4. f[m].parent \in Held(f)
        BY <2>3, ParentIs
      <3>5. QED
        BY <2>2, <3>3, <3>4
    <2>5. R = {}
      BY <2>3, <2>4 DEF TreeOf, Grounded
    <2>6. n \notin S
      BY <1>1, <1>3, <2>1, <2>2, <2>5
    <2>7. QED
      BY <2>2, <2>5, <2>6
  <1>11. n \in U /\ h[p].type = "folder" /\ h[n].parent = p /\ h[n].next = NoNode /\ Grounded(h, U \ {n})
    BY <1>1, <1>3, <1>6, <1>9, <1>10
  <1>12. g = vfs_insert_node(h, p, n)
    BY <1>2
  <1>13. TreeOf(g, Appended(K, p, n), U \ {n}) /\ Relinked(h, g) /\ SameNext(h, g, U)
    BY <1>8, <1>11, <1>12, Attached
  <1>14. SameNext(f, g, T)
    <2>1. \A m \in T : m \in U /\ h[m] = f[m]
      BY <1>1, <1>3, <1>6 DEF Held
    <2>2. QED
      BY <1>13, <2>1 DEF SameNext
  <1>15. QED
    BY <1>1, <1>3, <1>8, <1>9, <1>13, <1>14 DEF Relinked, Creates

Removes(f, g, K, T, p, n, B) ==
  /\ n \in Held(f) /\ n \in Nodes /\ n \notin T /\ p = f[n].parent /\ p \in Nodes /\ p \notin B
  /\ Branch(f, K, n, B) /\ T \cap B = {} /\ Held(g) = Held(f) \ B
  /\ \E i \in 1 .. Len(K[p]) : K[p][i] = n /\ TreeOf(g, Bared(Taken(K, p, i), B), T)
  /\ \A m \in Nodes : m \notin B => Alike(f[m], g[m])
  /\ SameNext(f, g, T) /\ g \in [Nodes -> Node]

LEMMA RemoveTree ==
  ASSUME NEW f, NEW K, NEW T, TreeOf(f, K, T), NEW n \in Held(f), n \notin T,
         NEW p, p = f[n].parent, NEW B, B = Subtree(f, n),
         NEW g, g = Pruned(Unlinked(f, p, n), B)
  PROVE  Removes(f, g, K, T, p, n, B)
  <1>1. p \in Nodes /\ In(n, K[p])
    BY ParentIs
  <1>2. PICK i \in 1 .. Len(K[p]) : n = K[p][i]
    BY <1>1 DEF In
  <1>3. PICK u : u = Unlinked(f, p, n)
    OBVIOUS
  <1>4. PICK L : L = Taken(K, p, i)
    OBVIOUS
  <1>5. PICK U : U = T \cup {n}
    OBVIOUS
  <1>6. TreeOf(u, L, U) /\ Relinked(f, u) /\ SameNext(f, u, T)
    BY <1>1, <1>2, <1>3, <1>4, <1>5, Detached
  <1>7. Branch(f, K, n, B)
    BY SubtreeAll
  <1>8. p \notin B
    BY <1>7, BranchTop
  <1>9. Branch(u, L, n, B)
    <2>1. \A m \in B : L[m] = K[m] /\ m \in Nodes
      BY <1>4, <1>7, <1>8 DEF Branch, Held, Taken
    <2>2. \A m \in B : u[m].parent = f[m].parent
      BY <1>6, <2>1 DEF Relinked, Alike
    <2>3. QED
      BY <1>6, <1>7, <2>1, <2>2 DEF Relinked, Branch
  <1>10. g = Pruned(u, B)
    BY <1>3
  <1>11. TreeOf(g, Bared(L, B), U \ {n}) /\ Frees(u, g, B)
    <2>1. n \in U
      BY <1>5
    <2>2. TreeOf(u, L, U)
      BY <1>6
    <2>3. QED
      BY <1>9, <1>10, <2>1, <2>2, BranchFreed
  <1>12. U \ {n} = T
    BY <1>5
  <1>13. \A m \in Nodes : m \notin B => Alike(f[m], g[m])
    BY <1>6, <1>10 DEF Relinked, Pruned
  <1>14. T \cap B = {}
    <2>1. ASSUME NEW c \in T, c \in B PROVE FALSE
      <3>1. c # n
        BY <2>1
      <3>2. f[c].parent \in Nodes /\ In(c, K[f[c].parent])
        BY <1>7, <2>1, <3>1 DEF Branch, Held
      <3>3. QED
        BY <2>1, <3>2, ChildIs
    <2>2. QED
      BY <2>1
  <1>15. SameNext(f, g, T)
    <2>1. \A m \in T : g[m] = u[m]
      BY <1>10, <1>14 DEF Pruned, TreeOf, Held
    <2>2. QED
      BY <1>6, <2>1 DEF SameNext
  <1>16. g \in [Nodes -> Node]
    BY <1>11 DEF TreeOf
  <1>17. QED
    BY <1>1, <1>2, <1>4, <1>6, <1>7, <1>8, <1>11, <1>12, <1>13, <1>14, <1>15, <1>16
       DEF Relinked, Frees, Removes, Held

-----------------------------------------------------------------------------
(* Data.                                                                   *)

LEMMA Joined ==
  ASSUME NEW S, NEW s \in Seq(S), NEW t \in Seq(S)
  PROVE  /\ s \o t \in Seq(S) /\ Len(s \o t) = Len(s) + Len(t)
         /\ DOMAIN (s \o t) = 1 .. Len(s) + Len(t)
         /\ \A i \in 1 .. Len(s) : (s \o t)[i] = s[i]
         /\ \A i \in 1 .. Len(t) : (s \o t)[Len(s) + i] = t[i]
  OBVIOUS

(* A buffer of what was written, as long as the file.                      *)
Whole(r) ==
  /\ DOMAIN r = DOMAIN Freed
  /\ r.has \in BOOLEAN /\ r.size \in 0 .. MaxSize /\ Len(r.data) = r.size
  /\ r.data \in Seq(Bytes \cup {0})
  /\ ~ r.has => r.size = 0

AllWhole(f) == DOMAIN f = Nodes /\ \A n \in Nodes : Whole(f[n])

SameData(r, q) ==
  DOMAIN q = DOMAIN r /\ q.has = r.has /\ q.size = r.size /\ q.data = r.data

LEMMA SameWhole ==
  ASSUME NEW f, AllWhole(f), NEW g, DOMAIN g = Nodes,
         \A n \in Nodes : SameData(f[n], g[n]) \/ Whole(g[n])
  PROVE  AllWhole(g)
  BY DEF AllWhole, Whole, SameData

LEMMA FieldsOfFreed ==
  DOMAIN Freed = {"type", "name", "parent", "children", "next", "size", "has", "data"}
  BY DEF Freed

LEMMA FreedWhole == Whole(Freed)
  <1>1. Freed.has = FALSE /\ Freed.size = 0 /\ Freed.data = <<>>
    BY DEF Freed
  <1>2. Freed.data \in Seq(Bytes \cup {0}) /\ Len(Freed.data) = 0
    BY <1>1
  <1>3. 0 \in 0 .. MaxSize
    BY VfsAssumption
  <1>4. QED
    BY <1>1, <1>2, <1>3, Zenon DEF Whole

LEMMA CreatedWhole ==
  ASSUME NEW name, NEW type, NEW parent
  PROVE  Whole(vfs_create_node(name, type, parent))
  <1>1. PICK r : r = vfs_create_node(name, type, parent)
    OBVIOUS
  <1>2. r.has = FALSE /\ r.size = 0 /\ r.data = <<>> /\ DOMAIN r = DOMAIN Freed
    BY <1>1 DEF vfs_create_node, Freed
  <1>3. r.data \in Seq(Bytes \cup {0}) /\ Len(r.data) = 0
    BY <1>2
  <1>4. 0 \in 0 .. MaxSize
    BY VfsAssumption
  <1>5. Whole(r)
    BY <1>2, <1>3, <1>4, Zenon DEF Whole
  <1>6. QED
    BY <1>1, <1>5

LEMMA ChangeWhole ==
  ASSUME NEW f, AllWhole(f), NEW n, NEW r, n \in Nodes => SameData(f[n], r)
  PROVE  AllWhole([f EXCEPT ![n] = r])
  <1>1. DOMAIN f = Nodes
    BY DEF AllWhole
  <1>2. PICK g : g = [f EXCEPT ![n] = r]
    OBVIOUS
  <1>3. DOMAIN g = Nodes /\ \A m \in Nodes : g[m] = IF m = n THEN r ELSE f[m]
    BY <1>1, <1>2
  <1>4. \A m \in Nodes : SameData(f[m], g[m])
    BY <1>3 DEF SameData
  <1>5. QED
    BY <1>2, <1>3, <1>4, SameWhole

LEMMA LinkWhole ==
  ASSUME NEW f, AllWhole(f), NEW n, NEW c
  PROVE  /\ AllWhole([f EXCEPT ![n].next = c])
         /\ AllWhole([f EXCEPT ![n].children = c])
         /\ AllWhole([f EXCEPT ![n].parent = c])
  <1>1. PICK r : r = f[n]
    OBVIOUS
  <1>2. n \in Nodes => DOMAIN r = DOMAIN Freed
    BY <1>1 DEF AllWhole, Whole
  <1>3. n \in Nodes => /\ SameData(r, [r EXCEPT !.next = c])
                      /\ SameData(r, [r EXCEPT !.children = c])
                      /\ SameData(r, [r EXCEPT !.parent = c])
    BY <1>2, FieldsOfFreed DEF SameData
  <1>4. AllWhole([f EXCEPT ![n] = [r EXCEPT !.next = c]])
    BY <1>1, <1>3, ChangeWhole
  <1>5. AllWhole([f EXCEPT ![n] = [r EXCEPT !.children = c]])
    BY <1>1, <1>3, ChangeWhole
  <1>6. AllWhole([f EXCEPT ![n] = [r EXCEPT !.parent = c]])
    BY <1>1, <1>3, ChangeWhole
  <1>7. QED
    BY <1>1, <1>4, <1>5, <1>6, Zenon

LEMMA InsertWhole ==
  ASSUME NEW f, AllWhole(f), NEW p, NEW n
  PROVE  AllWhole(vfs_insert_node(f, p, n))
  BY LinkWhole DEF vfs_insert_node

LEMMA UnlinkWhole ==
  ASSUME NEW f, AllWhole(f), NEW p, NEW n
  PROVE  AllWhole(Unlinked(f, p, n))
  <1>1. PICK c : c = f[n].next
    OBVIOUS
  <1>2. PICK before : before = {m \in Range(Children(f, p)) : f[m].next = n}
    OBVIOUS
  <1>3. CASE f[p].children = n
    <2>1. Unlinked(f, p, n) = [f EXCEPT ![p].children = c]
      BY <1>1, <1>3, Zenon DEF Unlinked
    <2>2. AllWhole([f EXCEPT ![p].children = c])
      BY LinkWhole
    <2>3. QED
      BY <2>1, <2>2, Zenon
  <1>4. CASE f[p].children # n /\ before = {}
    <2>1. Unlinked(f, p, n) = f
      BY <1>2, <1>4, Zenon DEF Unlinked
    <2>2. QED
      BY <2>1
  <1>5. CASE f[p].children # n /\ before # {}
    <2>1. PICK l : l = CHOOSE m \in before : TRUE
      OBVIOUS
    <2>2. Unlinked(f, p, n) = [f EXCEPT ![l].next = c]
      BY <1>1, <1>2, <1>5, <2>1, Zenon DEF Unlinked
    <2>3. AllWhole([f EXCEPT ![l].next = c])
      BY LinkWhole
    <2>4. QED
      BY <2>2, <2>3, Zenon
  <1>6. QED
    BY <1>3, <1>4, <1>5

LEMMA PruneWhole ==
  ASSUME NEW f, AllWhole(f), NEW B
  PROVE  AllWhole(Pruned(f, B))
  BY FreedWhole DEF AllWhole, Pruned

LEMMA PutWhole ==
  ASSUME NEW f, AllWhole(f), NEW n, NEW r, Whole(r)
  PROVE  AllWhole([f EXCEPT ![n] = r])
  BY DEF AllWhole

(* What a write leaves: what was before it, the bytes, and then zeros.     *)
WriteIs(r, q, offset, bytes) ==
  /\ q = [r EXCEPT !.has = TRUE, !.size = q.size, !.data = q.data]
  /\ Whole(q) /\ q.has
  /\ offset + Len(bytes) <= q.size /\ r.size <= q.size
  /\ offset = r.size => q.size = r.size + Len(bytes)
  /\ \A i \in 1 .. offset : q.data[i] = r.data[i]
  /\ \A i \in 1 .. Len(bytes) : q.data[offset + i] = bytes[i]
  /\ \A i \in offset + Len(bytes) + 1 .. q.size : q.data[i] = 0

LEMMA WriteWhole ==
  ASSUME NEW f, AllWhole(f), NEW n \in Nodes, NEW offset \in 0 .. f[n].size,
         NEW bytes \in Seq(Bytes \cup {0}), offset + Len(bytes) <= MaxSize,
         NEW g, g = Written(f, n, offset, bytes)
  PROVE  /\ DOMAIN g = Nodes /\ \A m \in Nodes : m # n => g[m] = f[m]
         /\ WriteIs(f[n], g[n], offset, bytes)
         /\ AllWhole(g)
  <1>1. PICK r : r = f[n] /\ Whole(r) /\ DOMAIN f = Nodes
    BY DEF AllWhole
  <1>2. PICK len \in Nat : len = Len(bytes) /\ offset + len <= MaxSize
    OBVIOUS
  <1>3. PICK old \in 0 .. MaxSize : old = r.size /\ Len(r.data) = old /\ r.data \in Seq(Bytes \cup {0})
    BY <1>1 DEF Whole
  <1>4. offset \in 0 .. old
    BY <1>1, <1>3
  <1> DEFINE buffer == Buffer(r, offset, len)
             data == [i \in DOMAIN buffer |->
                       IF i \in offset + 1 .. offset + len THEN bytes[i - offset] ELSE buffer[i]]
  <1>5. PICK size \in Nat :
          /\ size = IF ~ r.has THEN len ELSE IF offset + len > old THEN offset + len ELSE old
          /\ size = SizeAfter(r, offset, len)
    BY <1>2, <1>3, <1>4 DEF SizeAfter
  <1>6. size \in 0 .. MaxSize /\ old <= size /\ offset + len <= size /\ (~ r.has => offset = 0 /\ old = 0)
    BY <1>1, <1>2, <1>3, <1>4, <1>5 DEF Whole
  <1>7. /\ DOMAIN buffer = 1 .. size
        /\ \A i \in 1 .. size : i \notin offset + 1 .. offset + len =>
             buffer[i] = IF i <= offset THEN r.data[i] ELSE 0
    <2>1. CASE ~ r.has
      <3>1. buffer = [i \in 1 .. len |-> -1]
        BY <2>1, Zenon DEF Buffer, Garbage
      <3>2. offset = 0 /\ size = len
        BY <1>5, <1>6, <2>1
      <3>3. QED
        BY <3>1, <3>2
    <2>2. CASE r.has /\ offset + len > old
      <3>1. PICK m \in Nat : m = offset + len - old /\ m = offset + len - Len(r.data)
        BY <1>2, <1>3, <1>4, <2>2
      <3>2. PICK d : d = [i \in 1 .. m |-> -1]
        OBVIOUS
      <3>3. buffer = r.data \o d
        BY <1>3, <2>2, <3>1, <3>2 DEF Buffer, Garbage
      <3>4. d \in Seq(Int) /\ Len(d) = m
        BY <3>2
      <3>5. PICK s : s = r.data
        OBVIOUS
      <3>6. DOMAIN (s \o d) = 1 .. old + m /\ \A i \in 1 .. old : (s \o d)[i] = s[i]
        <4>1. PICK S : S = Bytes \cup {0} \cup Int
          OBVIOUS
        <4>2. s \in Seq(S) /\ d \in Seq(S) /\ Len(s) = old
          BY <1>3, <3>4, <3>5, <4>1
        <4>3. QED
          <5>1. /\ DOMAIN (s \o d) = 1 .. Len(s) + Len(d)
                /\ \A i \in 1 .. Len(s) : (s \o d)[i] = s[i]
            BY <4>2, Joined
          <5>2. QED
            BY <3>4, <4>2, <5>1, Zenon
      <3>7. size = offset + len /\ old + m = size
        BY <1>5, <2>2, <3>1
      <3> HIDE DEF buffer
      <3>8. \A i \in 1 .. size : i \notin offset + 1 .. offset + len => i <= offset /\ i \in 1 .. old
        BY <1>4, <3>7
      <3>9. QED
        BY <3>3, <3>5, <3>6, <3>7, <3>8
    <2>3. CASE r.has /\ ~ (offset + len > old)
      <3>1. buffer = [i \in DOMAIN r.data |-> IF i > offset + len THEN 0 ELSE r.data[i]]
        BY <1>3, <2>3 DEF Buffer
      <3>2. DOMAIN r.data = 1 .. old /\ size = old
        BY <1>3, <1>5, <2>3
      <3> HIDE DEF buffer
      <3>3. \A i \in 1 .. size : i \notin offset + 1 .. offset + len => (i > offset + len <=> ~ (i <= offset))
        BY <1>2, <1>4
      <3>4. QED
        BY <3>1, <3>2, <3>3
    <2>4. QED
      BY <2>1, <2>2, <2>3
  <1> HIDE DEF buffer
  <1>8. /\ DOMAIN data = 1 .. size
        /\ \A i \in 1 .. size : data[i] = IF i <= offset THEN r.data[i]
                                          ELSE IF i <= offset + len THEN bytes[i - offset] ELSE 0
    <2>1. \A i \in 1 .. size : i \in offset + 1 .. offset + len <=> ~ (i <= offset) /\ i <= offset + len
      BY <1>2, <1>4
    <2>2. QED
      BY <1>7, <2>1
  <1>9. data \in [1 .. size -> Bytes \cup {0}]
    <2>1. ASSUME NEW i \in 1 .. size PROVE data[i] \in Bytes \cup {0}
      <3>1. i <= offset => r.data[i] \in Bytes \cup {0}
        BY <1>3, <1>4
      <3>2. ~ (i <= offset) /\ i <= offset + len => bytes[i - offset] \in Bytes \cup {0}
        <4>1. ~ (i <= offset) /\ i <= offset + len => i - offset \in 1 .. len
          BY <1>4
        <4>2. QED
          BY <1>2, <4>1
      <3>3. QED
        BY <1>8, <3>1, <3>2
    <2>2. data = [i \in 1 .. size |-> data[i]]
      BY <1>7
    <2>3. QED
      BY <2>1, <2>2
  <1>10. PICK d : d = data
    OBVIOUS
  <1>11. d \in Seq(Bytes \cup {0}) /\ Len(d) = size
    <2>1. PICK S : S = Bytes \cup {0}
      OBVIOUS
    <2>2. d \in [1 .. size -> S]
      BY <1>9, <1>10, <2>1
    <2>3. d \in Seq(S) /\ Len(d) = size
      BY <2>2
    <2>4. QED
      BY <2>1, <2>3
  <1>12. PICK q : q = [r EXCEPT !.has = TRUE, !.size = size, !.data = d]
    OBVIOUS
  <1>13. DOMAIN q = DOMAIN Freed /\ q.has = TRUE /\ q.size = size /\ q.data = d
    BY <1>1, <1>12, FieldsOfFreed DEF Whole
  <1>14. g = [f EXCEPT ![n] = q]
    <2>1. g = [f EXCEPT ![n] = [f[n] EXCEPT !.has = TRUE, !.size = SizeAfter(f[n], offset, Len(bytes)),
                                              !.data = data]]
      BY <1>1, <1>2, Zenon DEF Written, buffer
    <2>2. QED
      BY <1>1, <1>2, <1>5, <1>10, <1>12, <2>1
  <1>15. DOMAIN g = Nodes /\ g[n] = q /\ \A m \in Nodes : m # n => g[m] = f[m]
    BY <1>1, <1>14
  <1>16. Whole(q)
    BY <1>6, <1>11, <1>13 DEF Whole
  <1>17. WriteIs(r, q, offset, bytes)
    <2>1. q = [r EXCEPT !.has = TRUE, !.size = q.size, !.data = q.data]
      BY <1>12, <1>13
    <2>2. \A i \in 1 .. offset : d[i] = r.data[i]
      BY <1>6, <1>8, <1>10
    <2>3. \A i \in 1 .. len : d[offset + i] = bytes[i]
      <3>1. SUFFICES ASSUME NEW i \in 1 .. len PROVE d[offset + i] = bytes[i]
        OBVIOUS
      <3>2. offset + i \in 1 .. size /\ ~ (offset + i <= offset) /\ offset + i <= offset + len
            /\ offset + i - offset = i
        BY <1>6
      <3>3. QED
        BY <1>8, <1>10, <3>2
    <2>4. \A i \in offset + len + 1 .. size : d[i] = 0
      BY <1>8, <1>10
    <2>5. offset = old => size = old + len
      BY <1>2, <1>4, <1>5, <1>6
    <2>6. QED
      BY <1>2, <1>3, <1>6, <1>13, <1>16, <2>1, <2>2, <2>3, <2>4, <2>5 DEF WriteIs
  <1>18. AllWhole(g)
    BY <1>15, <1>16 DEF AllWhole
  <1>19. QED
    BY <1>1, <1>15, <1>17, <1>18

LEMMA CreateKeepsWhole ==
  ASSUME AllWhole(node), NEW path, NEW type, create(path, type)
  PROVE  AllWhole(node')
  <1>1. PICK parent : parent = Parent(node, g_mounts, path)
    OBVIOUS
  <1>2. PICK n \in Nodes :
          node' = vfs_insert_node([node EXCEPT ![n] = vfs_create_node(NameOf(path), type, parent)], parent, n)
    BY <1>1, Zenon DEF create, Created
  <1>3. PICK r : r = vfs_create_node(NameOf(path), type, parent) /\ Whole(r)
    BY CreatedWhole
  <1>4. AllWhole([node EXCEPT ![n] = r])
    BY <1>3, PutWhole
  <1>5. QED
    BY <1>2, <1>3, <1>4, InsertWhole

LEMMA RemoveKeepsWhole ==
  ASSUME AllWhole(node), NEW path, remove_p(path)
  PROVE  AllWhole(node')
  <1>1. PICK n : n = Lookup(path)
    OBVIOUS
  <1>2. PICK B : B = Subtree(node, n)
    OBVIOUS
  <1>3. PICK u : u = Unlinked(node, node[n].parent, n)
    OBVIOUS
  <1>4. node' = Pruned(u, B)
    BY <1>1, <1>2, <1>3, Zenon DEF remove_p, Pruned
  <1>5. QED
    BY <1>3, <1>4, UnlinkWhole, PruneWhole

LEMMA WriteKeepsWhole ==
  ASSUME AllWhole(node), NEW n \in Nodes, NEW offset, NEW bytes \in BoundedSeq(Bytes, MaxSize),
         write(n, offset, bytes)
  PROVE  AllWhole(node')
  <1>1. offset \in 0 .. node[n].size /\ offset + Len(bytes) <= MaxSize
        /\ node' = Written(node, n, offset, bytes)
    BY DEF write
  <1>2. bytes \in Seq(Bytes \cup {0})
    BY VfsAssumption DEF BoundedSeq, SeqOf
  <1>3. QED
    BY <1>1, <1>2, WriteWhole

LEMMA InitWhole == Init => AllWhole(node)
  <1> SUFFICES ASSUME Init PROVE AllWhole(node)
    OBVIOUS
  <1>1. PICK inner \in Nodes \ {Root, FsRoot}, name \in Names :
          node = [n \in Nodes |->
                   CASE n = Root -> vfs_create_node(NoName, "folder", NoNode)
                     [] n = FsRoot -> [vfs_create_node(NoName, "folder", NoNode)
                                        EXCEPT !.children = inner]
                     [] n = inner -> vfs_create_node(name, "folder", FsRoot)
                     [] OTHER -> Freed]
    BY DEF Init
  <1>2. PICK r : r = vfs_create_node(NoName, "folder", NoNode) /\ Whole(r)
    BY CreatedWhole
  <1>3. PICK q : q = vfs_create_node(name, "folder", FsRoot) /\ Whole(q)
    BY CreatedWhole
  <1>4. PICK s : s = [r EXCEPT !.children = inner]
    OBVIOUS
  <1>5. SameData(r, s)
    BY <1>2, <1>4, FieldsOfFreed DEF SameData, Whole
  <1>6. Whole(s)
    BY <1>2, <1>5 DEF SameData, Whole
  <1>7. \A n \in Nodes : node[n] \in {r, q, s, Freed}
    <2>1. SUFFICES ASSUME NEW n \in Nodes PROVE node[n] \in {r, q, s, Freed}
      OBVIOUS
    <2>2. node[n] = CASE n = Root -> r [] n = FsRoot -> s [] n = inner -> q [] OTHER -> Freed
      BY <1>1, <1>2, <1>3, <1>4
    <2>3. CASE n = Root
      BY <2>2, <2>3
    <2>4. CASE n = FsRoot
      BY <2>2, <2>4, VfsAssumption
    <2>5. CASE n = inner
      BY <2>2, <2>5
    <2>6. CASE n # Root /\ n # FsRoot /\ n # inner
      BY <2>2, <2>6
    <2>7. QED
      BY <2>3, <2>4, <2>5, <2>6
  <1>8. DOMAIN node = Nodes
    BY <1>1
  <1>9. QED
    BY <1>2, <1>3, <1>6, <1>7, <1>8, FreedWhole DEF AllWhole

LEMMA NextWhole == AllWhole(node) /\ [Next]_vars => AllWhole(node')
  <1> SUFFICES ASSUME AllWhole(node), [Next]_vars PROVE AllWhole(node')
    OBVIOUS
  <1>1. ASSUME NEW path \in Paths, NEW type \in {"file", "folder"}, create(path, type)
        PROVE  AllWhole(node')
    BY <1>1, CreateKeepsWhole
  <1>2. ASSUME NEW path \in Paths, remove_p(path) PROVE AllWhole(node')
    BY <1>2, RemoveKeepsWhole
  <1>3. ASSUME NEW path \in Paths, vfs_mount(path) PROVE AllWhole(node')
    <2>1. PICK point : point = Lookup(path)
      OBVIOUS
    <2>2. PICK f : f = [node EXCEPT ![FsRoot].parent = point] /\ AllWhole(f)
      BY LinkWhole
    <2>3. node' = vfs_insert_node(f, point, FsRoot)
      BY <1>3, <2>1, <2>2, Zenon DEF vfs_mount
    <2>4. QED
      BY <2>2, <2>3, InsertWhole
  <1>4. ASSUME NEW path \in Paths, vfs_unmount(path) PROVE AllWhole(node')
    <2>1. PICK point : point = Lookup(path)
      OBVIOUS
    <2>2. PICK hits : hits = {k \in DOMAIN g_mounts : g_mounts[k].mount_point = point}
      OBVIOUS
    <2>3. node' = Unlinked(node, point, g_mounts[Min(hits)].mounted_root)
      BY <1>4, <2>1, <2>2, Zenon DEF vfs_unmount
    <2>4. QED
      BY <2>3, UnlinkWhole
  <1>5. ASSUME NEW n \in Nodes, NEW offset \in 0 .. MaxSize,
               NEW bytes \in BoundedSeq(Bytes, MaxSize), write(n, offset, bytes)
        PROVE  AllWhole(node')
    BY <1>5, WriteKeepsWhole
  <1>6. CASE UNCHANGED vars
    BY <1>6 DEF vars
  <1>7. QED
    BY <1>1, <1>2, <1>3, <1>4, <1>5, <1>6 DEF Next

(* Files hold all that their size says, and only what was written: kmalloc *)
(* and krealloc of ramfs_write never leave a byte of old memory in sight.  *)
THEOREM FilesHoldTheirBytes == Spec => []BufferHoldsFile
  <1>1. Init => AllWhole(node)
    BY InitWhole
  <1>2. AllWhole(node) /\ [Next]_vars => AllWhole(node)'
    BY NextWhole DEF AllWhole, Whole
  <1>3. AllWhole(node) => BufferHoldsFile
    <2>1. SUFFICES ASSUME AllWhole(node), NEW n \in Nodes
                   PROVE  Len(node[n].data) = node[n].size /\ -1 \notin Range(node[n].data)
      BY DEF BufferHoldsFile
    <2>2. Whole(node[n])
      BY <2>1 DEF AllWhole
    <2>3. PICK s \in Seq(Bytes \cup {0}) : s = node[n].data /\ Len(s) = node[n].size
      BY <2>2 DEF Whole
    <2>4. Range(s) \subseteq Bytes \cup {0}
      BY DEF Range
    <2>5. -1 \notin Bytes \cup {0}
      BY VfsAssumption
    <2>6. QED
      BY <2>3, <2>4, <2>5
  <1>4. QED
    BY <1>1, <1>2, <1>3, PTL DEF Spec

-----------------------------------------------------------------------------
(* The calls.                                                              *)

LEMMA PathIs ==
  ASSUME NEW path \in Seq(Names)
  PROVE  /\ (IF path = <<>> THEN <<>> ELSE Front(path)) \in Seq(Names)
         /\ NameOf(path) \in Names \cup {NoName}
         /\ path # <<>> => /\ NameOf(path) = path[Len(path)] /\ Len(path) # 0
                           /\ Len(Front(path)) = Len(path) - 1
                           /\ \A i \in 1 .. Len(path) - 1 : Front(path)[i] = path[i]
  <1>1. CASE path = <<>>
    BY <1>1 DEF NameOf
  <1>2. CASE path # <<>>
    <2>1. PICK k \in Nat : k = Len(path) - 1 /\ k + 1 = Len(path)
      <3>1. Len(path) \in Nat /\ Len(path) # 0
        BY <1>2
      <3>2. QED
        BY <3>1
    <2>2. k \in 0 .. Len(path)
      BY <2>1
    <2>3. PICK s : s = SubSeq(path, 1, k)
      OBVIOUS
    <2>4. s \in Seq(Names) /\ Len(s) = k /\ \A i \in 1 .. k : s[i] = path[i]
      BY <2>2, <2>3, Prefix
    <2>5. Front(path) = s
      BY <2>1, <2>3 DEF Front
    <2>6. NameOf(path) = path[Len(path)] /\ path[Len(path)] \in Names
      BY <1>2, <2>1 DEF NameOf, Last
    <2>7. QED
      BY <1>2, <2>1, <2>4, <2>5, <2>6
  <1>3. QED
    BY <1>1, <1>2

LEMMA CreatedIs ==
  ASSUME NEW name \in Names \cup {NoName}, NEW type \in {"file", "folder"}, NEW p \in Nodes,
         NEW r, r = vfs_create_node(name, type, p)
  PROVE  /\ r \in Node /\ r.type = type /\ r.type # "none" /\ r.parent = p /\ r.name = name
         /\ r.children = NoNode /\ r.next = NoNode
  <1>1. Freed \in Node
    BY FreedIs
  <1>2. r = [[[Freed EXCEPT !.type = type] EXCEPT !.name = name] EXCEPT !.parent = p]
    BY DEF vfs_create_node
  <1>3. r \in Node
    BY <1>1, <1>2 DEF Node
  <1>4. QED
    BY <1>2, <1>3 DEF Freed

LEMMA CreateIs ==
  ASSUME NEW K, NEW T, TreeOf(node, K, T), Mounting(node, g_mounts, T), Root \in T,
         NEW path \in Seq(Names), NEW type \in {"file", "folder"}, create(path, type),
         NEW p, p = Parent(node, g_mounts, path)
  PROVE  \E n \in Nodes : Creates(node, node', K, T, p, n, vfs_create_node(NameOf(path), type, p))
  <1>1. PICK n \in Nodes \ Live :
          node' = vfs_insert_node([node EXCEPT ![n] = vfs_create_node(NameOf(path), type, p)], p, n)
    BY Zenon DEF create, Created
  <1>2. p # NoNode /\ node[p].type = "folder"
    BY DEF create, IsFolder
  <1>3. p = vfs_traverse_path(node, g_mounts, IF path = <<>> THEN <<>> ELSE Front(path))
    BY Zenon DEF Parent
  <1>4. p \in Held(node) /\ p \in Nodes
    BY <1>2, <1>3, PathIs, LookupHeld
  <1>5. PICK r : r = vfs_create_node(NameOf(path), type, p)
    OBVIOUS
  <1>6. /\ r \in Node /\ r.type # "none" /\ r.parent = p
        /\ r.children = NoNode /\ r.next = NoNode
    <2>1. PICK name \in Names \cup {NoName} : name = NameOf(path)
      BY PathIs
    <2>2. QED
      BY <1>4, <1>5, <2>1, CreatedIs
  <1>7. n \in Nodes /\ n \notin Held(node)
    BY DEF Live, Held
  <1>8. PICK g : g = vfs_insert_node([node EXCEPT ![n] = r], p, n) /\ g = node'
    BY <1>1, <1>5
  <1>9. Creates(node, g, K, T, p, n, r)
    BY <1>2, <1>4, <1>6, <1>7, <1>8, CreateTree
  <1>10. QED
    BY <1>5, <1>8, <1>9

LEMMA RemoveIs ==
  ASSUME NEW K, NEW T, TreeOf(node, K, T), Mounting(node, g_mounts, T), Root \in T,
         node[Root].parent = NoNode,
         NEW path \in Seq(Names), remove_p(path), NEW n, n = Lookup(path)
  PROVE  /\ n # NoNode /\ Removes(node, node', K, T, node[n].parent, n, Subtree(node, n))
         /\ node[n].name \in Names
         /\ broken' = HoldsMount(Subtree(node, n))
  <1>1. PICK p : p = node[n].parent
    OBVIOUS
  <1>2. PICK B : B = Subtree(node, n)
    OBVIOUS
  <1>3. n # NoNode /\ p # NoNode
    BY <1>1 DEF remove_p
  <1>4. n = vfs_traverse_path(node, g_mounts, path) /\ n # Root
    BY <1>1, <1>3 DEF Lookup
  <1>5. n \in Held(node) /\ n \in Nodes /\ n \notin T /\ node[n].name \in Names
    BY <1>3, <1>4, LookupHeld
  <1>6. PICK g : g = Pruned(Unlinked(node, p, n), B) /\ g = node'
    BY <1>1, <1>2, Zenon DEF remove_p, Pruned
  <1>7. Removes(node, g, K, T, p, n, B)
    BY <1>1, <1>2, <1>5, <1>6, RemoveTree
  <1>8. broken' = HoldsMount(B)
    BY <1>2, Zenon DEF remove_p
  <1>9. QED
    BY <1>1, <1>2, <1>3, <1>5, <1>6, <1>7, <1>8

LEMMA WriteIsLocal ==
  ASSUME NEW K, NEW T, TreeOf(node, K, T), AllWhole(node), NEW n \in Nodes,
         NEW offset \in 0 .. node[n].size,
         NEW bytes \in Seq(Bytes \cup {0}), offset + Len(bytes) <= MaxSize,
         NEW g, g = Written(node, n, offset, bytes)
  PROVE  /\ TreeOf(g, K, T) /\ Held(g) = Held(node) /\ g \in [Nodes -> Node]
         /\ \A m \in Nodes : SameLinks(node[m], g[m]) /\ g[m].name = node[m].name
         /\ \A m \in Nodes : m # n => g[m] = node[m]
         /\ WriteIs(node[n], g[n], offset, bytes) /\ AllWhole(g)
  <1>1. /\ DOMAIN g = Nodes /\ \A m \in Nodes : m # n => g[m] = node[m]
        /\ WriteIs(node[n], g[n], offset, bytes) /\ AllWhole(g)
    BY WriteWhole
  <1>2. PICK r \in Node : r = node[n] /\ DOMAIN r = DOMAIN Freed
    BY DEF TreeOf, AllWhole, Whole
  <1>3. PICK q : q = g[n] /\ q = [r EXCEPT !.has = TRUE, !.size = q.size, !.data = q.data] /\ Whole(q)
    BY <1>1, <1>2 DEF WriteIs
  <1>4. SameLinks(r, q) /\ q.name = r.name
    BY <1>2, <1>3, FieldsOfFreed DEF SameLinks, Node
  <1>5. q.size \in 0 .. MaxSize /\ q.data \in BoundedSeq(Bytes \cup {0, -1}, MaxSize)
    <2>1. PICK s : s = q.data /\ s \in Seq(Bytes \cup {0}) /\ Len(s) \in 0 .. MaxSize /\ q.size \in 0 .. MaxSize
      BY <1>3 DEF Whole
    <2>2. s \in [1 .. Len(s) -> Bytes \cup {0, -1}]
      BY <2>1
    <2>3. QED
      BY <2>1, <2>2 DEF BoundedSeq, SeqOf
  <1>6. q \in Node
    <2>1. PICK c, d : c = q.size /\ d = q.data
      OBVIOUS
    <2>2. q = [r EXCEPT !.has = TRUE, !.size = c, !.data = d]
      BY <1>3, <2>1
    <2>3. c \in 0 .. MaxSize /\ d \in BoundedSeq(Bytes \cup {0, -1}, MaxSize)
      BY <1>5, <2>1
    <2>4. QED
      BY <2>2, <2>3 DEF Node
  <1>7. g \in [Nodes -> Node]
    <2>1. \A m \in Nodes : g[m] \in Node
      BY <1>1, <1>3, <1>6 DEF TreeOf
    <2>2. g = [m \in Nodes |-> g[m]]
      <3>1. g = [node EXCEPT ![n] = g[n]]
        BY <1>1 DEF TreeOf, Written
      <3>2. QED
        BY <1>1, <3>1
    <2>3. QED
      BY <2>1, <2>2
  <1>8. \A m \in Nodes : SameLinks(node[m], g[m]) /\ g[m].name = node[m].name
    BY <1>1, <1>2, <1>3, <1>4 DEF SameLinks
  <1>9. TreeOf(g, K, T) /\ Held(g) = Held(node)
    BY <1>7, <1>8, SameTree
  <1>10. QED
    BY <1>1, <1>7, <1>8, <1>9

-----------------------------------------------------------------------------
(* The tree of the file system, as long as its links are not broken.       *)

Tops(mounts) == {Root} \cup (IF mounts = <<>> THEN {FsRoot} ELSE {})

Roots(f) ==
  /\ f[Root].type = "folder" /\ f[Root].parent = NoNode
  /\ f[FsRoot].type = "folder" /\ f[FsRoot].name = NoName

Grows(f, T) == \E K : TreeOf(f, K, T)

Sound(f, mounts) ==
  /\ AllWhole(f) /\ Grows(f, Tops(mounts))
  /\ Mounting(f, mounts, Tops(mounts))
  /\ Roots(f)

VInv == broken \in BOOLEAN /\ (~ broken => Sound(node, g_mounts))

LEMMA RootNodes == Root \in Nodes /\ FsRoot \in Nodes /\ Root # FsRoot
  BY VfsAssumption

LEMMA RootsHeld ==
  ASSUME NEW f, NEW mounts, Sound(f, mounts)
  PROVE  Root \in Held(f) /\ FsRoot \in Held(f) /\ f[Root].parent = NoNode
  BY RootNodes DEF Sound, Roots, Held

LEMMA StartTree ==
  ASSUME NEW f \in [Nodes -> Node], NEW inner \in Nodes \ {Root, FsRoot},
         f[Root].type = "folder", f[Root].children = NoNode,
         f[FsRoot].type = "folder", f[FsRoot].children = inner,
         f[inner].type = "folder", f[inner].children = NoNode, f[inner].next = NoNode,
         f[inner].parent = FsRoot,
         \A n \in Nodes \ {Root, FsRoot, inner} : f[n] = Freed
  PROVE  \E K : TreeOf(f, K, {Root, FsRoot})
  <1>1. PICK K : K = [m \in Nodes |-> IF m = FsRoot THEN <<inner>> ELSE <<>>]
    OBVIOUS
  <1>2. Held(f) = {Root, FsRoot, inner}
    BY RootNodes DEF Held, Freed
  <1>3. ASSUME NEW p \in Nodes PROVE ListOf(f, p, K[p]) /\ (f[p].type # "folder" => K[p] = <<>>)
    <2>1. CASE p = FsRoot
      <3>1. PICK s : s = <<inner>> /\ K[p] = s
        BY <1>1, <2>1
      <3>2. s \in Seq(Held(f)) /\ Len(s) = 1 /\ s[1] = inner /\ s # <<>>
        BY <1>2, <3>1
      <3>3. ListOf(f, p, s)
        BY <2>1, <3>2 DEF ListOf
      <3>4. QED
        BY <2>1, <3>1, <3>3
    <2>2. CASE p # FsRoot
      <3>1. K[p] = <<>> /\ f[p].children = NoNode
        BY <1>1, <2>2 DEF Freed
      <3>2. QED
        BY <3>1 DEF ListOf
    <2>3. QED
      BY <2>1, <2>2
  <1>4. \A n, m \in Nodes : In(n, K[m]) <=> m = FsRoot /\ n = inner
    <2>1. SUFFICES ASSUME NEW n \in Nodes, NEW m \in Nodes
                   PROVE  In(n, K[m]) <=> m = FsRoot /\ n = inner
      OBVIOUS
    <2>2. CASE m = FsRoot
      <3>1. PICK s : s = <<inner>> /\ K[m] = s
        BY <1>1, <2>2
      <3>2. Len(s) = 1 /\ s[1] = inner
        BY <3>1
      <3>3. QED
        BY <2>2, <3>1, <3>2 DEF In
    <2>3. CASE m # FsRoot
      <3>1. K[m] = <<>>
        BY <1>1, <2>3
      <3>2. QED
        BY <2>3, <3>1 DEF In
    <2>4. QED
      BY <2>2, <2>3
  <1>5. \A n \in Held(f) : Placed(f, K, {Root, FsRoot}, n)
    BY <1>2, <1>4, RootNodes DEF Placed
  <1>6. Grounded(f, {Root, FsRoot})
    BY <1>2 DEF Grounded
  <1>7. TreeOf(f, K, {Root, FsRoot})
    BY <1>2, <1>3, <1>5, <1>6 DEF TreeOf
  <1>8. QED
    BY <1>7

LEMMA VInit == Init => VInv
  <1> SUFFICES ASSUME Init PROVE VInv
    OBVIOUS
  <1>1. PICK inner \in Nodes \ {Root, FsRoot}, name \in Names :
          node = [n \in Nodes |->
                   CASE n = Root -> vfs_create_node(NoName, "folder", NoNode)
                     [] n = FsRoot -> [vfs_create_node(NoName, "folder", NoNode)
                                        EXCEPT !.children = inner]
                     [] n = inner -> vfs_create_node(name, "folder", FsRoot)
                     [] OTHER -> Freed]
    BY DEF Init
  <1>2. PICK r : r = vfs_create_node(NoName, "folder", NoNode)
    OBVIOUS
  <1>3. /\ r \in Node /\ r.type = "folder" /\ r.parent = NoNode /\ r.name = NoName
        /\ r.children = NoNode /\ r.next = NoNode
    <2>1. r = [[[Freed EXCEPT !.type = "folder"] EXCEPT !.name = NoName] EXCEPT !.parent = NoNode]
      BY <1>2 DEF vfs_create_node
    <2>2. Freed \in Node
      BY FreedIs
    <2>3. r \in Node
      BY <2>1, <2>2 DEF Node
    <2>4. QED
      BY <2>1, <2>3 DEF Freed
  <1>4. PICK q : q = vfs_create_node(name, "folder", FsRoot)
    OBVIOUS
  <1>5. q \in Node /\ q.type = "folder" /\ q.parent = FsRoot /\ q.children = NoNode /\ q.next = NoNode
    BY <1>4, RootNodes, CreatedIs
  <1>6. PICK s : s = [r EXCEPT !.children = inner]
    OBVIOUS
  <1>7. /\ s \in Node /\ s.type = "folder" /\ s.name = NoName
        /\ s.children = inner /\ s.next = NoNode
    BY <1>3, <1>6 DEF Node
  <1>8. /\ DOMAIN node = Nodes
        /\ \A n \in Nodes : node[n] = CASE n = Root -> r [] n = FsRoot -> s [] n = inner -> q [] OTHER -> Freed
    BY <1>1, <1>2, <1>4, <1>6
  <1>9. /\ node[Root] = r /\ node[FsRoot] = s /\ node[inner] = q
        /\ \A n \in Nodes \ {Root, FsRoot, inner} : node[n] = Freed
    BY <1>8, RootNodes
  <1>10. node \in [Nodes -> Node]
    <2>1. \A n \in Nodes : node[n] \in Node
      BY <1>3, <1>5, <1>7, <1>9, FreedIs
    <2>2. node = [n \in Nodes |-> node[n]]
      BY <1>1
    <2>3. QED
      BY <2>1, <2>2
  <1>11. \E K : TreeOf(node, K, {Root, FsRoot})
    BY <1>3, <1>5, <1>7, <1>9, <1>10, StartTree
  <1>12. g_mounts = <<>> /\ broken = FALSE
    BY DEF Init
  <1>13. Tops(g_mounts) = {Root, FsRoot}
    BY <1>12 DEF Tops
  <1>14. Grows(node, Tops(g_mounts)) /\ Mounting(node, g_mounts, Tops(g_mounts))
    BY <1>11, <1>12, <1>13 DEF Grows, Mounting
  <1>15. Roots(node)
    BY <1>3, <1>7, <1>9 DEF Roots
  <1>16. QED
    BY <1>12, <1>14, <1>15, InitWhole DEF VInv, Sound

(* What neither mounts nor unmounts.                                       *)
SameRoot(r, q) == r.type = q.type /\ r.name = q.name /\ r.parent = q.parent

LEMMA StaysSound ==
  ASSUME NEW f, NEW mounts, Sound(f, mounts),
         NEW g, NEW K, TreeOf(g, K, Tops(mounts)), AllWhole(g),
         SameRoot(f[Root], g[Root]), SameRoot(f[FsRoot], g[FsRoot]),
         \A k \in DOMAIN mounts : mounts[k].mount_point \in Held(g)
  PROVE  Sound(g, mounts)
  <1>1. Roots(g)
    BY DEF Sound, Roots, SameRoot
  <1>2. Mounting(g, mounts, Tops(mounts))
    <2>1. CASE mounts = <<>>
      BY <2>1 DEF Mounting
    <2>2. CASE mounts # <<>>
      <3>1. PICK p \in Held(f) : /\ mounts = <<[mount_point |-> p, mounted_root |-> FsRoot]>>
                                 /\ FsRoot \notin Tops(mounts) /\ f[FsRoot].parent = p
        BY <2>2 DEF Sound, Mounting
      <3>2. p \in Held(g)
        BY <3>1
      <3>3. FsRoot \in Held(g) /\ g[FsRoot].parent = p
        BY <1>1, <3>1, RootNodes DEF SameRoot, Roots, Held
      <3>4. QED
        BY <3>1, <3>2, <3>3 DEF Mounting
    <2>3. QED
      BY <2>1, <2>2
  <1>3. QED
    BY <1>1, <1>2 DEF Sound, Grows

LEMMA PathsAre == ASSUME NEW path \in Paths PROVE path \in Seq(Names)
  BY DEF Paths, BoundedSeq, SeqOf

LEMMA RootOnTop == ASSUME NEW mounts PROVE Root \in Tops(mounts)
  BY DEF Tops

LEMMA CreateSound ==
  ASSUME Sound(node, g_mounts), NEW path \in Paths, NEW type \in {"file", "folder"},
         create(path, type)
  PROVE  Sound(node', g_mounts)
  <1>1. PICK K : TreeOf(node, K, Tops(g_mounts))
    BY DEF Sound, Grows
  <1>2. PICK p : p = Parent(node, g_mounts, path)
    OBVIOUS
  <1>3. Mounting(node, g_mounts, Tops(g_mounts))
    BY DEF Sound
  <1>4. PICK n \in Nodes : \E r : Creates(node, node', K, Tops(g_mounts), p, n, r)
    BY <1>1, <1>2, <1>3, RootOnTop, PathsAre, CreateIs
  <1>5. /\ n \notin Held(node) /\ \A m \in Nodes : m # n => Alike(node[m], node'[m])
        /\ TreeOf(node', Appended(K, p, n), Tops(g_mounts)) /\ Held(node') = Held(node) \cup {n}
    BY <1>4 DEF Creates
  <1>6. SameRoot(node[Root], node'[Root]) /\ SameRoot(node[FsRoot], node'[FsRoot])
    BY <1>5, RootNodes, RootsHeld DEF SameRoot, Alike
  <1>7. \A k \in DOMAIN g_mounts : g_mounts[k].mount_point \in Held(node')
    BY <1>3, <1>5 DEF Mounting
  <1>8. AllWhole(node')
    BY CreateKeepsWhole DEF Sound
  <1>9. QED
    BY <1>5, <1>6, <1>7, <1>8, StaysSound

LEMMA WriteSound ==
  ASSUME Sound(node, g_mounts), NEW n \in Nodes, NEW offset,
         NEW bytes \in BoundedSeq(Bytes, MaxSize), write(n, offset, bytes)
  PROVE  Sound(node', g_mounts)
  <1>1. PICK K : TreeOf(node, K, Tops(g_mounts))
    BY DEF Sound, Grows
  <1>2. /\ offset \in 0 .. node[n].size /\ offset + Len(bytes) <= MaxSize
        /\ node' = Written(node, n, offset, bytes)
    BY DEF write
  <1>3. bytes \in Seq(Bytes \cup {0})
    BY DEF BoundedSeq, SeqOf
  <1>4. AllWhole(node)
    BY DEF Sound
  <1>5. /\ TreeOf(node', K, Tops(g_mounts)) /\ Held(node') = Held(node) /\ AllWhole(node')
        /\ \A m \in Nodes : SameLinks(node[m], node'[m]) /\ node'[m].name = node[m].name
    BY <1>1, <1>2, <1>3, <1>4, WriteIsLocal
  <1>6. SameRoot(node[Root], node'[Root]) /\ SameRoot(node[FsRoot], node'[FsRoot])
    BY <1>5, RootNodes DEF SameRoot, SameLinks
  <1>7. \A k \in DOMAIN g_mounts : g_mounts[k].mount_point \in Held(node')
    BY <1>5 DEF Mounting, Sound
  <1>8. QED
    BY <1>5, <1>6, <1>7, StaysSound


(* The other root is removed neither while it is mounted nor before.       *)
LEMMA RootKept ==
  ASSUME NEW f, NEW mounts, Mounting(f, mounts, Tops(mounts)), Roots(f),
         NEW K, NEW n, NEW B, Branch(f, K, n, B), Tops(mounts) \cap B = {}, f[n].name \in Names,
         \A k \in DOMAIN mounts : mounts[k].mount_point \notin B
  PROVE  FsRoot \notin B /\ (mounts # <<>> => f[FsRoot].parent \notin B)
  <1>1. CASE mounts = <<>>
    BY <1>1 DEF Tops
  <1>2. CASE mounts # <<>>
    <2>1. mounts = <<[mount_point |-> f[FsRoot].parent, mounted_root |-> FsRoot]>>
      BY <1>2 DEF Mounting
    <2>2. f[FsRoot].parent \notin B
      BY <2>1
    <2>3. FsRoot # n
      BY VfsAssumption DEF Roots
    <2>4. QED
      BY <1>2, <2>2, <2>3 DEF Branch
  <1>3. QED
    BY <1>1, <1>2

LEMMA RemoveSound ==
  ASSUME Sound(node, g_mounts), NEW path \in Paths, remove_p(path), ~ broken'
  PROVE  Sound(node', g_mounts)
  <1>1. PICK K : TreeOf(node, K, Tops(g_mounts))
    BY DEF Sound, Grows
  <1>2. PICK n : n = Lookup(path)
    OBVIOUS
  <1>3. PICK B : B = Subtree(node, n)
    OBVIOUS
  <1>4. Mounting(node, g_mounts, Tops(g_mounts)) /\ Roots(node)
    BY DEF Sound
  <1>5. /\ Removes(node, node', K, Tops(g_mounts), node[n].parent, n, B)
        /\ node[n].name \in Names
        /\ \A k \in DOMAIN g_mounts : g_mounts[k].mount_point \notin B
    BY <1>1, <1>2, <1>3, <1>4, RootOnTop, PathsAre, RemoveIs DEF Roots, HoldsMount
  <1>6. /\ Branch(node, K, n, B) /\ Tops(g_mounts) \cap B = {} /\ Held(node') = Held(node) \ B
        /\ \A m \in Nodes : m \notin B => Alike(node[m], node'[m])
    BY <1>5 DEF Removes
  <1>7. PICK L : TreeOf(node', L, Tops(g_mounts))
    BY <1>5 DEF Removes
  <1>8. FsRoot \notin B
    BY <1>4, <1>5, <1>6, RootKept
  <1>9. SameRoot(node[Root], node'[Root]) /\ SameRoot(node[FsRoot], node'[FsRoot])
    <2>1. Root \notin B
      BY <1>6, RootOnTop
    <2>2. QED
      BY <1>6, <1>8, <2>1, RootNodes DEF SameRoot, Alike
  <1>10. \A k \in DOMAIN g_mounts : g_mounts[k].mount_point \in Held(node')
    BY <1>4, <1>5, <1>6 DEF Mounting
  <1>11. AllWhole(node')
    BY RemoveKeepsWhole DEF Sound
  <1>12. QED
    BY <1>6, <1>7, <1>9, <1>10, <1>11, StaysSound

LEMMA MountSound ==
  ASSUME Sound(node, g_mounts), NEW path \in Paths, vfs_mount(path), ~ broken'
  PROVE  Sound(node', g_mounts')
  <1>1. PICK K : TreeOf(node, K, Tops(g_mounts))
    BY DEF Sound, Grows
  <1>2. PICK point : point = Lookup(path)
    OBVIOUS
  <1>3. /\ point # NoNode /\ node[point].type = "folder"
        /\ g_mounts' = <<[mount_point |-> point, mounted_root |-> FsRoot]>> \o g_mounts
        /\ node' = vfs_insert_node([node EXCEPT ![FsRoot].parent = point], point, FsRoot)
        /\ broken' = (g_mounts # <<>> \/ node[FsRoot].next # NoNode)
    BY <1>2, Zenon DEF vfs_mount, IsFolder
  <1>4. g_mounts = <<>> /\ node[FsRoot].next = NoNode
    BY <1>3
  <1>5. PICK T : T = {Root, FsRoot} /\ T = Tops(g_mounts)
    BY <1>4 DEF Tops
  <1>6. point \in Held(node) /\ point \in Nodes
    <2>1. point = vfs_traverse_path(node, g_mounts, path)
      BY <1>2 DEF Lookup
    <2>2. Mounting(node, g_mounts, Tops(g_mounts)) /\ path \in Seq(Names)
      BY PathsAre DEF Sound
    <2>3. QED
      BY <1>1, <1>3, <2>1, <2>2, RootOnTop, LookupHeld
  <1>7. PICK f : f = [node EXCEPT ![FsRoot].parent = point]
    OBVIOUS
  <1>8. node \in [Nodes -> Node] /\ Roots(node)
    BY <1>1 DEF TreeOf, Sound
  <1>9. /\ f \in [Nodes -> Node] /\ \A m \in Nodes : m # FsRoot => f[m] = node[m]
        /\ f[FsRoot].parent = point /\ f[FsRoot].type = "folder" /\ f[FsRoot].name = NoName
        /\ f[FsRoot].next = NoNode /\ f[FsRoot].children = node[FsRoot].children
    <2>1. PICK r \in Node : r = node[FsRoot] /\ r.type = "folder" /\ r.name = NoName /\ r.next = NoNode
      BY <1>4, <1>8, RootNodes DEF Roots
    <2>2. PICK q : q = [r EXCEPT !.parent = point]
      OBVIOUS
    <2>3. /\ q \in Node /\ q.parent = point /\ q.type = "folder" /\ q.name = NoName
          /\ q.next = NoNode /\ q.children = r.children
      BY <1>6, <2>1, <2>2 DEF Node
    <2>4. f = [node EXCEPT ![FsRoot] = q]
      BY <1>7, <2>1, <2>2
    <2>5. QED
      BY <1>8, <2>1, <2>3, <2>4, RootNodes
  <1>10. TreeOf(f, K, T) /\ Held(f) = Held(node)
    <2>1. FsRoot \in Held(node) /\ FsRoot \in Held(f) /\ f[FsRoot].type = node[FsRoot].type
      BY <1>8, <1>9, RootNodes DEF Held, Roots
    <2>2. FsRoot \in T /\ T \cup {FsRoot} = T
      BY <1>5
    <2>3. TreeOf(f, K, T \cup {FsRoot}) /\ Held(f) = Held(node) \cup {FsRoot}
      <3>1. /\ FsRoot \in Held(node) => FsRoot \in T /\ f[FsRoot].children = node[FsRoot].children
            /\ FsRoot \notin Held(node) => f[FsRoot].children = NoNode
        BY <1>5, <1>9, <2>1
      <3>2. TreeOf(node, K, T) /\ FsRoot \in Nodes
        BY <1>1, <1>5, RootNodes
      <3>3. f \in [Nodes -> Node] /\ \A m \in Nodes : m # FsRoot => f[m] = node[m]
        BY <1>9
      <3>4. TreeOf(f, K, T \cup {FsRoot}) /\ Held(f) = Held(node) \cup {FsRoot}
        BY <2>1, <3>1, <3>2, <3>3, NewTop, SMTT(60)
      <3>5. QED
        BY <3>4
    <2>4. QED
      BY <2>1, <2>2, <2>3
  <1>11. Grounded(f, T \ {FsRoot})
    <2>1. SUFFICES ASSUME NEW S \in SUBSET (Held(f) \ (T \ {FsRoot})), \A m \in S : f[m].parent \in S
                   PROVE  S = {}
      BY DEF Grounded
    <2>2. CASE FsRoot \in S
      <3>1. point \in S
        BY <1>9, <2>1, <2>2
      <3>2. \A m \in S : m \notin T => node[m].parent \in S
        BY <1>5, <1>9, <1>10, <2>1 DEF Held
      <3>3. vfs_traverse_path(node, <<>>, path) \in S
        BY <1>2, <1>4, <3>1 DEF Lookup
      <3>4. S \in SUBSET Held(node)
        BY <1>10
      <3>5. Root \in T /\ TreeOf(node, K, T) /\ path \in Seq(Names)
        BY <1>1, <1>5, PathsAre
      <3>6. Root \in S
        BY <3>2, <3>3, <3>4, <3>5, LookupBelow
      <3>7. QED
        BY <1>5, <3>6, RootNodes
    <2>3. CASE FsRoot \notin S
      <3>1. S \in SUBSET (Held(f) \ T)
        BY <2>3
      <3>2. QED
        BY <1>10, <2>1, <3>1 DEF TreeOf, Grounded
    <2>4. QED
      BY <2>2, <2>3
  <1>12. PICK g : g = vfs_insert_node(f, point, FsRoot) /\ g = node'
    BY <1>3, <1>7
  <1>13. f[point].type = "folder"
    BY <1>3, <1>6, <1>9
  <1>14. TreeOf(g, Appended(K, point, FsRoot), T \ {FsRoot}) /\ Relinked(f, g)
    <2>1. FsRoot \in T
      BY <1>5
    <2>2. QED
      BY <1>6, <1>9, <1>10, <1>11, <1>12, <1>13, <2>1, Attached
  <1>15. PICK mounts : mounts = <<[mount_point |-> point, mounted_root |-> FsRoot]>> /\ mounts = g_mounts'
    BY <1>3, <1>4
  <1>16. T \ {FsRoot} = Tops(mounts)
    BY <1>5, <1>15, RootNodes DEF Tops
  <1>17. Roots(g) /\ g[FsRoot].parent = point
    <2>1. Alike(f[Root], g[Root]) /\ Alike(f[FsRoot], g[FsRoot])
      BY <1>14, RootNodes DEF Relinked
    <2>2. QED
      BY <1>8, <1>9, <2>1, RootNodes DEF Roots, Alike
  <1>18. Mounting(g, mounts, Tops(mounts))
    <2>1. point \in Held(g) /\ FsRoot \in Held(g)
      BY <1>6, <1>8, <1>10, <1>14, RootNodes DEF Relinked, Roots, Held
    <2>2. FsRoot \notin Tops(mounts)
      BY <1>16
    <2>3. QED
      BY <1>15, <1>17, <2>1, <2>2 DEF Mounting
  <1>19. AllWhole(g)
    <2>1. AllWhole(node)
      BY DEF Sound
    <2>2. AllWhole(f)
      BY <1>7, <2>1, LinkWhole
    <2>3. QED
      BY <1>12, <2>2, InsertWhole
  <1>20. Sound(g, mounts)
    <2>1. Grows(g, Tops(mounts))
      BY <1>14, <1>16, Zenon DEF Grows
    <2>2. QED
      BY <1>17, <1>18, <1>19, <2>1 DEF Sound
  <1>21. QED
    BY <1>12, <1>15, <1>20


LEMMA UnmountIs ==
  ASSUME Sound(node, g_mounts), NEW path \in Paths, vfs_unmount(path)
  PROVE  \E p \in Held(node) :
           /\ FsRoot \in Held(node) /\ FsRoot \notin Tops(g_mounts) /\ node[FsRoot].parent = p
           /\ g_mounts # <<>> /\ g_mounts' = <<>> /\ node' = Unlinked(node, p, FsRoot)
  <1>2. PICK point : point = Lookup(path)
    OBVIOUS
  <1>3. PICK hits : hits = {k \in DOMAIN g_mounts : g_mounts[k].mount_point = point}
    OBVIOUS
  <1>4. /\ hits # {} /\ g_mounts' = RemoveAt(g_mounts, Min(hits))
        /\ node' = Unlinked(node, point, g_mounts[Min(hits)].mounted_root)
    BY <1>2, <1>3, Zenon DEF vfs_unmount
  <1>5. g_mounts # <<>>
    BY <1>3, <1>4
  <1>6. PICK p \in Held(node) :
          /\ g_mounts = <<[mount_point |-> p, mounted_root |-> FsRoot]>>
          /\ FsRoot \in Held(node) /\ FsRoot \notin Tops(g_mounts) /\ node[FsRoot].parent = p
    BY <1>5 DEF Sound, Mounting
  <1>7. hits = {1} /\ p = point
    BY <1>3, <1>4, <1>6
  <1>8. Min(hits) = 1
    <2>1. hits \subseteq Nat
      BY <1>7
    <2>2. QED
      BY <1>4, <1>7, <2>1, Least
  <1>9. node' = Unlinked(node, p, FsRoot)
    BY <1>4, <1>6, <1>7, <1>8
  <1>10. g_mounts' = <<>>
    <2>1. PICK s : s = g_mounts
      OBVIOUS
    <2>2. s \in Seq({[mount_point |-> p, mounted_root |-> FsRoot]}) /\ Len(s) = 1
      BY <1>6, <2>1
    <2>3. SubSeq(s, 1, 0) = <<>> /\ SubSeq(s, 2, 1) = <<>>
      BY <2>2
    <2>4. g_mounts' = SubSeq(s, 1, 0) \o SubSeq(s, 2, 1)
      BY <1>4, <1>8, <2>1, <2>2 DEF RemoveAt
    <2>5. QED
      BY <2>3, <2>4
  <1>11. QED
    BY <1>5, <1>6, <1>9, <1>10

LEMMA UnmountSound ==
  ASSUME Sound(node, g_mounts), NEW path \in Paths, vfs_unmount(path)
  PROVE  Sound(node', g_mounts')
  <1>1. PICK K : TreeOf(node, K, Tops(g_mounts))
    BY DEF Sound, Grows
  <1>2. PICK p \in Held(node) :
          /\ FsRoot \in Held(node) /\ FsRoot \notin Tops(g_mounts) /\ node[FsRoot].parent = p
          /\ g_mounts # <<>> /\ g_mounts' = <<>> /\ node' = Unlinked(node, p, FsRoot)
    BY UnmountIs
  <1>5. g_mounts # <<>>
    BY <1>2
  <1>11. In(FsRoot, K[p]) /\ p \in Nodes
    BY <1>1, <1>2, ParentIs DEF Held
  <1>12. PICK i \in 1 .. Len(K[p]) : FsRoot = K[p][i]
    BY <1>11 DEF In
  <1>13. PICK g : g = Unlinked(node, p, FsRoot) /\ g = node'
    BY <1>2
  <1>14. TreeOf(g, Taken(K, p, i), Tops(g_mounts) \cup {FsRoot}) /\ Relinked(node, g)
    BY <1>1, <1>11, <1>12, <1>13, Detached
  <1>15. Tops(g_mounts) \cup {FsRoot} = Tops(<<>>)
    BY <1>5 DEF Tops
  <1>16. Grows(g, Tops(<<>>))
    BY <1>14, <1>15, Zenon DEF Grows
  <1>17. Roots(g)
    <2>1. Roots(node)
      BY DEF Sound
    <2>2. QED
      BY <1>14, <2>1, RootNodes DEF Relinked, Alike, Roots
  <1>18. AllWhole(g)
    BY <1>13, UnlinkWhole DEF Sound
  <1>19. Mounting(g, <<>>, Tops(<<>>))
    BY DEF Mounting
  <1>20. Sound(g, <<>>)
    BY <1>16, <1>17, <1>18, <1>19 DEF Sound
  <1>21. QED
    BY <1>2, <1>13, <1>20

LEMMA NextSound ==
  ASSUME Sound(node, g_mounts), [Next]_vars, ~ broken'
  PROVE  Sound(node', g_mounts')
  <1>1. ASSUME NEW path \in Paths, NEW type \in {"file", "folder"}, create(path, type)
        PROVE  Sound(node', g_mounts')
    <2>1. g_mounts' = g_mounts
      BY <1>1, Zenon DEF create
    <2>2. QED
      BY <1>1, <2>1, CreateSound
  <1>2. ASSUME NEW path \in Paths, remove_p(path) PROVE Sound(node', g_mounts')
    <2>1. g_mounts' = g_mounts
      BY <1>2, Zenon DEF remove_p
    <2>2. QED
      BY <1>2, <2>1, RemoveSound
  <1>3. ASSUME NEW path \in Paths, vfs_mount(path) PROVE Sound(node', g_mounts')
    BY <1>3, MountSound
  <1>4. ASSUME NEW path \in Paths, vfs_unmount(path) PROVE Sound(node', g_mounts')
    BY <1>4, UnmountSound
  <1>5. ASSUME NEW n \in Nodes, NEW offset \in 0 .. MaxSize,
               NEW bytes \in BoundedSeq(Bytes, MaxSize), write(n, offset, bytes)
        PROVE  Sound(node', g_mounts')
    <2>1. g_mounts' = g_mounts
      BY <1>5, Zenon DEF write
    <2>2. QED
      BY <1>5, <2>1, WriteSound
  <1>6. CASE UNCHANGED vars
    BY <1>6 DEF vars
  <1>7. QED
    BY <1>1, <1>2, <1>3, <1>4, <1>5, <1>6 DEF Next

LEMMA SoundTree ==
  ASSUME NEW K, TreeOf(node, K, Tops(g_mounts)), Mounting(node, g_mounts, Tops(g_mounts)),
         Roots(node), broken \in BOOLEAN
  PROVE  TreeSound
  <1>1. PICK T : T = Tops(g_mounts) /\ Root \in T
    BY RootOnTop
  <1>2. /\ TreeOf(node, K, T) /\ node \in [Nodes -> Node] /\ Live = Held(node)
        /\ Root \in Held(node) /\ FsRoot \in Held(node)
    BY <1>1, RootNodes DEF TreeOf, Live, Held, Roots
  <1>3. TypeOK
    <2>1. g_mounts \in Seq([mount_point : Nodes, mounted_root : {FsRoot}])
      <3>1. CASE g_mounts = <<>>
        BY <3>1
      <3>2. CASE g_mounts # <<>>
        <4>1. PICK p \in Nodes : g_mounts = <<[mount_point |-> p, mounted_root |-> FsRoot]>>
          BY <3>2 DEF Mounting, Held
        <4>2. PICK r : r = [mount_point |-> p, mounted_root |-> FsRoot]
          OBVIOUS
        <4>3. r \in [mount_point : Nodes, mounted_root : {FsRoot}]
          BY <4>2
        <4>4. QED
          BY <4>1, <4>2, <4>3
      <3>3. QED
        BY <3>1, <3>2
    <2>2. QED
      BY <1>2, <2>1 DEF TypeOK
  <1>4. ASSUME NEW p \in Nodes
        PROVE  /\ Len(Children(node, p)) < Cardinality(Nodes)
               /\ \A c \in Range(Children(node, p)) : c \in Live /\ node[c].parent = p /\ c # Root
               /\ node[p].type = "file" => Children(node, p) = <<>>
    <2>1. PICK s \in Seq(Held(node)) : s = K[p] /\ Children(node, p) = s
      BY <1>2, TreeList
    <2>2. Len(s) < Cardinality(Nodes)
      BY <1>2, <2>1, ListShort
    <2>3. ASSUME NEW c \in Range(s) PROVE c \in Live /\ node[c].parent = p /\ c # Root
      <3>1. In(c, s)
        BY DEF Range, In
      <3>2. QED
        BY <1>1, <1>2, <2>1, <3>1, ChildIs
    <2>4. node[p].type = "file" => s = <<>>
      BY <1>2, <2>1 DEF TreeOf
    <2>5. QED
      BY <2>1, <2>2, <2>3, <2>4
  <1>5. Live = Subtree(node, Root) \cup Subtree(node, FsRoot)
    <2>1. PICK A, B : A = Subtree(node, Root) /\ B = Subtree(node, FsRoot)
      OBVIOUS
    <2>2. Branch(node, K, Root, A) /\ Branch(node, K, FsRoot, B)
      BY <1>2, <2>1, SubtreeAll
    <2>3. T \subseteq A \cup B
      BY <1>1, <2>2 DEF Tops, Branch
    <2>4. Held(node) = A \cup B
      BY <1>2, <2>2, <2>3, BranchesAll
    <2>5. QED
      BY <1>2, <2>1, <2>4
  <1>6. Root \notin UNION {Range(Children(node, p)) : p \in Live}
    BY <1>2, <1>4 DEF Held
  <1>7. \A k \in DOMAIN g_mounts : g_mounts[k].mount_point \in Live
    BY <1>2 DEF Mounting
  <1>8. \A p \in Live : p \in Nodes
    BY DEF Live
  <1>9. QED
    BY <1>3, <1>4, <1>5, <1>6, <1>7, <1>8 DEF TreeSound

LEMMA BrokenEnds == ASSUME [Next]_vars, broken \in BOOLEAN PROVE broken' \in BOOLEAN /\ (broken => broken')
  <1>1. ASSUME NEW path \in Paths, NEW type \in {"file", "folder"}, create(path, type)
        PROVE  ~ broken /\ broken' = broken
    BY <1>1, Zenon DEF create
  <1>2. ASSUME NEW path \in Paths, remove_p(path) PROVE ~ broken /\ broken' \in BOOLEAN
    <2>1. PICK removed : removed = Subtree(node, Lookup(path))
      OBVIOUS
    <2>2. ~ broken /\ broken' = HoldsMount(removed)
      BY <1>2, <2>1, Zenon DEF remove_p
    <2>3. HoldsMount(removed) \in BOOLEAN
      BY DEF HoldsMount
    <2>4. QED
      BY <2>2, <2>3
  <1>3. ASSUME NEW path \in Paths, vfs_mount(path) PROVE ~ broken /\ broken' \in BOOLEAN
    <2>1. ~ broken /\ broken' = (g_mounts # <<>> \/ node[FsRoot].next # NoNode)
      BY <1>3, Zenon DEF vfs_mount
    <2>2. QED
      BY <2>1
  <1>4. ASSUME NEW path \in Paths, vfs_unmount(path) PROVE ~ broken /\ broken' = broken
    BY <1>4, Zenon DEF vfs_unmount
  <1>5. ASSUME NEW n \in Nodes, NEW offset \in 0 .. MaxSize,
               NEW bytes \in BoundedSeq(Bytes, MaxSize), write(n, offset, bytes)
        PROVE  ~ broken /\ broken' = broken
    BY <1>5, Zenon DEF write
  <1>6. CASE UNCHANGED vars
    BY <1>6 DEF vars
  <1>7. QED
    BY <1>1, <1>2, <1>3, <1>4, <1>5, <1>6 DEF Next

LEMMA SoundStays == VInv /\ [Next]_vars => VInv'
  <1>1. SUFFICES ASSUME VInv, [Next]_vars PROVE VInv'
    OBVIOUS
  <1>2. broken' \in BOOLEAN /\ (broken => broken')
    BY <1>1, BrokenEnds DEF VInv
  <1>3. ~ broken' => Sound(node', g_mounts')
    BY <1>1, <1>2, NextSound DEF VInv
  <1>4. QED
    BY <1>2, <1>3 DEF VInv, Sound, AllWhole, Whole, Grows, Tops, Mounting, Roots, TreeOf, ListOf,
                      Placed, Grounded, Held, In

(* The links of vfs.c form trees of all allocated nodes, and every list of *)
(* children ends, whatever is created, removed, written, mounted and       *)
(* unmounted, until a folder that something is mounted on is removed or a  *)
(* tree is mounted that is mounted already or whose next pointer           *)
(* vfs_unmount has left set.                                               *)
THEOREM TreeStaysSound == Spec => []TreeSound
  <1>1. Init => VInv
    BY VInit
  <1>2. VInv /\ [Next]_vars => VInv'
    BY SoundStays
  <1>3. VInv => TreeSound
    <2>1. SUFFICES ASSUME VInv PROVE TreeSound
      OBVIOUS
    <2>2. QED
      BY <2>1, SoundTree DEF VInv, Sound, Grows, TreeSound
  <1>4. QED
    BY <1>1, <1>2, <1>3, PTL DEF Spec


-----------------------------------------------------------------------------
(* A path leads to where it led before, unless that is removed.            *)

LEMMA FirstAppended ==
  ASSUME NEW U, NEW s \in Seq(U), NEW n \in U, NEW f, NEW g,
         \A i \in 1 .. Len(s) : g[s[i]].name = f[s[i]].name,
         NEW name, NEW c, c # NoNode, FirstNamed(f, s, name, c)
  PROVE  FirstNamed(g, s, name, c) /\ FirstNamed(g, Append(s, n), name, c)
  <1>1. PICK k \in Nat : k = Len(s)
    OBVIOUS
  <1>2. PICK i \in 1 .. k : c = s[i] /\ f[c].name = name /\ \A j \in 1 .. i - 1 : f[s[j]].name # name
    BY <1>1 DEF FirstNamed
  <1>3. \A j \in 1 .. i - 1 : j \in 1 .. k /\ g[s[j]].name # name
    BY <1>1, <1>2
  <1>4. g[c].name = name
    BY <1>1, <1>2
  <1>5. PICK t : t = Append(s, n)
    OBVIOUS
  <1>6. Len(t) = k + 1 /\ \A j \in 1 .. k : t[j] = s[j]
    BY <1>1, <1>5, AppendIs
  <1>7. FirstNamed(g, s, name, c)
    BY <1>1, <1>2, <1>3, <1>4 DEF FirstNamed
  <1>8. FirstNamed(g, t, name, c)
    <2>1. i \in 1 .. Len(t) /\ c = t[i] /\ \A j \in 1 .. i - 1 : g[t[j]].name # name
      BY <1>2, <1>3, <1>6
    <2>2. QED
      BY <1>4, <2>1 DEF FirstNamed
  <1>9. QED
    BY <1>5, <1>7, <1>8

LEMMA FirstWithout ==
  ASSUME NEW U, NEW s \in Seq(U), NEW n \in 1 .. Len(s), NEW f, NEW g,
         \A i \in 1 .. Len(s) : i # n => g[s[i]].name = f[s[i]].name,
         NEW name, NEW c, c # NoNode, c # s[n], FirstNamed(f, s, name, c)
  PROVE  FirstNamed(g, Without(s, n), name, c)
  <1>1. PICK k \in Nat : k = Len(s)
    OBVIOUS
  <1>2. PICK i \in 1 .. k : c = s[i] /\ f[c].name = name /\ \A j \in 1 .. i - 1 : f[s[j]].name # name
    BY <1>1 DEF FirstNamed
  <1>3. \A j \in 1 .. i - 1 : j \in 1 .. k /\ (j # n => g[s[j]].name # name)
    BY <1>1, <1>2
  <1>4. g[c].name = name /\ i # n
    BY <1>1, <1>2
  <1>5. PICK t : t = Without(s, n)
    OBVIOUS
  <1>6. Len(t) = k - 1 /\ \A j \in 1 .. k - 1 : t[j] = IF j < n THEN s[j] ELSE s[j + 1]
    BY <1>1, <1>5, WithoutIs
  <1>7. CASE i < n
    <2>1. i \in 1 .. k - 1 /\ i \in 1 .. Len(t) /\ c = t[i]
      BY <1>1, <1>2, <1>6, <1>7
    <2>2. \A j \in 1 .. i - 1 : t[j] = s[j] /\ j # n
      BY <1>6, <1>7, <2>1
    <2>3. QED
      BY <1>3, <1>4, <1>5, <2>1, <2>2 DEF FirstNamed
  <1>8. CASE n < i
    <2>1. PICK m \in 1 .. k - 1 : m = i - 1 /\ c = t[m]
      BY <1>1, <1>2, <1>6, <1>8
    <2>2. \A j \in 1 .. m - 1 : g[t[j]].name # name
      <3>1. SUFFICES ASSUME NEW j \in 1 .. m - 1 PROVE g[t[j]].name # name
        OBVIOUS
      <3>2. CASE j < n
        BY <1>3, <1>6, <2>1, <3>2
      <3>3. CASE ~ (j < n)
        <4>1. PICK l \in 1 .. i - 1 : l = j + 1 /\ l # n
          BY <2>1, <3>3
        <4>2. t[j] = s[l]
          BY <1>6, <2>1, <3>3, <4>1
        <4>3. QED
          BY <1>3, <4>1, <4>2
      <3>4. QED
        BY <3>2, <3>3
    <2>3. m \in 1 .. Len(t)
      BY <1>6, <2>1
    <2>4. QED
      BY <1>4, <1>5, <2>1, <2>2, <2>3 DEF FirstNamed
  <1>9. QED
    BY <1>1, <1>4, <1>7, <1>8

(* Outside of B the lists of g find what those of f found.                 *)
KeepsFirst(f, K, g, L, B) ==
  \A p \in Held(f), c \in Held(f), name \in Names :
    p \notin B /\ c \notin B /\ FirstNamed(f, K[p], name, c) => FirstNamed(g, L[p], name, c)

(* All below a node of B is in B.                                          *)
Closed(f, K, B) == \A m \in B, c \in Nodes : In(c, K[m]) => c \in B

LEMMA PathStays ==
  ASSUME NEW f, NEW K, NEW T, TreeOf(f, K, T), NEW mounts, Mounting(f, mounts, T),
         NEW g, NEW L, TreeOf(g, L, T), Mounting(g, mounts, T), Root \in T,
         NEW B, Closed(f, K, B), KeepsFirst(f, K, g, L, B),
         mounts # <<>> => FsRoot \notin B /\ f[FsRoot].parent \notin B,
         NEW path \in Seq(Names), NEW n, n = vfs_traverse_path(f, mounts, path),
         n # NoNode, n \notin B
  PROVE  vfs_traverse_path(g, mounts, path) = n
  <1>1. Root \in Held(f) /\ Root \in Held(g)
    BY DEF TreeOf
  <1>2. PICK w : Way(f, K, mounts, path, w) /\ n = w[Len(path)]
    BY <1>1, TraverseWay
  <1>3. PICK v : Way(g, L, mounts, path, v) /\ vfs_traverse_path(g, mounts, path) = v[Len(path)]
    BY <1>1, TraverseWay
  <1>4. PICK N \in Nat : N = Len(path)
    OBVIOUS
  <1> DEFINE Lost == {k \in 0 .. N : w[k] = NoNode \/ w[k] \in B \/ v[k] = w[k]}
  <1>5. 0 \in Lost
    BY <1>2, <1>3 DEF Way
  <1>6. ASSUME NEW k \in 1 .. N, k - 1 \in Lost PROVE k \in Lost
    <2>1. SUFFICES ASSUME w[k] # NoNode, w[k] \notin B PROVE v[k] = w[k]
      OBVIOUS
    <2>2. PICK q \in Nodes : q = Through(mounts, w[k - 1])
      BY <1>2, <1>4, <2>1, WayStep
    <2>3. /\ w[k - 1] # NoNode /\ w[k - 1] \in Held(f) /\ w[k] \in Held(f) /\ w[k] \in Nodes
          /\ FirstNamed(f, K[q], path[k], w[k]) /\ In(w[k], K[q])
      BY <1>2, <1>4, <2>1, <2>2, WayStep DEF Held
    <2>4. q \in Held(f)
      BY <2>2, <2>3, ThroughIs
    <2>5. q = w[k - 1] \/ (q = FsRoot /\ f[FsRoot].parent = w[k - 1] /\ mounts # <<>>)
      BY <2>2, ThroughIs
    <2>6. w[k - 1] \notin B
      BY <2>1, <2>3, <2>5 DEF Closed
    <2>7. q \notin B /\ v[k - 1] = w[k - 1]
      BY <1>6, <2>3, <2>5, <2>6
    <2>8. path[k] \in Names
      BY <1>4
    <2>9. FirstNamed(g, L[q], path[k], w[k])
      BY <2>1, <2>3, <2>4, <2>7, <2>8 DEF KeepsFirst
    <2>10. FirstNamed(g, L[q], path[k], v[k])
      BY <1>3, <1>4, <2>2, <2>3, <2>7 DEF Way
    <2>11. Len(L[q]) \in Nat /\ \A i \in 1 .. Len(L[q]) : L[q][i] # NoNode
      <3>1. L[q] \in Seq(Held(g)) /\ NoNode \notin Held(g)
        BY TreeList, VfsAssumption DEF Held
      <3>2. QED
        BY <3>1
    <2>12. QED
      BY <2>9, <2>10, <2>11, FirstIsOne
  <1>7. \A k \in 0 .. N : k \in Lost
    <2> HIDE DEF Lost
    <2>1. QED
      BY <1>4, <1>5, <1>6, UpTo
  <1>8. QED
    BY <1>2, <1>3, <1>4, <1>7


LEMMA NothingLost ==
  ASSUME NEW f, NEW K, NEW T, TreeOf(f, K, T), NEW g, NEW L,
         \A m \in Held(f) : g[m].name = f[m].name,
         \A p \in Held(f) : L[p] = K[p] \/ \E n \in Nodes : L[p] = Append(K[p], n)
  PROVE  Closed(f, K, {}) /\ KeepsFirst(f, K, g, L, {})
  <1>1. SUFFICES ASSUME NEW p \in Held(f), NEW c \in Held(f), NEW name \in Names,
                        FirstNamed(f, K[p], name, c)
                 PROVE  FirstNamed(g, L[p], name, c)
    BY DEF Closed, KeepsFirst
  <1>2. p \in Nodes /\ c \in Nodes /\ c # NoNode
    BY VfsAssumption DEF Held
  <1>3. PICK s \in Seq(Held(f)) : s = K[p]
    BY <1>2, TreeList
  <1>4. \A i \in 1 .. Len(s) : g[s[i]].name = f[s[i]].name
    BY <1>3
  <1>5. s \in Seq(Nodes)
    BY DEF Held
  <1>6. FirstNamed(f, s, name, c)
    BY <1>1, <1>3
  <1>7. L[p] = s \/ \E n \in Nodes : L[p] = Append(s, n)
    BY <1>3
  <1>8. ASSUME NEW n \in Nodes PROVE FirstNamed(g, s, name, c) /\ FirstNamed(g, Append(s, n), name, c)
    BY <1>2, <1>4, <1>5, <1>6, FirstAppended
  <1>9. QED
    BY <1>2, <1>7, <1>8

LEMMA NoneBehind ==
  ASSUME NEW f, NEW K, NEW T, TreeOf(f, K, T), NEW g, NEW p, NEW n, NEW B,
         Branch(f, K, n, B), p \in Nodes, p \notin B, NEW i \in 1 .. Len(K[p]), K[p][i] = n,
         \A m \in Nodes : m \notin B => Alike(f[m], g[m])
  PROVE  Closed(f, K, B) /\ KeepsFirst(f, K, g, Bared(Taken(K, p, i), B), B)
  <1>1. Closed(f, K, B)
    BY DEF Branch, Closed
  <1>2. PICK L : L = Bared(Taken(K, p, i), B)
    OBVIOUS
  <1>3. SUFFICES ASSUME NEW q \in Held(f), NEW c \in Held(f), NEW name \in Names,
                        q \notin B, c \notin B, FirstNamed(f, K[q], name, c)
                 PROVE  FirstNamed(g, L[q], name, c)
    BY <1>1, <1>2 DEF KeepsFirst
  <1>4. q \in Nodes /\ c \in Nodes /\ c # NoNode
    BY VfsAssumption DEF Held
  <1>5. L[q] = IF q = p THEN Without(K[q], i) ELSE K[q]
    BY <1>2, <1>3, <1>4 DEF Bared, Taken
  <1>6. PICK s \in Seq(Held(f)) : s = K[q] /\ ListOf(f, q, s)
    BY <1>4, TreeList
  <1>7. ASSUME NEW j \in 1 .. Len(s), s[j] # n PROVE s[j] \notin B
    <2>1. In(s[j], K[q]) /\ s[j] \in Nodes
      BY <1>6 DEF In, Held
    <2>2. f[s[j]].parent = q
      BY <1>4, <2>1, ChildIs
    <2>3. QED
      BY <1>3, <1>7, <2>2 DEF Branch
  <1>8. s \in Seq(Nodes) /\ FirstNamed(f, s, name, c)
    BY <1>3, <1>6 DEF Held
  <1>9. CASE q = p
    <2>1. i \in 1 .. Len(s) /\ s[i] = n
      BY <1>6, <1>9
    <2>2. \A j \in 1 .. Len(s) : s[j] = n => j = i
      BY <1>6, <2>1 DEF ListOf
    <2>3. \A j \in 1 .. Len(s) : j # i => g[s[j]].name = f[s[j]].name
      BY <1>7, <1>8, <2>2 DEF Alike
    <2>4. c # s[i]
      BY <1>3, <2>1 DEF Branch
    <2>5. FirstNamed(g, Without(s, i), name, c)
      BY <1>4, <1>8, <2>1, <2>3, <2>4, FirstWithout
    <2>6. QED
      BY <1>5, <1>6, <1>9, <2>5
  <1>10. CASE q # p
    <2>1. \A j \in 1 .. Len(s) : s[j] # n
      <3>1. SUFFICES ASSUME NEW j \in 1 .. Len(s), s[j] = n PROVE FALSE
        OBVIOUS
      <3>2. In(n, K[q]) /\ In(n, K[p])
        BY <1>6, <3>1 DEF In
      <3>3. f[n].parent = q
        BY <1>4, <3>2, ChildIs
      <3>4. f[n].parent = p
        BY <3>2, ChildIs
      <3>5. QED
        BY <1>10, <3>3, <3>4
    <2>2. \A j \in 1 .. Len(s) : g[s[j]].name = f[s[j]].name
      BY <1>7, <1>8, <2>1 DEF Alike
    <2>3. n \in Nodes
      BY DEF Branch, Held
    <2>4. FirstNamed(g, s, name, c)
      BY <1>4, <1>8, <2>2, <2>3, FirstAppended
    <2>5. QED
      BY <1>5, <1>6, <1>10, <2>4
  <1>11. QED
    BY <1>9, <1>10

(* What the calls that neither mount nor unmount have in common.           *)
LEMMA FoundAgain ==
  ASSUME Sound(node, g_mounts), Sound(node', g_mounts),
         NEW K, TreeOf(node, K, Tops(g_mounts)), NEW L, TreeOf(node', L, Tops(g_mounts)),
         NEW B, Closed(node, K, B), KeepsFirst(node, K, node', L, B), B \cap Held(node') = {},
         g_mounts # <<>> => FsRoot \notin B /\ node[FsRoot].parent \notin B,
         NEW path \in Paths, NEW n, n = Lookup(path), n # NoNode
  PROVE  vfs_traverse_path(node', g_mounts, path) = n \/ n \notin Held(node')
  <1>1. Mounting(node, g_mounts, Tops(g_mounts)) /\ Mounting(node', g_mounts, Tops(g_mounts))
    BY DEF Sound
  <1>2. Root \in Tops(g_mounts) /\ path \in Seq(Names)
    BY RootOnTop, PathsAre
  <1>3. n = vfs_traverse_path(node, g_mounts, path)
    BY DEF Lookup
  <1>4. CASE n \notin B
    BY <1>1, <1>2, <1>3, <1>4, PathStays
  <1>5. QED
    BY <1>4


LEMMA CreateStable ==
  ASSUME Sound(node, g_mounts), NEW at \in Paths, NEW type \in {"file", "folder"},
         create(at, type), NEW path \in Paths, NEW n, n = Lookup(path), n # NoNode
  PROVE  vfs_traverse_path(node', g_mounts, path) = n \/ n \notin Held(node')
  <1>1. PICK K : TreeOf(node, K, Tops(g_mounts))
    BY DEF Sound, Grows
  <1>2. PICK p : p = Parent(node, g_mounts, at)
    OBVIOUS
  <1>3. Mounting(node, g_mounts, Tops(g_mounts))
    BY DEF Sound
  <1>4. PICK m \in Nodes : \E r : Creates(node, node', K, Tops(g_mounts), p, m, r)
    BY <1>1, <1>2, <1>3, RootOnTop, PathsAre, CreateIs
  <1>5. PICK L : L = Appended(K, p, m)
    OBVIOUS
  <1>6. /\ TreeOf(node', L, Tops(g_mounts))
        /\ m \notin Held(node) /\ \A c \in Nodes : c # m => Alike(node[c], node'[c])
    BY <1>4, <1>5 DEF Creates
  <1>7. \A c \in Held(node) : node'[c].name = node[c].name
    BY <1>6 DEF Alike, Held
  <1>8. \A q \in Held(node) : L[q] = K[q] \/ \E c \in Nodes : L[q] = Append(K[q], c)
    BY <1>5 DEF Appended, Held
  <1>9. PICK B : B = {} /\ Closed(node, K, B) /\ KeepsFirst(node, K, node', L, B)
    BY <1>1, <1>7, <1>8, NothingLost
  <1>10. Sound(node', g_mounts)
    BY CreateSound
  <1>11. B \cap Held(node') = {} /\ FsRoot \notin B /\ node[FsRoot].parent \notin B
    BY <1>9
  <1>12. QED
    BY <1>1, <1>6, <1>9, <1>10, <1>11, FoundAgain

LEMMA WriteStable ==
  ASSUME Sound(node, g_mounts), NEW m \in Nodes, NEW offset,
         NEW bytes \in BoundedSeq(Bytes, MaxSize), write(m, offset, bytes),
         NEW path \in Paths, NEW n, n = Lookup(path), n # NoNode
  PROVE  vfs_traverse_path(node', g_mounts, path) = n \/ n \notin Held(node')
  <1>1. PICK K : TreeOf(node, K, Tops(g_mounts))
    BY DEF Sound, Grows
  <1>2. /\ offset \in 0 .. node[m].size /\ offset + Len(bytes) <= MaxSize
        /\ node' = Written(node, m, offset, bytes)
    BY DEF write
  <1>3. bytes \in Seq(Bytes \cup {0})
    BY DEF BoundedSeq, SeqOf
  <1>4. AllWhole(node)
    BY DEF Sound
  <1>5. TreeOf(node', K, Tops(g_mounts)) /\ \A c \in Nodes : node'[c].name = node[c].name
    BY <1>1, <1>2, <1>3, <1>4, WriteIsLocal
  <1>6. \A c \in Held(node) : node'[c].name = node[c].name
    BY <1>5 DEF Held
  <1>7. PICK B : B = {} /\ Closed(node, K, B) /\ KeepsFirst(node, K, node', K, B)
    BY <1>1, <1>6, NothingLost
  <1>8. Sound(node', g_mounts)
    BY WriteSound
  <1>9. B \cap Held(node') = {} /\ FsRoot \notin B /\ node[FsRoot].parent \notin B
    BY <1>7
  <1>10. QED
    BY <1>1, <1>5, <1>7, <1>8, <1>9, FoundAgain

LEMMA RemoveStable ==
  ASSUME Sound(node, g_mounts), NEW at \in Paths, remove_p(at), ~ broken',
         NEW path \in Paths, NEW n, n = Lookup(path), n # NoNode
  PROVE  vfs_traverse_path(node', g_mounts, path) = n \/ n \notin Held(node')
  <1>1. PICK K : TreeOf(node, K, Tops(g_mounts))
    BY DEF Sound, Grows
  <1>2. PICK m : m = Lookup(at)
    OBVIOUS
  <1>3. PICK B : B = Subtree(node, m)
    OBVIOUS
  <1>4. Mounting(node, g_mounts, Tops(g_mounts)) /\ Roots(node)
    BY DEF Sound
  <1>5. PICK p : p = node[m].parent
    OBVIOUS
  <1>6. /\ Removes(node, node', K, Tops(g_mounts), p, m, B)
        /\ node[m].name \in Names
        /\ \A k \in DOMAIN g_mounts : g_mounts[k].mount_point \notin B
    BY <1>1, <1>2, <1>3, <1>4, <1>5, RootOnTop, PathsAre, RemoveIs DEF Roots, HoldsMount
  <1>7. PICK i \in 1 .. Len(K[p]) :
          /\ K[p][i] = m
          /\ TreeOf(node', Bared(Taken(K, p, i), B), Tops(g_mounts))
    BY <1>6 DEF Removes
  <1>8. /\ Branch(node, K, m, B) /\ Tops(g_mounts) \cap B = {} /\ B \cap Held(node') = {}
        /\ p \in Nodes /\ p \notin B /\ \A c \in Nodes : c \notin B => Alike(node[c], node'[c])
    BY <1>6 DEF Removes
  <1>9. Closed(node, K, B) /\ KeepsFirst(node, K, node', Bared(Taken(K, p, i), B), B)
    BY <1>1, <1>7, <1>8, NoneBehind
  <1>10. g_mounts # <<>> => FsRoot \notin B /\ node[FsRoot].parent \notin B
    BY <1>4, <1>6, <1>8, RootKept
  <1>11. Sound(node', g_mounts)
    BY RemoveSound
  <1>12. QED
    BY <1>1, <1>7, <1>8, <1>9, <1>10, <1>11, FoundAgain

LEMMA NextStable ==
  ASSUME Sound(node, g_mounts), [Next]_vars, ~ broken', UNCHANGED g_mounts,
         NEW path \in Paths, NEW n, n = Lookup(path), n # NoNode
  PROVE  vfs_traverse_path(node', g_mounts, path) = n \/ n \notin Held(node')
  <1>1. ASSUME NEW at \in Paths, vfs_mount(at) PROVE FALSE
    <2>1. PICK r : g_mounts = <<r>> \o g_mounts
      BY <1>1, Zenon DEF vfs_mount
    <2>2. CASE g_mounts = <<>>
      BY <2>1, <2>2
    <2>3. CASE g_mounts # <<>>
      <3>1. PICK x : g_mounts = <<x>>
        BY <2>3 DEF Sound, Mounting
      <3>2. <<x>> = <<r>> \o <<x>>
        BY <2>1, <3>1
      <3>3. QED
        BY <3>2
    <2>4. QED
      BY <2>2, <2>3
  <1>2. ASSUME NEW at \in Paths, vfs_unmount(at) PROVE FALSE
    BY <1>2, UnmountIs
  <1>3. CASE UNCHANGED vars
    BY <1>3 DEF vars, Lookup
  <1>4. QED
    BY <1>1, <1>2, <1>3, CreateStable, RemoveStable, WriteStable DEF Next


(* create puts the new node behind its siblings, remove_p takes away a     *)
(* whole subtree and leaves the order of the others, write touches no      *)
(* link: no call makes a path that led somewhere lead somewhere else, as   *)
(* long as what it led to is there.                                        *)
THEOREM PathsStayStable == Spec => LookupStable
  <1> DEFINE Stable == ~ broken' /\ UNCHANGED g_mounts =>
                \A path \in Paths :
                  LET n == Lookup(path)
                  IN n # NoNode => vfs_traverse_path(node', g_mounts', path) = n \/ n \notin Live'
  <1>1. Init => VInv
    BY VInit
  <1>2. VInv /\ [Next]_vars => VInv'
    BY SoundStays
  <1>3. VInv /\ [Next]_vars => Stable
    <2>1. SUFFICES ASSUME VInv, [Next]_vars, ~ broken', UNCHANGED g_mounts, NEW path \in Paths,
                          NEW n, n = Lookup(path), n # NoNode
                   PROVE  vfs_traverse_path(node', g_mounts', path) = n \/ n \notin Live'
      BY Zenon
    <2>2. vfs_traverse_path(node', g_mounts, path) = n \/ n \notin Held(node')
      BY <2>1, BrokenEnds, NextStable DEF VInv
    <2>3. QED
      BY <2>1, <2>2 DEF Live, Held
  <1>4. VInv /\ [Next]_vars => [Stable]_vars
    BY <1>3
  <1>5. QED
    BY <1>1, <1>2, <1>4, PTL DEF Spec, LookupStable


-----------------------------------------------------------------------------
(* The shell's file system: one tree, and nothing mounted.                 *)

Ground(f) ==
  /\ AllWhole(f) /\ Grows(f, {Root})
  /\ f[Root].type = "folder" /\ f[Root].parent = NoNode

(* Each path leads where it led, or what it led to is gone.                *)
Steady(f, g) ==
  \A path \in Seq(Names) :
    LET n == vfs_traverse_path(f, <<>>, path)
    IN n # NoNode => \/ n \notin Held(g)
                     \/ vfs_traverse_path(g, <<>>, path) = n /\ g[n].type = f[n].type

LEMMA SteadyIs ==
  ASSUME NEW f, NEW K, TreeOf(f, K, {Root}), NEW g, NEW L, TreeOf(g, L, {Root}),
         NEW B, Closed(f, K, B), KeepsFirst(f, K, g, L, B), B \cap Held(g) = {},
         \A m \in Held(f) : m \notin B => g[m].type = f[m].type
  PROVE  Steady(f, g)
  <1>1. SUFFICES ASSUME NEW path \in Seq(Names), NEW n, n = vfs_traverse_path(f, <<>>, path),
                        n # NoNode, n \in Held(g)
                 PROVE  vfs_traverse_path(g, <<>>, path) = n /\ g[n].type = f[n].type
    BY Zenon DEF Steady
  <1>2. PICK T : T = {Root} /\ Root \in T
    OBVIOUS
  <1>3. Mounting(f, <<>>, T) /\ Mounting(g, <<>>, T)
    BY DEF Mounting
  <1>4. n \notin B
    BY <1>1
  <1>5. PICK mounts : mounts = <<>>
    OBVIOUS
  <1>6. vfs_traverse_path(g, mounts, path) = n
    BY <1>1, <1>2, <1>3, <1>4, <1>5, PathStays
  <1>7. n \in Held(f)
    BY <1>1, <1>2, <1>3, <1>5, LookupHeld
  <1>8. QED
    BY <1>4, <1>5, <1>6, <1>7

LEMMA SteadySame ==
  ASSUME NEW f, Ground(f)
  PROVE  Steady(f, f)
  BY Zenon DEF Steady

LEMMA GroundRoot ==
  ASSUME NEW f, Ground(f)
  PROVE  Root \in Nodes /\ Root \in Held(f)
  BY VfsAssumption DEF Ground, Held

LEMMA GroundLookup ==
  ASSUME NEW f, Ground(f), NEW path \in Seq(Names),
         NEW r, r = vfs_traverse_path(f, <<>>, path), r # NoNode
  PROVE  /\ r \in Held(f) /\ r \in Nodes
         /\ r # Root => f[r].name \in Names
  <1>1. PICK K, T : T = {Root} /\ Root \in T /\ TreeOf(f, K, T)
    BY DEF Ground, Grows
  <1>2. Mounting(f, <<>>, T)
    BY DEF Mounting
  <1>3. QED
    BY <1>1, <1>2, LookupHeld

(* The last step of a path, from the folder that it is in.                 *)
LEMMA LastStep ==
  ASSUME NEW f, NEW K, NEW T, TreeOf(f, K, T), Root \in T,
         NEW path \in Seq(Names), path # <<>>,
         NEW p, p = vfs_traverse_path(f, <<>>, Front(path)), p # NoNode
  PROVE  FirstNamed(f, K[p], path[Len(path)], vfs_traverse_path(f, <<>>, path))
  <1>1. PICK N \in Nat : N = Len(path) - 1 /\ N + 1 = Len(path)
    <2>1. Len(path) \in Nat /\ Len(path) # 0
      OBVIOUS
    <2>2. QED
      BY <2>1
  <1>2. PICK s \in Seq(Names) : s = Front(path) /\ Len(s) = N /\ \A i \in 1 .. N : s[i] = path[i]
    BY <1>1, PathIs
  <1>3. PICK mounts : mounts = <<>> /\ Mounting(f, mounts, T) /\ Root \in Held(f)
    BY DEF Mounting, TreeOf
  <1>4. PICK w : Way(f, K, mounts, path, w) /\ vfs_traverse_path(f, mounts, path) = w[Len(path)]
    BY <1>3, TraverseWay
  <1>5. PICK v : v = [k \in 0 .. N |-> w[k]]
    OBVIOUS
  <1>6. Way(f, K, mounts, s, v)
    <2>1. w \in [0 .. N + 1 -> Held(f) \cup {NoNode}]
      BY <1>1, <1>4 DEF Way
    <2>2. v \in [0 .. N -> Held(f) \cup {NoNode}] /\ \A k \in 0 .. N : v[k] = w[k]
      BY <1>5, <2>1
    <2>3. v[0] = Root
      BY <1>4, <2>2 DEF Way
    <2>4. ASSUME NEW k \in 1 .. N
          PROVE  IF v[k - 1] = NoNode THEN v[k] = NoNode
                 ELSE FirstNamed(f, K[Through(mounts, v[k - 1])], s[k], v[k])
      <3>1. k \in 1 .. Len(path) /\ v[k] = w[k] /\ v[k - 1] = w[k - 1] /\ s[k] = path[k]
        BY <1>1, <1>2, <2>2
      <3>2. QED
        BY <1>4, <3>1 DEF Way
    <2>5. QED
      BY <1>2, <2>2, <2>3, <2>4 DEF Way
  <1>7. p = w[N]
    <2>1. p = v[Len(s)]
      BY <1>2, <1>3, <1>6, OneWay
    <2>2. QED
      BY <1>2, <1>5, <2>1
  <1>8. FirstNamed(f, K[Through(mounts, p)], path[Len(path)], w[Len(path)])
    <2>1. Len(path) \in 1 .. Len(path) /\ Len(path) - 1 = N
      BY <1>1
    <2>2. QED
      BY <1>4, <1>7, <2>1 DEF Way
  <1>9. Through(mounts, p) = p
    BY <1>3, ThroughIs
  <1>10. QED
    BY <1>3, <1>4, <1>8, <1>9


LEMMA LookupEmpty ==
  ASSUME NEW f, Ground(f)
  PROVE  vfs_traverse_path(f, <<>>, <<>>) = Root
  <1>1. PICK K, T : T = {Root} /\ Root \in T /\ TreeOf(f, K, T) /\ Root \in Held(f)
    BY DEF Ground, Grows, TreeOf
  <1>2. PICK path : path = <<>>
    OBVIOUS
  <1>3. path \in Seq(Names) /\ Len(path) = 0
    BY <1>2
  <1>4. PICK mounts : mounts = <<>> /\ Mounting(f, mounts, T)
    BY DEF Mounting
  <1>5. PICK w : Way(f, K, mounts, path, w) /\ vfs_traverse_path(f, mounts, path) = w[Len(path)]
    BY <1>1, <1>3, <1>4, TraverseWay
  <1>6. QED
    BY <1>2, <1>3, <1>4, <1>5 DEF Way

(* What is created is found.                                               *)
LEMMA CreatedFound ==
  ASSUME NEW f, NEW K, TreeOf(f, K, {Root}), Ground(f), NEW g, Ground(g),
         NEW path \in Seq(Names), path # <<>>,
         NEW p \in Nodes, p = vfs_traverse_path(f, <<>>, Front(path)),
         vfs_traverse_path(g, <<>>, Front(path)) = p,
         NEW n \in Nodes, TreeOf(g, Appended(K, p, n), {Root}),
         g[n].name = path[Len(path)]
  PROVE  vfs_traverse_path(g, <<>>, path) \in Held(g)
  <1>1. PICK r : r = vfs_traverse_path(g, <<>>, path)
    OBVIOUS
  <1>2. PICK T : T = {Root} /\ Root \in T
    OBVIOUS
  <1>3. p # NoNode
    BY VfsAssumption
  <1>4. FirstNamed(g, Appended(K, p, n)[p], path[Len(path)], r)
    BY <1>1, <1>2, <1>3, LastStep
  <1>5. PICK s \in Seq(Held(f)), k \in Nat : s = K[p] /\ k = Len(s)
    BY TreeList
  <1>6. PICK t : t = Append(s, n)
    OBVIOUS
  <1>7. Appended(K, p, n)[p] = t
    BY <1>5, <1>6 DEF Appended
  <1>8. Len(t) = k + 1 /\ t[k + 1] = n
    <2>1. s \in Seq(Nodes)
      BY DEF Held
    <2>2. QED
      BY <1>5, <1>6, <2>1, AppendIs
  <1>9. r # NoNode
    <2>1. SUFFICES ASSUME r = NoNode PROVE FALSE
      OBVIOUS
    <2>2. t \in Seq(Held(g))
      BY <1>2, <1>7, TreeList
    <2>3. \A i \in 1 .. Len(t) : t[i] # NoNode
      BY <2>2, VfsAssumption DEF Held
    <2>4. \A i \in 1 .. Len(t) : g[t[i]].name # path[Len(path)]
      BY <1>4, <1>7, <2>1, <2>3 DEF FirstNamed
    <2>5. k + 1 \in 1 .. Len(t)
      BY <1>8
    <2>6. QED
      BY <1>8, <2>4, <2>5
  <1>10. QED
    BY <1>1, <1>9, GroundLookup

LEMMA ShellCreates ==
  ASSUME Ground(node), g_mounts = <<>>, NEW path \in Seq(Names), NEW type \in {"file", "folder"},
         create(path, type)
  PROVE  /\ Ground(node') /\ Steady(node, node')
         /\ Lookup(path) = NoNode => vfs_traverse_path(node', <<>>, path) \in Held(node')
  <1>1. PICK K, T : T = {Root} /\ Root \in T /\ TreeOf(node, K, T)
    BY DEF Ground, Grows
  <1>2. PICK p : p = Parent(node, g_mounts, path)
    OBVIOUS
  <1>3. Mounting(node, g_mounts, T)
    BY DEF Mounting
  <1>4. PICK n \in Nodes : Creates(node, node', K, T, p, n, vfs_create_node(NameOf(path), type, p))
    BY <1>1, <1>2, <1>3, CreateIs
  <1>5. PICK L : L = Appended(K, p, n)
    OBVIOUS
  <1>6. /\ TreeOf(node', L, T) /\ p \in Nodes /\ p \in Held(node)
        /\ n \notin Held(node) /\ \A c \in Nodes : c # n => Alike(node[c], node'[c])
        /\ Held(node') = Held(node) \cup {n}
        /\ Alike(vfs_create_node(NameOf(path), type, p), node'[n])
    BY <1>4, <1>5 DEF Creates
  <1>7. Ground(node')
    <2>1. AllWhole(node')
      BY CreateKeepsWhole DEF Ground
    <2>2. Grows(node', {Root})
      BY <1>1, <1>6 DEF Grows
    <2>3. Root # n /\ Root \in Nodes
      BY <1>6, GroundRoot
    <2>4. QED
      BY <1>6, <2>1, <2>2, <2>3 DEF Ground, Alike
  <1>8. Steady(node, node')
    <2>1. \A c \in Held(node) : node'[c].name = node[c].name /\ node'[c].type = node[c].type
      BY <1>6 DEF Alike, Held
    <2>2. \A q \in Held(node) : L[q] = K[q] \/ \E c \in Nodes : L[q] = Append(K[q], c)
      BY <1>5 DEF Appended, Held
    <2>3. PICK B : B = {} /\ Closed(node, K, B) /\ KeepsFirst(node, K, node', L, B)
      BY <1>1, <2>1, <2>2, NothingLost
    <2>4. B \cap Held(node') = {} /\ \A m \in Held(node) : m \notin B => node'[m].type = node[m].type
      BY <2>1, <2>3
    <2>5. QED
      BY <1>1, <1>6, <2>3, <2>4, SteadyIs
  <1>9. ASSUME Lookup(path) = NoNode
        PROVE  vfs_traverse_path(node', <<>>, path) \in Held(node')
    <2>1. path # <<>>
      BY <1>9, LookupEmpty, VfsAssumption DEF Lookup
    <2>2. p = vfs_traverse_path(node, <<>>, Front(path))
      BY <1>2, <2>1 DEF Parent
    <2>3. p # NoNode
      BY <1>6, VfsAssumption
    <2>4. vfs_traverse_path(node', <<>>, Front(path)) = p
      <3>1. Front(path) \in Seq(Names)
        BY <2>1, PathIs
      <3>2. p \in Held(node')
        BY <1>6
      <3>3. QED
        BY <1>8, <2>2, <2>3, <3>1, <3>2 DEF Steady
    <2>5. node'[n].name = path[Len(path)]
      <3>1. PICK name \in Names \cup {NoName} : name = NameOf(path) /\ name = path[Len(path)]
        BY <2>1, PathIs
      <3>2. vfs_create_node(NameOf(path), type, p).name = name
        BY <1>6, <3>1, CreatedIs
      <3>3. QED
        BY <1>6, <3>1, <3>2 DEF Alike
    <2>6. QED
      BY <1>1, <1>5, <1>6, <1>7, <2>1, <2>2, <2>4, <2>5, CreatedFound
  <1>10. QED
    BY <1>7, <1>8, <1>9

LEMMA ShellRemoves ==
  ASSUME Ground(node), g_mounts = <<>>, NEW path \in Seq(Names), remove_p(path)
  PROVE  Ground(node') /\ Steady(node, node')
  <1>1. PICK K, T : T = {Root} /\ Root \in T /\ TreeOf(node, K, T)
    BY DEF Ground, Grows
  <1>2. PICK m : m = Lookup(path)
    OBVIOUS
  <1>3. PICK B : B = Subtree(node, m)
    OBVIOUS
  <1>4. Mounting(node, g_mounts, T) /\ node[Root].parent = NoNode
    BY DEF Mounting, Ground
  <1>5. PICK p : p = node[m].parent
    OBVIOUS
  <1>6. Removes(node, node', K, T, p, m, B)
    BY <1>1, <1>2, <1>3, <1>4, <1>5, RemoveIs
  <1>7. PICK i \in 1 .. Len(K[p]) :
          K[p][i] = m /\ TreeOf(node', Bared(Taken(K, p, i), B), T)
    BY <1>6 DEF Removes
  <1>8. /\ Branch(node, K, m, B) /\ T \cap B = {} /\ B \cap Held(node') = {}
        /\ p \in Nodes /\ p \notin B /\ \A c \in Nodes : c \notin B => Alike(node[c], node'[c])
    BY <1>6 DEF Removes
  <1>9. Ground(node')
    <2>1. AllWhole(node')
      BY RemoveKeepsWhole DEF Ground
    <2>2. Grows(node', {Root})
      BY <1>1, <1>7 DEF Grows
    <2>3. Root \notin B /\ Root \in Nodes
      BY <1>1, <1>8, GroundRoot
    <2>4. QED
      BY <1>8, <2>1, <2>2, <2>3 DEF Ground, Alike
  <1>10. Steady(node, node')
    <2>1. Closed(node, K, B) /\ KeepsFirst(node, K, node', Bared(Taken(K, p, i), B), B)
      BY <1>1, <1>7, <1>8, NoneBehind
    <2>2. \A c \in Held(node) : c \notin B => node'[c].type = node[c].type
      BY <1>8 DEF Alike, Held
    <2>3. QED
      BY <1>1, <1>7, <1>8, <2>1, <2>2, SteadyIs
  <1>11. QED
    BY <1>9, <1>10

LEMMA ShellWrites ==
  ASSUME Ground(node), NEW n \in Nodes, NEW offset \in 0 .. node[n].size,
         NEW bytes \in Seq(Bytes \cup {0}), offset + Len(bytes) <= MaxSize,
         node' = Written(node, n, offset, bytes)
  PROVE  /\ Ground(node') /\ Steady(node, node')
         /\ Held(node') = Held(node) /\ WriteIs(node[n], node'[n], offset, bytes)
         /\ \A m \in Nodes : node'[m].type = node[m].type
  <1>1. PICK K, T : T = {Root} /\ Root \in T /\ TreeOf(node, K, T)
    BY DEF Ground, Grows
  <1>2. AllWhole(node)
    BY DEF Ground
  <1>3. /\ TreeOf(node', K, T) /\ Held(node') = Held(node) /\ AllWhole(node')
        /\ WriteIs(node[n], node'[n], offset, bytes)
        /\ \A m \in Nodes : SameLinks(node[m], node'[m]) /\ node'[m].name = node[m].name
    BY <1>1, <1>2, WriteIsLocal
  <1>4. Ground(node')
    <2>1. Grows(node', {Root})
      BY <1>1, <1>3 DEF Grows
    <2>2. QED
      BY <1>3, <2>1, GroundRoot DEF Ground, SameLinks
  <1>5. \A c \in Held(node) : node'[c].name = node[c].name /\ node'[c].type = node[c].type
    BY <1>3 DEF SameLinks, Held
  <1>6. PICK B : B = {} /\ Closed(node, K, B) /\ KeepsFirst(node, K, node', K, B)
    BY <1>1, <1>5, NothingLost
  <1>7. B \cap Held(node') = {} /\ \A m \in Held(node) : m \notin B => node'[m].type = node[m].type
    BY <1>5, <1>6
  <1>8. Steady(node, node')
    BY <1>1, <1>3, <1>6, <1>7, SteadyIs
  <1>9. QED
    BY <1>3, <1>4, <1>8 DEF SameLinks


-----------------------------------------------------------------------------
(* Bytes in sequence.                                                      *)

LEMMA SameSeq ==
  ASSUME NEW S, NEW s \in Seq(S), NEW t \in Seq(S), Len(s) = Len(t),
         \A i \in 1 .. Len(s) : s[i] = t[i]
  PROVE  s = t
  OBVIOUS

(* data is said, followed by zeros.                                        *)
Covers(data, said) ==
  /\ Len(said) <= Len(data)
  /\ \A i \in 1 .. Len(said) : data[i] = said[i]
  /\ \A i \in Len(said) + 1 .. Len(data) : data[i] = 0

LEMMA ShownIs ==
  ASSUME NEW S, NEW s \in Seq(S)
  PROVE  /\ (\A i \in 1 .. Len(s) : s[i] # 0) => Shown(s) = s
         /\ \A m \in 1 .. Len(s) :
              s[m] = 0 /\ (\A i \in 1 .. m - 1 : s[i] # 0) => Shown(s) = SubSeq(s, 1, m - 1)
  <1>1. PICK Z : Z = {i \in DOMAIN s : s[i] = 0}
    OBVIOUS
  <1>2. Shown(s) = IF Z = {} THEN s ELSE SubSeq(s, 1, Min(Z) - 1)
    BY <1>1, Zenon DEF Shown
  <1>3. PICK N \in Nat : N = Len(s) /\ DOMAIN s = 1 .. N
    OBVIOUS
  <1>4. (\A i \in 1 .. N : s[i] # 0) => Z = {}
    BY <1>1, <1>3
  <1>5. ASSUME NEW m \in 1 .. N, s[m] = 0, \A i \in 1 .. m - 1 : s[i] # 0
        PROVE  Z # {} /\ Min(Z) = m
    <2>1. m \in Z /\ Z \subseteq Nat /\ Z \subseteq 1 .. N
      BY <1>1, <1>3, <1>5
    <2>2. Min(Z) \in Z /\ Min(Z) <= m
      BY <2>1, Least
    <2>3. s[Min(Z)] = 0 /\ Min(Z) \in 1 .. N
      BY <1>1, <2>1, <2>2
    <2>4. QED
      BY <1>5, <2>1, <2>2, <2>3
  <1>6. QED
    BY <1>2, <1>3, <1>4, <1>5

LEMMA ShownCovered ==
  ASSUME NEW S, NEW data \in Seq(S), NEW said \in Seq(S), Covers(data, said)
  PROVE  Shown(data) = Shown(said)
  <1>1. PICK M \in Nat, N \in Nat : M = Len(said) /\ N = Len(data) /\ M <= N
    BY DEF Covers
  <1>2. /\ \A i \in 1 .. M : data[i] = said[i]
        /\ \A i \in M + 1 .. N : data[i] = 0
    BY <1>1 DEF Covers
  <1>3. CASE \A i \in 1 .. M : said[i] # 0
    <2>1. Shown(said) = said
      BY <1>1, <1>3, ShownIs
    <2>2. CASE M = N
      <3>1. data = said
        BY <1>1, <1>2, <2>2, SameSeq
      <3>2. QED
        BY <2>1, <3>1
    <2>3. CASE M # N
      <3>1. M + 1 \in 1 .. N /\ data[M + 1] = 0 /\ \A i \in 1 .. M : data[i] # 0
        BY <1>1, <1>2, <1>3, <2>3
      <3>2. PICK m \in 1 .. N : m = M + 1 /\ m - 1 = M
        BY <3>1
      <3>3. Shown(data) = SubSeq(data, 1, M)
        BY <1>1, <3>1, <3>2, ShownIs
      <3>4. PICK t : t = SubSeq(data, 1, M)
        OBVIOUS
      <3>5. t \in Seq(S) /\ Len(t) = M /\ \A i \in 1 .. M : t[i] = data[i]
        BY <1>1, <3>4, Prefix
      <3>6. t = said
        BY <1>1, <1>2, <3>5, SameSeq
      <3>7. QED
        BY <2>1, <3>3, <3>4, <3>6
    <2>4. QED
      BY <2>2, <2>3
  <1>4. CASE ~ \A i \in 1 .. M : said[i] # 0
    <2>1. PICK Z : Z = {i \in 1 .. M : said[i] = 0}
      OBVIOUS
    <2>2. Z \subseteq Nat /\ Z # {}
      BY <1>4, <2>1
    <2>3. PICK m \in Z : \A i \in Z : m <= i
      BY <2>2, NatMin
    <2>4. m \in 1 .. M /\ said[m] = 0 /\ \A i \in 1 .. m - 1 : said[i] # 0
      BY <2>1, <2>3
    <2>5. m \in 1 .. N /\ data[m] = 0 /\ \A i \in 1 .. m - 1 : data[i] # 0
      BY <1>1, <1>2, <2>4
    <2>6. Shown(said) = SubSeq(said, 1, m - 1) /\ Shown(data) = SubSeq(data, 1, m - 1)
      BY <1>1, <2>4, <2>5, ShownIs
    <2>7. PICK k \in Nat : k = m - 1 /\ k \in 0 .. M /\ k \in 0 .. N
      BY <1>1, <2>4
    <2>8. PICK s, t : s = SubSeq(said, 1, k) /\ t = SubSeq(data, 1, k)
      OBVIOUS
    <2>9. /\ s \in Seq(S) /\ Len(s) = k /\ \A i \in 1 .. k : s[i] = said[i]
          /\ t \in Seq(S) /\ Len(t) = k /\ \A i \in 1 .. k : t[i] = data[i]
      BY <1>1, <2>7, <2>8, Prefix
    <2>10. s = t
      BY <1>2, <2>7, <2>9, SameSeq
    <2>11. QED
      BY <2>6, <2>7, <2>8, <2>10
  <1>5. QED
    BY <1>3, <1>4

FlatBody(s, h) == h = [i \in 1 .. Len(s) |-> IF i = 1 THEN s[i] ELSE h[i - 1] \o s[i]]

LEMMA FlattenIs ==
  ASSUME NEW s
  PROVE  FlattenSeq(s) = IF Len(s) = 0 THEN s ELSE (CHOOSE h : FlatBody(s, h))[Len(s)]
  BY Zenon DEF FlattenSeq, FlatBody

LEMMA FlattenWay ==
  ASSUME NEW S, NEW s \in Seq(Seq(S))
  PROVE  \E w \in [0 .. Len(s) -> Seq(S)] :
           /\ w[0] = <<>> /\ \A k \in 1 .. Len(s) : w[k] = w[k - 1] \o s[k]
           /\ FlattenSeq(s) = w[Len(s)]
  <1>0. PICK D : D = Seq(S)
    OBVIOUS
  <1>1. PICK N \in Nat : N = Len(s) /\ (N = 0 => s = <<>>) /\ \A k \in 1 .. N : s[k] \in D
    <2>1. s \in Seq(D)
      BY <1>0
    <2>2. QED
      BY <2>1
  <1>2. <<>> \in D
    BY <1>0
  <1>3. PICK G : G = [k \in 1 .. N |-> [d \in D |-> d \o s[k]]]
    OBVIOUS
  <1>4. \A k \in 1 .. N, d \in D : d \o s[k] \in D
    BY <1>0, <1>1
  <1>5. G \in [1 .. N -> [D -> D]]
    BY <1>3, <1>4
  <1>6. PICK w \in [0 .. N -> D] : w[0] = <<>> /\ \A k \in 1 .. N : w[k] = G[k][w[k - 1]]
    <2>1. IteratedBy(N, D, <<>>, G)
      BY <1>2, <1>5, IteratesBy
    <2>2. QED
      BY <2>1 DEF IteratedBy
  <1>7. ASSUME NEW k \in 1 .. N PROVE w[k - 1] \in D /\ w[k] = w[k - 1] \o s[k]
    <2>1. PICK d \in D : d = w[k - 1]
      BY <1>6
    <2>2. G[k][d] = d \o s[k]
      BY <1>3
    <2>3. QED
      BY <1>6, <2>1, <2>2
  <1>8. FlattenSeq(s) = w[N]
    <2>1. CASE N = 0
      BY <1>1, <1>6, <2>1, FlattenIs
    <2>2. CASE N # 0
      <3>1. PICK h : h = [i \in 1 .. N |-> w[i]]
        OBVIOUS
      <3>2. w[1] = s[1]
        <4>1. 1 \in 1 .. N
          BY <2>2
        <4>2. w[1] = w[1 - 1] \o s[1]
          BY <1>7, <4>1
        <4>3. 1 - 1 = 0 /\ w[0] = <<>> /\ s[1] \in Seq(S)
          BY <1>0, <1>1, <1>6, <4>1
        <4>4. w[1] = <<>> \o s[1]
          BY <4>2, <4>3
        <4>5. QED
          BY <4>3, <4>4
      <3>3. \A i \in 1 .. N : h[i] = w[i] /\ (i # 1 => i - 1 \in 1 .. N /\ h[i - 1] = w[i - 1])
        BY <3>1
      <3>4. h = [i \in 1 .. N |-> IF i = 1 THEN s[i] ELSE h[i - 1] \o s[i]]
        <4>1. \A i \in 1 .. N : h[i] = IF i = 1 THEN s[i] ELSE h[i - 1] \o s[i]
          BY <1>7, <3>2, <3>3
        <4>2. QED
          BY <3>1, <4>1
      <3>5. FlatBody(s, h)
        BY <1>1, <3>4 DEF FlatBody
      <3>6. PICK c : c = (CHOOSE g : FlatBody(s, g)) /\ FlatBody(s, c)
        BY <3>5, Zenon
      <3>7. \A i \in 1 .. N : c[i] = IF i = 1 THEN s[i] ELSE c[i - 1] \o s[i]
        BY <1>1, <3>6 DEF FlatBody
      <3>8. PICK v : v = [k \in 0 .. N |-> IF k = 0 THEN <<>> ELSE c[k]]
        OBVIOUS
      <3>9. v[0] = w[0] /\ \A k \in 1 .. N : v[k] = c[k] /\ v[k - 1] = IF k = 1 THEN <<>> ELSE c[k - 1]
        BY <1>6, <3>8
      <3>10. ASSUME NEW k \in 1 .. N, v[k - 1] = w[k - 1] PROVE v[k] = w[k]
        <4>1. CASE k = 1
          BY <3>2, <3>7, <3>9, <4>1
        <4>2. CASE k # 1
          <5>1. c[k] = c[k - 1] \o s[k]
            BY <3>7, <4>2
          <5>2. v[k] = c[k] /\ v[k - 1] = c[k - 1]
            BY <3>9, <4>2
          <5>3. w[k] = w[k - 1] \o s[k]
            BY <1>7
          <5>4. QED
            BY <3>10, <5>1, <5>2, <5>3
        <4>3. QED
          BY <4>1, <4>2
      <3>11. \A k \in 0 .. N : v[k] = w[k]
        <4>1. v[0] = w[0]
          BY <3>9
        <4>2. QED
          BY <3>10, <4>1, SameWalk, ZenonT(60)
      <3>12. c[N] = w[N]
        BY <2>2, <3>9, <3>11
      <3>13. QED
        BY <1>1, <2>2, <3>6, <3>12, FlattenIs, Zenon
    <2>3. QED
      BY <2>1, <2>2
  <1>9. QED
    BY <1>0, <1>1, <1>6, <1>7, <1>8

LEMMA FlattenTail ==
  ASSUME NEW S, NEW s \in Seq(Seq(S)), s # <<>>
  PROVE  /\ Len(FlattenSeq(s)) = Len(Head(s)) + Len(FlattenSeq(Tail(s)))
         /\ Len(Head(s)) \in Nat /\ Len(FlattenSeq(Tail(s))) \in Nat
  <1>1. PICK N \in Nat : Len(s) = N + 1
    <2>1. Len(s) \in Nat /\ Len(s) # 0
      OBVIOUS
    <2>2. Len(s) - 1 \in Nat
      BY <2>1
    <2>3. QED
      BY <2>2
  <1>2. PICK t \in Seq(Seq(S)) : t = Tail(s) /\ Len(t) = N /\ \A k \in 1 .. N : t[k] = s[k + 1]
    <2>1. PICK D : D = Seq(S)
      OBVIOUS
    <2>2. s \in Seq(D) /\ Len(s) # 0
      BY <1>1, <2>1
    <2>3. PICK t : t = Tail(s)
      OBVIOUS
    <2>4. t \in Seq(D) /\ Len(t) = N /\ \A k \in 1 .. N : t[k] = s[k + 1]
      BY <1>1, <2>2, <2>3
    <2>5. QED
      BY <2>1, <2>3, <2>4
  <1>3. PICK w \in [0 .. Len(s) -> Seq(S)] :
           /\ w[0] = <<>> /\ \A k \in 1 .. Len(s) : w[k] = w[k - 1] \o s[k]
           /\ FlattenSeq(s) = w[Len(s)]
    BY FlattenWay
  <1>4. PICK v \in [0 .. N -> Seq(S)] :
           /\ v[0] = <<>> /\ \A k \in 1 .. N : v[k] = v[k - 1] \o t[k]
           /\ FlattenSeq(t) = v[N]
    BY <1>2, FlattenWay
  <1>5. \A k \in 1 .. N + 1 : s[k] \in Seq(S) /\ Len(s[k]) \in Nat
    BY <1>1
  <1>6. PICK a \in Nat : a = Len(s[1]) /\ s[1] = Head(s)
    BY <1>1, <1>5
  <1>7. ASSUME NEW k \in 1 .. N + 1
        PROVE  Len(w[k]) = Len(w[k - 1]) + Len(s[k]) /\ Len(w[k - 1]) \in Nat
    <2>1. PICK d \in Seq(S) : d = w[k - 1]
      <3>1. k - 1 \in 0 .. Len(s)
        BY <1>1
      <3>2. QED
        BY <3>1
    <2>2. PICK e \in Seq(S) : e = s[k]
      BY <1>5
    <2>3. w[k] = d \o e
      BY <1>1, <1>3, <2>1, <2>2
    <2>4. QED
      BY <2>1, <2>2, <2>3, Joined
  <1>8. ASSUME NEW k \in 1 .. N
        PROVE  Len(v[k]) = Len(v[k - 1]) + Len(s[k + 1]) /\ Len(v[k - 1]) \in Nat
    <2>1. PICK d \in Seq(S) : d = v[k - 1]
      BY <1>4
    <2>2. PICK e \in Seq(S) : e = t[k] /\ e = s[k + 1]
      BY <1>2, <1>5
    <2>3. v[k] = d \o e
      BY <1>4, <2>1, <2>2
    <2>4. QED
      BY <2>1, <2>2, <2>3, Joined
  <1> DEFINE Same == {k \in 0 .. N : Len(w[k + 1]) = a + Len(v[k])}
  <1>9. 0 \in Same
    <2>1. Len(w[0]) = 0 /\ Len(v[0]) = 0
      BY <1>3, <1>4
    <2>2. Len(w[1]) = Len(w[0]) + Len(s[1])
      <3>1. 1 \in 1 .. N + 1 /\ 1 - 1 = 0
        OBVIOUS
      <3>2. Len(w[1]) = Len(w[1 - 1]) + Len(s[1])
        BY <1>7, <3>1
      <3>3. QED
        BY <3>1, <3>2
    <2>3. QED
      BY <1>6, <2>1, <2>2, SMTT(30)
  <1>10. ASSUME NEW k \in 1 .. N, k - 1 \in Same PROVE k \in Same
    <2>1. Len(w[k]) = a + Len(v[k - 1])
      BY <1>10
    <2>2. k + 1 \in 1 .. N + 1 /\ (k + 1) - 1 = k
      OBVIOUS
    <2>3. Len(w[k + 1]) = Len(w[k]) + Len(s[k + 1])
      BY <1>7, <2>2
    <2>4. Len(s[k + 1]) \in Nat
      BY <1>5, <2>2
    <2>5. Len(v[k]) = Len(v[k - 1]) + Len(s[k + 1]) /\ Len(v[k - 1]) \in Nat
      BY <1>8
    <2>6. PICK x \in Nat, y \in Nat : x = Len(v[k - 1]) /\ y = Len(s[k + 1])
      BY <2>4, <2>5
    <2>7. Len(w[k + 1]) = (a + x) + y /\ Len(v[k]) = x + y
      BY <2>1, <2>3, <2>5, <2>6
    <2>8. (a + x) + y = a + (x + y)
      OBVIOUS
    <2>9. Len(w[k + 1]) = a + Len(v[k])
      BY <2>7, <2>8
    <2>10. QED
      BY <2>9
  <1>11. \A k \in 0 .. N : k \in Same
    <2> HIDE DEF Same
    <2>1. QED
      BY <1>9, <1>10, UpTo
  <1>12. Len(w[N + 1]) = a + Len(v[N])
    BY <1>11
  <1>13. Len(v[N]) \in Nat
    BY <1>4
  <1>14. QED
    BY <1>1, <1>2, <1>3, <1>4, <1>6, <1>12, <1>13


-----------------------------------------------------------------------------
(* The command in progress.                                                *)

Said == Bytes \cup {0}

PrintOp(mode, file, offset, left, said, old) ==
  [kind |-> "print", mode |-> mode, file |-> file, offset |-> offset,
   left |-> left, said |-> said, old |-> old]

(* Of a file that is cut, either nothing has been written or it holds what *)
(* was and zeros; one that is added to ends where the next write begins.   *)
Printing(f, o) ==
  /\ o = PrintOp(o.mode, o.file, o.offset, o.left, o.said, o.old)
  /\ o.mode \in {"truncate", "append"}
  /\ o.file \in Held(f)
  /\ o.left \in Seq(Seq(Said)) /\ o.said \in Seq(Said) /\ o.old \in Seq(Said)
  /\ o.offset \in Nat /\ o.offset + Len(FlattenSeq(o.left)) <= MaxSize
  /\ f[o.file].type = "file" /\ o.mode = "truncate" =>
       /\ o.offset = Len(o.said)
       /\ (o.said = <<>> /\ o.left # <<>>) \/ Covers(f[o.file].data, o.said)
  /\ f[o.file].type = "file" /\ o.mode = "append" =>
       o.offset = f[o.file].size /\ f[o.file].data = o.old \o o.said

Editing(f, o) ==
  /\ o = [kind |-> "edit", file |-> o.file, buffer |-> o.buffer]
  /\ o.file \in Held(f)
  /\ o.buffer \in Seq(Bytes) /\ Len(o.buffer) <= MaxTyped

Busy(f, o) == o = Idle \/ o = [kind |-> "fault"] \/ Printing(f, o) \/ Editing(f, o)

LEMMA CoversNext ==
  ASSUME NEW r, Whole(r), NEW q, NEW said \in Seq(Said), NEW bytes \in Seq(Said),
         WriteIs(r, q, Len(said), bytes), said = <<>> \/ Covers(r.data, said)
  PROVE  Covers(q.data, said \o bytes)
  <1>1. PICK M \in Nat, L \in Nat : M = Len(said) /\ L = Len(bytes)
    OBVIOUS
  <1>2. PICK t : t = said \o bytes
    OBVIOUS
  <1>3. /\ Len(t) = M + L /\ \A i \in 1 .. M : t[i] = said[i]
        /\ \A i \in 1 .. L : t[M + i] = bytes[i]
    BY <1>1, <1>2, Joined
  <1>4. PICK d \in Seq(Said), N \in Nat : d = q.data /\ N = Len(d) /\ N = q.size
    BY DEF WriteIs, Whole, Said
  <1>5. /\ M + L <= N /\ \A i \in 1 .. M : d[i] = r.data[i]
        /\ \A i \in 1 .. L : d[M + i] = bytes[i]
        /\ \A i \in M + L + 1 .. N : d[i] = 0
    BY <1>1, <1>4 DEF WriteIs
  <1>6. \A i \in 1 .. M : r.data[i] = said[i]
    <2>1. CASE said = <<>>
      BY <1>1, <2>1
    <2>2. CASE Covers(r.data, said)
      BY <1>1, <2>2 DEF Covers
    <2>3. QED
      BY <2>1, <2>2
  <1>7. ASSUME NEW i \in 1 .. M + L PROVE d[i] = t[i]
    <2>1. CASE i <= M
      <3>1. i \in 1 .. M
        BY <2>1
      <3>2. t[i] = said[i]
        BY <1>3, <3>1
      <3>3. d[i] = r.data[i]
        BY <1>5, <3>1
      <3>4. r.data[i] = said[i]
        BY <1>6, <3>1
      <3>5. QED
        BY <3>2, <3>3, <3>4
    <2>2. CASE i > M
      <3>1. PICK j \in 1 .. L : i = M + j
        <4>1. i - M \in 1 .. L /\ i = M + (i - M)
          BY <2>2
        <4>2. QED
          BY <4>1
      <3>2. QED
        BY <1>3, <1>5, <3>1
    <2>3. QED
      BY <2>1, <2>2
  <1>8. QED
    BY <1>2, <1>3, <1>4, <1>5, <1>7 DEF Covers

Joins(r, old, said) == r.data = old \o said

LEMMA JoinsNext ==
  ASSUME NEW r, Whole(r), NEW q, NEW old \in Seq(Said), NEW said \in Seq(Said),
         NEW bytes \in Seq(Said), WriteIs(r, q, r.size, bytes), Joins(r, old, said)
  PROVE  Joins(q, old, said \o bytes) /\ q.size = r.size + Len(bytes)
  <1>1. PICK A \in Nat, M \in Nat, L \in Nat : A = Len(old) /\ M = Len(said) /\ L = Len(bytes)
    OBVIOUS
  <1>2. PICK t : t = said \o bytes
    OBVIOUS
  <1>3. /\ t \in Seq(Said) /\ Len(t) = M + L /\ \A i \in 1 .. M : t[i] = said[i]
        /\ \A i \in 1 .. L : t[M + i] = bytes[i]
    BY <1>1, <1>2, Joined
  <1>4. PICK u : u = old \o t
    OBVIOUS
  <1>5. /\ u \in Seq(Said) /\ Len(u) = A + (M + L) /\ \A i \in 1 .. A : u[i] = old[i]
        /\ \A i \in 1 .. M + L : u[A + i] = t[i]
    <2>1. PICK k \in Nat : k = M + L /\ k = Len(t)
      BY <1>3
    <2>2. /\ u \in Seq(Said) /\ Len(u) = A + k /\ \A i \in 1 .. A : u[i] = old[i]
          /\ \A i \in 1 .. k : u[A + i] = t[i]
      BY <1>1, <1>3, <1>4, <2>1, Joined
    <2>3. QED
      BY <2>1, <2>2
  <1>6. PICK c : c = r.data
    OBVIOUS
  <1>7. /\ Len(c) = A + M /\ \A i \in 1 .. A : c[i] = old[i]
        /\ \A i \in 1 .. M : c[A + i] = said[i]
    BY <1>1, <1>6, Joined DEF Joins
  <1>8. r.size = A + M
    BY <1>6, <1>7 DEF Whole
  <1>9. PICK d \in Seq(Said) : d = q.data /\ Len(d) = q.size
    BY DEF WriteIs, Whole, Said
  <1>10. /\ q.size = r.size + L /\ \A i \in 1 .. A + M : d[i] = c[i]
         /\ \A i \in 1 .. L : d[(A + M) + i] = bytes[i]
    BY <1>1, <1>6, <1>8, <1>9 DEF WriteIs
  <1>11. Len(d) = Len(u)
    BY <1>5, <1>8, <1>9, <1>10
  <1>12. ASSUME NEW i \in 1 .. Len(d) PROVE d[i] = u[i]
    <2>1. i \in 1 .. (A + M) + L
      BY <1>8, <1>9, <1>10
    <2>2. CASE i <= A
      BY <1>5, <1>7, <1>10, <2>1, <2>2
    <2>3. CASE A < i /\ i <= A + M
      <3>1. PICK j \in 1 .. M : i = A + j
        <4>1. i - A \in 1 .. M /\ i = A + (i - A)
          BY <2>1, <2>3
        <4>2. QED
          BY <4>1
      <3>2. j \in 1 .. M + L /\ i \in 1 .. A + M
        BY <2>1, <2>3
      <3>3. QED
        BY <1>3, <1>5, <1>7, <1>10, <3>1, <3>2
    <2>4. CASE A + M < i
      <3>1. PICK j \in 1 .. L : i = (A + M) + j
        <4>1. i - (A + M) \in 1 .. L /\ i = (A + M) + (i - (A + M))
          BY <2>1, <2>4
        <4>2. QED
          BY <4>1
      <3>2. M + j \in 1 .. M + L /\ A + (M + j) = i
        BY <3>1
      <3>3. QED
        BY <1>3, <1>5, <1>10, <3>1, <3>2, SMTT(30)
    <2>5. QED
      BY <2>1, <2>2, <2>3, <2>4
  <1>13. d = u
    BY <1>5, <1>9, <1>11, <1>12, SameSeq
  <1>14. QED
    BY <1>1, <1>2, <1>4, <1>9, <1>10, <1>13 DEF Joins

LEMMA PrintFields ==
  ASSUME NEW p, NEW mode, NEW file, NEW b, NEW a, NEW c, NEW old,
         p = PrintOp(mode, file, b, a, c, old)
  PROVE  /\ p.kind = "print" /\ p.mode = mode /\ p.file = file /\ p.offset = b
         /\ p.left = a /\ p.said = c /\ p.old = old
  BY DEF PrintOp

Printed(o, a, b, c) == [o EXCEPT !.left = a, !.offset = b, !.said = c]

LEMMA PrintChanged ==
  ASSUME NEW o, NEW mode, NEW file, NEW offset, NEW left, NEW said, NEW old,
         o = PrintOp(mode, file, offset, left, said, old), NEW a, NEW b, NEW c
  PROVE  Printed(o, a, b, c) = PrintOp(mode, file, b, a, c, old)
  <1>1. PICK q : q = [o EXCEPT !.left = a, !.offset = b, !.said = c]
    OBVIOUS
  <1>2. PICK r : r = PrintOp(mode, file, b, a, c, old)
    OBVIOUS
  <1>3. DOMAIN o = {"kind", "mode", "file", "offset", "left", "said", "old"}
    BY DEF PrintOp
  <1>4. DOMAIN q = DOMAIN o /\ DOMAIN r = DOMAIN o
    BY <1>1, <1>2, <1>3 DEF PrintOp
  <1>5. r.left = a /\ r.offset = b /\ r.said = c /\ r.kind = o.kind /\ r.mode = o.mode
        /\ r.file = o.file /\ r.old = o.old
    BY <1>2 DEF PrintOp
  <1>6. q.left = a /\ q.offset = b /\ q.said = c
    BY <1>1, <1>3
  <1>7. q.kind = o.kind /\ q.mode = o.mode /\ q.file = o.file /\ q.old = o.old
    BY <1>1, <1>3
  <1>8. q = [k \in DOMAIN q |-> q[k]] /\ r = [k \in DOMAIN r |-> r[k]]
    BY <1>1, <1>2, Zenon DEF PrintOp
  <1>9. \A k \in DOMAIN o : q[k] = r[k]
    BY <1>3, <1>5, <1>6, <1>7
  <1>10. q = r
    BY <1>4, <1>8, <1>9
  <1>11. QED
    BY <1>1, <1>2, <1>10 DEF Printed

LEMMA PrintingNext ==
  ASSUME NEW f, NEW o, Printing(f, o), o.left # <<>>, NEW bytes, bytes = Head(o.left),
         NEW p, p = PrintOp(o.mode, o.file, Advanced(o.offset, bytes), Tail(o.left),
                            o.said \o bytes, o.old),
         NEW g, Held(g) = Held(f), \A m \in Nodes : g[m].type = f[m].type,
         f[o.file].type = "file" =>
           Whole(f[o.file]) /\ WriteIs(f[o.file], g[o.file], o.offset, bytes)
  PROVE  Printing(g, p)
  <1>1. PICK left \in Seq(Seq(Said)), said \in Seq(Said), old \in Seq(Said), offset \in Nat :
          left = o.left /\ said = o.said /\ old = o.old /\ offset = o.offset
    BY DEF Printing
  <1>2. PICK file \in Nodes : file = o.file /\ file \in Held(f)
    BY DEF Printing, Held
  <1>3. bytes \in Seq(Said) /\ Tail(left) \in Seq(Seq(Said)) /\ Len(bytes) \in Nat
    <2>1. PICK D : D = Seq(Said)
      OBVIOUS
    <2>2. left \in Seq(D) /\ left # <<>>
      BY <1>1, <2>1
    <2>3. Head(left) \in D /\ Tail(left) \in Seq(D)
      BY <2>2
    <2>4. QED
      BY <1>1, <2>1, <2>3
  <1>4. PICK mode : mode = o.mode /\ mode \in {"truncate", "append"}
    BY DEF Printing
  <1>13. p = PrintOp(mode, file, offset + Len(bytes), Tail(left), said \o bytes, old)
    BY <1>1, <1>2, <1>4, Zenon DEF Advanced
  <1>5. said \o bytes \in Seq(Said) /\ Len(said \o bytes) = Len(said) + Len(bytes)
    BY <1>3, Joined
  <1>6. (offset + Len(bytes)) + Len(FlattenSeq(Tail(left))) <= MaxSize
    <2>1. /\ Len(FlattenSeq(left)) = Len(bytes) + Len(FlattenSeq(Tail(left)))
          /\ Len(FlattenSeq(Tail(left))) \in Nat
      BY <1>1, FlattenTail
    <2>2. offset + Len(FlattenSeq(left)) <= MaxSize
      BY <1>1 DEF Printing
    <2>3. PICK x \in Nat, y \in Nat : x = Len(bytes) /\ y = Len(FlattenSeq(Tail(left)))
      BY <1>3, <2>1
    <2>4. QED
      BY <2>1, <2>2, <2>3, VfsAssumption, SMTT(100)
  <1>7. g[file].type = f[file].type
    BY <1>2
  <1>8. f[file].type = "file" /\ o.mode = "truncate" =>
          /\ offset + Len(bytes) = Len(said \o bytes)
          /\ Covers(g[file].data, said \o bytes)
    <2>1. SUFFICES ASSUME f[file].type = "file", o.mode = "truncate"
                   PROVE  /\ offset + Len(bytes) = Len(said \o bytes)
                          /\ Covers(g[file].data, said \o bytes)
      OBVIOUS
    <2>2. offset = Len(said) /\ (said = <<>> \/ Covers(f[file].data, said))
      BY <1>1, <1>2, <2>1 DEF Printing
    <2>3. Whole(f[file]) /\ WriteIs(f[file], g[file], Len(said), bytes)
      BY <1>1, <1>2, <2>1, <2>2
    <2>4. QED
      BY <1>3, <1>5, <2>2, <2>3, CoversNext
  <1>9. f[file].type = "file" /\ o.mode = "append" =>
          /\ offset + Len(bytes) = g[file].size
          /\ g[file].data = old \o (said \o bytes)
    <2>1. SUFFICES ASSUME f[file].type = "file", o.mode = "append"
                   PROVE  /\ offset + Len(bytes) = g[file].size
                          /\ g[file].data = old \o (said \o bytes)
      OBVIOUS
    <2>2. offset = f[file].size /\ f[file].data = old \o said
      BY <1>1, <1>2, <2>1 DEF Printing
    <2>3. Whole(f[file]) /\ WriteIs(f[file], g[file], f[file].size, bytes)
      BY <1>1, <1>2, <2>1, <2>2
    <2>4. PICK r, q : r = f[file] /\ q = g[file]
      OBVIOUS
    <2>5. Whole(r) /\ WriteIs(r, q, r.size, bytes) /\ Joins(r, old, said) /\ offset = r.size
      BY <2>2, <2>3, <2>4 DEF Joins
    <2>6. bytes \in Seq(Said) /\ old \in Seq(Said) /\ said \in Seq(Said)
      BY <1>1, <1>3
    <2>8. Joins(q, old, said \o bytes) /\ q.size = r.size + Len(bytes)
      BY <2>5, <2>6, JoinsNext
    <2>7. QED
      BY <2>4, <2>5, <2>8 DEF Joins
  <1>10. /\ p.kind = "print" /\ p.mode = mode /\ p.file = file /\ p.offset = offset + Len(bytes)
         /\ p.left = Tail(left) /\ p.said = said \o bytes /\ p.old = old
    <2>1. PICK a, b, c : a = Tail(left) /\ b = offset + Len(bytes) /\ c = said \o bytes
      OBVIOUS
    <2>2. p = PrintOp(mode, file, b, a, c, old)
      BY <1>13, <2>1, Zenon
    <2>3. /\ p.kind = "print" /\ p.mode = mode /\ p.file = file /\ p.offset = b
          /\ p.left = a /\ p.said = c /\ p.old = old
      BY <2>2, PrintFields
    <2>4. QED
      BY <2>1, <2>3, Zenon
  <1>11. offset + Len(bytes) \in Nat
    BY <1>3
  <1>14. p = PrintOp(p.mode, p.file, p.offset, p.left, p.said, p.old)
    BY <1>10, <1>13, Zenon
  <1>15. file \in Held(g)
    BY <1>2
  <1>16. /\ p.mode \in {"truncate", "append"} /\ p.file \in Held(g)
         /\ p.left \in Seq(Seq(Said)) /\ p.said \in Seq(Said) /\ p.old \in Seq(Said)
         /\ p.offset \in Nat /\ p.offset + Len(FlattenSeq(p.left)) <= MaxSize
    BY <1>1, <1>3, <1>4, <1>5, <1>6, <1>10, <1>11, <1>15
  <1>17. /\ g[p.file].type = "file" /\ p.mode = "truncate" =>
              p.offset = Len(p.said) /\ Covers(g[p.file].data, p.said)
         /\ g[p.file].type = "file" /\ p.mode = "append" =>
              p.offset = g[p.file].size /\ g[p.file].data = p.old \o p.said
    BY <1>4, <1>7, <1>8, <1>9, <1>10
  <1>18. QED
    BY <1>14, <1>16, <1>17, Zenon DEF Printing


-----------------------------------------------------------------------------
(* What is typed for a path.  FoldLeft is a recursion over the subsets of  *)
(* the subscripts that takes out the greatest: it has a solution, and what *)
(* it gives is spelled without . and ..                                    *)

Tokens == Names \cup {".", ".."}

LEMMA ResolvedIn ==
  ASSUME NEW names \in Seq(Names), NEW token \in Tokens
  PROVE  Resolved(names, token) \in Seq(Names)
  <1>1. CASE token = "."
    BY <1>1 DEF Resolved
  <1>2. CASE token # "." /\ token = ".."
    <2>1. CASE names = <<>>
      BY <1>2, <2>1 DEF Resolved
    <2>2. CASE names # <<>>
      <3>1. Front(names) \in Seq(Names)
        BY <2>2, PathIs
      <3>2. Resolved(names, token) = Front(names)
        BY <1>2, <2>2 DEF Resolved
      <3>3. QED
        BY <3>1, <3>2
    <2>3. QED
      BY <2>1, <2>2
  <1>3. CASE token # "." /\ token # ".."
    <2>1. token \in Names
      BY <1>3 DEF Tokens
    <2>2. Resolved(names, token) = Append(names, token)
      BY <1>3 DEF Resolved
    <2>3. QED
      BY <2>1, <2>2
  <1>4. QED
    BY <1>1, <1>2, <1>3

ResolveBody(q, s, h) == IF s = {} THEN <<>> ELSE LET x == Max(s) IN Resolved(h[s \ {x}], q[x])

ResolveRecursion(q, h) == h = [s \in SUBSET DOMAIN q |-> ResolveBody(q, s, h)]

LEMMA ResolveIs ==
  ASSUME NEW q
  PROVE  FoldLeft(Resolved, <<>>, q) = (CHOOSE h : ResolveRecursion(q, h))[DOMAIN q]
  BY Zenon DEF FoldLeft, MapThenFoldSet, ResolveRecursion, ResolveBody

LEMMA Greatest ==
  ASSUME NEW n \in Nat, NEW s \in SUBSET (1 .. n), s # {}
  PROVE  Max(s) \in s
  <1>1. PICK T : T = {n - x : x \in s}
    OBVIOUS
  <1>2. T \subseteq Nat /\ T # {}
    <2>1. \A x \in s : n - x \in Nat
      OBVIOUS
    <2>2. T \subseteq Nat
      BY <1>1, <2>1
    <2>3. QED
      BY <1>1, <2>2
  <1>3. PICK m \in T : \A y \in T : m <= y
    BY <1>2, NatMin
  <1>4. PICK x \in s : m = n - x
    BY <1>1
  <1>5. ASSUME NEW y \in s PROVE x >= y
    <2>1. n - y \in T
      BY <1>1
    <2>2. n - x <= n - y
      BY <1>3, <1>4, <2>1
    <2>3. QED
      BY <2>2
  <1>6. QED
    BY <1>5, Zenon DEF Max

LEMMA ResolveExists ==
  ASSUME NEW q \in Seq(Tokens)
  PROVE  \E h : ResolveRecursion(q, h)
  <1>1. PICK n \in Nat : n = Len(q) /\ DOMAIN q = 1 .. n /\ \A i \in 1 .. n : q[i] \in Tokens
    OBVIOUS
  <1>2. PICK S, D : S = 1 .. n /\ D = Seq(Names)
    OBVIOUS
  <1>3. PICK N \in Nat : N = Cardinality(S) /\ IsFiniteSet(S)
    BY <1>1, <1>2, FS_Interval, FS_CardinalityType
  <1>4. \A s \in SUBSET S : IsFiniteSet(s) /\ Cardinality(s) \in 0 .. N
    BY <1>3, FS_Subset, FS_CardinalityType
  <1>5. ASSUME NEW s \in SUBSET S, s # {}
        PROVE  Max(s) \in s /\ s \ {Max(s)} \in SUBSET S /\ Cardinality(s \ {Max(s)}) = Cardinality(s) - 1
    <2>1. Max(s) \in s
      BY <1>1, <1>2, <1>5, Greatest
    <2>2. QED
      BY <1>3, <2>1, Smaller
  <1>6. \A i \in S, d \in D : Resolved(d, q[i]) \in D
    BY <1>1, <1>2, ResolvedIn
  <1> DEFINE Right(k, h) == \A s \in SUBSET S : Cardinality(s) <= k => h[s] = ResolveBody(q, s, h)
             Upto == {k \in 0 .. N : \E h \in [SUBSET S -> D] : Right(k, h)}
  <1>7. 0 \in Upto
    <2>1. PICK h : h = [s \in SUBSET S |-> <<>>]
      OBVIOUS
    <2>2. ASSUME NEW s \in SUBSET S, Cardinality(s) <= 0 PROVE h[s] = ResolveBody(q, s, h)
      <3>1. s = {}
        BY <1>4, <2>2, FS_EmptySet
      <3>2. QED
        BY <2>1, <3>1 DEF ResolveBody
    <2>3. h \in [SUBSET S -> D]
      BY <1>2, <2>1
    <2>4. QED
      BY <2>2, <2>3
  <1>8. ASSUME NEW k \in 1 .. N, k - 1 \in Upto PROVE k \in Upto
    <2>1. PICK g \in [SUBSET S -> D] : Right(k - 1, g)
      BY <1>8
    <2>2. PICK h : h = [s \in SUBSET S |-> ResolveBody(q, s, g)]
      OBVIOUS
    <2>3. ASSUME NEW s \in SUBSET S PROVE ResolveBody(q, s, g) \in D
      <3>1. CASE s = {}
        BY <1>2, <3>1 DEF ResolveBody
      <3>2. CASE s # {}
        <4>1. PICK x \in s : x = Max(s) /\ s \ {x} \in SUBSET S
          BY <3>2, <1>5
        <4>2. Resolved(g[s \ {x}], q[x]) \in D
          BY <1>6, <4>1
        <4>3. ResolveBody(q, s, g) = Resolved(g[s \ {x}], q[x])
          BY <3>2, <4>1, Zenon DEF ResolveBody
        <4>4. QED
          BY <4>2, <4>3
      <3>3. QED
        BY <3>1, <3>2
    <2>4. h \in [SUBSET S -> D]
      BY <2>2, <2>3
    <2>5. ASSUME NEW s \in SUBSET S, Cardinality(s) <= k PROVE h[s] = ResolveBody(q, s, h)
      <3>1. CASE s = {}
        BY <2>2, <3>1 DEF ResolveBody
      <3>2. CASE s # {}
        <4>1. PICK x \in s : x = Max(s) /\ s \ {x} \in SUBSET S /\ Cardinality(s \ {x}) = Cardinality(s) - 1
          BY <3>2, <1>5
        <4>2. Cardinality(s \ {x}) <= k - 1
          BY <1>4, <2>5, <4>1
        <4>3. g[s \ {x}] = ResolveBody(q, s \ {x}, g)
          BY <2>1, <4>1, <4>2
        <4>4. h[s \ {x}] = g[s \ {x}]
          BY <2>2, <4>1, <4>3
        <4>5. ResolveBody(q, s, g) = Resolved(g[s \ {x}], q[x]) /\ ResolveBody(q, s, h) = Resolved(h[s \ {x}], q[x])
          BY <3>2, <4>1, Zenon DEF ResolveBody
        <4>6. QED
          BY <2>2, <4>4, <4>5
      <3>3. QED
        BY <3>1, <3>2
    <2>6. QED
      BY <2>4, <2>5
  <1>9. N \in Upto
    <2> HIDE DEF Upto
    <2>1. N \in Nat
      BY <1>3
    <2>2. \A k \in 0 .. N : k \in Upto
      BY <1>7, <1>8, <2>1, UpTo
    <2>3. QED
      BY <2>1, <2>2
  <1>10. PICK h \in [SUBSET S -> D] : Right(N, h)
    BY <1>9
  <1>11. \A s \in SUBSET S : h[s] = ResolveBody(q, s, h)
    BY <1>4, <1>10
  <1>12. h = [s \in SUBSET S |-> ResolveBody(q, s, h)]
    BY <1>11
  <1>13. QED
    BY <1>1, <1>2, <1>12 DEF ResolveRecursion

LEMMA ResolveKeeps ==
  ASSUME NEW q \in Seq(Tokens)
  PROVE  FoldLeft(Resolved, <<>>, q) \in Seq(Names)
  <1>1. PICK n \in Nat : n = Len(q) /\ DOMAIN q = 1 .. n /\ \A i \in 1 .. n : q[i] \in Tokens
    OBVIOUS
  <1>2. PICK S : S = 1 .. n /\ IsFiniteSet(S)
    BY FS_Interval
  <1>3. PICK h : h = (CHOOSE g : ResolveRecursion(q, g)) /\ ResolveRecursion(q, h)
    BY ResolveExists, Zenon
  <1>4. \A s \in SUBSET S : h[s] = ResolveBody(q, s, h)
    BY <1>1, <1>2, <1>3 DEF ResolveRecursion
  <1> DEFINE Good == {s \in SUBSET S : h[s] \in Seq(Names)}
  <1>5. {} \in Good
    <2>1. {} \in SUBSET S /\ ResolveBody(q, {}, h) = <<>>
      BY DEF ResolveBody
    <2>2. h[{}] = <<>>
      BY <1>4, <2>1
    <2>3. <<>> \in Seq(Names)
      OBVIOUS
    <2>4. QED
      BY <2>1, <2>2, <2>3
  <1>6. ASSUME NEW s \in SUBSET S, s # {}, \A x \in s : s \ {x} \in Good PROVE s \in Good
    <2>1. PICK x \in s : x = Max(s)
      BY <1>1, <1>2, <1>6, Greatest
    <2>2. h[s \ {x}] \in Seq(Names) /\ q[x] \in Tokens
      BY <1>1, <1>2, <1>6
    <2>3. ResolveBody(q, s, h) = Resolved(h[s \ {x}], q[x])
      BY <1>6, <2>1, Zenon DEF ResolveBody
    <2>4. Resolved(h[s \ {x}], q[x]) \in Seq(Names)
      BY <2>2, ResolvedIn
    <2>5. QED
      BY <1>4, <2>3, <2>4
  <1>7. \A s \in SUBSET S : s \in Good
    <2> HIDE DEF Good
    <2>1. QED
      BY <1>2, <1>5, <1>6, SubsetInduction, ZenonT(60)
  <1>8. h[S] \in Seq(Names)
    BY <1>7
  <1>9. QED
    BY <1>1, <1>2, <1>3, <1>8, ResolveIs

LEMMA PathResolved ==
  ASSUME pwd \in Seq(Names), NEW arg \in Args
  PROVE  resolve_path(arg) \in Seq(Names)
  <1>1. PICK base : base = IF arg.absolute THEN <<>> ELSE pwd
    OBVIOUS
  <1>2. base \in Seq(Tokens)
    BY <1>1 DEF Tokens
  <1>3. arg.tokens \in Seq(Tokens)
    BY ShellAssumption DEF Tokens
  <1>4. base \o arg.tokens \in Seq(Tokens)
    BY <1>2, <1>3
  <1>5. QED
    BY <1>1, <1>4, ResolveKeeps DEF resolve_path


-----------------------------------------------------------------------------
(* What a command prints.                                                  *)

LEMMA SeqInSeq ==
  ASSUME NEW S, NEW T, S \subseteq T
  PROVE  Seq(S) \subseteq Seq(T)
  OBVIOUS

(* The writes of a command, of which there is at least one.                *)
Writes == Seq(Seq(Said)) \ {<<>>}

LEMMA OneWrite ==
  ASSUME NEW bytes \in Seq(Said)
  PROVE  << bytes >> \in Writes
  <1>1. PICK D : D = Seq(Said)
    OBVIOUS
  <1>2. << bytes >> \in Seq(D) /\ << bytes >> # <<>>
    BY <1>1
  <1>3. QED
    BY <1>1, <1>2 DEF Writes

LEMMA ErrorWritten == << <<ErrorText>> >> \in Writes
  <1>1. <<ErrorText>> \in Seq(Said)
    BY ShellAssumption DEF Said
  <1>2. QED
    BY <1>1, OneWrite

LEMMA ListWritten ==
  ASSUME NEW f, Ground(f), NEW n \in Nodes \cup {NoNode}
  PROVE  ls(f, n) \in Writes
  <1>1. CASE n = NoNode \/ f[n].type # "folder"
    <2>1. ls(f, n) = << <<ErrorText>> >>
      BY <1>1, Zenon DEF ls
    <2>2. QED
      BY <2>1, ErrorWritten
  <1>2. CASE ~ (n = NoNode \/ f[n].type # "folder")
    <2>1. PICK K, T : TreeOf(f, K, T)
      BY DEF Ground, Grows
    <2>2. PICK s : s = Children(f, n)
      OBVIOUS
    <2>3. s \in Seq(Held(f))
      BY <1>2, <2>1, <2>2, TreeList
    <2>4. PICK N \in Nat : N = Len(s) /\ DOMAIN s = 1 .. N /\ \A k \in 1 .. N : s[k] \in Held(f)
      BY <2>3
    <2>5. PICK D : D = Seq(Said)
      OBVIOUS
    <2>6. ASSUME NEW k \in 1 .. N PROVE << Spelled(f[s[k]].name), <<Space>> >> \in Seq(D)
      <3>1. f[s[k]] \in Node
        BY <2>1, <2>4 DEF Held, TreeOf
      <3>2. f[s[k]].name \in Names \cup {NoName}
        BY <3>1 DEF Node
      <3>3. Spelled(f[s[k]].name) \in D
        <4>1. PICK name \in Names \cup {NoName} : name = f[s[k]].name
          BY <3>2
        <4>2. CASE name = NoName
          BY <2>5, <4>1, <4>2 DEF Spelled
        <4>3. CASE name # NoName
          <5>1. name \in Said
            BY <4>1, <4>3, ShellAssumption DEF Said
          <5>2. Spelled(name) = <<name>>
            BY <4>3 DEF Spelled
          <5>3. QED
            BY <2>5, <4>1, <5>1, <5>2
        <4>4. QED
          BY <4>2, <4>3
      <3>4. <<Space>> \in D
        BY <2>5, ShellAssumption DEF Said
      <3>5. QED
        BY <3>3, <3>4
    <2>7. PICK t : t = [k \in 1 .. N |-> << Spelled(f[s[k]].name), <<Space>> >>]
      OBVIOUS
    <2>8. t \in Seq(Seq(D))
      <3>1. PICK E : E = Seq(D)
        OBVIOUS
      <3>2. \A k \in 1 .. N : t[k] \in E
        BY <2>6, <2>7, <3>1
      <3>3. t \in [1 .. N -> E]
        BY <2>7, <3>2
      <3>4. t \in Seq(E)
        BY <3>3
      <3>5. QED
        BY <3>1, <3>4
    <2>9. PICK u : u = FlattenSeq(t)
      OBVIOUS
    <2>10. u \in Seq(D)
      <3>1. PICK w \in [0 .. Len(t) -> Seq(D)] : FlattenSeq(t) = w[Len(t)]
        BY <2>8, FlattenWay
      <3>2. Len(t) \in 0 .. Len(t)
        BY <2>8
      <3>3. QED
        BY <2>9, <3>1, <3>2
    <2>11. <<Newline>> \in D
      BY <2>5, ShellAssumption DEF Said
    <2>12. PICK e \in D : e = <<Newline>>
      BY <2>11
    <2>13. u \o << e >> \in Seq(D) /\ u \o << e >> # <<>>
      <3>1. << e >> \in Seq(D) /\ Len(<< e >>) = 1
        OBVIOUS
      <3>2. u \o << e >> \in Seq(D) /\ Len(u \o << e >>) = Len(u) + Len(<< e >>)
        BY <2>10, <3>1, Joined
      <3>3. Len(u) \in Nat
        BY <2>10
      <3>4. Len(u \o << e >>) # 0
        BY <3>1, <3>2, <3>3
      <3>5. QED
        BY <3>2, <3>4
    <2>14. ls(f, n) = u \o << <<Newline>> >>
      BY <1>2, <2>2, <2>4, <2>7, <2>9, Zenon DEF ls
    <2>15. QED
      BY <2>5, <2>12, <2>13, <2>14 DEF Writes
  <1>3. QED
    BY <1>1, <1>2

LEMMA FileWritten ==
  ASSUME NEW f, Ground(f), NEW n \in Nodes \cup {NoNode}
  PROVE  cat(f, n) \in Writes
  <1>1. CASE n = NoNode \/ f[n].type # "file"
    <2>1. cat(f, n) = << <<ErrorText>> >>
      BY <1>1, Zenon DEF cat
    <2>2. QED
      BY <2>1, ErrorWritten
  <1>2. CASE ~ (n = NoNode \/ f[n].type # "file")
    <2>1. cat(f, n) = << f[n].data >>
      BY <1>2, Zenon DEF cat
    <2>2. f[n].data \in Seq(Said)
      BY <1>2 DEF Ground, AllWhole, Whole, Said
    <2>3. QED
      BY <2>1, <2>2, OneWrite
  <1>3. QED
    BY <1>1, <1>2

LEMMA OutputWritten ==
  ASSUME NEW f, Ground(f), g_mounts = <<>>, pwd \in Seq(Names), NEW command \in Command
  PROVE  Output(f, command) \in Writes
  <1>1. CASE command = [name |-> "help"]
    <2>1. Output(f, command) = HelpLines
      BY <1>1 DEF Output
    <2>2. Seq(Bytes) \subseteq Seq(Said)
      BY SeqInSeq DEF Said
    <2>3. Seq(Seq(Bytes)) \subseteq Seq(Seq(Said))
      BY <2>2, SeqInSeq
    <2>4. QED
      BY <2>1, <2>3, ShellAssumption DEF Writes
  <1>2. ASSUME NEW says \in Says, command = [name |-> "echo", says |-> says]
        PROVE  Output(f, command) \in Writes
    <2>1. Output(f, command) = << says, <<Newline>> >>
      BY <1>2 DEF Output
    <2>2. PICK D : D = Seq(Said)
      OBVIOUS
    <2>3. says \in D /\ <<Newline>> \in D
      BY <2>2, ShellAssumption DEF Said
    <2>4. << says, <<Newline>> >> \in Seq(D) /\ << says, <<Newline>> >> # <<>>
      BY <2>3
    <2>5. QED
      BY <2>1, <2>2, <2>4 DEF Writes
  <1>3. ASSUME NEW name \in {"ls", "cat"}, NEW arg \in Args, command = [name |-> name, of |-> arg]
        PROVE  Output(f, command) \in Writes
    <2>1. PICK n : n = vfs_traverse_path(f, g_mounts, resolve_path(arg))
      OBVIOUS
    <2>2. n \in Nodes \cup {NoNode}
      BY <2>1, PathResolved, GroundLookup
    <2>3. command.name = name /\ command.of = arg
      BY <1>3
    <2>4. CASE name = "ls"
      <3>1. Output(f, command) = ls(f, n)
        BY <2>1, <2>3, <2>4 DEF Output
      <3>2. QED
        BY <2>2, <3>1, ListWritten
    <2>5. CASE name = "cat"
      <3>1. Output(f, command) = cat(f, n)
        BY <2>1, <2>3, <2>5 DEF Output
      <3>2. QED
        BY <2>2, <3>1, FileWritten
    <2>6. QED
      BY <2>4, <2>5
  <1>4. QED
    BY <1>1, <1>2, <1>3 DEF Command


LEMMA PrintingStarts ==
  ASSUME NEW f, AllWhole(f), NEW file \in Held(f), NEW mode \in {"truncate", "append"},
         NEW output \in Writes, StartOf(f[file], mode) + Len(FlattenSeq(output)) <= MaxSize,
         NEW p, p = PrintOp(mode, file, StartOf(f[file], mode), output, <<>>, f[file].data)
  PROVE  Printing(f, p)
  <1>1. PICK old \in Seq(Said) : old = f[file].data /\ Len(old) = f[file].size
    BY DEF AllWhole, Whole, Held, Said
  <1>2. PICK start \in Nat : start = StartOf(f[file], mode)
    <2>1. f[file].size \in Nat
      BY <1>1
    <2>2. QED
      BY <2>1 DEF StartOf
  <1>3. PICK said : said = <<>>
    OBVIOUS
  <1>4. p = PrintOp(mode, file, start, output, said, old)
    BY <1>1, <1>2, <1>3, Zenon
  <1>5. /\ p.mode = mode /\ p.file = file /\ p.offset = start
        /\ p.left = output /\ p.said = said /\ p.old = old
    BY <1>4, PrintFields
  <1>6. said \in Seq(Said) /\ Len(said) = 0 /\ old = old \o said
    BY <1>3
  <1>7. output \in Seq(Seq(Said)) /\ output # <<>>
    BY DEF Writes
  <1>8. mode = "truncate" => start = 0
    BY <1>2 DEF StartOf
  <1>9. mode = "append" => start = f[file].size
    BY <1>2 DEF StartOf
  <1>10. p = PrintOp(p.mode, p.file, p.offset, p.left, p.said, p.old)
    BY <1>4, <1>5, Zenon
  <1>11. /\ p.mode \in {"truncate", "append"} /\ p.file \in Held(f)
         /\ p.left \in Seq(Seq(Said)) /\ p.said \in Seq(Said) /\ p.old \in Seq(Said)
         /\ p.offset \in Nat /\ p.offset + Len(FlattenSeq(p.left)) <= MaxSize
    BY <1>2, <1>5, <1>6, <1>7
  <1>12. /\ f[p.file].type = "file" /\ p.mode = "truncate" =>
              p.offset = Len(p.said) /\ p.said = <<>> /\ p.left # <<>>
         /\ f[p.file].type = "file" /\ p.mode = "append" =>
              p.offset = f[p.file].size /\ f[p.file].data = p.old \o p.said
    BY <1>1, <1>3, <1>5, <1>6, <1>7, <1>8, <1>9
  <1>13. QED
    BY <1>10, <1>11, <1>12, Zenon DEF Printing

(* A state of the shell in which the command in progress is o.             *)
ShellSound(f, mounts, dir, o) ==
  /\ Ground(f) /\ mounts = <<>>
  /\ dir \in Seq(Names) /\ Len(dir) <= Cardinality(Nodes)
  /\ Busy(f, o)

LEMMA RedirectStep ==
  ASSUME Ground(node), g_mounts = <<>>, pwd \in Seq(Names),
         NEW command \in Command, NEW target \in Args, NEW mode \in {"truncate", "append"},
         redirect(command, target, mode)
  PROVE  /\ Ground(node') /\ Steady(node, node')
         /\ g_mounts' = <<>> /\ pwd' = pwd /\ Printing(node', op')
  <1>1. PICK path : path = resolve_path(target) /\ path \in Seq(Names)
    BY PathResolved
  <1>2. PICK file : file = vfs_traverse_path(node', g_mounts, path)
    OBVIOUS
  <1>3. PICK output : output = Output(node', command)
    OBVIOUS
  <1>4. PICK start : start = StartOf(node'[file], mode)
    OBVIOUS
  <1>5. /\ IF Lookup(path) = NoNode THEN create(path, "file")
           ELSE UNCHANGED <<node, g_mounts, broken>>
        /\ start + Len(FlattenSeq(output)) <= MaxSize
        /\ op' = PrintOp(mode, file, start, output, <<>>, node'[file].data)
        /\ pwd' = pwd
    BY <1>1, <1>2, <1>3, <1>4, Zenon DEF redirect, PrintOp
  <1>6. Ground(node') /\ Steady(node, node') /\ g_mounts' = <<>> /\ file \in Held(node')
    <2>1. CASE Lookup(path) = NoNode
      <3>1. create(path, "file")
        BY <1>5, <2>1
      <3>2. /\ Ground(node') /\ Steady(node, node')
            /\ vfs_traverse_path(node', <<>>, path) \in Held(node')
        BY <1>1, <2>1, <3>1, ShellCreates
      <3>3. g_mounts' = g_mounts
        BY <3>1 DEF create
      <3>4. QED
        BY <1>2, <3>2, <3>3
    <2>2. CASE Lookup(path) # NoNode
      <3>1. node' = node /\ g_mounts' = g_mounts
        BY <1>5, <2>2
      <3>2. file = Lookup(path)
        BY <1>2, <3>1 DEF Lookup
      <3>3. file \in Held(node)
        BY <1>1, <1>2, <2>2, <3>1, <3>2, GroundLookup
      <3>4. QED
        BY <3>1, <3>3, SteadySame
    <2>3. QED
      BY <2>1, <2>2
  <1>7. output \in Writes
    BY <1>3, <1>6, OutputWritten
  <1>8. Printing(node', op')
    <2>1. PICK f : f = node'
      OBVIOUS
    <2>2. AllWhole(f) /\ file \in Held(f)
      BY <1>6, <2>1 DEF Ground
    <2>3. PICK p : p = op'
      OBVIOUS
    <2>4. p = PrintOp(mode, file, StartOf(f[file], mode), output, <<>>, f[file].data)
      BY <1>4, <1>5, <2>1, <2>3, Zenon
    <2>5. StartOf(f[file], mode) + Len(FlattenSeq(output)) <= MaxSize
      BY <1>4, <1>5, <2>1
    <2>6. Printing(f, p)
      BY <1>7, <2>2, <2>4, <2>5, PrintingStarts
    <2>7. QED
      BY <2>1, <2>3, <2>6
  <1>9. QED
    BY <1>5, <1>6, <1>8

LEMMA PrintStep ==
  ASSUME Ground(node), Printing(node, op), print
  PROVE  Ground(node') /\ Steady(node, node') /\ Printing(node', op')
  <1>1. PICK left \in Seq(Seq(Said)), said \in Seq(Said), offset \in Nat, file \in Nodes :
          left = op.left /\ said = op.said /\ offset = op.offset /\ file = op.file
    BY DEF Printing, Held
  <1>2. left # <<>>
    BY <1>1 DEF print
  <1>3. PICK bytes \in Seq(Said) : bytes = Head(left) /\ Len(bytes) \in Nat
    <2>1. PICK D : D = Seq(Said)
      OBVIOUS
    <2>2. left \in Seq(D) /\ left # <<>>
      BY <1>1, <1>2, <2>1
    <2>3. Head(left) \in D
      BY <2>2
    <2>4. QED
      BY <2>1, <2>3
  <1>4. offset + Len(bytes) <= MaxSize
    <2>1. /\ Len(FlattenSeq(left)) = Len(bytes) + Len(FlattenSeq(Tail(left)))
          /\ Len(FlattenSeq(Tail(left))) \in Nat
      BY <1>1, <1>2, <1>3, FlattenTail
    <2>2. offset + Len(FlattenSeq(left)) <= MaxSize
      BY <1>1 DEF Printing
    <2>3. PICK x \in Nat, y \in Nat : x = Len(bytes) /\ y = Len(FlattenSeq(Tail(left)))
      BY <1>3, <2>1
    <2>4. QED
      BY <2>1, <2>2, <2>3, VfsAssumption
  <1>5. op' = PrintOp(op.mode, op.file, Advanced(op.offset, bytes), Tail(op.left), op.said \o bytes, op.old)
    <2>1. PICK a, b, c : a = Tail(op.left) /\ b = Advanced(op.offset, bytes) /\ c = op.said \o bytes
      OBVIOUS
    <2>2. op' = Printed(op, a, b, c)
      BY <1>1, <1>3, <2>1, Zenon DEF print, Printed
    <2>3. PICK mode, start, rest, printed, old : /\ op = PrintOp(mode, file, start, rest, printed, old)
                                                 /\ mode = op.mode /\ old = op.old
      BY <1>1 DEF Printing
    <2>4. Printed(op, a, b, c) = PrintOp(mode, file, b, a, c, old)
      BY <2>3, PrintChanged
    <2>5. QED
      BY <1>1, <2>1, <2>2, <2>3, <2>4, Zenon
  <1>6. node' = IF node[file].type # "file" THEN node ELSE Written(node, file, offset, bytes)
    BY <1>1, <1>3, Zenon DEF print
  <1>7. op.left # <<>> /\ bytes = Head(op.left)
    BY <1>1, <1>2, <1>3
  <1>8. PICK f, o, p, g : f = node /\ o = op /\ p = op' /\ g = node'
    OBVIOUS
  <1>9. CASE node[file].type # "file"
    <2>1. node' = node
      BY <1>6, <1>9
    <2>2. f[o.file].type # "file" /\ Held(g) = Held(f) /\ \A m \in Nodes : g[m].type = f[m].type
      BY <1>1, <1>8, <1>9, <2>1
    <2>3. Printing(g, p)
      BY <1>5, <1>7, <1>8, <2>2, PrintingNext
    <2>4. QED
      BY <1>8, <2>1, <2>3, SteadySame
  <1>10. CASE node[file].type = "file"
    <2>1. node' = Written(node, file, offset, bytes)
      BY <1>6, <1>10
    <2>2. Whole(node[file])
      BY DEF Ground, AllWhole
    <2>3. PICK size \in Nat : size = node[file].size /\ size = Len(node[file].data)
      BY <2>2, VfsAssumption DEF Whole
    <2>4. offset <= size
      <3>1. CASE op.mode = "append"
        BY <1>1, <1>10, <2>3, <3>1 DEF Printing
      <3>2. CASE op.mode = "truncate"
        <4>1. offset = Len(said) /\ (said = <<>> \/ Covers(node[file].data, said))
          BY <1>1, <1>10, <3>2 DEF Printing
        <4>2. CASE said = <<>>
          BY <2>3, <4>1, <4>2
        <4>3. CASE Covers(node[file].data, said)
          BY <2>3, <4>1, <4>3 DEF Covers
        <4>4. QED
          BY <4>1, <4>2, <4>3
      <3>3. QED
        BY <3>1, <3>2 DEF Printing
    <2>5. offset \in 0 .. node[file].size
      BY <1>1, <2>3, <2>4
    <2>6. bytes \in Seq(Bytes \cup {0})
      BY <1>3 DEF Said
    <2>7. /\ Ground(node') /\ Steady(node, node')
          /\ Held(node') = Held(node) /\ WriteIs(node[file], node'[file], offset, bytes)
          /\ \A m \in Nodes : node'[m].type = node[m].type
      BY <1>4, <2>1, <2>5, <2>6, ShellWrites
    <2>8. Whole(f[o.file]) /\ WriteIs(f[o.file], g[o.file], o.offset, bytes)
      BY <1>1, <1>8, <2>2, <2>7
    <2>9. Held(g) = Held(f) /\ \A m \in Nodes : g[m].type = f[m].type
      BY <1>8, <2>7
    <2>10. Printing(g, p)
      BY <1>5, <1>7, <1>8, <2>8, <2>9, PrintingNext
    <2>11. QED
      BY <1>8, <2>7, <2>10
  <1>11. QED
    BY <1>9, <1>10


-----------------------------------------------------------------------------
(* The steps of the shell.                                                 *)

(* A path that leads somewhere meets no node twice: nodes that were met    *)
(* again would hold all their parents.                                     *)
LEMMA PathShort ==
  ASSUME NEW f, Ground(f), NEW path \in Seq(Names), vfs_traverse_path(f, <<>>, path) # NoNode
  PROVE  Len(path) <= Cardinality(Nodes)
  <1>1. PICK K, T : T = {Root} /\ Root \in T /\ TreeOf(f, K, T) /\ Root \in Held(f)
    BY DEF Ground, Grows, TreeOf
  <1>2. PICK mounts : mounts = <<>> /\ Mounting(f, mounts, T)
    BY DEF Mounting
  <1>3. PICK N \in Nat : N = Len(path)
    OBVIOUS
  <1>4. PICK w : Way(f, K, mounts, path, w) /\ vfs_traverse_path(f, mounts, path) = w[Len(path)]
    BY <1>1, <1>2, TraverseWay
  <1>5. /\ w \in [0 .. N -> Held(f) \cup {NoNode}] /\ w[0] = Root /\ w[N] # NoNode
        /\ \A k \in 1 .. N : IF w[k - 1] = NoNode THEN w[k] = NoNode
                             ELSE FirstNamed(f, K[w[k - 1]], path[k], w[k])
    <2>1. w[N] # NoNode
      BY <1>2, <1>3, <1>4
    <2>2. \A k \in 1 .. N : Through(mounts, w[k - 1]) = w[k - 1]
      BY <1>2, ThroughIs
    <2>3. QED
      BY <1>3, <1>4, <2>1, <2>2 DEF Way
  <1> DEFINE There == {k \in 0 .. N : w[k] # NoNode}
  <1>6. \A k \in 0 .. N : k \in There
    <2>1. N \in There
      BY <1>5
    <2>2. \A k \in 1 .. N : k \in There => k - 1 \in There
      BY <1>5
    <2> HIDE DEF There
    <2>3. QED
      BY <2>1, <2>2, DownTo
  <1>7. \A k \in 0 .. N : w[k] \in Held(f) /\ w[k] # NoNode
    BY <1>5, <1>6
  <1>8. ASSUME NEW k \in 1 .. N PROVE f[w[k]].parent = w[k - 1] /\ w[k] \in Held(f) \ T
    <2>1. PICK p \in Nodes : p = w[k - 1] /\ p # NoNode
      BY <1>7 DEF Held
    <2>2. PICK c \in Nodes : c = w[k] /\ c # NoNode /\ c \in Held(f)
      BY <1>7 DEF Held
    <2>3. FirstNamed(f, K[p], path[k], c)
      BY <1>5, <2>1, <2>2
    <2>4. PICK i \in 1 .. Len(K[p]) : c = K[p][i]
      BY <2>2, <2>3 DEF FirstNamed
    <2>5. f[c].parent = p
      BY <1>1, <2>4, TreeList DEF ListOf
    <2>6. c \notin T
      <3>1. In(c, K[p])
        BY <2>4 DEF In
      <3>2. QED
        BY <1>1, <2>2, <3>1 DEF TreeOf, Placed
    <2>7. QED
      BY <2>1, <2>2, <2>5, <2>6
  <1>9. ASSUME NEW i \in 1 .. N, NEW j \in 1 .. N, w[i] = w[j], i < j PROVE FALSE
    <2>1. PICK S : S = {w[k] : k \in i + 1 .. j}
      OBVIOUS
    <2>2. \A k \in i + 1 .. j : k \in 1 .. N
      OBVIOUS
    <2>3. S \in SUBSET (Held(f) \ T)
      BY <1>8, <2>1, <2>2
    <2>4. ASSUME NEW n \in S PROVE f[n].parent \in S
      <3>1. PICK k \in i + 1 .. j : n = w[k]
        BY <2>1
      <3>2. f[n].parent = w[k - 1]
        BY <1>8, <2>2, <3>1
      <3>3. CASE k = i + 1
        <4>1. w[k - 1] = w[j] /\ j \in i + 1 .. j
          BY <1>9, <3>3
        <4>2. QED
          BY <2>1, <3>2, <4>1
      <3>4. CASE k # i + 1
        <4>1. k - 1 \in i + 1 .. j
          BY <3>4
        <4>2. QED
          BY <2>1, <3>2, <4>1
      <3>5. QED
        BY <3>3, <3>4
    <2>5. w[j] \in S
      BY <1>9, <2>1
    <2>6. Grounded(f, T)
      BY <1>1 DEF TreeOf
    <2>7. QED
      BY <2>3, <2>4, <2>5, <2>6 DEF Grounded
  <1>10. PICK s : s = [k \in 1 .. N |-> w[k]]
    OBVIOUS
  <1>11. s \in [1 .. N -> Nodes] /\ \A k \in 1 .. N : s[k] = w[k]
    BY <1>7, <1>10 DEF Held
  <1>12. ASSUME NEW i \in 1 .. N, NEW j \in 1 .. N, s[i] = s[j] PROVE i = j
    <2>1. w[i] = w[j]
      BY <1>11, <1>12
    <2>2. i < j \/ j < i \/ i = j
      OBVIOUS
    <2>3. QED
      BY <1>9, <2>1, <2>2
  <1>13. QED
    BY <1>3, <1>11, <1>12, VfsAssumption, InjectiveLength

(* What a step keeps, besides the state's own properties.                  *)
ShellKeeps(f, g, dir, next) ==
  /\ Steady(f, g)
  /\ next = dir \/ /\ vfs_traverse_path(g, <<>>, next) # NoNode
                   /\ g[vfs_traverse_path(g, <<>>, next)].type = "folder"

ShellStep ==
  /\ ShellSound(node', g_mounts', pwd', op')
  /\ ShellKeeps(node, node', pwd, pwd')

LEMMA CommandStep ==
  ASSUME ShellSound(node, g_mounts, pwd, op), NEW arg \in Args,
         touch(arg) \/ mkdir(arg) \/ rm(arg) \/ rmdir(arg) \/ cd(arg) \/ edit(arg)
  PROVE  ShellStep
  <1>1. PICK path \in Seq(Names) : path = resolve_path(arg)
    BY PathResolved DEF ShellSound
  <1>2. Ground(node) /\ g_mounts = <<>>
    BY DEF ShellSound
  <1>3. op = Idle /\ pwd \in Seq(Names) /\ Len(pwd) <= Cardinality(Nodes)
    BY DEF ShellSound, touch, mkdir, rm, rmdir, cd, edit
  <1>4. CASE touch(arg) \/ mkdir(arg)
    <2>1. PICK type \in {"file", "folder"} : create(path, type)
      BY <1>1, <1>4 DEF touch, mkdir
    <2>2. Ground(node') /\ Steady(node, node')
      BY <1>2, <2>1, ShellCreates
    <2>3. g_mounts' = g_mounts /\ pwd' = pwd /\ op' = op
      BY <1>4, <2>1 DEF create, touch, mkdir
    <2>4. QED
      BY <1>2, <1>3, <2>2, <2>3 DEF ShellStep, ShellSound, ShellKeeps, Busy
  <1>5. CASE rm(arg) \/ rmdir(arg)
    <2>1. remove_p(path) /\ pwd' = pwd /\ op' = op
      BY <1>1, <1>5 DEF rm, rmdir
    <2>2. Ground(node') /\ Steady(node, node')
      BY <1>2, <2>1, ShellRemoves
    <2>3. g_mounts' = g_mounts
      BY <2>1, Zenon DEF remove_p
    <2>4. QED
      BY <1>2, <1>3, <2>1, <2>2, <2>3 DEF ShellStep, ShellSound, ShellKeeps, Busy
  <1>6. CASE cd(arg)
    <2>1. /\ node' = node /\ g_mounts' = g_mounts /\ op' = op /\ pwd' = path
          /\ vfs_traverse_path(node, <<>>, path) # NoNode
          /\ node[vfs_traverse_path(node, <<>>, path)].type = "folder"
      BY <1>1, <1>2, <1>6 DEF cd, open, Lookup, IsFolder
    <2>2. Len(path) <= Cardinality(Nodes)
      BY <1>2, <2>1, PathShort
    <2>3. QED
      BY <1>1, <1>2, <1>3, <2>1, <2>2, SteadySame DEF ShellStep, ShellSound, ShellKeeps, Busy
  <1>7. CASE edit(arg)
    <2>1. node' = node /\ g_mounts' = g_mounts /\ pwd' = pwd
      BY <1>7 DEF edit
    <2>2. Busy(node, op')
      <3>1. PICK file : file = open(arg)
        OBVIOUS
      <3>2. op' = IF file = NoNode THEN [kind |-> "fault"]
                  ELSE [kind |-> "edit", file |-> file, buffer |-> <<>>]
        BY <1>7, <3>1, Zenon DEF edit
      <3>3. CASE file = NoNode
        BY <3>2, <3>3 DEF Busy
      <3>4. CASE file # NoNode
        <4>1. file \in Held(node)
          BY <1>1, <1>2, <3>1, <3>4, GroundLookup DEF open, Lookup
        <4>2. PICK o : o = op'
          OBVIOUS
        <4>3. o = [kind |-> "edit", file |-> file, buffer |-> <<>>]
          BY <3>2, <3>4, <4>2
        <4>4. o.file = file /\ o.buffer = <<>>
          BY <4>3
        <4>5. Editing(node, o)
          BY <4>1, <4>3, <4>4, ShellAssumption DEF Editing
        <4>6. QED
          BY <4>2, <4>5 DEF Busy
      <3>5. QED
        BY <3>3, <3>4
    <2>3. QED
      BY <1>2, <1>3, <2>1, <2>2, SteadySame DEF ShellStep, ShellSound, ShellKeeps
  <1>8. QED
    BY <1>4, <1>5, <1>6, <1>7


LEMMA KindIs ==
  ASSUME NEW f, NEW o, Busy(f, o)
  PROVE  /\ o.kind \in {"idle", "fault", "print", "edit"}
         /\ o.kind = "print" => Printing(f, o)
         /\ o.kind = "edit" => Editing(f, o)
  <1>1. CASE o = Idle
    BY <1>1 DEF Idle
  <1>2. CASE o = [kind |-> "fault"]
    BY <1>2
  <1>3. CASE Printing(f, o)
    <2>1. o = PrintOp(o.mode, o.file, o.offset, o.left, o.said, o.old)
      BY <1>3, Zenon DEF Printing
    <2>2. o.kind = "print"
      BY <2>1, PrintFields
    <2>3. QED
      BY <1>3, <2>2
  <1>4. CASE Editing(f, o)
    <2>1. PICK file, buffer : o = [kind |-> "edit", file |-> file, buffer |-> buffer]
      BY <1>4 DEF Editing
    <2>2. o.kind = "edit"
      BY <2>1
    <2>3. QED
      BY <1>4, <2>2
  <1>5. QED
    BY <1>1, <1>2, <1>3, <1>4 DEF Busy

LEMMA EditorWrites ==
  ASSUME Ground(node), Editing(node, op), save
  PROVE  /\ Ground(node') /\ Steady(node, node') /\ Held(node') = Held(node)
         /\ node[op.file].type = "file" => WriteIs(node[op.file], node'[op.file], 0, op.buffer)
  <1>1. PICK file \in Nodes : file = op.file
    BY DEF Editing, Held
  <1>2. PICK buffer \in Seq(Bytes) : buffer = op.buffer /\ Len(buffer) <= MaxTyped
    BY DEF Editing
  <1>3. node' = IF node[file].type # "file" THEN node ELSE Written(node, file, 0, buffer)
    BY <1>1, <1>2, Zenon DEF save
  <1>4. CASE node[file].type # "file"
    BY <1>1, <1>3, <1>4, SteadySame
  <1>5. CASE node[file].type = "file"
    <2>1. node' = Written(node, file, 0, buffer)
      BY <1>3, <1>5
    <2>2. 0 \in 0 .. node[file].size
      BY VfsAssumption DEF Ground, AllWhole, Whole
    <2>3. buffer \in Seq(Bytes \cup {0}) /\ 0 + Len(buffer) <= MaxSize
      <3>1. PICK n \in Nat : n = Len(buffer)
        OBVIOUS
      <3>2. 0 + n <= MaxSize
        BY <1>2, <3>1, ShellAssumption, VfsAssumption
      <3>3. QED
        BY <3>1, <3>2
    <2>4. /\ Ground(node') /\ Steady(node, node')
          /\ Held(node') = Held(node) /\ WriteIs(node[file], node'[file], 0, buffer)
      BY <2>1, <2>2, <2>3, ShellWrites
    <2>5. QED
      BY <1>1, <1>2, <2>4
  <1>6. QED
    BY <1>4, <1>5

LEMMA EditStep ==
  ASSUME ShellSound(node, g_mounts, pwd, op),
         (\E byte \in Bytes : key(byte)) \/ backspace \/ save \/ escape \/ prompt
  PROVE  ShellStep
  <1>1. Ground(node) /\ g_mounts = <<>> /\ pwd \in Seq(Names) /\ Len(pwd) <= Cardinality(Nodes) /\ Busy(node, op)
    BY DEF ShellSound
  <1>2. g_mounts' = <<>> /\ pwd' = pwd
    BY <1>1 DEF key, backspace, save, escape, prompt
  <1>3. CASE escape \/ prompt
    <2>1. node' = node /\ op' = Idle
      BY <1>3 DEF escape, prompt
    <2>2. QED
      BY <1>1, <1>2, <2>1, SteadySame DEF ShellStep, ShellSound, ShellKeeps, Busy
  <1>4. CASE save
    <2>1. op.kind = "edit" /\ op' = op
      BY <1>4 DEF save
    <2>2. Editing(node, op)
      BY <1>1, <2>1, KindIs
    <2>3. Ground(node') /\ Steady(node, node') /\ Held(node') = Held(node)
      BY <1>1, <1>4, <2>2, EditorWrites
    <2>4. Editing(node', op')
      BY <2>1, <2>2, <2>3 DEF Editing
    <2>5. QED
      BY <1>1, <1>2, <2>3, <2>4 DEF ShellStep, ShellSound, ShellKeeps, Busy
  <1>5. CASE (\E byte \in Bytes : key(byte)) \/ backspace
    <2>1. op.kind = "edit" /\ node' = node
      BY <1>5 DEF key, backspace
    <2>2. Editing(node, op)
      BY <1>1, <2>1, KindIs
    <2>3. PICK file, buffer : /\ file = op.file /\ file \in Held(node)
                              /\ buffer = op.buffer /\ buffer \in Seq(Bytes) /\ Len(buffer) <= MaxTyped
      BY <2>2 DEF Editing
    <2>4. op = [kind |-> "edit", file |-> file, buffer |-> buffer]
      BY <2>2, <2>3, Zenon DEF Editing
    <2>5. PICK typed : /\ typed \in Seq(Bytes) /\ Len(typed) <= MaxTyped
                       /\ op' = [op EXCEPT !.buffer = typed]
      <3>1. CASE \E byte \in Bytes : key(byte)
        <4>1. PICK byte \in Bytes : Len(buffer) < MaxTyped /\ op' = [op EXCEPT !.buffer = Append(buffer, byte)]
          BY <2>3, <3>1, Zenon DEF key
        <4>2. PICK typed : typed = Append(buffer, byte)
          OBVIOUS
        <4>3. typed \in Seq(Bytes) /\ Len(typed) = Len(buffer) + 1 /\ Len(buffer) \in Nat
          BY <2>3, <4>2, AppendIs
        <4>4. Len(typed) <= MaxTyped
          BY <4>1, <4>3, ShellAssumption, VfsAssumption
        <4>5. QED
          BY <4>1, <4>2, <4>3, <4>4
      <3>2. CASE backspace
        <4>1. buffer # <<>> /\ op' = [op EXCEPT !.buffer = Front(buffer)]
          BY <2>3, <3>2, Zenon DEF backspace
        <4>2. PICK n \in Nat : n = Len(buffer) /\ n # 0
          BY <2>3, <4>1
        <4>3. PICK typed : typed = SubSeq(buffer, 1, n - 1) /\ typed = Front(buffer)
          BY <4>2, Zenon DEF Front
        <4>4. n - 1 \in 0 .. Len(buffer)
          BY <4>2
        <4>5. typed \in Seq(Bytes) /\ Len(typed) = n - 1
          BY <2>3, <4>3, <4>4, Prefix
        <4>6. Len(typed) <= MaxTyped
          BY <2>3, <4>2, <4>5, ShellAssumption, VfsAssumption
        <4>7. QED
          BY <4>1, <4>3, <4>5, <4>6
      <3>3. QED
        BY <1>5, <3>1, <3>2
    <2>6. op' = [kind |-> "edit", file |-> file, buffer |-> typed]
      BY <2>4, <2>5
    <2>7. op'.file = file /\ op'.buffer = typed
      BY <2>6
    <2>8. Editing(node, op')
      BY <2>3, <2>5, <2>6, <2>7 DEF Editing
    <2>9. QED
      BY <1>1, <1>2, <2>1, <2>8, SteadySame DEF ShellStep, ShellSound, ShellKeeps, Busy
  <1>6. QED
    BY <1>3, <1>4, <1>5

LEMMA ShellSteps ==
  ShellSound(node, g_mounts, pwd, op) /\ [ShellNext]_shellVars => ShellStep
  <1> SUFFICES ASSUME ShellSound(node, g_mounts, pwd, op), [ShellNext]_shellVars PROVE ShellStep
    OBVIOUS
  <1>1. Ground(node) /\ g_mounts = <<>> /\ pwd \in Seq(Names) /\ Len(pwd) <= Cardinality(Nodes) /\ Busy(node, op)
    BY DEF ShellSound
  <1>2. ASSUME NEW arg \in Args,
               touch(arg) \/ mkdir(arg) \/ rm(arg) \/ rmdir(arg) \/ cd(arg) \/ edit(arg)
        PROVE  ShellStep
    BY <1>2, CommandStep
  <1>3. ASSUME NEW arg \in Args, NEW command \in Command, NEW mode \in {"truncate", "append"},
               redirect(command, arg, mode)
        PROVE  ShellStep
    <2>1. /\ Ground(node') /\ Steady(node, node')
          /\ g_mounts' = <<>> /\ pwd' = pwd /\ Printing(node', op')
      BY <1>1, <1>3, RedirectStep
    <2>2. QED
      BY <1>1, <2>1 DEF ShellStep, ShellSound, ShellKeeps, Busy
  <1>4. CASE print
    <2>1. Printing(node, op)
      <3>1. op.kind = "print"
        BY <1>4 DEF print
      <3>2. QED
        BY <1>1, <3>1, KindIs
    <2>2. Ground(node') /\ Steady(node, node') /\ Printing(node', op')
      BY <1>1, <1>4, <2>1, PrintStep
    <2>3. g_mounts' = g_mounts /\ pwd' = pwd
      BY <1>4 DEF print
    <2>4. QED
      BY <1>1, <2>2, <2>3 DEF ShellStep, ShellSound, ShellKeeps, Busy
  <1>5. CASE (\E byte \in Bytes : key(byte)) \/ backspace \/ save \/ escape \/ prompt
    BY <1>5, EditStep
  <1>6. CASE UNCHANGED shellVars
    BY <1>1, <1>6, SteadySame DEF ShellStep, ShellSound, ShellKeeps, shellVars
  <1>7. QED
    BY <1>2, <1>3, <1>4, <1>5, <1>6 DEF ShellNext

LEMMA ShellStarts == ShellInit => ShellSound(node, g_mounts, pwd, op)
  <1> SUFFICES ASSUME ShellInit PROVE ShellSound(node, g_mounts, pwd, op)
    OBVIOUS
  <1>1. PICK r : r = vfs_create_node(NoName, "folder", NoNode) /\ Whole(r)
    BY CreatedWhole
  <1>2. node = [[n \in Nodes |-> Freed] EXCEPT ![Root] = r]
    BY <1>1 DEF ShellInit
  <1>3. /\ r \in Node /\ r.type = "folder" /\ r.parent = NoNode
        /\ r.children = NoNode /\ r.next = NoNode
    <2>1. r = [[[Freed EXCEPT !.type = "folder"] EXCEPT !.name = NoName] EXCEPT !.parent = NoNode]
      BY <1>1 DEF vfs_create_node
    <2>2. Freed \in Node
      BY FreedIs
    <2>3. r \in Node
      BY <2>1, <2>2 DEF Node
    <2>4. QED
      BY <2>1, <2>3, FieldsOfFreed DEF Freed
  <1>4. Root \in Nodes
    BY VfsAssumption
  <1>5. DOMAIN node = Nodes /\ node[Root] = r /\ \A n \in Nodes : n # Root => node[n] = Freed
    BY <1>2, <1>4
  <1>6. node \in [Nodes -> Node]
    <2>1. node = [n \in Nodes |-> node[n]]
      BY <1>2, <1>5
    <2>2. \A n \in Nodes : node[n] \in Node
      BY <1>3, <1>5, FreedIs
    <2>3. QED
      BY <2>1, <2>2
  <1>7. AllWhole(node)
    BY <1>1, <1>5, FreedWhole DEF AllWhole
  <1>8. PICK K : K = [p \in Nodes |-> <<>>]
    OBVIOUS
  <1>9. Held(node) = {Root}
    BY <1>3, <1>4, <1>5 DEF Held, Freed
  <1>10. TreeOf(node, K, {Root})
    <2>1. ASSUME NEW p \in Nodes PROVE ListOf(node, p, K[p]) /\ K[p] = <<>>
      <3>1. K[p] = <<>> /\ node[p].children = NoNode
        BY <1>3, <1>5, <1>8 DEF Freed
      <3>2. QED
        BY <3>1 DEF ListOf
    <2>2. \A n \in Held(node) : Placed(node, K, {Root}, n)
      BY <1>9, <2>1 DEF Placed, In
    <2>3. Grounded(node, {Root})
      BY <1>9 DEF Grounded
    <2>4. QED
      BY <1>6, <1>9, <2>1, <2>2, <2>3 DEF TreeOf
  <1>11. Ground(node)
    BY <1>3, <1>5, <1>7, <1>10 DEF Ground, Grows
  <1>12. g_mounts = <<>> /\ pwd = <<>> /\ op = Idle
    BY DEF ShellInit
  <1>13. pwd \in Seq(Names) /\ Len(pwd) <= Cardinality(Nodes)
    BY <1>12, SizeIs
  <1>14. QED
    BY <1>11, <1>12, <1>13 DEF ShellSound, Busy

LEMMA ShellStays == ShellSpec => []ShellSound(node, g_mounts, pwd, op)
  <1>1. ShellInit => ShellSound(node, g_mounts, pwd, op)
    BY ShellStarts
  <1>2. ShellSound(node, g_mounts, pwd, op) /\ [ShellNext]_shellVars => ShellSound(node, g_mounts, pwd, op)'
    BY ShellSteps DEF ShellStep
  <1>3. QED
    BY <1>1, <1>2, PTL DEF ShellSpec


-----------------------------------------------------------------------------
(* What the shell promises.                                                *)

LEMMA TypesFollow == ShellSound(node, g_mounts, pwd, op) => ShellTypeOK
  <1> SUFFICES ASSUME ShellSound(node, g_mounts, pwd, op) PROVE ShellTypeOK
    OBVIOUS
  <1>1. \A n \in Nodes : node[n] \in Node
    BY DEF ShellSound, Ground, Grows, TreeOf
  <1>2. pwd \in BoundedSeq(Names, Cardinality(Nodes))
    <2>1. PICK m \in Nat : m = Len(pwd) /\ m <= Cardinality(Nodes) /\ pwd \in [1 .. m -> Names]
      BY DEF ShellSound
    <2>2. m \in 0 .. Cardinality(Nodes)
      BY <2>1, SizeIs
    <2>3. QED
      BY <2>1, <2>2 DEF BoundedSeq, SeqOf
  <1>3. Busy(node, op)
    BY DEF ShellSound
  <1>4. op.kind \in {"idle", "print", "edit", "fault"}
    BY <1>3, KindIs
  <1>5. op.kind \in {"print", "edit"} => op.file \in Live
    <2>1. op.kind \in {"print", "edit"} => op.file \in Held(node)
      BY <1>3, KindIs DEF Printing, Editing
    <2>2. QED
      BY <2>1 DEF Held, Live
  <1>6. QED
    BY <1>1, <1>2, <1>4, <1>5 DEF ShellTypeOK

LEMMA ShowsFollows == ShellSound(node, g_mounts, pwd, op) => TruncateShows
  <1> SUFFICES ASSUME ShellSound(node, g_mounts, pwd, op),
                      op.kind = "print", op.mode = "truncate", node[op.file].type = "file",
                      op.said # <<>> \/ op.left = <<>>
               PROVE  Shown(node[op.file].data) = Shown(op.said)
    BY DEF TruncateShows
  <1>1. Printing(node, op)
    BY KindIs DEF ShellSound
  <1>2. Covers(node[op.file].data, op.said) /\ op.said \in Seq(Said)
    BY <1>1 DEF Printing
  <1>3. node[op.file].data \in Seq(Said)
    BY <1>1 DEF Printing, ShellSound, Ground, AllWhole, Whole, Held, Said
  <1>4. QED
    BY <1>2, <1>3, ShownCovered

LEMMA KeepsFollows == ShellSound(node, g_mounts, pwd, op) => AppendKeeps
  <1> SUFFICES ASSUME ShellSound(node, g_mounts, pwd, op),
                      op.kind = "print", node[op.file].type = "file", op.mode = "append"
               PROVE  node[op.file].data = op.old \o op.said
    BY DEF AppendKeeps
  <1>1. Printing(node, op)
    BY KindIs DEF ShellSound
  <1>2. QED
    BY <1>1 DEF Printing

LEMMA SavedStep ==
  ASSUME ShellSound(node, g_mounts, pwd, op), save, node[op.file].type = "file"
  PROVE  Shown(node'[op.file].data) = op.buffer
  <1>1. Editing(node, op)
    BY KindIs DEF ShellSound, save
  <1>2. Ground(node')  /\ WriteIs(node[op.file], node'[op.file], 0, op.buffer)
    BY <1>1, EditorWrites DEF ShellSound
  <1>3. PICK q : q = node'[op.file] /\ Whole(q)
    BY <1>2 DEF WriteIs
  <1>4. PICK buffer \in Seq(Bytes), M \in Nat : buffer = op.buffer /\ M = Len(buffer)
    BY <1>1 DEF Editing
  <1>5. PICK data \in Seq(Said), N \in Nat : data = q.data /\ N = Len(data) /\ N = q.size
    BY <1>3 DEF Whole, Said
  <1>6. /\ M <= N /\ \A i \in 1 .. M : data[i] = buffer[i]
        /\ \A i \in M + 1 .. N : data[i] = 0
    <2>1. /\ 0 + M <= N /\ \A i \in 1 .. M : data[0 + i] = buffer[i]
          /\ \A i \in 0 + M + 1 .. N : data[i] = 0
      BY <1>2, <1>3, <1>4, <1>5 DEF WriteIs
    <2>2. \A i \in 1 .. M : 0 + i = i
      OBVIOUS
    <2>3. 0 + M = M
      OBVIOUS
    <2>4. QED
      BY <2>1, <2>2, <2>3
  <1>7. buffer \in Seq(Said) /\ \A i \in 1 .. M : buffer[i] # 0
    BY <1>4, VfsAssumption DEF Said
  <1>8. Covers(data, buffer)
    BY <1>4, <1>5, <1>6 DEF Covers
  <1>9. Shown(data) = Shown(buffer)
    BY <1>7, <1>8, ShownCovered
  <1>10. Shown(buffer) = buffer
    BY <1>4, <1>7, ShownIs
  <1>11. QED
    BY <1>3, <1>4, <1>5, <1>9, <1>10

(* The working directory of a state that is left.                          *)
LEMMA PwdStep ==
  ASSUME ShellSound(node, g_mounts, pwd, op), ShellStep
  PROVE  LET n == Lookup(pwd)
             now == vfs_traverse_path(node', g_mounts', pwd')
         IN IsFolder(n) => (now # NoNode /\ node'[now].type = "folder") \/ n \notin Live'
  <1>1. PICK n : n = Lookup(pwd)
    OBVIOUS
  <1>2. PICK now : now = vfs_traverse_path(node', g_mounts', pwd')
    OBVIOUS
  <1>3. SUFFICES ASSUME n # NoNode, node[n].type = "folder", n \in Live'
                 PROVE  now # NoNode /\ node'[now].type = "folder"
    BY <1>1, <1>2, Zenon DEF IsFolder
  <1>4. g_mounts = <<>> /\ g_mounts' = <<>> /\ pwd \in Seq(Names) /\ Steady(node, node')
    BY DEF ShellSound, ShellStep, ShellKeeps
  <1>5. CASE pwd' = pwd
    <2>1. n = vfs_traverse_path(node, <<>>, pwd) /\ now = vfs_traverse_path(node', <<>>, pwd)
      BY <1>1, <1>2, <1>4, <1>5 DEF Lookup
    <2>2. n \in Held(node')
      BY <1>3 DEF Live, Held
    <2>3. now = n /\ node'[n].type = node[n].type
      BY <1>3, <1>4, <2>1, <2>2 DEF Steady
    <2>4. QED
      BY <1>3, <2>3
  <1>6. CASE pwd' # pwd
    <2>1. now = vfs_traverse_path(node', <<>>, pwd')
      BY <1>2, <1>4
    <2>2. QED
      BY <1>6, <2>1 DEF ShellStep, ShellKeeps
  <1>7. QED
    BY <1>5, <1>6

(* pwd is spelled without . and .. and no longer than there are nodes,     *)
(* and the file of the command in progress is there, for any nodes, names, *)
(* commands and sizes (common.c, resolve_path and handle_redirection).     *)
THEOREM ShellKeepsTypes == ShellSpec => []ShellTypeOK
  BY ShellStays, TypesFollow, PTL

(* A file that > writes shows what was printed and nothing of what was in  *)
(* it before, after each write of any command (common.c,                   *)
(* handle_redirection, and ramfs_write, which zeroes the rest).            *)
THEOREM TruncatedFilesShow == ShellSpec => []TruncateShows
  BY ShellStays, ShowsFollows, PTL

(* A file that >> writes is what was in it followed by what was printed,   *)
(* after each write of any command, also of one that reads the file.       *)
THEOREM AppendedFilesKeep == ShellSpec => []AppendKeeps
  BY ShellStays, KeepsFollows, PTL

(* A file that the editor saves shows what was typed (edit.c, the tab      *)
(* key), whatever was in it before.                                        *)
THEOREM SavedFilesShow == ShellSpec => SavedIsTyped
  <1>1. ShellSound(node, g_mounts, pwd, op)
          => [save /\ node[op.file].type = "file" => Shown(node'[op.file].data) = op.buffer]_shellVars
    BY SavedStep
  <1>2. QED
    BY <1>1, ShellStays, PTL DEF SavedIsTyped

(* The working directory is a folder until that folder is removed, through *)
(* every command of the shell (common.c, cd, rm and rmdir).                *)
THEOREM WorkingDirectoryStays == ShellSpec => PwdStays
  <1>1. ShellSound(node, g_mounts, pwd, op) /\ [ShellNext]_shellVars
          => [LET n == Lookup(pwd)
                  now == vfs_traverse_path(node', g_mounts', pwd')
              IN IsFolder(n) => (now # NoNode /\ node'[now].type = "folder") \/ n \notin Live']_shellVars
    BY ShellSteps, PwdStep
  <1>2. QED
    BY <1>1, ShellStays, PTL DEF PwdStays, ShellSpec
=============================================================================
