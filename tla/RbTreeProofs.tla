---------------------------- MODULE RbTreeProofs ----------------------------
(***************************************************************************)
(* The red-black tree for every set of keys and any number of nodes: its   *)
(* links always form one tree of the allocated nodes, a search finds every *)
(* key, the tree implements a bag of keys, and after every operation it is *)
(* a red-black tree, whose fix-ups are sure to end.                        *)
(***************************************************************************)
EXTENDS RbTree, NatInduction, TLAPS

-----------------------------------------------------------------------------
(* Soundness of a tree.                                                    *)

MaybeNode == Nodes \cup {nullptr}

Sides == {"left", "right"}

NodeType == [color : {"RED", "BLACK"}, key : Keys,
             left : MaybeNode, right : MaybeNode, parent : MaybeNode]

LiveOf(t) == {n \in Nodes : t.node[n] # Freed}

(* Going up from a node ends: no set of nodes holds all their parents.     *)
Acyclic(V, up) == \A S \in SUBSET V : S # {} => \E n \in S : up[n] \notin S

Ups(t) == [n \in Nodes |-> t.node[n].parent]

Typed(t) ==
  /\ t = [root |-> t.root, node |-> t.node]
  /\ t.root \in MaybeNode
  /\ t.node \in [Nodes -> NodeType \cup {Freed}]

Down(t) ==
  \A n \in LiveOf(t) : \A side \in Sides :
    t.node[n][side] # nullptr =>
      /\ t.node[n][side] \in LiveOf(t)
      /\ t.node[t.node[n][side]].parent = n
      /\ t.node[n][side] # t.node[n][Other(side)]

Up(t) ==
  \A n \in LiveOf(t) :
    IF n = t.root THEN t.node[n].parent = nullptr
    ELSE /\ t.node[n].parent \in LiveOf(t)
         /\ \E side \in Sides : t.node[t.node[n].parent][side] = n

Sound(t) ==
  /\ Typed(t)
  /\ t.root \in LiveOf(t) \cup {nullptr}
  /\ Down(t) /\ Up(t)
  /\ Acyclic(LiveOf(t), Ups(t))

(* Each node has a set of keys that may stand below it: on either side     *)
(* those on that side of its own.  This is what a search relies on.        *)
OnSide(side, k, key) == IF side = "left" THEN k <= key ELSE key <= k

Bounds(t, B) ==
  \A n \in LiveOf(t) :
    /\ B[n] \in SUBSET Keys /\ t.node[n].key \in B[n]
    /\ \A side \in Sides : t.node[n][side] # nullptr =>
         \A k \in B[t.node[n][side]] : k \in B[n] /\ OnSide(side, k, t.node[n].key)

Ordered(t) == \E B : Bounds(t, B)

LEMMA Others ==
  ASSUME NEW side \in Sides
  PROVE  Other(side) \in Sides /\ Other(side) # side /\ Other(Other(side)) = side
         /\ \A s \in Sides : s = side \/ s = Other(side)
  BY DEF Sides, Other

LEMMA NodeFields ==
  ASSUME NEW t, Typed(t), NEW n \in LiveOf(t)
  PROVE  /\ t.node[n] \in NodeType
         /\ n \in Nodes /\ n # nullptr
         /\ \A side \in Sides : t.node[n][side] \in MaybeNode
         /\ t.node[n].parent \in MaybeNode /\ t.node[n].key \in Keys
         /\ t.node[n].color \in {"RED", "BLACK"}
  <1>1. t.node[n] \in NodeType /\ n \in Nodes
    BY DEF LiveOf, Typed
  <1>2. n # nullptr
    BY <1>1, RbTreeAssumption
  <1>3. \A side \in Sides : t.node[n][side] \in MaybeNode
    BY <1>1 DEF Sides, NodeType
  <1>4. QED
    BY <1>1, <1>2, <1>3 DEF NodeType

LEMMA ChildLinks ==
  ASSUME NEW t, Down(t), NEW n \in LiveOf(t), NEW s \in Sides,
         NEW c, c = t.node[n][s], c # nullptr
  PROVE  c \in LiveOf(t) /\ t.node[c].parent = n /\ c # t.node[n][Other(s)]
  BY DEF Down

LEMMA SetSide ==
  ASSUME NEW r \in NodeType, NEW side \in Sides, NEW c \in MaybeNode
  PROVE  /\ [r EXCEPT ![side] = c] \in NodeType
         /\ [r EXCEPT ![side] = c][side] = c
         /\ [r EXCEPT ![side] = c][Other(side)] = r[Other(side)]
         /\ [r EXCEPT ![side] = c].parent = r.parent
         /\ [r EXCEPT ![side] = c].key = r.key
         /\ [r EXCEPT ![side] = c].color = r.color
  BY DEF NodeType, Sides, Other

(* What a change of colours leaves alone.                                  *)
SameLinks(t, u) ==
  /\ Typed(u) /\ u.root = t.root /\ LiveOf(u) = LiveOf(t)
  /\ \A n \in LiveOf(t) :
       /\ \A side \in Sides : u.node[n][side] = t.node[n][side]
       /\ u.node[n].parent = t.node[n].parent /\ u.node[n].key = t.node[n].key

LEMMA SameLinksSound ==
  ASSUME NEW t, Sound(t), NEW u, SameLinks(t, u)
  PROVE  Sound(u)
  <1>1. Typed(u) /\ u.root \in LiveOf(u) \cup {nullptr}
    BY DEF Sound, SameLinks
  <1>2. Down(u)
    <2>1. Down(t)
      BY DEF Sound
    <2>2. QED
      BY <2>1, Others DEF Down, SameLinks
  <1>3. Up(u)
    <2>1. Up(t)
      BY DEF Sound
    <2>2. QED
      BY <2>1 DEF Up, SameLinks
  <1>4. Acyclic(LiveOf(u), Ups(u))
    <2>1. Acyclic(LiveOf(t), Ups(t))
      BY DEF Sound
    <2>2. \A n \in LiveOf(t) : Ups(u)[n] = Ups(t)[n]
      BY DEF Ups, SameLinks, LiveOf
    <2>3. QED
      BY <2>1, <2>2 DEF Acyclic, SameLinks
  <1>5. QED
    BY <1>1, <1>2, <1>3, <1>4 DEF Sound

LEMMA ColorKeeps ==
  ASSUME NEW t, Typed(t), NEW m \in LiveOf(t), NEW c \in {"RED", "BLACK"}
  PROVE  SameLinks(t, Color(t, m, c))
  <1>1. PICK u : u = Color(t, m, c)
    OBVIOUS
  <1>2. PICK r : r = [t.node[m] EXCEPT !.color = c]
    OBVIOUS
  <1>3. u = [t EXCEPT !.node = [@ EXCEPT ![m] = r]]
    BY <1>1, <1>2 DEF Color
  <1>4. u.root = t.root /\ u.node = [t.node EXCEPT ![m] = r] /\ u = [root |-> u.root, node |-> u.node]
    BY <1>3 DEF Typed
  <1>5. /\ r \in NodeType /\ r # Freed
        /\ r.parent = t.node[m].parent /\ r.key = t.node[m].key
        /\ \A side \in Sides : r[side] = t.node[m][side]
    <2>1. t.node[m] \in NodeType
      BY NodeFields
    <2>2. QED
      BY <1>2, <2>1 DEF NodeType, Freed, Sides
  <1>6. /\ m \in Nodes /\ t.node \in [Nodes -> NodeType \cup {Freed}]
        /\ u.node[m] = r
        /\ \A n \in Nodes \ {m} : u.node[n] = t.node[n]
    BY <1>4 DEF Typed, LiveOf
  <1>7. Typed(u)
    BY <1>4, <1>5, <1>6 DEF Typed
  <1>8. LiveOf(u) = LiveOf(t)
    BY <1>5, <1>6 DEF LiveOf
  <1>9. \A n \in LiveOf(t) :
          /\ \A side \in Sides : u.node[n][side] = t.node[n][side]
          /\ u.node[n].parent = t.node[n].parent /\ u.node[n].key = t.node[n].key
    BY <1>5, <1>6 DEF LiveOf
  <1>10. QED
    BY <1>1, <1>4, <1>7, <1>8, <1>9 DEF SameLinks

-----------------------------------------------------------------------------
(* Rotations.                                                              *)

(* A set that holds the parents of its nodes is empty.                     *)
LEMMA NoCycle ==
  ASSUME NEW t, Sound(t), NEW S, S \subseteq LiveOf(t),
         \A n \in S : t.node[n].parent \in S
  PROVE  S = {}
  <1>1. Acyclic(LiveOf(t), Ups(t))
    BY DEF Sound
  <1>2. \A n \in S : Ups(t)[n] = t.node[n].parent
    BY DEF Ups, LiveOf
  <1>3. QED
    BY <1>1, <1>2 DEF Acyclic

LEMMA NotOwnParent ==
  ASSUME NEW t, Sound(t), NEW n \in LiveOf(t)
  PROVE  t.node[n].parent # n
  <1> SUFFICES ASSUME t.node[n].parent = n PROVE FALSE
    OBVIOUS
  <1>1. PICK T : T = {n}
    OBVIOUS
  <1>2. T = {}
    BY <1>1, NoCycle
  <1>3. QED
    BY <1>1, <1>2

(* What leads to a node is the side of its parent it is on.                *)
LEMMA LeadsTo ==
  ASSUME NEW t, Sound(t), NEW n \in LiveOf(t), n # t.root
  PROVE  /\ t.node[n].parent \in LiveOf(t)
         /\ SideOf(t, n) \in Sides
         /\ t.node[t.node[n].parent][SideOf(t, n)] = n
         /\ t.node[t.node[n].parent][Other(SideOf(t, n))] # n
  <1>1. /\ t.node[n].parent \in LiveOf(t)
        /\ \E side \in Sides : t.node[t.node[n].parent][side] = n
    BY DEF Sound, Up
  <1>2. /\ SideOf(t, n) \in Sides
        /\ t.node[t.node[n].parent][SideOf(t, n)] = n
    BY <1>1 DEF SideOf, Sides
  <1>3. t.node[t.node[n].parent][SideOf(t, n)] # t.node[t.node[n].parent][Other(SideOf(t, n))]
    <2>1. Down(t) /\ n # nullptr
      BY NodeFields DEF Sound
    <2>2. QED
      BY <1>1, <1>2, <2>1 DEF Down
  <1>4. QED
    BY <1>1, <1>2, <1>3

LEMMA ReplaceNode ==
  ASSUME NEW t, Sound(t), NEW n \in LiveOf(t), NEW m \in MaybeNode
  PROVE  /\ Replace(t, n, m) = [root |-> IF n = t.root THEN m ELSE t.root,
                                node |-> Replace(t, n, m).node]
         /\ n = t.root => Replace(t, n, m).node = t.node
         /\ n # t.root =>
              Replace(t, n, m).node =
                [t.node EXCEPT ![t.node[n].parent] =
                                 [t.node[t.node[n].parent] EXCEPT ![SideOf(t, n)] = m]]
  <1>1. t = [root |-> t.root, node |-> t.node]
    BY DEF Sound, Typed
  <1>2. CASE n = t.root
    <2>1. t.node[n].parent = nullptr
      BY <1>2 DEF Sound, Up
    <2>2. Replace(t, n, m) = [t EXCEPT !.root = m]
      BY <2>1 DEF Replace
    <2>3. QED
      BY <1>1, <1>2, <2>2
  <1>3. CASE n # t.root
    <2>1. t.node[n].parent # nullptr
      BY <1>3, LeadsTo, NodeFields DEF Sound
    <2>2. PICK p, s : p = t.node[n].parent /\ s = SideOf(t, n)
      OBVIOUS
    <2>3. Replace(t, n, m) = [t EXCEPT !.node[p][s] = m]
      BY <2>1, <2>2 DEF Replace
    <2>4. Replace(t, n, m) = [t EXCEPT !.node = [t.node EXCEPT ![p] = [t.node[p] EXCEPT ![s] = m]]]
      BY <2>3
    <2>5. QED
      BY <1>1, <1>3, <2>2, <2>4
  <1>4. QED
    BY <1>2, <1>3

(* A child knows which one it is.                                          *)
LEMMA ChildIs ==
  ASSUME NEW t, Sound(t), NEW p \in LiveOf(t), NEW side \in Sides,
         NEW n, n = t.node[p][side], n # nullptr
  PROVE  n \in LiveOf(t) /\ t.node[n].parent = p /\ n # t.root /\ SideOf(t, n) = side
  <1>1. n \in LiveOf(t) /\ t.node[n].parent = p /\ n # t.node[p][Other(side)]
    BY DEF Sound, Down
  <1>2. n # t.root
    <2>1. nullptr \notin LiveOf(t)
      BY RbTreeAssumption DEF LiveOf
    <2>2. QED
      BY <1>1, <2>1 DEF Sound, Up
  <1>3. SideOf(t, n) = side
    BY <1>1 DEF SideOf, Sides, Other
  <1>4. QED
    BY <1>1, <1>2, <1>3

(* The nodes that a rotation at x moves differ from each other.            *)
Parted(t, x, y, b, p) ==
  /\ y \in LiveOf(t) /\ t.node[y].parent = x /\ y # x /\ y # p /\ p # x
  /\ b # nullptr => b \in LiveOf(t) /\ t.node[b].parent = y /\ b \notin {x, y, p}
  /\ p # nullptr => p \in LiveOf(t)
  /\ x = t.root <=> p = nullptr
  /\ y # t.root

LEMMA Apart ==
  ASSUME NEW t, Sound(t), NEW x \in LiveOf(t), NEW side \in Sides,
         NEW y, y = t.node[x][Other(side)], y # nullptr,
         NEW b, b = t.node[y][side], NEW p, p = t.node[x].parent
  PROVE  Parted(t, x, y, b, p)
  <1>1. y \in LiveOf(t) /\ t.node[y].parent = x
    BY Others DEF Sound, Down
  <1>2. y # x /\ p # x
    <2>1. t.node[x].parent # x
      <3>1. t.node[x].parent = x => {x} = {}
        BY NoCycle
      <3>2. QED
        BY <3>1
    <2>2. QED
      BY <1>1, <2>1
  <1>3. y # p
    <2> SUFFICES ASSUME y = p PROVE FALSE
      OBVIOUS
    <2>1. PICK S : S = {x, y}
      OBVIOUS
    <2>2. S \subseteq LiveOf(t) /\ \A n \in S : t.node[n].parent \in S
      BY <1>1, <2>1
    <2>3. S = {}
      BY <2>2, NoCycle
    <2>4. QED
      BY <2>1, <2>3
  <1>4. ASSUME b # nullptr PROVE b \in LiveOf(t) /\ t.node[b].parent = y /\ b \notin {x, y, p}
    <2>1. b \in LiveOf(t) /\ t.node[b].parent = y
      BY <1>1, <1>4 DEF Sound, Down
    <2>2. b # x
      BY <1>3, <2>1
    <2>3. b # y
      BY <1>1, <1>2, <2>1
    <2>4. b # p
      <3> SUFFICES ASSUME b = p PROVE FALSE
        OBVIOUS
      <3>1. PICK S : S = {b, x, y}
        OBVIOUS
      <3>2. S \subseteq LiveOf(t) /\ \A n \in S : t.node[n].parent \in S
        BY <1>1, <2>1, <3>1
      <3>3. S = {}
        BY <3>2, NoCycle
      <3>4. QED
        BY <3>1, <3>3
    <2>5. QED
      BY <2>1, <2>2, <2>3, <2>4
  <1>5. x \in Nodes /\ nullptr \notin Nodes
    BY RbTreeAssumption DEF LiveOf
  <1>6. /\ p # nullptr => p \in LiveOf(t)
        /\ (x = t.root) <=> (p = nullptr)
    <2>1. x = t.root => p = nullptr
      BY DEF Sound, Up
    <2>2. x # t.root => p \in LiveOf(t)
      BY DEF Sound, Up
    <2>3. QED
      BY <1>5, <2>1, <2>2 DEF LiveOf
  <1>7. y # t.root
    <2>1. y = t.root => t.node[y].parent = nullptr
      BY <1>1 DEF Sound, Up
    <2>2. QED
      BY <1>1, <1>5, <2>1
  <1>8. QED
    BY <1>1, <1>2, <1>3, <1>4, <1>6, <1>7 DEF Parted

(* Every node after a rotation.                                            *)
RotatedNodes(t, u, x, side, y, b, p) ==
  /\ u = [root |-> u.root, node |-> u.node]
  /\ u.root = IF p = nullptr THEN y ELSE t.root
  /\ u.node = [n \in Nodes |-> u.node[n]]
  /\ u.node[x] = [[t.node[x] EXCEPT ![Other(side)] = b] EXCEPT !.parent = y]
  /\ u.node[y] = [[t.node[y] EXCEPT ![side] = x] EXCEPT !.parent = p]
  /\ p # nullptr => u.node[p] = [t.node[p] EXCEPT ![SideOf(t, x)] = y]
  /\ b # nullptr => u.node[b] = [t.node[b] EXCEPT !.parent = x]
  /\ \A n \in Nodes \ {x, y, p, b} : u.node[n] = t.node[n]

LEMMA RotateNodes ==
  ASSUME NEW t, Sound(t), NEW x \in LiveOf(t), NEW side \in Sides,
         NEW y, y = t.node[x][Other(side)], y # nullptr,
         NEW b, b = t.node[y][side], NEW p, p = t.node[x].parent,
         NEW u, u = Rotate(t, x, side)
  PROVE  RotatedNodes(t, u, x, side, y, b, p)
  <1>1. PICK r : r = Replace(t, x, y)
    OBVIOUS
  <1>2. PICK f0 \in [Nodes -> NodeType \cup {Freed}] : f0 = t.node
    BY DEF Sound, Typed
  <1>3. y \in MaybeNode /\ y \in Nodes /\ x \in Nodes
    BY Apart DEF Parted, LiveOf, MaybeNode
  <1>4. PICK s0 : s0 = SideOf(t, x)
    OBVIOUS
  <1>5. /\ r = [root |-> IF p = nullptr THEN y ELSE t.root, node |-> r.node]
        /\ r.node = IF p = nullptr THEN f0 ELSE [f0 EXCEPT ![p] = [f0[p] EXCEPT ![s0] = y]]
    BY <1>1, <1>2, <1>3, <1>4, ReplaceNode, Apart DEF Parted
  <1>6. PICK f1 : f1 = r.node
    OBVIOUS
  <1>7. PICK v : v = SetParent(r, b, x)
    OBVIOUS
  <1>8. PICK f2 : f2 = IF b = nullptr THEN f1 ELSE [f1 EXCEPT ![b] = [f1[b] EXCEPT !.parent = x]]
    OBVIOUS
  <1>9. v = [root |-> r.root, node |-> f2]
    <2>1. CASE b = nullptr
      BY <1>5, <1>6, <1>7, <1>8, <2>1 DEF SetParent
    <2>2. CASE b # nullptr
      BY <1>5, <1>6, <1>7, <1>8, <2>2 DEF SetParent
    <2>3. QED
      BY <2>1, <2>2
  <1>10. u = [v EXCEPT !.node[x] = [@ EXCEPT ![Other(side)] = b, !.parent = y],
                       !.node[y] = [@ EXCEPT ![side] = x, !.parent = p]]
    <2>1. u = Swung(v, x, y, side, b, p)
      BY <1>1, <1>7, Zenon DEF Rotate
    <2>2. QED
      BY <2>1, Zenon DEF Swung
  <1>11. PICK f3 : f3 = [f2 EXCEPT ![x] = [[f2[x] EXCEPT ![Other(side)] = b] EXCEPT !.parent = y]]
    OBVIOUS
  <1>12. p # nullptr => p \in Nodes
    BY Apart DEF Parted, LiveOf
  <1>13. b # nullptr => b \in Nodes
    BY Apart DEF Parted, LiveOf
  <1>14. y # x /\ y # p /\ p # x /\ (b # nullptr => b \notin {x, y, p})
    BY Apart DEF Parted
  <1>15. PICK rp : rp = [f0[p] EXCEPT ![s0] = y]
    OBVIOUS
  <1>16. /\ DOMAIN f1 = Nodes
         /\ p # nullptr => f1[p] = rp
         /\ \A n \in Nodes \ {p} : f1[n] = f0[n]
    BY <1>2, <1>5, <1>6, <1>12, <1>15
  <1>17. /\ DOMAIN f2 = Nodes
         /\ p # nullptr => f2[p] = rp
         /\ b # nullptr => f2[b] = [f0[b] EXCEPT !.parent = x]
         /\ \A n \in Nodes \ {p, b} : f2[n] = f0[n]
    BY <1>8, <1>12, <1>13, <1>14, <1>16
  <1>18. /\ DOMAIN f3 = Nodes
         /\ f3[x] = [[f0[x] EXCEPT ![Other(side)] = b] EXCEPT !.parent = y]
         /\ \A n \in Nodes \ {x} : f3[n] = f2[n]
    BY <1>3, <1>11, <1>14, <1>15, <1>17, RbTreeAssumption
  <1>19. PICK f4 : f4 = [f3 EXCEPT ![y] = [[f3[y] EXCEPT ![side] = x] EXCEPT !.parent = p]]
    OBVIOUS
  <1>20. u = [root |-> r.root, node |-> f4]
    <2>1. PICK o : o = Other(side)
      OBVIOUS
    <2>2. u = [[v EXCEPT !.node[x] = [[@ EXCEPT ![o] = b] EXCEPT !.parent = y]]
                 EXCEPT !.node[y] = [[v.node[y] EXCEPT ![side] = x] EXCEPT !.parent = p]]
      BY <1>10, <2>1
    <2>3. PICK w : w = [v EXCEPT !.node[x] = [[@ EXCEPT ![o] = b] EXCEPT !.parent = y]]
      OBVIOUS
    <2>4. w = [root |-> r.root, node |-> f3]
      BY <1>9, <1>11, <2>1, <2>3
    <2>5. u = [w EXCEPT !.node[y] = [[f2[y] EXCEPT ![side] = x] EXCEPT !.parent = p]]
      BY <1>9, <2>2, <2>3
    <2>6. f2[y] = f3[y]
      BY <1>3, <1>14, <1>18
    <2>7. QED
      BY <1>19, <2>4, <2>5, <2>6
  <1>21. /\ DOMAIN f4 = Nodes
         /\ f4[y] = [[f0[y] EXCEPT ![side] = x] EXCEPT !.parent = p]
         /\ \A n \in Nodes \ {y} : f4[n] = f3[n]
    BY <1>3, <1>19, <1>14, <1>17, <1>18, ZenonT(60)
  <1>22. u.node = f4 /\ u.root = r.root /\ u = [root |-> u.root, node |-> u.node]
    BY <1>20
  <1>23. u.root = IF p = nullptr THEN y ELSE t.root
    BY <1>5, <1>22
  <1>24. f4[x] = f3[x] /\ f4[y] = [[f0[y] EXCEPT ![side] = x] EXCEPT !.parent = p]
    BY <1>3, <1>14, <1>21
  <1>25. p # nullptr => f4[p] = rp
    BY <1>12, <1>14, <1>17, <1>18, <1>21, ZenonT(60)
  <1>26. ASSUME b # nullptr PROVE f4[b] = [f0[b] EXCEPT !.parent = x]
    <2>1. b \in Nodes \ {y} /\ b \in Nodes \ {x}
      BY <1>13, <1>14, <1>26
    <2>2. f4[b] = f3[b]
      BY <1>21, <2>1
    <2>3. f3[b] = f2[b]
      BY <1>18, <2>1
    <2>4. QED
      BY <1>17, <1>26, <2>2, <2>3
  <1>27. \A n \in Nodes \ {x, y, p, b} : f4[n] = f0[n]
    BY <1>17, <1>18, <1>21
  <1>28. f4 = [n \in Nodes |-> f4[n]]
    BY <1>18, <1>19, <1>21
  <1>29. QED
    BY <1>2, <1>4, <1>15, <1>18, <1>21, <1>22, <1>23, <1>24, <1>25, <1>26, <1>27, <1>28
    DEF RotatedNodes

LEMMA SetUp ==
  ASSUME NEW r \in NodeType, NEW q \in MaybeNode
  PROVE  /\ [r EXCEPT !.parent = q] \in NodeType
         /\ [r EXCEPT !.parent = q].parent = q
         /\ [r EXCEPT !.parent = q].key = r.key
         /\ [r EXCEPT !.parent = q].color = r.color
         /\ \A s \in Sides : [r EXCEPT !.parent = q][s] = r[s]
  BY DEF NodeType, Sides

(* A node with a new parent and a new child on a side.                     *)
Relinked(r, old, side, c, q) ==
  /\ r \in NodeType /\ r.key = old.key /\ r.color = old.color /\ r.parent = q
  /\ r[side] = c /\ r[Other(side)] = old[Other(side)]

LEMMA SetBoth ==
  ASSUME NEW r \in NodeType, NEW side \in Sides, NEW c \in MaybeNode, NEW q \in MaybeNode
  PROVE  Relinked([[r EXCEPT ![side] = c] EXCEPT !.parent = q], r, side, c, q)
  <1>1. PICK v : v = [r EXCEPT ![side] = c]
    OBVIOUS
  <1>2. /\ v \in NodeType /\ v.key = r.key /\ v.color = r.color
        /\ v[side] = c /\ v[Other(side)] = r[Other(side)]
    BY <1>1, SetSide, ZenonT(60)
  <1>3. PICK w : w = [v EXCEPT !.parent = q]
    OBVIOUS
  <1>4. /\ w \in NodeType /\ w.key = v.key /\ w.color = v.color /\ w.parent = q
        /\ \A s \in Sides : w[s] = v[s]
    BY <1>2, <1>3, SetUp
  <1>5. Relinked(w, r, side, c, q)
    BY <1>2, <1>4, Others DEF Relinked
  <1>6. QED
    BY <1>1, <1>3, <1>5

(* y takes the place of x below p, x that of b below y, and b that of y    *)
(* below x.                                                                *)
Rewired(t, u, x, side, y, b, p) ==
  /\ Typed(u) /\ LiveOf(u) = LiveOf(t)
  /\ u.root = IF x = t.root THEN y ELSE t.root
  /\ \A n \in LiveOf(t) :
       /\ u.node[n].key = t.node[n].key
       /\ u.node[n].parent = IF n = x THEN y ELSE IF n = y THEN p
                             ELSE IF n = b THEN x ELSE t.node[n].parent
       /\ \A s \in Sides :
            u.node[n][s] = IF n = x /\ s = Other(side) THEN b
                           ELSE IF n = y /\ s = side THEN x
                           ELSE IF n = p /\ s = SideOf(t, x) THEN y ELSE t.node[n][s]

LEMMA RotateLinks ==
  ASSUME NEW t, Sound(t), NEW x \in LiveOf(t), NEW side \in Sides,
         NEW y, y = t.node[x][Other(side)], y # nullptr,
         NEW b, b = t.node[y][side], NEW p, p = t.node[x].parent,
         NEW u, u = Rotate(t, x, side)
  PROVE  Rewired(t, u, x, side, y, b, p)
  <1>0. RotatedNodes(t, u, x, side, y, b, p)
    BY RotateNodes
  <1>1. /\ u = [root |-> u.root, node |-> u.node]
        /\ u.root = IF p = nullptr THEN y ELSE t.root
        /\ u.node = [n \in Nodes |-> u.node[n]]
        /\ \A n \in Nodes \ {x, y, p, b} : u.node[n] = t.node[n]
    BY <1>0 DEF RotatedNodes
  <1>2. /\ y \in LiveOf(t) /\ y # x /\ y # p /\ p # x /\ (p # nullptr => p \in LiveOf(t))
        /\ b # nullptr => b \in LiveOf(t) /\ b \notin {x, y, p}
        /\ x = t.root <=> p = nullptr
    BY Apart DEF Parted
  <1>3. /\ \A n \in LiveOf(t) : t.node[n] \in NodeType /\ n \in Nodes /\ n # nullptr
        /\ x \in MaybeNode /\ y \in MaybeNode /\ b \in MaybeNode /\ p \in MaybeNode
        /\ Other(side) \in Sides /\ Other(Other(side)) = side
    BY <1>2, NodeFields, Others DEF Sound, MaybeNode
  <1>4. Relinked(u.node[x], t.node[x], Other(side), b, y)
    <2>1. PICK r \in NodeType : r = t.node[x]
      BY <1>3
    <2>2. u.node[x] = [[r EXCEPT ![Other(side)] = b] EXCEPT !.parent = y]
      BY <1>0, <2>1 DEF RotatedNodes
    <2>3. Relinked([[r EXCEPT ![Other(side)] = b] EXCEPT !.parent = y], r, Other(side), b, y)
      BY <1>3, SetBoth
    <2>4. QED
      BY <2>1, <2>2, <2>3
  <1>5. Relinked(u.node[y], t.node[y], side, x, p)
    <2>1. PICK r \in NodeType : r = t.node[y]
      BY <1>2, <1>3
    <2>2. u.node[y] = [[r EXCEPT ![side] = x] EXCEPT !.parent = p]
      BY <1>0, <2>1 DEF RotatedNodes
    <2>3. Relinked([[r EXCEPT ![side] = x] EXCEPT !.parent = p], r, side, x, p)
      BY <1>3, SetBoth
    <2>4. QED
      BY <2>1, <2>2, <2>3
  <1>6. PICK s0 : s0 = SideOf(t, x)
    OBVIOUS
  <1>7. ASSUME p # nullptr
        PROVE  /\ s0 \in Sides
               /\ Relinked(u.node[p], t.node[p], s0, y, t.node[p].parent)
    <2>1. s0 \in Sides
      BY <1>2, <1>6, <1>7, LeadsTo
    <2>2. u.node[p] = [t.node[p] EXCEPT ![s0] = y] /\ t.node[p] \in NodeType
      BY <1>0, <1>2, <1>3, <1>6, <1>7 DEF RotatedNodes
    <2>3. QED
      BY <1>3, <2>1, <2>2, SetSide DEF Relinked
  <1>8. ASSUME b # nullptr
        PROVE  /\ u.node[b] \in NodeType
               /\ u.node[b].key = t.node[b].key /\ u.node[b].parent = x
               /\ \A s \in Sides : u.node[b][s] = t.node[b][s]
    <2>1. PICK r \in NodeType : r = t.node[b]
      BY <1>2, <1>3, <1>8
    <2>2. u.node[b] = [r EXCEPT !.parent = x]
      BY <1>0, <1>8, <2>1 DEF RotatedNodes
    <2>3. PICK v : v = [r EXCEPT !.parent = x]
      OBVIOUS
    <2>4. /\ v \in NodeType /\ v.key = r.key /\ v.parent = x
          /\ \A s \in Sides : v[s] = r[s]
      BY <1>3, <2>3, SetUp
    <2>5. QED
      BY <2>1, <2>2, <2>3, <2>4
  <1>9. \A n \in LiveOf(t) : u.node[n] \in NodeType
    <2>1. ASSUME NEW n \in LiveOf(t), n \notin {x, y, p, b} PROVE u.node[n] \in NodeType
      BY <1>1, <1>3, <2>1
    <2>2. QED
      BY <1>3, <1>4, <1>5, <1>7, <1>8, <2>1 DEF Relinked
  <1>10. \A n \in Nodes \ LiveOf(t) : u.node[n] = Freed
    <2>1. ASSUME NEW n \in Nodes \ LiveOf(t) PROVE n \notin {x, y, p, b}
      BY <1>2, RbTreeAssumption
    <2>2. QED
      BY <1>1, <2>1 DEF LiveOf
  <1>11. \A r \in NodeType : r # Freed
    BY DEF NodeType, Freed
  <1>12. LiveOf(u) = LiveOf(t)
    BY <1>9, <1>10, <1>11 DEF LiveOf
  <1>13. Typed(u)
    <2>1. u.node \in [Nodes -> NodeType \cup {Freed}]
      <3>1. \A n \in Nodes : u.node[n] \in NodeType \cup {Freed}
        BY <1>9, <1>10
      <3>2. QED
        BY <1>1, <3>1
    <2>2. QED
      BY <1>1, <1>3, <2>1 DEF Typed, Sound
  <1>14. ASSUME NEW n \in LiveOf(t)
         PROVE  /\ u.node[n].key = t.node[n].key
                /\ u.node[n].parent = IF n = x THEN y ELSE IF n = y THEN p
                                      ELSE IF n = b THEN x ELSE t.node[n].parent
                /\ \A s \in Sides :
                     u.node[n][s] = IF n = x /\ s = Other(side) THEN b
                                    ELSE IF n = y /\ s = side THEN x
                                    ELSE IF n = p /\ s = s0 THEN y ELSE t.node[n][s]
    <2>0. n # nullptr /\ n \in Nodes
      BY <1>3
    <2>1. CASE n = x
      <3>1. \A s \in Sides : s = side \/ s = Other(side)
        BY Others
      <3>2. QED
        BY <1>2, <1>3, <1>4, <2>1, <3>1 DEF Relinked
    <2>2. CASE n = y
      <3>1. \A s \in Sides : s = side \/ s = Other(side)
        BY Others
      <3>2. QED
        BY <1>2, <1>3, <1>5, <2>2, <3>1 DEF Relinked
    <2>3. CASE n = p
      <3>1. \A s \in Sides : s = s0 \/ s = Other(s0)
        BY <1>7, <2>0, <2>3, Others
      <3>2. n # x /\ n # y /\ n # b
        BY <1>2, <2>0, <2>3
      <3>3. QED
        BY <1>7, <2>0, <2>3, <3>1, <3>2 DEF Relinked
    <2>4. CASE n = b
      BY <1>2, <1>8, <2>0, <2>4
    <2>5. CASE n \notin {x, y, p, b}
      BY <1>1, <2>0, <2>5
    <2>6. QED
      BY <2>1, <2>2, <2>3, <2>4, <2>5
  <1>15. u.root = IF x = t.root THEN y ELSE t.root
    BY <1>1, <1>2
  <1>16. QED
    BY <1>6, <1>12, <1>13, <1>14, <1>15 DEF Rewired

Around(t, x, side, y, b, p) ==
  /\ y = t.node[x][Other(side)] /\ y # nullptr
  /\ b = t.node[y][side] /\ p = t.node[x].parent

(* A rotation keeps the tree sound.                                        *)
LEMMA RewiredSound ==
  ASSUME NEW t, Sound(t), NEW x \in LiveOf(t), NEW side \in Sides,
         NEW y, NEW b, NEW p, Around(t, x, side, y, b, p),
         NEW u, Rewired(t, u, x, side, y, b, p)
  PROVE  Sound(u)
  <1>0. y = t.node[x][Other(side)] /\ y # nullptr /\ b = t.node[y][side] /\ p = t.node[x].parent
    BY DEF Around
  <1>1. /\ y \in LiveOf(t) /\ t.node[y].parent = x /\ y # x /\ y # p /\ p # x
        /\ b # nullptr => b \in LiveOf(t) /\ t.node[b].parent = y /\ b \notin {x, y, p}
        /\ p # nullptr => p \in LiveOf(t)
        /\ x = t.root <=> p = nullptr
        /\ y # t.root
    <2>1. Parted(t, x, y, b, p)
      BY <1>0, Apart
    <2>2. QED
      BY <2>1 DEF Parted
  <1>2. nullptr \notin LiveOf(t)
    BY RbTreeAssumption DEF LiveOf
  <1>3. /\ Typed(u) /\ LiveOf(u) = LiveOf(t)
        /\ u.root = IF x = t.root THEN y ELSE t.root
    BY DEF Rewired
  <1>4. PICK s0 : s0 = SideOf(t, x)
    OBVIOUS
  <1>5. p # nullptr => s0 \in Sides /\ t.node[p][s0] = x /\ t.node[p][Other(s0)] # x
    BY <1>0, <1>1, <1>4, LeadsTo
  <1>6. \A n \in LiveOf(t) :
          u.node[n].parent = IF n = x THEN y ELSE IF n = y THEN p
                             ELSE IF n = b THEN x ELSE t.node[n].parent
    BY DEF Rewired
  <1>7. \A n \in LiveOf(t) : \A s \in Sides :
          u.node[n][s] = IF n = x /\ s = Other(side) THEN b
                         ELSE IF n = y /\ s = side THEN x
                         ELSE IF n = p /\ s = s0 THEN y ELSE t.node[n][s]
    BY <1>4 DEF Rewired
  <1>8. u.root \in LiveOf(u) \cup {nullptr}
    BY <1>1, <1>3 DEF Sound
  <1>9. Down(t)
    BY DEF Sound
  <1>10. \A n \in LiveOf(t) :
           IF n = t.root THEN t.node[n].parent = nullptr
           ELSE /\ t.node[n].parent \in LiveOf(t)
                /\ \E s \in Sides : t.node[t.node[n].parent][s] = n
    BY DEF Sound, Up
  <1>11. /\ Other(side) \in Sides /\ Other(side) # side
         /\ \A s \in Sides : /\ Other(s) \in Sides /\ Other(s) # s /\ Other(Other(s)) = s
                             /\ s = side \/ s = Other(side)
    BY Others
  <1>12. ASSUME NEW n \in LiveOf(t), NEW s \in Sides, NEW c, c = u.node[n][s], c # nullptr
         PROVE  c \in LiveOf(t) /\ u.node[c].parent = n /\ c # u.node[n][Other(s)]
    <2>1. CASE n = x
      <3>1. CASE s = Other(side)
        <4>1. c = b /\ b # nullptr
          BY <1>7, <1>12, <2>1, <3>1
        <4>2. u.node[x][side] = t.node[x][side]
          BY <1>1, <1>7, <1>11
        <4>3. t.node[x][side] # b
          BY <1>1, <1>9, <4>1, ChildLinks
        <4>4. QED
          BY <1>1, <1>6, <1>11, <2>1, <3>1, <4>1, <4>2, <4>3
      <3>2. CASE s = side
        <4>1. c = t.node[x][side] /\ u.node[x][Other(side)] = b
          BY <1>1, <1>7, <1>11, <1>12, <2>1, <3>2
        <4>2. c \in LiveOf(t) /\ t.node[c].parent = x /\ c # y
          <5>1. c = t.node[x][side] /\ c # nullptr
            BY <1>12, <4>1
          <5>2. c \in LiveOf(t) /\ t.node[c].parent = x /\ c # t.node[x][Other(side)]
            BY <1>9, <5>1, ChildLinks
          <5>3. QED
            BY <1>0, <5>2
        <4>3. c # x /\ c # b
          BY <1>0, <1>1, <1>2, <4>2
        <4>4. QED
          BY <1>6, <2>1, <3>2, <4>1, <4>2, <4>3
      <3>3. QED
        BY <1>11, <3>1, <3>2
    <2>2. CASE n = y
      <3>1. CASE s = side
        <4>1. c = x /\ u.node[y][Other(side)] = t.node[y][Other(side)]
          BY <1>1, <1>7, <1>11, <1>12, <2>2, <3>1
        <4>2. t.node[y][Other(side)] # x
          <5>1. PICK o, d : o \in Sides /\ o = Other(side) /\ d = t.node[y][o]
            BY <1>11
          <5>2. d # nullptr => t.node[d].parent = y
            BY <1>1, <1>9, <5>1, ChildLinks
          <5>3. d # x
            BY <1>0, <1>1, <1>2, <5>2
          <5>4. QED
            BY <5>1, <5>3
        <4>3. QED
          BY <1>6, <2>2, <3>1, <4>1, <4>2
      <3>2. CASE s = Other(side)
        <4>1. c = t.node[y][Other(side)] /\ u.node[y][side] = x
          BY <1>1, <1>7, <1>11, <1>12, <2>2, <3>2
        <4>2. c \in LiveOf(t) /\ t.node[c].parent = y /\ c # b
          <5>1. PICK o \in Sides : o = Other(side) /\ Other(o) = side /\ c = t.node[y][o]
            BY <1>11, <4>1
          <5>2. c \in LiveOf(t) /\ t.node[c].parent = y /\ c # t.node[y][Other(o)]
            BY <1>1, <1>9, <1>12, <5>1, ChildLinks
          <5>3. QED
            BY <1>0, <5>1, <5>2
        <4>3. c # x /\ c # y
          BY <1>0, <1>1, <4>2
        <4>4. QED
          BY <1>6, <1>11, <2>2, <3>2, <4>1, <4>2, <4>3
      <3>3. QED
        BY <1>11, <3>1, <3>2
    <2>3. CASE n = p
      <3>0. n # x /\ n # y /\ p # nullptr
        BY <1>1, <1>2, <2>3
      <3>1. CASE s = s0
        <4>1. c = y
          BY <1>7, <1>12, <2>3, <3>0, <3>1
        <4>2. u.node[n][Other(s)] = t.node[n][Other(s)]
          BY <1>7, <1>11, <3>0, <3>1
        <4>3. t.node[n][Other(s)] # y
          BY <1>1, <1>2, <1>9, <1>11, <2>3, <3>0, ChildLinks
        <4>4. QED
          BY <1>1, <1>6, <2>3, <4>1, <4>2, <4>3
      <3>2. CASE s # s0
        <4>1. c = t.node[n][s] /\ s = Other(s0)
          <5>1. s = s0 \/ s = Other(s0)
            BY <1>5, <3>0, Others
          <5>2. QED
            BY <1>7, <1>12, <2>3, <3>0, <3>2, <5>1
        <4>2. c \in LiveOf(t) /\ t.node[c].parent = n /\ c # x
          <5>1. c = t.node[p][Other(s0)] /\ c # nullptr /\ p \in LiveOf(t)
            BY <1>1, <1>12, <2>3, <3>0, <4>1
          <5>2. Other(s0) \in Sides /\ Other(Other(s0)) = s0 /\ t.node[p][s0] = x
            BY <1>5, <3>0, Others
          <5>3. QED
            BY <1>9, <2>3, <5>1, <5>2, ChildLinks
        <4>3. c # y /\ c # b
          BY <1>1, <1>2, <2>3, <4>2
        <4>4. u.node[n][Other(s)] = y
          BY <1>5, <1>7, <1>11, <2>3, <3>0, <4>1
        <4>5. QED
          BY <1>6, <4>2, <4>3, <4>4
      <3>3. QED
        BY <3>1, <3>2
    <2>4. CASE n \notin {x, y, p}
      <3>1. c = t.node[n][s] /\ u.node[n][Other(s)] = t.node[n][Other(s)]
        BY <1>7, <1>11, <1>12, <2>4
      <3>2. c \in LiveOf(t) /\ t.node[c].parent = n /\ c # t.node[n][Other(s)]
        BY <1>9, <1>12, <3>1, ChildLinks
      <3>3. c \notin {x, y, b}
        BY <1>0, <1>1, <1>2, <2>4, <3>2
      <3>4. QED
        BY <1>6, <3>1, <3>2, <3>3
    <2>5. QED
      BY <2>1, <2>2, <2>3, <2>4
  <1>13. Down(u)
    BY <1>3, <1>12 DEF Down
  <1>14. Up(u)
    <2>1. ASSUME NEW n \in LiveOf(t)
          PROVE  IF n = u.root THEN u.node[n].parent = nullptr
                 ELSE /\ u.node[n].parent \in LiveOf(t)
                      /\ \E s \in Sides : u.node[u.node[n].parent][s] = n
      <3>1. CASE n = x
        <4>1. n # u.root
          BY <1>1, <1>3, <3>1
        <4>2. u.node[n].parent = y /\ u.node[y][side] = n
          BY <1>1, <1>6, <1>7, <3>1
        <4>3. QED
          BY <1>1, <4>1, <4>2
      <3>2. CASE n = y
        <4>1. u.node[n].parent = p
          BY <1>1, <1>6, <3>2
        <4>2. CASE p = nullptr
          BY <1>1, <1>3, <3>2, <4>1, <4>2
        <4>3. CASE p # nullptr
          <5>1. u.node[p][s0] = y /\ s0 \in Sides
            BY <1>1, <1>5, <1>7, <4>3
          <5>2. n # u.root
            BY <1>1, <1>3, <3>2, <4>3
          <5>3. QED
            BY <1>1, <3>2, <4>1, <4>3, <5>1, <5>2
        <4>4. QED
          BY <4>2, <4>3
      <3>3. CASE n = b
        <4>1. b # nullptr /\ n \notin {x, y}
          BY <1>1, <1>2, <3>3
        <4>2. u.node[n].parent = x /\ u.node[x][Other(side)] = n
          BY <1>6, <1>7, <1>11, <3>3, <4>1
        <4>3. n # t.root
          BY <1>1, <1>2, <1>10, <3>3, <4>1
        <4>4. QED
          BY <1>3, <1>11, <4>1, <4>2, <4>3
      <3>4. CASE n \notin {x, y, b}
        <4>1. u.node[n].parent = t.node[n].parent
          BY <1>6, <3>4
        <4>2. CASE n = t.root
          <5>1. n = u.root
            BY <1>3, <3>4, <4>2
          <5>2. QED
            BY <1>10, <4>1, <4>2, <5>1
        <4>3. CASE n # t.root
          <5>1. n # u.root
            BY <1>3, <3>4, <4>3
          <5>2. PICK q \in LiveOf(t), s \in Sides : q = t.node[n].parent /\ t.node[q][s] = n
            BY <1>10, <4>3
          <5>3. u.node[q][s] = n
            <6>1. ~ (q = x /\ s = Other(side))
              BY <1>0, <3>4, <5>2
            <6>2. ~ (q = y /\ s = side)
              BY <1>0, <3>4, <5>2
            <6>3. ~ (q = p /\ s = s0)
              BY <1>2, <1>5, <3>4, <5>2
            <6>4. QED
              BY <1>7, <5>2, <6>1, <6>2, <6>3
          <5>4. QED
            BY <4>1, <5>1, <5>2, <5>3
        <4>4. QED
          BY <4>2, <4>3
      <3>5. QED
        BY <3>1, <3>2, <3>3, <3>4
    <2>2. QED
      BY <1>3, <2>1 DEF Up
  <1>15. Acyclic(LiveOf(u), Ups(u))
    <2>1. SUFFICES ASSUME NEW S \in SUBSET LiveOf(t), S # {},
                          \A n \in S : u.node[n].parent \in S
                   PROVE  FALSE
      <3>1. \A n \in LiveOf(t) : Ups(u)[n] = u.node[n].parent
        BY DEF Ups, LiveOf
      <3>2. QED
        BY <1>3, <2>1, <3>1 DEF Acyclic
    <2>2. CASE y \in S
      <3>1. p \in S
        BY <1>1, <1>6, <2>1, <2>2
      <3>2. PICK T : T = S \cup {x}
        OBVIOUS
      <3>3. \A n \in T : t.node[n].parent \in T
        BY <1>0, <1>1, <1>2, <1>6, <2>1, <2>2, <3>1, <3>2
      <3>4. T = {}
        BY <3>2, <3>3, NoCycle
      <3>5. QED
        BY <3>2, <3>4
    <2>3. CASE y \notin S
      <3>1. x \notin S /\ (b \in S => FALSE)
        BY <1>1, <1>6, <2>1, <2>3
      <3>2. \A n \in S : t.node[n].parent \in S
        BY <1>6, <2>1, <2>3, <3>1
      <3>3. QED
        BY <2>1, <3>2, NoCycle
    <2>4. QED
      BY <2>2, <2>3
  <1>16. QED
    BY <1>3, <1>8, <1>13, <1>14, <1>15 DEF Sound

-----------------------------------------------------------------------------
(* Turns of the fix-ups.                                                   *)

(* How a rotation changes what may stand below a node: y gets what x had,  *)
(* and x what is left of it on its side of y.                              *)
Turning(t, B, x, side, y) ==
  [n \in Nodes |-> IF n = y THEN B[x]
                   ELSE IF n = x THEN {k \in B[x] : OnSide(side, k, t.node[y].key)} ELSE B[n]]

LEMMA RewiredOrdered ==
  ASSUME NEW t, Sound(t), NEW x \in LiveOf(t), NEW side \in Sides,
         NEW y, NEW b, NEW p, Around(t, x, side, y, b, p),
         NEW u, Rewired(t, u, x, side, y, b, p), Ordered(t)
  PROVE  Ordered(u)
  <1>0. y = t.node[x][Other(side)] /\ y # nullptr /\ b = t.node[y][side] /\ p = t.node[x].parent
    BY DEF Around
  <1>1. PICK B : Bounds(t, B)
    BY DEF Ordered
  <1>2. PICK C : C = Turning(t, B, x, side, y)
    OBVIOUS
  <1>3. /\ y \in LiveOf(t) /\ y # x /\ y # p /\ p # x
        /\ b # nullptr => b \in LiveOf(t) /\ b \notin {x, y, p}
    <2>1. Parted(t, x, y, b, p)
      BY <1>0, Apart
    <2>2. QED
      BY <2>1 DEF Parted
  <1>4. nullptr \notin LiveOf(t)
    BY RbTreeAssumption DEF LiveOf
  <1>5. Other(side) \in Sides /\ Other(side) # side /\ \A s \in Sides : s = side \/ s = Other(side)
    BY Others
  <1>6. /\ \A n \in LiveOf(t) : B[n] \in SUBSET Keys /\ t.node[n].key \in B[n]
        /\ \A n \in LiveOf(t) : \A s \in Sides : t.node[n][s] # nullptr =>
             \A k \in B[t.node[n][s]] : k \in B[n] /\ OnSide(s, k, t.node[n].key)
    BY <1>1 DEF Bounds
  <1>7. PICK kx, ky : kx = t.node[x].key /\ ky = t.node[y].key
    OBVIOUS
  <1>8. /\ C[y] = B[x] /\ C[x] = {k \in B[x] : OnSide(side, k, ky)}
        /\ \A n \in LiveOf(t) \ {x, y} : C[n] = B[n]
    BY <1>2, <1>3, <1>7 DEF Turning, LiveOf
  <1>9. kx \in Int /\ ky \in Int /\ \A k \in Keys : k \in Int
    BY <1>3, <1>6, <1>7, RbTreeAssumption
  <1>10. \A k \in B[y] : k \in B[x] /\ OnSide(Other(side), k, kx)
    BY <1>0, <1>3, <1>5, <1>6, <1>7
  <1>11. ky \in B[x] /\ OnSide(Other(side), ky, kx) /\ OnSide(side, kx, ky)
    <2>1. ky \in B[x] /\ OnSide(Other(side), ky, kx)
      BY <1>3, <1>6, <1>7, <1>10
    <2>2. QED
      BY <1>9, <2>1 DEF OnSide, Other, Sides
  <1>12. \A n \in LiveOf(t) : C[n] \in SUBSET Keys /\ t.node[n].key \in C[n]
    <2>1. kx \in C[x] /\ ky \in C[y]
      BY <1>6, <1>7, <1>8, <1>11
    <2>2. QED
      BY <1>3, <1>6, <1>7, <1>8, <2>1
  <1>13. \A n \in LiveOf(t) : u.node[n].key = t.node[n].key
    BY DEF Rewired
  <1>14. \A n \in LiveOf(t) : \A s \in Sides :
           u.node[n][s] = IF n = x /\ s = Other(side) THEN b
                          ELSE IF n = y /\ s = side THEN x
                          ELSE IF n = p /\ s = SideOf(t, x) THEN y ELSE t.node[n][s]
    BY DEF Rewired
  <1>15. ASSUME NEW n \in LiveOf(t), NEW s \in Sides, NEW c, c = u.node[n][s], c # nullptr, NEW k \in C[c]
         PROVE  k \in C[n] /\ OnSide(s, k, t.node[n].key)
    <2>1. CASE n = x /\ s = Other(side)
      <3>1. c = b /\ k \in B[b]
        <4>1. c = b
          BY <1>14, <1>15, <2>1
        <4>2. C[b] = B[b]
          BY <1>3, <1>8, <1>15, <4>1
        <4>3. QED
          BY <1>15, <4>1, <4>2
      <3>2. k \in B[y] /\ OnSide(side, k, ky)
        BY <1>0, <1>3, <1>6, <1>7, <1>15, <3>1
      <3>3. QED
        BY <1>7, <1>8, <1>10, <2>1, <3>2
    <2>2. CASE n = x /\ s = side
      <3>1. c = t.node[x][side]
        BY <1>3, <1>5, <1>14, <1>15, <2>2
      <3>2. c \in LiveOf(t) /\ t.node[c].parent = x /\ c # y
        <4>1. Down(t)
          BY DEF Sound
        <4>2. c \in LiveOf(t) /\ t.node[c].parent = x /\ c # t.node[x][Other(side)]
          BY <1>15, <3>1, <4>1, ChildLinks
        <4>3. QED
          BY <1>0, <4>2
      <3>3. c # x
        BY <3>2, NotOwnParent
      <3>4. k \in B[c]
        BY <1>8, <1>15, <3>2, <3>3
      <3>5. k \in B[x] /\ OnSide(side, k, kx)
        BY <1>6, <1>7, <1>15, <3>1, <3>4
      <3>6. k \in Int
        BY <1>6, <1>9, <3>5
      <3>7. OnSide(side, k, ky)
        BY <1>9, <1>11, <3>5, <3>6 DEF OnSide
      <3>8. QED
        BY <1>7, <1>8, <2>2, <3>5, <3>7
    <2>3. CASE n = y /\ s = side
      <3>1. c = x
        BY <1>3, <1>14, <1>15, <2>3
      <3>2. QED
        BY <1>7, <1>8, <1>15, <2>3, <3>1
    <2>4. CASE n = y /\ s = Other(side)
      <3>1. c = t.node[y][s]
        BY <1>3, <1>5, <1>14, <1>15, <2>4
      <3>2. c \in LiveOf(t) /\ t.node[c].parent = y
        <4>1. Down(t)
          BY DEF Sound
        <4>2. QED
          BY <1>3, <1>15, <2>4, <3>1, <4>1, ChildLinks
      <3>3. c # y /\ c # x
        BY <1>0, <1>3, <3>2, NotOwnParent
      <3>4. k \in B[c]
        BY <1>8, <1>15, <3>2, <3>3
      <3>5. k \in B[y] /\ OnSide(s, k, ky)
        BY <1>3, <1>6, <1>7, <1>15, <3>1, <3>4
      <3>6. QED
        BY <1>7, <1>8, <1>10, <2>4, <3>5
    <2>5. CASE n \notin {x, y} /\ n = p /\ s = SideOf(t, x)
      <3>1. c = y /\ k \in B[x]
        BY <1>8, <1>14, <1>15, <2>5
      <3>2. x # t.root
        BY <1>0, <1>4, <2>5 DEF Sound, Up
      <3>3. t.node[n][s] = x
        BY <1>0, <2>5, <3>2, LeadsTo
      <3>4. x # nullptr
        BY <1>4
      <3>5. QED
        BY <1>6, <1>8, <2>5, <3>1, <3>3, <3>4
    <2>6. CASE n \notin {x, y} /\ ~ (n = p /\ s = SideOf(t, x))
      <3>1. c = t.node[n][s]
        BY <1>14, <1>15, <2>6
      <3>2. c \in LiveOf(t) /\ t.node[c].parent = n /\ SideOf(t, c) = s
        BY <1>15, <3>1, ChildIs
      <3>3. c # x
        BY <1>0, <2>6, <3>2
      <3>4. t.node[y].parent = x
        BY <1>0, <1>3, <1>4, <1>5 DEF Sound, Down
      <3>5. c # y
        BY <2>6, <3>2, <3>4
      <3>6. k \in B[c]
        BY <1>8, <1>15, <3>2, <3>3, <3>5
      <3>7. QED
        BY <1>6, <1>8, <1>15, <2>6, <3>1, <3>6
    <2>7. QED
      BY <1>5, <2>1, <2>2, <2>3, <2>4, <2>5, <2>6
  <1>16. LiveOf(u) = LiveOf(t)
    BY DEF Rewired
  <1>17. Bounds(u, C)
    BY <1>12, <1>13, <1>15, <1>16 DEF Bounds
  <1>18. QED
    BY <1>17 DEF Ordered

(* A sound tree of the same nodes with the same keys, and in order.        *)
Keeps(t, u) ==
  /\ Sound(u) /\ LiveOf(u) = LiveOf(t) /\ (Ordered(t) => Ordered(u))
  /\ \A n \in LiveOf(t) : u.node[n].key = t.node[n].key

LEMMA KeepsTwice ==
  ASSUME NEW t, NEW u, NEW v, Keeps(t, u), Keeps(u, v)
  PROVE  Keeps(t, v)
  BY DEF Keeps

LEMMA SameLinksKeeps ==
  ASSUME NEW t, Sound(t), NEW u, SameLinks(t, u)
  PROVE  Keeps(t, u)
  <1>1. ASSUME NEW B, Bounds(t, B) PROVE Bounds(u, B)
    <2>1. /\ LiveOf(u) = LiveOf(t)
          /\ \A n \in LiveOf(t) : u.node[n].key = t.node[n].key
          /\ \A n \in LiveOf(t) : \A side \in Sides : u.node[n][side] = t.node[n][side]
      BY DEF SameLinks
    <2>2. \A n \in LiveOf(u) : B[n] \in SUBSET Keys /\ u.node[n].key \in B[n]
      BY <1>1, <2>1 DEF Bounds
    <2>3. ASSUME NEW n \in LiveOf(u), NEW side \in Sides, u.node[n][side] # nullptr,
                 NEW k \in B[u.node[n][side]]
          PROVE  k \in B[n] /\ OnSide(side, k, u.node[n].key)
      <3>1. t.node[n][side] # nullptr /\ k \in B[t.node[n][side]] /\ n \in LiveOf(t)
        BY <2>1, <2>3
      <3>2. k \in B[n] /\ OnSide(side, k, t.node[n].key)
        BY <1>1, <3>1 DEF Bounds
      <3>3. QED
        BY <2>1, <3>1, <3>2
    <2>4. QED
      BY <2>2, <2>3 DEF Bounds
  <1>2. Ordered(t) => Ordered(u)
    BY <1>1 DEF Ordered
  <1>3. QED
    BY <1>2, SameLinksSound DEF Keeps, SameLinks

Repainted(t, u) ==
  SameLinks(t, u) /\ Keeps(t, u) /\ Sound(u) /\ LiveOf(u) = LiveOf(t)

Colors == {"RED", "BLACK"}

LEMMA ColorSound ==
  ASSUME NEW t, Sound(t), NEW m \in LiveOf(t), NEW c \in Colors
  PROVE  Repainted(t, Color(t, m, c))
  <1>1. SameLinks(t, Color(t, m, c))
    BY ColorKeeps DEF Sound, Colors
  <1>2. QED
    BY <1>1, SameLinksKeeps DEF Keeps, Repainted

LEMMA RepaintTwice ==
  ASSUME NEW t, NEW u, NEW v, Repainted(t, u), Repainted(u, v)
  PROVE  Repainted(t, v)
  BY DEF Repainted, SameLinks, Keeps

LEMMA ColorTwice ==
  ASSUME NEW t, Sound(t), NEW m \in LiveOf(t), NEW c \in Colors,
         NEW k \in LiveOf(t), NEW d \in Colors,
         NEW u, u = Color(Color(t, m, c), k, d)
  PROVE  Repainted(t, u)
  <1>1. PICK v : v = Color(t, m, c)
    OBVIOUS
  <1>2. Repainted(t, v)
    BY <1>1, ColorSound
  <1>3. Sound(v) /\ k \in LiveOf(v)
    BY <1>2 DEF Repainted
  <1>4. Repainted(v, u)
    BY <1>1, <1>3, ColorSound
  <1>5. QED
    BY <1>2, <1>4, RepaintTwice

(* Where a rotation leaves the nodes around x.                             *)
RotatedAt(t, u, x, side, y) ==
  /\ Keeps(t, u) /\ Sound(u) /\ LiveOf(u) = LiveOf(t)
  /\ y \in LiveOf(t)
  /\ u.node[x].parent = y /\ u.node[y].parent = t.node[x].parent
  /\ u.node[x][Other(side)] = t.node[y][side]
  /\ u.node[y][side] = x /\ u.node[y][Other(side)] = t.node[y][Other(side)]
  /\ u.node[x][side] = t.node[x][side]
  /\ x # t.root => /\ t.node[x].parent \in LiveOf(t)
                   /\ u.node[t.node[x].parent][SideOf(t, x)] = y

LEMMA RotateKeeps ==
  ASSUME NEW t, Sound(t), NEW x \in LiveOf(t), NEW side \in Sides,
         NEW y, y = t.node[x][Other(side)], y # nullptr,
         NEW u, u = Rotate(t, x, side)
  PROVE  RotatedAt(t, u, x, side, y)
  <1>1. PICK b, p : b = t.node[y][side] /\ p = t.node[x].parent
    OBVIOUS
  <1>2. Rewired(t, u, x, side, y, b, p)
    BY <1>1, RotateLinks
  <1>3. Keeps(t, u)
    <2>0. Around(t, x, side, y, b, p)
      BY <1>1 DEF Around
    <2>1. Sound(u)
      BY <1>2, <2>0, RewiredSound
    <2>2. Ordered(t) => Ordered(u)
      BY <1>2, <2>0, RewiredOrdered
    <2>3. QED
      BY <1>2, <2>1, <2>2 DEF Rewired, Keeps
  <1>4. /\ y \in LiveOf(t) /\ y # x /\ y # p /\ p # x
        /\ p # nullptr => p \in LiveOf(t)
        /\ x = t.root <=> p = nullptr
    BY <1>1, Apart DEF Parted
  <1>5. Other(side) \in Sides /\ Other(side) # side
    BY Others
  <1>6. /\ u.node[x].parent = y /\ u.node[y].parent = p
        /\ u.node[x][Other(side)] = b
        /\ u.node[y][side] = x /\ u.node[y][Other(side)] = t.node[y][Other(side)]
        /\ u.node[x][side] = t.node[x][side]
    BY <1>2, <1>4, <1>5 DEF Rewired
  <1>7. ASSUME x # t.root
        PROVE  p \in LiveOf(t) /\ u.node[p][SideOf(t, x)] = y
    <2>1. p \in LiveOf(t) /\ SideOf(t, x) \in Sides
      BY <1>1, <1>4, <1>7, LeadsTo
    <2>2. QED
      BY <1>2, <1>4, <2>1 DEF Rewired
  <1>8. QED
    BY <1>1, <1>3, <1>4, <1>6, <1>7 DEF Keeps, RotatedAt

LEMMA StraightenedKeeps ==
  ASSUME NEW t, Sound(t), NEW z \in LiveOf(t), NEW p \in LiveOf(t), p = t.node[z].parent,
         NEW g \in LiveOf(t), g = t.node[p].parent,
         NEW side, side = SideOf(t, p), NEW s, s = Straightened(t, z, side)
  PROVE  Keeps(t, s.t) /\ s.at \in LiveOf(t)
  <1>1. nullptr \notin LiveOf(t)
    BY RbTreeAssumption DEF LiveOf
  <1>2. /\ p # t.root /\ side \in Sides /\ t.node[g][side] = p
    <2>1. p # t.root
      BY <1>1 DEF Sound, Up
    <2>2. QED
      BY <2>1, LeadsTo
  <1>3. Other(side) \in Sides /\ Other(Other(side)) = side
    BY <1>2, Others
  <1>4. PICK t1, z1 : /\ t1 = IF z = t.node[p][Other(side)] THEN Rotate(t, p, side) ELSE t
                      /\ z1 = IF z = t.node[p][Other(side)] THEN p ELSE z
    OBVIOUS
  <1>5. PICK p1, g1 : p1 = t1.node[z1].parent /\ g1 = t1.node[p1].parent
    OBVIOUS
  <1>6. /\ s.t = Rotate(Color(Color(t1, p1, "BLACK"), g1, "RED"), g1, Other(side))
        /\ s.at = z1
    BY <1>4, <1>5 DEF Straightened
  <1>7. /\ Keeps(t, t1) /\ p1 \in LiveOf(t) /\ g1 = g /\ z1 \in LiveOf(t)
        /\ t1.node[g][side] = p1
    <2>1. CASE z = t.node[p][Other(side)]
      <3>1. t1 = Rotate(t, p, side) /\ z1 = p
        BY <1>4, <2>1
      <3>2. /\ Keeps(t, t1) /\ t1.node[p].parent = z /\ t1.node[z].parent = g
            /\ t1.node[g][side] = z
        <4>1. z = t.node[p][Other(side)] /\ z # nullptr
        BY <1>1, <2>1
      <4>2. RotatedAt(t, t1, p, side, z)
        BY <1>2, <3>1, <4>1, RotateKeeps
      <4>3. QED
        BY <1>2, <4>2 DEF RotatedAt
      <3>3. QED
        BY <1>5, <3>1, <3>2
    <2>2. CASE z # t.node[p][Other(side)]
      BY <1>2, <1>4, <1>5, <2>2 DEF Keeps
    <2>3. QED
      BY <2>1, <2>2
  <1>8. PICK t2 : t2 = Color(Color(t1, p1, "BLACK"), g, "RED")
    OBVIOUS
  <1>9. SameLinks(t1, t2) /\ Keeps(t1, t2) /\ Sound(t2) /\ LiveOf(t2) = LiveOf(t)
    <2>1. Sound(t1) /\ LiveOf(t1) = LiveOf(t)
      BY <1>7 DEF Keeps
    <2>2. p1 \in LiveOf(t1) /\ g \in LiveOf(t1)
      BY <1>7, <2>1
    <2>3. "RED" \in Colors /\ "BLACK" \in Colors
      BY DEF Colors
    <2>4. Repainted(t1, t2)
      BY <1>8, <2>1, <2>2, <2>3, ColorTwice
    <2>5. QED
      BY <2>1, <2>4 DEF Repainted
  <1>10. t2.node[g][side] = p1
    BY <1>2, <1>7, <1>9 DEF SameLinks, Keeps
  <1>11. Keeps(t2, s.t)
    <2>1. s.t = Rotate(t2, g, Other(side))
      BY <1>6, <1>7, <1>8
    <2>2. t2.node[g][Other(Other(side))] = p1 /\ p1 # nullptr
      BY <1>1, <1>3, <1>7, <1>10
    <2>3. RotatedAt(t2, s.t, g, Other(side), p1)
      BY <1>3, <1>9, <2>1, <2>2, RotateKeeps
    <2>4. QED
      BY <2>3 DEF RotatedAt
  <1>12. QED
    <2>1. Keeps(t, t1) /\ Keeps(t1, t2) /\ Keeps(t2, s.t)
      BY <1>7, <1>9, <1>11
    <2>2. Keeps(t, s.t)
      BY <2>1, KeepsTwice
    <2>3. QED
      BY <1>6, <1>7, <2>2

LEMMA RootLive ==
  ASSUME NEW t, Sound(t), NEW n \in LiveOf(t)
  PROVE  t.root \in LiveOf(t)
  <1> SUFFICES ASSUME t.root \notin LiveOf(t) PROVE FALSE
    OBVIOUS
  <1>1. \A m \in LiveOf(t) : t.node[m].parent \in LiveOf(t)
    BY DEF Sound, Up
  <1>2. LiveOf(t) = {}
    BY <1>1, NoCycle
  <1>3. QED
    BY <1>2

LEMMA SisterKeeps ==
  ASSUME NEW t, Sound(t), NEW p \in LiveOf(t), NEW side \in Sides,
         t.node[p][Other(side)] # nullptr, NEW u, u = Sister(t, p, side)
  PROVE  Keeps(t, u)
  <1>1. PICK w : w = t.node[p][Other(side)]
    OBVIOUS
  <1>2. CASE IsRed(t, w)
    <2>1. PICK v : v = Color(Color(t, w, "BLACK"), p, "RED")
      OBVIOUS
    <2>2. u = Rotate(v, p, side)
      BY <1>1, <1>2, <2>1 DEF Sister
    <2>3. w \in LiveOf(t) /\ Other(side) \in Sides
      BY <1>1, Others DEF Sound, Down
    <2>4. "RED" \in Colors /\ "BLACK" \in Colors
      BY DEF Colors
    <2>5. Repainted(t, v)
      BY <2>1, <2>3, <2>4, ColorTwice
    <2>6. Sound(v) /\ p \in LiveOf(v) /\ w = v.node[p][Other(side)] /\ Keeps(t, v)
      BY <1>1, <2>3, <2>5 DEF Repainted, SameLinks
    <2>7. RotatedAt(v, u, p, side, w)
      BY <1>1, <2>2, <2>6, RotateKeeps
    <2>8. QED
      BY <2>6, <2>7, KeepsTwice DEF RotatedAt
  <1>3. CASE ~ IsRed(t, w)
    <2>1. u = t
      BY <1>1, <1>3 DEF Sister
    <2>2. QED
      BY <2>1 DEF Keeps
  <1>4. QED
    BY <1>2, <1>3

(* The near child of the sister takes her place.                           *)
LEMMA NearRises ==
  ASSUME NEW t, Sound(t), NEW p \in LiveOf(t), NEW side \in Sides,
         NEW w \in LiveOf(t), w = t.node[p][Other(side)],
         NEW near, near = t.node[w][side], near # nullptr,
         NEW v, Repainted(t, v), NEW u, u = Rotate(v, w, Other(side))
  PROVE  Keeps(t, u) /\ near \in LiveOf(u) /\ near = u.node[p][Other(side)]
  <1>1. Other(side) \in Sides /\ Other(Other(side)) = side
    BY Others
  <1>2. Sound(v) /\ Keeps(t, v) /\ w \in LiveOf(v) /\ p \in LiveOf(v)
    BY DEF Repainted
  <1>3. w = v.node[p][Other(side)] /\ near = v.node[w][side]
    BY <1>1 DEF Repainted, SameLinks
  <1>4. w # nullptr
    BY RbTreeAssumption DEF LiveOf
  <1>5. v.node[w].parent = p /\ w # v.root /\ SideOf(v, w) = Other(side)
    BY <1>1, <1>2, <1>3, <1>4, ChildIs
  <1>6. RotatedAt(v, u, w, Other(side), near)
    BY <1>1, <1>2, <1>3, RotateKeeps
  <1>7. u.node[p][Other(side)] = near /\ near \in LiveOf(u) /\ Keeps(v, u)
    BY <1>5, <1>6 DEF RotatedAt
  <1>8. QED
    BY <1>2, <1>7, KeepsTwice

LEMMA BorrowedKeeps ==
  ASSUME NEW t, Sound(t), NEW p \in LiveOf(t), NEW side \in Sides,
         NEW w, w = t.node[p][Other(side)], w # nullptr,
         IsRed(t, t.node[w].left) \/ IsRed(t, t.node[w].right),
         NEW u, u = Borrowed(t, p, side)
  PROVE  Keeps(t, u)
  <1>1. PICK far \in Sides : far = Other(side) /\ Other(far) = side
    BY Others
  <1>2. PICK near : near = t.node[w][side]
    OBVIOUS
  <1>3. w \in LiveOf(t)
    BY <1>1, ChildIs
  <1>4. PICK black : black = IF near = nullptr THEN t ELSE Color(t, near, "BLACK")
    OBVIOUS
  <1>5. PICK t1 : t1 = IF IsRed(t, t.node[w][far]) THEN t ELSE Rotate(Color(black, w, "RED"), w, far)
    OBVIOUS
  <1>6. PICK w1 : w1 = t1.node[p][far]
    OBVIOUS
  <1>7. PICK outer : outer = t1.node[w1][far]
    OBVIOUS
  <1>8. PICK t2 : t2 = Color(Color(t1, w1, t1.node[p].color), p, "BLACK")
    OBVIOUS
  <1>9. PICK t3 : t3 = IF outer = nullptr THEN t2 ELSE Color(t2, outer, "BLACK")
    OBVIOUS
  <1>10. u = Rotate(t3, p, side)
    BY <1>1, <1>2, <1>4, <1>5, <1>6, <1>7, <1>8, <1>9, ZenonT(60) DEF Borrowed
  <1>11. "RED" \in Colors /\ "BLACK" \in Colors
    BY DEF Colors
  <1>12. Keeps(t, t1) /\ w1 \in LiveOf(t)
    <2>1. CASE IsRed(t, t.node[w][far])
      BY <1>1, <1>3, <1>5, <1>6, <2>1 DEF Keeps
    <2>2. CASE ~ IsRed(t, t.node[w][far])
      <3>1. near # nullptr
        BY <1>1, <1>2, <2>2 DEF IsRed, Sides, Other
      <3>2. near \in LiveOf(t)
        BY <1>2, <1>3, <3>1, ChildIs
      <3>3. PICK v : v = Color(black, w, "RED")
        OBVIOUS
      <3>4. v = Color(Color(t, near, "BLACK"), w, "RED")
        BY <1>4, <3>1, <3>3
      <3>5. Repainted(t, v)
        BY <1>3, <1>11, <3>2, <3>4, ColorTwice
      <3>6. t1 = Rotate(v, w, Other(side))
        BY <1>1, <1>5, <2>2, <3>3
      <3>7. Keeps(t, t1) /\ near \in LiveOf(t1) /\ near = t1.node[p][Other(side)]
        BY <1>2, <1>3, <3>1, <3>5, <3>6, NearRises
      <3>8. QED
        BY <1>1, <1>6, <3>7 DEF Keeps
    <2>3. QED
      BY <2>1, <2>2
  <1>13. Sound(t1) /\ p \in LiveOf(t1) /\ w1 \in LiveOf(t1) /\ w1 # nullptr
    BY <1>12, RbTreeAssumption DEF Keeps, LiveOf
  <1>14. t1.node[p].color \in Colors
    BY <1>13, NodeFields DEF Sound, Colors
  <1>15. Repainted(t1, t2)
    BY <1>8, <1>11, <1>13, <1>14, ColorTwice
  <1>16. Repainted(t1, t3)
    <2>1. CASE outer = nullptr
      BY <1>9, <1>15, <2>1
    <2>2. CASE outer # nullptr
      <3>1. outer \in LiveOf(t1)
        BY <1>7, <1>13, <2>2, ChildIs
      <3>2. outer \in LiveOf(t2) /\ Sound(t2) /\ t3 = Color(t2, outer, "BLACK")
        BY <1>9, <1>15, <2>2, <3>1 DEF Repainted
      <3>3. Repainted(t2, t3)
        BY <1>11, <3>2, ColorSound
      <3>4. QED
        BY <1>15, <3>3, RepaintTwice
    <2>3. QED
      BY <2>1, <2>2
  <1>17. /\ Sound(t3) /\ p \in LiveOf(t3) /\ Keeps(t1, t3)
         /\ w1 = t3.node[p][Other(side)]
    BY <1>1, <1>6, <1>13, <1>16 DEF Repainted, SameLinks
  <1>18. RotatedAt(t3, u, p, side, w1)
    BY <1>10, <1>13, <1>17, RotateKeeps
  <1>19. QED
    BY <1>12, <1>17, <1>18, KeepsTwice DEF RotatedAt

OpType == [kind : {"insert", "delete"}, at : Nodes, turns : Int] \cup {Idle, [kind |-> "fault"]}

Working == op.kind \in {"insert", "delete"}

(* The inductive invariant.                                                *)
TInv ==
  /\ Sound(Tree) /\ Ordered(Tree)
  /\ op \in OpType
  /\ Working => op.at \in LiveOf(Tree)

LEMMA Became ==
  ASSUME NEW t, t = [root |-> t.root, node |-> t.node], Become(t)
  PROVE  Tree' = t
  BY DEF Become, Tree

LEMMA TreeFields == Tree.root = root /\ Tree.node = node
  BY DEF Tree

(* What every turn of a fix-up does to op.                                 *)
LEMMA TurnsOn ==
  ASSUME TInv, Working, NEW n \in LiveOf(Tree), op' = Turned(n), NEW u, Keeps(Tree, u), Tree' = u
  PROVE  TInv'
  <1>1. op \in [kind : {"insert", "delete"}, at : Nodes, turns : Int]
    BY DEF TInv, OpType, Working, Idle
  <1>2. n \in Nodes
    BY DEF LiveOf
  <1>3. op' \in [kind : {"insert", "delete"}, at : Nodes, turns : Int] /\ op'.at = n
    <2>1. PICK o \in [kind : {"insert", "delete"}, at : Nodes, turns : Int] : o = op
      BY <1>1
    <2>2. op' = [o EXCEPT !.at = n, !.turns = o.turns + 1]
      BY <2>1 DEF Turned
    <2>3. o.turns + 1 \in Int
      OBVIOUS
    <2>4. QED
      BY <1>2, <2>2, <2>3
  <1>4. Sound(Tree') /\ Ordered(Tree') /\ n \in LiveOf(Tree')
    BY DEF Keeps, TInv
  <1>5. QED
    BY <1>3, <1>4 DEF TInv, OpType

LEMMA FixupOver ==
  ASSUME TInv, NEW u, Keeps(Tree, u), Tree' = u, op' \in {Idle, [kind |-> "fault"]}
  PROVE  TInv'
  BY DEF TInv, OpType, Working, Idle, Keeps

LEMMA InsertTurn ==
  ASSUME TInv, rb_insert_fixup
  PROVE  TInv' /\ Keeps(Tree, Tree')
  <1>1. PICK t : t = Tree
    OBVIOUS
  <1>2. PICK z : z = op.at
    OBVIOUS
  <1>3. PICK p : p = t.node[z].parent
    OBVIOUS
  <1>4. PICK g : g = t.node[p].parent
    OBVIOUS
  <1>5. PICK side : side = SideOf(t, p)
    OBVIOUS
  <1>6. PICK y : y = t.node[g][Other(side)]
    OBVIOUS
  <1>7. PICK s : s = Straightened(t, z, side)
    OBVIOUS
  <1>8. Sound(t) /\ Working /\ z \in LiveOf(t) /\ t.root = root /\ t.node = node
    BY <1>1, <1>2, TreeFields DEF TInv, Working, rb_insert_fixup
  <1>9. \/ ~ IsRed(t, p) /\ Become(Color(t, root, "BLACK")) /\ op' = Idle
        \/ IsRed(t, p) /\ op' = [kind |-> "fault"] /\ UNCHANGED <<root, node>>
        \/ IsRed(t, p) /\ g # nullptr /\ IsRed(t, y) /\ Become(Recolored(t, p, y, g)) /\ op' = Turned(g)
        \/ IsRed(t, p) /\ g # nullptr /\ Become(s.t) /\ op' = Turned(s.at)
    <2>1. PICK a : a = op.at
      OBVIOUS
    <2>2. Tree.node = node
      BY TreeFields
    <2>3. /\ op.kind = "insert"
          /\ IF ~ IsRed(t, p)
             THEN Become(Color(t, root, "BLACK")) /\ op' = Idle
             ELSE IF g = nullptr THEN op' = [kind |-> "fault"] /\ UNCHANGED <<root, node>>
             ELSE IF IsRed(t, y)
                  THEN Become(Recolored(t, p, y, g)) /\ op' = Turned(g)
                  ELSE Become(s.t) /\ op' = Turned(s.at)
      BY <1>1, <1>2, <1>3, <1>4, <1>5, <1>6, <1>7, <2>2, Zenon DEF rb_insert_fixup
    <2>4. QED
      BY <2>3
  <1>10. "RED" \in Colors /\ "BLACK" \in Colors
    BY DEF Colors
  <1>11. CASE ~ IsRed(t, p) /\ Become(Color(t, root, "BLACK")) /\ op' = Idle
    <2>1. Repainted(t, Color(t, root, "BLACK"))
      BY <1>8, <1>10, RootLive, ColorSound
    <2>2. PICK u : u = Color(t, root, "BLACK")
      OBVIOUS
    <2>3. Sound(u) /\ Keeps(t, u) /\ Become(u)
      BY <1>11, <2>1, <2>2 DEF Repainted
    <2>4. Tree' = u
      BY <2>3, Became DEF Sound, Typed
    <2>5. QED
      BY <1>1, <1>11, <2>3, <2>4, FixupOver
  <1>12. CASE op' = [kind |-> "fault"] /\ UNCHANGED <<root, node>>
    <2>1. Tree' = t
      BY <1>1, <1>12 DEF Tree
    <2>2. QED
      BY <1>1, <1>8, <1>12, <2>1, FixupOver DEF Keeps
  <1>13. CASE /\ IsRed(t, p) /\ g # nullptr /\ IsRed(t, y) /\ Become(Recolored(t, p, y, g))
              /\ op' = Turned(g)
    <2>1. p \in LiveOf(t) /\ g \in LiveOf(t) /\ y \in LiveOf(t)
      <3>1. p \in LiveOf(t)
        BY <1>3, <1>8, <1>13 DEF Sound, Up, IsRed
      <3>2. g \in LiveOf(t)
        BY <1>4, <1>8, <1>13, <3>1 DEF Sound, Up
      <3>3. side \in Sides
        BY <1>5 DEF SideOf, Sides
      <3>4. y \in LiveOf(t)
        BY <1>6, <1>8, <1>13, <3>2, <3>3, Others DEF Sound, Down, IsRed
      <3>5. QED
        BY <3>1, <3>2, <3>4
    <2>2. PICK v : v = Color(Color(t, p, "BLACK"), y, "BLACK")
      OBVIOUS
    <2>3. Repainted(t, v)
      BY <1>8, <1>10, <2>1, <2>2, ColorTwice
    <2>4. PICK u : u = Color(v, g, "RED")
      OBVIOUS
    <2>5. Repainted(v, u)
      BY <1>10, <2>1, <2>3, <2>4, ColorSound DEF Repainted
    <2>6. Repainted(t, u)
      BY <2>3, <2>5, RepaintTwice
    <2>7. Become(u)
      BY <1>13, <2>2, <2>4 DEF Recolored
    <2>8. Tree' = u
      BY <2>6, <2>7, Became DEF Repainted, Sound, Typed
    <2>9. QED
      BY <1>1, <1>8, <1>13, <2>1, <2>6, <2>8, TurnsOn DEF Repainted
  <1>14. CASE IsRed(t, p) /\ g # nullptr /\ Become(s.t) /\ op' = Turned(s.at)
    <2>1. p \in LiveOf(t)
      BY <1>3, <1>8, <1>14 DEF Sound, Up, IsRed
    <2>2. g \in LiveOf(t)
      BY <1>4, <1>8, <1>14, <2>1 DEF Sound, Up
    <2>3. Keeps(t, s.t) /\ s.at \in LiveOf(t)
      BY <1>3, <1>4, <1>5, <1>7, <1>8, <2>1, <2>2, StraightenedKeeps
    <2>4. Tree' = s.t
      <3>1. PICK u : u = s.t
        OBVIOUS
      <3>2. QED
        BY <1>14, <2>3, <3>1, Became DEF Keeps, Sound, Typed
    <2>5. QED
      BY <1>1, <1>8, <1>14, <2>3, <2>4, TurnsOn
  <1>15. QED
    BY <1>9, <1>11, <1>12, <1>13, <1>14

LEMMA DeleteTurn ==
  ASSUME TInv, rb_delete_fixup
  PROVE  TInv' /\ Keeps(Tree, Tree')
  <1>1. PICK s : s = Tree
    OBVIOUS
  <1>2. PICK x : x = op.at
    OBVIOUS
  <1>3. PICK p : p = s.node[x].parent
    OBVIOUS
  <1>4. PICK side : side = SideOf(s, x)
    OBVIOUS
  <1>5. PICK t : t = Sister(s, p, side)
    OBVIOUS
  <1>6. PICK w : w = t.node[p][Other(side)]
    OBVIOUS
  <1>7. PICK b : b = Borrowed(t, p, side)
    OBVIOUS
  <1>8. Sound(s) /\ Working /\ x \in LiveOf(s) /\ s.root = root /\ s.node = node
    BY <1>1, <1>2, TreeFields DEF TInv, Working, rb_delete_fixup
  <1>9. IF (x = root \/ IsRed(s, x)) \/ (side = "left" /\ s.node[p][Other(side)] = nullptr)
        THEN Become(Color(s, x, "BLACK")) /\ op' = Idle
        ELSE IF s.node[p][Other(side)] = nullptr \/ w = nullptr
        THEN op' = [kind |-> "fault"] /\ UNCHANGED <<root, node>>
        ELSE IF ~ IsRed(t, t.node[w].left) /\ ~ IsRed(t, t.node[w].right)
        THEN Become(Color(t, w, "RED")) /\ op' = Turned(p)
        ELSE Become(b) /\ op' = Turned(b.root)
    BY <1>1, <1>2, <1>3, <1>4, <1>5, <1>6, <1>7, <1>8, Zenon DEF rb_delete_fixup
  <1>10. "RED" \in Colors /\ "BLACK" \in Colors
    BY DEF Colors
  <1>11. CASE Become(Color(s, x, "BLACK")) /\ op' = Idle
    <2>1. PICK u : u = Color(s, x, "BLACK")
      OBVIOUS
    <2>2. Repainted(s, u)
      BY <1>8, <1>10, <2>1, ColorSound
    <2>3. Sound(u) /\ Keeps(s, u) /\ Become(u)
      BY <1>11, <2>1, <2>2 DEF Repainted
    <2>4. Tree' = u
      BY <2>3, Became DEF Sound, Typed
    <2>5. QED
      BY <1>1, <1>11, <2>3, <2>4, FixupOver
  <1>12. CASE op' = [kind |-> "fault"] /\ UNCHANGED <<root, node>>
    <2>1. Tree' = s
      BY <1>1, <1>12 DEF Tree
    <2>2. QED
      BY <1>1, <1>8, <1>12, <2>1, FixupOver DEF Keeps
  <1>13. ASSUME x # root, s.node[p][Other(side)] # nullptr
         PROVE  /\ p \in LiveOf(s) /\ side \in Sides
                /\ Keeps(s, t) /\ Sound(t) /\ p \in LiveOf(t)
    <2>1. p \in LiveOf(s) /\ side \in Sides
      BY <1>3, <1>4, <1>8, <1>13, LeadsTo
    <2>2. Keeps(s, t)
      BY <1>5, <1>8, <1>13, <2>1, SisterKeeps
    <2>3. QED
      BY <2>1, <2>2 DEF Keeps
  <1>14. CASE /\ x # root /\ s.node[p][Other(side)] # nullptr /\ w # nullptr
              /\ Become(Color(t, w, "RED")) /\ op' = Turned(p)
    <2>1. w \in LiveOf(t)
      BY <1>6, <1>13, <1>14, Others, ChildIs
    <2>2. PICK u : u = Color(t, w, "RED")
      OBVIOUS
    <2>3. Repainted(t, u)
      BY <1>10, <1>13, <1>14, <2>1, <2>2, ColorSound
    <2>4. Keeps(s, u) /\ Become(u)
      BY <1>13, <1>14, <2>2, <2>3, KeepsTwice DEF Repainted
    <2>5. Tree' = u
      BY <2>4, Became DEF Keeps, Sound, Typed
    <2>6. QED
      BY <1>1, <1>8, <1>13, <1>14, <2>4, <2>5, TurnsOn
  <1>15. CASE /\ x # root /\ s.node[p][Other(side)] # nullptr /\ w # nullptr
              /\ IsRed(t, t.node[w].left) \/ IsRed(t, t.node[w].right)
              /\ Become(b) /\ op' = Turned(b.root)
    <2>1. Keeps(t, b)
      BY <1>6, <1>7, <1>13, <1>15, BorrowedKeeps
    <2>2. Keeps(s, b)
      BY <1>13, <1>15, <2>1, KeepsTwice
    <2>3. b.root \in LiveOf(s)
      <3>1. Sound(b) /\ x \in LiveOf(b)
        BY <1>8, <2>2 DEF Keeps
      <3>2. QED
        BY <2>2, <3>1, RootLive DEF Keeps
    <2>4. Tree' = b
      BY <1>15, <2>2, Became DEF Keeps, Sound, Typed
    <2>5. QED
      BY <1>1, <1>8, <1>15, <2>2, <2>3, <2>4, TurnsOn
  <1>16. QED
    BY <1>9, <1>11, <1>12, <1>14, <1>15

-----------------------------------------------------------------------------
(* Walks down the tree.                                                    *)

Size == Cardinality(Nodes)

LEMMA SizeIsNat == Size \in Nat
  BY RbTreeAssumption, FS_CardinalityType DEF Size

(* Each node of the walk is a child of the one before.                     *)
Walk(t, w) ==
  /\ w \in [0 .. Size -> LiveOf(t) \cup {nullptr}]
  /\ \A k \in 1 .. Size : w[k] # nullptr => /\ w[k - 1] # nullptr
                                            /\ t.node[w[k]].parent = w[k - 1]

(* No node comes twice, and so the walk ends.                              *)
LEMMA WalkEnds ==
  ASSUME NEW t, Sound(t), NEW w, Walk(t, w)
  PROVE  w[Size] = nullptr
  <1> SUFFICES ASSUME w[Size] # nullptr PROVE FALSE
    OBVIOUS
  <1>1. PICK n \in Nat : n = Size
    BY SizeIsNat
  <1>2. \A k \in 0 .. n : w[k] # nullptr
    <2> DEFINE S == {k \in 0 .. n : w[n - k] # nullptr}
    <2>1. 0 \in S
      BY <1>1
    <2>2. \A k \in 1 .. n : k - 1 \in S => k \in S
      <3> SUFFICES ASSUME NEW k \in 1 .. n, k - 1 \in S PROVE k \in S
        OBVIOUS
      <3>1. PICK m \in 1 .. n : m = n - (k - 1)
        BY <1>1
      <3>2. w[m] # nullptr /\ m - 1 = n - k
        BY <3>1
      <3>3. w[m - 1] # nullptr
        BY <1>1, <3>2 DEF Walk
      <3>4. QED
        BY <1>1, <3>2, <3>3
    <2>3. \A k \in 0 .. n : k \in S
      <3> HIDE DEF S
      <3>1. QED
        BY <2>1, <2>2, UpTo
    <2>4. SUFFICES ASSUME NEW k \in 0 .. n PROVE w[k] # nullptr
      OBVIOUS
    <2>5. n - k \in S /\ n - (n - k) = k
      BY <2>3
    <2>6. QED
      BY <2>5
  <1>3. \A k \in 0 .. n : w[k] \in LiveOf(t)
    BY <1>1, <1>2 DEF Walk
  <1>4. \A k \in 1 .. n : t.node[w[k]].parent = w[k - 1]
    BY <1>1, <1>2 DEF Walk
  <1>5. \A i, j \in 0 .. n : i < j => w[i] # w[j]
    <2> SUFFICES ASSUME NEW i \in 0 .. n, NEW j \in 0 .. n, i < j, w[i] = w[j] PROVE FALSE
      OBVIOUS
    <2>1. PICK S : S = {w[k] : k \in i + 1 .. j}
      OBVIOUS
    <2>2. \A k \in i + 1 .. j : w[k] \in S
      BY <2>1
    <2>3. w[i] \in S
      <3>1. j \in i + 1 .. j
        OBVIOUS
      <3>2. QED
        BY <2>2, <3>1
    <2>4. ASSUME NEW m \in S PROVE m \in LiveOf(t) /\ t.node[m].parent \in S
      <3>1. PICK k \in i + 1 .. j : m = w[k]
        BY <2>1
      <3>2. k \in 1 .. n
        BY <3>1
      <3>3. m \in LiveOf(t) /\ t.node[m].parent = w[k - 1]
        BY <1>3, <1>4, <3>1, <3>2
      <3>4. k - 1 = i \/ k - 1 \in i + 1 .. j
        BY <3>1
      <3>5. QED
        BY <2>2, <2>3, <3>3, <3>4
    <2>5. S = {}
      BY <2>4, NoCycle
    <2>6. QED
      BY <2>3, <2>5
  <1>6. PICK s : s = [i \in 1 .. n + 1 |-> w[i - 1]]
    OBVIOUS
  <1>7. \A i \in 1 .. n + 1 : i - 1 \in 0 .. n /\ s[i] = w[i - 1]
    BY <1>6
  <1>8. s \in [1 .. n + 1 -> Nodes]
    <2>1. \A i \in 1 .. n + 1 : s[i] \in Nodes
      BY <1>3, <1>7 DEF LiveOf
    <2>2. QED
      BY <1>6, <2>1
  <1>9. \A i, j \in 1 .. n + 1 : s[i] = s[j] => i = j
    <2> SUFFICES ASSUME NEW i \in 1 .. n + 1, NEW j \in 1 .. n + 1, s[i] = s[j], i # j PROVE FALSE
      OBVIOUS
    <2>1. w[i - 1] = w[j - 1] /\ i - 1 \in 0 .. n /\ j - 1 \in 0 .. n
      BY <1>7
    <2>2. i - 1 < j - 1 \/ j - 1 < i - 1
      OBVIOUS
    <2>3. QED
      BY <1>5, <2>1, <2>2
  <1>10. n + 1 <= Cardinality(Nodes)
    BY <1>1, <1>8, <1>9, InjectiveLength, RbTreeAssumption
  <1>11. QED
    BY <1>1, <1>10 DEF Size

(* The recursions of the searches.                                         *)
SearchBody(t, key, h) ==
  h = [k \in 0 .. Cardinality(Nodes) |->
         IF k = 0 THEN t.root
         ELSE IF h[k - 1] = nullptr THEN nullptr
         ELSE IF t.node[h[k - 1]].key = key THEN h[k - 1]
         ELSE IF key < t.node[h[k - 1]].key THEN t.node[h[k - 1]].left ELSE t.node[h[k - 1]].right]

AboveBody(t, key, h) ==
  h = [k \in 0 .. Cardinality(Nodes) |->
         IF k = 0 THEN t.root
         ELSE IF h[k - 1] = nullptr THEN nullptr
         ELSE IF key < t.node[h[k - 1]].key THEN t.node[h[k - 1]].left ELSE t.node[h[k - 1]].right]

MinBody(t, n, h) ==
  h = [k \in 0 .. Cardinality(Nodes) |->
         IF k = 0 THEN n
         ELSE IF t.node[h[k - 1]].left = nullptr THEN h[k - 1] ELSE t.node[h[k - 1]].left]

LEMMA SearchIs ==
  ASSUME NEW t, NEW key
  PROVE  rb_search(t, key) = (CHOOSE h : SearchBody(t, key, h))[Size]
  BY Zenon DEF rb_search, Descent, SearchBody, Size

LEMMA AboveIs ==
  ASSUME NEW t, NEW key, NEW w, w = CHOOSE h : AboveBody(t, key, h)
  PROVE  Above(t, key) =
           IF t.root = nullptr THEN nullptr
           ELSE w[CHOOSE k \in DOMAIN w :
                    w[k] # nullptr /\ (k + 1 \in DOMAIN w => w[k + 1] = nullptr)]
  <1>1. Above(t, key) =
          IF t.root = nullptr THEN nullptr
          ELSE (CHOOSE h : AboveBody(t, key, h))[
                 CHOOSE k \in DOMAIN (CHOOSE h : AboveBody(t, key, h)) :
                   /\ (CHOOSE h : AboveBody(t, key, h))[k] # nullptr
                   /\ (k + 1 \in DOMAIN (CHOOSE h : AboveBody(t, key, h))
                        => (CHOOSE h : AboveBody(t, key, h))[k + 1] = nullptr)]
    BY Zenon DEF Above, Descent, AboveBody
  <1>2. QED
    BY <1>1, Zenon

LEMMA MinIs ==
  ASSUME NEW t, NEW n
  PROVE  rb_minimum(t, n) = (CHOOSE h : MinBody(t, n, h))[Size]
  BY Zenon DEF rb_minimum, MinBody, Size

LEMMA SidesOf ==
  ASSUME NEW t, Sound(t), NEW n \in LiveOf(t)
  PROVE  /\ n # nullptr
         /\ t.node[n].left # nullptr => /\ t.node[n].left \in LiveOf(t)
                                        /\ t.node[t.node[n].left].parent = n
                                        /\ t.node[n].left # t.node[n].right
         /\ t.node[n].right # nullptr => /\ t.node[n].right \in LiveOf(t)
                                         /\ t.node[t.node[n].right].parent = n
  <1>1. n # nullptr
    BY RbTreeAssumption DEF LiveOf
  <1>2. "left" \in Sides /\ "right" \in Sides /\ Other("left") = "right"
    BY DEF Sides, Other
  <1>3. QED
    BY <1>1, <1>2 DEF Sound, Down

SearchWalk(t, key, w) ==
  /\ w \in [0 .. Size -> LiveOf(t) \cup {nullptr}]
  /\ w[0] = t.root
  /\ \A k \in 1 .. Size :
       w[k] = IF w[k - 1] = nullptr THEN nullptr
              ELSE IF t.node[w[k - 1]].key = key THEN w[k - 1]
              ELSE IF key < t.node[w[k - 1]].key THEN t.node[w[k - 1]].left
              ELSE t.node[w[k - 1]].right

LEMMA SearchWay ==
  ASSUME NEW t, Sound(t), NEW key \in Keys, NEW w, w = CHOOSE h : SearchBody(t, key, h)
  PROVE  SearchWalk(t, key, w)
  <1>1. PICK D : D = LiveOf(t) \cup {nullptr}
    OBVIOUS
  <1>2. PICK G : G = [n \in D |-> IF n = nullptr THEN nullptr
                                  ELSE IF t.node[n].key = key THEN n
                                  ELSE IF key < t.node[n].key THEN t.node[n].left
                                  ELSE t.node[n].right]
    OBVIOUS
  <1>3. \A n \in D : G[n] \in D
    BY <1>1, <1>2, SidesOf
  <1>4. G \in [D -> D]
    BY <1>2, <1>3
  <1>5. t.root \in D /\ Size \in Nat
    BY <1>1, SizeIsNat DEF Sound
  <1>6. PICK f \in [0 .. Size -> D] :
          f[0] = t.root /\ \A k \in 1 .. Size : f[k] = G[f[k - 1]]
    <2>1. PICK N \in Nat, r \in D : N = Size /\ r = t.root
      BY <1>5
    <2>2. Iterated(N, D, r, G)
      BY <1>4, <2>1, Iterates
    <2>3. QED
      BY <2>1, <2>2 DEF Iterated
  <1>7. SearchBody(t, key, f)
    <2>1. ASSUME NEW k \in 0 .. Size
          PROVE  f[k] = IF k = 0 THEN t.root
                        ELSE IF f[k - 1] = nullptr THEN nullptr
                        ELSE IF t.node[f[k - 1]].key = key THEN f[k - 1]
                        ELSE IF key < t.node[f[k - 1]].key THEN t.node[f[k - 1]].left
                        ELSE t.node[f[k - 1]].right
      <3>1. CASE k = 0
        BY <1>6, <3>1
      <3>2. CASE k # 0
        <4>1. k \in 1 .. Size /\ k - 1 \in 0 .. Size
          BY <1>5, <3>2
        <4>2. f[k] = G[f[k - 1]] /\ f[k - 1] \in D
          BY <1>6, <4>1
        <4>3. QED
          BY <1>2, <3>2, <4>2
      <3>3. QED
        BY <3>1, <3>2
    <2>2. QED
      BY <1>6, <2>1 DEF SearchBody, Size
  <1>8. SearchBody(t, key, w)
    BY <1>7, Zenon
  <1>9. /\ w[0] = t.root
        /\ \A k \in 1 .. Size :
              w[k] = IF w[k - 1] = nullptr THEN nullptr
                     ELSE IF t.node[w[k - 1]].key = key THEN w[k - 1]
                     ELSE IF key < t.node[w[k - 1]].key THEN t.node[w[k - 1]].left
                     ELSE t.node[w[k - 1]].right
    <2>1. PICK N \in Nat : N = Size /\ N = Cardinality(Nodes)
      BY <1>5 DEF Size
    <2>2. w = [k \in 0 .. N |->
                 IF k = 0 THEN t.root
                 ELSE IF w[k - 1] = nullptr THEN nullptr
                 ELSE IF t.node[w[k - 1]].key = key THEN w[k - 1]
                 ELSE IF key < t.node[w[k - 1]].key THEN t.node[w[k - 1]].left
                 ELSE t.node[w[k - 1]].right]
      BY <1>8, <2>1 DEF SearchBody
    <2>3. 0 \in 0 .. N /\ \A k \in 1 .. N : k \in 0 .. N /\ k # 0
      OBVIOUS
    <2>4. \A k \in 0 .. N :
            w[k] = IF k = 0 THEN t.root
                   ELSE IF w[k - 1] = nullptr THEN nullptr
                   ELSE IF t.node[w[k - 1]].key = key THEN w[k - 1]
                   ELSE IF key < t.node[w[k - 1]].key THEN t.node[w[k - 1]].left
                   ELSE t.node[w[k - 1]].right
      BY <2>2, Zenon
    <2>5. QED
      BY <2>1, <2>3, <2>4
  <1>10. \A k \in 0 .. Size : w[k] \in D
    <2> DEFINE S == {k \in 0 .. Size : w[k] \in D}
    <2>1. 0 \in S
      BY <1>5, <1>9
    <2>2. ASSUME NEW k \in 1 .. Size, k - 1 \in S PROVE k \in S
      <3>1. w[k] = G[w[k - 1]] /\ w[k - 1] \in D
        BY <1>2, <1>9, <2>2
      <3>2. QED
        BY <1>3, <1>5, <3>1
    <2>3. \A k \in 0 .. Size : k \in S
      <3> HIDE DEF S
      <3>1. QED
        BY <1>5, <2>1, <2>2, UpTo
    <2>4. QED
      BY <2>3
  <1>11. w = [k \in 0 .. Size |-> w[k]]
    BY <1>8 DEF SearchBody, Size
  <1>12. w \in [0 .. Size -> D]
    BY <1>10, <1>11
  <1>13. QED
    BY <1>1, <1>9, <1>12 DEF SearchWalk

(* What rb_search finds is a node with the key.                            *)
LEMMA SearchHits ==
  ASSUME NEW t, Sound(t), NEW key \in Keys, NEW z, z = rb_search(t, key), z # nullptr
  PROVE  z \in LiveOf(t) /\ t.node[z].key = key
  <1>1. PICK w : w = CHOOSE h : SearchBody(t, key, h)
    OBVIOUS
  <1>2. z = w[Size]
    BY <1>1, SearchIs
  <1>3. /\ w \in [0 .. Size -> LiveOf(t) \cup {nullptr}]
        /\ \A k \in 1 .. Size :
             w[k] = IF w[k - 1] = nullptr THEN nullptr
                    ELSE IF t.node[w[k - 1]].key = key THEN w[k - 1]
                    ELSE IF key < t.node[w[k - 1]].key THEN t.node[w[k - 1]].left
                    ELSE t.node[w[k - 1]].right
    BY <1>1, SearchWay DEF SearchWalk
  <1>4. Size \in Nat
    BY SizeIsNat
  <1>5. z \in LiveOf(t)
    BY <1>2, <1>3, <1>4
  <1>6. ASSUME t.node[z].key # key PROVE FALSE
    <2> DEFINE S == {k \in 0 .. Size : w[k] # nullptr /\ t.node[w[k]].key # key}
    <2>1. Size \in S
      BY <1>2, <1>4, <1>6
    <2>2. ASSUME NEW k \in 1 .. Size, k \in S PROVE k - 1 \in S
      BY <1>3, <1>4, <2>2
    <2>3. \A k \in 0 .. Size : k \in S
      <3> HIDE DEF S
      <3>1. QED
        BY <1>4, <2>1, <2>2, DownTo
    <2>4. ASSUME NEW k \in 1 .. Size
          PROVE  w[k - 1] # nullptr /\ t.node[w[k]].parent = w[k - 1]
      <3>1. k \in S /\ k - 1 \in S /\ k - 1 \in 0 .. Size
        BY <1>4, <2>3
      <3>2. PICK m \in LiveOf(t) : m = w[k - 1]
        BY <1>3, <3>1
      <3>3. w[k] = t.node[m].left \/ w[k] = t.node[m].right
        BY <1>3, <3>1, <3>2
      <3>4. QED
        BY <3>1, <3>2, <3>3, SidesOf
    <2>5. Walk(t, w)
      BY <1>3, <2>4 DEF Walk
    <2>6. QED
      BY <1>2, <2>5, WalkEnds
  <1>7. QED
    BY <1>5, <1>6

AboveWalk(t, key, w) ==
  /\ w \in [0 .. Size -> LiveOf(t) \cup {nullptr}]
  /\ w[0] = t.root
  /\ \A k \in 1 .. Size :
       w[k] = IF w[k - 1] = nullptr THEN nullptr
              ELSE IF key < t.node[w[k - 1]].key THEN t.node[w[k - 1]].left
              ELSE t.node[w[k - 1]].right

LEMMA AboveWay ==
  ASSUME NEW t, Sound(t), NEW key, NEW w, w = CHOOSE h : AboveBody(t, key, h)
  PROVE  AboveWalk(t, key, w)
  <1>1. PICK D : D = LiveOf(t) \cup {nullptr}
    OBVIOUS
  <1>2. PICK G : G = [n \in D |-> IF n = nullptr THEN nullptr
                                  ELSE IF key < t.node[n].key THEN t.node[n].left
                                  ELSE t.node[n].right]
    OBVIOUS
  <1>3. \A n \in D : G[n] \in D
    BY <1>1, <1>2, SidesOf
  <1>4. G \in [D -> D]
    BY <1>2, <1>3
  <1>5. PICK N \in Nat, r \in D : N = Size /\ N = Cardinality(Nodes) /\ r = t.root
    BY <1>1, SizeIsNat DEF Sound, Size
  <1>6. PICK f \in [0 .. N -> D] : f[0] = r /\ \A k \in 1 .. N : f[k] = G[f[k - 1]]
    <2>1. Iterated(N, D, r, G)
      BY <1>4, <1>5, Iterates
    <2>2. QED
      BY <2>1 DEF Iterated
  <1>7. AboveBody(t, key, f)
    <2>1. ASSUME NEW k \in 0 .. N
          PROVE  f[k] = IF k = 0 THEN t.root
                        ELSE IF f[k - 1] = nullptr THEN nullptr
                        ELSE IF key < t.node[f[k - 1]].key THEN t.node[f[k - 1]].left
                        ELSE t.node[f[k - 1]].right
      <3>1. CASE k = 0
        BY <1>5, <1>6, <3>1
      <3>2. CASE k # 0
        <4>1. k \in 1 .. N /\ k - 1 \in 0 .. N
          BY <1>5, <3>2
        <4>2. f[k] = G[f[k - 1]] /\ f[k - 1] \in D
          BY <1>6, <4>1
        <4>3. QED
          BY <1>2, <3>2, <4>2
      <3>3. QED
        BY <3>1, <3>2
    <2>2. QED
      BY <1>5, <1>6, <2>1 DEF AboveBody
  <1>8. AboveBody(t, key, w)
    BY <1>7, Zenon
  <1>9. \A k \in 0 .. N :
          w[k] = IF k = 0 THEN t.root
                 ELSE IF w[k - 1] = nullptr THEN nullptr
                 ELSE IF key < t.node[w[k - 1]].key THEN t.node[w[k - 1]].left
                 ELSE t.node[w[k - 1]].right
    <2>1. w = [k \in 0 .. N |->
                 IF k = 0 THEN t.root
                 ELSE IF w[k - 1] = nullptr THEN nullptr
                 ELSE IF key < t.node[w[k - 1]].key THEN t.node[w[k - 1]].left
                 ELSE t.node[w[k - 1]].right]
      BY <1>5, <1>8 DEF AboveBody
    <2>2. QED
      BY <2>1, Zenon
  <1>10. /\ w[0] = t.root
         /\ \A k \in 1 .. N :
              w[k] = IF w[k - 1] = nullptr THEN nullptr
                     ELSE IF key < t.node[w[k - 1]].key THEN t.node[w[k - 1]].left
                     ELSE t.node[w[k - 1]].right
    <2>1. 0 \in 0 .. N /\ \A k \in 1 .. N : k \in 0 .. N /\ k # 0
      BY <1>5
    <2>2. QED
      BY <1>9, <2>1
  <1>11. \A k \in 0 .. N : w[k] \in D
    <2> DEFINE S == {k \in 0 .. N : w[k] \in D}
    <2>1. 0 \in S
      BY <1>5, <1>10
    <2>2. ASSUME NEW k \in 1 .. N, k - 1 \in S PROVE k \in S
      <3>1. w[k] = G[w[k - 1]] /\ w[k - 1] \in D
        BY <1>2, <1>10, <2>2
      <3>2. QED
        BY <1>3, <1>5, <3>1
    <2>3. \A k \in 0 .. N : k \in S
      <3> HIDE DEF S
      <3>1. QED
        BY <1>5, <2>1, <2>2, UpTo
    <2>4. QED
      BY <2>3
  <1>12. w = [k \in 0 .. N |-> w[k]]
    BY <1>5, <1>8 DEF AboveBody
  <1>13. w \in [0 .. N -> D]
    BY <1>11, <1>12
  <1>14. QED
    BY <1>1, <1>5, <1>10, <1>13 DEF AboveWalk

(* A new key goes where its parent has no child.                           *)
LEMMA AboveIsFree ==
  ASSUME NEW t, Sound(t), t.root # nullptr, NEW key, NEW y, y = Above(t, key)
  PROVE  /\ y \in LiveOf(t)
         /\ t.node[y][IF key < t.node[y].key THEN "left" ELSE "right"] = nullptr
         /\ \E w : AboveWalk(t, key, w) /\ \E k \in 0 .. Size : y = w[k]
  <1>1. PICK w : w = CHOOSE h : AboveBody(t, key, h)
    OBVIOUS
  <1>0. AboveWalk(t, key, w)
    BY <1>1, AboveWay
  <1>2. PICK N \in Nat : N = Size
    BY SizeIsNat
  <1>3. /\ w \in [0 .. N -> LiveOf(t) \cup {nullptr}]
        /\ w[0] = t.root
        /\ \A k \in 1 .. N :
             w[k] = IF w[k - 1] = nullptr THEN nullptr
                    ELSE IF key < t.node[w[k - 1]].key THEN t.node[w[k - 1]].left
                    ELSE t.node[w[k - 1]].right
    <2>1. AboveWalk(t, key, w)
      BY <1>0
    <2>2. QED
      BY <1>2, <2>1 DEF AboveWalk
  <1>4. w[N] = nullptr
    <2>1. ASSUME NEW k \in 1 .. N, w[k] # nullptr
          PROVE  w[k - 1] # nullptr /\ t.node[w[k]].parent = w[k - 1]
      <3>1. k - 1 \in 0 .. N
        BY <1>2
      <3>2. PICK m \in LiveOf(t) : m = w[k - 1]
        BY <1>3, <2>1, <3>1
      <3>3. w[k] = t.node[m].left \/ w[k] = t.node[m].right
        BY <1>3, <2>1, <3>2
      <3>4. QED
        BY <2>1, <3>2, <3>3, SidesOf
    <2>2. Walk(t, w)
      BY <1>2, <1>3, <2>1 DEF Walk
    <2>3. QED
      BY <1>2, <2>2, WalkEnds
  <1>5. PICK P : P = {k \in 0 .. N : w[k] # nullptr /\ (k + 1 \in 0 .. N => w[k + 1] = nullptr)}
    OBVIOUS
  <1>6. P # {}
    <2>1. PICK E : E = {k \in 0 .. N : w[k] = nullptr}
      OBVIOUS
    <2>2. E \subseteq Nat /\ E # {}
      BY <1>2, <1>4, <2>1
    <2>3. PICK e \in E : \A k \in E : e <= k
      BY <2>2, NatMin
    <2>4. e # 0 /\ e \in 0 .. N /\ w[e] = nullptr
      BY <1>3, <2>1, <2>3
    <2>5. PICK d \in 0 .. N : e = d + 1
      <3>1. e - 1 \in 0 .. N /\ e = (e - 1) + 1
        BY <1>2, <2>4
      <3>2. QED
        BY <3>1
    <2>6. d \notin E
      BY <2>3, <2>4, <2>5
    <2>7. d \in P
      BY <1>5, <2>1, <2>4, <2>5, <2>6
    <2>8. QED
      BY <2>7
  <1>7. PICK k : k = CHOOSE i \in DOMAIN w :
                       w[i] # nullptr /\ (i + 1 \in DOMAIN w => w[i + 1] = nullptr)
    OBVIOUS
  <1>8. y = w[k]
    BY <1>1, <1>7, AboveIs, Zenon
  <1>9. k \in 0 .. N /\ w[k] # nullptr /\ (k + 1 \in 0 .. N => w[k + 1] = nullptr)
    <2>1. DOMAIN w = 0 .. N
      BY <1>3
    <2>2. \E i \in DOMAIN w : w[i] # nullptr /\ (i + 1 \in DOMAIN w => w[i + 1] = nullptr)
      BY <1>5, <1>6, <2>1
    <2>3. /\ k \in DOMAIN w
          /\ w[k] # nullptr /\ (k + 1 \in DOMAIN w => w[k + 1] = nullptr)
      BY <1>7, <2>2, Zenon
    <2>4. QED
      BY <2>1, <2>3
  <1>10. k + 1 \in 1 .. N /\ w[k + 1] = nullptr /\ (k + 1) - 1 = k
    BY <1>2, <1>4, <1>9
  <1>11. nullptr = IF key < t.node[y].key THEN t.node[y].left ELSE t.node[y].right
    BY <1>3, <1>8, <1>9, <1>10
  <1>12. k \in 0 .. Size /\ y = w[k]
    BY <1>2, <1>8, <1>9
  <1>13. \E v : AboveWalk(t, key, v) /\ \E i \in 0 .. Size : y = v[i]
    BY <1>0, <1>12
  <1>14. QED
    BY <1>3, <1>8, <1>9, <1>11, <1>13

(* A way down from the root, on the side of the key at each node.          *)
OnWay(t, key, P) ==
  /\ P \subseteq LiveOf(t)
  /\ \A n \in LiveOf(t) : \A side \in Sides :
       t.node[n][side] \in P => n \in P /\ OnSide(side, key, t.node[n].key)

LEMMA WayIsOnWay ==
  ASSUME NEW t, Sound(t), NEW key \in Keys, NEW w, AboveWalk(t, key, w),
         NEW P, P = {w[k] : k \in 0 .. Size} \ {nullptr}
  PROVE  OnWay(t, key, P)
  <1>1. PICK N \in Nat : N = Size
    BY SizeIsNat
  <1>2. /\ w \in [0 .. N -> LiveOf(t) \cup {nullptr}]
        /\ w[0] = t.root
        /\ \A k \in 1 .. N :
             w[k] = IF w[k - 1] = nullptr THEN nullptr
                    ELSE IF key < t.node[w[k - 1]].key THEN t.node[w[k - 1]].left
                    ELSE t.node[w[k - 1]].right
    BY <1>1 DEF AboveWalk
  <1>3. P \subseteq LiveOf(t)
    BY <1>1, <1>2
  <1>4. ASSUME NEW n \in LiveOf(t), NEW side \in Sides, NEW c \in P, c = t.node[n][side]
        PROVE  n \in P /\ OnSide(side, key, t.node[n].key)
    <2>1. PICK k \in 0 .. N : c = w[k]
      BY <1>1
    <2>2. c # nullptr /\ c \in LiveOf(t)
      BY <1>3
    <2>3. t.node[c].parent = n /\ SideOf(t, c) = side
      BY <1>4, <2>2, ChildIs
    <2>4. n # nullptr
      BY RbTreeAssumption DEF LiveOf
    <2>5. k # 0
      <3>1. c # t.root
        BY <2>2, <2>3, <2>4 DEF Sound, Up
      <3>2. QED
        BY <1>2, <2>1, <3>1
    <2>6. k \in 1 .. N /\ k - 1 \in 0 .. N
      BY <2>5
    <2>7. w[k - 1] # nullptr
      BY <1>2, <2>1, <2>2, <2>6
    <2>8. PICK m \in LiveOf(t) : m = w[k - 1]
      BY <1>2, <2>6, <2>7
    <2>9. m \in P
      BY <1>1, <2>6, <2>7, <2>8
    <2>10. c = IF key < t.node[m].key THEN t.node[m].left ELSE t.node[m].right
      BY <1>2, <2>1, <2>6, <2>7, <2>8
    <2>11. PICK s \in Sides : s = IF key < t.node[m].key THEN "left" ELSE "right"
      BY DEF Sides
    <2>12. c = t.node[m][s]
      BY <2>10, <2>11
    <2>13. t.node[c].parent = m /\ SideOf(t, c) = s
      BY <2>2, <2>12, ChildIs
    <2>14. t.node[m].key \in Int /\ key \in Int
      BY NodeFields, RbTreeAssumption DEF Sound
    <2>15. OnSide(s, key, t.node[m].key)
      BY <2>11, <2>14 DEF OnSide
    <2>16. QED
      BY <2>3, <2>9, <2>13, <2>15
  <1>5. QED
    BY <1>3, <1>4 DEF OnWay

MinWalk(t, n, w) ==
  /\ w \in [0 .. Size -> LiveOf(t)]
  /\ w[0] = n
  /\ \A k \in 1 .. Size :
       w[k] = IF t.node[w[k - 1]].left = nullptr THEN w[k - 1] ELSE t.node[w[k - 1]].left

LEMMA MinWay ==
  ASSUME NEW t, Sound(t), NEW n \in LiveOf(t), NEW w, w = CHOOSE h : MinBody(t, n, h)
  PROVE  MinWalk(t, n, w)
  <1>1. PICK D : D = LiveOf(t)
    OBVIOUS
  <1>2. PICK G : G = [m \in D |-> IF t.node[m].left = nullptr THEN m ELSE t.node[m].left]
    OBVIOUS
  <1>3. \A m \in D : G[m] \in D
    BY <1>1, <1>2, SidesOf
  <1>4. G \in [D -> D]
    BY <1>2, <1>3
  <1>5. PICK N \in Nat : N = Size /\ N = Cardinality(Nodes) /\ n \in D
    BY <1>1, SizeIsNat DEF Size
  <1>6. PICK f \in [0 .. N -> D] : f[0] = n /\ \A k \in 1 .. N : f[k] = G[f[k - 1]]
    <2>1. Iterated(N, D, n, G)
      BY <1>4, <1>5, Iterates
    <2>2. QED
      BY <2>1 DEF Iterated
  <1>7. MinBody(t, n, f)
    <2>1. ASSUME NEW k \in 0 .. N
          PROVE  f[k] = IF k = 0 THEN n
                        ELSE IF t.node[f[k - 1]].left = nullptr THEN f[k - 1]
                        ELSE t.node[f[k - 1]].left
      <3>1. CASE k = 0
        BY <1>5, <1>6, <3>1
      <3>2. CASE k # 0
        <4>1. k \in 1 .. N /\ k - 1 \in 0 .. N
          BY <1>5, <3>2
        <4>2. f[k] = G[f[k - 1]] /\ f[k - 1] \in D
          BY <1>6, <4>1
        <4>3. QED
          BY <1>2, <3>2, <4>2
      <3>3. QED
        BY <3>1, <3>2
    <2>2. QED
      BY <1>5, <1>6, <2>1 DEF MinBody
  <1>8. MinBody(t, n, w)
    BY <1>7, Zenon
  <1>9. w = [k \in 0 .. N |->
               IF k = 0 THEN n
               ELSE IF t.node[w[k - 1]].left = nullptr THEN w[k - 1]
               ELSE t.node[w[k - 1]].left]
    BY <1>5, <1>8 DEF MinBody
  <1>10. \A k \in 0 .. N : w[k] = IF k = 0 THEN n
                                 ELSE IF t.node[w[k - 1]].left = nullptr THEN w[k - 1]
                                 ELSE t.node[w[k - 1]].left
    BY <1>9, Zenon
  <1>11. /\ w[0] = n
         /\ \A k \in 1 .. N :
              w[k] = IF t.node[w[k - 1]].left = nullptr THEN w[k - 1] ELSE t.node[w[k - 1]].left
    <2>1. 0 \in 0 .. N /\ \A k \in 1 .. N : k \in 0 .. N /\ k # 0
      BY <1>5
    <2>2. QED
      BY <1>10, <2>1
  <1>12. \A k \in 0 .. N : w[k] \in D
    <2> DEFINE S == {k \in 0 .. N : w[k] \in D}
    <2>1. 0 \in S
      BY <1>5, <1>11
    <2>2. ASSUME NEW k \in 1 .. N, k - 1 \in S PROVE k \in S
      <3>1. w[k] = G[w[k - 1]] /\ w[k - 1] \in D
        BY <1>2, <1>11, <2>2
      <3>2. QED
        BY <1>3, <1>5, <3>1
    <2>3. \A k \in 0 .. N : k \in S
      <3> HIDE DEF S
      <3>1. QED
        BY <1>5, <2>1, <2>2, UpTo
    <2>4. QED
      BY <2>3
  <1>13. w = [k \in 0 .. N |-> w[k]]
    BY <1>5, <1>8 DEF MinBody
  <1>14. w \in [0 .. N -> D]
    BY <1>12, <1>13
  <1>15. QED
    BY <1>1, <1>5, <1>11, <1>14 DEF MinWalk

(* The way down to the left from n, which ends at y.                       *)
LeftWay(t, n, y, A) ==
  /\ A \subseteq LiveOf(t)
  /\ n \in A /\ y \in A /\ t.node[y].left = nullptr
  /\ \A m \in A : \/ m = n
                  \/ /\ t.node[m].parent \in A
                     /\ t.node[t.node[m].parent].left = m
  /\ \A m \in A \ {y} : t.node[m].left \in A

(* y has the least key of the way.                                         *)
LeastOf(t, y, A) ==
  \A B : Bounds(t, B) =>
    \A m \in A : t.node[y].key \in B[m] /\ t.node[y].key <= t.node[m].key

(* The least node behind z, and the way to it from the right child of z.   *)
LEMMA MinBelow ==
  ASSUME NEW t, Sound(t), NEW z \in LiveOf(t), NEW n, n = t.node[z].right, n # nullptr,
         NEW y, y = rb_minimum(t, n)
  PROVE  \E A : LeftWay(t, n, y, A) /\ LeastOf(t, y, A)
  <1>1. n \in LiveOf(t) /\ t.node[n].parent = z
    BY SidesOf
  <1>2. PICK w : w = CHOOSE h : MinBody(t, n, h)
    OBVIOUS
  <1>3. PICK N \in Nat : N = Size
    BY SizeIsNat
  <1>4. /\ w \in [0 .. N -> LiveOf(t)]
        /\ w[0] = n
        /\ \A k \in 1 .. N :
             w[k] = IF t.node[w[k - 1]].left = nullptr THEN w[k - 1] ELSE t.node[w[k - 1]].left
    <2>1. MinWalk(t, n, w)
      BY <1>1, <1>2, MinWay
    <2>2. QED
      BY <1>3, <2>1 DEF MinWalk
  <1>5. y = w[N]
    BY <1>2, <1>3, MinIs
  <1>6. PICK A : A = {w[k] : k \in 0 .. N}
    OBVIOUS
  <1>7. /\ A \subseteq LiveOf(t) /\ \A k \in 0 .. N : w[k] \in A
        /\ 0 \in 0 .. N /\ N \in 0 .. N
    BY <1>3, <1>4, <1>6
  <1>8. t.node[y].left = nullptr
    <2> SUFFICES ASSUME t.node[y].left # nullptr PROVE FALSE
      OBVIOUS
    <2> DEFINE S == {k \in 0 .. N : t.node[w[k]].left # nullptr}
    <2>1. N \in S
      BY <1>5, <1>7
    <2>2. ASSUME NEW k \in 1 .. N, k \in S PROVE k - 1 \in S
      BY <1>3, <1>4, <2>2
    <2>3. \A k \in 0 .. N : k \in S
      <3> HIDE DEF S
      <3>1. QED
        BY <1>3, <2>1, <2>2, DownTo
    <2>4. ASSUME NEW k \in 1 .. N
          PROVE  w[k - 1] # nullptr /\ t.node[w[k]].parent = w[k - 1]
      <3>1. k - 1 \in S /\ k - 1 \in 0 .. N
        BY <1>3, <2>3
      <3>2. PICK m \in LiveOf(t) : m = w[k - 1]
        BY <1>4, <3>1
      <3>3. w[k] = t.node[m].left /\ w[k] # nullptr
        BY <1>4, <3>1, <3>2
      <3>4. QED
        BY <3>2, <3>3, SidesOf
    <2>5. w \in [0 .. N -> LiveOf(t) \cup {nullptr}]
      BY <1>4
    <2>6. Walk(t, w)
      BY <1>3, <2>4, <2>5 DEF Walk
    <2>7. w[N] = nullptr
      BY <1>3, <2>6, WalkEnds
    <2>8. QED
      BY <1>4, <1>7, <2>7, SidesOf
  <1>9. ASSUME NEW m \in A
        PROVE  m = n \/ (t.node[m].parent \in A /\ t.node[t.node[m].parent].left = m)
    <2> DEFINE S == {k \in 0 .. N : \/ w[k] = n
                                    \/ /\ t.node[w[k]].parent \in A
                                       /\ t.node[t.node[w[k]].parent].left = w[k]}
    <2>1. 0 \in S
      BY <1>4, <1>7
    <2>2. ASSUME NEW k \in 1 .. N, k - 1 \in S PROVE k \in S
      <3>1. k \in 0 .. N /\ k - 1 \in 0 .. N
        BY <1>3
      <3>2. PICK v \in LiveOf(t) : v = w[k - 1] /\ v \in A
        BY <1>4, <1>7, <3>1
      <3>3. CASE t.node[v].left = nullptr
        <4>1. w[k] = w[k - 1]
          BY <1>4, <3>2, <3>3
        <4>2. QED
          BY <2>2, <3>1, <4>1
      <3>4. CASE t.node[v].left # nullptr
        <4>1. w[k] = t.node[v].left
          BY <1>4, <3>2, <3>4
        <4>2. t.node[w[k]].parent = v
          BY <3>4, <4>1, SidesOf
        <4>3. QED
          BY <3>1, <3>2, <4>1, <4>2
      <3>5. QED
        BY <3>3, <3>4
    <2>3. \A k \in 0 .. N : k \in S
      <3> HIDE DEF S
      <3>1. QED
        BY <1>3, <2>1, <2>2, UpTo
    <2>4. PICK k \in 0 .. N : m = w[k]
      BY <1>6
    <2>5. k \in S
      BY <2>3
    <2>6. QED
      BY <2>4, <2>5
  <1>10. n \in A /\ y \in A
    BY <1>4, <1>5, <1>7
  <1>11. ASSUME NEW m \in A, m # y PROVE t.node[m].left \in A
    <2>1. PICK i \in 0 .. N : m = w[i]
      BY <1>6
    <2>2. CASE t.node[m].left = nullptr
      <3> DEFINE S == {k \in 0 .. N : k >= i => w[k] = m}
      <3>1. 0 \in S
        BY <1>7, <2>1
      <3>2. ASSUME NEW k \in 1 .. N, k - 1 \in S PROVE k \in S
        <4>1. CASE k - 1 >= i
          BY <1>4, <2>2, <3>2, <4>1
        <4>2. CASE ~ k - 1 >= i
          BY <2>1, <4>2
        <4>3. QED
          BY <4>1, <4>2
      <3>3. \A k \in 0 .. N : k \in S
        <4> HIDE DEF S
        <4>1. QED
          BY <1>3, <3>1, <3>2, UpTo
      <3>4. N \in S /\ N >= i
        BY <1>7, <3>3
      <3>5. QED
        BY <1>5, <1>11, <3>4
    <2>3. CASE t.node[m].left # nullptr
      <3>1. i # N
        BY <1>5, <1>11, <2>1
      <3>2. i + 1 \in 1 .. N /\ (i + 1) - 1 = i /\ i + 1 \in 0 .. N
        BY <3>1
      <3>3. w[i + 1] = t.node[m].left
        BY <1>4, <2>1, <2>3, <3>2
      <3>4. QED
        BY <1>7, <3>2, <3>3
    <2>4. QED
      BY <2>2, <2>3
  <1>12. ASSUME NEW B, Bounds(t, B), NEW m \in A
         PROVE  t.node[y].key \in B[m] /\ t.node[y].key <= t.node[m].key
    <2>1. PICK ky : ky = t.node[y].key
      OBVIOUS
    <2> DEFINE S == {k \in 0 .. N : ky \in B[w[k]] /\ ky <= t.node[w[k]].key}
    <2>2. N \in S
      <3>1. y \in LiveOf(t)
        BY <1>7, <1>10
      <3>2. ky \in B[y] /\ ky \in Int
        BY <1>12, <2>1, <3>1, RbTreeAssumption DEF Bounds
      <3>3. QED
        BY <1>5, <1>7, <2>1, <3>2
    <2>3. ASSUME NEW k \in 1 .. N, k \in S PROVE k - 1 \in S
      <3>1. k - 1 \in 0 .. N
        BY <1>3
      <3>2. PICK v \in LiveOf(t) : v = w[k - 1]
        BY <1>4, <3>1
      <3>3. CASE t.node[v].left = nullptr
        <4>1. w[k] = w[k - 1]
          BY <1>4, <3>2, <3>3
        <4>2. QED
          BY <2>3, <3>1, <4>1
      <3>4. CASE t.node[v].left # nullptr
        <4>1. w[k] = t.node[v].left /\ w[k] = t.node[v]["left"]
          BY <1>4, <3>2, <3>4
        <4>2. "left" \in Sides
          BY DEF Sides
        <4>3. ky \in B[v] /\ OnSide("left", ky, t.node[v].key)
          BY <1>12, <2>3, <3>4, <4>1, <4>2 DEF Bounds
        <4>4. QED
          BY <3>1, <3>2, <4>3 DEF OnSide
      <3>5. QED
        BY <3>3, <3>4
    <2>4. \A k \in 0 .. N : k \in S
      <3> HIDE DEF S
      <3>1. QED
        BY <1>3, <2>2, <2>3, DownTo
    <2>5. PICK k \in 0 .. N : m = w[k]
      BY <1>6
    <2>6. k \in S
      BY <2>4
    <2>7. QED
      BY <2>1, <2>5, <2>6
  <1>13. LeftWay(t, n, y, A)
    BY <1>7, <1>8, <1>9, <1>10, <1>11 DEF LeftWay
  <1>14. LeastOf(t, y, A)
    BY <1>12 DEF LeastOf
  <1>15. QED
    BY <1>13, <1>14

(* Where the least node behind z is.                                       *)
Behind(t, z, y) ==
  LET p == t.node[z].parent
      q == t.node[y].parent
      x == t.node[y].right
  IN /\ y \in LiveOf(t) /\ t.node[y].left = nullptr
     /\ y # z /\ y # p /\ x # z /\ (x # nullptr => x # p)
     /\ y # t.node[z].left
     /\ q # z => /\ y # t.node[z].right
                 /\ q \in LiveOf(t) /\ t.node[q].left = y /\ q # p /\ q # y
                 /\ q # t.node[z].left
                 /\ x # t.node[z].right
     /\ q = z => y = t.node[z].right

WayBehind(t, z, y, A) ==
  /\ LeftWay(t, t.node[z].right, y, A) /\ LeastOf(t, y, A)
  /\ z \notin A /\ t.node[z].parent \notin A /\ t.node[z].left \notin A

LEMMA MinIsBehind ==
  ASSUME NEW t, Sound(t), NEW z \in LiveOf(t),
         t.node[z].left # nullptr, t.node[z].right # nullptr,
         NEW y, y = rb_minimum(t, t.node[z].right)
  PROVE  Behind(t, z, y) /\ \E A : WayBehind(t, z, y, A)
  <1>1. PICK n, l, p : n = t.node[z].right /\ l = t.node[z].left /\ p = t.node[z].parent
    OBVIOUS
  <1>2. PICK q, x : q = t.node[y].parent /\ x = t.node[y].right
    OBVIOUS
  <1>0. PICK A : LeftWay(t, n, y, A) /\ LeastOf(t, y, A)
    <2>1. n # nullptr /\ y = rb_minimum(t, n)
      BY <1>1
    <2>2. QED
      BY <1>1, <2>1, MinBelow
  <1>3. /\ A \in SUBSET LiveOf(t)
        /\ n \in A /\ y \in A /\ t.node[y].left = nullptr
        /\ \A m \in A : m = n \/ (t.node[m].parent \in A /\ t.node[t.node[m].parent].left = m)
    BY <1>0 DEF LeftWay
  <1>4. /\ t.node[n].parent = z /\ t.node[l].parent = z /\ l # n
        /\ l \in LiveOf(t) /\ n \in LiveOf(t)
    BY <1>1, SidesOf
  <1>5. \A m \in A : t.node[m].parent \in A \cup {z}
    BY <1>3, <1>4
  <1>6. z \notin A
    <2> SUFFICES ASSUME z \in A PROVE FALSE
      OBVIOUS
    <2>1. \A m \in A : t.node[m].parent \in A
      BY <1>5
    <2>2. A = {}
      BY <1>3, <2>1, NoCycle
    <2>3. QED
      BY <1>3, <2>2
  <1>7. p \notin A
    <2> SUFFICES ASSUME p \in A PROVE FALSE
      OBVIOUS
    <2>1. PICK B : B = A \cup {z}
      OBVIOUS
    <2>2. B \subseteq LiveOf(t) /\ \A m \in B : t.node[m].parent \in B
      BY <1>1, <1>3, <1>5, <2>1
    <2>3. B = {}
      BY <2>2, NoCycle
    <2>4. QED
      BY <2>1, <2>3
  <1>8. x # nullptr => x \in LiveOf(t) /\ t.node[x].parent = y
    BY <1>2, <1>3, SidesOf
  <1>9. nullptr \notin LiveOf(t)
    BY RbTreeAssumption DEF LiveOf
  <1>10. x # z
    BY <1>1, <1>3, <1>7, <1>8, <1>9
  <1>11. x # nullptr => x # p
    <2> SUFFICES ASSUME x # nullptr, x = p PROVE FALSE
      OBVIOUS
    <2>1. PICK B : B = A \cup {z, x}
      OBVIOUS
    <2>2. B \subseteq LiveOf(t) /\ \A m \in B : t.node[m].parent \in B
      BY <1>1, <1>3, <1>5, <1>8, <2>1
    <2>3. B = {}
      BY <2>2, NoCycle
    <2>4. QED
      BY <2>1, <2>3
  <1>12. l \notin A
    <2> SUFFICES ASSUME l \in A PROVE FALSE
      OBVIOUS
    <2>1. t.node[l].parent \in A
      BY <1>3, <1>4
    <2>2. QED
      BY <1>4, <1>6, <2>1
  <1>13. ASSUME q # z
         PROVE  /\ y # n /\ q \in A /\ t.node[q].left = y /\ q # y
                /\ x # n
    <2>1. y # n
      BY <1>2, <1>4, <1>13
    <2>2. q \in A /\ t.node[q].left = y
      BY <1>2, <1>3, <2>1
    <2>3. q # y
      BY <1>3, <1>9, <2>2
    <2>4. x # n
      <3>1. x = n => t.node[x].parent = y
        BY <1>4, <1>8, <1>9
      <3>2. QED
        BY <1>3, <1>4, <1>6, <3>1
    <2>5. QED
      BY <2>1, <2>2, <2>3, <2>4
  <1>14. q = z => y = n
    BY <1>2, <1>3, <1>6
  <1>15. Behind(t, z, y)
    BY <1>1, <1>2, <1>3, <1>6, <1>7, <1>10, <1>11, <1>12, <1>13, <1>14 DEF Behind
  <1>16. WayBehind(t, z, y, A)
    BY <1>0, <1>1, <1>6, <1>7, <1>12 DEF WayBehind
  <1>17. QED
    BY <1>15, <1>16

-----------------------------------------------------------------------------
(* Single assignments to fields.                                           *)

SideSet(t, u, n, side, v) ==
  /\ Typed(u) /\ LiveOf(u) = LiveOf(t) /\ u.root = t.root
  /\ \A m \in LiveOf(t) :
       /\ u.node[m].key = t.node[m].key
       /\ u.node[m].parent = t.node[m].parent
       /\ \A s \in Sides : u.node[m][s] = IF m = n /\ s = side THEN v ELSE t.node[m][s]

ParentSet(t, u, n, v) ==
  /\ Typed(u) /\ LiveOf(u) = LiveOf(t) /\ u.root = t.root
  /\ \A m \in LiveOf(t) :
       /\ u.node[m].key = t.node[m].key
       /\ u.node[m].parent = IF m = n THEN v ELSE t.node[m].parent
       /\ \A s \in Sides : u.node[m][s] = t.node[m][s]

NodeIs(t, u, n, r) ==
  /\ Typed(u) /\ LiveOf(u) = LiveOf(t) /\ u.root = t.root
  /\ u.node[n] = r /\ \A m \in Nodes \ {n} : u.node[m] = t.node[m]

LEMMA NodeSet ==
  ASSUME NEW t, Typed(t), NEW n \in LiveOf(t), NEW r \in NodeType,
         NEW u, u = [root |-> t.root, node |-> [t.node EXCEPT ![n] = r]]
  PROVE  NodeIs(t, u, n, r)
  <1>1. u.root = t.root /\ u.node = [t.node EXCEPT ![n] = r] /\ u = [root |-> u.root, node |-> u.node]
    OBVIOUS
  <1>2. n \in Nodes /\ t.node \in [Nodes -> NodeType \cup {Freed}] /\ t.root \in MaybeNode
    BY DEF Typed, LiveOf
  <1>3. r # Freed
    BY DEF NodeType, Freed
  <1>4. u.node[n] = r /\ \A m \in Nodes \ {n} : u.node[m] = t.node[m]
    BY <1>1, <1>2
  <1>5. u.node \in [Nodes -> NodeType \cup {Freed}]
    BY <1>1, <1>2
  <1>6. LiveOf(u) = LiveOf(t)
    BY <1>3, <1>4 DEF LiveOf
  <1>7. QED
    BY <1>1, <1>2, <1>4, <1>5, <1>6 DEF Typed, NodeIs

LEMMA SideIs ==
  ASSUME NEW t, NEW u, NEW n, NEW r, NodeIs(t, u, n, r), NEW side \in Sides, NEW v, r[side] = v,
         r[Other(side)] = t.node[n][Other(side)],
         r.parent = t.node[n].parent, r.key = t.node[n].key
  PROVE  SideSet(t, u, n, side, v)
  <1>1. ASSUME NEW m \in LiveOf(t)
        PROVE  /\ u.node[m].key = t.node[m].key
               /\ u.node[m].parent = t.node[m].parent
               /\ \A s \in Sides : u.node[m][s] = IF m = n /\ s = side THEN v ELSE t.node[m][s]
    <2>1. CASE m = n
      <3>1. Other(side) # side /\ \A s \in Sides : s = side \/ s = Other(side)
        BY Others
      <3>2. u.node[m] = r
        BY <2>1 DEF NodeIs
      <3>3. QED
        BY <2>1, <3>1, <3>2
    <2>2. CASE m # n
      BY <2>2 DEF NodeIs, LiveOf
    <2>3. QED
      BY <2>1, <2>2
  <1>2. QED
    BY <1>1 DEF SideSet, NodeIs

LEMMA SetsSide ==
  ASSUME NEW t, Typed(t), NEW n \in LiveOf(t), NEW side \in Sides, NEW v \in MaybeNode,
         NEW u, u = [t EXCEPT !.node[n][side] = v]
  PROVE  SideSet(t, u, n, side, v)
  <1>1. PICK r : r = [t.node[n] EXCEPT ![side] = v]
    OBVIOUS
  <1>2. u = [root |-> t.root, node |-> [t.node EXCEPT ![n] = r]]
    <2>1. PICK f, g : t = [root |-> f, node |-> g]
      BY DEF Typed
    <2>2. u = [t EXCEPT !.node = [t.node EXCEPT ![n] = [t.node[n] EXCEPT ![side] = v]]]
      OBVIOUS
    <2>3. QED
      BY <1>1, <2>1, <2>2
  <1>3. t.node[n] \in NodeType
    BY NodeFields
  <1>4. /\ r \in NodeType /\ r[side] = v /\ r[Other(side)] = t.node[n][Other(side)]
        /\ r.parent = t.node[n].parent /\ r.key = t.node[n].key
    BY <1>1, <1>3, SetSide
  <1>5. NodeIs(t, u, n, r)
    BY <1>2, <1>4, NodeSet
  <1>6. QED
    BY <1>4, <1>5, SideIs

LEMMA SetsParent ==
  ASSUME NEW t, Typed(t), NEW n \in LiveOf(t) \cup {nullptr}, NEW v \in MaybeNode,
         NEW u, u = SetParent(t, n, v)
  PROVE  ParentSet(t, u, n, v)
  <1>1. CASE n = nullptr
    <2>1. u = t
      BY <1>1 DEF SetParent
    <2>2. n \notin LiveOf(t)
      BY <1>1, RbTreeAssumption DEF LiveOf
    <2>3. QED
      BY <2>1, <2>2 DEF ParentSet
  <1>2. CASE n # nullptr
    <2>1. PICK r : r = [t.node[n] EXCEPT !.parent = v]
      OBVIOUS
    <2>2. u = [root |-> t.root, node |-> [t.node EXCEPT ![n] = r]]
      <3>1. PICK f, g : t = [root |-> f, node |-> g]
        BY DEF Typed
      <3>2. u = [t EXCEPT !.node = [t.node EXCEPT ![n] = [t.node[n] EXCEPT !.parent = v]]]
        BY <1>2 DEF SetParent
      <3>3. QED
        BY <2>1, <3>1, <3>2
    <2>3. n \in LiveOf(t) /\ t.node[n] \in NodeType
      BY <1>2, NodeFields
    <2>4. /\ r \in NodeType /\ r.parent = v /\ r.key = t.node[n].key
          /\ \A s \in Sides : r[s] = t.node[n][s]
      BY <2>1, <2>3, SetUp
    <2>5. NodeIs(t, u, n, r)
      BY <2>2, <2>3, <2>4, NodeSet
    <2>6. QED
      BY <2>4, <2>5 DEF ParentSet, LiveOf, NodeIs
  <1>3. QED
    BY <1>1, <1>2

(* What Replace does, whether or not the tree is sound at that moment.     *)
Replaced(t, u, p, side, n, v) ==
  /\ Typed(u) /\ LiveOf(u) = LiveOf(t)
  /\ u.root = IF p = nullptr THEN v ELSE t.root
  /\ \A m \in LiveOf(t) :
       /\ u.node[m].key = t.node[m].key
       /\ u.node[m].parent = t.node[m].parent
       /\ \A s \in Sides : u.node[m][s] = IF m = p /\ s = side THEN v ELSE t.node[m][s]

LEMMA Replaces ==
  ASSUME NEW t, Typed(t), NEW n, NEW p \in LiveOf(t) \cup {nullptr}, p = t.node[n].parent,
         NEW v \in MaybeNode, NEW u, u = Replace(t, n, v)
  PROVE  Replaced(t, u, p, SideOf(t, n), n, v)
  <1>1. CASE p = nullptr
    <2>1. u = [t EXCEPT !.root = v]
      BY <1>1 DEF Replace
    <2>2. u = [root |-> v, node |-> t.node]
      BY <2>1 DEF Typed
    <2>3. u.root = v /\ u.node = t.node /\ u = [root |-> u.root, node |-> u.node]
      BY <2>2
    <2>4. p \notin LiveOf(t)
      BY <1>1, RbTreeAssumption DEF LiveOf
    <2>5. QED
      BY <1>1, <2>3, <2>4 DEF Replaced, Typed, LiveOf
  <1>2. CASE p # nullptr
    <2>1. PICK side : side = SideOf(t, n)
      OBVIOUS
    <2>2. u = [t EXCEPT !.node[p][side] = v]
      BY <1>2, <2>1 DEF Replace
    <2>3. side \in Sides
      BY <2>1 DEF SideOf, Sides
    <2>4. SideSet(t, u, p, side, v)
      BY <1>2, <2>2, <2>3, SetsSide
    <2>5. QED
      BY <1>2, <2>1, <2>4 DEF SideSet, Replaced
  <1>3. QED
    BY <1>1, <1>2

Without(t, u, z) ==
  /\ Typed(u) /\ u.root = t.root /\ LiveOf(u) = LiveOf(t) \ {z}
  /\ \A m \in LiveOf(u) : u.node[m] = t.node[m]

LEMMA Frees ==
  ASSUME NEW t, Typed(t), NEW z \in LiveOf(t), NEW u, u = FreeNode(t, z)
  PROVE  Without(t, u, z)
  <1>1. u = [root |-> t.root, node |-> [t.node EXCEPT ![z] = Freed]]
    <2>1. u = [t EXCEPT !.node = [t.node EXCEPT ![z] = Freed]]
      BY DEF FreeNode
    <2>2. QED
      BY <2>1 DEF Typed
  <1>2. z \in Nodes /\ t.node \in [Nodes -> NodeType \cup {Freed}]
    BY DEF Typed, LiveOf
  <1>3. /\ u.root = t.root /\ u.node = [t.node EXCEPT ![z] = Freed]
        /\ u = [root |-> u.root, node |-> u.node]
    BY <1>1
  <1>4. u.node[z] = Freed /\ \A m \in Nodes \ {z} : u.node[m] = t.node[m]
    BY <1>2, <1>3
  <1>5. Typed(u)
    BY <1>2, <1>3 DEF Typed
  <1>6. QED
    BY <1>3, <1>4, <1>5 DEF LiveOf, Without

-----------------------------------------------------------------------------
(* Colours: a new link leaves them alone.                                  *)

SameHues(t, u) == \A n \in LiveOf(u) : u.node[n].color = t.node[n].color

LEMMA HuesTwice ==
  ASSUME NEW t, NEW u, NEW v, SameHues(t, u), SameHues(u, v), LiveOf(v) \subseteq LiveOf(u)
  PROVE  SameHues(t, v)
  BY DEF SameHues

LEMMA SideHues ==
  ASSUME NEW t, Typed(t), NEW n \in LiveOf(t), NEW side \in Sides, NEW v \in MaybeNode,
         NEW u, u = [t EXCEPT !.node[n][side] = v]
  PROVE  SameHues(t, u)
  <1>1. PICK r : r = [t.node[n] EXCEPT ![side] = v]
    OBVIOUS
  <1>2. u = [root |-> t.root, node |-> [t.node EXCEPT ![n] = r]]
    <2>1. PICK f, g : t = [root |-> f, node |-> g]
      BY DEF Typed
    <2>2. u = [t EXCEPT !.node = [t.node EXCEPT ![n] = [t.node[n] EXCEPT ![side] = v]]]
      OBVIOUS
    <2>3. QED
      BY <1>1, <2>1, <2>2
  <1>3. t.node[n] \in NodeType
    BY NodeFields
  <1>4. r \in NodeType /\ r.color = t.node[n].color
    BY <1>1, <1>3, SetSide
  <1>5. NodeIs(t, u, n, r)
    BY <1>2, <1>4, NodeSet
  <1>6. QED
    BY <1>4, <1>5 DEF SameHues, NodeIs, LiveOf

LEMMA ParentHues ==
  ASSUME NEW t, Typed(t), NEW n \in LiveOf(t) \cup {nullptr}, NEW v \in MaybeNode,
         NEW u, u = SetParent(t, n, v)
  PROVE  SameHues(t, u)
  <1>1. CASE n = nullptr
    BY <1>1 DEF SetParent, SameHues
  <1>2. CASE n # nullptr
    <2>1. PICK r : r = [t.node[n] EXCEPT !.parent = v]
      OBVIOUS
    <2>2. u = [root |-> t.root, node |-> [t.node EXCEPT ![n] = r]]
      <3>1. PICK f, g : t = [root |-> f, node |-> g]
        BY DEF Typed
      <3>2. u = [t EXCEPT !.node = [t.node EXCEPT ![n] = [t.node[n] EXCEPT !.parent = v]]]
        BY <1>2 DEF SetParent
      <3>3. QED
        BY <2>1, <3>1, <3>2
    <2>3. n \in LiveOf(t) /\ t.node[n] \in NodeType
      BY <1>2, NodeFields
    <2>4. r \in NodeType /\ r.color = t.node[n].color
      BY <2>1, <2>3, SetUp
    <2>5. NodeIs(t, u, n, r)
      BY <2>2, <2>3, <2>4, NodeSet
    <2>6. QED
      BY <2>4, <2>5 DEF SameHues, LiveOf, NodeIs
  <1>3. QED
    BY <1>1, <1>2

LEMMA ReplaceHues ==
  ASSUME NEW t, Typed(t), NEW n, NEW p \in LiveOf(t) \cup {nullptr}, p = t.node[n].parent,
         NEW v \in MaybeNode, NEW u, u = Replace(t, n, v)
  PROVE  SameHues(t, u)
  <1>1. CASE p = nullptr
    <2>1. u = [t EXCEPT !.root = v]
      BY <1>1 DEF Replace
    <2>2. u = [root |-> v, node |-> t.node]
      BY <2>1 DEF Typed
    <2>3. u.node = t.node
      BY <2>2
    <2>4. QED
      BY <2>3 DEF SameHues, LiveOf
  <1>2. CASE p # nullptr
    <2>1. PICK side : side = SideOf(t, n)
      OBVIOUS
    <2>2. u = [t EXCEPT !.node[p][side] = v]
      BY <1>2, <2>1 DEF Replace
    <2>3. side \in Sides
      BY <2>1 DEF SideOf, Sides
    <2>4. QED
      BY <1>2, <2>2, <2>3, SideHues
  <1>3. QED
    BY <1>1, <1>2

-----------------------------------------------------------------------------
(* Insertion.                                                              *)

(* z is a new leaf, on that side of y or the root of an empty tree.        *)
Added(t, u, z, key, y, side) ==
  /\ Typed(u) /\ LiveOf(u) = LiveOf(t) \cup {z}
  /\ u.root = IF y = nullptr THEN z ELSE t.root
  /\ u.node[z].key = key /\ u.node[z].parent = y
  /\ \A s \in Sides : u.node[z][s] = nullptr
  /\ \A m \in LiveOf(t) :
       /\ u.node[m].key = t.node[m].key
       /\ u.node[m].parent = t.node[m].parent
       /\ \A s \in Sides : u.node[m][s] = IF m = y /\ s = side THEN z ELSE t.node[m][s]

LEMMA AddedSound ==
  ASSUME NEW t, Sound(t), NEW z \in Nodes \ LiveOf(t), NEW key, NEW y, NEW side \in Sides,
         IF y = nullptr THEN LiveOf(t) = {} ELSE y \in LiveOf(t) /\ t.node[y][side] = nullptr,
         NEW u, Added(t, u, z, key, y, side)
  PROVE  Sound(u)
  <1>1. /\ LiveOf(u) = LiveOf(t) \cup {z}
        /\ u.root = IF y = nullptr THEN z ELSE t.root
        /\ u.node[z].parent = y
        /\ \A s \in Sides : u.node[z][s] = nullptr
    BY DEF Added
  <1>2. \A m \in LiveOf(t) :
          /\ u.node[m].parent = t.node[m].parent
          /\ \A s \in Sides : u.node[m][s] = IF m = y /\ s = side THEN z ELSE t.node[m][s]
    BY DEF Added
  <1>3. nullptr \notin LiveOf(t) /\ nullptr # z
    BY RbTreeAssumption DEF LiveOf
  <1>4. y # nullptr => t.root \in LiveOf(t)
    BY RootLive
  <1>5. \A n \in LiveOf(t) : \A s \in Sides :
          t.node[n][s] # nullptr =>
            /\ t.node[n][s] \in LiveOf(t)
            /\ t.node[t.node[n][s]].parent = n
            /\ t.node[n][s] # t.node[n][Other(s)]
    BY DEF Sound, Down
  <1>6. \A n \in LiveOf(t) :
          IF n = t.root THEN t.node[n].parent = nullptr
          ELSE /\ t.node[n].parent \in LiveOf(t)
               /\ \E s \in Sides : t.node[t.node[n].parent][s] = n
    BY DEF Sound, Up
  <1>7. \A s \in Sides : Other(s) \in Sides /\ Other(s) # s /\ Other(Other(s)) = s
    BY Others
  <1>8. Down(u)
    <2>1. ASSUME NEW n \in LiveOf(t) \cup {z}, NEW s \in Sides, NEW c, c = u.node[n][s], c # nullptr
          PROVE  c \in LiveOf(t) \cup {z} /\ u.node[c].parent = n /\ c # u.node[n][Other(s)]
      <3>1. n \in LiveOf(t)
        BY <1>1, <2>1
      <3>2. CASE n = y /\ s = side
        <4>1. c = z
          BY <1>2, <2>1, <3>1, <3>2
        <4>2. u.node[n][Other(s)] = t.node[n][Other(s)]
          BY <1>2, <1>7, <3>1, <3>2
        <4>3. t.node[n][Other(s)] # z
          BY <1>3, <1>5, <1>7, <3>1
        <4>4. QED
          BY <1>1, <3>2, <4>1, <4>2, <4>3
      <3>3. CASE ~ (n = y /\ s = side)
        <4>1. c = t.node[n][s]
          BY <1>2, <2>1, <3>1, <3>3
        <4>2. c \in LiveOf(t) /\ t.node[c].parent = n /\ c # t.node[n][Other(s)] /\ c # z
          BY <1>5, <2>1, <3>1, <4>1
        <4>3. u.node[n][Other(s)] \in {z, t.node[n][Other(s)]}
          BY <1>2, <1>7, <3>1
        <4>4. QED
          BY <1>2, <4>2, <4>3
      <3>4. QED
        BY <3>2, <3>3
    <2>2. QED
      BY <1>1, <2>1 DEF Down
  <1>9. Up(u)
    <2>1. ASSUME NEW n \in LiveOf(t) \cup {z}
          PROVE  IF n = u.root THEN u.node[n].parent = nullptr
                 ELSE /\ u.node[n].parent \in LiveOf(u)
                      /\ \E s \in Sides : u.node[u.node[n].parent][s] = n
      <3>1. CASE n = z
        <4>1. CASE y = nullptr
          BY <1>1, <3>1, <4>1
        <4>2. CASE y # nullptr
          <5>1. n # u.root
            BY <1>1, <1>4, <3>1, <4>2
          <5>2. u.node[y][side] = z /\ y \in LiveOf(u)
            BY <1>1, <1>2, <4>2
          <5>3. QED
            BY <1>1, <3>1, <5>1, <5>2
        <4>3. QED
          BY <4>1, <4>2
      <3>2. CASE n # z
        <4>1. n \in LiveOf(t) /\ y # nullptr
          BY <3>2
        <4>2. u.root = t.root /\ u.node[n].parent = t.node[n].parent
          BY <1>1, <1>2, <4>1
        <4>3. CASE n = t.root
          BY <1>6, <4>1, <4>2, <4>3
        <4>4. CASE n # t.root
          <5>1. PICK q \in LiveOf(t), s \in Sides : q = t.node[n].parent /\ t.node[q][s] = n
            BY <1>6, <4>1, <4>4
          <5>2. u.node[q][s] = n
            BY <1>2, <1>3, <4>1, <5>1
          <5>3. QED
            BY <1>1, <4>2, <4>4, <5>1, <5>2
        <4>5. QED
          BY <4>3, <4>4
      <3>3. QED
        BY <3>1, <3>2
    <2>2. QED
      BY <1>1, <2>1 DEF Up
  <1>10. Acyclic(LiveOf(u), Ups(u))
    <2>1. SUFFICES ASSUME NEW S \in SUBSET LiveOf(u), S # {},
                          \A n \in S : u.node[n].parent \in S
                   PROVE  FALSE
      <3>1. \A n \in LiveOf(u) : Ups(u)[n] = u.node[n].parent
        BY DEF Ups, LiveOf
      <3>2. QED
        BY <2>1, <3>1 DEF Acyclic
    <2>2. PICK T : T = S \ {z}
      OBVIOUS
    <2>3. T \subseteq LiveOf(t)
      BY <1>1, <2>2
    <2>4. \A n \in T : t.node[n].parent \in T
      <3>1. ASSUME NEW n \in T PROVE t.node[n].parent \in T
        <4>1. n \in LiveOf(t) /\ t.node[n].parent \in S
          BY <1>2, <2>1, <2>2, <2>3
        <4>2. t.node[n].parent \in LiveOf(t) \cup {nullptr}
          BY <1>6, <4>1
        <4>3. QED
          BY <1>3, <2>2, <4>1, <4>2
      <3>2. QED
        BY <3>1
    <2>5. T = {}
      BY <2>3, <2>4, NoCycle
    <2>6. S = {z}
      BY <2>1, <2>2, <2>5
    <2>7. y = z
      BY <1>1, <2>1, <2>6
    <2>8. QED
      BY <1>3, <2>7
  <1>11. u.root \in LiveOf(u) \cup {nullptr} /\ Typed(u)
    BY <1>1, <1>4 DEF Added
  <1>12. QED
    BY <1>8, <1>9, <1>10, <1>11 DEF Sound

(* The bounds with one key more along its way.                             *)
Widened(B, P, z, key) ==
  [n \in Nodes |-> IF n = z THEN {key} ELSE IF n \in P THEN B[n] \cup {key} ELSE B[n]]

LEMMA AddedOrdered ==
  ASSUME NEW t, Sound(t), NEW z \in Nodes \ LiveOf(t), NEW key \in Keys,
         NEW y, NEW side \in Sides, NEW u, Added(t, u, z, key, y, side),
         NEW P, OnWay(t, key, P),
         y # nullptr => y \in P /\ OnSide(side, key, t.node[y].key), Ordered(t)
  PROVE  Ordered(u)
  <1>1. PICK B : Bounds(t, B)
    BY DEF Ordered
  <1>2. PICK C : C = Widened(B, P, z, key)
    OBVIOUS
  <1>3. nullptr \notin LiveOf(t) /\ z # nullptr
    BY RbTreeAssumption DEF LiveOf
  <1>4. /\ C[z] = {key}
        /\ \A n \in LiveOf(t) : C[n] = IF n \in P THEN B[n] \cup {key} ELSE B[n]
    BY <1>2 DEF Widened, LiveOf
  <1>5. /\ \A n \in LiveOf(t) : B[n] \in SUBSET Keys /\ t.node[n].key \in B[n]
        /\ \A n \in LiveOf(t) : \A s \in Sides : t.node[n][s] # nullptr =>
             \A k \in B[t.node[n][s]] : k \in B[n] /\ OnSide(s, k, t.node[n].key)
    BY <1>1 DEF Bounds
  <1>6. /\ LiveOf(u) = LiveOf(t) \cup {z} /\ u.node[z].key = key
        /\ \A s \in Sides : u.node[z][s] = nullptr
    BY DEF Added
  <1>7. \A m \in LiveOf(t) :
          /\ u.node[m].key = t.node[m].key
          /\ \A s \in Sides : u.node[m][s] = IF m = y /\ s = side THEN z ELSE t.node[m][s]
    BY DEF Added
  <1>8. ASSUME NEW n \in LiveOf(u) PROVE C[n] \in SUBSET Keys /\ u.node[n].key \in C[n]
    <2>1. CASE n = z
      BY <1>4, <1>6, <2>1
    <2>2. CASE n # z
      <3>1. n \in LiveOf(t) /\ u.node[n].key = t.node[n].key
        BY <1>6, <1>7, <2>2
      <3>2. B[n] \in SUBSET Keys /\ t.node[n].key \in B[n]
        BY <1>5, <3>1
      <3>3. C[n] = B[n] \cup {key} \/ C[n] = B[n]
        BY <1>4, <3>1
      <3>4. QED
        BY <3>1, <3>2, <3>3
    <2>3. QED
      BY <2>1, <2>2
  <1>9. ASSUME NEW n \in LiveOf(u), NEW s \in Sides, NEW c, c = u.node[n][s], c # nullptr,
               NEW k \in C[c]
        PROVE  k \in C[n] /\ OnSide(s, k, u.node[n].key)
    <2>1. n \in LiveOf(t) /\ n # z /\ u.node[n].key = t.node[n].key
      BY <1>6, <1>7, <1>9
    <2>2. CASE n = y /\ s = side
      <3>1. k = key
        BY <1>4, <1>7, <1>9, <2>1, <2>2
      <3>2. y \in P /\ OnSide(side, key, t.node[y].key)
        BY <1>3, <2>1, <2>2
      <3>3. QED
        BY <1>4, <2>1, <2>2, <3>1, <3>2
    <2>3. CASE ~ (n = y /\ s = side)
      <3>1. c = t.node[n][s]
        BY <1>7, <1>9, <2>1, <2>3
      <3>2. c \in LiveOf(t)
        BY <1>9, <2>1, <3>1, ChildIs
      <3>3. CASE c \in P /\ k = key
        <4>1. n \in P /\ OnSide(s, key, t.node[n].key)
          BY <2>1, <3>1, <3>3 DEF OnWay
        <4>2. QED
          BY <1>4, <2>1, <3>3, <4>1
      <3>4. CASE ~ (c \in P /\ k = key)
        <4>1. k \in B[c]
          BY <1>4, <1>9, <3>2, <3>4
        <4>2. k \in B[n] /\ OnSide(s, k, t.node[n].key)
          BY <1>5, <1>9, <2>1, <3>1, <4>1
        <4>3. QED
          BY <1>4, <2>1, <4>2
      <3>5. QED
        BY <3>3, <3>4
    <2>4. QED
      BY <2>2, <2>3
  <1>10. Bounds(u, C)
    BY <1>8, <1>9 DEF Bounds
  <1>11. QED
    BY <1>10 DEF Ordered

PlacedAt(t, u, z, r) ==
  /\ Typed(u) /\ u.root = t.root /\ LiveOf(u) = LiveOf(t) \cup {z}
  /\ u.node[z] = r /\ \A m \in LiveOf(t) : u.node[m] = t.node[m]

LEMMA Placed ==
  ASSUME NEW t, Typed(t), NEW z \in Nodes \ LiveOf(t), NEW r \in NodeType,
         NEW u, u = [t EXCEPT !.node[z] = r]
  PROVE  PlacedAt(t, u, z, r)
  <1>1. u = [root |-> t.root, node |-> [t.node EXCEPT ![z] = r]]
    BY DEF Typed
  <1>2. u.root = t.root /\ u.node = [t.node EXCEPT ![z] = r] /\ u = [root |-> u.root, node |-> u.node]
    BY <1>1
  <1>3. t.node \in [Nodes -> NodeType \cup {Freed}] /\ t.root \in MaybeNode
    BY DEF Typed
  <1>4. u.node[z] = r /\ \A m \in Nodes \ {z} : u.node[m] = t.node[m]
    BY <1>2, <1>3
  <1>5. u.node \in [Nodes -> NodeType \cup {Freed}]
    BY <1>2, <1>3
  <1>6. r # Freed
    BY DEF NodeType, Freed
  <1>7. LiveOf(u) = LiveOf(t) \cup {z}
    BY <1>4, <1>6 DEF LiveOf
  <1>8. \A m \in LiveOf(t) : u.node[m] = t.node[m]
    BY <1>4 DEF LiveOf
  <1>9. QED
    BY <1>2, <1>3, <1>4, <1>5, <1>7, <1>8 DEF Typed, PlacedAt

(* Where a new node goes.                                                  *)
AddedAt(t, u, z, key, y, side) ==
  /\ side \in Sides
  /\ IF y = nullptr THEN LiveOf(t) = {} ELSE y \in LiveOf(t) /\ t.node[y][side] = nullptr
  /\ Added(t, u, z, key, y, side)
  /\ u.node[z].color = "RED" /\ \A m \in LiveOf(t) : u.node[m].color = t.node[m].color

LEMMA LinkedAdds ==
  ASSUME NEW t, Sound(t), NEW z \in Nodes \ LiveOf(t), NEW key \in Keys,
         NEW y, y = Above(t, key), NEW u, u = Linked(t, z, key),
         NEW side, side = IF key < t.node[y].key THEN "left" ELSE "right"
  PROVE  AddedAt(t, u, z, key, y, side)
  <1>2. PICK r : r = [color |-> "RED", key |-> key, left |-> nullptr, right |-> nullptr, parent |-> y]
    OBVIOUS
  <1>3. PICK v : v = [t EXCEPT !.node[z] = r]
    OBVIOUS
  <1>5. u = IF y = nullptr THEN [v EXCEPT !.root = z] ELSE [v EXCEPT !.node[y][side] = z]
    BY <1>2, <1>3, Zenon DEF Linked
  <1>6. side \in Sides
    BY DEF Sides
  <1>7. nullptr \notin LiveOf(t)
    BY RbTreeAssumption DEF LiveOf
  <1>8. IF y = nullptr THEN LiveOf(t) = {} ELSE y \in LiveOf(t) /\ t.node[y][side] = nullptr
    <2>1. CASE t.root = nullptr
      <3>1. y = nullptr
        BY <2>1, Zenon DEF Above
      <3>2. LiveOf(t) = {}
        BY <1>7, <2>1, RootLive
      <3>3. QED
        BY <3>1, <3>2
    <2>2. CASE t.root # nullptr
      <3>1. y \in LiveOf(t) /\ t.node[y][side] = nullptr
        BY <2>2, AboveIsFree
      <3>2. QED
        BY <1>7, <3>1
    <2>3. QED
      BY <2>1, <2>2
  <1>9. Typed(t)
    BY DEF Sound
  <1>10. y \in MaybeNode
    BY <1>8 DEF LiveOf, MaybeNode
  <1>11. /\ r \in NodeType /\ r.key = key /\ r.parent = y /\ r.color = "RED"
         /\ \A s \in Sides : r[s] = nullptr
    BY <1>2, <1>10 DEF NodeType, Sides, MaybeNode
  <1>12. /\ Typed(v) /\ v.root = t.root /\ LiveOf(v) = LiveOf(t) \cup {z}
         /\ v.node[z] = r /\ \A m \in LiveOf(t) : v.node[m] = t.node[m]
    <2>1. PlacedAt(t, v, z, r)
      BY <1>3, <1>9, <1>11, Placed
    <2>2. QED
      BY <2>1 DEF PlacedAt
  <1>13. Added(t, u, z, key, y, side)
    <2>1. CASE y = nullptr
      <3>1. u = [v EXCEPT !.root = z]
        BY <1>5, <2>1
      <3>2. v = [root |-> v.root, node |-> v.node]
        BY <1>12 DEF Typed
      <3>3. u = [root |-> z, node |-> v.node]
        BY <3>1, <3>2
      <3>4. u.root = z /\ u.node = v.node /\ u = [root |-> u.root, node |-> u.node]
        BY <3>3
      <3>5. Typed(u) /\ LiveOf(u) = LiveOf(v)
        BY <1>12, <3>4 DEF Typed, LiveOf, MaybeNode
      <3>6. LiveOf(t) = {}
        BY <1>8, <2>1
      <3>7. QED
        BY <1>11, <1>12, <2>1, <3>4, <3>5, <3>6 DEF Added
    <2>2. CASE y # nullptr
      <3>1. u = [v EXCEPT !.node[y][side] = z]
        BY <1>5, <2>2
      <3>2. y \in LiveOf(t) /\ y \in LiveOf(v) /\ z \in MaybeNode /\ y # z
        BY <1>8, <1>12, <2>2 DEF MaybeNode
      <3>3. SideSet(v, u, y, side, z)
        BY <1>6, <1>12, <3>1, <3>2, SetsSide
      <3>4. /\ Typed(u) /\ LiveOf(u) = LiveOf(v) /\ u.root = v.root
            /\ \A m \in LiveOf(v) :
                 /\ u.node[m].key = v.node[m].key
                 /\ u.node[m].parent = v.node[m].parent
                 /\ \A s \in Sides : u.node[m][s] = IF m = y /\ s = side THEN z ELSE v.node[m][s]
        BY <3>3 DEF SideSet
      <3>5. u.node[z].key = key /\ u.node[z].parent = y /\ \A s \in Sides : u.node[z][s] = nullptr
        BY <1>11, <1>12, <3>2, <3>4
      <3>6. \A m \in LiveOf(t) :
              /\ u.node[m].key = t.node[m].key
              /\ u.node[m].parent = t.node[m].parent
              /\ \A s \in Sides : u.node[m][s] = IF m = y /\ s = side THEN z ELSE t.node[m][s]
        BY <1>12, <3>4
      <3>7. QED
        BY <1>12, <2>2, <3>4, <3>5, <3>6 DEF Added
    <2>3. QED
      BY <2>1, <2>2
  <1>14. SameHues(v, u) /\ LiveOf(u) = LiveOf(v)
    <2>1. LiveOf(u) = LiveOf(v)
      BY <1>12, <1>13 DEF Added
    <2>2. CASE y = nullptr
      <3>1. u = [v EXCEPT !.root = z]
        BY <1>5, <2>2
      <3>2. v = [root |-> v.root, node |-> v.node]
        BY <1>12 DEF Typed
      <3>3. u.node = v.node
        BY <3>1, <3>2
      <3>4. QED
        BY <2>1, <3>3 DEF SameHues
    <2>3. CASE y # nullptr
      <3>1. u = [v EXCEPT !.node[y][side] = z]
        BY <1>5, <2>3
      <3>2. y \in LiveOf(v) /\ z \in MaybeNode
        BY <1>8, <1>12, <2>3 DEF MaybeNode
      <3>3. SameHues(v, u)
        BY <1>6, <1>12, <3>1, <3>2, SideHues
      <3>4. QED
        BY <2>1, <3>3
    <2>4. QED
      BY <2>2, <2>3
  <1>15. u.node[z].color = "RED" /\ \A m \in LiveOf(t) : u.node[m].color = t.node[m].color
    BY <1>11, <1>12, <1>14 DEF SameHues
  <1>16. QED
    BY <1>6, <1>8, <1>13, <1>15 DEF AddedAt

(* A sound tree with z and its key more.                                   *)
Grown(t, u, z, key) ==
  /\ Sound(u) /\ LiveOf(u) = LiveOf(t) \cup {z} /\ (Ordered(t) => Ordered(u))
  /\ u.node[z].key = key
  /\ \A m \in LiveOf(t) : u.node[m].key = t.node[m].key

LEMMA LinkedGrows ==
  ASSUME NEW t, Sound(t), NEW z \in Nodes \ LiveOf(t), NEW key \in Keys
  PROVE  Grown(t, Linked(t, z, key), z, key)
  <1>1. PICK y, u : y = Above(t, key) /\ u = Linked(t, z, key)
    OBVIOUS
  <1>2. PICK side : side = IF key < t.node[y].key THEN "left" ELSE "right"
    OBVIOUS
  <1>3. AddedAt(t, u, z, key, y, side)
    BY <1>1, <1>2, LinkedAdds
  <1>4. side \in Sides /\ Added(t, u, z, key, y, side)
    BY <1>3 DEF AddedAt
  <1>5. IF y = nullptr THEN LiveOf(t) = {} ELSE y \in LiveOf(t) /\ t.node[y][side] = nullptr
    BY <1>3 DEF AddedAt
  <1>6. Sound(u)
    BY <1>4, <1>5, AddedSound
  <1>7. Ordered(t) => Ordered(u)
    <2>1. PICK P : OnWay(t, key, P) /\ (y # nullptr => y \in P)
      <3>1. CASE y = nullptr
        <4>1. OnWay(t, key, {})
          BY DEF OnWay
        <4>2. QED
          BY <3>1, <4>1
      <3>2. CASE y # nullptr
        <4>1. t.root # nullptr
          BY <1>1, <3>2, Zenon DEF Above
        <4>2. PICK w : AboveWalk(t, key, w) /\ \E k \in 0 .. Size : y = w[k]
          BY <1>1, <4>1, AboveIsFree
        <4>3. PICK P : P = {w[k] : k \in 0 .. Size} \ {nullptr}
          OBVIOUS
        <4>4. OnWay(t, key, P)
          BY <4>2, <4>3, WayIsOnWay
        <4>5. y \in P
          BY <3>2, <4>2, <4>3
        <4>6. QED
          BY <4>4, <4>5
      <3>3. QED
        BY <3>1, <3>2
    <2>2. ASSUME y # nullptr PROVE OnSide(side, key, t.node[y].key)
      <3>1. y \in LiveOf(t)
        BY <1>5, <2>2
      <3>2. t.node[y].key \in Int /\ key \in Int
        BY <3>1, NodeFields, RbTreeAssumption DEF Sound
      <3>3. QED
        BY <1>2, <3>2 DEF OnSide
    <2>3. QED
      BY <1>4, <2>1, <2>2, AddedOrdered
  <1>8. Grown(t, u, z, key)
    BY <1>4, <1>6, <1>7 DEF Added, Grown
  <1>9. QED
    BY <1>1, <1>8

LEMMA Inserted ==
  ASSUME TInv, NEW key \in Keys, rb_insert(key)
  PROVE  TInv' /\ \E z \in Nodes \ LiveOf(Tree) : Grown(Tree, Tree', z, key)
  <1>1. PICK z \in Nodes : /\ node[z] = Freed
                           /\ Become(Linked(Tree, z, key))
                           /\ op' = [kind |-> "insert", at |-> z, turns |-> 0]
    BY Zenon DEF rb_insert
  <1>2. z \in Nodes \ LiveOf(Tree)
    BY <1>1, TreeFields DEF LiveOf
  <1>3. PICK u : u = Linked(Tree, z, key)
    OBVIOUS
  <1>4. Grown(Tree, u, z, key)
    BY <1>2, <1>3, LinkedGrows DEF TInv
  <1>5. Tree' = u
    BY <1>1, <1>3, <1>4, Became DEF Grown, Sound, Typed
  <1>6. Sound(Tree') /\ Ordered(Tree') /\ z \in LiveOf(Tree')
    BY <1>4, <1>5 DEF Grown, TInv
  <1>7. op' \in OpType /\ op'.at = z
    BY <1>1 DEF OpType
  <1>8. QED
    BY <1>2, <1>4, <1>5, <1>6, <1>7 DEF TInv

-----------------------------------------------------------------------------
(* Deletion.                                                               *)

(* x took the place of z, its only child or null, on side s0 of p.         *)
Removed(t, u, z, x, p, s0) ==
  /\ Typed(u) /\ LiveOf(u) = LiveOf(t) \ {z}
  /\ u.root = IF p = nullptr THEN x ELSE t.root
  /\ \A m \in LiveOf(t) \ {z} :
       /\ u.node[m].key = t.node[m].key
       /\ u.node[m].parent = IF m = x THEN p ELSE t.node[m].parent
       /\ \A s \in Sides : u.node[m][s] = IF m = p /\ s = s0 THEN x ELSE t.node[m][s]

LEMMA RemovedSound ==
  ASSUME NEW t, Sound(t), NEW z \in LiveOf(t), NEW x,
         \A s \in Sides : t.node[z][s] \in {x, nullptr},
         x # nullptr => x \in LiveOf(t) /\ t.node[x].parent = z,
         NEW p, p = t.node[z].parent, NEW s0, s0 = SideOf(t, z),
         NEW u, Removed(t, u, z, x, p, s0)
  PROVE  Sound(u)
  <1>1. LiveOf(u) = LiveOf(t) \ {z} /\ u.root = IF p = nullptr THEN x ELSE t.root
    BY DEF Removed
  <1>2. \A m \in LiveOf(t) \ {z} :
          /\ u.node[m].parent = IF m = x THEN p ELSE t.node[m].parent
          /\ \A s \in Sides : u.node[m][s] = IF m = p /\ s = s0 THEN x ELSE t.node[m][s]
    BY DEF Removed
  <1>3. nullptr \notin LiveOf(t)
    BY RbTreeAssumption DEF LiveOf
  <1>4. \A n \in LiveOf(t) : \A s \in Sides :
          t.node[n][s] # nullptr =>
            /\ t.node[n][s] \in LiveOf(t)
            /\ t.node[t.node[n][s]].parent = n
            /\ t.node[n][s] # t.node[n][Other(s)]
    BY DEF Sound, Down
  <1>5. \A n \in LiveOf(t) :
          IF n = t.root THEN t.node[n].parent = nullptr
          ELSE /\ t.node[n].parent \in LiveOf(t)
               /\ \E s \in Sides : t.node[t.node[n].parent][s] = n
    BY DEF Sound, Up
  <1>6. \A s \in Sides : Other(s) \in Sides /\ Other(s) # s /\ Other(Other(s)) = s
    BY Others
  <1>7. \A n \in LiveOf(t) : t.node[n].parent # n
    BY NotOwnParent
  <1>8. x # z /\ p # z /\ (x # nullptr => x # p)
    <2>1. x # z /\ p # z
      BY <1>3, <1>7
    <2>2. ASSUME x # nullptr, x = p PROVE FALSE
      <3>1. PICK T : T = {x, z}
        OBVIOUS
      <3>2. T \subseteq LiveOf(t) /\ \A n \in T : t.node[n].parent \in T
        BY <2>2, <3>1
      <3>3. T = {}
        BY <3>2, NoCycle
      <3>4. QED
        BY <3>1, <3>3
    <2>3. QED
      BY <2>1, <2>2
  <1>9. /\ p # nullptr <=> z # t.root
        /\ p # nullptr => p \in LiveOf(t) /\ s0 \in Sides /\ t.node[p][s0] = z
                          /\ t.node[p][Other(s0)] # z
    BY <1>3, <1>5, LeadsTo
  <1>10. Down(u)
    <2>1. ASSUME NEW n \in LiveOf(t) \ {z}, NEW s \in Sides, NEW c, c = u.node[n][s], c # nullptr
          PROVE  c \in LiveOf(t) \ {z} /\ u.node[c].parent = n /\ c # u.node[n][Other(s)]
      <3>1. CASE n = p /\ s = s0
        <4>1. c = x /\ x # nullptr
          BY <1>2, <2>1, <3>1
        <4>2. u.node[n][Other(s)] = t.node[n][Other(s)]
          BY <1>2, <1>6, <3>1
        <4>3. t.node[n][Other(s)] # x
          BY <1>4, <1>6, <1>8, <2>1, <4>1
        <4>4. QED
          BY <1>2, <1>8, <3>1, <4>1, <4>2, <4>3
      <3>2. CASE ~ (n = p /\ s = s0)
        <4>1. c = t.node[n][s]
          BY <1>2, <2>1, <3>2
        <4>2. c \in LiveOf(t) /\ t.node[c].parent = n /\ c # t.node[n][Other(s)]
          BY <1>4, <2>1, <4>1
        <4>3. c # z
          <5>1. ASSUME c = z PROVE FALSE
            <6>1. n = p /\ p # nullptr
              BY <1>3, <2>1, <4>2, <5>1
            <6>2. s = Other(s0)
              BY <1>9, <3>2, <6>1, Others
            <6>3. QED
              BY <1>9, <4>1, <5>1, <6>1, <6>2
          <5>2. QED
            BY <5>1
        <4>4. c # x
          BY <2>1, <4>2
        <4>5. u.node[c].parent = n
          BY <1>2, <4>2, <4>3, <4>4
        <4>6. u.node[n][Other(s)] \in {x, t.node[n][Other(s)]}
          BY <1>2, <1>6, <2>1
        <4>7. QED
          BY <4>2, <4>3, <4>4, <4>5, <4>6
      <3>3. QED
        BY <3>1, <3>2
    <2>2. QED
      BY <1>1, <2>1 DEF Down
  <1>11. Up(u)
    <2>1. ASSUME NEW n \in LiveOf(t) \ {z}
          PROVE  IF n = u.root THEN u.node[n].parent = nullptr
                 ELSE /\ u.node[n].parent \in LiveOf(t) \ {z}
                      /\ \E s \in Sides : u.node[u.node[n].parent][s] = n
      <3>1. CASE n = x
        <4>1. u.node[n].parent = p
          BY <1>2, <3>1
        <4>2. CASE p = nullptr
          BY <1>1, <3>1, <4>1, <4>2
        <4>3. CASE p # nullptr
          <5>1. u.node[p][s0] = x /\ p \in LiveOf(t) \ {z}
            BY <1>2, <1>8, <1>9, <4>3
          <5>2. n # u.root
            BY <1>1, <1>3, <1>5, <3>1, <4>3
          <5>3. QED
            BY <1>9, <3>1, <4>1, <4>3, <5>1, <5>2
        <4>4. QED
          BY <4>2, <4>3
      <3>2. CASE n # x
        <4>1. u.node[n].parent = t.node[n].parent
          BY <1>2, <3>2
        <4>2. CASE n = t.root
          BY <1>1, <1>5, <1>9, <4>1, <4>2
        <4>3. CASE n # t.root
          <5>1. n # u.root
            BY <1>1, <3>2, <4>3
          <5>2. PICK q \in LiveOf(t), s \in Sides : q = t.node[n].parent /\ t.node[q][s] = n
            BY <1>5, <4>3
          <5>3. q # z
            BY <1>3, <3>2, <5>2
          <5>4. ~ (q = p /\ s = s0)
            BY <1>3, <1>9, <5>2
          <5>5. u.node[q][s] = n
            BY <1>2, <5>2, <5>3, <5>4
          <5>6. QED
            BY <4>1, <5>1, <5>2, <5>3, <5>5
        <4>4. QED
          BY <4>2, <4>3
      <3>3. QED
        BY <3>1, <3>2
    <2>2. QED
      BY <1>1, <2>1 DEF Up
  <1>12. Acyclic(LiveOf(u), Ups(u))
    <2>1. SUFFICES ASSUME NEW S \in SUBSET (LiveOf(t) \ {z}), S # {},
                          \A n \in S : u.node[n].parent \in S
                   PROVE  FALSE
      <3>1. \A n \in LiveOf(u) : Ups(u)[n] = u.node[n].parent
        BY DEF Ups, LiveOf
      <3>2. QED
        BY <1>1, <2>1, <3>1 DEF Acyclic
    <2>2. PICK T : T = IF x \in S THEN S \cup {z} ELSE S
      OBVIOUS
    <2>3. \A n \in T : t.node[n].parent \in T
      <3>1. CASE x \in S
        <4>1. p \in S
          BY <1>2, <2>1, <3>1
        <4>2. QED
          BY <1>2, <1>3, <2>1, <2>2, <3>1, <4>1
      <3>2. CASE x \notin S
        BY <1>2, <2>1, <2>2, <3>2
      <3>3. QED
        BY <3>1, <3>2
    <2>4. T = {}
      BY <2>1, <2>2, <2>3, NoCycle
    <2>5. QED
      BY <2>1, <2>2, <2>4
  <1>13. u.root \in LiveOf(u) \cup {nullptr}
    <2>1. CASE p = nullptr
      BY <1>1, <1>8, <2>1
    <2>2. CASE p # nullptr
      <3>1. t.root \in LiveOf(t) \cup {nullptr}
        BY DEF Sound
      <3>2. QED
        BY <1>1, <1>9, <2>2, <3>1
    <2>3. QED
      BY <2>1, <2>2
  <1>14. QED
    BY <1>10, <1>11, <1>12, <1>13 DEF Sound, Removed

(* y takes over the links of z, and z is gone.                             *)
TakenOver(t, u, z, y) ==
  /\ Typed(u) /\ LiveOf(u) = (LiveOf(t) \ {z}) \cup {y}
  /\ u.root = IF t.root = z THEN y ELSE t.root
  /\ u.node[y].parent = t.node[z].parent
  /\ \A s \in Sides : u.node[y][s] = t.node[z][s]
  /\ \A m \in LiveOf(t) \ {z} :
       /\ u.node[m].key = t.node[m].key
       /\ u.node[m].parent = IF t.node[m].parent = z THEN y ELSE t.node[m].parent
       /\ \A s \in Sides : u.node[m][s] = IF t.node[m][s] = z THEN y ELSE t.node[m][s]

LEMMA TakenOverSound ==
  ASSUME NEW t, Sound(t), NEW z \in LiveOf(t), NEW y \in Nodes \ LiveOf(t),
         NEW u, TakenOver(t, u, z, y)
  PROVE  Sound(u)
  <1>1. /\ LiveOf(u) = (LiveOf(t) \ {z}) \cup {y}
        /\ u.root = IF t.root = z THEN y ELSE t.root
        /\ u.node[y].parent = t.node[z].parent
        /\ \A s \in Sides : u.node[y][s] = t.node[z][s]
    BY DEF TakenOver
  <1>2. \A m \in LiveOf(t) \ {z} :
          /\ u.node[m].parent = IF t.node[m].parent = z THEN y ELSE t.node[m].parent
          /\ \A s \in Sides : u.node[m][s] = IF t.node[m][s] = z THEN y ELSE t.node[m][s]
    BY DEF TakenOver
  <1>3. nullptr \notin LiveOf(t) /\ y # nullptr
    BY RbTreeAssumption DEF LiveOf
  <1>4. \A n \in LiveOf(t) : \A s \in Sides :
          t.node[n][s] # nullptr =>
            /\ t.node[n][s] \in LiveOf(t)
            /\ t.node[t.node[n][s]].parent = n
            /\ t.node[n][s] # t.node[n][Other(s)]
    BY DEF Sound, Down
  <1>5. \A n \in LiveOf(t) :
          IF n = t.root THEN t.node[n].parent = nullptr
          ELSE /\ t.node[n].parent \in LiveOf(t)
               /\ \E s \in Sides : t.node[t.node[n].parent][s] = n
    BY DEF Sound, Up
  <1>6. \A s \in Sides : Other(s) \in Sides
    BY Others
  <1>7. t.node[z].parent # z
    BY NotOwnParent
  <1>8. \A s \in Sides : t.node[z][s] # z
    BY <1>3, <1>4, <1>7
  <1>9. Down(u)
    <2>1. ASSUME NEW n \in (LiveOf(t) \ {z}) \cup {y}, NEW s \in Sides,
                 NEW c, c = u.node[n][s], c # nullptr
          PROVE  c \in (LiveOf(t) \ {z}) \cup {y} /\ u.node[c].parent = n /\ c # u.node[n][Other(s)]
      <3>1. CASE n = y
        <4>1. c = t.node[z][s] /\ u.node[n][Other(s)] = t.node[z][Other(s)]
          BY <1>1, <1>6, <2>1, <3>1
        <4>2. c \in LiveOf(t) \ {z} /\ t.node[c].parent = z /\ c # t.node[z][Other(s)]
          BY <1>4, <1>8, <2>1, <4>1
        <4>3. QED
          BY <1>2, <3>1, <4>1, <4>2
      <3>2. CASE n # y
        <4>1. n \in LiveOf(t) \ {z}
          BY <2>1, <3>2
        <4>2. PICK d, e : d = t.node[n][s] /\ e = t.node[n][Other(s)]
          OBVIOUS
        <4>3. c = IF d = z THEN y ELSE d
          BY <1>2, <2>1, <4>1, <4>2
        <4>4. u.node[n][Other(s)] = IF e = z THEN y ELSE e
          BY <1>2, <1>6, <4>1, <4>2
        <4>5. d # nullptr
          BY <1>3, <2>1, <4>3
        <4>6. d \in LiveOf(t) /\ t.node[d].parent = n /\ d # e
          BY <1>4, <4>1, <4>2, <4>5
        <4>7. e = nullptr \/ e \in LiveOf(t)
          BY <1>4, <1>6, <4>1, <4>2
        <4>8. c # u.node[n][Other(s)]
          BY <1>3, <4>3, <4>4, <4>6, <4>7
        <4>9. u.node[c].parent = n
          <5>1. CASE d = z
            BY <1>1, <4>3, <4>6, <5>1
          <5>2. CASE d # z
            BY <1>2, <4>1, <4>3, <4>6, <5>2
          <5>3. QED
            BY <5>1, <5>2
        <4>10. QED
          BY <4>3, <4>6, <4>8, <4>9
      <3>3. QED
        BY <3>1, <3>2
    <2>2. QED
      BY <1>1, <2>1 DEF Down
  <1>10. Up(u)
    <2>1. ASSUME NEW n \in (LiveOf(t) \ {z}) \cup {y}
          PROVE  IF n = u.root THEN u.node[n].parent = nullptr
                 ELSE /\ u.node[n].parent \in (LiveOf(t) \ {z}) \cup {y}
                      /\ \E s \in Sides : u.node[u.node[n].parent][s] = n
      <3>1. CASE n = y
        <4>1. CASE z = t.root
          BY <1>1, <1>5, <3>1, <4>1
        <4>2. CASE z # t.root
          <5>1. n # u.root
            <6>1. t.root \in LiveOf(t)
              BY RootLive
            <6>2. QED
              BY <1>1, <3>1, <4>2, <6>1
          <5>2. PICK q \in LiveOf(t), s \in Sides : q = t.node[z].parent /\ t.node[q][s] = z
            BY <1>5, <4>2
          <5>3. q # z /\ u.node[q][s] = y
            BY <1>2, <1>7, <5>2
          <5>4. QED
            BY <1>1, <3>1, <5>1, <5>2, <5>3
        <4>3. QED
          BY <4>1, <4>2
      <3>2. CASE n # y
        <4>1. n \in LiveOf(t) \ {z}
          BY <2>1, <3>2
        <4>2. CASE n = t.root
          <5>1. n = u.root /\ t.node[n].parent = nullptr
            BY <1>1, <1>5, <4>1, <4>2
          <5>2. nullptr # z
            BY <1>3
          <5>3. QED
            BY <1>2, <4>1, <5>1, <5>2
        <4>3. CASE n # t.root
          <5>1. n # u.root
            BY <1>1, <3>2, <4>3
          <5>2. PICK q \in LiveOf(t), s \in Sides : q = t.node[n].parent /\ t.node[q][s] = n
            BY <1>5, <4>1, <4>3
          <5>3. CASE q = z
            <6>1. u.node[n].parent = y /\ u.node[y][s] = n
              BY <1>1, <1>2, <4>1, <5>2, <5>3
            <6>2. QED
              BY <5>1, <6>1
          <5>4. CASE q # z
            <6>1. u.node[n].parent = q /\ u.node[q][s] = n
              BY <1>2, <4>1, <5>2, <5>4
            <6>2. QED
              BY <5>1, <5>2, <5>4, <6>1
          <5>5. QED
            BY <5>3, <5>4
        <4>4. QED
          BY <4>2, <4>3
      <3>3. QED
        BY <3>1, <3>2
    <2>2. QED
      BY <1>1, <2>1 DEF Up
  <1>11. Acyclic(LiveOf(u), Ups(u))
    <2>1. SUFFICES ASSUME NEW S \in SUBSET LiveOf(u), S # {},
                          \A n \in S : u.node[n].parent \in S
                   PROVE  FALSE
      <3>1. \A n \in LiveOf(u) : Ups(u)[n] = u.node[n].parent
        BY DEF Ups, LiveOf
      <3>2. QED
        BY <2>1, <3>1 DEF Acyclic
    <2>2. PICK T : T = IF y \in S THEN (S \ {y}) \cup {z} ELSE S
      OBVIOUS
    <2>3. T \subseteq LiveOf(t) /\ T # {}
      BY <1>1, <2>1, <2>2
    <2>4. ASSUME NEW n \in T PROVE t.node[n].parent \in T
      <3>1. t.node[n].parent \in LiveOf(t) \cup {nullptr}
        BY <1>5, <2>3
      <3>2. t.node[n].parent # y
        BY <1>3, <3>1
      <3>3. CASE n = z
        <4>1. y \in S
          BY <1>1, <2>1, <2>2, <3>3
        <4>2. t.node[z].parent \in S
          BY <1>1, <2>1, <4>1
        <4>3. QED
          BY <2>2, <3>2, <3>3, <4>1, <4>2
      <3>4. CASE n # z
        <4>1. n \in S /\ n \in LiveOf(t) \ {z}
          BY <2>2, <2>3, <3>4
        <4>2. u.node[n].parent = IF t.node[n].parent = z THEN y ELSE t.node[n].parent
          BY <1>2, <4>1
        <4>3. u.node[n].parent \in S
          BY <2>1, <4>1
        <4>4. QED
          BY <2>2, <3>2, <4>2, <4>3
      <3>5. QED
        BY <3>3, <3>4
    <2>5. T = {}
      BY <2>3, <2>4, NoCycle
    <2>6. QED
      BY <2>3, <2>5
  <1>12. u.root \in LiveOf(u) \cup {nullptr}
    BY <1>1 DEF Sound
  <1>13. QED
    BY <1>9, <1>10, <1>11, <1>12 DEF Sound, TakenOver

LEMMA ParentsLive ==
  ASSUME NEW t, Sound(t), NEW z \in LiveOf(t), NEW p, p = t.node[z].parent
  PROVE  p \in LiveOf(t) \cup {nullptr} /\ (p = nullptr <=> z = t.root)
  <1>1. nullptr \notin LiveOf(t)
    BY RbTreeAssumption DEF LiveOf
  <1>2. QED
    BY <1>1 DEF Sound, Up

LEMMA SplicedRemoves ==
  ASSUME NEW t, Sound(t), NEW z \in LiveOf(t), NEW x \in LiveOf(t) \cup {nullptr}, x # z,
         NEW p, p = t.node[z].parent, p # z
  PROVE  Removed(t, FreeNode(Spliced(t, z, x), z), z, x, p, SideOf(t, z))
  <1>1. PICK a, b, u, s0 : /\ a = Replace(t, z, x) /\ b = SetParent(a, x, p)
                           /\ u = FreeNode(b, z) /\ s0 = SideOf(t, z)
    OBVIOUS
  <1>2. u = FreeNode(Spliced(t, z, x), z)
    BY <1>1 DEF Spliced
  <1>3. Typed(t) /\ p \in LiveOf(t) \cup {nullptr}
    BY ParentsLive DEF Sound
  <1>4. x \in MaybeNode /\ p \in MaybeNode
    BY <1>3 DEF MaybeNode, LiveOf
  <1>5. Replaced(t, a, p, s0, z, x)
    BY <1>1, <1>3, <1>4, Replaces
  <1>6. Typed(a) /\ LiveOf(a) = LiveOf(t)
    BY <1>5 DEF Replaced
  <1>7. ParentSet(a, b, x, p)
    BY <1>1, <1>4, <1>6, SetsParent
  <1>8. Typed(b) /\ LiveOf(b) = LiveOf(t)
    BY <1>6, <1>7 DEF ParentSet
  <1>9. /\ Typed(u) /\ u.root = b.root
        /\ LiveOf(u) = LiveOf(b) \ {z}
        /\ \A m \in LiveOf(u) : u.node[m] = b.node[m]
    BY <1>1, <1>8, Frees DEF Without
  <1>10. u.root = IF p = nullptr THEN x ELSE t.root
    BY <1>5, <1>7, <1>9 DEF Replaced, ParentSet
  <1>11. ASSUME NEW m \in LiveOf(t) \ {z}
         PROVE  /\ u.node[m].key = t.node[m].key
                /\ u.node[m].parent = IF m = x THEN p ELSE t.node[m].parent
                /\ \A s \in Sides : u.node[m][s] = IF m = p /\ s = s0 THEN x ELSE t.node[m][s]
    <2>1. u.node[m] = b.node[m]
      BY <1>8, <1>9
    <2>2. /\ b.node[m].key = a.node[m].key
          /\ b.node[m].parent = IF m = x THEN p ELSE a.node[m].parent
          /\ \A s \in Sides : b.node[m][s] = a.node[m][s]
      BY <1>6, <1>7 DEF ParentSet
    <2>3. /\ a.node[m].key = t.node[m].key
          /\ a.node[m].parent = t.node[m].parent
          /\ \A s \in Sides : a.node[m][s] = IF m = p /\ s = s0 THEN x ELSE t.node[m][s]
      BY <1>5 DEF Replaced
    <2>4. QED
      BY <2>1, <2>2, <2>3
  <1>12. Removed(t, u, z, x, p, s0)
    BY <1>8, <1>9, <1>10, <1>11 DEF Removed
  <1>13. QED
    BY <1>1, <1>2, <1>12

LEMMA SplicedHues ==
  ASSUME NEW t, Sound(t), NEW z \in LiveOf(t), NEW x \in LiveOf(t) \cup {nullptr},
         NEW u, u = FreeNode(Spliced(t, z, x), z)
  PROVE  SameHues(t, u)
  <1>1. PICK a, b, p : p = t.node[z].parent /\ a = Replace(t, z, x) /\ b = SetParent(a, x, p)
    OBVIOUS
  <1>2. u = FreeNode(b, z)
    BY <1>1 DEF Spliced
  <1>3. Typed(t) /\ p \in LiveOf(t) \cup {nullptr}
    BY <1>1, ParentsLive DEF Sound
  <1>4. x \in MaybeNode /\ p \in MaybeNode
    BY <1>3 DEF MaybeNode, LiveOf
  <1>5. Replaced(t, a, p, SideOf(t, z), z, x) /\ SameHues(t, a)
    BY <1>1, <1>3, <1>4, Replaces, ReplaceHues
  <1>6. Typed(a) /\ LiveOf(a) = LiveOf(t)
    BY <1>5 DEF Replaced
  <1>7. ParentSet(a, b, x, p) /\ SameHues(a, b)
    BY <1>1, <1>4, <1>6, SetsParent, ParentHues
  <1>8. Typed(b) /\ LiveOf(b) = LiveOf(t)
    BY <1>6, <1>7 DEF ParentSet
  <1>9. Without(b, u, z)
    BY <1>2, <1>8, Frees
  <1>10. LiveOf(u) \subseteq LiveOf(b) /\ \A m \in LiveOf(u) : u.node[m] = b.node[m]
    BY <1>9 DEF Without
  <1>11. SameHues(t, b)
    BY <1>5, <1>6, <1>7, <1>8, HuesTwice
  <1>12. QED
    BY <1>10, <1>11 DEF SameHues

LEMMA RemovedOrdered ==
  ASSUME NEW t, Sound(t), NEW z \in LiveOf(t), NEW x,
         x # nullptr => x \in LiveOf(t) /\ t.node[x].parent = z,
         NEW p, p = t.node[z].parent, NEW s0, s0 = SideOf(t, z),
         NEW u, Removed(t, u, z, x, p, s0), Ordered(t)
  PROVE  Ordered(u)
  <1>1. PICK B : Bounds(t, B)
    BY DEF Ordered
  <1>2. nullptr \notin LiveOf(t)
    BY RbTreeAssumption DEF LiveOf
  <1>3. /\ \A n \in LiveOf(t) : B[n] \in SUBSET Keys /\ t.node[n].key \in B[n]
        /\ \A n \in LiveOf(t) : \A s \in Sides : t.node[n][s] # nullptr =>
             \A k \in B[t.node[n][s]] : k \in B[n] /\ OnSide(s, k, t.node[n].key)
    BY <1>1 DEF Bounds
  <1>4. LiveOf(u) = LiveOf(t) \ {z}
    BY DEF Removed
  <1>5. \A m \in LiveOf(u) :
          /\ u.node[m].key = t.node[m].key
          /\ \A s \in Sides : u.node[m][s] = IF m = p /\ s = s0 THEN x ELSE t.node[m][s]
    BY DEF Removed
  <1>6. \A n \in LiveOf(u) : B[n] \in SUBSET Keys /\ u.node[n].key \in B[n]
    BY <1>3, <1>4, <1>5
  <1>7. ASSUME NEW n \in LiveOf(u), NEW s \in Sides, NEW c, c = u.node[n][s], c # nullptr,
               NEW k \in B[c]
        PROVE  k \in B[n] /\ OnSide(s, k, u.node[n].key)
    <2>1. n \in LiveOf(t) /\ u.node[n].key = t.node[n].key
      BY <1>4, <1>5
    <2>2. CASE n = p /\ s = s0
      <3>1. c = x
        BY <1>5, <1>7, <2>2
      <3>2. x \in LiveOf(t) /\ t.node[x].parent = z
        BY <1>7, <3>1
      <3>3. x # t.root
        BY <1>2, <3>2 DEF Sound, Up
      <3>4. \E v \in Sides : t.node[z][v] = x
        BY <3>2, <3>3 DEF Sound, Up
      <3>5. k \in B[z]
        BY <1>3, <1>7, <3>1, <3>4
      <3>6. z # t.root
        BY <1>2, <2>1, <2>2 DEF Sound, Up
      <3>7. t.node[p][s0] = z /\ z # nullptr
        BY <1>2, <3>6, LeadsTo
      <3>8. QED
        BY <1>3, <2>1, <2>2, <3>5, <3>7
    <2>3. CASE ~ (n = p /\ s = s0)
      <3>1. c = t.node[n][s]
        BY <1>5, <1>7, <2>3
      <3>2. QED
        BY <1>3, <1>7, <2>1, <3>1
    <2>4. QED
      BY <2>2, <2>3
  <1>8. Bounds(u, B)
    BY <1>6, <1>7 DEF Bounds
  <1>9. QED
    BY <1>8 DEF Ordered

(* A sound tree with z less.                                               *)
Shrunk(t, u, z) ==
  /\ Sound(u) /\ LiveOf(u) = LiveOf(t) \ {z} /\ (Ordered(t) => Ordered(u))
  /\ \A m \in LiveOf(u) : u.node[m].key = t.node[m].key

LEMMA SplicedShrinks ==
  ASSUME NEW t, Sound(t), NEW z \in LiveOf(t), NEW x,
         \A s \in Sides : t.node[z][s] \in {x, nullptr},
         x # nullptr => x \in LiveOf(t) /\ t.node[x].parent = z
  PROVE  Shrunk(t, FreeNode(Spliced(t, z, x), z), z)
  <1>1. PICK p, u : p = t.node[z].parent /\ u = FreeNode(Spliced(t, z, x), z)
    OBVIOUS
  <1>2. x # z /\ p # z
    <2>1. nullptr # z
      BY RbTreeAssumption DEF LiveOf
    <2>2. QED
      BY <1>1, <2>1, NotOwnParent
  <1>3. Removed(t, u, z, x, p, SideOf(t, z))
    BY <1>1, <1>2, SplicedRemoves
  <1>4. Sound(u)
    BY <1>1, <1>3, RemovedSound
  <1>5. LiveOf(u) = LiveOf(t) \ {z} /\ \A m \in LiveOf(u) : u.node[m].key = t.node[m].key
    BY <1>3 DEF Removed
  <1>6. Ordered(t) => Ordered(u)
    BY <1>1, <1>3, RemovedOrdered
  <1>7. QED
    BY <1>1, <1>4, <1>5, <1>6 DEF Shrunk

(* The steps of Succeeded: y leaves its place, takes that of z, and is     *)
(* linked as z was.                                                        *)
Left(t, z, y) ==
  IF t.node[y].parent = z THEN t
  ELSE SetParent([t EXCEPT !.node[t.node[y].parent].left = t.node[y].right],
                 t.node[y].right, t.node[y].parent)

Taken(t, z, y) ==
  SetParent(SetParent(Replace(Left(t, z, y), z, y), t.node[z].left, y),
            IF t.node[y].parent = z THEN nullptr ELSE t.node[z].right, y)

LinkedAs(t, z, y, v, w, u) ==
  /\ w = [v.node[y] EXCEPT !.parent = t.node[z].parent, !.left = t.node[z].left,
                           !.right = IF t.node[y].parent = z THEN t.node[y].right
                                     ELSE t.node[z].right,
                           !.color = t.node[z].color]
  /\ u = [v EXCEPT !.node[y] = w]

LEMMA SucceededSteps ==
  ASSUME NEW t, NEW z, NEW y, y = rb_minimum(t, t.node[z].right),
         NEW v, v = Taken(t, z, y), NEW w, NEW u, LinkedAs(t, z, y, v, w, u)
  PROVE  u = Succeeded(t, z)
  BY Zenon DEF Succeeded, Left, Taken, LinkedAs

(* The links that have changed when y has left its place.                  *)
HasLeft(t, u, z, q, x) ==
  /\ Typed(u) /\ LiveOf(u) = LiveOf(t) /\ u.root = t.root
  /\ \A m \in LiveOf(t) :
       /\ u.node[m].key = t.node[m].key
       /\ u.node[m].parent = IF m = x /\ q # z THEN q ELSE t.node[m].parent
       /\ \A s \in Sides :
            u.node[m][s] = IF m = q /\ q # z /\ s = "left" THEN x ELSE t.node[m][s]

LEMMA LeftIs ==
  ASSUME NEW t, Typed(t), NEW z, NEW y \in LiveOf(t),
         NEW q \in LiveOf(t), q = t.node[y].parent,
         NEW x \in LiveOf(t) \cup {nullptr}, x = t.node[y].right
  PROVE  HasLeft(t, Left(t, z, y), z, q, x)
  <1>1. PICK u : u = Left(t, z, y)
    OBVIOUS
  <1>2. CASE q = z
    <2>1. u = t
      BY <1>1, <1>2 DEF Left
    <2>2. HasLeft(t, u, z, q, x)
      BY <1>2, <2>1 DEF HasLeft
    <2>3. QED
      BY <1>1, <2>2
  <1>3. CASE q # z
    <2>1. PICK v : v = [t EXCEPT !.node[q]["left"] = x]
      OBVIOUS
    <2>2. u = SetParent(v, x, q)
      <3>1. v = [t EXCEPT !.node[q].left = x]
        BY <2>1
      <3>2. QED
        BY <1>1, <1>3, <3>1 DEF Left
    <2>3. x \in MaybeNode /\ q \in MaybeNode /\ "left" \in Sides
      BY DEF MaybeNode, LiveOf, Sides
    <2>4. SideSet(t, v, q, "left", x)
      BY <2>1, <2>3, SetsSide
    <2>5. Typed(v) /\ LiveOf(v) = LiveOf(t)
      BY <2>4 DEF SideSet
    <2>6. ParentSet(v, u, x, q)
      BY <2>2, <2>3, <2>5, SetsParent
    <2>7. HasLeft(t, u, z, q, x)
      <3>1. Typed(u) /\ LiveOf(u) = LiveOf(t) /\ u.root = t.root
        BY <2>4, <2>6 DEF SideSet, ParentSet
      <3>2. ASSUME NEW m \in LiveOf(t)
            PROVE  /\ u.node[m].key = t.node[m].key
                   /\ u.node[m].parent = IF m = x THEN q ELSE t.node[m].parent
                   /\ \A s \in Sides : u.node[m][s] = IF m = q /\ s = "left" THEN x ELSE t.node[m][s]
        BY <2>4, <2>5, <2>6 DEF SideSet, ParentSet
      <3>3. QED
        BY <1>3, <3>1, <3>2 DEF HasLeft
    <2>8. QED
      BY <1>1, <2>7
  <1>4. QED
    BY <1>2, <1>3

(* And when it has been put where z is.                                    *)
HasTaken(t, u, z, y, q, x) ==
  /\ Typed(u) /\ LiveOf(u) = LiveOf(t)
  /\ u.root = IF t.node[z].parent = nullptr THEN y ELSE t.root
  /\ \A m \in LiveOf(t) :
       /\ u.node[m].key = t.node[m].key
       /\ u.node[m].parent = IF m = t.node[z].left \/ (m = t.node[z].right /\ q # z) THEN y
                             ELSE IF m = x /\ q # z THEN q ELSE t.node[m].parent
       /\ \A s \in Sides :
            u.node[m][s] = IF m = t.node[z].parent /\ s = SideOf(t, z) THEN y
                           ELSE IF m = q /\ q # z /\ s = "left" THEN x ELSE t.node[m][s]

LEMMA TakenIs ==
  ASSUME NEW t, Sound(t), NEW z \in LiveOf(t), NEW y \in LiveOf(t),
         NEW l \in LiveOf(t), l = t.node[z].left, NEW r \in LiveOf(t), r = t.node[z].right,
         NEW p, p = t.node[z].parent,
         NEW q \in LiveOf(t), q = t.node[y].parent, q # p,
         NEW x \in LiveOf(t) \cup {nullptr}, x = t.node[y].right, x # z
  PROVE  HasTaken(t, Taken(t, z, y), z, y, q, x)
  <1>1. PICK n : n = IF q = z THEN nullptr ELSE r
    OBVIOUS
  <1>2. PICK a, b, c, u : /\ a = Left(t, z, y) /\ b = Replace(a, z, y)
                          /\ c = SetParent(b, l, y) /\ u = SetParent(c, n, y)
    OBVIOUS
  <1>3. u = Taken(t, z, y)
    BY <1>1, <1>2, Zenon DEF Taken
  <1>4. nullptr \notin LiveOf(t)
    BY RbTreeAssumption DEF LiveOf
  <1>5. Typed(t)
    BY DEF Sound
  <1>6. HasLeft(t, a, z, q, x)
    BY <1>2, <1>5, LeftIs
  <1>7. Typed(a) /\ LiveOf(a) = LiveOf(t) /\ a.root = t.root /\ a.node[z].parent = p
    BY <1>6 DEF HasLeft
  <1>8. p \in LiveOf(t) \cup {nullptr}
    BY ParentsLive
  <1>9. y \in MaybeNode
    BY DEF MaybeNode, LiveOf
  <1>10. Replaced(a, b, p, SideOf(a, z), z, y)
    BY <1>2, <1>7, <1>8, <1>9, Replaces
  <1>11. Typed(b) /\ LiveOf(b) = LiveOf(t)
    BY <1>7, <1>10 DEF Replaced
  <1>12. ParentSet(b, c, l, y)
    BY <1>2, <1>9, <1>11, SetsParent
  <1>13. Typed(c) /\ LiveOf(c) = LiveOf(t)
    BY <1>11, <1>12 DEF ParentSet
  <1>14. n \in LiveOf(c) \cup {nullptr}
    BY <1>1, <1>13
  <1>15. ParentSet(c, u, n, y)
    BY <1>2, <1>9, <1>13, <1>14, SetsParent
  <1>16. Typed(u) /\ LiveOf(u) = LiveOf(t) /\ u.root = IF p = nullptr THEN y ELSE t.root
    BY <1>7, <1>10, <1>12, <1>13, <1>15 DEF ParentSet, Replaced
  <1>17. p \in LiveOf(t) => SideOf(a, z) = SideOf(t, z)
    <2>1. ASSUME p \in LiveOf(t) PROVE a.node[p]["left"] = t.node[p]["left"]
      BY <1>6, <2>1 DEF HasLeft, Sides
    <2>2. ASSUME p \in LiveOf(t) PROVE a.node[p].left = t.node[p].left
      BY <2>1, <2>2
    <2>3. QED
      BY <1>7, <2>2 DEF SideOf
  <1>18. ASSUME NEW m \in LiveOf(t)
         PROVE  /\ u.node[m].key = t.node[m].key
                /\ u.node[m].parent = IF m = l \/ (m = r /\ q # z) THEN y
                                      ELSE IF m = x /\ q # z THEN q ELSE t.node[m].parent
                /\ \A s \in Sides :
                     u.node[m][s] = IF m = p /\ s = SideOf(t, z) THEN y
                                    ELSE IF m = q /\ q # z /\ s = "left" THEN x ELSE t.node[m][s]
    <2>1. /\ a.node[m].key = t.node[m].key
          /\ a.node[m].parent = IF m = x /\ q # z THEN q ELSE t.node[m].parent
          /\ \A s \in Sides :
               a.node[m][s] = IF m = q /\ q # z /\ s = "left" THEN x ELSE t.node[m][s]
      BY <1>6 DEF HasLeft
    <2>2. /\ b.node[m].key = a.node[m].key
          /\ b.node[m].parent = a.node[m].parent
          /\ \A s \in Sides : b.node[m][s] = IF m = p /\ s = SideOf(t, z) THEN y ELSE a.node[m][s]
      BY <1>7, <1>10, <1>17 DEF Replaced
    <2>3. /\ c.node[m].key = b.node[m].key
          /\ c.node[m].parent = IF m = l THEN y ELSE b.node[m].parent
          /\ \A s \in Sides : c.node[m][s] = b.node[m][s]
      BY <1>11, <1>12 DEF ParentSet
    <2>4. /\ u.node[m].key = c.node[m].key
          /\ u.node[m].parent = IF m = n THEN y ELSE c.node[m].parent
          /\ \A s \in Sides : u.node[m][s] = c.node[m][s]
      BY <1>13, <1>15 DEF ParentSet
    <2>5. m = n <=> (m = r /\ q # z)
      BY <1>1, <1>4
    <2>6. QED
      BY <2>1, <2>2, <2>3, <2>4, <2>5
  <1>19. HasTaken(t, u, z, y, q, x)
    BY <1>16, <1>18 DEF HasTaken
  <1>20. QED
    BY <1>3, <1>19

(* And when it is linked as z was, and z is gone.                          *)
Promoted(t, u, z, y, q, x) ==
  /\ Typed(u) /\ LiveOf(u) = LiveOf(t) \ {z}
  /\ u.root = IF t.node[z].parent = nullptr THEN y ELSE t.root
  /\ u.node[y].key = t.node[y].key /\ u.node[y].parent = t.node[z].parent
  /\ u.node[y]["left"] = t.node[z].left
  /\ u.node[y]["right"] = IF q = z THEN x ELSE t.node[z].right
  /\ \A m \in LiveOf(t) \ {y, z} :
       /\ u.node[m].key = t.node[m].key
       /\ u.node[m].parent = IF m = t.node[z].left \/ (m = t.node[z].right /\ q # z) THEN y
                             ELSE IF m = x /\ q # z THEN q ELSE t.node[m].parent
       /\ \A s \in Sides :
            u.node[m][s] = IF m = t.node[z].parent /\ s = SideOf(t, z) THEN y
                           ELSE IF m = q /\ q # z /\ s = "left" THEN x ELSE t.node[m][s]

LEMMA SucceededIs ==
  ASSUME NEW t, Sound(t), NEW z \in LiveOf(t), NEW y \in LiveOf(t), y # z,
         y = rb_minimum(t, t.node[z].right),
         NEW l \in LiveOf(t), l = t.node[z].left, NEW r \in LiveOf(t), r = t.node[z].right,
         NEW p, p = t.node[z].parent,
         NEW q \in LiveOf(t), q = t.node[y].parent, q # p,
         NEW x \in LiveOf(t) \cup {nullptr}, x = t.node[y].right, x # z
  PROVE  Promoted(t, FreeNode(Succeeded(t, z), z), z, y, q, x)
  <1>1. PICK v, n, c : v = Taken(t, z, y) /\ n = (IF q = z THEN x ELSE r) /\ c = t.node[z].color
    OBVIOUS
  <1>2. PICK w : w = [v.node[y] EXCEPT !.parent = p, !.left = l, !.right = n, !.color = c]
    OBVIOUS
  <1>3. PICK g, u : g = [v EXCEPT !.node[y] = w] /\ u = FreeNode(g, z)
    OBVIOUS
  <1>4. g = Succeeded(t, z)
    <2>1. w = [v.node[y] EXCEPT !.parent = t.node[z].parent, !.left = t.node[z].left,
                                !.right = IF t.node[y].parent = z THEN t.node[y].right
                                          ELSE t.node[z].right,
                                !.color = t.node[z].color]
      BY <1>1, <1>2
    <2>2. LinkedAs(t, z, y, v, w, g)
      BY <1>3, <2>1 DEF LinkedAs
    <2>3. QED
      BY <1>1, <2>2, SucceededSteps
  <1>5. HasTaken(t, v, z, y, q, x)
    BY <1>1, TakenIs
  <1>6. Typed(v) /\ LiveOf(v) = LiveOf(t)
    BY <1>5 DEF HasTaken
  <1>7. v.node[y] \in NodeType /\ c \in Colors
    BY <1>1, <1>6, NodeFields DEF Sound, Colors
  <1>8. p \in MaybeNode /\ l \in MaybeNode /\ n \in MaybeNode
    BY <1>1, ParentsLive DEF MaybeNode, LiveOf
  <1>9. /\ w \in NodeType /\ w.key = v.node[y].key /\ w.parent = p
        /\ w["left"] = l /\ w["right"] = n
    <2>1. PICK o \in NodeType : o = v.node[y]
      BY <1>7
    <2>2. w = [o EXCEPT !.parent = p, !.left = l, !.right = n, !.color = c]
      BY <1>2, <2>1
    <2>3. QED
      BY <1>7, <1>8, <2>1, <2>2 DEF NodeType, Colors
  <1>10. g = [root |-> v.root, node |-> [v.node EXCEPT ![y] = w]]
    BY <1>3, <1>6 DEF Typed
  <1>11. NodeIs(v, g, y, w)
    BY <1>6, <1>9, <1>10, NodeSet
  <1>12. /\ Typed(g) /\ LiveOf(g) = LiveOf(t) /\ g.root = v.root
         /\ g.node[y] = w /\ \A m \in LiveOf(t) \ {y} : g.node[m] = v.node[m]
    BY <1>6, <1>11 DEF NodeIs, LiveOf
  <1>13. /\ Typed(u) /\ u.root = g.root
         /\ LiveOf(u) = LiveOf(g) \ {z}
         /\ \A m \in LiveOf(u) : u.node[m] = g.node[m]
    <2>1. z \in LiveOf(g) /\ Typed(g)
      BY <1>12
    <2>2. Without(g, u, z)
      BY <1>3, <2>1, Frees
    <2>3. QED
      BY <2>2 DEF Without
  <1>14. u.node[y] = w /\ v.node[y].key = t.node[y].key
    BY <1>5, <1>12, <1>13 DEF HasTaken
  <1>15. \A m \in LiveOf(t) \ {y, z} : u.node[m] = v.node[m]
    BY <1>12, <1>13
  <1>16. Promoted(t, u, z, y, q, x)
    <2>1. u.root = IF t.node[z].parent = nullptr THEN y ELSE t.root
      BY <1>5, <1>12, <1>13 DEF HasTaken
    <2>2. Typed(u) /\ LiveOf(u) = LiveOf(t) \ {z}
      BY <1>12, <1>13
    <2>3. /\ u.node[y].key = t.node[y].key /\ u.node[y].parent = t.node[z].parent
          /\ u.node[y]["left"] = t.node[z].left
          /\ u.node[y]["right"] = IF q = z THEN x ELSE t.node[z].right
      BY <1>1, <1>9, <1>14
    <2>4. ASSUME NEW m \in LiveOf(t) \ {y, z}
          PROVE  /\ u.node[m].key = t.node[m].key
                 /\ u.node[m].parent = IF m = t.node[z].left \/ (m = t.node[z].right /\ q # z) THEN y
                                       ELSE IF m = x /\ q # z THEN q ELSE t.node[m].parent
                 /\ \A s \in Sides :
                      u.node[m][s] = IF m = t.node[z].parent /\ s = SideOf(t, z) THEN y
                                     ELSE IF m = q /\ q # z /\ s = "left" THEN x ELSE t.node[m][s]
      <3>1. u.node[m] = v.node[m]
        BY <1>15
      <3>2. v.node[m].key = t.node[m].key
        BY <1>5 DEF HasTaken
      <3>3. v.node[m].parent = IF m = t.node[z].left \/ (m = t.node[z].right /\ q # z) THEN y
                               ELSE IF m = x /\ q # z THEN q ELSE t.node[m].parent
        BY <1>5 DEF HasTaken
      <3>4. \A s \in Sides :
              v.node[m][s] = IF m = t.node[z].parent /\ s = SideOf(t, z) THEN y
                             ELSE IF m = q /\ q # z /\ s = "left" THEN x ELSE t.node[m][s]
        BY <1>5 DEF HasTaken
      <3>5. QED
        BY <3>1, <3>2, <3>3, <3>4, Zenon
    <2>5. QED
      BY <2>1, <2>2, <2>3, <2>4 DEF Promoted
  <1>17. QED
    BY <1>3, <1>4, <1>16

(* No step but the last changes a colour.                                  *)
LEMMA LeftHues ==
  ASSUME NEW t, Typed(t), NEW z, NEW y \in LiveOf(t),
         NEW q \in LiveOf(t), q = t.node[y].parent,
         NEW x \in LiveOf(t) \cup {nullptr}, x = t.node[y].right
  PROVE  SameHues(t, Left(t, z, y))
  <1>1. PICK u : u = Left(t, z, y)
    OBVIOUS
  <1>2. CASE q = z
    BY <1>2 DEF Left, SameHues
  <1>3. CASE q # z
    <2>1. PICK v : v = [t EXCEPT !.node[q]["left"] = x]
      OBVIOUS
    <2>2. u = SetParent(v, x, q)
      <3>1. v = [t EXCEPT !.node[q].left = x]
        BY <2>1
      <3>2. QED
        BY <1>1, <1>3, <3>1 DEF Left
    <2>3. x \in MaybeNode /\ q \in MaybeNode /\ "left" \in Sides
      BY DEF MaybeNode, LiveOf, Sides
    <2>4. SideSet(t, v, q, "left", x) /\ SameHues(t, v)
      BY <2>1, <2>3, SetsSide, SideHues
    <2>5. Typed(v) /\ LiveOf(v) = LiveOf(t)
      BY <2>4 DEF SideSet
    <2>6. ParentSet(v, u, x, q) /\ SameHues(v, u)
      BY <2>2, <2>3, <2>5, SetsParent, ParentHues
    <2>7. LiveOf(u) = LiveOf(v)
      BY <2>6 DEF ParentSet
    <2>8. QED
      BY <1>1, <2>4, <2>6, <2>7, HuesTwice
  <1>4. QED
    BY <1>2, <1>3

LEMMA TakenHues ==
  ASSUME NEW t, Sound(t), NEW z \in LiveOf(t), NEW y \in LiveOf(t),
         NEW l \in LiveOf(t), l = t.node[z].left, NEW r \in LiveOf(t), r = t.node[z].right,
         NEW q \in LiveOf(t), q = t.node[y].parent,
         NEW x \in LiveOf(t) \cup {nullptr}, x = t.node[y].right, x # z
  PROVE  SameHues(t, Taken(t, z, y))
  <1>1. PICK n, p : n = (IF q = z THEN nullptr ELSE r) /\ p = t.node[z].parent
    OBVIOUS
  <1>2. PICK a, b, c, u : /\ a = Left(t, z, y) /\ b = Replace(a, z, y)
                          /\ c = SetParent(b, l, y) /\ u = SetParent(c, n, y)
    OBVIOUS
  <1>3. u = Taken(t, z, y)
    BY <1>1, <1>2, Zenon DEF Taken
  <1>4. Typed(t)
    BY DEF Sound
  <1>5. HasLeft(t, a, z, q, x) /\ SameHues(t, a)
    BY <1>2, <1>4, LeftIs, LeftHues
  <1>6. Typed(a) /\ LiveOf(a) = LiveOf(t) /\ a.node[z].parent = p
    BY <1>1, <1>5 DEF HasLeft
  <1>7. p \in LiveOf(t) \cup {nullptr} /\ y \in MaybeNode
    BY <1>1, ParentsLive DEF MaybeNode, LiveOf
  <1>8. Replaced(a, b, p, SideOf(a, z), z, y) /\ SameHues(a, b)
    BY <1>2, <1>6, <1>7, Replaces, ReplaceHues
  <1>9. Typed(b) /\ LiveOf(b) = LiveOf(t)
    BY <1>6, <1>8 DEF Replaced
  <1>10. ParentSet(b, c, l, y) /\ SameHues(b, c)
    BY <1>2, <1>7, <1>9, SetsParent, ParentHues
  <1>11. Typed(c) /\ LiveOf(c) = LiveOf(t)
    BY <1>9, <1>10 DEF ParentSet
  <1>12. n \in LiveOf(c) \cup {nullptr}
    BY <1>1, <1>11
  <1>13. ParentSet(c, u, n, y) /\ SameHues(c, u)
    BY <1>2, <1>7, <1>11, <1>12, SetsParent, ParentHues
  <1>14. LiveOf(u) = LiveOf(t)
    BY <1>11, <1>13 DEF ParentSet
  <1>15. SameHues(t, b)
    BY <1>5, <1>6, <1>8, <1>9, HuesTwice
  <1>16. SameHues(t, c)
    BY <1>9, <1>10, <1>11, <1>15, HuesTwice
  <1>17. SameHues(t, u)
    BY <1>11, <1>13, <1>14, <1>16, HuesTwice
  <1>18. QED
    BY <1>3, <1>17

(* The node that takes the place of z takes its colour too.                *)
HuesBut(t, u, z, y) ==
  /\ u.node[y].color = t.node[z].color
  /\ \A n \in LiveOf(u) \ {y} : u.node[n].color = t.node[n].color

LEMMA SucceededHues ==
  ASSUME NEW t, Sound(t), NEW z \in LiveOf(t), NEW y \in LiveOf(t), y # z,
         y = rb_minimum(t, t.node[z].right),
         NEW l \in LiveOf(t), l = t.node[z].left, NEW r \in LiveOf(t), r = t.node[z].right,
         NEW p, p = t.node[z].parent,
         NEW q \in LiveOf(t), q = t.node[y].parent, q # p,
         NEW x \in LiveOf(t) \cup {nullptr}, x = t.node[y].right, x # z
  PROVE  HuesBut(t, FreeNode(Succeeded(t, z), z), z, y)
  <1>1. PICK v, n, c : v = Taken(t, z, y) /\ n = (IF q = z THEN x ELSE r) /\ c = t.node[z].color
    OBVIOUS
  <1>2. PICK w : w = [v.node[y] EXCEPT !.parent = p, !.left = l, !.right = n, !.color = c]
    OBVIOUS
  <1>3. PICK g, u : g = [v EXCEPT !.node[y] = w] /\ u = FreeNode(g, z)
    OBVIOUS
  <1>4. g = Succeeded(t, z)
    <2>1. w = [v.node[y] EXCEPT !.parent = t.node[z].parent, !.left = t.node[z].left,
                                !.right = IF t.node[y].parent = z THEN t.node[y].right
                                          ELSE t.node[z].right,
                                !.color = t.node[z].color]
      BY <1>1, <1>2
    <2>2. LinkedAs(t, z, y, v, w, g)
      BY <1>3, <2>1 DEF LinkedAs
    <2>3. QED
      BY <1>1, <2>2, SucceededSteps
  <1>5. HasTaken(t, v, z, y, q, x) /\ SameHues(t, v)
    BY <1>1, TakenIs, TakenHues
  <1>6. Typed(v) /\ LiveOf(v) = LiveOf(t)
    BY <1>5 DEF HasTaken
  <1>7. v.node[y] \in NodeType /\ c \in Colors
    BY <1>1, <1>6, NodeFields DEF Sound, Colors
  <1>8. p \in MaybeNode /\ l \in MaybeNode /\ n \in MaybeNode
    BY <1>1, ParentsLive DEF MaybeNode, LiveOf
  <1>9. w \in NodeType /\ w.color = c
    <2>1. PICK o \in NodeType : o = v.node[y]
      BY <1>7
    <2>2. w = [o EXCEPT !.parent = p, !.left = l, !.right = n, !.color = c]
      BY <1>2, <2>1
    <2>3. QED
      BY <1>7, <1>8, <2>1, <2>2 DEF NodeType, Colors
  <1>10. g = [root |-> v.root, node |-> [v.node EXCEPT ![y] = w]]
    BY <1>3, <1>6 DEF Typed
  <1>11. NodeIs(v, g, y, w)
    BY <1>6, <1>9, <1>10, NodeSet
  <1>12. /\ Typed(g) /\ LiveOf(g) = LiveOf(t)
         /\ g.node[y] = w /\ \A m \in LiveOf(t) \ {y} : g.node[m] = v.node[m]
    BY <1>6, <1>11 DEF NodeIs, LiveOf
  <1>13. LiveOf(u) = LiveOf(g) \ {z} /\ \A m \in LiveOf(u) : u.node[m] = g.node[m]
    <2>1. z \in LiveOf(g) /\ Typed(g)
      BY <1>12
    <2>2. Without(g, u, z)
      BY <1>3, <2>1, Frees
    <2>3. QED
      BY <2>2 DEF Without
  <1>14. u.node[y].color = t.node[z].color
    BY <1>1, <1>9, <1>12, <1>13
  <1>15. ASSUME NEW m \in LiveOf(u) \ {y} PROVE u.node[m].color = t.node[m].color
    <2>1. m \in LiveOf(v) /\ u.node[m] = v.node[m]
      BY <1>6, <1>12, <1>13
    <2>2. QED
      BY <1>5, <2>1 DEF SameHues
  <1>16. HuesBut(t, u, z, y)
    BY <1>14, <1>15 DEF HuesBut
  <1>17. QED
    BY <1>3, <1>4, <1>16

(* Moving y to the place of z is splicing y out and handing it z's links.  *)
LEMMA PromotedTakesOver ==
  ASSUME NEW t, Sound(t), NEW z \in LiveOf(t), NEW y \in LiveOf(t), y # z,
         NEW l \in LiveOf(t), l = t.node[z].left, NEW r \in LiveOf(t), r = t.node[z].right,
         NEW p, p = t.node[z].parent,
         NEW q \in LiveOf(t), q = t.node[y].parent,
         NEW x \in LiveOf(t) \cup {nullptr}, x # z, q # p, q # y, x # nullptr => t.node[x].parent = y,
         IF q = z THEN y = r ELSE t.node[q]["left"] = y,
         NEW v, Removed(t, v, y, x, q, SideOf(t, y)),
         NEW u, Promoted(t, u, z, y, q, x)
  PROVE  TakenOver(v, u, z, y)
  <1>1. nullptr \notin LiveOf(t) /\ l # r /\ t.node[l].parent = z /\ t.node[r].parent = z
    <2>1. l # nullptr /\ r # nullptr /\ nullptr \notin LiveOf(t)
      BY RbTreeAssumption DEF LiveOf
    <2>2. QED
      BY <2>1, SidesOf
  <1>2. "left" \in Sides /\ "right" \in Sides /\ \A s \in Sides : s = "left" \/ s = "right"
    BY DEF Sides
  <1>3. t.node[z]["left"] = l /\ t.node[z]["right"] = r
    OBVIOUS
  <1>4. SideOf(t, y) = IF q = z THEN "right" ELSE "left"
    <2>1. CASE q = z
      <3>1. y = r /\ t.node[z].left # y
        BY <1>1, <2>1
      <3>2. QED
        BY <2>1, <3>1 DEF SideOf
    <2>2. CASE q # z
      <3>1. t.node[q].left = y
        BY <2>2
      <3>2. QED
        BY <2>2, <3>1 DEF SideOf
    <2>3. QED
      BY <2>1, <2>2
  <1>5. /\ LiveOf(v) = LiveOf(t) \ {y} /\ v.root = t.root
        /\ \A m \in LiveOf(t) \ {y} :
             /\ v.node[m].key = t.node[m].key
             /\ v.node[m].parent = IF m = x THEN q ELSE t.node[m].parent
             /\ \A s \in Sides : v.node[m][s] = IF m = q /\ s = SideOf(t, y) THEN x ELSE t.node[m][s]
    BY <1>1 DEF Removed
  <1>6. /\ LiveOf(u) = LiveOf(t) \ {z}
        /\ u.root = IF p = nullptr THEN y ELSE t.root
        /\ u.node[y].parent = p
        /\ u.node[y]["left"] = l
        /\ u.node[y]["right"] = IF q = z THEN x ELSE r
    BY DEF Promoted
  <1>7. \A m \in LiveOf(t) \ {y, z} :
          /\ u.node[m].key = t.node[m].key
          /\ u.node[m].parent = IF m = l \/ (m = r /\ q # z) THEN y
                                ELSE IF m = x /\ q # z THEN q ELSE t.node[m].parent
          /\ \A s \in Sides :
               u.node[m][s] = IF m = p /\ s = SideOf(t, z) THEN y
                              ELSE IF m = q /\ q # z /\ s = "left" THEN x ELSE t.node[m][s]
    BY DEF Promoted
  <1>8. p = nullptr <=> z = t.root
    BY ParentsLive
  <1>9. x \notin {l, r}
    BY <1>1
  <1>10. ASSUME NEW m \in LiveOf(t)
         PROVE  t.node[m].parent = z <=> m = l \/ m = r
    <2>1. ASSUME t.node[m].parent = z PROVE m = l \/ m = r
      <3>1. m # t.root
        BY <1>1, <2>1 DEF Sound, Up
      <3>2. \E s \in Sides : t.node[z][s] = m
        BY <2>1, <3>1 DEF Sound, Up
      <3>3. QED
        BY <1>2, <1>3, <3>2
    <2>2. QED
      BY <1>1, <2>1
  <1>11. ASSUME NEW m \in LiveOf(t), NEW s \in Sides
         PROVE  t.node[m][s] = z <=> m = p /\ s = SideOf(t, z)
    <2>1. ASSUME t.node[m][s] = z PROVE m = p /\ s = SideOf(t, z)
      <3>1. z # nullptr
        BY <1>1
      <3>2. QED
        BY <2>1, <3>1, ChildIs
    <2>2. ASSUME m = p PROVE t.node[m][SideOf(t, z)] = z
      <3>1. z # t.root
        BY <1>1, <1>8, <2>2
      <3>2. QED
        BY <2>2, <3>1, LeadsTo
    <2>3. QED
      BY <2>1, <2>2
  <1>12. LiveOf(u) = (LiveOf(v) \ {z}) \cup {y}
    BY <1>5, <1>6
  <1>13. u.root = IF v.root = z THEN y ELSE v.root
    BY <1>5, <1>6, <1>8
  <1>14. u.node[y].parent = v.node[z].parent
    BY <1>5, <1>6
  <1>15. ASSUME NEW s \in Sides PROVE u.node[y][s] = v.node[z][s]
    <2>1. v.node[z][s] = IF z = q /\ s = SideOf(t, y) THEN x ELSE t.node[z][s]
      BY <1>5
    <2>2. CASE s = "left"
      BY <1>3, <1>4, <1>6, <2>1, <2>2
    <2>3. CASE s = "right"
      BY <1>3, <1>4, <1>6, <2>1, <2>3
    <2>4. QED
      BY <1>2, <2>2, <2>3
  <1>16. ASSUME NEW m \in LiveOf(v) \ {z}
         PROVE  /\ u.node[m].key = v.node[m].key
                /\ u.node[m].parent = IF v.node[m].parent = z THEN y ELSE v.node[m].parent
                /\ \A s \in Sides : u.node[m][s] = IF v.node[m][s] = z THEN y ELSE v.node[m][s]
    <2>1. m \in LiveOf(t) \ {y, z}
      BY <1>5, <1>16
    <2>2. u.node[m].key = v.node[m].key
      BY <1>5, <1>7, <2>1
    <2>3. u.node[m].parent = IF v.node[m].parent = z THEN y ELSE v.node[m].parent
      <3>1. v.node[m].parent = IF m = x THEN q ELSE t.node[m].parent
        BY <1>5, <2>1
      <3>2. u.node[m].parent = IF m = l \/ (m = r /\ q # z) THEN y
                               ELSE IF m = x /\ q # z THEN q ELSE t.node[m].parent
        BY <1>7, <2>1
      <3>3. t.node[m].parent = z <=> m = l \/ m = r
        BY <1>10, <2>1
      <3>4. q = z => m # r
        BY <2>1
      <3>5. m = x => t.node[m].parent = y
        BY <1>1, <2>1
      <3>6. QED
        BY <1>9, <3>1, <3>2, <3>3, <3>4, <3>5
    <2>4. ASSUME NEW s \in Sides
          PROVE  u.node[m][s] = IF v.node[m][s] = z THEN y ELSE v.node[m][s]
      <3>1. v.node[m][s] = IF m = q /\ s = SideOf(t, y) THEN x ELSE t.node[m][s]
        BY <1>5, <2>1
      <3>2. u.node[m][s] = IF m = p /\ s = SideOf(t, z) THEN y
                           ELSE IF m = q /\ q # z /\ s = "left" THEN x ELSE t.node[m][s]
        BY <1>7, <2>1
      <3>3. t.node[m][s] = z <=> m = p /\ s = SideOf(t, z)
        BY <1>11, <2>1
      <3>4. m = q => q # z
        BY <2>1
      <3>5. QED
        BY <1>4, <3>1, <3>2, <3>3, <3>4
    <2>5. QED
      BY <2>2, <2>3, <2>4
  <1>17. QED
    BY <1>12, <1>13, <1>14, <1>15, <1>16 DEF TakenOver, Promoted

(* The bounds with those of z for y, and what is on the way up from y      *)
(* without the keys below that of y.                                       *)
Raised(t, B, z, y, A) ==
  [n \in Nodes |-> IF n = y THEN B[z]
                   ELSE IF n \in A THEN {k \in B[n] : t.node[y].key <= k} ELSE B[n]]

LEMMA PromotedOrdered ==
  ASSUME NEW t, Sound(t), NEW z \in LiveOf(t), NEW y \in LiveOf(t), y # z,
         NEW l \in LiveOf(t), l = t.node[z].left, NEW r \in LiveOf(t), r = t.node[z].right,
         NEW p, p = t.node[z].parent,
         NEW q \in LiveOf(t), q = t.node[y].parent, q # p, q # y,
         NEW x, x = t.node[y].right,
         IF q = z THEN y = r ELSE t.node[q].left = y,
         NEW A, WayBehind(t, z, y, A),
         NEW u, Promoted(t, u, z, y, q, x), Ordered(t)
  PROVE  Ordered(u)
  <1>1. PICK B : Bounds(t, B)
    BY DEF Ordered
  <1>2. PICK ky, kz : ky = t.node[y].key /\ kz = t.node[z].key
    OBVIOUS
  <1>3. PICK C : C = Raised(t, B, z, y, A)
    OBVIOUS
  <1>4. nullptr \notin LiveOf(t)
    BY RbTreeAssumption DEF LiveOf
  <1>5. /\ \A n \in LiveOf(t) : B[n] \in SUBSET Keys /\ t.node[n].key \in B[n]
        /\ \A n \in LiveOf(t) : \A s \in Sides : t.node[n][s] # nullptr =>
             \A k \in B[t.node[n][s]] : k \in B[n] /\ OnSide(s, k, t.node[n].key)
    BY <1>1 DEF Bounds
  <1>6. \A n \in LiveOf(t) : C[n] = IF n = y THEN B[z]
                                    ELSE IF n \in A THEN {k \in B[n] : ky <= k} ELSE B[n]
    BY <1>2, <1>3 DEF Raised, LiveOf
  <1>7. \A n \in LiveOf(t) : B[n] \subseteq Int /\ t.node[n].key \in Int
    <2>1. Keys \subseteq Int
      BY RbTreeAssumption
    <2>2. QED
      BY <1>5, <2>1
  <1>8. "left" \in Sides /\ "right" \in Sides /\ \A s \in Sides : s = "left" \/ s = "right"
    BY DEF Sides
  <1>9. /\ A \subseteq LiveOf(t) /\ r \in A /\ y \in A /\ t.node[y].left = nullptr
        /\ \A m \in A : m = r \/ (t.node[m].parent \in A /\ t.node[t.node[m].parent].left = m)
        /\ \A m \in A \ {y} : t.node[m].left \in A
        /\ z \notin A /\ p \notin A /\ l \notin A
    BY DEF WayBehind, LeftWay
  <1>10. \A m \in A : ky \in B[m] /\ ky <= t.node[m].key
    BY <1>1, <1>2 DEF WayBehind, LeastOf
  <1>11. /\ \A k \in B[l] : k \in B[z] /\ k <= kz
         /\ \A k \in B[r] : k \in B[z] /\ kz <= k
    <2>1. l # nullptr /\ r # nullptr /\ l = t.node[z]["left"] /\ r = t.node[z]["right"]
      BY <1>4
    <2>2. /\ \A k \in B[l] : k \in B[z] /\ OnSide("left", k, kz)
          /\ \A k \in B[r] : k \in B[z] /\ OnSide("right", k, kz)
      BY <1>2, <1>5, <1>8, <2>1
    <2>3. QED
      BY <2>2 DEF OnSide
  <1>12. ky \in B[z] /\ kz <= ky
    BY <1>9, <1>10, <1>11
  <1>13. ASSUME x # nullptr
         PROVE  /\ x \in LiveOf(t) /\ t.node[x].parent = y /\ x # y /\ x \notin A
                /\ \A k \in B[x] : k \in B[y] /\ ky <= k
    <2>1. x \in LiveOf(t) /\ t.node[x].parent = y
      BY <1>13, SidesOf
    <2>2. x # y
      BY <2>1, NotOwnParent
    <2>3. x \notin A
      <3>1. t.node[r].parent = z
        BY <1>4, SidesOf
      <3>2. QED
        BY <1>4, <1>9, <2>1, <3>1
    <2>4. \A k \in B[x] : k \in B[y] /\ OnSide("right", k, ky)
      <3>1. x = t.node[y]["right"]
        OBVIOUS
      <3>2. QED
        BY <1>2, <1>5, <1>8, <1>13, <3>1
    <2>5. QED
      BY <2>1, <2>2, <2>3, <2>4 DEF OnSide
  <1>14. /\ LiveOf(u) = LiveOf(t) \ {z}
         /\ u.node[y].key = ky
         /\ u.node[y]["left"] = l
         /\ u.node[y]["right"] = IF q = z THEN x ELSE r
    BY <1>2 DEF Promoted
  <1>15. \A m \in LiveOf(t) \ {y, z} :
           /\ u.node[m].key = t.node[m].key
           /\ \A s \in Sides :
                u.node[m][s] = IF m = p /\ s = SideOf(t, z) THEN y
                               ELSE IF m = q /\ q # z /\ s = "left" THEN x ELSE t.node[m][s]
    BY DEF Promoted
  <1>16. ASSUME NEW n \in LiveOf(u) PROVE C[n] \in SUBSET Keys /\ u.node[n].key \in C[n]
    <2>1. CASE n = y
      BY <1>5, <1>6, <1>12, <1>14, <2>1
    <2>2. CASE n # y
      <3>1. n \in LiveOf(t) \ {y, z} /\ u.node[n].key = t.node[n].key
        BY <1>14, <1>15, <2>2
      <3>2. B[n] \in SUBSET Keys /\ t.node[n].key \in B[n]
        BY <1>5, <3>1
      <3>3. CASE n \in A
        <4>1. C[n] = {k \in B[n] : ky <= k} /\ ky <= t.node[n].key
          BY <1>6, <1>10, <3>1, <3>3
        <4>2. QED
          BY <3>1, <3>2, <4>1
      <3>4. CASE n \notin A
        BY <1>6, <3>1, <3>2, <3>4
      <3>5. QED
        BY <3>3, <3>4
    <2>3. QED
      BY <2>1, <2>2
  <1>17. ASSUME NEW s \in Sides, NEW c, c = u.node[y][s], c # nullptr, NEW k \in C[c]
         PROVE  k \in C[y] /\ OnSide(s, k, ky)
    <2>1. C[y] = B[z]
      BY <1>6
    <2>2. CASE s = "left"
      <3>1. c = l /\ l # y
        BY <1>9, <1>14, <1>17, <2>2
      <3>2. k \in B[l]
        BY <1>6, <1>9, <1>17, <3>1
      <3>3. k \in B[z] /\ k <= kz
        BY <1>11, <3>2
      <3>4. k \in Int /\ kz \in Int /\ ky \in Int
        BY <1>2, <1>7, <3>3
      <3>5. QED
        BY <1>12, <2>1, <2>2, <3>3, <3>4 DEF OnSide
    <2>3. CASE s = "right" /\ q = z
      <3>1. c = x /\ y = r
        BY <1>14, <1>17, <2>3
      <3>2. k \in B[x]
        BY <1>6, <1>13, <1>17, <3>1
      <3>3. k \in B[y] /\ ky <= k
        BY <1>13, <1>17, <3>1, <3>2
      <3>4. k \in B[z]
        BY <1>11, <3>1, <3>3
      <3>5. QED
        BY <2>1, <2>3, <3>3, <3>4 DEF OnSide
    <2>4. CASE s = "right" /\ q # z
      <3>1. c = r
        BY <1>14, <1>17, <2>4
      <3>2. r # y
        BY <1>4, <2>4, SidesOf
      <3>3. k \in B[r] /\ ky <= k
        <4>1. C[r] = {i \in B[r] : ky <= i}
          BY <1>6, <1>9, <3>2
        <4>2. QED
          BY <1>17, <3>1, <4>1
      <3>4. k \in B[z]
        BY <1>11, <3>3
      <3>5. QED
        BY <2>1, <2>4, <3>3, <3>4 DEF OnSide
    <2>5. QED
      BY <1>8, <2>2, <2>3, <2>4
  <1>18. ASSUME NEW n \in LiveOf(t) \ {y, z}, NEW s \in Sides,
                NEW c, c = u.node[n][s], c # nullptr, NEW k \in C[c]
         PROVE  k \in C[n] /\ OnSide(s, k, t.node[n].key)
    <2>1. CASE n = p /\ s = SideOf(t, z)
      <3>1. c = y /\ k \in B[z]
        BY <1>6, <1>15, <1>18, <2>1
      <3>2. z # t.root
        BY <1>4, <2>1 DEF Sound, Up
      <3>3. t.node[n][s] = z /\ z # nullptr
        BY <1>4, <2>1, <3>2, LeadsTo
      <3>4. k \in B[n] /\ OnSide(s, k, t.node[n].key)
        BY <1>5, <3>1, <3>3
      <3>5. QED
        BY <1>6, <1>9, <2>1, <3>4
    <2>2. CASE n = q /\ q # z /\ s = "left"
      <3>1. c = x
        BY <1>15, <1>18, <2>2
      <3>2. k \in B[x]
        BY <1>6, <1>13, <1>18, <3>1
      <3>3. k \in B[y] /\ ky <= k
        BY <1>13, <1>18, <3>1, <3>2
      <3>4. t.node[q]["left"] = y /\ y # nullptr
        BY <1>4, <2>2
      <3>5. k \in B[q] /\ OnSide("left", k, t.node[q].key)
        BY <1>5, <1>8, <3>3, <3>4
      <3>6. q \in A
        <4>1. y # r
          BY <1>4, <2>2, SidesOf
        <4>2. QED
          BY <1>9, <4>1
      <3>7. k \in C[q]
        BY <1>6, <3>3, <3>5, <3>6
      <3>8. QED
        BY <2>2, <3>5, <3>7
    <2>3. CASE ~ (n = p /\ s = SideOf(t, z)) /\ ~ (n = q /\ q # z /\ s = "left")
      <3>1. c = t.node[n][s]
        BY <1>15, <1>18, <2>3
      <3>2. c \in LiveOf(t) /\ t.node[c].parent = n /\ SideOf(t, c) = s
        BY <1>18, <3>1, ChildIs
      <3>3. c # y
        <4> SUFFICES ASSUME c = y PROVE FALSE
          OBVIOUS
        <4>1. n = q /\ q # z
          BY <3>2
        <4>2. SideOf(t, y) = "left"
          BY <4>1 DEF SideOf
        <4>3. QED
          BY <2>3, <3>2, <4>1, <4>2
      <3>4. k \in B[c] /\ (c \in A => ky <= k)
        BY <1>6, <1>18, <3>2, <3>3
      <3>5. k \in B[n] /\ OnSide(s, k, t.node[n].key)
        BY <1>5, <1>18, <3>1, <3>4
      <3>6. ASSUME n \in A PROVE ky <= k
        <4>1. CASE s = "left"
          <5>1. t.node[n].left = c
            BY <3>1, <4>1
          <5>2. QED
            BY <1>9, <1>18, <3>4, <3>6, <5>1
        <4>2. CASE s = "right"
          <5>1. t.node[n].key <= k
            BY <3>5, <4>2 DEF OnSide
          <5>2. ky <= t.node[n].key
            BY <1>10, <3>6
          <5>3. k \in Int /\ ky \in Int /\ t.node[n].key \in Int
            BY <1>2, <1>7, <3>5
          <5>4. QED
            BY <5>1, <5>2, <5>3
        <4>3. QED
          BY <1>8, <4>1, <4>2
      <3>7. QED
        BY <1>6, <1>18, <3>5, <3>6
    <2>4. QED
      BY <2>1, <2>2, <2>3
  <1>19. Bounds(u, C)
    <2>1. ASSUME NEW n \in LiveOf(u), NEW s \in Sides, u.node[n][s] # nullptr,
                 NEW k \in C[u.node[n][s]]
          PROVE  k \in C[n] /\ OnSide(s, k, u.node[n].key)
      <3>1. CASE n = y
        BY <1>14, <1>17, <2>1, <3>1
      <3>2. CASE n # y
        <4>1. n \in LiveOf(t) \ {y, z} /\ u.node[n].key = t.node[n].key
          BY <1>14, <1>15, <3>2
        <4>2. QED
          BY <1>18, <2>1, <4>1
      <3>3. QED
        BY <3>1, <3>2
    <2>2. QED
      BY <1>16, <2>1 DEF Bounds
  <1>20. QED
    BY <1>19 DEF Ordered

(* The nodes around a z with two children, and the y that takes its place. *)
Moving(t, z, l, r, p, y, q, x) ==
  /\ z \in LiveOf(t) /\ y \in LiveOf(t) /\ y # z
  /\ l \in LiveOf(t) /\ l = t.node[z].left /\ r \in LiveOf(t) /\ r = t.node[z].right
  /\ p = t.node[z].parent
  /\ q \in LiveOf(t) /\ q = t.node[y].parent /\ q # p /\ q # y
  /\ x \in LiveOf(t) \cup {nullptr} /\ x # z /\ x = t.node[y].right
  /\ x # nullptr => t.node[x].parent = y
  /\ IF q = z THEN y = r ELSE t.node[q]["left"] = y

LEMMA MovingTakesOver ==
  ASSUME NEW t, Sound(t), NEW z, NEW l, NEW r, NEW p, NEW y, NEW q, NEW x,
         Moving(t, z, l, r, p, y, q, x),
         NEW v, Removed(t, v, y, x, q, SideOf(t, y)), NEW u, Promoted(t, u, z, y, q, x)
  PROVE  TakenOver(v, u, z, y)
  BY PromotedTakesOver DEF Moving

LEMMA MovingOrdered ==
  ASSUME NEW t, Sound(t), NEW z, NEW l, NEW r, NEW p, NEW y, NEW q, NEW x,
         Moving(t, z, l, r, p, y, q, x),
         NEW A, WayBehind(t, z, y, A), NEW u, Promoted(t, u, z, y, q, x), Ordered(t)
  PROVE  Ordered(u)
  BY PromotedOrdered DEF Moving

(* What moves up when z goes: x to the place of y, and y to that of z.     *)
MovesUp(t, u, v, z, y, x) ==
  /\ y \in LiveOf(t) /\ y # z /\ x # z /\ x # y
  /\ x # nullptr => x \in LiveOf(t) /\ t.node[x].parent = y
  /\ \A s \in Sides : t.node[y][s] \in {x, nullptr}
  /\ Removed(t, v, y, x, t.node[y].parent, SideOf(t, y))
  /\ Promoted(t, u, z, y, t.node[y].parent, x)
  /\ Sound(v) /\ z \in LiveOf(v) /\ y \in Nodes \ LiveOf(v)
  /\ TakenOver(v, u, z, y)
  /\ SameHues(t, v) /\ HuesBut(t, u, z, y)

LEMMA SucceededMoves ==
  ASSUME NEW t, Sound(t), NEW z \in LiveOf(t),
         t.node[z].left # nullptr, t.node[z].right # nullptr,
         NEW y, y = rb_minimum(t, t.node[z].right), NEW x, x = t.node[y].right,
         NEW v, v = FreeNode(Spliced(t, y, x), y), NEW u, u = FreeNode(Succeeded(t, z), z)
  PROVE  MovesUp(t, u, v, z, y, x)
  <1>1. PICK l, r, p, q : /\ l = t.node[z].left /\ r = t.node[z].right /\ p = t.node[z].parent
                          /\ q = t.node[y].parent
    OBVIOUS
  <1>2. /\ y \in LiveOf(t) /\ t.node[y].left = nullptr
        /\ y # z /\ y # p /\ x # z /\ y # l
        /\ q # z => q \in LiveOf(t) /\ t.node[q].left = y /\ q # p /\ q # y
        /\ q = z => y = r
    <2>1. Behind(t, z, y)
      BY MinIsBehind
    <2>2. QED
      BY <1>1, <2>1 DEF Behind
  <1>3. l \in LiveOf(t) /\ r \in LiveOf(t)
    BY <1>1, SidesOf
  <1>4. p # z
    BY <1>1, NotOwnParent
  <1>5. q \in LiveOf(t) /\ q # p /\ q # y
    BY <1>2, <1>4
  <1>6. x # nullptr => x \in LiveOf(t) /\ t.node[x].parent = y
    BY <1>2, SidesOf
  <1>7. x \in LiveOf(t) \cup {nullptr} /\ x # y
    <2>1. nullptr # y
      BY <1>2, RbTreeAssumption DEF LiveOf
    <2>2. QED
      BY <1>6, <1>2, <2>1, NotOwnParent
  <1>8. Removed(t, v, y, x, q, SideOf(t, y))
    BY <1>1, <1>2, <1>5, <1>7, SplicedRemoves
  <1>9. \A s \in Sides : t.node[y][s] \in {x, nullptr}
    BY <1>2 DEF Sides
  <1>10. Sound(v)
    BY <1>1, <1>2, <1>6, <1>8, <1>9, RemovedSound
  <1>11. Promoted(t, u, z, y, q, x) /\ HuesBut(t, u, z, y)
    BY <1>1, <1>2, <1>3, <1>5, <1>7, SucceededIs, SucceededHues
  <1>12. IF q = z THEN y = r ELSE t.node[q]["left"] = y
    BY <1>2
  <1>13. TakenOver(v, u, z, y)
    <2>1. Moving(t, z, l, r, p, y, q, x)
      BY <1>1, <1>2, <1>3, <1>5, <1>6, <1>7, <1>12 DEF Moving
    <2>2. QED
      BY <1>8, <1>11, <2>1, MovingTakesOver
  <1>14. LiveOf(v) = LiveOf(t) \ {y}
    BY <1>8 DEF Removed
  <1>15. z \in LiveOf(v) /\ y \in Nodes \ LiveOf(v)
    BY <1>2, <1>14 DEF LiveOf
  <1>16. SameHues(t, v)
    BY <1>2, <1>7, SplicedHues
  <1>17. QED
    BY <1>1, <1>2, <1>6, <1>7, <1>8, <1>9, <1>10, <1>11, <1>13, <1>15, <1>16 DEF MovesUp

LEMMA SucceededShrinks ==
  ASSUME NEW t, Sound(t), NEW z \in LiveOf(t),
         t.node[z].left # nullptr, t.node[z].right # nullptr
  PROVE  Shrunk(t, FreeNode(Succeeded(t, z), z), z)
  <1>1. PICK y, x, v, u : /\ y = rb_minimum(t, t.node[z].right) /\ x = t.node[y].right
                          /\ v = FreeNode(Spliced(t, y, x), y) /\ u = FreeNode(Succeeded(t, z), z)
    OBVIOUS
  <1>2. PICK l, r, p, q : /\ l = t.node[z].left /\ r = t.node[z].right /\ p = t.node[z].parent
                          /\ q = t.node[y].parent
    OBVIOUS
  <1>3. MovesUp(t, u, v, z, y, x)
    BY <1>1, SucceededMoves
  <1>4. Sound(u)
    BY <1>3, TakenOverSound DEF MovesUp
  <1>5. Promoted(t, u, z, y, q, x) /\ y \in LiveOf(t) /\ y # z /\ x # z
    BY <1>2, <1>3 DEF MovesUp
  <1>6. LiveOf(u) = LiveOf(t) \ {z} /\ \A m \in LiveOf(u) : u.node[m].key = t.node[m].key
    BY <1>5 DEF Promoted
  <1>7. l \in LiveOf(t) /\ r \in LiveOf(t)
    BY <1>2, SidesOf
  <1>8. q \in LiveOf(t) /\ q # p /\ q # y /\ IF q = z THEN y = r ELSE t.node[q].left = y
    <2>1. Behind(t, z, y)
      BY <1>1, MinIsBehind
    <2>2. p # z
      BY <1>2, NotOwnParent
    <2>3. QED
      BY <1>2, <1>5, <2>1, <2>2 DEF Behind
  <1>9. PICK A : WayBehind(t, z, y, A)
    BY <1>1, MinIsBehind
  <1>10. Ordered(t) => Ordered(u)
    <2>1. x # nullptr => x \in LiveOf(t) /\ t.node[x].parent = y
      BY <1>3 DEF MovesUp
    <2>2. Moving(t, z, l, r, p, y, q, x)
      BY <1>1, <1>2, <1>5, <1>7, <1>8, <2>1 DEF Moving
    <2>3. QED
      BY <1>5, <1>9, <2>2, MovingOrdered
  <1>11. QED
    BY <1>1, <1>4, <1>6, <1>10 DEF Shrunk

LEMMA Deleted ==
  ASSUME TInv, NEW key \in Keys, rb_delete(key)
  PROVE  TInv' /\ \E z \in LiveOf(Tree) : node[z].key = key /\ Shrunk(Tree, Tree', z)
  <1>1. PICK z : z = rb_search(Tree, key)
    OBVIOUS
  <1>2. PICK both, only : /\ both = (node[z].left # nullptr /\ node[z].right # nullptr)
                          /\ only = IF node[z].left = nullptr THEN node[z].right ELSE node[z].left
    OBVIOUS
  <1>3. PICK y, x, t :
          /\ y = IF both THEN rb_minimum(Tree, node[z].right) ELSE z
          /\ x = IF both THEN node[y].right ELSE only
          /\ t = IF both THEN Succeeded(Tree, z) ELSE Spliced(Tree, z, only)
    OBVIOUS
  <1>4. /\ z # nullptr
        /\ Become(FreeNode(t, z))
        /\ \/ op' = Idle
           \/ x # nullptr /\ op' = [kind |-> "delete", at |-> x, turns |-> 0]
    BY <1>1, <1>2, <1>3, Zenon DEF rb_delete
  <1>5. Sound(Tree) /\ Typed(Tree)
    BY DEF TInv, Sound
  <1>6. z \in LiveOf(Tree) /\ node[z].key = key
    BY <1>1, <1>4, <1>5, SearchHits, TreeFields
  <1>7. PICK u : u = FreeNode(t, z)
    OBVIOUS
  <1>8. /\ node[z].left # nullptr => node[z].left \in LiveOf(Tree) /\ node[node[z].left].parent = z
        /\ node[z].right # nullptr => node[z].right \in LiveOf(Tree) /\ node[node[z].right].parent = z
    BY <1>5, <1>6, SidesOf, TreeFields
  <1>9. Shrunk(Tree, u, z) /\ (x # nullptr => x \in LiveOf(Tree) \ {z})
    <2>1. CASE both
      <3>1. node[z].left # nullptr /\ node[z].right # nullptr /\ t = Succeeded(Tree, z)
        BY <1>2, <1>3, <2>1
      <3>2. Shrunk(Tree, u, z)
        BY <1>5, <1>6, <1>7, <3>1, SucceededShrinks, TreeFields
      <3>3. y = rb_minimum(Tree, node[z].right) /\ x = node[y].right
        BY <1>3, <2>1
      <3>4. Behind(Tree, z, y)
        BY <1>5, <1>6, <3>1, <3>3, MinIsBehind, TreeFields
      <3>5. y \in LiveOf(Tree) /\ x # z
        BY <3>3, <3>4, TreeFields DEF Behind
      <3>6. x # nullptr => x \in LiveOf(Tree)
        BY <1>5, <3>3, <3>5, SidesOf, TreeFields
      <3>7. QED
        BY <3>2, <3>5, <3>6
    <2>2. CASE ~ both
      <3>1. t = Spliced(Tree, z, only) /\ x = only
        BY <1>3, <2>2
      <3>2. node[z].left = nullptr \/ node[z].right = nullptr
        BY <1>2, <2>2
      <3>3. x # nullptr => x \in LiveOf(Tree) /\ Tree.node[x].parent = z
        BY <1>2, <1>8, <3>1, TreeFields
      <3>4. \A s \in Sides : Tree.node[z][s] \in {x, nullptr}
        BY <1>2, <3>1, <3>2, TreeFields DEF Sides
      <3>5. Shrunk(Tree, u, z)
        BY <1>5, <1>6, <1>7, <3>1, <3>3, <3>4, SplicedShrinks
      <3>6. x # z
        <4>1. x # nullptr => Tree.node[x].parent # x
          BY <1>5, <3>3, NotOwnParent
        <4>2. QED
          BY <1>4, <3>3, <4>1
      <3>7. QED
        BY <3>3, <3>5, <3>6
    <2>3. QED
      BY <2>1, <2>2
  <1>10. Tree' = u
    BY <1>4, <1>7, <1>9, Became DEF Shrunk, Sound, Typed
  <1>11. Sound(Tree') /\ Ordered(Tree') /\ LiveOf(Tree') = LiveOf(Tree) \ {z}
    BY <1>9, <1>10 DEF Shrunk, TInv
  <1>12. op' \in OpType /\ (Working' => op'.at \in LiveOf(Tree'))
    <2>1. CASE op' = Idle
      BY <2>1 DEF OpType, Working, Idle
    <2>2. CASE x # nullptr /\ op' = [kind |-> "delete", at |-> x, turns |-> 0]
      <3>1. x \in LiveOf(Tree') /\ x \in Nodes
        BY <1>9, <1>11, <2>2 DEF LiveOf
      <3>2. QED
        BY <2>2, <3>1 DEF OpType
    <2>3. QED
      BY <1>4, <2>1, <2>2
  <1>13. QED
    BY <1>6, <1>9, <1>10, <1>11, <1>12 DEF TInv

-----------------------------------------------------------------------------
(* What is below the root.                                                 *)

Kids(nd, m) == {nd[m].left, nd[m].right} \ {nullptr}

WithKids(nd, A) == A \cup UNION {Kids(nd, m) : m \in A}

BelowBody(nd, n, h) ==
  h = [k \in 0 .. Cardinality(Nodes) |->
         IF k = 0 THEN {n} \ {nullptr} ELSE WithKids(nd, h[k - 1])]

LEMMA BelowIs ==
  ASSUME NEW n
  PROVE  Below(n) = (CHOOSE h : BelowBody(node, n, h))[Size]
  BY Zenon DEF Below, Children, BelowBody, WithKids, Kids, Size

BelowWalk(t, n, w) ==
  /\ w \in [0 .. Size -> SUBSET LiveOf(t)]
  /\ w[0] = {n} \ {nullptr}
  /\ \A k \in 1 .. Size : w[k] = WithKids(t.node, w[k - 1])

LEMMA KidsLive ==
  ASSUME NEW t, Sound(t), NEW A \in SUBSET LiveOf(t)
  PROVE  WithKids(t.node, A) \in SUBSET LiveOf(t)
  <1>1. \A m \in A : Kids(t.node, m) \subseteq LiveOf(t)
    BY SidesOf DEF Kids
  <1>2. QED
    BY <1>1 DEF WithKids

LEMMA BelowWay ==
  ASSUME NEW t, Sound(t), NEW n \in LiveOf(t) \cup {nullptr},
         NEW w, w = CHOOSE h : BelowBody(t.node, n, h)
  PROVE  BelowWalk(t, n, w)
  <1>1. PICK D : D = SUBSET LiveOf(t)
    OBVIOUS
  <1>2. PICK G : G = [A \in D |-> WithKids(t.node, A)]
    OBVIOUS
  <1>3. \A A \in D : G[A] \in D /\ G[A] = WithKids(t.node, A)
    BY <1>1, <1>2, KidsLive
  <1>4. G \in [D -> D]
    BY <1>2, <1>3
  <1>5. PICK N \in Nat, r \in D : N = Size /\ N = Cardinality(Nodes) /\ r = {n} \ {nullptr}
    <2>1. {n} \ {nullptr} \in D
      BY <1>1
    <2>2. QED
      BY <2>1, SizeIsNat DEF Size
  <1>6. PICK f \in [0 .. N -> D] : f[0] = r /\ \A k \in 1 .. N : f[k] = G[f[k - 1]]
    <2>1. Iterated(N, D, r, G)
      BY <1>4, Iterates
    <2>2. QED
      BY <2>1 DEF Iterated
  <1>7. BelowBody(t.node, n, f)
    <2>1. ASSUME NEW k \in 0 .. N
          PROVE  f[k] = IF k = 0 THEN {n} \ {nullptr} ELSE WithKids(t.node, f[k - 1])
      <3>1. CASE k = 0
        BY <1>5, <1>6, <3>1
      <3>2. CASE k # 0
        <4>1. k \in 1 .. N /\ k - 1 \in 0 .. N
          BY <3>2
        <4>2. f[k] = G[f[k - 1]] /\ f[k - 1] \in D
          BY <1>6, <4>1
        <4>3. QED
          BY <1>3, <3>2, <4>2
      <3>3. QED
        BY <3>1, <3>2
    <2>2. f = [k \in 0 .. N |-> IF k = 0 THEN {n} \ {nullptr} ELSE WithKids(t.node, f[k - 1])]
      BY <1>6, <2>1
    <2>3. QED
      BY <1>5, <2>2 DEF BelowBody
  <1>8. BelowBody(t.node, n, w)
    BY <1>7, Zenon
  <1>9. w = [k \in 0 .. N |-> IF k = 0 THEN {n} \ {nullptr} ELSE WithKids(t.node, w[k - 1])]
    BY <1>5, <1>8 DEF BelowBody
  <1>10. \A k \in 0 .. N :
           w[k] = IF k = 0 THEN {n} \ {nullptr} ELSE WithKids(t.node, w[k - 1])
    BY <1>9, Zenon
  <1>11. w[0] = r /\ \A k \in 1 .. N : w[k] = WithKids(t.node, w[k - 1])
    BY <1>5, <1>10
  <1>12. \A k \in 0 .. N : w[k] \in D
    <2> DEFINE S == {k \in 0 .. N : w[k] \in D}
    <2>1. 0 \in S
      BY <1>11
    <2>2. ASSUME NEW k \in 1 .. N, k - 1 \in S PROVE k \in S
      <3>1. w[k - 1] \in D /\ w[k] = WithKids(t.node, w[k - 1])
        BY <1>11, <2>2
      <3>2. w[k] \in D
        BY <1>3, <3>1
      <3>3. QED
        BY <3>2
    <2>3. \A k \in 0 .. N : k \in S
      <3> HIDE DEF S
      <3>1. QED
        BY <2>1, <2>2, UpTo
    <2>4. QED
      BY <2>3
  <1>13. w \in [0 .. N -> D]
    <2>1. w = [k \in 0 .. N |-> w[k]]
      BY <1>9
    <2>2. QED
      BY <1>12, <2>1
  <1>14. QED
    BY <1>1, <1>5, <1>11, <1>13 DEF BelowWalk

(* What is below n: with n and all their children, and nothing else.       *)
Hull(t, n, A) ==
  /\ A \in SUBSET LiveOf(t) /\ n \in A /\ WithKids(t.node, A) = A
  /\ \A m \in A : m = n \/ \E p \in A : m \in Kids(t.node, p)

(* As long as a child is missing a step of the walk down adds one.         *)
LEMMA BelowIsHull ==
  ASSUME NEW t, Sound(t), NEW n \in LiveOf(t), NEW w, w = CHOOSE h : BelowBody(t.node, n, h)
  PROVE  Hull(t, n, w[Size])
  <1>1. PICK N \in Nat : N = Size /\ N = Cardinality(Nodes)
    BY SizeIsNat DEF Size
  <1>2. /\ w \in [0 .. N -> SUBSET LiveOf(t)]
        /\ w[0] = {n} \ {nullptr}
        /\ \A k \in 1 .. N : w[k] = WithKids(t.node, w[k - 1])
    <2>1. BelowWalk(t, n, w)
      BY BelowWay
    <2>2. QED
      BY <1>1, <2>1 DEF BelowWalk
  <1>3. w[0] = {n}
    BY <1>2, RbTreeAssumption DEF LiveOf
  <1>4. \A A \in SUBSET LiveOf(t) : IsFiniteSet(A) /\ Cardinality(A) \in Nat /\ Cardinality(A) <= N
    <2>1. LiveOf(t) \subseteq Nodes
      BY DEF LiveOf
    <2>2. QED
      BY <1>1, <2>1, RbTreeAssumption, FS_Subset, FS_CardinalityType
  <1> DEFINE Closed(A) == WithKids(t.node, A) = A
             Reached(A) == \A m \in A : m = n \/ \E p \in A : m \in Kids(t.node, p)
             S == {k \in 0 .. N : /\ n \in w[k] /\ Reached(w[k])
                                  /\ Closed(w[k]) \/ Cardinality(w[k]) >= k + 1}
  <1>5. 0 \in S
    <2>1. PICK A : A = {n}
      OBVIOUS
    <2>2. w[0] = A /\ n \in A /\ Cardinality(A) = 1
      BY <1>3, <2>1, FS_Singleton
    <2>3. Reached(A)
      BY <2>1
    <2> HIDE DEF Reached, Closed
    <2>4. n \in w[0] /\ Reached(w[0]) /\ Cardinality(w[0]) >= 0 + 1
      BY <2>2, <2>3
    <2>5. QED
      BY <1>1, <2>4
  <1>6. ASSUME NEW k \in 1 .. N, k - 1 \in S PROVE k \in S
    <2>1. PICK A \in SUBSET LiveOf(t), B \in SUBSET LiveOf(t) :
            A = w[k - 1] /\ B = w[k] /\ B = WithKids(t.node, A)
      <3>1. k - 1 \in 0 .. N /\ k \in 0 .. N
        OBVIOUS
      <3>2. QED
        BY <1>2, <3>1
    <2>2. A \subseteq B
      BY <2>1 DEF WithKids
    <2>3. n \in B
      BY <1>6, <2>1, <2>2
    <2>4. Reached(B)
      <3>1. ASSUME NEW m \in B, m # n PROVE \E p \in B : m \in Kids(t.node, p)
        <4>1. Reached(A)
          BY <1>6, <2>1
        <4>2. m \in A \/ \E p \in A : m \in Kids(t.node, p)
          BY <2>1 DEF WithKids
        <4>3. QED
          BY <2>2, <3>1, <4>1, <4>2
      <3>2. QED
        BY <3>1
    <2>5. CASE A = B
      BY <1>6, <2>1, <2>3, <2>4, <2>5
    <2>6. CASE A # B
      <3>1. ~ Closed(A)
        BY <2>1, <2>6
      <3>2. Cardinality(A) >= k
        BY <1>6, <2>1, <3>1
      <3>3. Cardinality(A) # Cardinality(B) /\ Cardinality(A) <= Cardinality(B)
        BY <1>4, <2>2, <2>6, FS_Subset
      <3>4. Cardinality(B) >= k + 1
        BY <1>4, <3>2, <3>3
      <3>5. QED
        BY <2>1, <2>3, <2>4, <3>4
    <2>7. QED
      BY <2>5, <2>6
  <1>7. \A k \in 0 .. N : k \in S
    <2> HIDE DEF S
    <2>1. QED
      BY <1>5, <1>6, UpTo
  <1>8. PICK A \in SUBSET LiveOf(t) : A = w[N]
    <2>1. N \in 0 .. N
      BY <1>1
    <2>2. QED
      BY <1>2, <2>1
  <1>9. n \in A /\ Reached(A) /\ Closed(A)
    <2>1. N \in S
      BY <1>7
    <2>2. Cardinality(A) <= N /\ Cardinality(A) \in Nat
      BY <1>4
    <2>3. QED
      BY <1>8, <2>1, <2>2
  <1>10. QED
    BY <1>1, <1>8, <1>9 DEF Hull

LEMMA HullKids ==
  ASSUME NEW t, NEW n, NEW A, Hull(t, n, A), NEW p \in A, NEW m \in Kids(t.node, p)
  PROVE  m \in A
  BY DEF Hull, WithKids

(* Below the root are all nodes: those above would hold all their parents. *)
LEMMA RootHull ==
  ASSUME NEW t, Sound(t), NEW A, Hull(t, t.root, A)
  PROVE  A = LiveOf(t)
  <1>1. PICK B : B = LiveOf(t) \ A
    OBVIOUS
  <1>2. t.root \in A /\ A \in SUBSET LiveOf(t)
    BY DEF Hull
  <1>3. ASSUME NEW n \in B PROVE t.node[n].parent \in B
    <2>1. n \in LiveOf(t) /\ n # t.root
      BY <1>1, <1>2
    <2>2. PICK p \in LiveOf(t), s \in Sides : p = t.node[n].parent /\ t.node[p][s] = n
      BY <2>1 DEF Sound, Up
    <2>3. ASSUME p \in A PROVE FALSE
      <3>1. n # nullptr
        BY <2>1, RbTreeAssumption DEF LiveOf
      <3>2. n = t.node[p].left \/ n = t.node[p].right
        BY <2>2 DEF Sides
      <3>3. n \in Kids(t.node, p)
        BY <3>1, <3>2 DEF Kids
      <3>4. n \in A
        BY <2>3, <3>3, HullKids
      <3>5. QED
        BY <1>1, <3>4
    <2>4. QED
      BY <1>1, <2>2, <2>3
  <1>4. B = {}
    BY <1>1, <1>3, NoCycle
  <1>5. QED
    BY <1>1, <1>2, <1>4

LEMMA BelowAll ==
  ASSUME NEW t, Sound(t), NEW w, w = CHOOSE h : BelowBody(t.node, t.root, h)
  PROVE  w[Size] = LiveOf(t)
  <1>1. CASE LiveOf(t) = {}
    <2>1. PICK N \in Nat : N = Size
      BY SizeIsNat
    <2>2. t.root \in LiveOf(t) \cup {nullptr}
      BY DEF Sound
    <2>3. BelowWalk(t, t.root, w)
      BY <2>2, BelowWay
    <2>4. N \in 0 .. N
      BY <2>1
    <2>5. w[N] \in SUBSET LiveOf(t)
      BY <2>1, <2>3, <2>4 DEF BelowWalk
    <2>6. QED
      BY <1>1, <2>1, <2>5
  <1>2. CASE LiveOf(t) # {}
    BY <1>2, RootLive, BelowIsHull, RootHull
  <1>3. QED
    BY <1>1, <1>2

LEMMA BelowIsLive ==
  ASSUME Sound(Tree)
  PROVE  Below(root) = Live
  <1>1. Below(root) = (CHOOSE h : BelowBody(node, root, h))[Size]
    BY BelowIs
  <1>2. PICK w : w = CHOOSE h : BelowBody(node, root, h)
    OBVIOUS
  <1>3. w = CHOOSE h : BelowBody(Tree.node, Tree.root, h)
    BY <1>2, TreeFields
  <1>4. w[Size] = LiveOf(Tree)
    BY <1>3, BelowAll
  <1>5. LiveOf(Tree) = Live
    BY TreeFields DEF LiveOf, Live
  <1>6. QED
    BY <1>1, <1>2, <1>4, <1>5

-----------------------------------------------------------------------------
(* Theorems.                                                               *)

LEMMA TreeStep ==
  ASSUME TInv, [Next]_vars
  PROVE  /\ TInv'
         /\ \/ Keeps(Tree, Tree')
            \/ \E key \in Keys : \E z \in Nodes \ LiveOf(Tree) : Grown(Tree, Tree', z, key)
            \/ \E key \in Keys : \E z \in LiveOf(Tree) :
                 node[z].key = key /\ Shrunk(Tree, Tree', z)
  <1>1. CASE UNCHANGED vars
    <2>1. Tree' = Tree /\ op' = op
      BY <1>1 DEF vars, Tree
    <2>2. Keeps(Tree, Tree')
      BY <2>1 DEF Keeps, TInv
    <2>3. TInv'
      BY <2>1 DEF TInv, Working
    <2>4. QED
      BY <2>2, <2>3
  <1>2. ASSUME NEW key \in Keys, rb_insert(key)
        PROVE  TInv' /\ \E z \in Nodes \ LiveOf(Tree) : Grown(Tree, Tree', z, key)
    BY <1>2, Inserted
  <1>3. ASSUME NEW key \in Keys, rb_delete(key)
        PROVE  TInv' /\ \E z \in LiveOf(Tree) : node[z].key = key /\ Shrunk(Tree, Tree', z)
    BY <1>3, Deleted
  <1>4. ASSUME rb_insert_fixup PROVE TInv' /\ Keeps(Tree, Tree')
    BY <1>4, InsertTurn
  <1>5. ASSUME rb_delete_fixup PROVE TInv' /\ Keeps(Tree, Tree')
    BY <1>5, DeleteTurn
  <1>6. QED
    BY <1>1, <1>2, <1>3, <1>4, <1>5, Zenon DEF Next

LEMMA TreeStart == Init => TInv /\ LiveOf(Tree) = {}
  <1> SUFFICES ASSUME Init PROVE TInv /\ LiveOf(Tree) = {}
    OBVIOUS
  <1>1. PICK t : t = Tree
    OBVIOUS
  <1>2. t.root = nullptr /\ t.node = [n \in Nodes |-> Freed] /\ t = [root |-> t.root, node |-> t.node]
    BY <1>1 DEF Tree, Init
  <1>3. LiveOf(t) = {}
    BY <1>2 DEF LiveOf
  <1>4. Typed(t)
    BY <1>2 DEF Typed, MaybeNode
  <1>5. Down(t) /\ Up(t)
    BY <1>3 DEF Down, Up
  <1>6. Acyclic(LiveOf(t), Ups(t))
    BY <1>3 DEF Acyclic
  <1>7. Sound(t)
    BY <1>2, <1>4, <1>5, <1>6 DEF Sound
  <1>8. Ordered(t)
    <2>1. Bounds(t, {})
      BY <1>3 DEF Bounds
    <2>2. QED
      BY <2>1 DEF Ordered
  <1>9. QED
    BY <1>1, <1>3, <1>7, <1>8 DEF TInv, Init, OpType, Working, Idle

LEMMA SoundLinks == ASSUME TInv PROVE LinksSound
  <1>1. Sound(Tree) /\ Live = LiveOf(Tree)
    BY TreeFields DEF TInv, LiveOf, Live
  <1>2. Below(root) = Live
    BY <1>1, BelowIsLive
  <1>3. root # nullptr => node[root].parent = nullptr
    BY <1>1, TreeFields DEF Sound, Up
  <1>4. ASSUME NEW n \in Live
        PROVE  /\ \A c \in Children(n) : node[c].parent = n
               /\ node[n].left # nullptr => node[n].left # node[n].right
    BY <1>1, SidesOf, TreeFields DEF Children
  <1>5. op.kind \in {"insert", "delete"} => op.at \in Live
    BY <1>1 DEF TInv, Working
  <1>6. QED
    BY <1>2, <1>3, <1>4, <1>5 DEF LinksSound

(* The links always form one tree of exactly the allocated nodes, parents  *)
(* agreeing with children (LinksSound): through insertions, deletions and  *)
(* every rotation of their fix-ups, for trees of any size and shape, those *)
(* too that a skipped fix-up has left out of balance.                      *)
THEOREM LinksStaySound == Spec => []LinksSound
  <1>1. Init => TInv
    BY TreeStart
  <1>2. TInv /\ [Next]_vars => TInv'
    BY TreeStep
  <1>3. TInv => LinksSound
    BY SoundLinks
  <1>4. QED
    BY <1>1, <1>2, <1>3, PTL DEF Spec

(* How often a key is in a tree.                                           *)
With(t, k) == {n \in LiveOf(t) : t.node[n].key = k}

Counts(t) == [k \in Keys |-> Cardinality(With(t, k))]

LEMMA WithFinite ==
  ASSUME NEW t, NEW k
  PROVE  IsFiniteSet(With(t, k)) /\ Cardinality(With(t, k)) \in Nat
  <1>1. With(t, k) \in SUBSET Nodes
    BY DEF With, LiveOf
  <1>2. QED
    BY <1>1, RbTreeAssumption, FS_Subset, FS_CardinalityType

LEMMA KeepsCount ==
  ASSUME NEW t, NEW u, Keeps(t, u)
  PROVE  Counts(u) = Counts(t)
  <1>1. \A k \in Keys : With(u, k) = With(t, k)
    BY DEF With, Keeps
  <1>2. QED
    BY <1>1 DEF Counts

LEMMA GrownCounts ==
  ASSUME NEW t, NEW u, NEW key \in Keys, NEW z \in Nodes \ LiveOf(t), Grown(t, u, z, key)
  PROVE  Counts(u) = [Counts(t) EXCEPT ![key] = @ + 1]
  <1>1. With(u, key) = With(t, key) \cup {z} /\ z \notin With(t, key)
    BY DEF With, Grown
  <1>2. Cardinality(With(u, key)) = Cardinality(With(t, key)) + 1
    BY <1>1, WithFinite, FS_AddElement
  <1>3. \A k \in Keys \ {key} : With(u, k) = With(t, k)
    BY DEF With, Grown
  <1>4. QED
    BY <1>2, <1>3 DEF Counts

LEMMA ShrunkCounts ==
  ASSUME NEW t, NEW u, NEW key \in Keys, NEW z \in LiveOf(t), t.node[z].key = key, Shrunk(t, u, z)
  PROVE  /\ Counts(t)[key] > 0
         /\ Counts(u) = [Counts(t) EXCEPT ![key] = @ - 1]
  <1>1. With(u, key) = With(t, key) \ {z} /\ z \in With(t, key)
    BY DEF With, Shrunk
  <1>2. Cardinality(With(u, key)) = Cardinality(With(t, key)) - 1
    <2>1. PICK A : A = With(t, key)
      OBVIOUS
    <2>2. IsFiniteSet(A) /\ z \in A /\ With(u, key) = A \ {z}
      BY <1>1, <2>1, WithFinite
    <2>3. Cardinality(A \ {z}) = Cardinality(A) - 1
      BY <2>2, FS_RemoveElement
    <2>4. QED
      BY <2>1, <2>2, <2>3
  <1>3. \A k \in Keys \ {key} : With(u, k) = With(t, k)
    BY DEF With, Shrunk
  <1>4. Cardinality(With(t, key)) > 0
    BY <1>2, WithFinite
  <1>5. QED
    BY <1>2, <1>3, <1>4 DEF Counts

Tally == [k \in Keys |-> Cardinality({n \in Below(root) : node[n].key = k})]

LEMMA TallyIs ==
  ASSUME Below(root) = Live
  PROVE  Tally = Counts(Tree)
  <1>1. Below(root) = LiveOf(Tree)
    BY TreeFields DEF LiveOf, Live
  <1>2. QED
    BY <1>1, TreeFields DEF Tally, Counts, With

LEMMA TallyIsNext ==
  ASSUME Below(root)' = Live'
  PROVE  Tally' = Counts(Tree')
  <1>1. Tree'.node = node'
    BY DEF Tree
  <1>2. Below(root)' = LiveOf(Tree')
    BY <1>1 DEF LiveOf, Live
  <1>3. QED
    BY <1>1, <1>2 DEF Tally, Counts, With

LEMMA BagStep ==
  ASSUME TInv, LinksSound, LinksSound', [Next]_vars
  PROVE  [Bag!Next]_Tally
  <1>1. Tally = Counts(Tree) /\ Tally' = Counts(Tree')
    BY TallyIs, TallyIsNext DEF LinksSound
  <1>2. CASE Keeps(Tree, Tree')
    BY <1>1, <1>2, KeepsCount
  <1>3. ASSUME NEW key \in Keys, NEW z \in Nodes \ LiveOf(Tree), Grown(Tree, Tree', z, key)
        PROVE  Bag!Next
    <2>1. Tally' = [Tally EXCEPT ![key] = @ + 1]
      BY <1>1, <1>3, GrownCounts
    <2>2. Bag!Insert(key)
      BY <2>1 DEF Bag!Insert, Tally
    <2>3. QED
      BY <2>2 DEF Bag!Next
  <1>4. ASSUME NEW key \in Keys, NEW z \in LiveOf(Tree), node[z].key = key, Shrunk(Tree, Tree', z)
        PROVE  Bag!Next
    <2>1. Tally[key] > 0 /\ Tally' = [Tally EXCEPT ![key] = @ - 1]
      BY <1>1, <1>4, ShrunkCounts, TreeFields
    <2>2. Bag!Delete(key)
      BY <2>1 DEF Bag!Delete, Tally
    <2>3. QED
      BY <2>2 DEF Bag!Next
  <1>5. QED
    BY <1>2, <1>3, <1>4, TreeStep

LEMMA BagStart == Init => Bag!Init
  <1> SUFFICES ASSUME Init PROVE Bag!Init
    OBVIOUS
  <1>1. TInv /\ LiveOf(Tree) = {}
    BY TreeStart
  <1>2. Tally = Counts(Tree)
    BY <1>1, BelowIsLive, TallyIs DEF TInv
  <1>3. \A k \in Keys : With(Tree, k) = {}
    BY <1>1 DEF With
  <1>4. Tally = [k \in Keys |-> 0]
    BY <1>2, <1>3, FS_EmptySet DEF Counts
  <1>5. QED
    BY <1>4 DEF Bag!Init, Tally

(* The tree implements a bag of keys (ImplementsBag): rb_insert adds its   *)
(* key once and rb_delete takes one of its own away, whichever shape the   *)
(* tree has, and no turn of a fix-up loses or doubles any.                 *)
THEOREM TreeIsBag == Spec => ImplementsBag
  <1>1. Init => TInv /\ Bag!Init
    BY TreeStart, BagStart
  <1>2. TInv /\ [Next]_vars => TInv'
    BY TreeStep
  <1>3. TInv => LinksSound
    BY SoundLinks
  <1>4. TInv /\ LinksSound /\ LinksSound' /\ [Next]_vars => [Bag!Next]_Tally
    BY BagStep
  <1>5. QED
    BY <1>1, <1>2, <1>3, <1>4, PTL DEF Spec, ImplementsBag, Bag!Spec, Tally

-----------------------------------------------------------------------------
(* A search that ends at the null pointer has missed nothing: the nodes    *)
(* whose bounds have the key and that it did not visit would hold all      *)
(* their parents.                                                          *)
LEMMA SearchMisses ==
  ASSUME NEW t, Sound(t), Ordered(t), NEW key \in Keys, rb_search(t, key) = nullptr,
         NEW m \in LiveOf(t)
  PROVE  t.node[m].key # key
  <1>1. PICK w : w = CHOOSE h : SearchBody(t, key, h)
    OBVIOUS
  <1>2. PICK N \in Nat : N = Size
    BY SizeIsNat
  <1>3. PICK B : Bounds(t, B)
    BY DEF Ordered
  <1>4. nullptr \notin LiveOf(t)
    BY RbTreeAssumption DEF LiveOf
  <1>5. w[N] = nullptr
    BY <1>1, <1>2, SearchIs
  <1>6. /\ w \in [0 .. N -> LiveOf(t) \cup {nullptr}]
        /\ w[0] = t.root
        /\ \A k \in 1 .. N :
             w[k] = IF w[k - 1] = nullptr THEN nullptr
                    ELSE IF t.node[w[k - 1]].key = key THEN w[k - 1]
                    ELSE IF key < t.node[w[k - 1]].key THEN t.node[w[k - 1]].left
                    ELSE t.node[w[k - 1]].right
    BY <1>1, <1>2, SearchWay DEF SearchWalk
  <1>7. ASSUME NEW i \in 0 .. N, w[i] # nullptr PROVE t.node[w[i]].key # key
    <2> SUFFICES ASSUME t.node[w[i]].key = key PROVE FALSE
      OBVIOUS
    <2> DEFINE S == {k \in 0 .. N : k >= i => w[k] = w[i]}
    <2>1. 0 \in S
      OBVIOUS
    <2>2. ASSUME NEW k \in 1 .. N, k - 1 \in S PROVE k \in S
      <3>1. CASE k - 1 >= i
        BY <1>6, <1>7, <2>2, <3>1
      <3>2. CASE ~ k - 1 >= i
        BY <3>2
      <3>3. QED
        BY <3>1, <3>2
    <2>3. \A k \in 0 .. N : k \in S
      <3> HIDE DEF S
      <3>1. QED
        BY <1>2, <2>1, <2>2, UpTo
    <2>4. N \in S /\ N >= i
      BY <2>3
    <2>5. QED
      BY <1>5, <1>7, <2>4
  <1>8. PICK V : V = {w[k] : k \in 0 .. N}
    OBVIOUS
  <1>9. PICK S : S = {n \in LiveOf(t) : key \in B[n] /\ n \notin V}
    OBVIOUS
  <1>10. ASSUME NEW n \in S PROVE t.node[n].parent \in S
    <2>1. n \in LiveOf(t) /\ key \in B[n] /\ n \notin V /\ n # nullptr
      BY <1>4, <1>9
    <2>2. n # t.root
      <3>1. w[0] \in V
        BY <1>8
      <3>2. QED
        BY <1>6, <2>1, <3>1
    <2>3. PICK p \in LiveOf(t), s \in Sides : p = t.node[n].parent /\ t.node[p][s] = n
      BY <2>1, <2>2 DEF Sound, Up
    <2>4. key \in B[p] /\ OnSide(s, key, t.node[p].key)
      BY <1>3, <2>1, <2>3 DEF Bounds
    <2>5. p \notin V
      <3> SUFFICES ASSUME p \in V PROVE FALSE
        OBVIOUS
      <3>1. PICK k \in 0 .. N : p = w[k]
        BY <1>8
      <3>2. p # nullptr /\ t.node[p].key # key
        BY <1>4, <1>7, <3>1
      <3>3. k # N
        BY <1>5, <3>1, <3>2
      <3>4. k + 1 \in 1 .. N /\ k + 1 \in 0 .. N /\ (k + 1) - 1 = k
        BY <3>3
      <3>5. w[k + 1] = IF key < t.node[p].key THEN t.node[p].left ELSE t.node[p].right
        BY <1>6, <3>1, <3>2, <3>4
      <3>6. t.node[p].key \in Int /\ key \in Int
        BY NodeFields, RbTreeAssumption DEF Sound
      <3>7. s = IF key < t.node[p].key THEN "left" ELSE "right"
        BY <2>4, <3>2, <3>6 DEF OnSide, Sides
      <3>8. w[k + 1] = n
        BY <2>3, <3>5, <3>7
      <3>9. QED
        BY <1>8, <2>1, <3>4, <3>8
    <2>6. QED
      BY <1>9, <2>3, <2>4, <2>5
  <1>11. S = {}
    BY <1>9, <1>10, NoCycle
  <1>12. ASSUME t.node[m].key = key PROVE FALSE
    <2>1. key \in B[m]
      BY <1>3, <1>12 DEF Bounds
    <2>2. m \in V
      BY <1>9, <1>11, <2>1
    <2>3. PICK k \in 0 .. N : m = w[k]
      BY <1>8, <2>2
    <2>4. QED
      BY <1>4, <1>7, <1>12, <2>3
  <1>13. QED
    BY <1>12

LEMMA KeysFound == ASSUME TInv PROVE SearchFinds
  <1>1. Sound(Tree) /\ Ordered(Tree) /\ Live = LiveOf(Tree)
    BY TreeFields DEF TInv, LiveOf, Live
  <1>2. ASSUME NEW key \in Keys, NEW n, n = rb_search(Tree, key)
        PROVE  IF \E m \in Live : node[m].key = key THEN n \in Live /\ node[n].key = key
               ELSE n = nullptr
    <2>1. n # nullptr => n \in Live /\ node[n].key = key
      BY <1>1, <1>2, SearchHits, TreeFields
    <2>2. n = nullptr => \A m \in Live : node[m].key # key
      BY <1>1, <1>2, SearchMisses, TreeFields
    <2>3. QED
      BY <2>1, <2>2
  <1>3. \A key \in Keys :
          IF \E m \in Live : node[m].key = key
          THEN rb_search(Tree, key) \in Live /\ node[rb_search(Tree, key)].key = key
          ELSE rb_search(Tree, key) = nullptr
    BY <1>2
  <1>4. QED
    BY <1>3 DEF SearchFinds

(* rb_search finds a node for each key that is in the tree, and none for   *)
(* any other (SearchFinds): the order of the keys survives each rotation,  *)
(* insertion and deletion, with equal keys on either side of a node.       *)
THEOREM SearchAlwaysFinds == Spec => []SearchFinds
  <1>1. Init => TInv
    BY TreeStart
  <1>2. TInv /\ [Next]_vars => TInv'
    BY TreeStep
  <1>3. TInv => SearchFinds
    BY KeysFound
  <1>4. QED
    BY <1>1, <1>2, <1>3, PTL DEF Spec

-----------------------------------------------------------------------------
(* The laws of red-black trees, of any set R of nodes that count as red.   *)

Reds(t) == {n \in LiveOf(t) : t.node[n].color = "RED"}

(* The nodes where a way down may end.                                     *)
Ends(t) == {n \in LiveOf(t) : \E side \in Sides : t.node[n][side] = nullptr}

(* A red node outside F is not the root, nor below a red one outside E.    *)
Roomy(t, R, F, E) ==
  \A n \in R : n \in F \/ (n # t.root /\ (Ups(t)[n] \notin R \/ Ups(t)[n] \in E))

(* h counts the black nodes down to each node, and finds H at the ends.    *)
Levels(t, R, h, H) ==
  /\ H \in Int /\ h \in [LiveOf(t) -> Int]
  /\ \A n \in LiveOf(t) :
       h[n] = (IF n = t.root THEN 0 ELSE h[Ups(t)[n]]) + (IF n \in R THEN 0 ELSE 1)
  /\ \A n \in Ends(t) : h[n] = H

Even(t, R) == \E h, H : Levels(t, R, h, H)

LEMMA UpIs ==
  ASSUME NEW t, NEW n \in LiveOf(t)
  PROVE  Ups(t)[n] = t.node[n].parent
  BY DEF Ups, LiveOf

LEMMA RedIs ==
  ASSUME NEW t, NEW n \in LiveOf(t) \cup {nullptr}
  PROVE  IsRed(t, n) <=> n \in Reds(t)
  <1>1. nullptr \notin LiveOf(t)
    BY RbTreeAssumption DEF LiveOf
  <1>2. QED
    BY <1>1 DEF IsRed, Reds

(* What the laws say of a tree depends on its links alone.                 *)
Alike(t, u) ==
  /\ LiveOf(u) = LiveOf(t) /\ u.root = t.root /\ Ends(u) = Ends(t)
  /\ \A n \in LiveOf(t) : Ups(u)[n] = Ups(t)[n]

LEMMA SameLinksAlike ==
  ASSUME NEW t, NEW u, SameLinks(t, u)
  PROVE  Alike(t, u)
  <1>1. /\ LiveOf(u) = LiveOf(t) /\ u.root = t.root
        /\ \A n \in LiveOf(t) :
             /\ \A side \in Sides : u.node[n][side] = t.node[n][side]
             /\ u.node[n].parent = t.node[n].parent
    BY DEF SameLinks
  <1>2. \A n \in LiveOf(t) : Ups(u)[n] = Ups(t)[n]
    BY <1>1, UpIs
  <1>3. Ends(u) = Ends(t)
    BY <1>1 DEF Ends
  <1>4. QED
    BY <1>1, <1>2, <1>3 DEF Alike

LEMMA AlikeRoomy ==
  ASSUME NEW t, NEW u, Alike(t, u), NEW R \in SUBSET LiveOf(t), NEW F, NEW E, Roomy(t, R, F, E)
  PROVE  Roomy(u, R, F, E)
  BY DEF Alike, Roomy

LEMMA AlikeLevels ==
  ASSUME NEW t, NEW u, Alike(t, u), NEW R, NEW h, NEW H, Levels(t, R, h, H)
  PROVE  Levels(u, R, h, H)
  BY DEF Alike, Levels

LEMMA AlikeEven ==
  ASSUME NEW t, NEW u, Alike(t, u), NEW R, Even(t, R)
  PROVE  Even(u, R)
  BY AlikeLevels DEF Even

(* What a rotation at x, which brings y up, means for the laws.            *)
Swings(t, u, x, y, b) ==
  /\ x \in LiveOf(t) /\ y \in LiveOf(t) /\ x # y /\ y # t.root /\ Ups(t)[y] = x
  /\ LiveOf(u) = LiveOf(t)
  /\ u.root = IF x = t.root THEN y ELSE t.root
  /\ b # nullptr => b \in LiveOf(t) /\ Ups(t)[b] = y /\ b # x /\ b # y /\ b # t.root
  /\ x # t.root => Ups(t)[x] \in LiveOf(t) /\ Ups(t)[x] # x /\ Ups(t)[x] # y
  /\ \A n \in LiveOf(t) :
       Ups(u)[n] = IF n = x THEN y ELSE IF n = y THEN Ups(t)[x] ELSE IF n = b THEN x ELSE Ups(t)[n]
  /\ \A n \in Ends(u) : n \in Ends(t) \/ (n = x /\ y \in Ends(t))

LEMMA RotationSwings ==
  ASSUME NEW t, Sound(t), NEW x \in LiveOf(t), NEW side \in Sides,
         NEW y, NEW b, NEW p, Around(t, x, side, y, b, p),
         NEW u, Rewired(t, u, x, side, y, b, p)
  PROVE  Swings(t, u, x, y, b)
  <1>1. y = t.node[x][Other(side)] /\ y # nullptr /\ b = t.node[y][side] /\ p = t.node[x].parent
    BY DEF Around
  <1>2. /\ y \in LiveOf(t) /\ t.node[y].parent = x /\ y # x /\ y # p /\ p # x
        /\ b # nullptr => b \in LiveOf(t) /\ t.node[b].parent = y /\ b \notin {x, y, p}
        /\ p # nullptr => p \in LiveOf(t)
        /\ x = t.root <=> p = nullptr
        /\ y # t.root
    <2>1. Parted(t, x, y, b, p)
      BY <1>1, Apart
    <2>2. QED
      BY <2>1 DEF Parted
  <1>3. b # t.root
    <2>1. t.root \in LiveOf(t) => t.node[t.root].parent = nullptr
      BY DEF Sound, Up
    <2>2. nullptr \notin LiveOf(t)
      BY RbTreeAssumption DEF LiveOf
    <2>3. b = nullptr => t.root # b
      BY <2>2, RootLive
    <2>4. QED
      BY <1>2, <2>1, <2>2, <2>3
  <1>4. LiveOf(u) = LiveOf(t) /\ u.root = IF x = t.root THEN y ELSE t.root
    BY DEF Rewired
  <1>5. \A n \in LiveOf(t) : Ups(t)[n] = t.node[n].parent /\ Ups(u)[n] = u.node[n].parent
    BY <1>4, UpIs
  <1>6. ASSUME NEW n \in LiveOf(t)
        PROVE  Ups(u)[n] = IF n = x THEN y ELSE IF n = y THEN Ups(t)[x]
                           ELSE IF n = b THEN x ELSE Ups(t)[n]
    <2>1. u.node[n].parent = IF n = x THEN y ELSE IF n = y THEN p
                             ELSE IF n = b THEN x ELSE t.node[n].parent
      BY DEF Rewired
    <2>2. QED
      BY <1>1, <1>5, <2>1
  <1>7. ASSUME NEW n \in Ends(u)
        PROVE  n \in Ends(t) \/ (n = x /\ y \in Ends(t))
    <2>1. PICK s \in Sides : n \in LiveOf(t) /\ u.node[n][s] = nullptr
      BY <1>4 DEF Ends
    <2>2. u.node[n][s] = IF n = x /\ s = Other(side) THEN b
                         ELSE IF n = y /\ s = side THEN x
                         ELSE IF n = p /\ s = SideOf(t, x) THEN y ELSE t.node[n][s]
      BY <2>1 DEF Rewired
    <2>3. x # nullptr
      BY RbTreeAssumption DEF LiveOf
    <2>4. (n = x /\ b = nullptr) \/ t.node[n][s] = nullptr
      BY <1>1, <2>1, <2>2, <2>3
    <2>5. b = nullptr => y \in Ends(t)
      BY <1>1, <1>2 DEF Ends
    <2>6. QED
      BY <2>1, <2>4, <2>5 DEF Ends
  <1>8. b # nullptr => b \in LiveOf(t) /\ Ups(t)[b] = y /\ b # x /\ b # y /\ b # t.root
    BY <1>2, <1>3, <1>5
  <1>9. x # t.root => Ups(t)[x] \in LiveOf(t) /\ Ups(t)[x] # x /\ Ups(t)[x] # y
    BY <1>1, <1>2, <1>5
  <1>10. QED
    BY <1>2, <1>4, <1>5, <1>6, <1>7, <1>8, <1>9 DEF Swings

-----------------------------------------------------------------------------
(* The red-black laws through each kind of step.                           *)

(* A rotation that brings the only red child up and leaves x red.          *)
LEMMA SwingsRoomy ==
  ASSUME NEW t, NEW u, NEW x, NEW y, NEW b, Swings(t, u, x, y, b),
         NEW R \in SUBSET LiveOf(t), NEW F, NEW E, Roomy(t, R, F, E),
         y \in R, x \notin R, y \notin F, y \notin E, b \notin F,
         \A n \in R : Ups(t)[n] = x => n = y \/ n \in F
  PROVE  Roomy(u, (R \ {y}) \cup {x}, F, E)
  <1>1. PICK Q : Q = (R \ {y}) \cup {x}
    OBVIOUS
  <1>2. x # y /\ u.root \in {t.root, y} /\ (x = t.root => u.root = y) /\ y \notin Q
    BY <1>1 DEF Swings
  <1>3. b \notin R
    <2>1. b # nullptr => Ups(t)[b] = y
      BY DEF Swings
    <2>2. nullptr \notin R
      BY RbTreeAssumption DEF LiveOf
    <2>3. QED
      BY <2>1, <2>2 DEF Roomy
  <1>4. ASSUME NEW n \in Q, n \notin F
        PROVE  n # u.root /\ (Ups(u)[n] \notin Q \/ Ups(u)[n] \in E)
    <2>1. CASE n = x
      <3>1. Ups(u)[n] = y
        BY <2>1 DEF Swings
      <3>2. QED
        BY <1>2, <2>1, <3>1
    <2>2. CASE n # x
      <3>1. n \in R /\ n # y /\ n # b
        BY <1>1, <1>3, <1>4, <2>2
      <3>2. Ups(u)[n] = Ups(t)[n]
        BY <2>2, <3>1 DEF Swings
      <3>3. n # t.root /\ (Ups(t)[n] \notin R \/ Ups(t)[n] \in E)
        BY <1>4, <3>1 DEF Roomy
      <3>4. Ups(t)[n] # x
        BY <1>4, <3>1
      <3>5. QED
        BY <1>1, <1>2, <3>1, <3>2, <3>3, <3>4
    <2>3. QED
      BY <2>1, <2>2
  <1>5. QED
    BY <1>1, <1>4 DEF Roomy

(* A rotation of a red node and its red child: the trouble is at x now.    *)
LEMMA SwingsTrouble ==
  ASSUME NEW t, NEW u, NEW x, NEW y, NEW b, Swings(t, u, x, y, b),
         NEW R \in SUBSET LiveOf(t), Roomy(t, R, {y}, {}), y \in R, x \in R
  PROVE  x # t.root /\ Ups(t)[x] \notin R /\ Roomy(u, R, {x}, {})
  <1>1. x # t.root /\ Ups(t)[x] \notin R /\ x # y
    BY DEF Roomy, Swings
  <1>2. u.root = t.root /\ y # t.root
    BY <1>1 DEF Swings
  <1>3. b \notin R
    <2>1. b # nullptr => Ups(t)[b] = y /\ b # y
      BY DEF Swings
    <2>2. nullptr \notin R
      BY RbTreeAssumption DEF LiveOf
    <2>3. QED
      BY <2>1, <2>2 DEF Roomy
  <1>4. ASSUME NEW n \in R, n # x
        PROVE  n # u.root /\ Ups(u)[n] \notin R
    <2>1. CASE n = y
      <3>1. Ups(u)[n] = Ups(t)[x]
        BY <1>1, <2>1 DEF Swings
      <3>2. QED
        BY <1>1, <1>2, <2>1, <3>1
    <2>2. CASE n # y
      <3>1. Ups(u)[n] = Ups(t)[n]
        BY <1>3, <1>4, <2>2 DEF Swings
      <3>2. n # t.root /\ Ups(t)[n] \notin R
        BY <1>4, <2>2 DEF Roomy
      <3>3. QED
        BY <1>2, <3>1, <3>2
    <2>3. QED
      BY <2>1, <2>2
  <1>5. QED
    BY <1>1, <1>4 DEF Roomy

(* A rotation that brings a black node y up, which takes over the colour   *)
(* of x, while x and the outer child o of y turn black.                    *)
LEMMA SwingsBorrow ==
  ASSUME NEW t, NEW u, NEW x, NEW y, NEW b, Swings(t, u, x, y, b),
         NEW R \in SUBSET LiveOf(t), NEW f, Roomy(t, R, {f}, {f}), f \notin R,
         NEW o, y \notin R, \A n \in R : Ups(t)[n] = y => n \in {o, b},
         NEW Q, Q = (R \ {x, o}) \cup (IF x \in R THEN {y} ELSE {})
  PROVE  Roomy(u, Q, {}, {})
  <1>1. \A n \in R : n # t.root /\ Ups(t)[n] \notin R
    BY DEF Roomy
  <1>2. x # y /\ y # t.root /\ u.root \in {t.root, y} /\ (x # t.root => u.root = t.root)
    BY DEF Swings
  <1>3. ASSUME NEW n \in Q
        PROVE  n # u.root /\ Ups(u)[n] \notin Q
    <2>1. CASE n = y
      <3>1. x \in R
        BY <1>3, <2>1
      <3>2. x # t.root /\ Ups(t)[x] \notin R
        BY <1>1, <3>1
      <3>3. Ups(u)[n] = Ups(t)[x] /\ Ups(t)[x] # y
        BY <1>2, <2>1, <3>2 DEF Swings
      <3>4. QED
        BY <1>2, <2>1, <3>2, <3>3
    <2>2. CASE n # y
      <3>1. n \in R /\ n # x /\ n # o
        BY <1>3, <2>2
      <3>2. n # u.root
        BY <1>1, <1>2, <2>2, <3>1
      <3>3. CASE n = b
        <4>1. Ups(u)[n] = x
          BY <2>2, <3>1, <3>3 DEF Swings
        <4>2. QED
          BY <1>2, <3>2, <4>1
      <3>4. CASE n # b
        <4>1. Ups(u)[n] = Ups(t)[n]
          BY <2>2, <3>1, <3>4 DEF Swings
        <4>2. Ups(t)[n] \notin R /\ Ups(t)[n] # y
          BY <1>1, <3>1, <3>4
        <4>3. QED
          BY <3>2, <4>1, <4>2
      <3>5. QED
        BY <3>3, <3>4
    <2>3. QED
      BY <2>1, <2>2
  <1>4. QED
    BY <1>3 DEF Roomy

(* Where x and y stand at the same height before, and swap colours or are  *)
(* both red, all heights stay.                                             *)
LEMMA SwingsLevels ==
  ASSUME NEW t, NEW u, NEW x, NEW y, NEW b, Swings(t, u, x, y, b),
         NEW R, NEW h, NEW H, Levels(t, R, h, H), y \in R,
         NEW Q, x \in Q, y \in Q <=> x \in R,
         \A n \in LiveOf(t) \ {x, y} : n \in Q <=> n \in R
  PROVE  Levels(u, Q, h, H)
  <1>1. /\ H \in Int /\ h \in [LiveOf(t) -> Int] /\ LiveOf(u) = LiveOf(t)
        /\ x \in LiveOf(t) /\ y \in LiveOf(t) /\ x # y /\ y # t.root
        /\ u.root = IF x = t.root THEN y ELSE t.root
    BY DEF Levels, Swings
  <1>2. h[y] = h[x]
    <2>1. Ups(t)[y] = x
      BY DEF Swings
    <2>2. h[y] = h[x] + 0
      BY <1>1, <2>1 DEF Levels
    <2>3. QED
      BY <1>1, <2>2
  <1>3. ASSUME NEW n \in LiveOf(t)
        PROVE  h[n] = (IF n = u.root THEN 0 ELSE h[Ups(u)[n]]) + (IF n \in Q THEN 0 ELSE 1)
    <2>1. h[n] = (IF n = t.root THEN 0 ELSE h[Ups(t)[n]]) + (IF n \in R THEN 0 ELSE 1)
      BY DEF Levels
    <2>2. CASE n = x
      <3>1. n # u.root /\ Ups(u)[n] = y
        BY <1>1, <2>2 DEF Swings
      <3>2. QED
        BY <1>1, <1>2, <2>2, <3>1
    <2>3. CASE n = y
      <3>1. h[x] = (IF x = t.root THEN 0 ELSE h[Ups(t)[x]]) + (IF x \in R THEN 0 ELSE 1)
        BY <1>1 DEF Levels
      <3>2. Ups(u)[n] = Ups(t)[x]
        BY <1>1, <2>3 DEF Swings
      <3>3. n = u.root <=> x = t.root
        BY <1>1, <2>3
      <3>4. QED
        BY <1>2, <2>3, <3>1, <3>2, <3>3
    <2>4. CASE n = b /\ n # x /\ n # y
      <3>1. Ups(u)[n] = x /\ Ups(t)[n] = y /\ n # t.root
        BY <2>4, RbTreeAssumption DEF Swings, LiveOf
      <3>2. n # u.root /\ (n \in Q <=> n \in R)
        BY <1>1, <2>4, <3>1
      <3>3. QED
        BY <1>2, <2>1, <3>1, <3>2
    <2>5. CASE n # b /\ n # x /\ n # y
      <3>1. Ups(u)[n] = Ups(t)[n]
        BY <1>1, <2>5 DEF Swings
      <3>2. n = u.root <=> n = t.root
        BY <1>1, <2>5, <3>1
      <3>3. QED
        BY <2>1, <2>5, <3>1, <3>2
    <2>6. QED
      BY <2>2, <2>3, <2>4, <2>5
  <1>4. ASSUME NEW n \in Ends(u) PROVE h[n] = H
    <2>1. n \in Ends(t) \/ (n = x /\ y \in Ends(t))
      BY DEF Swings
    <2>2. QED
      BY <1>2, <2>1 DEF Levels
  <1>5. QED
    BY <1>1, <1>3, <1>4 DEF Levels

(* What taking a node z with at most the child x out means for the laws.   *)
Drops(t, u, z, x) ==
  /\ z \in Ends(t) /\ LiveOf(u) = LiveOf(t) \ {z}
  /\ u.root = IF z = t.root THEN x ELSE t.root
  /\ x # nullptr => x \in LiveOf(t) /\ Ups(t)[x] = z /\ x # t.root /\ x # z
  /\ Ups(t)[z] # z /\ \A n \in LiveOf(t) : n # t.root => Ups(t)[n] \in LiveOf(t)
  /\ \A n \in LiveOf(t) : Ups(t)[n] = z => n = x
  /\ \A n \in LiveOf(t) \ {z} : Ups(u)[n] = IF n = x THEN Ups(t)[z] ELSE Ups(t)[n]
  /\ \A n \in Ends(u) : n \in Ends(t) \/ (x = nullptr /\ z # t.root /\ n = Ups(t)[z])

LEMMA RemovalDrops ==
  ASSUME NEW t, Sound(t), NEW z \in LiveOf(t), NEW x,
         \A s \in Sides : t.node[z][s] \in {x, nullptr},
         x # nullptr => x \in LiveOf(t) /\ t.node[x].parent = z,
         NEW p, p = t.node[z].parent, NEW s0, s0 = SideOf(t, z),
         NEW u, Removed(t, u, z, x, p, s0)
  PROVE  Drops(t, u, z, x)
  <1>1. LiveOf(u) = LiveOf(t) \ {z} /\ u.root = IF p = nullptr THEN x ELSE t.root
    BY DEF Removed
  <1>2. nullptr \notin LiveOf(t)
    BY RbTreeAssumption DEF LiveOf
  <1>3. p # z /\ (p = nullptr <=> z = t.root) /\ p \in LiveOf(t) \cup {nullptr}
    BY NotOwnParent, ParentsLive
  <1>4. t.root \in LiveOf(t) /\ t.node[t.root].parent = nullptr
    BY RootLive DEF Sound, Up
  <1>5. /\ \A n \in LiveOf(t) : Ups(t)[n] = t.node[n].parent
        /\ \A n \in LiveOf(t) \ {z} : Ups(u)[n] = u.node[n].parent
    BY <1>1, UpIs
  <1>6. x # nullptr => x \in LiveOf(t) /\ Ups(t)[x] = z /\ x # t.root /\ x # z
    <2>1. x # nullptr => t.node[x].parent # x
      BY NotOwnParent
    <2>2. QED
      BY <1>2, <1>4, <1>5, <2>1
  <1>7. z \in Ends(t)
    <2>1. PICK s \in Sides : Other(s) \in Sides
      BY Others DEF Sides
    <2>2. t.node[z][s] # nullptr => t.node[z][s] # t.node[z][Other(s)]
      BY <2>1 DEF Sound, Down
    <2>3. t.node[z][s] = nullptr \/ t.node[z][Other(s)] = nullptr
      BY <2>1, <2>2
    <2>4. QED
      BY <2>1, <2>3 DEF Ends
  <1>8. ASSUME NEW n \in LiveOf(t), Ups(t)[n] = z PROVE n = x
    <2>1. t.node[n].parent = z
      BY <1>5, <1>8
    <2>2. n # t.root
      BY <1>2, <1>4, <2>1
    <2>3. \E s \in Sides : t.node[z][s] = n
      BY <2>1, <2>2 DEF Sound, Up
    <2>4. QED
      BY <1>2, <2>3
  <1>9. \A n \in LiveOf(t) \ {z} : Ups(u)[n] = IF n = x THEN Ups(t)[z] ELSE Ups(t)[n]
    BY <1>5 DEF Removed
  <1>10. ASSUME NEW n \in Ends(u), n \notin Ends(t)
         PROVE  x = nullptr /\ z # t.root /\ n = Ups(t)[z]
    <2>1. PICK s \in Sides : n \in LiveOf(t) \ {z} /\ u.node[n][s] = nullptr
      BY <1>1 DEF Ends
    <2>2. u.node[n][s] = IF n = p /\ s = s0 THEN x ELSE t.node[n][s]
      BY <2>1 DEF Removed
    <2>3. t.node[n][s] # nullptr
      BY <1>10, <2>1 DEF Ends
    <2>4. n = p /\ x = nullptr
      BY <2>1, <2>2, <2>3
    <2>5. QED
      BY <1>2, <1>3, <1>5, <2>1, <2>4
  <1>11. \A n \in LiveOf(t) : n # t.root => Ups(t)[n] \in LiveOf(t)
    BY <1>5 DEF Sound, Up
  <1>12. QED
    BY <1>1, <1>3, <1>5, <1>6, <1>7, <1>8, <1>9, <1>10, <1>11 DEF Drops

LEMMA DropsRoomy ==
  ASSUME NEW t, NEW u, NEW z, NEW x, Drops(t, u, z, x),
         NEW R \in SUBSET LiveOf(t), Roomy(t, R, {}, {})
  PROVE  /\ Roomy(u, R \ {z}, {x}, {})
         /\ z \in R \/ x = nullptr => Roomy(u, R \ {z}, {}, {})
  <1>1. \A n \in R : n # t.root /\ Ups(t)[n] \notin R
    BY DEF Roomy
  <1>2. \A n \in R \ {z, x} : n # u.root /\ Ups(u)[n] \notin R
    BY <1>1 DEF Drops
  <1>3. z \in R \/ x = nullptr => x \notin R
    <2>1. x # nullptr => Ups(t)[x] = z
      BY DEF Drops
    <2>2. nullptr \notin R
      BY RbTreeAssumption DEF LiveOf
    <2>3. QED
      BY <1>1, <2>1, <2>2
  <1>4. QED
    BY <1>2, <1>3 DEF Roomy

LEMMA DropsEven ==
  ASSUME NEW t, NEW u, NEW z, NEW x, Drops(t, u, z, x),
         NEW R, NEW h, NEW H, Levels(t, R, h, H),
         z \in R <=> x = nullptr, x # nullptr => x \in R
  PROVE  Even(u, R \ {z, x})
  <1>1. PICK Q, g : Q = R \ {z, x} /\ g = [n \in LiveOf(t) \ {z} |-> h[n]]
    OBVIOUS
  <1>2. /\ H \in Int /\ h \in [LiveOf(t) -> Int] /\ LiveOf(u) = LiveOf(t) \ {z}
        /\ z \in LiveOf(t)
    BY DEF Levels, Drops, Ends
  <1>3. g \in [LiveOf(u) -> Int] /\ \A n \in LiveOf(u) : g[n] = h[n]
    BY <1>1, <1>2
  <1>4. h[z] = (IF z = t.root THEN 0 ELSE h[Ups(t)[z]]) + (IF z \in R THEN 0 ELSE 1)
    BY <1>2 DEF Levels
  <1>5. ASSUME NEW n \in LiveOf(u)
        PROVE  g[n] = (IF n = u.root THEN 0 ELSE g[Ups(u)[n]]) + (IF n \in Q THEN 0 ELSE 1)
    <2>1. n \in LiveOf(t) /\ n # z
      BY <1>2
    <2>2. h[n] = (IF n = t.root THEN 0 ELSE h[Ups(t)[n]]) + (IF n \in R THEN 0 ELSE 1)
      BY <2>1 DEF Levels
    <2>3. CASE n = x
      <3>1. x # nullptr
        BY <2>1, <2>3, RbTreeAssumption DEF LiveOf
      <3>2. h[n] = h[z] + 0
        BY <2>2, <2>3, <3>1 DEF Drops
      <3>3. h[z] = (IF z = t.root THEN 0 ELSE h[Ups(t)[z]]) + 1
        BY <1>4, <3>1
      <3>4. n \notin Q /\ (n = u.root <=> z = t.root) /\ Ups(u)[n] = Ups(t)[z]
        BY <1>1, <2>1, <2>3, <3>1 DEF Drops
      <3>5. z # t.root => Ups(t)[z] \in LiveOf(u)
        BY <1>2 DEF Drops
      <3>6. z # t.root => g[Ups(t)[z]] = h[Ups(t)[z]]
        BY <1>3, <3>5
      <3>7. h[z] \in Int
        BY <1>2
      <3>8. QED
        BY <1>3, <3>2, <3>3, <3>4, <3>6, <3>7
    <2>4. CASE n # x
      <3>1. (n \in Q <=> n \in R) /\ Ups(u)[n] = Ups(t)[n] /\ Ups(t)[n] # z
        BY <1>1, <2>1, <2>4 DEF Drops
      <3>2. (n = u.root <=> n = t.root)
        BY <2>1, <2>4 DEF Drops
      <3>3. n # t.root => Ups(t)[n] \in LiveOf(t)
        BY <2>1, <1>2 DEF Drops
      <3>4. n # t.root => g[Ups(t)[n]] = h[Ups(t)[n]]
        BY <1>2, <1>3, <3>1, <3>3
      <3>5. QED
        BY <1>3, <2>2, <3>1, <3>2, <3>4
    <2>5. QED
      BY <2>3, <2>4
  <1>6. ASSUME NEW n \in Ends(u) PROVE g[n] = H
    <2>1. n \in LiveOf(u)
      BY DEF Ends
    <2>2. CASE n \in Ends(t)
      BY <1>3, <2>1, <2>2 DEF Levels
    <2>3. CASE n \notin Ends(t)
      <3>1. x = nullptr /\ z # t.root /\ n = Ups(t)[z]
        BY <2>3 DEF Drops
      <3>2. h[z] = h[n] + 0 /\ h[z] = H
        BY <1>4, <3>1 DEF Levels, Drops
      <3>3. h[n] \in Int
        BY <1>2, <2>1
      <3>4. QED
        BY <1>3, <2>1, <3>2, <3>3
    <2>4. QED
      BY <2>2, <2>3
  <1>7. Levels(u, Q, g, H)
    BY <1>2, <1>3, <1>5, <1>6 DEF Levels
  <1>8. QED
    BY <1>1, <1>7 DEF Even

(* What putting y in the place of z means for the laws.                    *)
Stands(t, u, z, y) ==
  /\ z \in LiveOf(t) /\ y \notin LiveOf(t) /\ LiveOf(u) = (LiveOf(t) \ {z}) \cup {y}
  /\ u.root = (IF z = t.root THEN y ELSE t.root) /\ t.root # y
  /\ Ups(u)[y] = Ups(t)[z] /\ Ups(t)[z] # z
  /\ \A n \in LiveOf(t) : n # t.root => Ups(t)[n] \in LiveOf(t)
  /\ \A n \in LiveOf(t) \ {z} : Ups(u)[n] = IF Ups(t)[n] = z THEN y ELSE Ups(t)[n]
  /\ \A n \in Ends(u) : (IF n = y THEN z ELSE n) \in Ends(t)

LEMMA TakingStands ==
  ASSUME NEW t, Sound(t), NEW z \in LiveOf(t), NEW y \in Nodes \ LiveOf(t),
         NEW u, TakenOver(t, u, z, y)
  PROVE  Stands(t, u, z, y)
  <1>1. /\ LiveOf(u) = (LiveOf(t) \ {z}) \cup {y}
        /\ u.root = IF t.root = z THEN y ELSE t.root
    BY DEF TakenOver
  <1>2. nullptr \notin LiveOf(t) /\ y # nullptr
    BY RbTreeAssumption DEF LiveOf
  <1>3. t.root \in LiveOf(t) /\ t.node[z].parent # z
    BY RootLive, NotOwnParent
  <1>4. /\ \A n \in LiveOf(t) : Ups(t)[n] = t.node[n].parent
        /\ \A n \in LiveOf(u) : Ups(u)[n] = u.node[n].parent
    BY UpIs
  <1>5. \A n \in LiveOf(t) : n # t.root => Ups(t)[n] \in LiveOf(t)
    BY <1>4 DEF Sound, Up
  <1>6. Ups(u)[y] = Ups(t)[z]
    BY <1>1, <1>4 DEF TakenOver
  <1>7. \A n \in LiveOf(t) \ {z} : Ups(u)[n] = IF Ups(t)[n] = z THEN y ELSE Ups(t)[n]
    BY <1>1, <1>4 DEF TakenOver
  <1>8. ASSUME NEW n \in Ends(u) PROVE (IF n = y THEN z ELSE n) \in Ends(t)
    <2>1. PICK s \in Sides : n \in LiveOf(u) /\ u.node[n][s] = nullptr
      BY DEF Ends
    <2>2. CASE n = y
      <3>1. u.node[y][s] = t.node[z][s]
        BY <2>1 DEF TakenOver
      <3>2. QED
        BY <2>1, <2>2, <3>1 DEF Ends
    <2>3. CASE n # y
      <3>1. n \in LiveOf(t) \ {z}
        BY <1>1, <2>1, <2>3
      <3>2. u.node[n][s] = IF t.node[n][s] = z THEN y ELSE t.node[n][s]
        BY <2>1, <3>1 DEF TakenOver
      <3>3. t.node[n][s] = nullptr
        BY <1>2, <2>1, <3>2
      <3>4. QED
        BY <2>1, <2>3, <3>1, <3>3 DEF Ends
    <2>4. QED
      BY <2>2, <2>3
  <1>9. QED
    BY <1>1, <1>3, <1>4, <1>5, <1>6, <1>7, <1>8 DEF Stands

LEMMA StandsRoomy ==
  ASSUME NEW t, NEW u, NEW z, NEW y, Stands(t, u, z, y),
         NEW R \in SUBSET LiveOf(t), NEW F, z \notin F, Roomy(t, R, F, {}),
         NEW Q, Q = (R \ {z}) \cup (IF z \in R THEN {y} ELSE {})
  PROVE  Roomy(u, Q, F, {})
  <1>1. \A n \in R \ F : n # t.root /\ Ups(t)[n] \notin R
    BY DEF Roomy
  <1>2. /\ y \notin R /\ u.root = (IF z = t.root THEN y ELSE t.root) /\ t.root # y
        /\ \A n \in R : n # t.root => Ups(t)[n] # y
    BY DEF Stands
  <1>3. ASSUME NEW n \in Q \ F
        PROVE  n # u.root /\ Ups(u)[n] \notin Q
    <2>1. CASE n = y
      <3>1. z \in R
        BY <1>2, <1>3, <2>1
      <3>2. z # t.root /\ Ups(t)[z] \notin R /\ Ups(t)[z] # y
        BY <1>1, <1>2, <3>1
      <3>3. Ups(u)[n] = Ups(t)[z]
        BY <2>1 DEF Stands
      <3>4. QED
        BY <1>2, <2>1, <3>2, <3>3
    <2>2. CASE n # y
      <3>1. n \in R \ F /\ n # z
        BY <1>3, <2>2
      <3>2. n # t.root /\ Ups(t)[n] \notin R /\ Ups(t)[n] # y
        BY <1>1, <1>2, <3>1
      <3>3. Ups(u)[n] = IF Ups(t)[n] = z THEN y ELSE Ups(t)[n]
        BY <3>1 DEF Stands
      <3>4. n # u.root
        BY <1>2, <2>2, <3>2
      <3>5. Ups(u)[n] \notin Q
        BY <1>2, <3>2, <3>3
      <3>6. QED
        BY <3>4, <3>5
    <2>3. QED
      BY <2>1, <2>2
  <1>4. QED
    BY <1>3 DEF Roomy

LEMMA StandsEven ==
  ASSUME NEW t, NEW u, NEW z, NEW y, Stands(t, u, z, y),
         NEW R \in SUBSET LiveOf(t), NEW h, NEW H, Levels(t, R, h, H),
         NEW Q, Q = (R \ {z}) \cup (IF z \in R THEN {y} ELSE {})
  PROVE  Even(u, Q)
  <1>1. PICK g : g = [n \in LiveOf(u) |-> IF n = y THEN h[z] ELSE h[n]]
    OBVIOUS
  <1>2. /\ H \in Int /\ h \in [LiveOf(t) -> Int] /\ LiveOf(u) = (LiveOf(t) \ {z}) \cup {y}
        /\ z \in LiveOf(t) /\ y \notin LiveOf(t)
        /\ u.root = (IF z = t.root THEN y ELSE t.root) /\ t.root # y
    BY DEF Levels, Stands
  <1>3. g \in [LiveOf(u) -> Int] /\ g[y] = h[z] /\ \A n \in LiveOf(u) \ {y} : g[n] = h[n]
    BY <1>1, <1>2
  <1>4. \A n \in LiveOf(t) :
          h[n] = (IF n = t.root THEN 0 ELSE h[Ups(t)[n]]) + (IF n \in R THEN 0 ELSE 1)
    BY DEF Levels
  <1>5. \A n \in LiveOf(t) : n # t.root => Ups(t)[n] \in LiveOf(t)
    BY DEF Stands
  <1>6. ASSUME NEW n \in LiveOf(u)
        PROVE  g[n] = (IF n = u.root THEN 0 ELSE g[Ups(u)[n]]) + (IF n \in Q THEN 0 ELSE 1)
    <2>1. CASE n = y
      <3>1. Ups(u)[n] = Ups(t)[z] /\ Ups(t)[z] # z /\ (n = u.root <=> z = t.root)
        BY <1>2, <2>1 DEF Stands
      <3>2. n \in Q <=> z \in R
        BY <1>2, <2>1
      <3>3. z # t.root => g[Ups(t)[z]] = h[Ups(t)[z]]
        <4>1. z # t.root => Ups(t)[z] \in LiveOf(u) \ {y}
          BY <1>2, <1>5, <3>1
        <4>2. QED
          BY <1>3, <4>1
      <3>4. h[z] = (IF z = t.root THEN 0 ELSE h[Ups(t)[z]]) + (IF z \in R THEN 0 ELSE 1)
        BY <1>2, <1>4
      <3>5. QED
        BY <1>3, <2>1, <3>1, <3>2, <3>3, <3>4
    <2>2. CASE n # y
      <3>1. n \in LiveOf(t) /\ n # z
        BY <1>2, <2>2
      <3>2. Ups(u)[n] = (IF Ups(t)[n] = z THEN y ELSE Ups(t)[n]) /\ (n = u.root <=> n = t.root)
        BY <1>2, <2>2, <3>1 DEF Stands
      <3>3. n \in Q <=> n \in R
        BY <2>2, <3>1
      <3>4. n # t.root => g[Ups(u)[n]] = h[Ups(t)[n]]
        <4>1. n # t.root => Ups(t)[n] \in LiveOf(t) /\ Ups(t)[n] # y
          BY <1>2, <1>5, <3>1
        <4>2. n # t.root /\ Ups(t)[n] # z => Ups(t)[n] \in LiveOf(u) \ {y}
          BY <1>2, <4>1
        <4>3. QED
          BY <1>3, <3>2, <4>1, <4>2
      <3>5. QED
        BY <1>3, <1>4, <2>2, <3>1, <3>2, <3>3, <3>4
    <2>3. QED
      BY <2>1, <2>2
  <1>7. ASSUME NEW n \in Ends(u) PROVE g[n] = H
    <2>1. n \in LiveOf(u) /\ (IF n = y THEN z ELSE n) \in Ends(t)
      BY DEF Ends, Stands
    <2>2. h[IF n = y THEN z ELSE n] = H
      BY <2>1 DEF Levels
    <2>3. QED
      BY <1>3, <2>1, <2>2
  <1>8. Levels(u, Q, g, H)
    BY <1>2, <1>3, <1>6, <1>7 DEF Levels
  <1>9. QED
    BY <1>8 DEF Even

LEMMA EvenStands ==
  ASSUME NEW t, NEW u, NEW z, NEW y, Stands(t, u, z, y),
         NEW R \in SUBSET LiveOf(t), Even(t, R),
         NEW Q, Q = (R \ {z}) \cup (IF z \in R THEN {y} ELSE {})
  PROVE  Even(u, Q)
  <1>1. PICK h, H : Levels(t, R, h, H)
    BY DEF Even
  <1>2. QED
    BY <1>1, StandsEven

-----------------------------------------------------------------------------
(* The colours after each operation.                                       *)

LEMMA RotateHues ==
  ASSUME NEW t, Sound(t), NEW x \in LiveOf(t), NEW side \in Sides,
         NEW y, y = t.node[x][Other(side)], y # nullptr,
         NEW u, u = Rotate(t, x, side), LiveOf(u) = LiveOf(t)
  PROVE  SameHues(t, u)
  <1>1. PICK b, p : b = t.node[y][side] /\ p = t.node[x].parent
    OBVIOUS
  <1>2. RotatedNodes(t, u, x, side, y, b, p)
    BY <1>1, RotateNodes
  <1>3. /\ y \in LiveOf(t) /\ (p # nullptr => p \in LiveOf(t)) /\ (b # nullptr => b \in LiveOf(t))
        /\ x = t.root <=> p = nullptr
    <2>1. Parted(t, x, y, b, p)
      BY <1>1, Apart
    <2>2. QED
      BY <2>1 DEF Parted
  <1>4. /\ \A n \in LiveOf(t) : t.node[n] \in NodeType /\ n \in Nodes /\ n # nullptr
        /\ x \in MaybeNode /\ y \in MaybeNode /\ b \in MaybeNode /\ p \in MaybeNode
        /\ Other(side) \in Sides
    BY <1>3, NodeFields, Others DEF Sound, MaybeNode
  <1>5. u.node[x].color = t.node[x].color
    <2>1. PICK r \in NodeType : r = t.node[x]
      BY <1>4
    <2>2. u.node[x] = [[r EXCEPT ![Other(side)] = b] EXCEPT !.parent = y]
      BY <1>2, <2>1 DEF RotatedNodes
    <2>3. Relinked([[r EXCEPT ![Other(side)] = b] EXCEPT !.parent = y], r, Other(side), b, y)
      BY <1>4, SetBoth
    <2>4. QED
      BY <2>1, <2>2, <2>3 DEF Relinked
  <1>6. u.node[y].color = t.node[y].color
    <2>1. PICK r \in NodeType : r = t.node[y]
      BY <1>3, <1>4
    <2>2. u.node[y] = [[r EXCEPT ![side] = x] EXCEPT !.parent = p]
      BY <1>2, <2>1 DEF RotatedNodes
    <2>3. Relinked([[r EXCEPT ![side] = x] EXCEPT !.parent = p], r, side, x, p)
      BY <1>4, SetBoth
    <2>4. QED
      BY <2>1, <2>2, <2>3 DEF Relinked
  <1>7. ASSUME p # nullptr PROVE u.node[p].color = t.node[p].color
    <2>1. PICK r \in NodeType : r = t.node[p]
      BY <1>3, <1>4, <1>7
    <2>2. u.node[p] = [r EXCEPT ![SideOf(t, x)] = y]
      BY <1>2, <1>7, <2>1 DEF RotatedNodes
    <2>3. SideOf(t, x) \in Sides
      BY DEF SideOf, Sides
    <2>4. QED
      BY <1>4, <2>1, <2>2, <2>3, SetSide
  <1>8. ASSUME b # nullptr PROVE u.node[b].color = t.node[b].color
    <2>1. PICK r \in NodeType : r = t.node[b]
      BY <1>3, <1>4, <1>8
    <2>2. u.node[b] = [r EXCEPT !.parent = x]
      BY <1>2, <1>8, <2>1 DEF RotatedNodes
    <2>3. QED
      BY <1>4, <2>1, <2>2, SetUp
  <1>9. ASSUME NEW n \in LiveOf(t), n \notin {x, y, p, b} PROVE u.node[n].color = t.node[n].color
    BY <1>2, <1>4, <1>9 DEF RotatedNodes
  <1>10. QED
    BY <1>4, <1>5, <1>6, <1>7, <1>8, <1>9 DEF SameHues

(* The red nodes after each kind of step.                                  *)
LEMMA RedsSame ==
  ASSUME NEW t, NEW u, SameHues(t, u), LiveOf(u) \subseteq LiveOf(t)
  PROVE  Reds(u) = Reds(t) \cap LiveOf(u)
  BY DEF SameHues, Reds

LEMMA RedsSwapped ==
  ASSUME NEW t, NEW u, NEW z \in LiveOf(t), NEW y \in LiveOf(t), y # z, HuesBut(t, u, z, y),
         LiveOf(u) = LiveOf(t) \ {z}
  PROVE  Reds(u) = (Reds(t) \ {y, z}) \cup (IF z \in Reds(t) THEN {y} ELSE {})
  BY DEF HuesBut, Reds

(* A colour is all that Color changes.                                     *)
Dyed(t, u, m, c) ==
  /\ SameLinks(t, u) /\ Sound(u) /\ LiveOf(u) = LiveOf(t)
  /\ Reds(u) = (IF c = "RED" THEN Reds(t) \cup {m} ELSE Reds(t) \ {m})

LEMMA ColorDyes ==
  ASSUME NEW t, Sound(t), NEW m \in LiveOf(t), NEW c \in Colors, NEW u, u = Color(t, m, c)
  PROVE  Dyed(t, u, m, c)
  <1>1. SameLinks(t, u) /\ Sound(u) /\ LiveOf(u) = LiveOf(t)
    BY ColorSound DEF Repainted
  <1>2. PICK r : r = [t.node[m] EXCEPT !.color = c]
    OBVIOUS
  <1>3. u = [t EXCEPT !.node = [@ EXCEPT ![m] = r]]
    BY <1>2 DEF Color
  <1>4. u.node = [t.node EXCEPT ![m] = r]
    BY <1>3 DEF Sound, Typed
  <1>5. r.color = c
    <2>1. t.node[m] \in NodeType
      BY NodeFields DEF Sound
    <2>2. QED
      BY <1>2, <2>1 DEF NodeType
  <1>6. u.node[m].color = c /\ \A n \in LiveOf(t) \ {m} : u.node[n].color = t.node[n].color
    BY <1>4, <1>5 DEF Sound, Typed, LiveOf
  <1>7. Reds(u) = (IF c = "RED" THEN Reds(t) \cup {m} ELSE Reds(t) \ {m})
    BY <1>1, <1>6 DEF Reds, Colors
  <1>8. QED
    BY <1>1, <1>7 DEF Dyed

(* What a new leaf z below y means for the laws.                           *)
Hangs(t, u, z, y) ==
  /\ z \notin LiveOf(t) /\ LiveOf(u) = LiveOf(t) \cup {z} /\ Ups(u)[z] = y
  /\ IF y = nullptr THEN LiveOf(t) = {} /\ u.root = z
     ELSE y \in Ends(t) /\ u.root = t.root /\ t.root # z
  /\ \A n \in LiveOf(t) : Ups(u)[n] = Ups(t)[n] /\ (n # t.root => Ups(t)[n] \in LiveOf(t))
  /\ \A n \in Ends(u) : n = z \/ n \in Ends(t)

LEMMA AddingHangs ==
  ASSUME NEW t, Sound(t), NEW z \in Nodes \ LiveOf(t), NEW key, NEW y, NEW side,
         NEW u, AddedAt(t, u, z, key, y, side)
  PROVE  Hangs(t, u, z, y) /\ Reds(u) = Reds(t) \cup {z}
  <1>1. /\ side \in Sides /\ Added(t, u, z, key, y, side)
        /\ IF y = nullptr THEN LiveOf(t) = {} ELSE y \in LiveOf(t) /\ t.node[y][side] = nullptr
        /\ u.node[z].color = "RED" /\ \A m \in LiveOf(t) : u.node[m].color = t.node[m].color
    BY DEF AddedAt
  <1>2. /\ LiveOf(u) = LiveOf(t) \cup {z}
        /\ u.root = (IF y = nullptr THEN z ELSE t.root) /\ u.node[z].parent = y
    BY <1>1 DEF Added
  <1>3. Reds(u) = Reds(t) \cup {z}
    BY <1>1, <1>2 DEF Reds
  <1>4. /\ \A n \in LiveOf(t) : Ups(t)[n] = t.node[n].parent
        /\ \A n \in LiveOf(u) : Ups(u)[n] = u.node[n].parent
    BY UpIs
  <1>5. \A n \in LiveOf(t) : Ups(u)[n] = Ups(t)[n] /\ (n # t.root => Ups(t)[n] \in LiveOf(t))
    <2>1. \A n \in LiveOf(t) : u.node[n].parent = t.node[n].parent
      BY <1>1 DEF Added
    <2>2. \A n \in LiveOf(t) : n # t.root => t.node[n].parent \in LiveOf(t)
      BY DEF Sound, Up
    <2>3. QED
      BY <1>2, <1>4, <2>1, <2>2
  <1>6. y # nullptr => y \in Ends(t) /\ t.root # z
    BY <1>1, RootLive DEF Ends
  <1>7. ASSUME NEW n \in Ends(u), n # z PROVE n \in Ends(t)
    <2>1. PICK s \in Sides : n \in LiveOf(t) /\ u.node[n][s] = nullptr
      BY <1>2, <1>7 DEF Ends
    <2>2. u.node[n][s] = IF n = y /\ s = side THEN z ELSE t.node[n][s]
      BY <1>1, <2>1 DEF Added
    <2>3. z # nullptr
      BY RbTreeAssumption
    <2>4. QED
      BY <2>1, <2>2, <2>3 DEF Ends
  <1>8. QED
    BY <1>1, <1>2, <1>3, <1>4, <1>5, <1>6, <1>7 DEF Hangs

LEMMA HangsRoomy ==
  ASSUME NEW t, NEW u, NEW z, NEW y, Hangs(t, u, z, y),
         NEW R \in SUBSET LiveOf(t), Roomy(t, R, {}, {})
  PROVE  Roomy(u, R \cup {z}, {z}, {})
  <1>1. ASSUME NEW n \in R PROVE n # u.root /\ Ups(u)[n] \notin R \cup {z}
    <2>1. n # t.root /\ Ups(t)[n] \notin R
      BY DEF Roomy
    <2>2. Ups(u)[n] = Ups(t)[n] /\ Ups(t)[n] \in LiveOf(t)
      BY <2>1 DEF Hangs
    <2>3. QED
      BY <2>1, <2>2 DEF Hangs
  <1>2. QED
    BY <1>1 DEF Roomy

LEMMA HangsEven ==
  ASSUME NEW t, NEW u, NEW z, NEW y, Hangs(t, u, z, y),
         NEW R \in SUBSET LiveOf(t), Even(t, R)
  PROVE  Even(u, R \cup {z})
  <1>1. PICK h, H : Levels(t, R, h, H)
    BY DEF Even
  <1>2. PICK Q : Q = R \cup {z}
    OBVIOUS
  <1>3. z \in Q /\ z \notin LiveOf(t) /\ LiveOf(u) = LiveOf(t) \cup {z}
    BY <1>2 DEF Hangs
  <1>4. CASE y = nullptr
    <2>1. PICK g : g = [n \in LiveOf(u) |-> 0]
      OBVIOUS
    <2>2. LiveOf(u) = {z} /\ u.root = z
      BY <1>3, <1>4 DEF Hangs
    <2>3. \A n \in Ends(u) : n \in LiveOf(u)
      BY DEF Ends
    <2>4. Levels(u, Q, g, 0)
      BY <1>3, <2>1, <2>2, <2>3 DEF Levels
    <2>5. QED
      BY <1>2, <2>4 DEF Even
  <1>5. CASE y # nullptr
    <2>1. /\ H \in Int /\ h \in [LiveOf(t) -> Int]
          /\ \A n \in LiveOf(t) :
               h[n] = (IF n = t.root THEN 0 ELSE h[Ups(t)[n]]) + (IF n \in R THEN 0 ELSE 1)
          /\ \A n \in Ends(t) : h[n] = H
      BY <1>1 DEF Levels
    <2>2. y \in Ends(t) /\ y \in LiveOf(t) /\ u.root = t.root /\ t.root # z /\ Ups(u)[z] = y
      BY <1>5 DEF Hangs, Ends
    <2>3. PICK g : g = [n \in LiveOf(u) |-> IF n = z THEN H ELSE h[n]]
      OBVIOUS
    <2>4. g \in [LiveOf(u) -> Int] /\ g[z] = H /\ \A n \in LiveOf(t) : g[n] = h[n]
      BY <1>3, <2>1, <2>3
    <2>5. ASSUME NEW n \in LiveOf(u)
          PROVE  g[n] = (IF n = u.root THEN 0 ELSE g[Ups(u)[n]]) + (IF n \in Q THEN 0 ELSE 1)
      <3>1. CASE n = z
        <4>1. g[n] = H /\ g[y] = H
          BY <2>1, <2>2, <2>4, <3>1
        <4>2. QED
          BY <1>3, <2>1, <2>2, <3>1, <4>1
      <3>2. CASE n # z
        <4>1. n \in LiveOf(t) /\ (n \in Q <=> n \in R)
          BY <1>2, <1>3, <3>2
        <4>2. Ups(u)[n] = Ups(t)[n] /\ (n # t.root => Ups(t)[n] \in LiveOf(t))
          BY <4>1 DEF Hangs
        <4>3. QED
          BY <2>1, <2>2, <2>4, <4>1, <4>2
      <3>3. QED
        BY <3>1, <3>2
    <2>6. \A n \in Ends(u) : g[n] = H
      <3>1. \A n \in Ends(t) : n \in LiveOf(t)
        BY DEF Ends
      <3>2. \A n \in Ends(u) : n = z \/ n \in Ends(t)
        BY DEF Hangs
      <3>3. QED
        BY <2>1, <2>4, <3>1, <3>2
    <2>7. Levels(u, Q, g, H)
      BY <2>1, <2>4, <2>5, <2>6 DEF Levels
    <2>8. QED
      BY <1>2, <2>7 DEF Even
  <1>6. QED
    BY <1>4, <1>5

-----------------------------------------------------------------------------
(* Deletion and the laws.                                                  *)

(* A set that holds the left children of its nodes is empty: each of them  *)
(* would be one, since there are no more nodes than left children.         *)
LEMMA LeftEnds ==
  ASSUME NEW t, Sound(t), NEW S \in SUBSET LiveOf(t),
         \A n \in S : t.node[n].left # nullptr /\ t.node[n].left \in S
  PROVE  S = {}
  <1>1. PICK f : f = [n \in S |-> t.node[n].left]
    OBVIOUS
  <1>2. \A n \in S : f[n] \in S /\ t.node[f[n]].parent = n
    BY <1>1, SidesOf
  <1>3. f \in Injection(S, S)
    BY <1>1, <1>2 DEF Injection, IsInjective
  <1>4. IsFiniteSet(S)
    <2>1. S \in SUBSET Nodes
      BY DEF LiveOf
    <2>2. QED
      BY <2>1, RbTreeAssumption, FS_Subset
  <1>5. f \in Surjection(S, S)
    BY <1>3, <1>4, FS_Injection
  <1>6. \A m \in S : t.node[m].parent \in S
    BY <1>2, <1>5 DEF Surjection
  <1>7. QED
    BY <1>6, NoCycle

(* No node is lower than the ends.                                         *)
LEMMA EndsLowest ==
  ASSUME NEW t, Sound(t), NEW R, NEW h, NEW H, Levels(t, R, h, H)
  PROVE  \A n \in LiveOf(t) : h[n] <= H
  <1>1. PICK S : S = {n \in LiveOf(t) : ~ (h[n] <= H)}
    OBVIOUS
  <1>2. H \in Int /\ h \in [LiveOf(t) -> Int] /\ \A n \in Ends(t) : h[n] = H
    BY DEF Levels
  <1>3. ASSUME NEW n \in S PROVE t.node[n].left # nullptr /\ t.node[n].left \in S
    <2>1. n \in LiveOf(t) /\ ~ (h[n] <= H)
      BY <1>1
    <2>2. n \notin Ends(t)
      BY <1>2, <2>1
    <2>3. PICK l : l = t.node[n].left
      OBVIOUS
    <2>4. "left" \in Sides /\ l = t.node[n]["left"]
      BY <2>3 DEF Sides
    <2>5. l # nullptr
      BY <2>1, <2>2, <2>4 DEF Ends
    <2>6. l \in LiveOf(t) /\ Ups(t)[l] = n /\ l # t.root
      BY <2>1, <2>4, <2>5, ChildIs, UpIs
    <2>7. h[l] = h[n] + (IF l \in R THEN 0 ELSE 1)
      BY <2>6 DEF Levels
    <2>8. ~ (h[l] <= H)
      <3>1. h[n] \in Int /\ h[l] \in Int
        BY <1>2, <2>1, <2>6
      <3>2. QED
        BY <1>2, <2>1, <2>7, <3>1
    <2>9. QED
      BY <1>1, <2>3, <2>5, <2>6, <2>8
  <1>4. S = {}
    BY <1>1, <1>3, LeftEnds
  <1>5. QED
    BY <1>1, <1>4

(* An only child is red and its parent black.                              *)
LEMMA OnlyChildRed ==
  ASSUME NEW t, Sound(t), NEW u, NEW z, NEW x, Drops(t, u, z, x), x # nullptr,
         NEW R \in SUBSET LiveOf(t), Roomy(t, R, {}, {}), NEW h, NEW H, Levels(t, R, h, H)
  PROVE  x \in R /\ z \notin R
  <1>1. z \in Ends(t) /\ z \in LiveOf(t) /\ x \in LiveOf(t) /\ Ups(t)[x] = z /\ x # t.root
    BY DEF Drops, Ends
  <1>2. h[z] = H /\ h[x] <= H /\ H \in Int /\ h[x] = h[z] + (IF x \in R THEN 0 ELSE 1)
    BY <1>1, EndsLowest DEF Levels
  <1>3. x \in R
    BY <1>2
  <1>4. QED
    BY <1>1, <1>3 DEF Roomy

(* What is left of the laws when y is gone and x has moved up: unless y is *)
(* black a call is done, and in an even tree x is red if it is there.      *)
Gone(R, y, x, u, Q) ==
  /\ Roomy(u, Q, {x}, {})
  /\ y \in R \/ x = nullptr => Roomy(u, Q, {}, {})

GoneEven(R, y, x, u, Q) ==
  /\ x # nullptr => y \notin R /\ x \in Q
  /\ y \in R \/ x # nullptr => Even(u, Q \ {x})

LEMMA DropsLaws ==
  ASSUME NEW t, Sound(t), NEW u, NEW y, NEW x, Drops(t, u, y, x),
         NEW R \in SUBSET LiveOf(t), Roomy(t, R, {}, {})
  PROVE  /\ Gone(R, y, x, u, R \ {y})
         /\ Even(t, R) => GoneEven(R, y, x, u, R \ {y})
  <1>1. Gone(R, y, x, u, R \ {y})
    BY DropsRoomy DEF Gone
  <1>2. ASSUME Even(t, R) PROVE GoneEven(R, y, x, u, R \ {y})
    <2>1. PICK h, H : Levels(t, R, h, H)
      BY <1>2 DEF Even
    <2>2. x # nullptr => x \in R /\ y \notin R
      BY <2>1, OnlyChildRed
    <2>3. x # nullptr => x # y
      BY DEF Drops
    <2>4. ASSUME y \in R \/ x # nullptr PROVE Even(u, (R \ {y}) \ {x})
      <3>1. y \in R <=> x = nullptr
        BY <2>2, <2>4
      <3>2. Even(u, R \ {y, x})
        BY <2>1, <2>2, <3>1, DropsEven
      <3>3. (R \ {y}) \ {x} = R \ {y, x}
        OBVIOUS
      <3>4. QED
        BY <3>2, <3>3
    <2>5. QED
      BY <2>2, <2>3, <2>4 DEF GoneEven
  <1>3. QED
    BY <1>1, <1>2

LEMMA SplicedLaws ==
  ASSUME NEW t, Sound(t), NEW z \in LiveOf(t), NEW x,
         \A s \in Sides : t.node[z][s] \in {x, nullptr},
         x # nullptr => x \in LiveOf(t) /\ t.node[x].parent = z,
         Roomy(t, Reds(t), {}, {}), NEW u, u = FreeNode(Spliced(t, z, x), z)
  PROVE  /\ Gone(Reds(t), z, x, u, Reds(u))
         /\ Even(t, Reds(t)) => GoneEven(Reds(t), z, x, u, Reds(u))
  <1>1. PICK p, s0 : p = t.node[z].parent /\ s0 = SideOf(t, z)
    OBVIOUS
  <1>2. x # z /\ p # z
    <2>1. nullptr # z
      BY RbTreeAssumption DEF LiveOf
    <2>2. QED
      BY <1>1, <2>1, NotOwnParent
  <1>3. Removed(t, u, z, x, p, s0)
    BY <1>1, <1>2, SplicedRemoves
  <1>4. Drops(t, u, z, x)
    BY <1>1, <1>3, RemovalDrops
  <1>5. Reds(u) = Reds(t) \ {z}
    <2>1. SameHues(t, u) /\ LiveOf(u) = LiveOf(t) \ {z}
      BY <1>3, SplicedHues DEF Removed
    <2>2. Reds(u) = Reds(t) \cap LiveOf(u)
      BY <2>1, RedsSame
    <2>3. QED
      BY <2>1, <2>2 DEF Reds
  <1>6. Reds(t) \in SUBSET LiveOf(t)
    BY DEF Reds
  <1>7. QED
    BY <1>4, <1>5, <1>6, DropsLaws

LEMMA MovesUpLaws ==
  ASSUME NEW t, Sound(t), NEW u, NEW v, NEW z \in LiveOf(t), NEW y, NEW x,
         MovesUp(t, u, v, z, y, x), Roomy(t, Reds(t), {}, {})
  PROVE  /\ Gone(Reds(t), y, x, u, Reds(u))
         /\ Even(t, Reds(t)) => GoneEven(Reds(t), y, x, u, Reds(u))
  <1>1. /\ y \in LiveOf(t) /\ y # z /\ x # z /\ x # y
        /\ z \in LiveOf(v) /\ y \in Nodes \ LiveOf(v) /\ Sound(v)
    BY DEF MovesUp
  <1>2. Drops(t, v, y, x)
    <2>1. PICK q, s0 : q = t.node[y].parent /\ s0 = SideOf(t, y)
      OBVIOUS
    <2>2. /\ x # nullptr => x \in LiveOf(t) /\ t.node[x].parent = y
          /\ \A s \in Sides : t.node[y][s] \in {x, nullptr}
          /\ Removed(t, v, y, x, q, s0)
      BY <2>1 DEF MovesUp
    <2>3. QED
      BY <1>1, <2>1, <2>2, RemovalDrops
  <1>3. Stands(v, u, z, y)
    BY <1>1, TakingStands DEF MovesUp
  <1>4. PICK R, S, Q : /\ R = Reds(t) /\ S = R \ {y}
                       /\ Q = (S \ {z}) \cup (IF z \in S THEN {y} ELSE {})
    OBVIOUS
  <1>5. R \in SUBSET LiveOf(t) /\ S \in SUBSET LiveOf(v) /\ LiveOf(u) = LiveOf(t) \ {z}
    <2>1. LiveOf(v) = LiveOf(t) \ {y}
      BY <1>2 DEF Drops
    <2>2. LiveOf(u) = (LiveOf(v) \ {z}) \cup {y}
      BY <1>3 DEF Stands
    <2>3. QED
      BY <1>1, <1>4, <2>1, <2>2 DEF Reds
  <1>6. Reds(u) = Q
    <2>1. HuesBut(t, u, z, y)
      BY DEF MovesUp
    <2>2. Reds(u) = (R \ {y, z}) \cup (IF z \in R THEN {y} ELSE {})
      BY <1>1, <1>4, <1>5, <2>1, RedsSwapped
    <2>3. QED
      BY <1>1, <1>4, <2>2
  <1>7. Gone(R, y, x, v, S) /\ (Even(t, R) => GoneEven(R, y, x, v, S))
    BY <1>2, <1>4, <1>5, DropsLaws
  <1>8. Gone(R, y, x, u, Q)
    <2>1. z \notin {x} /\ z \notin {}
      BY <1>1
    <2>2. Roomy(u, Q, {x}, {})
      BY <1>3, <1>4, <1>5, <1>7, <2>1, StandsRoomy DEF Gone
    <2>3. y \in R \/ x = nullptr => Roomy(u, Q, {}, {})
      BY <1>3, <1>4, <1>5, <1>7, <2>1, StandsRoomy DEF Gone
    <2>4. QED
      BY <2>2, <2>3 DEF Gone
  <1>9. ASSUME Even(t, R) PROVE GoneEven(R, y, x, u, Q)
    <2>1. GoneEven(R, y, x, v, S)
      BY <1>7, <1>9
    <2>2. x # nullptr => y \notin R /\ x \in Q
      BY <1>1, <1>4, <2>1 DEF GoneEven
    <2>3. ASSUME y \in R \/ x # nullptr PROVE Even(u, Q \ {x})
      <3>1. PICK D, P : D = S \ {x} /\ P = (D \ {z}) \cup (IF z \in D THEN {y} ELSE {})
        OBVIOUS
      <3>2. D \in SUBSET LiveOf(v) /\ Q \ {x} = P
        BY <1>1, <1>4, <1>5, <3>1
      <3>3. Even(v, D)
        BY <2>1, <2>3, <3>1 DEF GoneEven
      <3>4. Even(u, P)
        BY <1>3, <3>1, <3>2, <3>3, EvenStands
      <3>5. QED
        BY <3>2, <3>4
    <2>4. QED
      BY <2>2, <2>3 DEF GoneEven
  <1>10. QED
    BY <1>4, <1>6, <1>8, <1>9

LEMMA SucceededLaws ==
  ASSUME NEW t, Sound(t), NEW z \in LiveOf(t),
         t.node[z].left # nullptr, t.node[z].right # nullptr,
         NEW y, y = rb_minimum(t, t.node[z].right), NEW x, x = t.node[y].right,
         Roomy(t, Reds(t), {}, {}), NEW u, u = FreeNode(Succeeded(t, z), z)
  PROVE  /\ Gone(Reds(t), y, x, u, Reds(u))
         /\ Even(t, Reds(t)) => GoneEven(Reds(t), y, x, u, Reds(u))
  <1>1. PICK v : v = FreeNode(Spliced(t, y, x), y)
    OBVIOUS
  <1>2. MovesUp(t, u, v, z, y, x)
    BY <1>1, SucceededMoves
  <1>3. QED
    BY <1>2, MovesUpLaws

-----------------------------------------------------------------------------
(* The turns of the fix-up of an insertion and the laws.                   *)

LEMMA AlikeSwings ==
  ASSUME NEW t, NEW v, Alike(t, v), NEW u, NEW x, NEW y, NEW b, Swings(v, u, x, y, b)
  PROVE  Swings(t, u, x, y, b)
  BY DEF Alike, Swings

(* What Rotate makes of a tree and its laws.                               *)
Rotates(t, u, x, side, y, b) ==
  /\ Swings(t, u, x, y, b) /\ RotatedAt(t, u, x, side, y)
  /\ Sound(u) /\ LiveOf(u) = LiveOf(t) /\ Reds(u) = Reds(t)

LEMMA RotateSwings ==
  ASSUME NEW t, Sound(t), NEW x \in LiveOf(t), NEW side \in Sides,
         NEW y, y = t.node[x][Other(side)], y # nullptr, NEW b, b = t.node[y][side],
         NEW u, u = Rotate(t, x, side)
  PROVE  Rotates(t, u, x, side, y, b)
  <1>1. PICK p : p = t.node[x].parent
    OBVIOUS
  <1>2. Rewired(t, u, x, side, y, b, p) /\ Around(t, x, side, y, b, p)
    BY <1>1, RotateLinks DEF Around
  <1>3. Swings(t, u, x, y, b)
    BY <1>2, RotationSwings
  <1>4. RotatedAt(t, u, x, side, y)
    BY RotateKeeps
  <1>5. Sound(u) /\ LiveOf(u) = LiveOf(t)
    BY <1>4 DEF RotatedAt
  <1>6. SameHues(t, u)
    BY <1>5, RotateHues
  <1>7. Reds(u) = Reds(t)
    BY <1>5, <1>6, RedsSame DEF Reds
  <1>8. QED
    BY <1>3, <1>4, <1>5, <1>7 DEF Rotates

(* A red node z below a red p, whose sister is not red.                    *)
Straight(t, R, z, p, g) ==
  /\ z \in R /\ p \in R /\ p # z /\ p # g /\ g \in LiveOf(t) \ R
  /\ Ups(t)[z] = p /\ Ups(t)[p] = g
  /\ Roomy(t, R, {z}, {})
  /\ \A n \in R : Ups(t)[n] = g => n = p

LEMMA InnerStraight ==
  ASSUME NEW t, NEW u, NEW z, NEW p, NEW g, NEW b, Swings(t, u, p, z, b),
         NEW R \in SUBSET LiveOf(t), Straight(t, R, z, p, g)
  PROVE  /\ Straight(u, R, p, z, g)
         /\ Even(t, R) => Even(u, R)
  <1>1. /\ z \in R /\ p \in R /\ p # z /\ p # g /\ g \in LiveOf(t) \ R
        /\ Ups(t)[z] = p /\ Ups(t)[p] = g /\ Roomy(t, R, {z}, {})
        /\ \A n \in R : Ups(t)[n] = g => n = p
    BY DEF Straight
  <1>2. Roomy(u, R, {p}, {}) /\ LiveOf(u) = LiveOf(t)
    BY <1>1, SwingsTrouble DEF Swings
  <1>3. Ups(u)[p] = z /\ Ups(u)[z] = g
    BY <1>1 DEF Swings
  <1>4. ASSUME NEW n \in R, Ups(u)[n] = g PROVE n = z
    <2>1. Ups(u)[n] = IF n = p THEN z ELSE IF n = z THEN Ups(t)[p] ELSE IF n = b THEN p ELSE Ups(t)[n]
      BY DEF Swings
    <2>2. QED
      BY <1>1, <1>4, <2>1
  <1>5. Straight(u, R, p, z, g)
    BY <1>1, <1>2, <1>3, <1>4 DEF Straight
  <1>6. ASSUME Even(t, R) PROVE Even(u, R)
    <2>1. PICK h, H : Levels(t, R, h, H)
      BY <1>6 DEF Even
    <2>2. Levels(u, R, h, H)
      BY <1>1, <2>1, SwingsLevels
    <2>3. QED
      BY <2>2 DEF Even
  <1>7. QED
    BY <1>5, <1>6

(* After the last rotation the parent of the red node is black.            *)
Rested(u, Q, z) ==
  /\ z \in Q /\ Ups(u)[z] \notin Q /\ Ups(u)[z] \in LiveOf(u) /\ Roomy(u, Q, {z}, {})

LEMMA StraightRests ==
  ASSUME NEW t, NEW u, NEW z, NEW p, NEW g, NEW b, b # z, Swings(t, u, g, p, b),
         NEW R \in SUBSET LiveOf(t), Straight(t, R, z, p, g),
         NEW Q, Q = (R \ {p}) \cup {g}
  PROVE  /\ Rested(u, Q, z)
         /\ Even(t, R) => Even(u, Q)
  <1>1. /\ z \in R /\ p \in R /\ p # z /\ p # g /\ g \in LiveOf(t) \ R
        /\ Ups(t)[z] = p /\ Roomy(t, R, {z}, {})
        /\ \A n \in R : Ups(t)[n] = g => n = p
    BY DEF Straight
  <1>2. p \notin {z} /\ p \notin {} /\ b \notin {z} /\ \A n \in R : Ups(t)[n] = g => n = p \/ n \in {z}
    BY <1>1
  <1>3. Roomy(u, Q, {z}, {})
    <2>1. Roomy(u, (R \ {p}) \cup {g}, {z}, {})
      BY <1>1, <1>2, SwingsRoomy
    <2>2. QED
      BY <2>1
  <1>4. Ups(u)[z] = p /\ p \in LiveOf(u) /\ p \notin Q /\ z \in Q
    <2>1. z # g
      BY <1>1
    <2>2. QED
      BY <1>1, <2>1 DEF Swings
  <1>5. ASSUME Even(t, R) PROVE Even(u, Q)
    <2>1. PICK h, H : Levels(t, R, h, H)
      BY <1>5 DEF Even
    <2>2. g \in Q /\ (p \in Q <=> g \in R) /\ \A n \in LiveOf(t) \ {g, p} : n \in Q <=> n \in R
      BY <1>1
    <2>3. Levels(u, Q, h, H)
      BY <1>1, <2>1, <2>2, SwingsLevels
    <2>4. QED
      BY <2>3 DEF Even
  <1>6. QED
    BY <1>3, <1>4, <1>5 DEF Rested

(* A node g and its children p and y.                                      *)
Family(t, g, p, y) ==
  /\ g \in LiveOf(t) \ Ends(t) /\ p \in LiveOf(t) /\ y \in LiveOf(t)
  /\ p # y /\ g # p /\ g # y /\ p # t.root /\ y # t.root
  /\ Ups(t)[p] = g /\ Ups(t)[y] = g
  /\ \A n \in LiveOf(t) : n # t.root => Ups(t)[n] \in LiveOf(t) /\ Ups(t)[n] # n
  /\ \A n \in LiveOf(t) : Ups(t)[n] = g => n = p \/ n = y

LEMMA FamilyIs ==
  ASSUME NEW t, Sound(t), NEW g \in LiveOf(t), NEW side \in Sides,
         NEW p, p = t.node[g][side], p # nullptr, NEW y, y = t.node[g][Other(side)], y # nullptr
  PROVE  Family(t, g, p, y)
  <1>1. Other(side) \in Sides /\ \A s \in Sides : s = side \/ s = Other(side)
    BY Others
  <1>2. /\ p \in LiveOf(t) /\ t.node[p].parent = g /\ p # t.root
        /\ y \in LiveOf(t) /\ t.node[y].parent = g /\ y # t.root
    BY <1>1, ChildIs
  <1>3. p # y
    BY DEF Sound, Down
  <1>4. g # p /\ g # y
    BY <1>2, NotOwnParent
  <1>5. g \notin Ends(t)
    BY <1>1 DEF Ends
  <1>6. ASSUME NEW n \in LiveOf(t), n # t.root PROVE Ups(t)[n] \in LiveOf(t) /\ Ups(t)[n] # n
    BY <1>6, UpIs, LeadsTo, NotOwnParent
  <1>7. ASSUME NEW n \in LiveOf(t), Ups(t)[n] = g PROVE n = p \/ n = y
    <2>1. t.node[n].parent = g
      BY <1>7, UpIs
    <2>2. n # t.root
      BY <2>1, RbTreeAssumption DEF Sound, Up, LiveOf
    <2>3. PICK s \in Sides : t.node[g][s] = n
      BY <2>1, <2>2 DEF Sound, Up
    <2>4. QED
      BY <1>1, <2>3
  <1>8. Ups(t)[p] = g /\ Ups(t)[y] = g
    BY <1>2, UpIs
  <1>9. QED
    BY <1>2, <1>3, <1>4, <1>5, <1>6, <1>7, <1>8 DEF Family

(* p and y turn black and g red: the heights below them stay.              *)
LEMMA FamilyRecolored ==
  ASSUME NEW t, NEW g, NEW p, NEW y, Family(t, g, p, y),
         NEW R \in SUBSET LiveOf(t), p \in R, y \in R,
         NEW z \in R, Ups(t)[z] = p, z # t.root, z # p, Roomy(t, R, {z}, {}),
         NEW Q, Q = (R \ {p, y}) \cup {g}
  PROVE  /\ Roomy(t, Q, {g}, {}) /\ g \in Q
         /\ Even(t, R) => Even(t, Q)
  <1>1. g \in LiveOf(t) /\ g # p /\ g # y /\ Ups(t)[p] = g /\ p # t.root /\ y # t.root
    BY DEF Family
  <1>2. g \notin R
    BY <1>1 DEF Roomy
  <1>3. ASSUME NEW n \in Q \ {g} PROVE n # t.root /\ Ups(t)[n] \notin Q
    <2>1. n \in R /\ n # p /\ n # y
      BY <1>3
    <2>2. Ups(t)[n] # g
      BY <2>1 DEF Family
    <2>3. CASE n = z
      BY <1>1, <2>2, <2>3
    <2>4. CASE n # z
      BY <2>1, <2>2, <2>4 DEF Roomy
    <2>5. QED
      BY <2>3, <2>4
  <1>4. Roomy(t, Q, {g}, {}) /\ g \in Q
    BY <1>3 DEF Roomy
  <1>5. ASSUME NEW h, NEW H, Levels(t, R, h, H) PROVE Even(t, Q)
    <2>1. PICK k : k = [n \in LiveOf(t) |-> IF n = g THEN h[n] - 1 ELSE h[n]]
      OBVIOUS
    <2>2. /\ H \in Int /\ h \in [LiveOf(t) -> Int]
          /\ \A n \in LiveOf(t) :
               h[n] = (IF n = t.root THEN 0 ELSE h[Ups(t)[n]]) + (IF n \in R THEN 0 ELSE 1)
          /\ \A n \in Ends(t) : h[n] = H
      BY <1>5 DEF Levels
    <2>3. k \in [LiveOf(t) -> Int] /\ k[g] = h[g] - 1 /\ \A n \in LiveOf(t) \ {g} : k[n] = h[n]
      BY <1>1, <2>1, <2>2
    <2>4. ASSUME NEW n \in LiveOf(t)
          PROVE  k[n] = (IF n = t.root THEN 0 ELSE k[Ups(t)[n]]) + (IF n \in Q THEN 0 ELSE 1)
      <3>1. n # t.root => Ups(t)[n] \in LiveOf(t) /\ Ups(t)[n] # n
        BY DEF Family
      <3>2. CASE n = g
        <4>1. n # t.root => k[Ups(t)[n]] = h[Ups(t)[n]]
          BY <2>3, <3>1, <3>2
        <4>2. h[n] = (IF n = t.root THEN 0 ELSE h[Ups(t)[n]]) + 1
          BY <1>2, <2>2, <3>2
        <4>3. n # t.root => h[Ups(t)[n]] \in Int
          BY <2>2, <3>1
        <4>4. QED
          BY <1>4, <2>3, <3>2, <4>1, <4>2, <4>3
      <3>3. CASE n \in {p, y}
        <4>1. n # t.root /\ Ups(t)[n] = g /\ n # g
          BY <3>3 DEF Family
        <4>2. h[n] = h[g] + 0
          BY <2>2, <3>3, <4>1
        <4>3. n \notin Q
          BY <1>1, <3>3
        <4>4. h[g] \in Int
          BY <1>1, <2>2
        <4>5. QED
          BY <2>3, <4>1, <4>2, <4>3, <4>4
      <3>4. CASE n \notin {g, p, y}
        <4>1. Ups(t)[n] # g
          BY <3>4 DEF Family
        <4>2. n # t.root => k[Ups(t)[n]] = h[Ups(t)[n]]
          BY <2>3, <3>1, <4>1
        <4>3. k[n] = h[n] /\ (n \in Q <=> n \in R)
          BY <2>3, <3>4
        <4>4. QED
          BY <2>2, <4>2, <4>3
      <3>5. QED
        BY <3>2, <3>3, <3>4
    <2>5. \A n \in Ends(t) : k[n] = H
      <3>1. g \notin Ends(t) /\ \A n \in Ends(t) : n \in LiveOf(t)
        BY DEF Family, Ends
      <3>2. QED
        BY <2>2, <2>3, <3>1
    <2>6. Levels(t, Q, k, H)
      BY <2>2, <2>3, <2>4, <2>5 DEF Levels
    <2>7. QED
      BY <2>6 DEF Even
  <1>6. QED
    BY <1>4, <1>5 DEF Even

RedFamily(t, R, z, g, p, y) ==
  /\ Family(t, g, p, y) /\ R \in SUBSET LiveOf(t) /\ p \in R /\ y \in R /\ z \in R
  /\ Ups(t)[z] = p /\ z # t.root /\ z # p /\ Roomy(t, R, {z}, {})

Passed(t, R, Q, g) ==
  /\ Roomy(t, Q, {g}, {}) /\ g \in Q
  /\ Even(t, R) => Even(t, Q)

LEMMA RedFamilyRecolored ==
  ASSUME NEW t, NEW R, NEW z, NEW g, NEW p, NEW y, RedFamily(t, R, z, g, p, y)
  PROVE  Passed(t, R, (R \ {p, y}) \cup {g}, g)
  <1>1. PICK Q : Q = (R \ {p, y}) \cup {g}
    OBVIOUS
  <1>2. Passed(t, R, Q, g)
    BY <1>1, FamilyRecolored DEF RedFamily, Passed
  <1>3. QED
    BY <1>1, <1>2

(* The root turns black at the end.                                        *)
LEMMA RootBlack ==
  ASSUME NEW t, \A n \in LiveOf(t) : n # t.root => Ups(t)[n] \in LiveOf(t),
         NEW R \in SUBSET LiveOf(t), NEW z, Roomy(t, R, {z}, {}), Ups(t)[z] \notin R,
         NEW Q, Q = R \ {t.root}
  PROVE  /\ Roomy(t, Q, {}, {})
         /\ Even(t, R) => Even(t, Q)
  <1>1. Roomy(t, Q, {}, {})
    BY DEF Roomy
  <1>2. ASSUME NEW h, NEW H, Levels(t, R, h, H) PROVE Even(t, Q)
    <2>1. CASE t.root \notin R
      <3>1. Q = R
        BY <2>1
      <3>2. QED
        BY <1>2, <3>1 DEF Even
    <2>2. CASE t.root \in R
      <3>1. PICK k : k = [n \in LiveOf(t) |-> h[n] + 1]
        OBVIOUS
      <3>2. /\ H \in Int /\ h \in [LiveOf(t) -> Int]
            /\ \A n \in LiveOf(t) :
                 h[n] = (IF n = t.root THEN 0 ELSE h[Ups(t)[n]]) + (IF n \in R THEN 0 ELSE 1)
            /\ \A n \in Ends(t) : h[n] = H
        BY <1>2 DEF Levels
      <3>3. k \in [LiveOf(t) -> Int] /\ \A n \in LiveOf(t) : k[n] = h[n] + 1
        BY <3>1, <3>2
      <3>4. ASSUME NEW n \in LiveOf(t)
            PROVE  k[n] = (IF n = t.root THEN 0 ELSE k[Ups(t)[n]]) + (IF n \in Q THEN 0 ELSE 1)
        <4>1. CASE n = t.root
          BY <2>2, <3>2, <3>3, <4>1
        <4>2. CASE n # t.root
          <5>1. k[Ups(t)[n]] = h[Ups(t)[n]] + 1 /\ h[Ups(t)[n]] \in Int
            BY <3>2, <3>3, <4>2
          <5>2. n \in Q <=> n \in R
            BY <4>2
          <5>3. QED
            BY <3>2, <3>3, <4>2, <5>1, <5>2
        <4>3. QED
          BY <4>1, <4>2
      <3>5. \A n \in Ends(t) : k[n] = H + 1
        BY <3>2, <3>3 DEF Ends
      <3>6. Levels(t, Q, k, H + 1)
        BY <3>2, <3>3, <3>4, <3>5 DEF Levels
      <3>7. QED
        BY <3>6 DEF Even
    <2>3. QED
      BY <2>1, <2>2
  <1>3. QED
    BY <1>1, <1>2 DEF Even

-----------------------------------------------------------------------------
(* How often a fix-up may turn.                                            *)

(* A is the way from n up to the root.                                     *)
Way(t, n, A) ==
  /\ A \in SUBSET LiveOf(t) /\ n \in A
  /\ \A m \in A : m = t.root \/ Ups(t)[m] \in A
  /\ \A m \in A : Ups(t)[m] # n
  /\ \A m, k \in A : Ups(t)[m] = Ups(t)[k] => m = k

(* There are enough nodes left for the way from n up after k turns.        *)
Climbs(t, n, k) == \E A : Way(t, n, A) /\ k + Cardinality(A) <= Cardinality(LiveOf(t))

LEMMA LiveFinite ==
  ASSUME NEW t, NEW A \in SUBSET LiveOf(t)
  PROVE  /\ IsFiniteSet(A) /\ Cardinality(A) \in Nat
         /\ IsFiniteSet(LiveOf(t)) /\ Cardinality(LiveOf(t)) \in Nat
         /\ Cardinality(A) <= Cardinality(LiveOf(t))
  <1>1. LiveOf(t) \in SUBSET Nodes
    BY DEF LiveOf
  <1>2. IsFiniteSet(LiveOf(t))
    BY <1>1, RbTreeAssumption, FS_Subset
  <1>3. QED
    BY <1>2, FS_Subset, FS_CardinalityType

LEMMA WayIs ==
  ASSUME NEW t, Sound(t), NEW n \in LiveOf(t)
  PROVE  \E A : Way(t, n, A)
  <1>1. PICK S : S = {m \in LiveOf(t) : ~ \E A : Way(t, m, A)}
    OBVIOUS
  <1>2. ASSUME NEW m \in S PROVE t.node[m].parent \in S
    <2>1. m \in LiveOf(t) /\ ~ \E A : Way(t, m, A)
      BY <1>1
    <2>2. Ups(t)[m] # m /\ Ups(t)[m] = t.node[m].parent
      BY <2>1, UpIs, NotOwnParent
    <2>3. m # t.root
      <3> SUFFICES ASSUME m = t.root PROVE FALSE
        OBVIOUS
      <3>1. Way(t, m, {m})
        BY <2>1, <2>2 DEF Way
      <3>2. QED
        BY <2>1, <3>1
    <2>4. PICK p \in LiveOf(t) : p = Ups(t)[m]
      BY <2>1, <2>2, <2>3, LeadsTo
    <2>5. ASSUME NEW A, Way(t, p, A) PROVE FALSE
      <3>1. PICK B : B = A \cup {m}
        OBVIOUS
      <3>2. /\ A \in SUBSET LiveOf(t) /\ p \in A
            /\ \A k \in A : k = t.root \/ Ups(t)[k] \in A
            /\ \A k \in A : Ups(t)[k] # p
            /\ \A k, l \in A : Ups(t)[k] = Ups(t)[l] => k = l
        BY <2>5 DEF Way
      <3>3. m \notin A
        BY <2>4, <3>2
      <3>4. Ups(t)[t.root] # m
        <4>1. t.root \in LiveOf(t)
          BY <2>1, RootLive
        <4>2. Ups(t)[t.root] = nullptr
          BY <4>1, UpIs DEF Sound, Up
        <4>3. QED
          BY <2>1, <4>2, RbTreeAssumption DEF LiveOf
      <3>5. \A k \in B : Ups(t)[k] # m
        BY <2>2, <3>1, <3>2, <3>3, <3>4
      <3>6. Way(t, m, B)
        BY <2>1, <2>4, <3>1, <3>2, <3>5 DEF Way
      <3>7. QED
        BY <2>1, <3>6
    <2>6. QED
      BY <1>1, <2>2, <2>4, <2>5
  <1>3. S = {}
    BY <1>1, <1>2, NoCycle
  <1>4. QED
    BY <1>1, <1>3

LEMMA ClimbStarts ==
  ASSUME NEW t, Sound(t), NEW n \in LiveOf(t)
  PROVE  Climbs(t, n, 0)
  <1>1. PICK A : Way(t, n, A)
    BY WayIs
  <1>2. A \in SUBSET LiveOf(t)
    BY <1>1 DEF Way
  <1>3. 0 + Cardinality(A) <= Cardinality(LiveOf(t))
    BY <1>2, LiveFinite
  <1>4. QED
    BY <1>1, <1>3 DEF Climbs

LEMMA ClimbTurns ==
  ASSUME NEW t, NEW n, NEW k \in Int, Climbs(t, n, k)
  PROVE  k + 1 <= Cardinality(LiveOf(t))
  <1>1. PICK A : Way(t, n, A) /\ k + Cardinality(A) <= Cardinality(LiveOf(t))
    BY DEF Climbs
  <1>2. A \in SUBSET LiveOf(t) /\ n \in A
    BY <1>1 DEF Way
  <1>3. IsFiniteSet(A) /\ Cardinality(A) \in Nat /\ Cardinality(LiveOf(t)) \in Nat
    BY <1>2, LiveFinite
  <1>4. Cardinality(A) # 0
    BY <1>2, <1>3, FS_EmptySet
  <1>5. QED
    BY <1>1, <1>3, <1>4

LEMMA ClimbsUp ==
  ASSUME NEW t, NEW n, n # t.root, NEW p, Ups(t)[n] = p, p # n, NEW k \in Int, Climbs(t, n, k)
  PROVE  Climbs(t, p, k + 1)
  <1>1. PICK A : Way(t, n, A) /\ k + Cardinality(A) <= Cardinality(LiveOf(t))
    BY DEF Climbs
  <1>2. PICK B : B = A \ {n}
    OBVIOUS
  <1>3. /\ A \in SUBSET LiveOf(t) /\ n \in A
        /\ \A m \in A : m = t.root \/ Ups(t)[m] \in A
        /\ \A m \in A : Ups(t)[m] # n
        /\ \A m, l \in A : Ups(t)[m] = Ups(t)[l] => m = l
    BY <1>1 DEF Way
  <1>4. Way(t, p, B)
    BY <1>2, <1>3 DEF Way
  <1>5. IsFiniteSet(A) /\ Cardinality(A) \in Nat /\ Cardinality(LiveOf(t)) \in Nat
    BY <1>3, LiveFinite
  <1>6. Cardinality(B) = Cardinality(A) - 1
    BY <1>2, <1>3, <1>5, FS_RemoveElement
  <1>7. k + 1 + Cardinality(B) <= Cardinality(LiveOf(t))
    BY <1>1, <1>5, <1>6
  <1>8. QED
    BY <1>4, <1>7 DEF Climbs

LEMMA ClimbsLess ==
  ASSUME NEW t, NEW n, NEW k \in Int, Climbs(t, n, k + 1)
  PROVE  Climbs(t, n, k)
  <1>1. PICK A : Way(t, n, A) /\ k + 1 + Cardinality(A) <= Cardinality(LiveOf(t))
    BY DEF Climbs
  <1>2. A \in SUBSET LiveOf(t)
    BY <1>1 DEF Way
  <1>3. Cardinality(A) \in Nat /\ Cardinality(LiveOf(t)) \in Nat
    BY <1>2, LiveFinite
  <1>4. k + Cardinality(A) <= Cardinality(LiveOf(t))
    BY <1>1, <1>3
  <1>5. QED
    BY <1>1, <1>4 DEF Climbs

LEMMA AlikeClimbs ==
  ASSUME NEW t, NEW u, Alike(t, u), NEW n, NEW k, Climbs(t, n, k)
  PROVE  Climbs(u, n, k)
  <1>1. PICK A : Way(t, n, A) /\ k + Cardinality(A) <= Cardinality(LiveOf(t))
    BY DEF Climbs
  <1>2. Way(u, n, A)
    <2>1. LiveOf(u) = LiveOf(t) /\ u.root = t.root /\ \A m \in LiveOf(t) : Ups(u)[m] = Ups(t)[m]
      BY DEF Alike
    <2>2. A \in SUBSET LiveOf(t)
      BY <1>1 DEF Way
    <2>3. QED
      BY <1>1, <2>1, <2>2 DEF Way
  <1>3. LiveOf(u) = LiveOf(t)
    BY DEF Alike
  <1>4. QED
    BY <1>1, <1>2, <1>3 DEF Climbs

-----------------------------------------------------------------------------
(* A turn of rb_insert_fixup.                                              *)

(* u is t with the nodes of Q for its red ones.                            *)
Painted(t, u, Q) ==
  SameLinks(t, u) /\ Alike(t, u) /\ Sound(u) /\ LiveOf(u) = LiveOf(t) /\ Reds(u) = Q

LEMMA PaintedSelf ==
  ASSUME NEW t, Sound(t)
  PROVE  Painted(t, t, Reds(t))
  BY DEF Painted, SameLinks, Alike, Sound

LEMMA PaintRed ==
  ASSUME NEW t, NEW v, NEW Q, Painted(t, v, Q), NEW m \in LiveOf(t), NEW u, u = Color(v, m, "RED")
  PROVE  Painted(t, u, Q \cup {m})
  <1>1. SameLinks(t, v) /\ Sound(v) /\ LiveOf(v) = LiveOf(t) /\ Reds(v) = Q
    BY DEF Painted
  <1>2. "RED" \in Colors
    BY DEF Colors
  <1>3. Dyed(v, u, m, "RED")
    BY <1>1, <1>2, ColorDyes
  <1>4. SameLinks(t, u)
    BY <1>1, <1>3 DEF Dyed, SameLinks
  <1>5. QED
    BY <1>1, <1>3, <1>4, SameLinksAlike DEF Dyed, Painted

LEMMA PaintBlack ==
  ASSUME NEW t, NEW v, NEW Q, Painted(t, v, Q), NEW m \in LiveOf(t), NEW u, u = Color(v, m, "BLACK")
  PROVE  Painted(t, u, Q \ {m})
  <1>1. SameLinks(t, v) /\ Sound(v) /\ LiveOf(v) = LiveOf(t) /\ Reds(v) = Q
    BY DEF Painted
  <1>2. "BLACK" \in Colors
    BY DEF Colors
  <1>3. Dyed(v, u, m, "BLACK")
    BY <1>1, <1>2, ColorDyes
  <1>4. SameLinks(t, u)
    BY <1>1, <1>3 DEF Dyed, SameLinks
  <1>5. QED
    BY <1>1, <1>3, <1>4, SameLinksAlike DEF Dyed, Painted

LEMMA RecoloredPaints ==
  ASSUME NEW t, Sound(t), NEW p \in LiveOf(t), NEW y \in LiveOf(t), NEW g \in LiveOf(t),
         NEW u, u = Recolored(t, p, y, g)
  PROVE  Painted(t, u, (Reds(t) \ {p, y}) \cup {g})
  <1>1. PICK v, w : v = Color(t, p, "BLACK") /\ w = Color(v, y, "BLACK")
    OBVIOUS
  <1>2. u = Color(w, g, "RED")
    BY <1>1 DEF Recolored
  <1>3. PICK Q : Q = (Reds(t) \ {p}) \ {y}
    OBVIOUS
  <1>4. Painted(t, v, Reds(t) \ {p})
    BY <1>1, PaintedSelf, PaintBlack
  <1>5. Painted(t, w, Q)
    BY <1>1, <1>3, <1>4, PaintBlack
  <1>6. Painted(t, u, Q \cup {g})
    BY <1>2, <1>5, PaintRed
  <1>7. Q \cup {g} = (Reds(t) \ {p, y}) \cup {g}
    BY <1>3
  <1>8. QED
    BY <1>6, <1>7

(* What a turn does to the laws: they hold with the trouble at n.          *)
Risen(t, u, n) ==
  /\ n \in Reds(u) /\ Roomy(u, Reds(u), {n}, {})
  /\ Even(t, Reds(t)) => Even(u, Reds(u))

(* z, its parent and what is around that.                                  *)
Lineage(t, z, p, g, side, y) ==
  /\ p = t.node[z].parent /\ g = t.node[p].parent
  /\ side = SideOf(t, p) /\ y = t.node[g][Other(side)]

LEMMA RecoloredLaws ==
  ASSUME NEW t, Sound(t), NEW z, z \in Reds(t), NEW p, p \in Reds(t), NEW g \in LiveOf(t),
         NEW side, NEW y, Lineage(t, z, p, g, side, y), IsRed(t, y),
         Roomy(t, Reds(t), {z}, {}), NEW u, u = Recolored(t, p, y, g)
  PROVE  Painted(t, u, Reds(u)) /\ Risen(t, u, g)
  <1>0. /\ p = t.node[z].parent /\ g = t.node[p].parent
        /\ side = SideOf(t, p) /\ y = t.node[g][Other(side)]
    BY DEF Lineage
  <1>1. PICK R, Q : R = Reds(t) /\ Q = (R \ {p, y}) \cup {g}
    OBVIOUS
  <1>2. R \in SUBSET LiveOf(t) /\ nullptr \notin LiveOf(t) /\ z \in LiveOf(t) /\ p \in LiveOf(t)
    BY <1>1, RbTreeAssumption DEF Reds, LiveOf
  <1>3. p # t.root /\ z # t.root /\ z # p
    BY <1>0, <1>2, NotOwnParent DEF Sound, Up
  <1>4. side \in Sides /\ t.node[g][side] = p
    BY <1>0, <1>2, <1>3, LeadsTo
  <1>5. Other(side) \in Sides /\ y # nullptr
    BY <1>4, Others DEF IsRed
  <1>6. Family(t, g, p, y)
    BY <1>0, <1>2, <1>4, <1>5, FamilyIs
  <1>7. y \in R
    <2>1. y \in LiveOf(t)
      BY <1>6 DEF Family
    <2>2. QED
      BY <1>1, <2>1, RedIs
  <1>8. Ups(t)[z] = p
    BY <1>0, <1>2, UpIs
  <1>9. /\ Roomy(t, Q, {g}, {}) /\ g \in Q
        /\ Even(t, R) => Even(t, Q)
    <2>1. RedFamily(t, R, z, g, p, y)
      BY <1>1, <1>2, <1>3, <1>6, <1>7, <1>8 DEF RedFamily
    <2>2. Passed(t, R, (R \ {p, y}) \cup {g}, g)
      BY <2>1, RedFamilyRecolored
    <2>3. Passed(t, R, Q, g)
      BY <1>1, <2>2
    <2>4. QED
      BY <2>3 DEF Passed
  <1>10. Painted(t, u, Q)
    BY <1>1, <1>2, <1>7, RecoloredPaints
  <1>11. Reds(u) = Q /\ Alike(t, u) /\ Q \in SUBSET LiveOf(t)
    BY <1>1, <1>2, <1>10 DEF Painted
  <1>12. Roomy(u, Q, {g}, {}) /\ (Even(t, R) => Even(u, Q))
    BY <1>9, <1>11, AlikeRoomy, AlikeEven
  <1>13. QED
    BY <1>1, <1>9, <1>10, <1>11, <1>12 DEF Risen

(* The rotation that ends it, from the tree t where p and z are straight.  *)
LEMMA StraightTurns ==
  ASSUME NEW t, Sound(t), NEW g \in LiveOf(t), NEW side \in Sides, NEW p \in LiveOf(t),
         t.node[g][side] = p, NEW z \in LiveOf(t), t.node[p][side] = z,
         NEW R, R = Reds(t), Straight(t, R, z, p, g),
         NEW u, u = Rotate(Color(Color(t, p, "BLACK"), g, "RED"), g, Other(side))
  PROVE  /\ Rested(u, Reds(u), z)
         /\ Even(t, R) => Even(u, Reds(u))
  <1>1. PICK v, w : v = Color(t, p, "BLACK") /\ w = Color(v, g, "RED")
    OBVIOUS
  <1>2. PICK Q : Q = (R \ {p}) \cup {g}
    OBVIOUS
  <1>3. Painted(t, w, Q)
    <2>1. Painted(t, v, Reds(t) \ {p})
      BY <1>1, PaintedSelf, PaintBlack
    <2>2. Painted(t, w, (Reds(t) \ {p}) \cup {g})
      BY <1>1, <2>1, PaintRed
    <2>3. QED
      BY <1>2, <2>2
  <1>4. SameLinks(t, w) /\ Alike(t, w) /\ Sound(w) /\ LiveOf(w) = LiveOf(t) /\ Reds(w) = Q
    BY <1>3 DEF Painted
  <1>5. PICK o \in Sides : o = Other(side) /\ Other(o) = side /\ o # side
    BY Others
  <1>6. PICK b : b = w.node[p][o]
    OBVIOUS
  <1>7. w.node[g][Other(o)] = p /\ p # nullptr /\ z # nullptr
    BY <1>4, <1>5, RbTreeAssumption DEF SameLinks, LiveOf
  <1>8. b # z
    <2>1. b = t.node[p][o]
      BY <1>4, <1>5, <1>6 DEF SameLinks
    <2>2. QED
      BY <1>5, <1>7, <2>1 DEF Sound, Down
  <1>9. Rotates(w, u, g, o, p, b)
    BY <1>1, <1>4, <1>5, <1>6, <1>7, RotateSwings
  <1>10. Reds(u) = Q /\ Swings(t, u, g, p, b)
    BY <1>4, <1>9, AlikeSwings DEF Rotates
  <1>11. R \in SUBSET LiveOf(t)
    BY DEF Reds
  <1>12. Rested(u, Q, z) /\ (Even(t, R) => Even(u, Q))
    BY <1>2, <1>8, <1>10, <1>11, StraightRests
  <1>13. QED
    BY <1>10, <1>12

(* A red z and its red parent p, which is on that side of g.               *)
InLine(t, z, p, g, side) ==
  /\ Sound(t) /\ side \in Sides /\ z \in LiveOf(t) /\ p \in LiveOf(t) /\ g \in LiveOf(t)
  /\ t.node[z].parent = p /\ t.node[p].parent = g /\ t.node[g][side] = p
  /\ p # g /\ z # t.root /\ Straight(t, Reds(t), z, p, g)

LEMMA LineIs ==
  ASSUME NEW t, Sound(t), NEW z, z \in Reds(t), NEW p, p \in Reds(t), NEW g \in LiveOf(t),
         NEW side, NEW y, Lineage(t, z, p, g, side, y), ~ IsRed(t, y), Roomy(t, Reds(t), {z}, {})
  PROVE  InLine(t, z, p, g, side)
  <1>0. /\ p = t.node[z].parent /\ g = t.node[p].parent
        /\ side = SideOf(t, p) /\ y = t.node[g][Other(side)]
    BY DEF Lineage
  <1>1. PICK R : R = Reds(t)
    OBVIOUS
  <1>2. /\ R \in SUBSET LiveOf(t) /\ nullptr \notin LiveOf(t)
        /\ z \in LiveOf(t) /\ p \in LiveOf(t) /\ z \in R /\ p \in R
    BY <1>1, RbTreeAssumption DEF Reds, LiveOf
  <1>3. p # t.root /\ z # t.root /\ z # p /\ p # g
    BY <1>0, <1>2, NotOwnParent DEF Sound, Up
  <1>4. side \in Sides /\ t.node[g][side] = p
    BY <1>0, <1>2, <1>3, LeadsTo
  <1>5. \A o \in Sides : o = side \/ o = Other(side)
    BY <1>4, Others
  <1>6. Ups(t)[z] = p /\ Ups(t)[p] = g
    BY <1>0, <1>2, UpIs
  <1>7. g \notin R
    BY <1>1, <1>2, <1>3, <1>6 DEF Roomy
  <1>8. ASSUME NEW n \in R, Ups(t)[n] = g PROVE n = p
    <2>1. n \in LiveOf(t) /\ t.node[n].parent = g
      BY <1>2, <1>8, UpIs
    <2>2. n # t.root
      BY <1>2, <2>1 DEF Sound, Up
    <2>3. PICK o \in Sides : t.node[g][o] = n
      BY <2>1, <2>2 DEF Sound, Up
    <2>4. n # t.node[g][Other(side)]
      BY <1>0, <1>1, <1>8, <2>1, RedIs
    <2>5. QED
      BY <1>4, <1>5, <2>3, <2>4
  <1>9. Straight(t, Reds(t), z, p, g)
    BY <1>1, <1>2, <1>3, <1>6, <1>7, <1>8 DEF Straight
  <1>10. QED
    BY <1>0, <1>2, <1>3, <1>4, <1>9 DEF InLine

(* So is z of p.                                                           *)
StraightAt(t, z, p, g, side) == InLine(t, z, p, g, side) /\ t.node[p][side] = z

LEMMA OuterIs ==
  ASSUME NEW t, NEW z, NEW p, NEW g, NEW side, InLine(t, z, p, g, side),
         z # t.node[p][Other(side)]
  PROVE  StraightAt(t, z, p, g, side)
  <1>1. Sound(t) /\ side \in Sides /\ z \in LiveOf(t) /\ z # t.root /\ t.node[z].parent = p
    BY DEF InLine
  <1>2. PICK o \in Sides : t.node[p][o] = z
    BY <1>1 DEF Sound, Up
  <1>3. o = side
    BY <1>1, <1>2, Others
  <1>4. QED
    BY <1>2, <1>3 DEF StraightAt

LEMMA InnerTurns ==
  ASSUME NEW t, NEW z, NEW p, NEW g, NEW side, InLine(t, z, p, g, side),
         z = t.node[p][Other(side)], NEW u, u = Rotate(t, p, side)
  PROVE  /\ StraightAt(u, p, z, g, side)
         /\ Even(t, Reds(t)) => Even(u, Reds(u))
  <1>1. /\ Sound(t) /\ side \in Sides /\ z \in LiveOf(t) /\ p \in LiveOf(t) /\ g \in LiveOf(t)
        /\ Straight(t, Reds(t), z, p, g) /\ z # nullptr
    BY RbTreeAssumption DEF InLine, LiveOf
  <1>2. PICK b : b = t.node[z][side]
    OBVIOUS
  <1>3. Rotates(t, u, p, side, z, b)
    BY <1>1, <1>2, RotateSwings
  <1>4. /\ Swings(t, u, p, z, b) /\ RotatedAt(t, u, p, side, z)
        /\ Sound(u) /\ LiveOf(u) = LiveOf(t) /\ Reds(u) = Reds(t)
    BY <1>3 DEF Rotates
  <1>5. Reds(t) \in SUBSET LiveOf(t)
    BY DEF Reds
  <1>6. Straight(u, Reds(t), p, z, g) /\ (Even(t, Reds(t)) => Even(u, Reds(t)))
    BY <1>1, <1>4, <1>5, InnerStraight
  <1>7. Straight(u, Reds(u), p, z, g) /\ (Even(t, Reds(t)) => Even(u, Reds(u)))
    BY <1>4, <1>6
  <1>8. /\ u.node[p].parent = z /\ u.node[z].parent = t.node[p].parent /\ u.node[z][side] = p
        /\ p # t.root => u.node[t.node[p].parent][SideOf(t, p)] = z
    BY <1>4 DEF RotatedAt
  <1>9. p # t.root /\ t.node[p].parent = g /\ t.node[g][side] = p
    <2>1. t.node[p].parent = g /\ t.node[g][side] = p
      BY DEF InLine
    <2>2. QED
      BY <1>1, <2>1, RbTreeAssumption DEF Sound, Up, LiveOf
  <1>10. SideOf(t, p) = side
    BY <1>1, <1>9, ChildIs, RbTreeAssumption DEF LiveOf
  <1>11. z # g /\ p # u.root
    <2>1. z # g
      BY <1>1, <1>9, RbTreeAssumption DEF Straight
    <2>2. u.root = IF p = t.root THEN z ELSE t.root
      BY <1>4 DEF Swings
    <2>3. QED
      BY <1>9, <2>1, <2>2
  <1>12. InLine(u, p, z, g, side)
    BY <1>1, <1>4, <1>7, <1>8, <1>9, <1>10, <1>11 DEF InLine
  <1>13. QED
    BY <1>7, <1>8, <1>12 DEF StraightAt

LEMMA StraightAtTurns ==
  ASSUME NEW t, NEW z, NEW p, NEW g, NEW side, StraightAt(t, z, p, g, side),
         NEW u, u = Rotate(Color(Color(t, p, "BLACK"), g, "RED"), g, Other(side))
  PROVE  /\ Rested(u, Reds(u), z)
         /\ Even(t, Reds(t)) => Even(u, Reds(u))
  <1>1. /\ Sound(t) /\ side \in Sides /\ z \in LiveOf(t) /\ p \in LiveOf(t) /\ g \in LiveOf(t)
        /\ Straight(t, Reds(t), z, p, g) /\ t.node[g][side] = p /\ t.node[p][side] = z
    BY DEF StraightAt, InLine
  <1>2. QED
    BY <1>1, StraightTurns

LEMMA StraightenedLaws ==
  ASSUME NEW t, NEW z, NEW p, NEW g, NEW side, InLine(t, z, p, g, side),
         NEW s, s = Straightened(t, z, side), NEW u, u = s.t, NEW n, n = s.at
  PROVE  /\ Rested(u, Reds(u), n)
         /\ Even(t, Reds(t)) => Even(u, Reds(u))
  <1>1. t.node[z].parent = p /\ t.node[p].parent = g
    BY DEF InLine
  <1>2. PICK v, m : /\ v = IF z = t.node[p][Other(side)] THEN Rotate(t, p, side) ELSE t
                    /\ m = IF z = t.node[p][Other(side)] THEN p ELSE z
    OBVIOUS
  <1>3. PICK q : StraightAt(v, m, q, g, side) /\ (Even(t, Reds(t)) => Even(v, Reds(v)))
    <2>1. CASE z = t.node[p][Other(side)]
      <3>1. v = Rotate(t, p, side) /\ m = p
        BY <1>2, <2>1
      <3>2. StraightAt(v, p, z, g, side) /\ (Even(t, Reds(t)) => Even(v, Reds(v)))
        BY <2>1, <3>1, InnerTurns
      <3>3. QED
        BY <3>1, <3>2
    <2>2. CASE z # t.node[p][Other(side)]
      <3>1. v = t /\ m = z
        BY <1>2, <2>2
      <3>2. StraightAt(t, z, p, g, side)
        BY <2>2, OuterIs
      <3>3. QED
        BY <3>1, <3>2
    <2>3. QED
      BY <2>1, <2>2
  <1>4. v.node[m].parent = q /\ v.node[q].parent = g
    BY <1>3 DEF StraightAt, InLine
  <1>5. u = Rotate(Color(Color(v, q, "BLACK"), g, "RED"), g, Other(side)) /\ n = m
    BY <1>1, <1>2, <1>4, Zenon DEF Straightened
  <1>6. Rested(u, Reds(u), m) /\ (Even(v, Reds(v)) => Even(u, Reds(u)))
    BY <1>3, <1>5, StraightAtTurns
  <1>7. QED
    BY <1>3, <1>5, <1>6

(* The laws while a node has been inserted: red may touch red at z alone,  *)
(* and if it does there is a way to go up.                                 *)
Inserting(t, z, k) ==
  /\ z \in Reds(t) /\ Roomy(t, Reds(t), {z}, {})
  /\ k \in Int /\ k <= Cardinality(LiveOf(t))
  /\ Ups(t)[z] \in Reds(t) => Climbs(t, z, k)

(* What a turn leaves behind when it goes on at n, and when it ends.       *)
GoesOn(t, u, n, k) ==
  /\ Sound(u) /\ n \in LiveOf(t) /\ Inserting(u, n, k)
  /\ Even(t, Reds(t)) => Even(u, Reds(u))

Settles(t, u) ==
  /\ Sound(u) /\ Roomy(u, Reds(u), {}, {})
  /\ Even(t, Reds(t)) => Even(u, Reds(u))

LEMMA InsertSettles ==
  ASSUME NEW t, Sound(t), NEW z, NEW k, Inserting(t, z, k), ~ IsRed(t, t.node[z].parent),
         NEW u, u = Color(t, t.root, "BLACK")
  PROVE  Settles(t, u)
  <1>1. z \in LiveOf(t) /\ Reds(t) \in SUBSET LiveOf(t) /\ Roomy(t, Reds(t), {z}, {})
    BY DEF Inserting, Reds
  <1>2. t.node[z].parent \in LiveOf(t) \cup {nullptr}
    BY <1>1, ParentsLive
  <1>3. Ups(t)[z] \notin Reds(t)
    <2>1. t.node[z].parent \notin Reds(t)
      BY <1>2, RedIs
    <2>2. QED
      BY <1>1, <2>1, UpIs
  <1>4. t.root \in LiveOf(t)
    BY <1>1, RootLive
  <1>5. PICK Q : Q = Reds(t) \ {t.root}
    OBVIOUS
  <1>6. Painted(t, u, Q)
    <2>1. Painted(t, u, Reds(t) \ {t.root})
      BY <1>4, PaintedSelf, PaintBlack
    <2>2. QED
      BY <1>5, <2>1
  <1>7. \A n \in LiveOf(t) : n # t.root => Ups(t)[n] \in LiveOf(t)
    BY UpIs, LeadsTo
  <1>8. Roomy(t, Q, {}, {}) /\ (Even(t, Reds(t)) => Even(t, Q))
    BY <1>1, <1>3, <1>5, <1>7, RootBlack
  <1>9. Alike(t, u) /\ Sound(u) /\ Reds(u) = Q /\ Q \in SUBSET LiveOf(t)
    BY <1>1, <1>5, <1>6 DEF Painted
  <1>10. Roomy(u, Q, {}, {}) /\ (Even(t, Reds(t)) => Even(u, Q))
    BY <1>8, <1>9, AlikeRoomy, AlikeEven
  <1>11. QED
    BY <1>9, <1>10 DEF Settles

(* A red parent is not the root.                                           *)
Grand(t, z, p, g) ==
  /\ z \in LiveOf(t) /\ p \in Reds(t) /\ p \in LiveOf(t) /\ g \in LiveOf(t) /\ g # nullptr
  /\ z # t.root /\ p # t.root /\ p # z /\ g # p /\ Ups(t)[z] = p /\ Ups(t)[p] = g

LEMMA RedParent ==
  ASSUME NEW t, Sound(t), NEW z, NEW k, Inserting(t, z, k),
         NEW p, NEW g, NEW side, NEW y, Lineage(t, z, p, g, side, y), IsRed(t, p)
  PROVE  Grand(t, z, p, g)
  <1>1. z \in LiveOf(t) /\ Roomy(t, Reds(t), {z}, {})
    BY DEF Inserting, Reds
  <1>2. nullptr \notin LiveOf(t) /\ p # nullptr
    BY RbTreeAssumption DEF LiveOf, IsRed
  <1>3. p \in LiveOf(t) /\ z # t.root /\ p # z
    BY <1>1, <1>2, ParentsLive, NotOwnParent DEF Lineage
  <1>4. p \in Reds(t)
    BY <1>3, RedIs
  <1>5. p # t.root
    BY <1>1, <1>3, <1>4 DEF Roomy
  <1>6. g \in LiveOf(t) /\ g # nullptr /\ g # p
    BY <1>2, <1>3, <1>5, LeadsTo, NotOwnParent DEF Lineage
  <1>7. Ups(t)[z] = p /\ Ups(t)[p] = g
    BY <1>1, <1>3, UpIs DEF Lineage
  <1>8. QED
    BY <1>1, <1>3, <1>4, <1>5, <1>6, <1>7 DEF Grand

LEMMA GrandClimbs ==
  ASSUME NEW t, NEW z, NEW k, Inserting(t, z, k), NEW p, NEW g, Grand(t, z, p, g)
  PROVE  /\ k \in Int /\ k + 1 <= Cardinality(LiveOf(t))
         /\ Climbs(t, g, k + 1)
  <1>1. k \in Int /\ Climbs(t, z, k)
    BY DEF Inserting, Grand
  <1>2. k + 1 <= Cardinality(LiveOf(t))
    BY <1>1, ClimbTurns
  <1>3. /\ z # t.root /\ Ups(t)[z] = p /\ p # z
        /\ p # t.root /\ Ups(t)[p] = g /\ g # p
    BY DEF Grand
  <1>4. PICK l \in Int, m \in Int : l = k + 1 /\ m = l + 1
    BY <1>1
  <1>5. Climbs(t, p, l)
    BY <1>1, <1>3, <1>4, ClimbsUp
  <1>6. Climbs(t, g, m)
    BY <1>3, <1>4, <1>5, ClimbsUp
  <1>7. Climbs(t, g, l)
    BY <1>4, <1>6, ClimbsLess
  <1>8. QED
    BY <1>1, <1>2, <1>4, <1>7

LEMMA InsertGoesUp ==
  ASSUME NEW t, Sound(t), NEW z, NEW k, Inserting(t, z, k),
         NEW p, NEW g, NEW side, NEW y, Lineage(t, z, p, g, side, y), IsRed(t, p), IsRed(t, y),
         NEW u, u = Recolored(t, p, y, g)
  PROVE  GoesOn(t, u, g, k + 1)
  <1>1. Grand(t, z, p, g)
    BY RedParent
  <1>2. k \in Int /\ k + 1 <= Cardinality(LiveOf(t)) /\ Climbs(t, g, k + 1)
    BY <1>1, GrandClimbs
  <1>3. z \in Reds(t) /\ Roomy(t, Reds(t), {z}, {}) /\ p \in Reds(t) /\ g \in LiveOf(t)
    BY <1>1 DEF Inserting, Grand
  <1>4. Painted(t, u, Reds(u)) /\ Risen(t, u, g)
    BY <1>3, RecoloredLaws
  <1>5. Sound(u) /\ Alike(t, u) /\ LiveOf(u) = LiveOf(t)
    BY <1>4 DEF Painted
  <1>6. Climbs(u, g, k + 1)
    BY <1>2, <1>5, AlikeClimbs
  <1>7. Inserting(u, g, k + 1)
    BY <1>2, <1>4, <1>5, <1>6 DEF Inserting, Risen
  <1>8. QED
    BY <1>3, <1>4, <1>5, <1>7 DEF GoesOn, Risen

LEMMA InsertRests ==
  ASSUME NEW t, Sound(t), NEW z, NEW k, Inserting(t, z, k),
         NEW p, NEW g, NEW side, NEW y, Lineage(t, z, p, g, side, y), IsRed(t, p), ~ IsRed(t, y),
         NEW s, s = Straightened(t, z, side), NEW u, u = s.t, NEW n, n = s.at
  PROVE  GoesOn(t, u, n, k + 1)
  <1>1. Grand(t, z, p, g)
    BY RedParent
  <1>2. k \in Int /\ k + 1 <= Cardinality(LiveOf(t))
    BY <1>1, GrandClimbs
  <1>3. /\ z \in Reds(t) /\ Roomy(t, Reds(t), {z}, {}) /\ p \in Reds(t)
        /\ z \in LiveOf(t) /\ p \in LiveOf(t) /\ g \in LiveOf(t)
    BY <1>1 DEF Inserting, Grand
  <1>4. InLine(t, z, p, g, side)
    BY <1>3, LineIs
  <1>5. Rested(u, Reds(u), n) /\ (Even(t, Reds(t)) => Even(u, Reds(u)))
    BY <1>4, StraightenedLaws
  <1>6. Keeps(t, u) /\ n \in LiveOf(t)
    BY <1>3, StraightenedKeeps DEF Lineage
  <1>7. Sound(u) /\ LiveOf(u) = LiveOf(t)
    BY <1>6 DEF Keeps
  <1>8. Inserting(u, n, k + 1)
    BY <1>2, <1>5, <1>7 DEF Inserting, Rested
  <1>9. QED
    BY <1>5, <1>6, <1>7, <1>8 DEF GoesOn

-----------------------------------------------------------------------------
(* A turn of rb_delete_fixup.                                              *)

LEMMA KidIs ==
  ASSUME NEW t, Sound(t), NEW n \in LiveOf(t), NEW s \in Sides
  PROVE  t.node[n][s] \in LiveOf(t) \cup {nullptr}
  BY DEF Sound, Down

(* A black node q and its red child y, whose sister is not red.            *)
Leaning(t, q, y, side) ==
  /\ Sound(t) /\ side \in Sides /\ q \in LiveOf(t) \ Reds(t) /\ y \in Reds(t)
  /\ t.node[q][Other(side)] = y /\ t.node[q][side] \notin Reds(t)
  /\ Roomy(t, Reds(t), {}, {})

(* They swap their colours and y comes up.                                 *)
Leant(t, u, q, y, side) ==
  /\ Sound(u) /\ LiveOf(u) = LiveOf(t) /\ Roomy(u, Reds(u), {}, {})
  /\ Reds(u) = (Reds(t) \ {y}) \cup {q} /\ y # q
  /\ u.node[y][side] = q /\ u.node[q][side] = t.node[q][side]
  /\ u.node[q][Other(side)] = t.node[y][side] /\ t.node[y][side] \notin Reds(u)
  /\ \A m \in LiveOf(t) : \A s \in Sides : t.node[m][s] = q => u.node[m][s] = y

LEMMA LeaningReds ==
  ASSUME NEW t, NEW q, NEW y, NEW side, Leaning(t, q, y, side), NEW n \in Reds(t), Ups(t)[n] = q
  PROVE  n = y
  <1>1. /\ Sound(t) /\ side \in Sides /\ q \in LiveOf(t) /\ t.node[q][Other(side)] = y
        /\ t.node[q][side] \notin Reds(t)
    BY DEF Leaning
  <1>2. n \in LiveOf(t) /\ t.node[n].parent = q
    BY UpIs DEF Reds
  <1>3. n # t.root
    BY <1>1, <1>2, RbTreeAssumption DEF Sound, Up, LiveOf
  <1>4. PICK s \in Sides : t.node[q][s] = n
    BY <1>1, <1>2, <1>3 DEF Sound, Up
  <1>5. s = side \/ s = Other(side)
    BY <1>1, Others
  <1>6. QED
    BY <1>1, <1>4, <1>5

LEMMA LeaningTurns ==
  ASSUME NEW t, NEW q, NEW y, NEW side, Leaning(t, q, y, side),
         NEW u, u = Rotate(Color(Color(t, y, "BLACK"), q, "RED"), q, side)
  PROVE  Leant(t, u, q, y, side)
  <1>1. /\ Sound(t) /\ side \in Sides /\ q \in LiveOf(t) /\ q \notin Reds(t) /\ y \in Reds(t)
        /\ t.node[q][Other(side)] = y /\ Roomy(t, Reds(t), {}, {})
        /\ y \in LiveOf(t) /\ y # nullptr /\ y # q
    BY RbTreeAssumption DEF Leaning, Reds, LiveOf
  <1>2. PICK v, w : v = Color(t, y, "BLACK") /\ w = Color(v, q, "RED")
    OBVIOUS
  <1>3. PICK R, Q : R = Reds(t) /\ Q = (R \ {y}) \cup {q}
    OBVIOUS
  <1>4. Painted(t, w, Q)
    <2>1. Painted(t, v, Reds(t) \ {y})
      BY <1>1, <1>2, PaintedSelf, PaintBlack
    <2>2. Painted(t, w, (Reds(t) \ {y}) \cup {q})
      BY <1>1, <1>2, <2>1, PaintRed
    <2>3. QED
      BY <1>3, <2>2
  <1>5. SameLinks(t, w) /\ Alike(t, w) /\ Sound(w) /\ LiveOf(w) = LiveOf(t) /\ Reds(w) = Q
    BY <1>4 DEF Painted
  <1>6. \A n \in LiveOf(t) : \A s \in Sides : w.node[n][s] = t.node[n][s]
    BY <1>5 DEF SameLinks
  <1>7. PICK b : b = t.node[y][side]
    OBVIOUS
  <1>8. Other(side) \in Sides
    BY <1>1, Others
  <1>9. w.node[q][Other(side)] = y /\ w.node[y][side] = b /\ w.node[q][side] = t.node[q][side]
    BY <1>1, <1>6, <1>7, <1>8
  <1>10. Rotates(w, u, q, side, y, b)
    BY <1>1, <1>2, <1>5, <1>9, RotateSwings
  <1>11. /\ Swings(t, u, q, y, b) /\ RotatedAt(w, u, q, side, y)
         /\ Sound(u) /\ LiveOf(u) = LiveOf(t) /\ Reds(u) = Q
    BY <1>5, <1>10, AlikeSwings DEF Rotates
  <1>12. Roomy(u, Q, {}, {})
    <2>1. \A n \in R : Ups(t)[n] = q => n = y \/ n \in {}
      BY <1>3, LeaningReds
    <2>2. R \in SUBSET LiveOf(t) /\ Roomy(t, R, {}, {}) /\ y \in R /\ q \notin R
      BY <1>1, <1>3 DEF Reds
    <2>3. Roomy(u, (R \ {y}) \cup {q}, {}, {})
      BY <1>11, <2>1, <2>2, SwingsRoomy
    <2>4. QED
      BY <1>3, <2>3
  <1>13. b \notin Q
    <2>1. b # q
      <3>1. Parted(t, q, y, b, t.node[q].parent)
        BY <1>1, <1>7, Apart
      <3>2. QED
        BY <1>1, <3>1, RbTreeAssumption DEF Parted, LiveOf
    <2>2. b \in R => Ups(t)[b] = y
      <3>1. b \in R => b # nullptr
        BY <1>3, RbTreeAssumption DEF Reds, LiveOf
      <3>2. QED
        BY <1>11, <3>1 DEF Swings
    <2>3. b \notin R
      BY <1>1, <1>3, <2>2 DEF Roomy
    <2>4. QED
      BY <1>3, <2>1, <2>3
  <1>14. ASSUME NEW m \in LiveOf(t), NEW s \in Sides, t.node[m][s] = q
         PROVE  u.node[m][s] = y
    <2>1. w.node[m][s] = q /\ q # nullptr
      BY <1>1, <1>6, <1>14, RbTreeAssumption DEF LiveOf
    <2>2. w.node[q].parent = m /\ q # w.root /\ SideOf(w, q) = s
      BY <1>5, <1>14, <2>1, ChildIs
    <2>3. QED
      BY <1>11, <2>2 DEF RotatedAt
  <1>15. u.node[y][side] = q /\ u.node[q][side] = t.node[q][side] /\ u.node[q][Other(side)] = b
    BY <1>9, <1>11 DEF RotatedAt
  <1>16. QED
    BY <1>1, <1>3, <1>7, <1>11, <1>12, <1>13, <1>14, <1>15 DEF Leant

(* The child x of p on that side lacks a black node, and is black itself.  *)
Lacking(t, x, p, side) ==
  /\ Sound(t) /\ side \in Sides /\ p \in LiveOf(t) /\ t.node[p][side] = x
  /\ x \in LiveOf(t) \ Reds(t) /\ Roomy(t, Reds(t), {}, {})

(* The sister is black now, unless the parent is red.                      *)
Sistered(s, t, x, p, side) ==
  /\ Lacking(t, x, p, side) /\ LiveOf(t) = LiveOf(s)
  /\ t.node[p][Other(side)] \notin Reds(t) /\ (p \in Reds(t) \/ t = s)

LEMMA SisterLaws ==
  ASSUME NEW s, NEW x, NEW p, NEW side, Lacking(s, x, p, side),
         NEW w, w = s.node[p][Other(side)], w # nullptr,
         NEW t, t = Sister(s, p, side)
  PROVE  Sistered(s, t, x, p, side)
  <1>1. /\ Sound(s) /\ side \in Sides /\ p \in LiveOf(s) /\ s.node[p][side] = x
        /\ x \in LiveOf(s) \ Reds(s) /\ Roomy(s, Reds(s), {}, {})
    BY DEF Lacking
  <1>2. w \in LiveOf(s) /\ Ups(s)[w] = p
    <2>1. Other(side) \in Sides
      BY <1>1, Others
    <2>2. w \in LiveOf(s) /\ s.node[w].parent = p
      BY <1>1, <2>1, ChildIs
    <2>3. QED
      BY <2>2, UpIs
  <1>3. CASE IsRed(s, w)
    <2>1. t = Rotate(Color(Color(s, w, "BLACK"), p, "RED"), p, side)
      BY <1>3, Zenon DEF Sister
    <2>2. w \in Reds(s)
      BY <1>2, <1>3, RedIs
    <2>3. p \notin Reds(s)
      BY <1>1, <1>2, <2>2 DEF Roomy
    <2>4. Leaning(s, p, w, side)
      BY <1>1, <2>2, <2>3 DEF Leaning
    <2>5. Leant(s, t, p, w, side)
      BY <2>1, <2>4, LeaningTurns
    <2>6. /\ Sound(t) /\ LiveOf(t) = LiveOf(s) /\ Roomy(t, Reds(t), {}, {})
          /\ Reds(t) = (Reds(s) \ {w}) \cup {p}
          /\ t.node[p][side] = x /\ t.node[p][Other(side)] \notin Reds(t)
      BY <1>1, <2>5 DEF Leant
    <2>7. x # p
      <3>1. x # nullptr
        BY <1>1, RbTreeAssumption DEF LiveOf
      <3>2. s.node[x].parent = p
        BY <1>1, <3>1, ChildIs
      <3>3. QED
        BY <1>1, <3>2, NotOwnParent
    <2>8. Lacking(t, x, p, side)
      BY <1>1, <2>6, <2>7 DEF Lacking
    <2>9. QED
      BY <2>6, <2>8 DEF Sistered
  <1>4. CASE ~ IsRed(s, w)
    <2>1. t = s
      BY <1>4 DEF Sister
    <2>2. w \notin Reds(s)
      BY <1>2, <1>4, RedIs
    <2>3. QED
      BY <2>1, <2>2 DEF Sistered
  <1>5. QED
    BY <1>3, <1>4

(* The laws while a deletion is short of a black node at x: if x is black  *)
(* and not the root there is a way to go up.                               *)
Deleting(t, x, k) ==
  /\ x \in LiveOf(t) /\ Roomy(t, Reds(t), {x}, {x})
  /\ k \in Int /\ k <= Cardinality(LiveOf(t))
  /\ x \in Reds(t) \/ x = t.root \/ Climbs(t, x, k)

Evens(t, x, u) ==
  x \in Reds(t) /\ Even(t, Reds(t) \ {x}) => Even(u, Reds(u))

LEMMA DeleteSettles ==
  ASSUME NEW t, Sound(t), NEW x, NEW k, Deleting(t, x, k), NEW u, u = Color(t, x, "BLACK")
  PROVE  Sound(u) /\ Roomy(u, Reds(u), {}, {}) /\ Evens(t, x, u)
  <1>1. x \in LiveOf(t) /\ Roomy(t, Reds(t), {x}, {x})
    BY DEF Deleting
  <1>2. PICK Q : Q = Reds(t) \ {x}
    OBVIOUS
  <1>3. Painted(t, u, Q)
    <2>1. Painted(t, u, Reds(t) \ {x})
      BY <1>1, PaintedSelf, PaintBlack
    <2>2. QED
      BY <1>2, <2>1
  <1>4. Alike(t, u) /\ Sound(u) /\ Reds(u) = Q /\ Q \in SUBSET LiveOf(t)
    BY <1>2, <1>3 DEF Painted, Reds
  <1>5. Roomy(t, Q, {}, {})
    BY <1>1, <1>2 DEF Roomy
  <1>6. Roomy(u, Q, {}, {}) /\ (Even(t, Q) => Even(u, Q))
    BY <1>4, <1>5, AlikeRoomy, AlikeEven
  <1>7. QED
    BY <1>2, <1>4, <1>6 DEF Evens

LEMMA LackingIs ==
  ASSUME NEW t, Sound(t), NEW x, NEW k, Deleting(t, x, k), x # t.root, ~ IsRed(t, x),
         NEW p, p = t.node[x].parent, NEW side, side = SideOf(t, x)
  PROVE  /\ Lacking(t, x, p, side) /\ Climbs(t, p, k + 1)
         /\ k \in Int /\ k + 1 <= Cardinality(LiveOf(t))
  <1>1. /\ x \in LiveOf(t) /\ Roomy(t, Reds(t), {x}, {x}) /\ k \in Int
        /\ x \in Reds(t) \/ x = t.root \/ Climbs(t, x, k)
    BY DEF Deleting
  <1>2. x \notin Reds(t)
    BY <1>1, RedIs
  <1>3. Roomy(t, Reds(t), {}, {})
    BY <1>1, <1>2 DEF Roomy
  <1>4. p \in LiveOf(t) /\ side \in Sides /\ t.node[p][side] = x /\ p # x
    BY <1>1, LeadsTo, NotOwnParent
  <1>5. Climbs(t, x, k) /\ Ups(t)[x] = p
    BY <1>1, <1>2, UpIs
  <1>6. Climbs(t, p, k + 1) /\ k + 1 <= Cardinality(LiveOf(t))
    BY <1>1, <1>4, <1>5, ClimbsUp, ClimbTurns
  <1>7. QED
    BY <1>1, <1>2, <1>3, <1>4, <1>6 DEF Lacking

(* The sister turns red and the trouble moves up.                          *)
LEMMA DeleteGoesUp ==
  ASSUME NEW s, NEW t, NEW x, NEW p, NEW side, Sistered(s, t, x, p, side),
         NEW k \in Int, k + 1 <= Cardinality(LiveOf(s)), Climbs(s, p, k + 1),
         NEW w, w = t.node[p][Other(side)], w # nullptr,
         ~ IsRed(t, t.node[w].left), ~ IsRed(t, t.node[w].right),
         NEW u, u = Color(t, w, "RED")
  PROVE  Sound(u) /\ Deleting(u, p, k + 1)
  <1>1. /\ Sound(t) /\ side \in Sides /\ p \in LiveOf(t) /\ Roomy(t, Reds(t), {}, {})
        /\ LiveOf(t) = LiveOf(s) /\ (p \in Reds(t) \/ t = s)
    BY DEF Sistered, Lacking
  <1>2. w \in LiveOf(t) /\ t.node[w].parent = p /\ w # t.root
    <2>1. Other(side) \in Sides
      BY <1>1, Others
    <2>2. QED
      BY <1>1, <2>1, ChildIs
  <1>3. PICK Q : Q = Reds(t) \cup {w}
    OBVIOUS
  <1>4. Painted(t, u, Q)
    <2>1. Painted(t, u, Reds(t) \cup {w})
      BY <1>1, <1>2, PaintedSelf, PaintRed
    <2>2. QED
      BY <1>3, <2>1
  <1>5. Alike(t, u) /\ Sound(u) /\ Reds(u) = Q /\ LiveOf(u) = LiveOf(t) /\ Q \in SUBSET LiveOf(t)
    BY <1>3, <1>4 DEF Painted, Reds
  <1>6. ASSUME NEW n \in Reds(t) PROVE Ups(t)[n] # w
    <2> SUFFICES ASSUME Ups(t)[n] = w PROVE FALSE
      OBVIOUS
    <2>1. n \in LiveOf(t) /\ t.node[n].parent = w
      BY UpIs DEF Reds
    <2>2. n # t.root
      BY <1>1, <2>1 DEF Roomy
    <2>3. PICK o \in Sides : t.node[w][o] = n
      BY <1>1, <2>1, <2>2 DEF Sound, Up
    <2>4. IsRed(t, n)
      BY <2>1, RedIs
    <2>5. QED
      BY <2>3, <2>4 DEF Sides
  <1>7. Roomy(t, Q, {p}, {p})
    <2>1. Ups(t)[w] = p
      BY <1>2, UpIs
    <2>2. ASSUME NEW n \in Q PROVE n # t.root /\ (Ups(t)[n] \notin Q \/ Ups(t)[n] \in {p})
      <3>1. CASE n = w
        BY <1>2, <2>1, <3>1
      <3>2. CASE n \in Reds(t)
        BY <1>1, <1>3, <1>6, <3>2 DEF Roomy
      <3>3. QED
        BY <1>3, <3>1, <3>2
    <2>3. QED
      BY <2>2 DEF Roomy
  <1>8. Roomy(u, Q, {p}, {p})
    BY <1>5, <1>7, AlikeRoomy
  <1>9. p \in Reds(u) \/ Climbs(u, p, k + 1)
    <2>1. CASE p \in Reds(t)
      BY <1>3, <1>5, <2>1
    <2>2. CASE t = s
      BY <1>5, <2>2, AlikeClimbs
    <2>3. QED
      BY <1>1, <2>1, <2>2
  <1>10. k + 1 \in Int
    OBVIOUS
  <1>11. QED
    BY <1>1, <1>5, <1>8, <1>9, <1>10 DEF Deleting

(* The black sister w of a node on that side of p has a red outer child.   *)
Lending(t, p, side, w, outer) ==
  /\ Sound(t) /\ side \in Sides /\ p \in LiveOf(t) /\ w \in LiveOf(t) \ Reds(t)
  /\ t.node[p][Other(side)] = w /\ t.node[w][Other(side)] = outer /\ outer \in Reds(t)
  /\ Roomy(t, Reds(t), {}, {})

(* If the near one is red instead, it comes up first.                      *)
LEMMA NearLends ==
  ASSUME NEW t, NEW p, NEW side, NEW w, Sound(t), side \in Sides, p \in LiveOf(t),
         t.node[p][Other(side)] = w, w \in LiveOf(t) \ Reds(t), Roomy(t, Reds(t), {}, {}),
         NEW near, t.node[w][side] = near, near \in Reds(t),
         t.node[w][Other(side)] \notin Reds(t),
         NEW u, u = Rotate(Color(Color(t, near, "BLACK"), w, "RED"), w, Other(side))
  PROVE  Lending(u, p, side, near, w) /\ LiveOf(u) = LiveOf(t)
  <1>1. PICK far \in Sides : far = Other(side) /\ Other(far) = side
    BY Others
  <1>2. Leaning(t, w, near, far)
    BY <1>1 DEF Leaning
  <1>3. Leant(t, u, w, near, far)
    BY <1>1, <1>2, LeaningTurns
  <1>4. /\ Sound(u) /\ LiveOf(u) = LiveOf(t) /\ Roomy(u, Reds(u), {}, {})
        /\ Reds(u) = (Reds(t) \ {near}) \cup {w} /\ near # w
        /\ u.node[near][far] = w /\ u.node[p][far] = near
    BY <1>1, <1>3 DEF Leant
  <1>5. near \in LiveOf(u) \ Reds(u) /\ w \in Reds(u)
    BY <1>4 DEF Reds
  <1>6. QED
    BY <1>1, <1>4, <1>5 DEF Lending

(* The tree with the colours for the last rotation.                        *)
Lent(t, v, p, w, outer) ==
  /\ Painted(t, v, (Reds(t) \ {p, outer}) \cup (IF p \in Reds(t) THEN {w} ELSE {}))

LEMMA LendingPaints ==
  ASSUME NEW t, NEW p, NEW side, NEW w, NEW outer, Lending(t, p, side, w, outer),
         NEW u, u = Color(Color(t, w, t.node[p].color), p, "BLACK"), NEW v, v = Color(u, outer, "BLACK")
  PROVE  Lent(t, v, p, w, outer)
  <1>1. /\ Sound(t) /\ p \in LiveOf(t) /\ w \in LiveOf(t) /\ w \notin Reds(t)
        /\ outer \in Reds(t) /\ outer \in LiveOf(t)
    BY DEF Lending, Reds
  <1>2. w # p
    <2>1. side \in Sides /\ t.node[p][Other(side)] = w
      BY DEF Lending
    <2>2. Other(side) \in Sides /\ w # nullptr
      BY <1>1, <2>1, Others, RbTreeAssumption DEF LiveOf
    <2>3. t.node[w].parent = p
      BY <1>1, <2>1, <2>2, ChildIs
    <2>4. QED
      BY <1>1, <2>3, NotOwnParent
  <1>3. PICK a : a = Color(t, w, t.node[p].color)
    OBVIOUS
  <1>4. PICK A : A = IF p \in Reds(t) THEN Reds(t) \cup {w} ELSE Reds(t) \ {w}
    OBVIOUS
  <1>5. Painted(t, a, A)
    <2>1. CASE p \in Reds(t)
      <3>1. t.node[p].color = "RED"
        BY <2>1 DEF Reds
      <3>2. Painted(t, a, Reds(t) \cup {w})
        BY <1>1, <1>3, <3>1, PaintedSelf, PaintRed
      <3>3. QED
        BY <1>4, <2>1, <3>2
    <2>2. CASE p \notin Reds(t)
      <3>1. t.node[p].color = "BLACK"
        BY <1>1, <2>2, NodeFields DEF Reds, Sound
      <3>2. Painted(t, a, Reds(t) \ {w})
        BY <1>1, <1>3, <3>1, PaintedSelf, PaintBlack
      <3>3. QED
        BY <1>4, <2>2, <3>2
    <2>3. QED
      BY <2>1, <2>2
  <1>6. Painted(t, u, A \ {p})
    BY <1>1, <1>3, <1>5, PaintBlack
  <1>7. Painted(t, v, (A \ {p}) \ {outer})
    BY <1>1, <1>6, PaintBlack
  <1>8. (A \ {p}) \ {outer} = (Reds(t) \ {p, outer}) \cup (IF p \in Reds(t) THEN {w} ELSE {})
    <2>1. w # outer
      BY <1>1
    <2>2. QED
      BY <1>1, <1>2, <1>4, <2>1
  <1>9. QED
    BY <1>7, <1>8 DEF Lent

LEMMA LendingTurns ==
  ASSUME NEW t, NEW p, NEW side, NEW w, NEW outer, Lending(t, p, side, w, outer),
         NEW v, Lent(t, v, p, w, outer), NEW u, u = Rotate(v, p, side)
  PROVE  Sound(u) /\ LiveOf(u) = LiveOf(t) /\ Roomy(u, Reds(u), {}, {})
  <1>1. /\ Sound(t) /\ side \in Sides /\ p \in LiveOf(t) /\ w \in LiveOf(t) /\ w \notin Reds(t)
        /\ t.node[p][Other(side)] = w /\ t.node[w][Other(side)] = outer /\ outer \in Reds(t)
        /\ Roomy(t, Reds(t), {}, {}) /\ w # nullptr
    BY RbTreeAssumption DEF Lending, LiveOf
  <1>2. PICK R, Q : /\ R = Reds(t)
                    /\ Q = (R \ {p, outer}) \cup (IF p \in R THEN {w} ELSE {})
    OBVIOUS
  <1>3. SameLinks(t, v) /\ Alike(t, v) /\ Sound(v) /\ LiveOf(v) = LiveOf(t) /\ Reds(v) = Q
    BY <1>2 DEF Lent, Painted
  <1>4. PICK b : b = t.node[w][side]
    OBVIOUS
  <1>5. Other(side) \in Sides /\ \A s \in Sides : s = side \/ s = Other(side)
    BY <1>1, Others
  <1>6. v.node[p][Other(side)] = w /\ v.node[w][side] = b
    BY <1>1, <1>3, <1>4, <1>5 DEF SameLinks
  <1>7. Rotates(v, u, p, side, w, b)
    BY <1>1, <1>3, <1>6, RotateSwings
  <1>8. Swings(t, u, p, w, b) /\ Sound(u) /\ LiveOf(u) = LiveOf(t) /\ Reds(u) = Q
    BY <1>3, <1>7, AlikeSwings DEF Rotates
  <1>9. ASSUME NEW n \in R, Ups(t)[n] = w PROVE n \in {outer, b}
    <2>1. n \in LiveOf(t) /\ t.node[n].parent = w
      BY <1>2, <1>9, UpIs DEF Reds
    <2>2. n # t.root
      BY <1>1, <1>2, <2>1 DEF Roomy
    <2>3. PICK o \in Sides : t.node[w][o] = n
      BY <1>1, <2>1, <2>2 DEF Sound, Up
    <2>4. QED
      BY <1>1, <1>4, <1>5, <2>3
  <1>10. Roomy(u, Q, {}, {})
    <2>1. R \in SUBSET LiveOf(t) /\ w \notin R /\ nullptr \notin R
      BY <1>1, <1>2, RbTreeAssumption DEF Reds, LiveOf
    <2>2. Roomy(t, R, {nullptr}, {nullptr})
      BY <1>1, <1>2 DEF Roomy
    <2>3. QED
      BY <1>2, <1>8, <1>9, <2>1, <2>2, SwingsBorrow
  <1>11. QED
    BY <1>8, <1>10

LEMMA BorrowedLaws ==
  ASSUME NEW t, NEW x, NEW p, NEW side, Lacking(t, x, p, side),
         NEW w, w = t.node[p][Other(side)], w # nullptr, w \notin Reds(t),
         IsRed(t, t.node[w].left) \/ IsRed(t, t.node[w].right),
         NEW u, u = Borrowed(t, p, side)
  PROVE  Sound(u) /\ LiveOf(u) = LiveOf(t) /\ Roomy(u, Reds(u), {}, {})
  <1>1. /\ Sound(t) /\ side \in Sides /\ p \in LiveOf(t) /\ Roomy(t, Reds(t), {}, {})
    BY DEF Lacking
  <1>2. PICK far \in Sides : far = Other(side) /\ Other(far) = side
    BY <1>1, Others
  <1>3. w \in LiveOf(t) \ Reds(t) /\ t.node[p][far] = w
    BY <1>1, <1>2, ChildIs
  <1>4. PICK near : near = t.node[w][side]
    OBVIOUS
  <1>5. PICK black : black = IF near = nullptr THEN t ELSE Color(t, near, "BLACK")
    OBVIOUS
  <1>6. PICK t1 : t1 = IF IsRed(t, t.node[w][far]) THEN t ELSE Rotate(Color(black, w, "RED"), w, far)
    OBVIOUS
  <1>7. PICK w1 : w1 = t1.node[p][far]
    OBVIOUS
  <1>8. PICK outer : outer = t1.node[w1][far]
    OBVIOUS
  <1>9. PICK t2 : t2 = Color(Color(t1, w1, t1.node[p].color), p, "BLACK")
    OBVIOUS
  <1>10. PICK t3 : t3 = IF outer = nullptr THEN t2 ELSE Color(t2, outer, "BLACK")
    OBVIOUS
  <1>11. u = Rotate(t3, p, side)
    BY <1>2, <1>3, <1>4, <1>5, <1>6, <1>7, <1>8, <1>9, <1>10, ZenonT(60) DEF Borrowed
  <1>12. PICK v, o : Lending(t1, p, side, v, o) /\ LiveOf(t1) = LiveOf(t)
    <2>1. t.node[w][far] \in LiveOf(t) \cup {nullptr} /\ near \in LiveOf(t) \cup {nullptr}
      BY <1>1, <1>3, <1>4, KidIs
    <2>2. CASE IsRed(t, t.node[w][far])
      <3>1. t1 = t
        BY <1>6, <2>2
      <3>2. t.node[w][far] \in Reds(t)
        BY <2>1, <2>2, RedIs
      <3>3. Lending(t, p, side, w, t.node[w][far])
        BY <1>1, <1>2, <1>3, <3>2 DEF Lending
      <3>4. QED
        BY <3>1, <3>3
    <2>3. CASE ~ IsRed(t, t.node[w][far])
      <3>1. IsRed(t, near)
        BY <1>1, <1>2, <1>4, <2>3 DEF Sides, Other
      <3>2. near \in Reds(t) /\ near # nullptr /\ t.node[w][far] \notin Reds(t)
        BY <2>1, <2>3, <3>1, RedIs DEF IsRed
      <3>3. t1 = Rotate(Color(Color(t, near, "BLACK"), w, "RED"), w, Other(side))
        BY <1>2, <1>5, <1>6, <2>3, <3>2
      <3>4. /\ t.node[p][Other(side)] = w /\ t.node[w][side] = near
            /\ t.node[w][Other(side)] \notin Reds(t)
        BY <1>2, <1>3, <1>4, <3>2
      <3>5. Lending(t1, p, side, near, w) /\ LiveOf(t1) = LiveOf(t)
        BY <1>1, <1>3, <3>2, <3>3, <3>4, NearLends
      <3>6. QED
        BY <3>5
    <2>4. QED
      BY <2>2, <2>3
  <1>13. w1 = v /\ outer = o /\ outer # nullptr
    <2>1. t1.node[p][Other(side)] = v /\ t1.node[v][Other(side)] = o /\ o \in Reds(t1)
      BY <1>12 DEF Lending
    <2>2. QED
      BY <1>2, <1>7, <1>8, <2>1, RbTreeAssumption DEF Reds, LiveOf
  <1>14. t3 = Color(t2, o, "BLACK") /\ t2 = Color(Color(t1, v, t1.node[p].color), p, "BLACK")
    BY <1>9, <1>10, <1>13
  <1>15. Lent(t1, t3, p, v, o)
    BY <1>12, <1>14, LendingPaints
  <1>16. QED
    BY <1>11, <1>12, <1>15, LendingTurns

LEMMA DeleteBorrows ==
  ASSUME NEW s, NEW t, NEW x, NEW p, NEW side, Sistered(s, t, x, p, side),
         NEW k \in Int, k + 1 <= Cardinality(LiveOf(s)),
         NEW w, w = t.node[p][Other(side)], w # nullptr,
         IsRed(t, t.node[w].left) \/ IsRed(t, t.node[w].right),
         NEW u, u = Borrowed(t, p, side)
  PROVE  Sound(u) /\ Deleting(u, u.root, k + 1)
  <1>1. Lacking(t, x, p, side) /\ LiveOf(t) = LiveOf(s) /\ w \notin Reds(t)
    BY DEF Sistered
  <1>2. Sound(u) /\ LiveOf(u) = LiveOf(t) /\ Roomy(u, Reds(u), {}, {})
    BY <1>1, BorrowedLaws
  <1>3. u.root \in LiveOf(u)
    <2>1. p \in LiveOf(t)
      BY <1>1 DEF Lacking
    <2>2. QED
      BY <1>2, <2>1, RootLive
  <1>4. Roomy(u, Reds(u), {u.root}, {u.root}) /\ k + 1 \in Int
    BY <1>2 DEF Roomy
  <1>5. QED
    BY <1>1, <1>2, <1>3, <1>4 DEF Deleting

-----------------------------------------------------------------------------
(* The laws along the steps: what holds of a tree t while o is in progress *)
(* and sk tells whether a fix-up has been skipped.                         *)

IdleLaws(t, sk) ==
  Roomy(t, Reds(t), {}, {}) /\ (~ sk => Even(t, Reds(t)))

InsertLaws(t, z, k, sk) ==
  Inserting(t, z, k) /\ (~ sk => Even(t, Reds(t)))

DeleteLaws(t, x, k, sk) ==
  Deleting(t, x, k) /\ (~ sk => x \in Reds(t) /\ Even(t, Reds(t) \ {x}))

LawsAt(t, o, sk) ==
  /\ o = Idle => IdleLaws(t, sk)
  /\ o.kind = "insert" => InsertLaws(t, o.at, o.turns, sk)
  /\ o.kind = "delete" => DeleteLaws(t, o.at, o.turns, sk)
  /\ o.kind = "fault" => sk

(* The inductive invariant behind the theorems on the laws.                *)
Lawful == LawsAt(Tree, op, skipped)

LEMMA LawfulNext ==
  ASSUME NEW t, Tree' = t, NEW o, op' = o, NEW sk, skipped' = sk, LawsAt(t, o, sk)
  PROVE  Lawful'
  BY DEF Lawful

LEMMA IdleLawful ==
  ASSUME NEW t, NEW sk, IdleLaws(t, sk)
  PROVE  LawsAt(t, Idle, sk)
  BY DEF LawsAt, Idle

LEMMA InsertLawful ==
  ASSUME NEW t, NEW sk, NEW z, NEW k, InsertLaws(t, z, k, sk),
         NEW o, o.kind = "insert", o.at = z, o.turns = k
  PROVE  LawsAt(t, o, sk)
  BY DEF LawsAt, Idle

LEMMA DeleteLawful ==
  ASSUME NEW t, NEW sk, NEW x, NEW k, DeleteLaws(t, x, k, sk),
         NEW o, o.kind = "delete", o.at = x, o.turns = k
  PROVE  LawsAt(t, o, sk)
  BY DEF LawsAt, Idle

LEMMA FaultLawful ==
  ASSUME NEW t, NEW sk, sk
  PROVE  LawsAt(t, [kind |-> "fault"], sk)
  BY DEF LawsAt, Idle

LEMMA LawsStart == ASSUME Init PROVE Lawful
  <1>1. PICK t : t = Tree
    OBVIOUS
  <1>2. LiveOf(t) = {}
    BY <1>1, TreeStart
  <1>3. Reds(t) = {} /\ Ends(t) = {}
    BY <1>2 DEF Reds, Ends
  <1>4. Roomy(t, {}, {}, {})
    BY DEF Roomy
  <1>5. Levels(t, {}, [n \in {} |-> 0], 0)
    BY <1>2, <1>3 DEF Levels
  <1>6. IdleLaws(t, skipped)
    BY <1>3, <1>4, <1>5 DEF IdleLaws, Even
  <1>7. LawsAt(t, op, skipped)
    BY <1>6, IdleLawful DEF Init
  <1>8. QED
    BY <1>1, <1>7 DEF Lawful

LEMMA InsertLawfully ==
  ASSUME TInv, Lawful, NEW key \in Keys, rb_insert(key)
  PROVE  Lawful'
  <1>1. PICK z \in Nodes : /\ node[z] = Freed
                           /\ Become(Linked(Tree, z, key))
                           /\ op' = [kind |-> "insert", at |-> z, turns |-> 0]
    BY Zenon DEF rb_insert
  <1>2. op = Idle /\ skipped' = skipped
    BY DEF rb_insert
  <1>3. PICK t : t = Tree
    OBVIOUS
  <1>4. z \in Nodes \ LiveOf(t) /\ Sound(t)
    BY <1>1, <1>3, TreeFields DEF LiveOf, TInv
  <1>5. PICK u : u = Linked(t, z, key)
    OBVIOUS
  <1>6. Sound(u)
    BY <1>4, <1>5, LinkedGrows DEF Grown
  <1>7. Tree' = u
    BY <1>1, <1>3, <1>5, <1>6, Became DEF Sound, Typed
  <1>8. PICK y : y = Above(t, key)
    OBVIOUS
  <1>9. PICK side : side = IF key < t.node[y].key THEN "left" ELSE "right"
    OBVIOUS
  <1>10. AddedAt(t, u, z, key, y, side)
    BY <1>4, <1>5, <1>8, <1>9, LinkedAdds
  <1>11. Hangs(t, u, z, y) /\ Reds(u) = Reds(t) \cup {z}
    BY <1>4, <1>10, AddingHangs
  <1>12. IdleLaws(t, skipped)
    BY <1>2, <1>3 DEF Lawful, LawsAt
  <1>13. Reds(t) \in SUBSET LiveOf(t) /\ Roomy(t, Reds(t), {}, {})
    BY <1>12 DEF IdleLaws, Reds
  <1>14. Roomy(u, Reds(u), {z}, {})
    <2>1. Roomy(u, Reds(t) \cup {z}, {z}, {})
      BY <1>11, <1>13, HangsRoomy
    <2>2. QED
      BY <1>11, <2>1
  <1>15. ~ skipped => Even(u, Reds(u))
    <2>1. Even(t, Reds(t)) => Even(u, Reds(t) \cup {z})
      BY <1>11, <1>13, HangsEven
    <2>2. QED
      BY <1>11, <1>12, <2>1 DEF IdleLaws
  <1>16. z \in LiveOf(u) /\ z \in Reds(u)
    BY <1>11 DEF Hangs
  <1>17. Climbs(u, z, 0)
    BY <1>6, <1>16, ClimbStarts
  <1>18. 0 <= Cardinality(LiveOf(u))
    BY LiveFinite
  <1>19. InsertLaws(u, z, 0, skipped)
    BY <1>14, <1>15, <1>16, <1>17, <1>18 DEF InsertLaws, Inserting
  <1>20. PICK o : o = [kind |-> "insert", at |-> z, turns |-> 0]
    OBVIOUS
  <1>21. o.kind = "insert" /\ o.at = z /\ o.turns = 0
    BY <1>20
  <1>22. LawsAt(u, o, skipped)
    BY <1>19, <1>21, InsertLawful
  <1>23. QED
    BY <1>1, <1>2, <1>7, <1>20, <1>22, LawfulNext

(* u is t without z, whose place or y's the node x has taken.              *)
Went(t, u, y, x) ==
  /\ Gone(Reds(t), y, x, u, Reds(u))
  /\ Even(t, Reds(t)) => GoneEven(Reds(t), y, x, u, Reds(u))

LEMMA WentBlack ==
  ASSUME NEW t, NEW u, Sound(u), NEW y, NEW x, Went(t, u, y, x), x \in LiveOf(u),
         NEW sk, IdleLaws(t, sk)
  PROVE  DeleteLaws(u, x, 0, sk)
  <1>1. Roomy(u, Reds(u), {x}, {})
    BY DEF Went, Gone
  <1>2. Roomy(u, Reds(u), {x}, {x})
    BY <1>1 DEF Roomy
  <1>3. 0 <= Cardinality(LiveOf(u))
    BY LiveFinite
  <1>4. Climbs(u, x, 0)
    BY ClimbStarts
  <1>5. Deleting(u, x, 0)
    BY <1>2, <1>3, <1>4 DEF Deleting
  <1>6. x # nullptr
    BY RbTreeAssumption DEF LiveOf
  <1>7. ~ sk => x \in Reds(u) /\ Even(u, Reds(u) \ {x})
    BY <1>6 DEF Went, GoneEven, IdleLaws
  <1>8. QED
    BY <1>5, <1>7 DEF DeleteLaws

LEMMA WentSkipped ==
  ASSUME NEW t, NEW u, NEW y, Went(t, u, y, nullptr), NEW sk, sk
  PROVE  IdleLaws(u, sk)
  BY DEF Went, Gone, IdleLaws

LEMMA WentRed ==
  ASSUME NEW t, NEW u, NEW y, y \in Reds(t), NEW x, Went(t, u, y, x), NEW sk, IdleLaws(t, sk)
  PROVE  IdleLaws(u, sk)
  <1>1. Roomy(u, Reds(u), {}, {})
    BY DEF Went, Gone
  <1>2. ASSUME ~ sk PROVE Even(u, Reds(u))
    <2>1. GoneEven(Reds(t), y, x, u, Reds(u))
      BY <1>2 DEF Went, IdleLaws
    <2>2. x = nullptr /\ Even(u, Reds(u) \ {x})
      BY <2>1 DEF GoneEven
    <2>3. Reds(u) \ {x} = Reds(u)
      BY <2>2, RbTreeAssumption DEF Reds, LiveOf
    <2>4. QED
      BY <2>2, <2>3
  <1>3. QED
    BY <1>1, <1>2 DEF IdleLaws

LEMMA DeleteLawfully ==
  ASSUME TInv, TInv', Lawful, NEW key \in Keys, rb_delete(key)
  PROVE  Lawful'
  <1>1. PICK z : z = rb_search(Tree, key)
    OBVIOUS
  <1>2. PICK both, only : /\ both = (node[z].left # nullptr /\ node[z].right # nullptr)
                          /\ only = IF node[z].left = nullptr THEN node[z].right ELSE node[z].left
    OBVIOUS
  <1>3. PICK y, x, t :
          /\ y = IF both THEN rb_minimum(Tree, node[z].right) ELSE z
          /\ x = IF both THEN node[y].right ELSE only
          /\ t = IF both THEN Succeeded(Tree, z) ELSE Spliced(Tree, z, only)
    OBVIOUS
  <1>4. PICK black : black = (node[y].color = "BLACK")
    OBVIOUS
  <1>5. /\ z # nullptr /\ op = Idle
        /\ Become(FreeNode(t, z))
        /\ op' = IF black /\ x # nullptr THEN [kind |-> "delete", at |-> x, turns |-> 0] ELSE Idle
        /\ skipped' = (skipped \/ (black /\ x = nullptr))
    BY <1>1, <1>2, <1>3, <1>4, Zenon DEF rb_delete
  <1>6. PICK s : s = Tree
    OBVIOUS
  <1>7. Sound(s) /\ s.node = node
    BY <1>6, TreeFields DEF TInv
  <1>8. z \in LiveOf(s)
    BY <1>1, <1>5, <1>6, <1>7, SearchHits
  <1>9. PICK u : u = FreeNode(t, z)
    OBVIOUS
  <1>10. IdleLaws(s, skipped)
    BY <1>5, <1>6 DEF Lawful, LawsAt
  <1>11. Roomy(s, Reds(s), {}, {})
    BY <1>10 DEF IdleLaws
  <1>12. Went(s, u, y, x) /\ Shrunk(s, u, z) /\ y \in LiveOf(s)
    <2>1. CASE both
      <3>1. node[z].left # nullptr /\ node[z].right # nullptr /\ t = Succeeded(s, z)
        BY <1>2, <1>3, <1>6, <2>1
      <3>2. y = rb_minimum(s, s.node[z].right) /\ x = s.node[y].right
        BY <1>3, <1>6, <1>7, <2>1
      <3>3. s.node[z].left # nullptr /\ s.node[z].right # nullptr /\ u = FreeNode(Succeeded(s, z), z)
        BY <1>7, <1>9, <3>1
      <3>4. Shrunk(s, u, z)
        BY <1>7, <1>8, <3>3, SucceededShrinks
      <3>5. y \in LiveOf(s)
        BY <1>7, <1>8, <3>2, <3>3, MinIsBehind DEF Behind
      <3>6. Went(s, u, y, x)
        BY <1>7, <1>8, <1>11, <3>2, <3>3, SucceededLaws DEF Went
      <3>7. QED
        BY <3>4, <3>5, <3>6
    <2>2. CASE ~ both
      <3>1. t = Spliced(s, z, x) /\ x = only /\ y = z
        BY <1>3, <1>6, <2>2
      <3>2. s.node[z].left = nullptr \/ s.node[z].right = nullptr
        BY <1>2, <1>7, <2>2
      <3>3. x = IF s.node[z].left = nullptr THEN s.node[z].right ELSE s.node[z].left
        BY <1>2, <1>7, <3>1
      <3>4. x # nullptr => x \in LiveOf(s) /\ s.node[x].parent = z
        BY <1>7, <1>8, <3>3, SidesOf
      <3>5. \A o \in Sides : s.node[z][o] \in {x, nullptr}
        BY <3>2, <3>3 DEF Sides
      <3>6. u = FreeNode(Spliced(s, z, x), z)
        BY <1>9, <3>1
      <3>7. Shrunk(s, u, z)
        BY <1>7, <1>8, <3>4, <3>5, <3>6, SplicedShrinks
      <3>8. Went(s, u, z, x)
        BY <1>7, <1>8, <1>11, <3>4, <3>5, <3>6, SplicedLaws DEF Went
      <3>9. QED
        BY <1>8, <3>1, <3>7, <3>8
    <2>3. QED
      BY <2>1, <2>2
  <1>13. Tree' = u /\ Sound(u)
    BY <1>5, <1>9, <1>12, Became DEF Shrunk, Sound, Typed
  <1>14. ~ black => y \in Reds(s)
    <2>1. s.node[y].color \in {"RED", "BLACK"}
      BY <1>7, <1>12, NodeFields DEF Sound
    <2>2. QED
      BY <1>4, <1>7, <1>12, <2>1 DEF Reds
  <1>15. CASE black /\ x # nullptr
    <2>1. PICK o : o = [kind |-> "delete", at |-> x, turns |-> 0]
      OBVIOUS
    <2>2. op' = o /\ o.kind = "delete" /\ o.at = x /\ o.turns = 0
      BY <1>5, <1>15, <2>1
    <2>3. x \in LiveOf(u)
      BY <1>13, <2>2 DEF TInv, Working
    <2>4. DeleteLaws(u, x, 0, skipped)
      BY <1>10, <1>12, <1>13, <2>3, WentBlack
    <2>5. DeleteLaws(u, x, 0, skipped')
      <3>1. skipped' <=> skipped
        BY <1>5, <1>15
      <3>2. QED
        BY <2>4, <3>1 DEF DeleteLaws
    <2>6. PICK sk : sk = skipped'
      OBVIOUS
    <2>7. LawsAt(u, o, sk)
      BY <2>2, <2>5, <2>6, DeleteLawful
    <2>8. QED
      BY <1>13, <2>2, <2>6, <2>7, LawfulNext
  <1>16. ASSUME op' = Idle, NEW sk, skipped' = sk, IdleLaws(u, sk) PROVE Lawful'
    BY <1>13, <1>16, IdleLawful, LawfulNext
  <1>17. CASE black /\ x = nullptr
    <2>1. PICK sk : sk = skipped'
      OBVIOUS
    <2>2. sk /\ op' = Idle
      BY <1>5, <1>17, <2>1
    <2>3. Went(s, u, y, nullptr)
      BY <1>12, <1>17
    <2>4. IdleLaws(u, sk)
      BY <2>2, <2>3, WentSkipped
    <2>5. QED
      BY <1>16, <2>1, <2>2, <2>4
  <1>18. CASE ~ black
    <2>1. IdleLaws(u, skipped)
      BY <1>10, <1>12, <1>14, <1>18, WentRed
    <2>2. IdleLaws(u, skipped') /\ op' = Idle
      <3>1. skipped' <=> skipped
        BY <1>5, <1>18
      <3>2. QED
        BY <1>5, <1>18, <2>1, <3>1 DEF IdleLaws
    <2>3. QED
      BY <1>16, <2>2
  <1>19. QED
    BY <1>15, <1>17, <1>18

LEMMA TurnedIs ==
  ASSUME TInv, Working, NEW n, NEW o, o = Turned(n)
  PROVE  o.kind = op.kind /\ o.at = n /\ o.turns = op.turns + 1
  <1>1. PICK c \in [kind : {"insert", "delete"}, at : Nodes, turns : Int] : c = op
    BY DEF TInv, OpType, Working, Idle
  <1>2. o = [c EXCEPT !.at = n, !.turns = c.turns + 1]
    BY <1>1 DEF Turned
  <1>3. QED
    BY <1>1, <1>2

LEMMA GoesOnLawful ==
  ASSUME TInv, op.kind = "insert", Lawful, NEW u, NEW n, GoesOn(Tree, u, n, op.turns + 1),
         Tree' = u, op' = Turned(n), skipped' = skipped
  PROVE  Lawful'
  <1>1. Even(Tree, Reds(Tree)) => Even(u, Reds(u))
    BY DEF GoesOn
  <1>2. ~ skipped => Even(Tree, Reds(Tree))
    BY DEF Lawful, LawsAt, InsertLaws
  <1>3. PICK k : k = op.turns + 1
    OBVIOUS
  <1>4. InsertLaws(u, n, k, skipped)
    BY <1>1, <1>2, <1>3 DEF InsertLaws, GoesOn
  <1>5. PICK o : o = Turned(n)
    OBVIOUS
  <1>6. o.kind = "insert" /\ o.at = n /\ o.turns = k
    BY <1>3, <1>5, TurnedIs DEF Working
  <1>7. LawsAt(u, o, skipped)
    BY <1>4, <1>6, InsertLawful
  <1>8. QED
    BY <1>5, <1>7, LawfulNext

LEMMA InsertTurnsLawfully ==
  ASSUME TInv, Lawful, rb_insert_fixup
  PROVE  Lawful'
  <1>1. PICK t : t = Tree
    OBVIOUS
  <1>2. PICK z : z = op.at
    OBVIOUS
  <1>3. PICK p : p = t.node[z].parent
    OBVIOUS
  <1>4. PICK g : g = t.node[p].parent
    OBVIOUS
  <1>5. PICK side : side = SideOf(t, p)
    OBVIOUS
  <1>6. PICK y : y = t.node[g][Other(side)]
    OBVIOUS
  <1>7. PICK s : s = Straightened(t, z, side)
    OBVIOUS
  <1>8. Sound(t) /\ t.root = root /\ t.node = node
    BY <1>1, TreeFields DEF TInv
  <1>9. \/ ~ IsRed(t, p) /\ Become(Color(t, root, "BLACK")) /\ op' = Idle
        \/ IsRed(t, p) /\ g = nullptr
        \/ IsRed(t, p) /\ IsRed(t, y) /\ Become(Recolored(t, p, y, g)) /\ op' = Turned(g)
        \/ IsRed(t, p) /\ ~ IsRed(t, y) /\ Become(s.t) /\ op' = Turned(s.at)
    <2>1. IF ~ IsRed(t, p)
          THEN Become(Color(t, root, "BLACK")) /\ op' = Idle
          ELSE IF g = nullptr THEN op' = [kind |-> "fault"] /\ UNCHANGED <<root, node>>
          ELSE IF IsRed(t, y)
               THEN Become(Recolored(t, p, y, g)) /\ op' = Turned(g)
               ELSE Become(s.t) /\ op' = Turned(s.at)
      BY <1>1, <1>2, <1>3, <1>4, <1>5, <1>6, <1>7, <1>8, Zenon DEF rb_insert_fixup
    <2>2. QED
      BY <2>1
  <1>10. op.kind = "insert" /\ skipped' = skipped
    BY DEF rb_insert_fixup
  <1>11. PICK k : k = op.turns
    OBVIOUS
  <1>12. InsertLaws(t, z, k, skipped)
    BY <1>1, <1>2, <1>10, <1>11 DEF Lawful, LawsAt
  <1>13. Inserting(t, z, k) /\ (~ skipped => Even(t, Reds(t)))
    BY <1>12 DEF InsertLaws
  <1>14. Lineage(t, z, p, g, side, y)
    BY <1>3, <1>4, <1>5, <1>6 DEF Lineage
  <1>15. CASE ~ IsRed(t, p) /\ Become(Color(t, root, "BLACK")) /\ op' = Idle
    <2>1. PICK u : u = Color(t, t.root, "BLACK")
      OBVIOUS
    <2>2. Settles(t, u)
      BY <1>3, <1>8, <1>13, <1>15, <2>1, InsertSettles
    <2>3. Tree' = u
      BY <1>8, <1>15, <2>1, <2>2, Became DEF Settles, Sound, Typed
    <2>4. IdleLaws(u, skipped)
      BY <1>13, <2>2 DEF Settles, IdleLaws
    <2>5. LawsAt(u, Idle, skipped)
      BY <2>4, IdleLawful
    <2>6. QED
      BY <1>10, <1>15, <2>3, <2>5, LawfulNext
  <1>16. CASE IsRed(t, p) /\ g = nullptr
    BY <1>8, <1>13, <1>14, <1>16, RedParent DEF Grand
  <1>17. ASSUME NEW u, NEW n, GoesOn(t, u, n, k + 1), Become(u), op' = Turned(n) PROVE Lawful'
    <2>1. Tree' = u
      BY <1>17, Became DEF GoesOn, Sound, Typed
    <2>2. GoesOn(Tree, u, n, op.turns + 1)
      BY <1>1, <1>11, <1>17
    <2>3. QED
      BY <1>10, <1>17, <2>1, <2>2, GoesOnLawful
  <1>18. CASE IsRed(t, p) /\ IsRed(t, y) /\ Become(Recolored(t, p, y, g)) /\ op' = Turned(g)
    <2>1. PICK u : u = Recolored(t, p, y, g)
      OBVIOUS
    <2>2. GoesOn(t, u, g, k + 1)
      BY <1>8, <1>13, <1>14, <1>18, <2>1, InsertGoesUp
    <2>3. QED
      BY <1>17, <1>18, <2>1, <2>2
  <1>19. CASE IsRed(t, p) /\ ~ IsRed(t, y) /\ Become(s.t) /\ op' = Turned(s.at)
    <2>1. PICK u, n : u = s.t /\ n = s.at
      OBVIOUS
    <2>2. GoesOn(t, u, n, k + 1)
      BY <1>7, <1>8, <1>13, <1>14, <1>19, <2>1, InsertRests
    <2>3. QED
      BY <1>17, <1>19, <2>1, <2>2
  <1>20. QED
    BY <1>9, <1>15, <1>16, <1>18, <1>19

LEMMA DeleteTurnsLawfully ==
  ASSUME TInv, Lawful, rb_delete_fixup
  PROVE  Lawful'
  <1>1. PICK s : s = Tree
    OBVIOUS
  <1>2. PICK x : x = op.at
    OBVIOUS
  <1>3. PICK p : p = s.node[x].parent
    OBVIOUS
  <1>4. PICK side : side = SideOf(s, x)
    OBVIOUS
  <1>5. PICK t : t = Sister(s, p, side)
    OBVIOUS
  <1>6. PICK w : w = t.node[p][Other(side)]
    OBVIOUS
  <1>7. PICK b : b = Borrowed(t, p, side)
    OBVIOUS
  <1>8. Sound(s) /\ s.root = root /\ s.node = node
    BY <1>1, TreeFields DEF TInv
  <1>9. \/ Become(Color(s, x, "BLACK")) /\ op' = Idle
        \/ /\ x # s.root /\ ~ IsRed(s, x)
           /\ op' = [kind |-> "fault"] /\ UNCHANGED <<root, node>>
        \/ /\ x # s.root /\ ~ IsRed(s, x) /\ s.node[p][Other(side)] # nullptr /\ w # nullptr
           /\ \/ /\ ~ IsRed(t, t.node[w].left) /\ ~ IsRed(t, t.node[w].right)
                 /\ Become(Color(t, w, "RED")) /\ op' = Turned(p)
              \/ /\ IsRed(t, t.node[w].left) \/ IsRed(t, t.node[w].right)
                 /\ Become(b) /\ op' = Turned(b.root)
    <2>1. IF (x = root \/ IsRed(s, x)) \/ (side = "left" /\ s.node[p][Other(side)] = nullptr)
          THEN Become(Color(s, x, "BLACK")) /\ op' = Idle
          ELSE IF s.node[p][Other(side)] = nullptr \/ w = nullptr
          THEN op' = [kind |-> "fault"] /\ UNCHANGED <<root, node>>
          ELSE IF ~ IsRed(t, t.node[w].left) /\ ~ IsRed(t, t.node[w].right)
          THEN Become(Color(t, w, "RED")) /\ op' = Turned(p)
          ELSE Become(b) /\ op' = Turned(b.root)
      BY <1>1, <1>2, <1>3, <1>4, <1>5, <1>6, <1>7, <1>8, Zenon DEF rb_delete_fixup
    <2>2. QED
      BY <1>8, <2>1
  <1>10. op.kind = "delete" /\ skipped' = skipped
    BY DEF rb_delete_fixup
  <1>11. PICK k : k = op.turns
    OBVIOUS
  <1>12. DeleteLaws(s, x, k, skipped)
    BY <1>1, <1>2, <1>10, <1>11 DEF Lawful, LawsAt
  <1>13. Deleting(s, x, k) /\ (~ skipped => x \in Reds(s) /\ Even(s, Reds(s) \ {x}))
    BY <1>12 DEF DeleteLaws
  <1>14. CASE Become(Color(s, x, "BLACK")) /\ op' = Idle
    <2>1. PICK u : u = Color(s, x, "BLACK")
      OBVIOUS
    <2>2. Sound(u) /\ Roomy(u, Reds(u), {}, {}) /\ Evens(s, x, u)
      BY <1>8, <1>13, <2>1, DeleteSettles
    <2>3. Tree' = u
      BY <1>14, <2>1, <2>2, Became DEF Sound, Typed
    <2>4. IdleLaws(u, skipped)
      BY <1>13, <2>2 DEF Evens, IdleLaws
    <2>5. LawsAt(u, Idle, skipped)
      BY <2>4, IdleLawful
    <2>6. QED
      BY <1>10, <1>14, <2>3, <2>5, LawfulNext
  <1>15. ASSUME x # s.root, ~ IsRed(s, x)
         PROVE  /\ Lacking(s, x, p, side) /\ Climbs(s, p, k + 1)
                /\ k \in Int /\ k + 1 <= Cardinality(LiveOf(s))
                /\ skipped
    <2>1. /\ Lacking(s, x, p, side) /\ Climbs(s, p, k + 1)
          /\ k \in Int /\ k + 1 <= Cardinality(LiveOf(s))
      BY <1>3, <1>4, <1>8, <1>13, <1>15, LackingIs
    <2>2. x \in LiveOf(s) /\ x \notin Reds(s)
      BY <2>1 DEF Lacking
    <2>3. QED
      BY <1>13, <2>1, <2>2
  <1>16. CASE x # s.root /\ ~ IsRed(s, x) /\ op' = [kind |-> "fault"] /\ UNCHANGED <<root, node>>
    <2>1. Tree' = s /\ skipped
      BY <1>1, <1>15, <1>16 DEF Tree
    <2>2. LawsAt(s, [kind |-> "fault"], skipped)
      BY <2>1, FaultLawful
    <2>3. QED
      BY <1>10, <1>16, <2>1, <2>2, LawfulNext
  <1>17. ASSUME NEW u, NEW n, Sound(u), Deleting(u, n, k + 1), skipped, Become(u), op' = Turned(n)
         PROVE  Lawful'
    <2>1. Tree' = u
      BY <1>17, Became DEF Sound, Typed
    <2>2. PICK o, l : o = Turned(n) /\ l = k + 1
      OBVIOUS
    <2>3. o.kind = "delete" /\ o.at = n /\ o.turns = l
      BY <1>10, <1>11, <2>2, TurnedIs DEF Working
    <2>4. DeleteLaws(u, n, l, skipped)
      BY <1>17, <2>2 DEF DeleteLaws
    <2>5. LawsAt(u, o, skipped)
      BY <2>3, <2>4, DeleteLawful
    <2>6. QED
      BY <1>10, <1>17, <2>1, <2>2, <2>5, LawfulNext
  <1>18. ASSUME x # s.root, ~ IsRed(s, x), s.node[p][Other(side)] # nullptr
         PROVE  Sistered(s, t, x, p, side)
    BY <1>5, <1>15, <1>18, SisterLaws
  <1>19. CASE /\ x # s.root /\ ~ IsRed(s, x) /\ s.node[p][Other(side)] # nullptr /\ w # nullptr
              /\ ~ IsRed(t, t.node[w].left) /\ ~ IsRed(t, t.node[w].right)
              /\ Become(Color(t, w, "RED")) /\ op' = Turned(p)
    <2>1. PICK u : u = Color(t, w, "RED")
      OBVIOUS
    <2>2. Sistered(s, t, x, p, side)
      BY <1>18, <1>19
    <2>3. Sound(u) /\ Deleting(u, p, k + 1)
      BY <1>6, <1>15, <1>19, <2>1, <2>2, DeleteGoesUp
    <2>4. QED
      BY <1>15, <1>17, <1>19, <2>1, <2>3
  <1>20. CASE /\ x # s.root /\ ~ IsRed(s, x) /\ s.node[p][Other(side)] # nullptr /\ w # nullptr
              /\ IsRed(t, t.node[w].left) \/ IsRed(t, t.node[w].right)
              /\ Become(b) /\ op' = Turned(b.root)
    <2>1. Sistered(s, t, x, p, side)
      BY <1>18, <1>20
    <2>2. Sound(b) /\ Deleting(b, b.root, k + 1)
      BY <1>6, <1>7, <1>15, <1>20, <2>1, DeleteBorrows
    <2>3. QED
      BY <1>15, <1>17, <1>20, <2>2
  <1>21. QED
    BY <1>9, <1>14, <1>16, <1>19, <1>20

LEMMA LawsStep ==
  ASSUME TInv, TInv', Lawful, [Next]_vars
  PROVE  Lawful'
  <1>1. CASE UNCHANGED vars
    BY <1>1 DEF vars, Lawful, Tree
  <1>2. ASSUME NEW key \in Keys, rb_insert(key) PROVE Lawful'
    BY <1>2, InsertLawfully
  <1>3. ASSUME NEW key \in Keys, rb_delete(key) PROVE Lawful'
    BY <1>3, DeleteLawfully
  <1>4. ASSUME rb_insert_fixup PROVE Lawful'
    BY <1>4, InsertTurnsLawfully
  <1>5. ASSUME rb_delete_fixup PROVE Lawful'
    BY <1>5, DeleteTurnsLawfully
  <1>6. QED
    BY <1>1, <1>2, <1>3, <1>4, <1>5, Zenon DEF Next

-----------------------------------------------------------------------------
(* What the laws say of the way down to each node.                         *)

Under(t, m) == (CHOOSE h : BelowBody(t.node, m, h))[Size]

Over(t, n) == {m \in LiveOf(t) : n \in Under(t, m)}

LEMMA KidUp ==
  ASSUME NEW t, Sound(t), NEW p \in LiveOf(t), NEW m \in Kids(t.node, p)
  PROVE  m \in LiveOf(t) /\ t.node[m].parent = p /\ m # t.root
  <1>1. m # nullptr /\ \E s \in Sides : t.node[p][s] = m
    BY DEF Kids, Sides
  <1>2. QED
    BY <1>1, ChildIs

LEMMA UpKid ==
  ASSUME NEW t, Sound(t), NEW n \in LiveOf(t), n # t.root, NEW p, p = t.node[n].parent
  PROVE  p \in LiveOf(t) /\ n \in Kids(t.node, p)
  <1>1. PICK s \in Sides : p \in LiveOf(t) /\ t.node[p][s] = n
    BY DEF Sound, Up
  <1>2. n # nullptr
    BY RbTreeAssumption DEF LiveOf
  <1>3. QED
    BY <1>1, <1>2 DEF Kids, Sides

LEMMA UnderHull ==
  ASSUME NEW t, Sound(t), NEW m \in LiveOf(t)
  PROVE  Hull(t, m, Under(t, m))
  BY BelowIsHull DEF Under

LEMMA HullUp ==
  ASSUME NEW t, Sound(t), NEW n, NEW A, Hull(t, n, A), NEW m \in A, m # n
  PROVE  m # t.root /\ t.node[m].parent \in A
  <1>1. PICK p \in A : m \in Kids(t.node, p)
    BY DEF Hull
  <1>2. p \in LiveOf(t)
    BY DEF Hull
  <1>3. QED
    BY <1>1, <1>2, KidUp

LEMMA RootOver ==
  ASSUME NEW t, Sound(t), t.root \in LiveOf(t)
  PROVE  Over(t, t.root) = {t.root}
  <1>1. ASSUME NEW m \in LiveOf(t), t.root \in Under(t, m) PROVE m = t.root
    BY <1>1, UnderHull, HullUp
  <1>2. t.root \in Under(t, t.root)
    BY UnderHull DEF Hull
  <1>3. QED
    BY <1>1, <1>2 DEF Over

LEMMA ParentOver ==
  ASSUME NEW t, Sound(t), NEW n \in LiveOf(t), n # t.root, NEW p, p = t.node[n].parent
  PROVE  Over(t, n) = Over(t, p) \cup {n} /\ n \notin Over(t, p)
  <1>1. p \in LiveOf(t) /\ n \in Kids(t.node, p)
    BY UpKid
  <1>2. ASSUME NEW m \in LiveOf(t), n \in Under(t, m), m # n PROVE p \in Under(t, m)
    BY <1>2, UnderHull, HullUp
  <1>3. ASSUME NEW m \in LiveOf(t), p \in Under(t, m) PROVE n \in Under(t, m)
    BY <1>1, <1>3, UnderHull, HullKids
  <1>4. n \in Under(t, n)
    BY UnderHull DEF Hull
  <1>5. ASSUME n \in Over(t, p) PROVE FALSE
    <2>1. PICK A : A = Under(t, n)
      OBVIOUS
    <2>2. Hull(t, n, A) /\ p \in A /\ n \in A
      BY <1>4, <1>5, <2>1, UnderHull DEF Over
    <2>3. ASSUME NEW m \in A PROVE t.node[m].parent \in A
      BY <2>2, <2>3, HullUp
    <2>4. A \subseteq LiveOf(t)
      BY <2>2 DEF Hull
    <2>5. A = {}
      BY <2>3, <2>4, NoCycle
    <2>6. QED
      BY <2>2, <2>5
  <1>6. QED
    BY <1>2, <1>3, <1>4, <1>5 DEF Over

BlacksOver(t, R, n) == Cardinality(Over(t, n) \ R)

LEMMA RootBlacks ==
  ASSUME NEW t, Sound(t), t.root \in LiveOf(t), NEW R
  PROVE  BlacksOver(t, R, t.root) = IF t.root \in R THEN 0 ELSE 1
  <1>1. Over(t, t.root) = {t.root}
    BY RootOver
  <1>2. CASE t.root \in R
    <2>1. Over(t, t.root) \ R = {}
      BY <1>1, <1>2
    <2>2. QED
      BY <1>2, <2>1, FS_EmptySet DEF BlacksOver
  <1>3. CASE t.root \notin R
    <2>1. Over(t, t.root) \ R = {t.root}
      BY <1>1, <1>3
    <2>2. QED
      BY <1>3, <2>1, FS_Singleton DEF BlacksOver
  <1>4. QED
    BY <1>2, <1>3

LEMMA ParentBlacks ==
  ASSUME NEW t, Sound(t), NEW n \in LiveOf(t), n # t.root, NEW p, p = t.node[n].parent, NEW R
  PROVE  BlacksOver(t, R, n) = BlacksOver(t, R, p) + (IF n \in R THEN 0 ELSE 1)
  <1>1. Over(t, n) = Over(t, p) \cup {n} /\ n \notin Over(t, p)
    BY ParentOver
  <1>2. PICK A, B : A = Over(t, p) \ R /\ B = Over(t, n) \ R
    OBVIOUS
  <1>3. IsFiniteSet(A) /\ Cardinality(A) \in Nat
    <2>1. A \in SUBSET LiveOf(t)
      BY <1>2 DEF Over
    <2>2. QED
      BY <2>1, LiveFinite
  <1>4. CASE n \in R
    <2>1. A = B
      BY <1>1, <1>2, <1>4
    <2>2. BlacksOver(t, R, n) = Cardinality(A) /\ BlacksOver(t, R, p) = Cardinality(A)
      BY <1>2, <2>1 DEF BlacksOver
    <2>3. QED
      BY <1>3, <1>4, <2>2
  <1>5. CASE n \notin R
    <2>1. B = A \cup {n} /\ n \notin A
      BY <1>1, <1>2, <1>5
    <2>2. Cardinality(B) = Cardinality(A) + 1
      BY <1>3, <2>1, FS_AddElement
    <2>3. QED
      BY <1>2, <1>5, <2>2 DEF BlacksOver
  <1>6. QED
    BY <1>4, <1>5

(* The heights of Levels count the black nodes above and at each node.     *)
LEMMA LevelsCount ==
  ASSUME NEW t, Sound(t), NEW R, NEW h, NEW H, Levels(t, R, h, H)
  PROVE  \A n \in LiveOf(t) : BlacksOver(t, R, n) = h[n]
  <1>1. PICK S : S = {n \in LiveOf(t) : BlacksOver(t, R, n) # h[n]}
    OBVIOUS
  <1>2. /\ h \in [LiveOf(t) -> Int]
        /\ \A n \in LiveOf(t) :
             h[n] = (IF n = t.root THEN 0 ELSE h[Ups(t)[n]]) + (IF n \in R THEN 0 ELSE 1)
    BY DEF Levels
  <1>3. ASSUME NEW n \in S PROVE t.node[n].parent \in S
    <2>1. n \in LiveOf(t) /\ BlacksOver(t, R, n) # h[n]
      BY <1>1
    <2>2. n # t.root
      <3>1. CASE n = t.root
        <4>1. h[n] = IF n \in R THEN 0 ELSE 1
          BY <1>2, <2>1, <3>1
        <4>2. QED
          BY <2>1, <3>1, <4>1, RootBlacks
      <3>2. QED
        BY <3>1
    <2>3. PICK p : p = t.node[n].parent
      OBVIOUS
    <2>4. p \in LiveOf(t) /\ Ups(t)[n] = p
      BY <2>1, <2>2, <2>3, UpKid, UpIs
    <2>5. h[n] = h[p] + (IF n \in R THEN 0 ELSE 1)
      BY <1>2, <2>1, <2>2, <2>4
    <2>6. BlacksOver(t, R, n) = BlacksOver(t, R, p) + (IF n \in R THEN 0 ELSE 1)
      BY <2>1, <2>2, <2>3, ParentBlacks
    <2>7. BlacksOver(t, R, p) # h[p]
      BY <2>1, <2>5, <2>6
    <2>8. QED
      BY <1>1, <2>3, <2>4, <2>7
  <1>4. S = {}
    BY <1>1, <1>3, NoCycle
  <1>5. QED
    BY <1>1, <1>4

LEMMA EvenHeights ==
  ASSUME TInv, Even(Tree, Reds(Tree))
  PROVE  HeightsEqual
  <1>1. PICK t : t = Tree
    OBVIOUS
  <1>2. Sound(t) /\ t.node = node /\ LiveOf(t) = Live
    BY <1>1, TreeFields DEF TInv, LiveOf, Live
  <1>3. PICK h, H : Levels(t, Reds(t), h, H)
    BY <1>1 DEF Even
  <1>4. ASSUME NEW n PROVE Ancestors(n) = Over(t, n)
    <2>1. \A m : Below(m) = Under(t, m)
      BY <1>2, BelowIs DEF Under
    <2>2. QED
      BY <1>2, <2>1 DEF Ancestors, Over
  <1>5. ASSUME NEW n PROVE BlacksAbove(n) = BlacksOver(t, Reds(t), n)
    <2>1. \A m \in Ancestors(n) : IsRed(Tree, m) <=> m \in Reds(t)
      BY <1>1, <1>2, RedIs DEF Ancestors
    <2>2. {m \in Ancestors(n) : ~ IsRed(Tree, m)} = Over(t, n) \ Reds(t)
      BY <1>4, <2>1
    <2>3. QED
      BY <2>2 DEF BlacksAbove, BlacksOver
  <1>6. ASSUME NEW n \in Live, nullptr \in {node[n].left, node[n].right}
        PROVE  BlacksAbove(n) = H
    <2>1. n \in Ends(t)
      BY <1>2, <1>6 DEF Ends, Sides
    <2>2. h[n] = H
      BY <1>3, <2>1 DEF Levels
    <2>3. BlacksOver(t, Reds(t), n) = h[n]
      BY <1>2, <1>3, <1>6, LevelsCount
    <2>4. QED
      BY <1>5, <2>2, <2>3
  <1>7. QED
    BY <1>6, Zenon DEF HeightsEqual

LEMMA RoomyApart ==
  ASSUME TInv, Roomy(Tree, Reds(Tree), {}, {})
  PROVE  RedsApart
  <1>1. PICK t : t = Tree
    OBVIOUS
  <1>2. Sound(t) /\ t.root = root /\ t.node = node /\ LiveOf(t) = Live
    BY <1>1, TreeFields DEF TInv, LiveOf, Live
  <1>3. ASSUME NEW n \in Live, IsRed(Tree, n)
        PROVE  n # root /\ \A c \in Children(n) : ~ IsRed(Tree, c)
    <2>1. n \in Reds(t)
      BY <1>1, <1>2, <1>3, RedIs
    <2>2. n # root
      BY <1>1, <1>2, <2>1 DEF Roomy
    <2>3. ASSUME NEW c \in Children(n), IsRed(Tree, c) PROVE FALSE
      <3>1. c \in Kids(t.node, n)
        BY <1>2 DEF Children, Kids
      <3>2. c \in LiveOf(t) /\ t.node[c].parent = n
        BY <1>2, <3>1, KidUp
      <3>3. c \in Reds(t) /\ Ups(t)[c] = n
        BY <1>1, <2>3, <3>2, RedIs, UpIs
      <3>4. QED
        BY <1>1, <2>1, <3>3 DEF Roomy
    <2>4. QED
      BY <2>2, <2>3
  <1>4. QED
    BY <1>3 DEF RedsApart

LEMMA LawfulRedBlack == ASSUME TInv, Lawful PROVE RedBlack
  <1>1. op = Idle => IdleLaws(Tree, skipped)
    BY DEF Lawful, LawsAt
  <1>2. QED
    BY <1>1, RoomyApart, EvenHeights DEF RedBlack, IdleLaws

LEMMA LawfulEnds == ASSUME TInv, Lawful PROVE FixupEnds
  <1>1. LiveOf(Tree) = Live
    BY TreeFields DEF LiveOf, Live
  <1>2. op.kind = "insert" => op.turns <= Cardinality(LiveOf(Tree))
    BY DEF Lawful, LawsAt, InsertLaws, Inserting
  <1>3. op.kind = "delete" => op.turns <= Cardinality(LiveOf(Tree))
    BY DEF Lawful, LawsAt, DeleteLaws, Deleting
  <1>4. op.kind = "fault" => skipped
    BY DEF Lawful, LawsAt
  <1>5. QED
    BY <1>1, <1>2, <1>3, <1>4 DEF FixupEnds

(* When a call is done no red node has a red child and the root is black,  *)
(* in every tree the calls can make; and every way down meets as many      *)
(* black nodes until a deletion has skipped the fix-up (RedBlack): what    *)
(* the rotations and colours of rb_insert_fixup and rb_delete_fixup are    *)
(* for, and what rb_delete loses when it moves up nothing.                 *)
THEOREM RedBlackKept == Spec => []RedBlack
  <1>1. Init => TInv /\ Lawful
    BY TreeStart, LawsStart
  <1>2. TInv /\ Lawful /\ [Next]_vars => TInv' /\ Lawful'
    BY TreeStep, LawsStep
  <1>3. TInv /\ Lawful => RedBlack
    BY LawfulRedBlack
  <1>4. QED
    BY <1>1, <1>2, <1>3, PTL DEF Spec

(* The loop of a fix-up never turns more often than there are nodes, in    *)
(* trees too whose heights differ, and rb_insert_fixup never looks for the *)
(* sister of a parent that is the root: only rb_delete_fixup does follow a *)
(* null pointer, after a deletion that skipped it (FixupEnds).             *)
THEOREM FixupsEnd == Spec => []FixupEnds
  <1>1. Init => TInv /\ Lawful
    BY TreeStart, LawsStart
  <1>2. TInv /\ Lawful /\ [Next]_vars => TInv' /\ Lawful'
    BY TreeStep, LawsStep
  <1>3. TInv /\ Lawful => FixupEnds
    BY LawfulEnds
  <1>4. QED
    BY <1>1, <1>2, <1>3, PTL DEF Spec

=============================================================================
