-------------------------------- MODULE RbTree --------------------------------
(***************************************************************************)
(* The red-black tree (kernel/src/rbtree.c): nodes of the heap linked by   *)
(* left, right and parent, insertion and deletion with their rotations.    *)
(*                                                                         *)
(* A call first links or unlinks its node, and then each turn of the loop  *)
(* of its fix-up is a step.  The code spells every case out for the left   *)
(* and for the right; here a side is a parameter, and where the two differ *)
(* the side says so.  There is one caller.                                 *)
(***************************************************************************)
EXTENDS Integers, FiniteSets

CONSTANTS
  Keys,
  Nodes,    \* the memory of nodes
  nullptr

ASSUME RbTreeAssumption ==
  /\ Keys \subseteq Int /\ nullptr \notin Nodes /\ IsFiniteSet(Nodes)

VARIABLES
  root,     \* tree->root
  node,     \* the contents of each node
  op,       \* the fix-up in progress: the node it is at, the turns of its loop
  skipped   \* history: has a black node gone without a fix-up?

vars == <<root, node, op, skipped>>

Idle == [kind |-> "idle"]

Freed == [color |-> "none"]

Init ==
  /\ root = nullptr
  /\ node = [n \in Nodes |-> Freed]
  /\ op = Idle
  /\ skipped = FALSE

-----------------------------------------------------------------------------
(* Trees: a tree t is a record of root and node.                           *)

Tree == [root |-> root, node |-> node]

Become(t) == root' = t.root /\ node' = t.node

Other(side) == IF side = "left" THEN "right" ELSE "left"

IsRed(t, n) == n # nullptr /\ t.node[n].color = "RED"

Color(t, n, color) == [t EXCEPT !.node[n].color = color]

SetParent(t, n, p) == IF n = nullptr THEN t ELSE [t EXCEPT !.node[n].parent = p]

(* The loop goes on at n.                                                  *)
Turned(n) == [op EXCEPT !.at = n, !.turns = @ + 1]

SideOf(t, n) == IF t.node[t.node[n].parent].left = n THEN "left" ELSE "right"

(* What led to n leads to m.                                               *)
Replace(t, n, m) ==
  LET p == t.node[n].parent
  IN IF p = nullptr THEN [t EXCEPT !.root = m] ELSE [t EXCEPT !.node[p][SideOf(t, n)] = m]

(* x goes below y and takes its inner subtree, and y goes below p.         *)
Swung(t, x, y, side, inner, p) ==
  [t EXCEPT !.node[x] = [@ EXCEPT ![Other(side)] = inner, !.parent = y],
            !.node[y] = [@ EXCEPT ![side] = x, !.parent = p]]

(* Mutant: the inner subtree keeps its old parent.                         *)
Rotate_Orphan(t, x, side) ==
  LET y == t.node[x][Other(side)]
  IN Swung(Replace(t, x, y), x, y, side, t.node[y][side], t.node[x].parent)

(* rb_rotate_left() for side "left", rb_rotate_right() for "right".        *)
Rotate(t, x, side) ==
  LET y == t.node[x][Other(side)]
      inner == t.node[y][side]
  IN Swung(SetParent(Replace(t, x, y), inner, x), x, y, side, inner, t.node[x].parent)

(* The node that k turns down a search lead to.                            *)
Descent(t, Step(_)) ==
  LET at[k \in 0 .. Cardinality(Nodes)] ==
        IF k = 0 THEN t.root
        ELSE IF at[k - 1] = nullptr THEN nullptr ELSE Step(at[k - 1])
  IN at

(* Mutant: the search turns the wrong way.                                 *)
rb_search_Mirrored(t, key) ==
  LET Step(n) == IF t.node[n].key = key THEN n
                 ELSE IF key < t.node[n].key THEN t.node[n].right ELSE t.node[n].left
  IN Descent(t, Step)[Cardinality(Nodes)]

rb_search(t, key) ==
  LET Step(n) == IF t.node[n].key = key THEN n
                 ELSE IF key < t.node[n].key THEN t.node[n].left ELSE t.node[n].right
  IN Descent(t, Step)[Cardinality(Nodes)]

(* The last node on the way of a new key down.                             *)
Above(t, key) ==
  LET Step(n) == IF key < t.node[n].key THEN t.node[n].left ELSE t.node[n].right
      way == Descent(t, Step)
  IN IF t.root = nullptr THEN nullptr
     ELSE way[CHOOSE k \in DOMAIN way :
                way[k] # nullptr /\ (k + 1 \in DOMAIN way => way[k + 1] = nullptr)]

rb_minimum(t, n) ==
  LET at[k \in 0 .. Cardinality(Nodes)] ==
        IF k = 0 THEN n
        ELSE IF t.node[at[k - 1]].left = nullptr THEN at[k - 1] ELSE t.node[at[k - 1]].left
  IN at[Cardinality(Nodes)]

-----------------------------------------------------------------------------
(* rb_insert                                                               *)

Linked(t, z, key) ==
  LET y == Above(t, key)
      new == [color |-> "RED", key |-> key, left |-> nullptr, right |-> nullptr, parent |-> y]
      with == [t EXCEPT !.node[z] = new]
  IN IF y = nullptr THEN [with EXCEPT !.root = z]
     ELSE [with EXCEPT !.node[y][IF key < t.node[y].key THEN "left" ELSE "right"] = z]

rb_insert(key) ==
  /\ op = Idle
  /\ \E z \in Nodes :
       /\ node[z] = Freed
       /\ Become(Linked(Tree, z, key))
       /\ op' = [kind |-> "insert", at |-> z, turns |-> 0]
  /\ UNCHANGED skipped

(* Mutant: the grandparent stays black.                                    *)
Recolored_Black(t, p, y, g) == Color(Color(t, p, "BLACK"), y, "BLACK")

(* A red parent has a red sister: both turn black and the trouble moves up.*)
Recolored(t, p, y, g) == Color(Color(Color(t, p, "BLACK"), y, "BLACK"), g, "RED")

(* Mutant: an inner child is not turned out first.                         *)
Straightened_Once(t, z, side) ==
  LET p == t.node[z].parent
      g == t.node[p].parent
  IN [at |-> z, t |-> Rotate(Color(Color(t, p, "BLACK"), g, "RED"), g, Other(side))]

(* Otherwise a rotation ends it, behind another one if z is an inner child.*)
Straightened(t, z, side) ==
  LET p == t.node[z].parent
      inner == z = t.node[p][Other(side)]
      t1 == IF inner THEN Rotate(t, p, side) ELSE t
      z1 == IF inner THEN p ELSE z
      p1 == t1.node[z1].parent
      g1 == t1.node[p1].parent
  IN [at |-> z1, t |-> Rotate(Color(Color(t1, p1, "BLACK"), g1, "RED"), g1, Other(side))]

rb_insert_fixup ==
  /\ op.kind = "insert"
  /\ LET z == op.at
         p == node[z].parent
         g == node[p].parent
         side == SideOf(Tree, p)
         y == node[g][Other(side)]
         s == Straightened(Tree, z, side)
     IN IF ~ IsRed(Tree, p)
        THEN Become(Color(Tree, root, "BLACK")) /\ op' = Idle
        ELSE IF g = nullptr THEN op' = [kind |-> "fault"] /\ UNCHANGED <<root, node>>
        ELSE IF IsRed(Tree, y)
             THEN Become(Recolored(Tree, p, y, g)) /\ op' = Turned(g)
             ELSE Become(s.t) /\ op' = Turned(s.at)
  /\ UNCHANGED skipped

-----------------------------------------------------------------------------
(* rb_delete                                                               *)

(* z with at most one child: the child takes its place.                    *)
Spliced(t, z, x) == SetParent(Replace(t, z, x), x, t.node[z].parent)

(* Mutant: a successor from further down does not take the right subtree.  *)
Succeeded_Bare(t, z) ==
  LET y == rb_minimum(t, t.node[z].right)
      t1 == SetParent(Replace(Spliced(t, y, t.node[y].right), z, y), t.node[z].left, y)
  IN [t1 EXCEPT !.node[y] = [@ EXCEPT !.parent = t.node[z].parent, !.left = t.node[z].left,
                                      !.color = t.node[z].color]]

(* z with two: the least node y behind it moves to its place.              *)
Succeeded(t, z) ==
  LET y == rb_minimum(t, t.node[z].right)
      x == t.node[y].right
      near == t.node[y].parent = z
      t1 == IF near THEN t
            ELSE SetParent([t EXCEPT !.node[t.node[y].parent].left = x], x, t.node[y].parent)
      t2 == SetParent(SetParent(Replace(t1, z, y), t.node[z].left, y),
                      IF near THEN nullptr ELSE t.node[z].right, y)
  IN [t2 EXCEPT !.node[y] = [@ EXCEPT !.parent = t.node[z].parent, !.left = t.node[z].left,
                                      !.right = IF near THEN x ELSE t.node[z].right,
                                      !.color = t.node[z].color]]

FreeNode(t, z) == [t EXCEPT !.node[z] = Freed]

(* The fix-up only runs when the node that moved up is there.              *)
rb_delete(key) ==
  LET z == rb_search(Tree, key)
      both == node[z].left # nullptr /\ node[z].right # nullptr
      only == IF node[z].left = nullptr THEN node[z].right ELSE node[z].left
      y == IF both THEN rb_minimum(Tree, node[z].right) ELSE z
      x == IF both THEN node[y].right ELSE only
      black == node[y].color = "BLACK"
      t == IF both THEN Succeeded(Tree, z) ELSE Spliced(Tree, z, only)
  IN /\ op = Idle
     /\ z # nullptr
     /\ Become(FreeNode(t, z))
     /\ op' = IF black /\ x # nullptr THEN [kind |-> "delete", at |-> x, turns |-> 0]
              ELSE Idle
     /\ skipped' = (skipped \/ (black /\ x = nullptr))

(* The sister w of x after a red one has been rotated away.                *)
Sister(t, p, side) ==
  LET w == t.node[p][Other(side)]
  IN IF IsRed(t, w) THEN Rotate(Color(Color(t, w, "BLACK"), p, "RED"), p, side) ELSE t

(* One black more on the side of x, from a red child of its sister w.      *)
Borrowed(t, p, side) ==
  LET far == Other(side)
      w == t.node[p][far]
      near == t.node[w][side]
      t1 == IF IsRed(t, t.node[w][far]) THEN t
            ELSE LET black == IF near = nullptr THEN t ELSE Color(t, near, "BLACK")
                 IN Rotate(Color(black, w, "RED"), w, far)
      w1 == t1.node[p][far]
      outer == t1.node[w1][far]
      t2 == Color(Color(t1, w1, t1.node[p].color), p, "BLACK")
      t3 == IF outer = nullptr THEN t2 ELSE Color(t2, outer, "BLACK")
  IN Rotate(t3, p, side)

(* One turn of the loop, which x = tree->root ends, or its end.            *)
rb_delete_fixup ==
  /\ op.kind = "delete"
  /\ LET x == op.at
         p == node[x].parent
         side == SideOf(Tree, x)
         none == node[p][Other(side)] = nullptr
         t == Sister(Tree, p, side)
         w == t.node[p][Other(side)]
         ends == x = root \/ IsRed(Tree, x)
         b == Borrowed(t, p, side)
     IN IF ends \/ (side = "left" /\ none)
        THEN Become(Color(Tree, x, "BLACK")) /\ op' = Idle
        ELSE IF none \/ w = nullptr
        THEN op' = [kind |-> "fault"] /\ UNCHANGED <<root, node>>
        ELSE IF ~ IsRed(t, t.node[w].left) /\ ~ IsRed(t, t.node[w].right)
        THEN Become(Color(t, w, "RED")) /\ op' = Turned(p)
        ELSE Become(b) /\ op' = Turned(b.root)
  /\ UNCHANGED skipped

-----------------------------------------------------------------------------
Next ==
  \/ \E key \in Keys : rb_insert(key) \/ rb_delete(key)
  \/ rb_insert_fixup
  \/ rb_delete_fixup

Spec == Init /\ [][Next]_vars

-----------------------------------------------------------------------------
(* Properties.                                                             *)

Live == {n \in Nodes : node[n] # Freed}

Children(n) == {node[n].left, node[n].right} \ {nullptr}

(* What is linked below n.                                                 *)
Below(n) ==
  LET known[k \in 0 .. Cardinality(Nodes)] ==
        IF k = 0 THEN {n} \ {nullptr}
        ELSE known[k - 1] \cup UNION {Children(m) : m \in known[k - 1]}
  IN known[Cardinality(Nodes)]

(* The links always form one tree of exactly the allocated nodes, parents  *)
(* agreeing with children, between the turns of a fix-up too.              *)
LinksSound ==
  /\ Below(root) = Live
  /\ root # nullptr => node[root].parent = nullptr
  /\ \A n \in Live :
       /\ \A c \in Children(n) : node[c].parent = n
       /\ node[n].left # nullptr => node[n].left # node[n].right
  /\ op.kind \in {"insert", "delete"} => op.at \in Live

(* rb_search: every key that was inserted is found, and nothing else is,   *)
(* through every rotation and with equal keys on either side of a node.    *)
SearchFinds ==
  \A key \in Keys :
    LET n == rb_search(Tree, key)
    IN IF \E m \in Live : node[m].key = key THEN n \in Live /\ node[n].key = key
       ELSE n = nullptr

RedsApart == \A n \in Live : IsRed(Tree, n) => n # root /\ \A c \in Children(n) : ~ IsRed(Tree, c)

Ancestors(n) == {m \in Live : n \in Below(m)}

BlacksAbove(n) == Cardinality({m \in Ancestors(n) : ~ IsRed(Tree, m)})

HeightsEqual ==
  LET ends == {n \in Live : nullptr \in {node[n].left, node[n].right}}
  IN \A n, m \in ends : BlacksAbove(n) = BlacksAbove(m)

(* When a call is done no red node has a red child and the root is black,  *)
(* in a tree whose heights differ too; and every way down meets as many    *)
(* black nodes, what keeps searches short, until a deletion has skipped    *)
(* the fix-up.                                                             *)
RedBlack == op = Idle => RedsApart /\ (~ skipped => HeightsEqual)

(* A fix-up ends: its loop never turns more often than there are nodes,    *)
(* though the trees it meets after a skipped one are none it is made for;  *)
(* and it follows a null pointer in no other tree.                         *)
FixupEnds ==
  /\ op.kind \in {"insert", "delete"} => op.turns <= Cardinality(Live)
  /\ op.kind = "fault" => skipped

Bag == INSTANCE KeyBag WITH
  count <- [k \in Keys |-> Cardinality({n \in Below(root) : node[n].key = k})]

(* The tree implements a bag of keys: a call inserts or deletes its one    *)
(* key, and no turn of a fix-up loses or doubles any.                      *)
ImplementsBag == Bag!Spec
=============================================================================
