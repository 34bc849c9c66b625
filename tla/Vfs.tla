--------------------------------- MODULE Vfs ---------------------------------
(***************************************************************************)
(* The virtual file system and its RAM file system (kernel/src/proc/       *)
(* vfs.c): nodes linked into a tree by parent, first child and next        *)
(* sibling, paths looked up name by name, file data in a heap buffer, and  *)
(* other trees mounted on folders.                                         *)
(*                                                                         *)
(* A path is the sequence of its names.  Calls that return an error change *)
(* nothing and are no steps.  The VFS is called by one task at a time, so  *)
(* each call is one step.                                                  *)
(*                                                                         *)
(* Two calls that vfs.c accepts leave links that are no tree: removing a   *)
(* folder that something is mounted on or below, and mounting a tree that  *)
(* is mounted already or kept a next node from its last mount.  They are   *)
(* steps, the last ones: what a call does with such links (a list without  *)
(* an end, freed memory) is outside the model.                             *)
(***************************************************************************)
EXTENDS Integers, Sequences, FiniteSets, FiniteSetsExt, SequencesExt

CONSTANTS
  Nodes,     \* the memory of nodes
  Root,      \* g_Vfs->root
  FsRoot,    \* the root of the other tree that is mounted
  NoNode,    \* nullptr
  Names,     \* the names that occur in paths
  Bytes,     \* what is written to files
  MaxDepth,  \* bound: the names in a path
  MaxSize,   \* bound: the bytes of a file
  NoName     \* the empty name, which no path can spell

ASSUME VfsAssumption ==
  /\ IsFiniteSet(Nodes)
  /\ {Root, FsRoot} \subseteq Nodes /\ Root # FsRoot
  /\ NoNode \notin Nodes
  /\ NoName \notin Names
  /\ MaxDepth \in Nat /\ MaxSize \in Nat
  /\ 0 \notin Bytes /\ -1 \notin Bytes

VARIABLES
  node,      \* the contents of each node; type "none" is freed memory
  g_mounts,  \* the list of mounts, newest first
  broken     \* history: a call has left links that are no tree

vars == <<node, g_mounts, broken>>

Paths == BoundedSeq(Names, MaxDepth)

(* What freed memory holds after the memset of vfs_remove_node.            *)
Freed == [type |-> "none", name |-> NoName, parent |-> NoNode, children |-> NoNode,
          next |-> NoNode, size |-> 0, has |-> FALSE, data |-> <<>>]

(* vfs_create_node(); has says whether data is a buffer or nullptr.        *)
vfs_create_node(name, type, parent) ==
  [Freed EXCEPT !.type = type, !.name = name, !.parent = parent]

(* vfs_initialize(), and another tree that holds one folder, to mount.     *)
Init ==
  /\ \E inner \in Nodes \ {Root, FsRoot}, name \in Names :
       node = [n \in Nodes |->
                CASE n = Root -> vfs_create_node(NoName, "folder", NoNode)
                  [] n = FsRoot -> [vfs_create_node(NoName, "folder", NoNode)
                                     EXCEPT !.children = inner]
                  [] n = inner -> vfs_create_node(name, "folder", FsRoot)
                  [] OTHER -> Freed]
  /\ g_mounts = <<>>
  /\ broken = FALSE

-----------------------------------------------------------------------------
(* Lists of siblings in the memory f.                                      *)

(* The nodes met from first on along next, once around a circular list.    *)
List(f, first) ==
  LET walk[k \in 0 .. Cardinality(Nodes)] ==
        IF k = 0 THEN IF first = NoNode THEN <<>> ELSE <<first>>
        ELSE LET met == walk[k - 1]
                 next == IF met = <<>> THEN NoNode ELSE f[Last(met)].next
             IN IF next = NoNode THEN met ELSE Append(met, next)
  IN walk[Cardinality(Nodes)]

Children(f, p) == List(f, f[p].children)

(* The node itself and all that is linked below it.                        *)
Subtree(f, n) ==
  LET below[k \in 0 .. Cardinality(Nodes)] ==
        IF k = 0 THEN {n}
        ELSE LET known == below[k - 1]
             IN known \cup UNION {Range(Children(f, m)) : m \in known}
  IN below[Cardinality(Nodes)]

(* Mutant: new nodes come first.                                           *)
vfs_insert_node_First(f, parent, n) ==
  [f EXCEPT ![n].next = f[parent].children, ![parent].children = n]

(* The new node goes to the end of its parent's list.                      *)
vfs_insert_node(f, parent, n) ==
  IF f[parent].children = NoNode THEN [f EXCEPT ![parent].children = n]
  ELSE [f EXCEPT ![Last(Children(f, parent))].next = n]

(* Mutant: the first child is not treated apart.                           *)
Unlinked_NotFirst(f, parent, n) ==
  LET before == {m \in Range(Children(f, parent)) : f[m].next = n}
  IN IF before = {} THEN f
     ELSE [f EXCEPT ![CHOOSE m \in before : TRUE].next = f[n].next]

Unlinked(f, parent, n) ==
  LET before == {m \in Range(Children(f, parent)) : f[m].next = n}
  IN IF f[parent].children = n THEN [f EXCEPT ![parent].children = f[n].next]
     ELSE IF before = {} THEN f
     ELSE [f EXCEPT ![CHOOSE m \in before : TRUE].next = f[n].next]

-----------------------------------------------------------------------------
(* Paths.                                                                  *)

vfs_search_node(f, parent, name) ==
  LET s == Children(f, parent)
      hits == {k \in DOMAIN s : f[s[k]].name = name}
  IN IF hits = {} THEN NoNode ELSE s[Min(hits)]

(* A folder something is mounted on stands for the newest mounted root.    *)
Through(mounts, n) ==
  LET hits == {k \in DOMAIN mounts : mounts[k].mount_point = n}
  IN IF hits = {} THEN n ELSE mounts[Min(hits)].mounted_root

(* The last name is not followed through a mount.                          *)
vfs_traverse_path(f, mounts, path) ==
  LET at[k \in 0 .. Len(path)] ==
        IF k = 0 THEN Root
        ELSE LET current == at[k - 1]
             IN IF current = NoNode THEN NoNode
                ELSE vfs_search_node(f, Through(mounts, current), path[k])
  IN at[Len(path)]

Lookup(path) == vfs_traverse_path(node, g_mounts, path)

Live == {n \in Nodes : node[n].type # "none"}

IsFolder(n) == n # NoNode /\ node[n].type = "folder"

(* The folder of a path, and the last name of it.  The path "/" is split   *)
(* into itself and an empty name.                                          *)
Parent(f, mounts, path) ==
  vfs_traverse_path(f, mounts, IF path = <<>> THEN <<>> ELSE Front(path))

NameOf(path) == IF path = <<>> THEN NoName ELSE Last(path)

Created(f, mounts, path, type, n) ==
  LET parent == Parent(f, mounts, path)
  IN vfs_insert_node([f EXCEPT ![n] = vfs_create_node(NameOf(path), type, parent)], parent, n)

(* create().  Nobody checks whether the name is there already.             *)
create(path, type) ==
  /\ ~ broken
  /\ IsFolder(Parent(node, g_mounts, path))
  /\ \E n \in Nodes \ Live : node' = Created(node, g_mounts, path, type, n)
  /\ UNCHANGED <<g_mounts, broken>>

HoldsMount(removed) == \E k \in DOMAIN g_mounts : g_mounts[k].mount_point \in removed

(* remove_p(), or remove() on the handle that open() gives, with           *)
(* ramfs_remove and vfs_remove_node, which frees all that is below the     *)
(* node too.  Nobody checks whether something is mounted there: the list   *)
(* of mounts keeps the pointer.                                            *)
remove_p(path) ==
  LET n == Lookup(path)
      removed == Subtree(node, n)
      unlinked == Unlinked(node, node[n].parent, n)
  IN /\ ~ broken
     /\ n # NoNode /\ node[n].parent # NoNode
     /\ IsFolder(node[n].parent)
     /\ node' = [m \in Nodes |-> IF m \in removed THEN Freed ELSE unlinked[m]]
     /\ broken' = HoldsMount(removed)
     /\ UNCHANGED g_mounts

-----------------------------------------------------------------------------
(* Files.  A byte that nobody wrote is -1.                                 *)

Garbage(len) == [i \in 1 .. len |-> -1]

(* Mutant: the buffer grows only when the write starts behind the end.     *)
Buffer_Grown(r, offset, len) ==
  IF ~ r.has THEN Garbage(len)
  ELSE IF offset > r.size THEN r.data \o Garbage(offset + len - Len(r.data))
  ELSE [i \in DOMAIN r.data |-> IF i > offset + len THEN 0 ELSE r.data[i]]

(* Mutant: a shorter write leaves what was behind it.                      *)
Buffer_Unzeroed(r, offset, len) ==
  IF ~ r.has THEN Garbage(len)
  ELSE IF offset + len > r.size THEN r.data \o Garbage(offset + len - Len(r.data))
  ELSE r.data

(* ramfs_write: the buffer that the bytes are copied to.  kmalloc gives a  *)
(* first write its size, krealloc keeps what was there, and what lies      *)
(* behind a write that ends before the old end is zeroed.                  *)
Buffer(r, offset, len) ==
  IF ~ r.has THEN Garbage(len)
  ELSE IF offset + len > r.size THEN r.data \o Garbage(offset + len - Len(r.data))
  ELSE [i \in DOMAIN r.data |-> IF i > offset + len THEN 0 ELSE r.data[i]]

(* The size field: of the first write, of a longer one, or as it was.      *)
SizeAfter(r, offset, len) ==
  IF ~ r.has THEN len ELSE IF offset + len > r.size THEN offset + len ELSE r.size

Written(f, n, offset, bytes) ==
  LET len == Len(bytes)
      buffer == Buffer(f[n], offset, len)
      data == [i \in DOMAIN buffer |->
                IF i \in offset + 1 .. offset + len THEN bytes[i - offset] ELSE buffer[i]]
  IN [f EXCEPT ![n] = [@ EXCEPT !.has = TRUE, !.size = SizeAfter(f[n], offset, len), !.data = data]]

(* write() on an open file, at most at its end, as all callers do.         *)
write(n, offset, bytes) ==
  /\ ~ broken
  /\ node[n].type = "file"
  /\ offset \in 0 .. node[n].size /\ offset + Len(bytes) <= MaxSize
  /\ node' = Written(node, n, offset, bytes)
  /\ UNCHANGED <<g_mounts, broken>>

-----------------------------------------------------------------------------
(* vfs_mount() makes the root a child of the mount point too.  Nobody      *)
(* checks whether it is mounted already, and its next pointer stays.       *)
vfs_mount(path) ==
  LET point == Lookup(path)
  IN /\ ~ broken
     /\ IsFolder(point)
     /\ g_mounts' = <<[mount_point |-> point, mounted_root |-> FsRoot]>> \o g_mounts
     /\ node' = vfs_insert_node([node EXCEPT ![FsRoot].parent = point], point, FsRoot)
     /\ broken' = (g_mounts # <<>> \/ node[FsRoot].next # NoNode)

(* vfs_unmount() leaves the root's own links as they are.                  *)
vfs_unmount(path) ==
  LET point == Lookup(path)
      hits == {k \in DOMAIN g_mounts : g_mounts[k].mount_point = point}
  IN /\ ~ broken
     /\ hits # {}
     /\ g_mounts' = RemoveAt(g_mounts, Min(hits))
     /\ node' = Unlinked(node, point, g_mounts[Min(hits)].mounted_root)
     /\ UNCHANGED broken

Next ==
  \/ \E path \in Paths :
       \/ \E type \in {"file", "folder"} : create(path, type)
       \/ remove_p(path)
       \/ vfs_mount(path)
       \/ vfs_unmount(path)
  \/ \E n \in Nodes, offset \in 0 .. MaxSize, bytes \in BoundedSeq(Bytes, MaxSize) :
       write(n, offset, bytes)

Spec == Init /\ [][Next]_vars

-----------------------------------------------------------------------------
(* Properties.                                                             *)

Node == [type : {"none", "file", "folder"}, name : Names \cup {NoName},
         parent : Nodes \cup {NoNode}, children : Nodes \cup {NoNode},
         next : Nodes \cup {NoNode}, size : 0 .. MaxSize, has : BOOLEAN,
         data : BoundedSeq(Bytes \cup {0, -1}, MaxSize)]

(* Sizes and buffers never pass what was written, and a mount's root is    *)
(* the tree that was given.                                                *)
TypeOK ==
  /\ DOMAIN node = Nodes
  /\ \A n \in Nodes : node[n] \in Node
  /\ g_mounts \in Seq([mount_point : Nodes, mounted_root : {FsRoot}])
  /\ broken \in BOOLEAN

(* The fields keep their types, and the links form trees of allocated      *)
(* nodes: every list ends, holds nodes that name the folder as their       *)
(* parent, shares none with another list, and no allocated node is lost,   *)
(* however nodes are created, removed with all that is below them, mounted *)
(* and unmounted, until one of the two calls that break the links.         *)
TreeSound ==
  ~ broken =>
    /\ TypeOK
    /\ \A p \in Live :
         /\ Len(Children(node, p)) < Cardinality(Nodes)
         /\ \A c \in Range(Children(node, p)) : c \in Live /\ node[c].parent = p
         /\ node[p].type = "file" => Children(node, p) = <<>>
    /\ Live = Subtree(node, Root) \cup Subtree(node, FsRoot)
    /\ Root \notin UNION {Range(Children(node, p)) : p \in Live}
    /\ \A k \in DOMAIN g_mounts : g_mounts[k].mount_point \in Live

(* The README promises mounting: every list of a folder's children ends    *)
(* while the tree is mounted at most once at a time, also when it was      *)
(* unmounted before.  vfs_mount links a root with the next node that it    *)
(* kept.                                                                   *)
ListsEnd ==
  Len(g_mounts) <= 1 => \A p \in Live : Len(Children(node, p)) < Cardinality(Nodes)

(* A buffer is as long as the file and all of it was written: reading size *)
(* bytes, as cat and the editor do, stays inside and shows no old memory.  *)
BufferHoldsFile ==
  \A n \in Nodes : Len(node[n].data) = node[n].size /\ -1 \notin Range(node[n].data)

(* A call that neither changes the mounts nor breaks the links never makes *)
(* a path lead to another node than before, unless what it led to is       *)
(* removed: what is created is never found before what was there, and a    *)
(* removal only uncovers nodes behind the removed ones.                    *)
LookupStable ==
  [][~ broken' /\ UNCHANGED g_mounts =>
       \A path \in Paths :
         LET n == Lookup(path)
         IN n # NoNode => vfs_traverse_path(node', g_mounts', path) = n \/ n \notin Live']_vars
=============================================================================
