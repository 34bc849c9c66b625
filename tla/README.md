# A TLA+ verification of laomb

laomb is a small 32-bit x86 kernel in C.  This directory holds TLA+ modules
that model its core, TLC configurations that check them on small instances, and
proofs of the most important results for every instance, checked by TLAPS.  All
line numbers refer to `src/kernel/src/` unless a path says otherwise.

## The system

One address space, one processor, no user mode.  `_start` initialises the page
allocator, paging, the heap, interrupts and the file system, creates the shell
task and starts the scheduler; from then on every flow of control is a kernel
task, preempted by the timer, or an interrupt handler.

| component | code | state | operations |
|---|---|---|---|
| scheduler | `proc/sched.c`, `inc/proc/task.h` | `task_list`, `current_task`, registers saved in each task | `sched_init`, `sched_add_task`, `sched_remove_task`, `schedule`, `timer_interrupt_handler`, `yield` |
| keyboard buffer | `fshell/common.c` 1-60 | ring, `buffer_index`, `count`, shift and control flags | `fshell_interrupt_handler` (IRQ 1), `getchar_locking` |
| page allocator | `sys/mm/pmm.c` | bitmap, memory map | `pmm_init`, `pmm_alloc(_pages)`, `pmm_free(_pages)`, `pmm_reclaim_bootloader_memory` |
| heap | `std/liballoc.c` | list of majors, list of minors in each, `l_bestBet`, counters | `kmalloc`, `kfree`, `krealloc`, `kcalloc` |
| paging | `sys/mm/vmm.c` | page directories and tables | `vmm_init_pd`, `vmm_map_page`, `vmm_unmap_page`, `vmm_switch_pd` |
| virtual file system | `proc/vfs.c` | tree of nodes, file buffers, `g_mounts` | `create`, `remove`, `open`, `read`, `write`, `vfs_mount`, `vfs_unmount` |
| FAT32 reader | `fs/fat32.c` | open file handles with a sector buffer each, a cached FAT sector | `fat_init`, `FAT_Open`, `fat_read`, `FAT_Close` |
| shell | `fshell/common.c`, `fshell/edit.c` | working directory, command line, the editor's buffer | ten commands, four of which may write to a file with `>` or `>>`, and `edit` |
| red-black tree | `rbtree.c` | nodes with a colour, linked three ways | `rb_insert`, `rb_delete`, `rb_search` |
| mutex | `proc/mutex.c` | one flag | lock, unlock |
| the rest | `sys/idt.c`, `sys/isr.asm`, `sys/pic.c`, `sys/gdt.c`, `sys/pci.c`, `fs/ata.c`, `fs/mbr.c`, `std/*` | devices, processor tables | |

How they meet: the timer handler walks the list that `sched_add_task` and
`sched_remove_task` edit; the keyboard handler and the shell task share the
ring; the heap takes runs of pages from the page allocator and gives them back,
and so do page tables; file nodes and buffers live in the heap; the shell calls
everything.

What is hard here:

* **preemption anywhere**.  The list is edited with interrupts on except for one
  stretch of `sched_add_task`; the handler must find a sound list at each step,
  the registers of each task must survive, and round robin must starve nobody
  while tasks come and go;
* **a non-atomic counter**.  `count--` of the keyboard buffer is a load and a
  store with an interrupt between them;
* **bookkeeping over long sequences of calls**.  Pages numbered one way and counted
  another, majors and minors cut and joined in any order, a cached pointer
  (`l_bestBet`) to memory that is given back, sibling lists edited by five
  functions;
* **one request, several steps**.  The output of a command is several writes into
  a file that may be longer, shorter or the one that is printed; an insertion or
  deletion in the tree is followed by a loop of rotations;
* **limits**.  No page left, a full ring, a file written to its exact end.

Nothing is persisted, so there is no crash recovery; nothing is sent, so no
message can be lost.  The complete list of hazards, each at its line with the
properties about it, is `hazards` in `PROJECT.json`.

## Modules

| module | models | checked by | proved in |
|---|---|---|---|
| `Sched` | the scheduler, one step per shared access | `MCSched` | `SchedProofs` |
| `TaskSwitching` | what the scheduler promises: a processor for each task | refined by `Sched` | `SchedProofs` |
| `KeyRing` | the keyboard buffer, one step per load or store | `MCKeyRing` | `KeyRingProofs` |
| `Pmm` | the page allocator; also the abstraction `Heap` implements | `MCPmm`, `MCHeap` | `PmmProofs` |
| `Heap` | the heap and the page tables above `Pmm` | `MCHeap` | `HeapProofs` |
| `Vfs` | the file system tree, RAM files and mounts | `MCVfs`, `MCShell` | `FileProofs` |
| `Shell` | the shell's commands, redirection and the editor on `Vfs` | `MCShell` | `FileProofs` |
| `Fat32` | open, read and close of files on a FAT32 disk | `MCFat32` | `Fat32Proofs` |
| `RbTree` | the red-black tree, one step per turn of a fix-up | `MCRbTree` | `RbTreeProofs` |
| `KeyBag` | what a search tree promises: a bag of keys | refined by `RbTree` | `RbTreeProofs` |
| `NatInduction` | nothing of the kernel: induction and sums, for the proofs | | itself |

### Sched and TaskSwitching

`task_list`, `next`, `state`, `saved` and `current_task` are the C variables and
fields of the same name; `saved[t]` is the register image in a task structure
and `cpu` what the processor holds.  An image has the flow its `eip` points
into, the place there, the address space (`cr3`), the interrupt flag, one
register of the callback's own, and the registers that hold `indirect`,
`removed` and the like inside the scheduler.  `memory` is the state of a task
structure's heap block.  `stack` is the list of callers: there is one, because
`isr_common` restores registers with `popa`, which skips the saved `esp`.

`TimerInterrupt` is the whole handler (it runs behind an interrupt gate): save,
`schedule`, restore.  It may come wherever the interrupt flag is set once the
handler is registered.  `sched_add_task` is `CallAdd` (with the `task_create`
before it), `AddLink` (the link and `cli`), `AddPublish` (`task_list` and
`sti`), `Return`; `sched_remove_task` is `CallRemove`, `RmSearch`, `RmLoad`,
`RmUnlink`, `RmFree`, `RmCurrent` (the test of `current_task`, line 36), `RmHead` and
`RmStore` (the load of `task_list` and the store of line 37), `RmYield`, `Return`.
`SchedInit` and `RegisterHandler` are the start.

### KeyRing

`LoadCount`, `LoadIndex`, `StoreCount` and `LoadChar` are the accesses of
`getchar_locking` as the compiler orders them at `-O2`; the two that the language
does not order may come either way round.  `KeyDown` is the interrupt handler,
with what the scancode tables hold for five kinds of keys.  Characters are the
numbers of the key presses, so that loss, duplication and order can be seen.

### Pmm and Heap

`Pmm` numbers pages and keeps the set of those whose bit is 1.  `pmm_init` is
computed for the memory map as the code does: `memset` of whole bytes, garbage in
the bits behind them, the bitmap's own pages, page 0.  `FreeRuns` is the first-fit
search and its limits.  A map is `WellFormed` when its entries are apart and the bitmap fits
in one of usable memory, no more: the code numbers bits by page and sizes the bitmap by the sum of
the entries, and checks neither that what `memset` misses (line 67) is usable memory nor that the bits of all
pages lie in the bitmap.  The pages whose bits it leaves like that are `Stray`; what lies behind
the bitmap's pages belongs to somebody else, who writes there (`others_write`).  A map without
stray pages is `Regular`.  `held` records who has a run, so that the same page can be out twice.

`Heap` keeps the two lists of `liballoc` as sequences and chooses places as the
five cases of `PREFIX(malloc)` do, including the search from `l_bestBet` and its
second round from `l_memRoot`.  It instantiates `Pmm` with `held` = the majors and
page tables there are, and checks that all the heap does to the bitmap is what a
client of `Pmm` may do (`UsesAllocator`).

### Vfs

`node` is the memory of nodes, with the C fields `type`, `name`, `parent`,
`children`, `next`, `size` and `data`; `List` follows `next` as the loops do.
Paths are sequences of names, the empty one is `/`.  `create` does not look
whether the name exists and gives the path `/` an empty name, as the code does;
`vfs_traverse_path` follows mounts on all names but the last.  `write` is
`ramfs_write` with its three ways through the buffer.  Two calls that nobody checks leave links
that are no tree: mounting a root that is mounted already or kept a `next` pointer, and removing a folder
that something is mounted on, or in.  They are steps like the others; `broken` is a history variable that remembers
such a call, and the model stops there, where the walks of the code would follow freed memory or
never end.

A mount is followed on the way but not at its end, so `create()` in a mounted folder
puts the node behind the mount, where its own path does not lead
(`proc/vfs.c:184-213` and 252).

### Shell

`Shell` extends `Vfs` with the working directory `pwd` and the command in
progress `op`.  A typed path is what `resolve_path` sees, absolute or not and a list of
tokens, and `Resolved` is its loop over `.`, `..` and names.  `touch`, `mkdir`,
`rm`, `rmdir` and `cd` open, test and act in one step, as the shell is the only
task that uses the file system.  `redirect` is `handle_redirection` (which creates the
file *before* `ls` or `cat` looks for what to print), `print` one `write()`
and `prompt` the return; `op.said` and `op.old` remember what was printed and what was there.
`edit` opens the editor and each key is a step: the four cursor keys change nothing
here, Tab (`save`) writes the typed bytes over the start of the file.  Bytes are a small set
in which a space, a newline and an error text are one; a folder without a name, which `mkdir /` makes, prints
no byte of a name (`Spelled`); that error texts are
cut short by a wrong length (`common.c:249,255,377,383`) is wording and left out, and so is what
`cat` prints behind the end of a buffer without a zero in it (`common.c:260-266`).

### RbTree and KeyBag

`root` and `node` are the C fields; a freed node is `Freed`.  The code spells out the left and
the right of each case; here the side is a parameter and a tree is a value that `Rotate`,
`Replace` and `Color` map to the next, so that a turn of a loop is one
step.  The sides differ in one place: without a sister on the right the loop breaks off
(line 143), without one on the left it follows the null pointer (line 173), which is
`op.kind = "fault"`.  `skipped` remembers whether a deletion took a black node with no child:
line 266 then skips the fix-up, and the heights differ from there on.  In a tree where that has not
happened, the loop of `rb_delete_fixup` is never entered at all, since the node
that moves up is red; it only ever works on trees it was not made for.

### Fat32

`root_directory`, `opened_files`, `fat_cashe` and `fat_cashe_position` are the
fields of `g_data`.  A call is `op`: `FAT_Open` or `fat_read` begins it, and each turn
of the loops of `fat_read` (`ReadTurn`) and `FAT_FindFile` (`SearchEntry`,
`Found`, `NotFound`) is a step.  A path is its names and whether a slash follows the last one,
which must then be a folder; without names it gives the caller the handle of the root directory, which all
searches use too.  The disk is given: the table, the sectors, and the partition.  `Readable` is the
test of `mbr_read_sector`, which adds `lba_offset` to the sector and compares the sum with the *number* of
sectors (`fs/mbr.c:30`), so that the last `lba_offset` sectors of every partition are refused.  `got` is a
history of what a handle of a file has returned, compared with the cells of the file's chain.
`ShortNames` is what `get_short_name` makes of a name: the bytes it does not set
are what the heap left there, and the last name of a path keeps a byte of
the stack.  A search of what is not there goes on behind the directory, so the
run has many states of one successor.

## Runs

| run | shows |
|---|---|
| `sched` | three tasks, one of which inserts and removes the other two: the list is closed and complete at each step, contexts stay apart, preemption is transparent, nobody starves, a removal ends, and `TaskSwitching` is implemented |
| `sched_leave` | main removes itself too, interrupted between the test, the load and the store of lines 36 and 37: `current_task` is outside the list only until that store |
| `sched_stack` | *violation*: with two tasks inside functions, one returns through the other's return address, as they share a stack |
| `keyring` | two slots, five keys: what `count` says is unread is intact, order is kept, and nothing is lost but in the one race |
| `pmm` | six memory maps, two callers: no page twice and only memory, but for stray pages, nothing lost |
| `heap` | up to five blocks in three majors: blocks apart, counters exact, `l_bestBet` alive, pages shared with nobody |
| `heap_full` | *violation*: with no run of pages left, the heap uses page 0 |
| `vfs` | five nodes, two names, mounts and unmounts: the links stay trees until one of the two calls that break them, buffers hold their files, a name goes on meaning what it meant |
| `vfs_remount` | *violation*: a root mounted, unmounted and mounted again makes a list circular |
| `shell` | two nodes beside the root, two names: `>` shows exactly what was printed after each write, `>>` keeps what was there, the editor saves what was typed, and the working directory stays until it is removed |
| `rbtree` | six nodes, three keys: the links form one tree, each key is found, colours and heights are right until a fix-up was skipped, each fix-up ends and follows a null pointer in no other tree, and `KeyBag` is implemented |
| `fat32` | two handles, two files in alternating clusters and a folder: each file's bytes in order but for a refused sector, handles accounted for, and a table window that is right about the files' clusters |

The violations are reported with their lines under `findings` in `PROJECT.json`.

**Bounds.**  Three tasks make the list one where head, middle and tail
differ, and let a removed structure be reused while another is listed.
Two slots and five keys wrap the ring twice and reach full and empty; one
more key than slots would already be enough for an overrun.  A byte of two bits and a page
of four bytes give bitmaps of one and two pages; of the six maps one has a hole, one the loader's
memory below the rest, in two the bit `memset` misses is of a reserved or a loader's page with
memory on both sides, in one the searched bits end behind the bitmap's pages, and one has a usable page 0.  Two block sizes against a major with room for two of either
give gaps at the start, in the middle and at the end that the larger does not fit in, and
three majors let the search start in the middle of the list with unused bytes that are
enough but apart; majors are freed while `l_bestBet` points at them.  The bitmap takes page 1
of the heap's memory map, and the loader's page parts what is left so that two majors and a
page table fill it; once it is reclaimed the runs join and there is room for a third.  Five nodes of which two are
roots let a folder with a child be removed while a sibling stays; two names make
equal names in one folder and different ones in a path of two.  There is
one other tree, mounted and unmounted without a bound.
Two nodes beside the shell's root are two files, two folders in each other, or a file in a folder;
three bytes hold what `ls` prints of one child, and let an output be shorter, longer and as long as
what was there.  Six nodes are the first tree in which an insertion recolours a
grandparent that is not the root; three keys in six nodes put equal keys on both sides of a
node after rotations.
The FAT disk has sectors of two cells, clusters of two sectors and a window of two table
sectors, and lies one sector into the disk, so that its sector 26 of 27 is refused: it is in the middle
of a file.  Reads of five cells end inside and at a sector and a cluster, both files fill their clusters, and the
chain of one leaves the window and comes back.  `HighMark` (63) stands for an end the code knows and `Mark` (51)
for 0x0FFFFFFF, which it takes for a cluster: the search of the folder for a name that is not there follows it,
its data is refused, and so is its sector of the table (26), which relabels the window over
cells of another place; of the three places the cells may be from, one ends the search, one goes on in a file
and one in an empty cluster for good.  No caller opens the folder itself, only searches do: with two handles
its states would be more than can be visited in the time of a run.

**Stopping.**  Deadlock is checked in `sched`, `sched_leave`, `pmm` and `heap`.  In `keyring` a
null table entry ends in the panic loop; in `vfs` a call may break the links, or all nodes may be folders that
were created with the path `/`, which have no name and cannot be removed; in `shell`
the editor follows a null pointer when there is no such file; in `rbtree` a
fix-up does so; in `fat32`
a folder on the way that gets no handle ends in a read through a null pointer.

**Fairness.**  `Sched!FairSpec` has strong fairness of each flow's next step
inside a scheduler function (a time slice is longer than an instruction, and the
timer takes the processor away in between) and of the timer interrupt (the 8259
latches a request while interrupts are off).  Callbacks owe nobody a call.
`KeyRing!FairSpec` has weak fairness of the reader's next instruction; nobody
must press a key, and nobody must call `getchar_locking`.

## Theorems

`SchedProofs` proves, for any number of tasks, under `Disciplined` (only the
first task, the one `_start` creates, calls the scheduler, and it does not remove itself:
`sched_stack` shows what happens with two callers; a task that removes itself is saved over the first of the list by
the yield of `sched_remove_task`):

* `Invariance`: the inductive invariant `IInv` holds.  It says for each place in
  the scheduler's code what the caller's registers know (that `removed` is listed
  and `indirect` precedes it, that `nxt` is its link, that `new_task` is in no list),
  wherever the caller's registers are: in the processor or saved.  `TypeOK` and `ListClosed`
  alone are not inductive, for a preempted caller acts on what it loaded before;
* `ListStaysClosed`, `ContextsStayApart`, `RemovedStaysRemoved`,
  `PreemptionIsTransparent`: the safety properties of the run `sched`;
* `NobodyIsLost`: what is inserted and not yet removed is reached by walking the list from
  `task_list`, at each step of a caller, so that `schedule` finds it.  The invariant `Ordered` is that some
  numbering of the listed tasks, each once, follows the links and ends at the null pointer;
* `SchedMultiplexes`: `Sched` implements `TaskSwitching`, by the refinement mapping at
  the end of `Sched`.

`KeyRingProofs` proves `RingIsSound` for any ring size and number of keys:
unread characters are never overwritten and only typed ones are returned.  The
invariant adds that the loaded count is never more than the one in memory
until it is stored, which is why the reader's stale store can only lose
characters and never invent them.  `SubscriptsInRing`, `CharactersInOrder` and
`LosslessWithoutRace` are what follows for the reader.  The last two add
where the character of the call in progress stands among those returned and those unread, and that the
loaded count is the one in memory as long as no key came in between.

`PmmProofs` proves, for every memory map the bitmap fits in (`WellFormed`) and whatever is written
behind the bitmap:

* `HandsOutMemory`, `PagesHeldApart`: what is handed out is memory and to one caller at a time, unless the page is
  stray.  Only stray pages: a bit that is searched and not stray is either in the bytes `memset` fills or of
  usable memory, and behind the former the bits of what is no memory are never cleared;
* `NoPageLost`: a page of memory with a bit in the bitmap's pages that nobody holds is marked free;
* `AllocatorIsSound`: on regular maps the two promises hold in full.  On others they do not: a reserved page whose
  bit `memset` misses may be handed out, and one of the loader's may be handed out, cleared by the reclaim and handed out
  again.  Two of the maps of the run `pmm` are such.

`HeapProofs` proves, for every page and header size, regular memory map, set of request sizes and number
of blocks, under `MayExhaust = FALSE` (a run of pages is found whenever one is needed; `heap_full`
shows what happens otherwise):

* `BlocksLieApart`, `BestBetIsListed`, `CountersFollowLists`: blocks do not overlap and are as
  large as asked for, `l_bestBet` never outlives its major, and `usage`, `l_inuse` and `l_allocated`
  are sums over the lists.  The invariant `HInv` says of each major that its gaps are not negative and its
  `usage` is the header plus, for each block, header and size (`Laid`), and of the list that the
  runs are apart;
* `GrowsWhenFull`: pages are taken only if no major has a gap that is large enough.  The argument
  is a minimum over the search: a major that is passed over has fewer unused bytes than are asked for,
  which are at least those of each gap, and the second round covers what lies before `l_bestBet`;
* `HeapUsesAllocator`, `PagesAreAccounted`: every step of the heap is one that `Pmm` allows its client,
  so that the theorems of `PmmProofs` hold of the heap's pages.

`Fat32Proofs` proves, for every disk whose table has the chain of each file and lies before the root
directory, which has been read (`Fat32Assumption`), every `lba_offset`, every size of sector, cluster and window, and every number of handles:

* `FilesReadInOrder`: each file gives its own cells in their order, none left out, whatever
  the sizes of the reads and however they alternate with those of others, of all sectors that are not refused.  The
  invariant ties position, cluster, sector and offset (`At`), also where a read was refused, and says that the
  buffer holds that very sector if it can be read.  For the others the statement is false: a read that is
  refused leaves the buffer as it was, and the caller gets those cells;
* `CasheNeverLies`: the window of the table never holds a wrong entry of a file's cluster, although
  a refused read relabels it: what is relabelled lies behind the root directory (`TableReadable`), so it is no
  cluster of a file;
* `NoHandleLost`, `HandlesKeepTypes`: a handle but the root's is open exactly while a caller or a search has it, and
  reading never leaves a file or 32 bits.

`RbTreeProofs` proves, for any number of nodes and keys:

* `LinksStaySound`: links agree in both directions and every live node hangs below the root, in the
  middle of a fix-up too.  `LinksSound` speaks of paths of links, which a rotation changes everywhere
  at once; the invariant `Sound` says instead that the links agree locally and that no set of live nodes
  contains the parents of all its members (`NoCycle`), which is a local statement about the
  few nodes an operation rewires.  A deletion is argued as taking out the node that has at most one
  child (the successor, or the node itself) and handing the successor the links of the removed node;
* `SearchAlwaysFinds`: `rb_search` finds a node for every key in the tree and none for any other.
  The invariant `Ordered` is local again: each node has a set of keys that may stand below it
  (`Bounds`), which holds its own and those of its children, split by its key with equal keys on
  either side.  A rotation changes the sets of two nodes, an insertion adds its key to those on its way
  down, a deletion gives the successor the set of the removed node and takes the keys below its own from
  those it was under.  A search that ended at null would otherwise leave a set of nodes that holds all
  its parents;
* `TreeIsBag`: `RbTree` implements `KeyBag`.  A search that ends at a node ended at one with the key,
  an insertion adds one node with its key and a deletion takes out the node that was found, whatever
  the fix-up rotates in between;
* `RedBlackKept`: between two calls no red node has a red child and the root is black, and every way down
  meets as many black nodes as long as no deletion has skipped the fix-up.  `RedBlack` counts along paths; the
  invariant `Lawful` says instead that a height can be given to each node, one more than its parent's if
  it is black and the same if it is red, which is one number wherever a child is missing (`Even`), and that
  red nodes are apart (`Roomy`).  In the middle of a fix-up it allows one exception, at the node the
  fix-up is at: a red one below a red parent after an insertion, a node that lacks a black one after
  a deletion.  Each turn moves the exception up or ends it: the lemmas say of each rotation, colour, link
  and removal which nodes are red after it and how the heights change.  The heights are then the numbers of black
  nodes on the ways down (`LevelsCount`).  The proof shows what the skipped fix-up means, too: in an even
  tree a node with one child is black and its child red, so `rb_delete_fixup` has nothing to do but turn
  that child black, and its loop is entered only in trees that are uneven already;
* `FixupsEnd`: no fix-up turns more often than there are nodes, in uneven trees too, and none follows a
  null pointer before a fix-up was skipped.  `Climbs` says that the turns taken and the nodes
  from the current one up to the root are together no more than the nodes of the tree; a turn that goes on
  leaves at least one of those nodes behind.

`FileProofs` proves, for any number of nodes, names, bytes and sizes:

* `FilesHoldTheirBytes`: a buffer is as long as its file and nothing in it is what the heap left
  there.  The invariant `Whole` says so of each node, and that a file without a buffer has size 0, which
  is what the first of the three ways through `ramfs_write` relies on;
* `TreeStaysSound`: until a call breaks them, the links are trees of all allocated nodes and every list of
  siblings ends.  `TreeSound` speaks of what is met along `next` and of what is below a root; the invariant `TreeOf`
  relates the memory instead to `K`, which gives each node the list of its children, and to `T`, the
  nodes in no list: the lists follow `next`, repeat nothing and agree with `parent`, and no set of nodes
  outside `T` holds all its parents (`Grounded`).  An operation is a sequence of changes of the
  three, each of which keeps `TreeOf`: a node comes to be (`NewTop`), is put at the end of a list
  (`Attached`), is taken out of one (`Detached`), and a branch is freed (`BranchFreed`).  That a walk of
  as many turns as there are nodes sees a whole list or a whole branch is a count of the steps in which it
  still finds something.  Behind such a call it is false, as `vfs_remount` shows of the one; behind the other
  `g_mounts` names a freed folder;
* `PathsStayStable`: until then and while the mounts stay, no call makes a path lead elsewhere, unless what it led to is
  removed.  A list only grows at its end or loses nodes, and of those it keeps the order (`KeepsFirst`),
  so the first child of a name stays the first (`PathStays`, along the path);
* `ShellKeepsTypes`, `TruncatedFilesShow`, `AppendedFilesKeep`, `SavedFilesShow` and
  `WorkingDirectoryStays`: all that the run `shell` checks, without a hypothesis, as the shell mounts
  nothing.  `AppendKeeps` alone is not inductive: the invariant `Printing` adds that the next write of an
  appended file begins at its end, that one of a cut file has been given `offset` bytes and holds only zeros behind
  them (`Covers`), and that what is left to print fits.  The working directory is no longer than
  there are nodes because a path that met a node twice would leave a set that holds all its parents
  (`PathShort`), and it stays as each step keeps where paths lead (`Steady`).  What `resolve_path`
  returns is spelled without `.` and `..`: the library's fold is a recursion over sets of subscripts, which
  is shown to have a solution (`ResolveExists`) before anything is said of it.

`NatInduction` states induction with a set instead of a predicate (a non-empty set of naturals
has a least element), from which follow the facts about chains, sums over index sets and searches that the
others cite.

The proofs assume the named assumptions of the constants only, and the hypotheses named above
(`Disciplined`, `MayExhaust = FALSE`, and for the heap and `AllocatorIsSound` regular maps).
`TasksAssumption` and `VfsAssumption` make the tasks and the nodes finitely many, `VfsAssumption` keeps
the mark of an unwritten byte apart from those that are written, and `ShellAssumption` has `help` write
something; `WellFormed` says what the loader's memory
map must be for `pmm_init` to find a place for its bitmap.  Model-checked
only: liveness (`NoStarvation`, `RemovalReturns`, `GetCharReturns`), which is out of the prover's
reach, and what `sched_leave` says of a task that removes itself, which `Disciplined` excludes; every other
property of a run that passes is stated by a theorem, under the hypotheses named above.  That `FAT_Open` returns is not claimed: a search
of what is not there need not end.

## Not modelled

`fs/ata.c` polls device registers, and of `fs/mbr.c` only the check of `mbr_read_sector` is modelled, the rest reads a fixed table; `sys/pci.c`,
`sys/gdt.c` and `std/io.c` are enumeration and processor tables; `std/string.c` and
`std/stdkprintf.c` are sequential library code, the latter third-party; the framebuffer is
drawing.  Of `sys/mm/vmm.c` only the pages its tables take are modelled: a new table is
not cleared, so what else a directory maps is not determined by the code.
`proc/mutex.c` is one flag that nothing takes.  How `fshell_callback` collects
and splits a line is abstracted to the command that results.  `sys/idt.c`, `sys/isr.asm` and `sys/pic.c` appear as the scheduler sees
them: vector 32 runs with interrupts off and `popa` skips `esp`.

## Plan

1. `Vmm`: the translation that a processor has cached against the one in the tables
   (`invlpg` comes after the address was advanced, `sys/mm/vmm.c:116`).
2. `Mutex` on the scheduler.
