------------------------------- MODULE KeyRing -------------------------------
(***************************************************************************)
(* The shell's keyboard buffer (kernel/src/fshell/common.c): the interrupt *)
(* handler of IRQ 1 puts characters into a ring of FSHELL_BUFFER_SIZE      *)
(* slots, getchar_locking takes them out with interrupts on.  The two      *)
(* share buffer_index and count, and nothing protects count-- .            *)
(*                                                                         *)
(* The kernel is built with -O2 (config.mk), which loads count once for    *)
(* the test, the subscript and the decrement; the language leaves open     *)
(* whether the character is read before or after count is stored.          *)
(* A character is the number of its key press among those accepted.        *)
(***************************************************************************)
EXTENDS Integers, Sequences

CONSTANTS
  N,        \* FSHELL_BUFFER_SIZE
  MaxKeys   \* bound: how many key presses are accepted in one behaviour

ASSUME SizeAssumption == N \in Nat \ {0} /\ MaxKeys \in Nat

VARIABLES
  buffer, buffer_index, count, shift_pressed, ctrl_pressed,
  pc,        \* where the reader is in getchar_locking
  todo,      \* what it still has to do: store count, read the character
  n, index,  \* its registers: the loaded count, the subscript
  char,      \* the character it read
  typed,     \* how many characters were accepted
  returned,  \* what getchar_locking returned, in order
  raced,     \* history: a key came between the load and the store of count
  overrun,   \* history: a call began with the ring full
  halted     \* the kernel panicked

ring == <<buffer, buffer_index, count>>
keys == <<shift_pressed, ctrl_pressed>>
reader == <<pc, todo, n, index, char, returned>>
vars == <<ring, keys, reader, typed, raced, overrun, halted>>

Slots == 0 .. N - 1

Init ==
  /\ buffer = [i \in Slots |-> 0]
  /\ buffer_index = 0
  /\ count = 0
  /\ shift_pressed = FALSE
  /\ ctrl_pressed = FALSE
  /\ pc = "out"
  /\ todo = {}
  /\ n = 0
  /\ index = 0
  /\ char = 0
  /\ typed = 0
  /\ returned = <<>>
  /\ raced = FALSE
  /\ overrun = FALSE
  /\ halted = FALSE

-----------------------------------------------------------------------------
(* getchar_locking                                                         *)

Call ==
  /\ pc = "out"
  /\ pc' = "poll"
  /\ UNCHANGED <<ring, keys, todo, n, index, char, returned, typed, raced, overrun, halted>>

(* Mutant: waits for a second character.                                   *)
LoadCount_Greedy ==
  /\ pc = "poll"
  /\ n' = count
  /\ pc' = IF count <= 1 THEN "poll" ELSE "index"
  /\ UNCHANGED <<ring, keys, todo, index, char, returned, typed, raced, overrun, halted>>

(* The loop test; yield() while the ring is empty.                         *)
LoadCount ==
  /\ pc = "poll"
  /\ n' = count
  /\ pc' = IF count = 0 THEN "poll" ELSE "index"
  /\ UNCHANGED <<ring, keys, todo, index, char, returned, typed, raced, overrun, halted>>

(* Mutant: subscripts from the wrong end.                                  *)
LoadIndex_Newest ==
  /\ pc = "index"
  /\ index' = (buffer_index - 1 + N) % N
  /\ todo' = {"store", "char"}
  /\ pc' = "take"
  /\ UNCHANGED <<ring, keys, n, char, returned, typed, raced, overrun, halted>>

LoadIndex ==
  /\ pc = "index"
  /\ index' = (buffer_index - n + N) % N
  /\ todo' = {"store", "char"}
  /\ pc' = "take"
  /\ UNCHANGED <<ring, keys, n, char, returned, typed, raced, overrun, halted>>

StoreCount ==
  /\ pc = "take" /\ "store" \in todo
  /\ count' = n - 1
  /\ todo' = todo \ {"store"}
  /\ UNCHANGED <<buffer, buffer_index, keys, pc, n, index, char, returned, typed, raced,
                 overrun, halted>>

LoadChar ==
  /\ pc = "take" /\ "char" \in todo
  /\ char' = buffer[index]
  /\ todo' = todo \ {"char"}
  /\ UNCHANGED <<ring, keys, pc, n, index, returned, typed, raced, overrun, halted>>

Return ==
  /\ pc = "take" /\ todo = {}
  /\ returned' = Append(returned, char)
  /\ pc' = "out"
  /\ UNCHANGED <<ring, keys, todo, n, index, char, typed, raced, overrun, halted>>

GetChar == ~ halted /\ (LoadCount \/ LoadIndex \/ StoreCount \/ LoadChar \/ Return)

-----------------------------------------------------------------------------
(* fshell_interrupt_handler                                                *)

(* What the two tables hold for the keys that differ: "char" stands for    *)
(* all that have a character in both, "none" is a null entry.  The shifted *)
(* table is one entry short before the space bar and ends at scancode 70,  *)
(* the plain one at 83.                                                    *)
Keyboard == {"char", "space", "alt", "keypad", "delete"}

Lookup(key, shifted) ==
  CASE key = "char" -> "char"
    [] key = "space" -> IF shifted THEN "blank" ELSE "char"
    [] key = "alt" -> IF shifted THEN "char" ELSE "blank"
    [] key = "keypad" -> IF shifted THEN "none" ELSE "blank"
    [] key = "delete" -> "none"

(* Mutant: a full ring drops its oldest character instead of the new one.  *)
Put_Overwrite ==
  /\ typed < MaxKeys
  /\ buffer' = [buffer EXCEPT ![buffer_index] = typed + 1]
  /\ buffer_index' = (buffer_index + 1) % N
  /\ count' = IF count < N THEN count + 1 ELSE count
  /\ typed' = typed + 1

(* Mutant: the index moves before the character is written.                *)
Put_Late ==
  /\ typed < MaxKeys
  /\ IF count < N
     THEN /\ buffer' = [buffer EXCEPT ![(buffer_index + 1) % N] = typed + 1]
          /\ buffer_index' = (buffer_index + 1) % N
          /\ count' = count + 1
          /\ typed' = typed + 1
     ELSE UNCHANGED <<ring, typed>>

(* Mutant: the room check is off by one.                                   *)
Put_NoRoom ==
  /\ typed < MaxKeys
  /\ IF count <= N
     THEN /\ buffer' = [buffer EXCEPT ![buffer_index] = typed + 1]
          /\ buffer_index' = (buffer_index + 1) % N
          /\ count' = count + 1
          /\ typed' = typed + 1
     ELSE UNCHANGED <<ring, typed>>

Put ==
  /\ typed < MaxKeys
  /\ IF count < N
     THEN /\ buffer' = [buffer EXCEPT ![buffer_index] = typed + 1]
          /\ buffer_index' = (buffer_index + 1) % N
          /\ count' = count + 1
          /\ typed' = typed + 1
     ELSE UNCHANGED <<ring, typed>>

(* A key goes down.  A null table entry is dereferenced: address 0 is not  *)
(* mapped, and the page fault ends in the panic loop.                      *)
KeyDown(key) ==
  /\ ~ halted
  /\ CASE Lookup(key, shift_pressed) = "char" ->
            /\ Put
            /\ raced' = (raced \/ pc = "index" \/ "store" \in todo)
            /\ overrun' = (overrun \/ ("char" \in todo /\ buffer'[index] # buffer[index]))
            /\ UNCHANGED halted
       [] Lookup(key, shift_pressed) = "blank" ->
            UNCHANGED <<ring, typed, raced, overrun, halted>>
       [] Lookup(key, shift_pressed) = "none" ->
            halted' = TRUE /\ UNCHANGED <<ring, typed, raced, overrun>>
  /\ UNCHANGED <<keys, reader>>

(* Either shift key, and the control key, go down or up.                   *)
Shift(down) ==
  /\ ~ halted
  /\ shift_pressed' = down
  /\ UNCHANGED <<ring, ctrl_pressed, reader, typed, raced, overrun, halted>>

Ctrl(down) ==
  /\ ~ halted
  /\ ctrl_pressed' = down
  /\ UNCHANGED <<ring, shift_pressed, reader, typed, raced, overrun, halted>>

fshell_interrupt_handler ==
  \/ \E key \in Keyboard : KeyDown(key)
  \/ \E down \in BOOLEAN : Shift(down) \/ Ctrl(down)

Next == (~ halted /\ Call) \/ GetChar \/ fshell_interrupt_handler

Spec == Init /\ [][Next]_vars

(* The reader is a task of the scheduler: it executes its next instruction *)
(* again and again.  Nothing makes anyone press a key, or makes the shell  *)
(* read one.                                                               *)
FairSpec == Spec /\ WF_vars(GetChar)

-----------------------------------------------------------------------------
(* Properties.                                                             *)

TypeOK ==
  /\ buffer \in [Slots -> 0 .. MaxKeys]
  /\ buffer_index \in Slots
  /\ count \in 0 .. N
  /\ shift_pressed \in BOOLEAN /\ ctrl_pressed \in BOOLEAN
  /\ pc \in {"out", "poll", "index", "take"}
  /\ todo \subseteq {"store", "char"}
  /\ n \in 0 .. N
  /\ index \in Slots
  /\ char \in 0 .. MaxKeys
  /\ typed \in 0 .. MaxKeys
  /\ returned \in Seq(0 .. MaxKeys)
  /\ raced \in BOOLEAN /\ overrun \in BOOLEAN /\ halted \in BOOLEAN

(* The slot written j characters ago.                                      *)
Back(j) == (buffer_index - j + N) % N

(* Whatever the handler and the reader do to each other's count, the count *)
(* last characters that were accepted are still in the ring, in order: the *)
(* handler never overwrites a character that count says is there.          *)
UnreadIntact ==
  count <= typed /\ \A j \in 1 .. count : buffer[Back(j)] = typed + 1 - j

(* getchar_locking returns characters that were typed, never what a slot   *)
(* held before anything was written to it.                                 *)
ReturnsTypedKeys ==
  \A i \in DOMAIN returned : returned[i] \in 1 .. typed

(* Characters come out in the order they were typed, none of them twice,   *)
(* even if keys are pressed in the middle of a call, as long as none lands *)
(* in the slot that is about to be read.                                   *)
InOrderUnlessOverrun ==
  ~ overrun => \A i, j \in DOMAIN returned : i < j => returned[i] < returned[j]

(* If no key came between a load and the store of count, nothing is lost:  *)
(* what was returned is all that was typed but the last count characters.  *)
LosslessUnlessRaced ==
  ~ raced /\ ~ overrun /\ pc = "out" =>
    /\ Len(returned) + count = typed
    /\ \A i \in DOMAIN returned : returned[i] = i

(* A call that finds characters in the ring returns: the reader cannot be  *)
(* kept polling while the handler adds to count.                           *)
GetCharReturns ==
  (pc = "poll" /\ count > 0) ~> (pc = "out" \/ halted)
=============================================================================
