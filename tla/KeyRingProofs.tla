---------------------------- MODULE KeyRingProofs ----------------------------
(***************************************************************************)
(* The keyboard buffer proved for every ring size: however the handler and *)
(* the reader interleave, what count says is in the ring is there, and the *)
(* reader returns typed characters only.                                   *)
(***************************************************************************)
EXTENDS KeyRing, TLAPS

(* The characters the reader may take: its copy of count is never ahead of *)
(* count, and the slot it is about to read has been written.               *)
KInv ==
  /\ TypeOK
  /\ UnreadIntact
  /\ ReturnsTypedKeys
  /\ todo # {} => pc = "take"
  /\ pc = "index" \/ "store" \in todo => n \in 1 .. count
  /\ pc = "take" => buffer[index] \in 1 .. typed
  /\ pc = "take" /\ "char" \notin todo => char \in 1 .. typed

-----------------------------------------------------------------------------
(* Arithmetic on the ring.                                                 *)

LEMMA ModRange == ASSUME NEW x \in Int PROVE x % N \in Slots
  BY SizeAssumption DEF Slots

LEMMA ModSmall == ASSUME NEW x \in Slots PROVE x % N = x
  BY SizeAssumption DEF Slots

LEMMA ModNext == ASSUME NEW x \in N .. 2 * N - 1 PROVE x % N = x - N
  BY SizeAssumption

(* The slot j characters back, without the remainder.                      *)
LEMMA BackIs ==
  ASSUME NEW b \in Slots, NEW j \in 0 .. N
  PROVE  (b - j + N) % N = IF j <= b THEN b - j ELSE b - j + N
  <1>1. CASE j <= b
    <2>1. b - j + N \in N .. 2 * N - 1
      BY <1>1, SizeAssumption DEF Slots
    <2>2. QED
      BY <1>1, <2>1, ModNext, SizeAssumption DEF Slots
  <1>2. CASE j > b
    <2>1. b - j + N \in Slots
      BY <1>2, SizeAssumption DEF Slots
    <2>2. QED
      BY <1>2, <2>1, ModSmall, SizeAssumption DEF Slots
  <1>3. QED
    BY <1>1, <1>2, SizeAssumption DEF Slots

(* After one more character the slots are one further back, and the new    *)
(* one is none of them.                                                    *)
LEMMA BackMoves ==
  ASSUME NEW b \in Slots, NEW j \in 1 .. N
  PROVE  /\ (b + 1) % N \in Slots
         /\ (((b + 1) % N) - j + N) % N = (b - (j - 1) + N) % N
         /\ j < N => (b - j + N) % N # b
         /\ (b - 0 + N) % N = b
  <1>1. (b + 1) % N = IF b + 1 = N THEN 0 ELSE b + 1
    <2>1. CASE b + 1 = N
      <3>1. b + 1 \in N .. 2 * N - 1
        BY <2>1, SizeAssumption
      <3>2. QED
        BY <2>1, <3>1, ModNext, SizeAssumption DEF Slots
    <2>2. CASE b + 1 # N
      <3>1. b + 1 \in Slots
        BY <2>2, SizeAssumption DEF Slots
      <3>2. QED
        BY <2>2, <3>1, ModSmall
    <2>3. QED
      BY <2>1, <2>2
  <1>2. (b + 1) % N \in Slots
    BY <1>1, SizeAssumption DEF Slots
  <1>3. (((b + 1) % N) - j + N) % N
          = IF j <= (b + 1) % N THEN ((b + 1) % N) - j ELSE ((b + 1) % N) - j + N
    BY <1>2, BackIs
  <1>4. (b - (j - 1) + N) % N = IF j - 1 <= b THEN b - (j - 1) ELSE b - (j - 1) + N
    <2>1. j - 1 \in 0 .. N
      BY SizeAssumption
    <2>2. QED
      BY <2>1, BackIs
  <1>5. (b - j + N) % N = IF j <= b THEN b - j ELSE b - j + N
    BY BackIs, SizeAssumption
  <1>6. (b - 0 + N) % N = b
    BY BackIs, SizeAssumption DEF Slots
  <1>7. (((b + 1) % N) - j + N) % N = (b - (j - 1) + N) % N
    BY <1>1, <1>3, <1>4, SizeAssumption DEF Slots
  <1>8. j < N => (b - j + N) % N # b
    BY <1>5, SizeAssumption DEF Slots
  <1>9. QED
    BY <1>2, <1>6, <1>7, <1>8
-----------------------------------------------------------------------------

LEMMA KEstablish == Init => KInv
  <1>1. ASSUME Init PROVE TypeOK
    <2>1. buffer \in [Slots -> 0 .. MaxKeys]
      BY <1>1, SizeAssumption DEF Init
    <2>2. returned \in Seq(0 .. MaxKeys)
      BY <1>1 DEF Init
    <2>3. /\ 0 \in Slots /\ 0 \in 0 .. N /\ 0 \in 0 .. MaxKeys
      BY SizeAssumption DEF Slots
    <2>4. /\ shift_pressed \in BOOLEAN /\ ctrl_pressed \in BOOLEAN
          /\ raced \in BOOLEAN /\ overrun \in BOOLEAN /\ halted \in BOOLEAN
      BY <1>1, Zenon DEF Init
    <2>5. QED
      BY <1>1, <2>1, <2>2, <2>3, <2>4 DEF Init, TypeOK
  <1>2. ASSUME Init PROVE KInv
    <2>1. returned = <<>> /\ DOMAIN returned = {} /\ count = 0 /\ typed = 0
      BY <1>2 DEF Init
    <2>2. UnreadIntact /\ ReturnsTypedKeys
      BY <2>1 DEF UnreadIntact, ReturnsTypedKeys
    <2>3. QED
      BY <1>1, <1>2, <2>2 DEF Init, KInv
  <1>3. QED
    BY <1>2

(***************************************************************************)
(* The handler accepts a character, or finds the ring full.                *)
(***************************************************************************)
LEMMA PutStep ==
  ASSUME KInv, Put, UNCHANGED <<shift_pressed, ctrl_pressed, reader>>,
         raced' \in BOOLEAN, overrun' \in BOOLEAN, halted' \in BOOLEAN
  PROVE  KInv'
  <1>1. CASE UNCHANGED <<ring, typed>>
    BY <1>1 DEF KInv, TypeOK, UnreadIntact, ReturnsTypedKeys, ring, reader, Back
  <1>2. CASE /\ count < N
             /\ buffer' = [buffer EXCEPT ![buffer_index] = typed + 1]
             /\ buffer_index' = (buffer_index + 1) % N
             /\ count' = count + 1
             /\ typed' = typed + 1
    <2>1. /\ typed \in Nat /\ typed' \in 0 .. MaxKeys
          /\ buffer_index \in Slots /\ count \in 0 .. N - 1
          /\ buffer \in [Slots -> 0 .. MaxKeys]
      BY <1>2, SizeAssumption DEF KInv, TypeOK, Put
    <2>2. buffer_index' \in Slots
      BY <1>2, <2>1, BackMoves, SizeAssumption
    <2>3. TypeOK'
      BY <1>2, <2>1, <2>2, SizeAssumption DEF KInv, TypeOK, reader
    <2>4. UnreadIntact'
      <3>1. ASSUME NEW j \in 1 .. count + 1
            PROVE  buffer'[(buffer_index' - j + N) % N] = typed + 2 - j
        <4>1. j \in 1 .. N
          BY <2>1, SizeAssumption
        <4>2. (buffer_index' - j + N) % N = (buffer_index - (j - 1) + N) % N
          BY <1>2, <2>1, <4>1, BackMoves
        <4>3. CASE j = 1
          <5>1. (buffer_index - (j - 1) + N) % N = buffer_index
            BY <2>1, <4>1, <4>3, BackMoves
          <5>2. QED
            BY <1>2, <2>1, <4>2, <4>3, <5>1
        <4>4. CASE j # 1
          <5>1. j - 1 \in 1 .. count /\ j - 1 \in 1 .. N - 1
            BY <2>1, <4>4, SizeAssumption
          <5>2. (buffer_index - (j - 1) + N) % N # buffer_index
            <6>1. PICK k \in 1 .. N - 1 : k = j - 1
              BY <5>1
            <6>2. k \in 1 .. N /\ k < N
              BY <6>1, SizeAssumption
            <6>3. (buffer_index - k + N) % N # buffer_index
              BY <2>1, <6>2, BackMoves
            <6>4. QED
              BY <6>1, <6>3
          <5>3. buffer[(buffer_index - (j - 1) + N) % N] = typed + 1 - (j - 1)
            BY <5>1 DEF KInv, UnreadIntact, Back
          <5>4. (buffer_index - (j - 1) + N) % N \in Slots
            <6>1. buffer_index - (j - 1) + N \in Int
              BY <2>1, SizeAssumption DEF Slots
            <6>2. QED
              BY <6>1, ModRange
          <5>5. QED
            BY <1>2, <2>1, <4>2, <5>2, <5>3, <5>4
        <4>5. QED
          BY <4>3, <4>4
      <3>2. count' <= typed'
        BY <1>2, <2>1 DEF KInv, UnreadIntact
      <3>3. QED
        BY <1>2, <2>1, <3>1, <3>2 DEF UnreadIntact, Back
    <2>5. ReturnsTypedKeys'
      BY <1>2, <2>1 DEF KInv, ReturnsTypedKeys, reader
    <2>6. pc = "index" \/ "store" \in todo => n \in 1 .. count'
      BY <1>2, <2>1 DEF KInv
    <2>7. pc = "take" => buffer'[index] \in 1 .. typed'
      BY <1>2, <2>1 DEF KInv, TypeOK
    <2>8. pc = "take" /\ "char" \notin todo => char \in 1 .. typed'
      BY <1>2, <2>1 DEF KInv
    <2>9. QED
      BY <2>3, <2>4, <2>5, <2>6, <2>7, <2>8 DEF KInv, reader
  <1>3. QED
    BY <1>1, <1>2 DEF Put

(***************************************************************************)
(* The reader takes the character n back, which count covers.              *)
(***************************************************************************)
LEMMA LoadIndexStep == ASSUME KInv, LoadIndex PROVE KInv'
  <1>1. n \in 1 .. count /\ count \in 0 .. N /\ n \in 1 .. N /\ buffer_index \in Slots
    BY SizeAssumption DEF KInv, TypeOK, LoadIndex
  <1>2. index' = Back(n)
    BY DEF LoadIndex, Back
  <1>3. index' \in Slots
    BY <1>1, <1>2, ModRange, SizeAssumption DEF Back, Slots
  <1>4. buffer[index'] \in 1 .. typed
    BY <1>1, <1>2 DEF KInv, UnreadIntact, TypeOK
  <1>5. /\ todo' = {"store", "char"} /\ pc' = "take"
        /\ UNCHANGED <<buffer, buffer_index, count, n, char, returned, typed>>
    BY DEF LoadIndex, ring
  <1>6. TypeOK'
    BY <1>3, <1>5 DEF LoadIndex, KInv, TypeOK, ring, keys
  <1>7. UnreadIntact' /\ ReturnsTypedKeys'
    BY <1>5 DEF KInv, UnreadIntact, ReturnsTypedKeys, Back
  <1>8. QED
    BY <1>1, <1>4, <1>5, <1>6, <1>7 DEF KInv

(***************************************************************************)
(* The store of a stale count only forgets characters.                     *)
(***************************************************************************)
LEMMA StoreCountStep == ASSUME KInv, StoreCount PROVE KInv'
  <1>1. n \in 1 .. count /\ count \in 0 .. N /\ pc = "take" /\ typed \in Nat
    BY DEF KInv, TypeOK, StoreCount
  <1>2. /\ count' = n - 1 /\ count' \in 0 .. N /\ count' <= count
        /\ todo' = todo \ {"store"}
        /\ UNCHANGED <<buffer, buffer_index, pc, n, index, char, returned, typed>>
    BY <1>1, SizeAssumption DEF StoreCount
  <1>3. TypeOK'
    BY <1>2 DEF StoreCount, KInv, TypeOK, keys
  <1>4. UnreadIntact'
    BY <1>1, <1>2 DEF KInv, UnreadIntact, Back
  <1>5. ReturnsTypedKeys'
    BY <1>2 DEF KInv, ReturnsTypedKeys
  <1>6. QED
    BY <1>1, <1>2, <1>3, <1>4, <1>5 DEF KInv

LEMMA ReturnStep == ASSUME KInv, Return PROVE KInv'
  <1>1. char \in 1 .. typed /\ typed \in 0 .. MaxKeys /\ char \in 0 .. MaxKeys
    BY DEF KInv, TypeOK, Return
  <1>2. /\ returned' = Append(returned, char) /\ pc' = "out" /\ todo = {}
        /\ UNCHANGED <<buffer, buffer_index, count, todo, n, index, char, typed>>
    BY DEF Return, ring
  <1>3. returned \in Seq(0 .. MaxKeys)
    BY DEF KInv, TypeOK
  <1>4. returned' \in Seq(0 .. MaxKeys)
    BY <1>1, <1>2, <1>3
  <1>5. ReturnsTypedKeys'
    <2>1. ASSUME NEW i \in 1 .. Len(returned) + 1
          PROVE  returned'[i] \in 1 .. typed
      <3>1. CASE i \in 1 .. Len(returned)
        BY <1>2, <1>3, <3>1 DEF KInv, ReturnsTypedKeys
      <3>2. CASE i = Len(returned) + 1
        BY <1>1, <1>2, <1>3, <3>2
      <3>3. QED
        BY <1>3, <3>1, <3>2
    <2>2. DOMAIN returned' = 1 .. Len(returned) + 1
      BY <1>1, <1>2, <1>3
    <2>3. QED
      BY <1>2, <2>1, <2>2 DEF ReturnsTypedKeys
  <1>6. TypeOK'
    BY <1>2, <1>4 DEF Return, KInv, TypeOK, keys
  <1>7. UnreadIntact'
    BY <1>2 DEF KInv, UnreadIntact, Back
  <1>8. QED
    BY <1>2, <1>5, <1>6, <1>7 DEF KInv

LEMMA KStep == ASSUME KInv, [Next]_vars PROVE KInv'
  <1> USE SizeAssumption
  <1>1. CASE Call
    BY <1>1 DEF Call, KInv, TypeOK, UnreadIntact, ReturnsTypedKeys, Back, ring, keys
  <1>2. CASE LoadCount
    BY <1>2 DEF LoadCount, KInv, TypeOK, UnreadIntact, ReturnsTypedKeys, Back, ring, keys
  <1>3. CASE LoadIndex
    BY <1>3, LoadIndexStep
  <1>4. CASE StoreCount
    BY <1>4, StoreCountStep
  <1>5. CASE LoadChar
    BY <1>5 DEF LoadChar, KInv, TypeOK, UnreadIntact, ReturnsTypedKeys, Back, ring, keys
  <1>6. CASE Return
    BY <1>6, ReturnStep
  <1>7. ASSUME NEW key \in Keyboard, KeyDown(key)
        PROVE  KInv'
    <2>1. CASE Put /\ UNCHANGED <<keys, reader>> /\ UNCHANGED halted
               /\ raced' = (raced \/ pc = "index" \/ "store" \in todo)
               /\ overrun' = (overrun \/ ("char" \in todo /\ buffer'[index] # buffer[index]))
      <3>1. raced' \in BOOLEAN /\ overrun' \in BOOLEAN /\ halted' \in BOOLEAN
        BY <2>1 DEF KInv, TypeOK
      <3>2. QED
        BY <2>1, <3>1, PutStep DEF keys
    <2>2. CASE UNCHANGED <<ring, typed, raced, overrun, keys, reader>> /\ halted' \in BOOLEAN
      BY <2>2 DEF KInv, TypeOK, UnreadIntact, ReturnsTypedKeys, Back, ring, keys, reader
    <2>3. halted \in BOOLEAN
      BY DEF KInv, TypeOK
    <2>4. QED
      BY <1>7, <2>1, <2>2, <2>3 DEF KeyDown, Lookup, Keyboard
  <1>8. CASE \E down \in BOOLEAN : Shift(down) \/ Ctrl(down)
    BY <1>8 DEF Shift, Ctrl, KInv, TypeOK, UnreadIntact, ReturnsTypedKeys, Back, ring, reader
  <1>9. CASE UNCHANGED vars
    BY <1>9 DEF vars, KInv, TypeOK, UnreadIntact, ReturnsTypedKeys, Back, ring, keys, reader
  <1>10. QED
    BY <1>1, <1>2, <1>3, <1>4, <1>5, <1>6, <1>7, <1>8, <1>9
       DEF Next, GetChar, fshell_interrupt_handler

(* The count last characters are in the ring, and only typed characters    *)
(* are returned, for every ring size and every interleaving.               *)
THEOREM RingIsSound == Spec => [](TypeOK /\ UnreadIntact /\ ReturnsTypedKeys)
  <1>1. Init => KInv
    BY KEstablish
  <1>2. KInv /\ [Next]_vars => KInv'
    BY KStep
  <1>3. KInv => TypeOK /\ UnreadIntact /\ ReturnsTypedKeys
    BY DEF KInv
  <1>4. QED
    BY <1>1, <1>2, <1>3, PTL DEF Spec

(* The fields of the ring and of the reader keep their types: every        *)
(* subscript the handler and getchar_locking use is a slot of the ring.    *)
THEOREM SubscriptsInRing == Spec => []TypeOK
  BY RingIsSound, PTL

-----------------------------------------------------------------------------
(* The order of what is returned.                                          *)

(* The character of the call in progress, from LoadIndex on.               *)
Coming == IF "char" \in todo THEN buffer[index] ELSE char

(* What was returned is older than what is unread, and the character of    *)
(* the call in progress lies between the two, also while the stale count   *)
(* is on its way back into count.                                          *)
OInv ==
  ~ overrun =>
    /\ \A i, j \in DOMAIN returned : i < j => returned[i] < returned[j]
    /\ \A i \in DOMAIN returned : returned[i] <= typed - count
    /\ pc = "take" => /\ \A i \in DOMAIN returned : returned[i] < Coming
                      /\ "store" \in todo => Coming <= typed + 1 - n
                      /\ "store" \notin todo => Coming <= typed - count

(* Without a race the reader's copy is count, and returned, in hand and    *)
(* unread add up to what was typed.                                        *)
LInv ==
  ~ raced /\ ~ overrun =>
    /\ \A i \in DOMAIN returned : returned[i] = i
    /\ pc = "index" \/ "store" \in todo => n = count
    /\ pc = "take" => Coming = Len(returned) + 1
    /\ Len(returned) + count + (IF pc = "take" /\ "store" \notin todo THEN 1 ELSE 0) = typed

(* The numbers both invariants speak of.                                   *)
LEMMA RingNumbers ==
  ASSUME KInv
  PROVE  /\ typed \in Nat /\ count \in 0 .. typed /\ n \in Nat
         /\ returned \in Seq(Nat) /\ DOMAIN returned = 1 .. Len(returned)
         /\ \A i \in DOMAIN returned : returned[i] \in Nat
         /\ pc = "take" => Coming \in 1 .. typed
  <1>1. typed \in Nat /\ count \in 0 .. typed /\ n \in Nat
    BY SizeAssumption DEF KInv, TypeOK, UnreadIntact
  <1>2. returned \in Seq(0 .. MaxKeys)
    BY DEF KInv, TypeOK
  <1>3. returned \in Seq(Nat)
    BY <1>2, SizeAssumption
  <1>4. pc = "take" => Coming \in 1 .. typed
    BY DEF KInv, Coming
  <1>5. QED
    BY <1>1, <1>3, <1>4

(* A key adds one to typed and to count, or to neither, and spares the     *)
(* slot of the call in progress unless overrun says otherwise.             *)
LEMMA KeyDownEffect ==
  ASSUME KInv, NEW key \in Keyboard, KeyDown(key)
  PROVE  /\ \/ typed' = typed + 1 /\ count' = count + 1
            \/ typed' = typed /\ count' = count
         /\ UNCHANGED <<pc, todo, n, index, char, returned>>
         /\ ~ overrun' => ~ overrun /\ Coming' = Coming
         /\ ~ raced' => ~ raced /\ (pc = "index" \/ "store" \in todo => UNCHANGED <<typed, count>>)
  <1>1. UNCHANGED <<pc, todo, n, index, char, returned>>
    BY DEF KeyDown, reader
  <1>2. CASE /\ Put
             /\ raced' = (raced \/ pc = "index" \/ "store" \in todo)
             /\ overrun' = (overrun \/ ("char" \in todo /\ buffer'[index] # buffer[index]))
    BY <1>1, <1>2, Zenon DEF Put, Coming, ring
  <1>3. CASE UNCHANGED <<ring, typed, raced, overrun>>
    BY <1>1, <1>3 DEF Coming, ring
  <1>4. QED
    BY <1>2, <1>3 DEF KeyDown, Lookup, Keyboard

LEMMA OLoadIndex == ASSUME KInv, OInv, LoadIndex PROVE OInv'
  <1>1. /\ n \in 1 .. count /\ count \in 0 .. N /\ n \in 1 .. N
        /\ buffer[Back(n)] = typed + 1 - n
    BY SizeAssumption DEF KInv, TypeOK, UnreadIntact, LoadIndex
  <1>2. /\ Coming' = typed + 1 - n
        /\ pc' = "take" /\ "store" \in todo'
        /\ UNCHANGED <<n, count, typed, returned, overrun>>
    BY <1>1 DEF LoadIndex, Coming, Back, ring
  <1>3. QED
    BY <1>1, <1>2, RingNumbers DEF OInv

LEMMA OReturn == ASSUME KInv, OInv, Return PROVE OInv'
  <1>1. /\ pc = "take" /\ todo = {} /\ pc' = "out"
        /\ returned' = Append(returned, char) /\ Coming = char
        /\ UNCHANGED <<count, typed, overrun>>
    BY DEF Return, Coming, ring
  <1>2. returned \in Seq(Nat) /\ char \in Nat
    BY <1>1, RingNumbers
  <1>3. /\ DOMAIN returned' = 1 .. Len(returned) + 1
        /\ \A i \in 1 .. Len(returned) : returned'[i] = returned[i]
        /\ returned'[Len(returned) + 1] = char
    BY <1>1, <1>2
  <1>4. QED
    BY <1>1, <1>2, <1>3, RingNumbers DEF OInv

LEMMA OStep == ASSUME KInv, OInv, [Next]_vars PROVE OInv'
  <1>1. CASE Call \/ LoadCount
    BY <1>1 DEF Call, LoadCount, OInv, Coming, ring
  <1>2. CASE LoadIndex
    BY <1>2, OLoadIndex
  <1>3. CASE StoreCount
    <2>1. /\ "store" \in todo /\ pc = "take" /\ count' = n - 1 /\ n \in 1 .. count
          /\ "store" \notin todo' /\ Coming' = Coming
          /\ UNCHANGED <<pc, typed, returned, overrun>>
      BY <1>3 DEF StoreCount, Coming, KInv
    <2>2. QED
      BY <2>1, RingNumbers DEF OInv
  <1>4. CASE LoadChar
    <2>1. /\ ("store" \in todo') = ("store" \in todo) /\ Coming' = Coming
          /\ UNCHANGED <<pc, typed, count, n, returned, overrun>>
      BY <1>4 DEF LoadChar, Coming, ring
    <2>2. QED
      BY <2>1 DEF OInv
  <1>5. CASE Return
    BY <1>5, OReturn
  <1>6. ASSUME NEW key \in Keyboard, KeyDown(key) PROVE OInv'
    <2>1. /\ \/ typed' = typed + 1 /\ count' = count + 1
             \/ typed' = typed /\ count' = count
          /\ UNCHANGED <<pc, todo, n, index, char, returned>>
          /\ ~ overrun' => ~ overrun /\ Coming' = Coming
      BY <1>6, KeyDownEffect
    <2>2. QED
      BY <2>1, RingNumbers DEF OInv
  <1>7. CASE UNCHANGED <<ring, reader, typed, overrun>>
    BY <1>7 DEF OInv, Coming, ring, reader
  <1>8. QED
    BY <1>1, <1>2, <1>3, <1>4, <1>5, <1>6, <1>7
       DEF Next, GetChar, fshell_interrupt_handler, Shift, Ctrl, vars

(* Characters come out in the order they were typed, none twice, for every *)
(* ring size, as long as no key lands in the slot about to be read.        *)
THEOREM CharactersInOrder == Spec => []InOrderUnlessOverrun
  <1>1. Init => KInv /\ OInv
    BY KEstablish DEF Init, OInv
  <1>2. KInv /\ OInv /\ [Next]_vars => KInv' /\ OInv'
    BY KStep, OStep
  <1>3. OInv => InOrderUnlessOverrun
    BY DEF OInv, InOrderUnlessOverrun
  <1>4. QED
    BY <1>1, <1>2, <1>3, PTL DEF Spec

-----------------------------------------------------------------------------
(* Nothing is lost without a race.                                         *)

LEMMA LReturn == ASSUME KInv, LInv, Return PROVE LInv'
  <1>1. /\ pc = "take" /\ todo = {} /\ todo' = {} /\ pc' = "out"
        /\ returned' = Append(returned, char) /\ Coming = char
        /\ UNCHANGED <<count, typed, overrun, raced>>
    BY DEF Return, Coming, ring
  <1>2. returned \in Seq(Nat) /\ char \in Nat
    BY <1>1, RingNumbers
  <1>3. /\ DOMAIN returned' = 1 .. Len(returned) + 1 /\ Len(returned') = Len(returned) + 1
        /\ \A i \in 1 .. Len(returned) : returned'[i] = returned[i]
        /\ returned'[Len(returned) + 1] = char
    BY <1>1, <1>2
  <1>4. QED
    BY <1>1, <1>2, <1>3, RingNumbers DEF LInv

LEMMA LStep == ASSUME KInv, LInv, [Next]_vars PROVE LInv'
  <1>1. CASE Call
    BY <1>1 DEF Call, LInv, Coming, ring, KInv
  <1>2. CASE LoadCount
    BY <1>2 DEF LoadCount, LInv, Coming, ring, KInv
  <1>3. CASE LoadIndex
    <2>1. /\ n \in 1 .. count /\ count \in 0 .. N /\ n \in 1 .. N /\ pc = "index"
          /\ buffer[Back(n)] = typed + 1 - n
      BY <1>3, SizeAssumption DEF KInv, TypeOK, UnreadIntact, LoadIndex
    <2>2. /\ Coming' = typed + 1 - n
          /\ pc' = "take" /\ "store" \in todo'
          /\ UNCHANGED <<n, count, typed, returned, overrun, raced>>
      BY <1>3, <2>1 DEF LoadIndex, Coming, Back, ring
    <2>3. QED
      BY <2>1, <2>2, RingNumbers DEF LInv
  <1>4. CASE StoreCount
    <2>1. /\ "store" \in todo /\ pc = "take" /\ count' = n - 1
          /\ "store" \notin todo' /\ Coming' = Coming
          /\ UNCHANGED <<pc, typed, returned, overrun, raced>>
      BY <1>4 DEF StoreCount, Coming, KInv
    <2>2. QED
      BY <2>1, RingNumbers DEF LInv
  <1>5. CASE LoadChar
    <2>1. /\ ("store" \in todo') = ("store" \in todo) /\ Coming' = Coming
          /\ UNCHANGED <<pc, typed, count, n, returned, overrun, raced>>
      BY <1>5 DEF LoadChar, Coming, ring
    <2>2. QED
      BY <2>1 DEF LInv
  <1>6. CASE Return
    BY <1>6, LReturn
  <1>7. ASSUME NEW key \in Keyboard, KeyDown(key) PROVE LInv'
    <2>1. /\ \/ typed' = typed + 1 /\ count' = count + 1
             \/ typed' = typed /\ count' = count
          /\ UNCHANGED <<pc, todo, n, index, char, returned>>
          /\ ~ overrun' => ~ overrun /\ Coming' = Coming
          /\ ~ raced' => ~ raced /\ (pc = "index" \/ "store" \in todo => UNCHANGED <<typed, count>>)
      BY <1>7, KeyDownEffect
    <2>2. QED
      BY <2>1, RingNumbers DEF LInv
  <1>8. CASE UNCHANGED <<ring, reader, typed, overrun, raced>>
    BY <1>8 DEF LInv, Coming, ring, reader
  <1>9. QED
    BY <1>1, <1>2, <1>3, <1>4, <1>5, <1>6, <1>7, <1>8
       DEF Next, GetChar, fshell_interrupt_handler, Shift, Ctrl, vars

(* If no key came between a load and the store of count, what was returned *)
(* is all that was typed but the last count characters.                    *)
THEOREM LosslessWithoutRace == Spec => []LosslessUnlessRaced
  <1>1. Init => KInv /\ LInv
    BY KEstablish DEF Init, LInv
  <1>2. KInv /\ LInv /\ [Next]_vars => KInv' /\ LInv'
    BY KStep, LStep
  <1>3. KInv /\ LInv => LosslessUnlessRaced
    BY RingNumbers DEF LInv, LosslessUnlessRaced
  <1>4. QED
    BY <1>1, <1>2, <1>3, PTL DEF Spec
=============================================================================
