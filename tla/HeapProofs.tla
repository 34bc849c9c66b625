------------------------------ MODULE HeapProofs ------------------------------
(***************************************************************************)
(* The kernel heap for every page size, header size, memory map and        *)
(* sequence of calls, as long as the page allocator does not run dry:      *)
(* blocks lie apart, the counters and l_bestBet follow the lists, the heap *)
(* grows only when it is full, and all it does to the pages is to allocate *)
(* them and to free what it holds, which makes the theorems of the page    *)
(* allocator theorems about the heap's pages.                              *)
(***************************************************************************)
EXTENDS Heap, NatInduction, TLAPS

AP == INSTANCE PmmProofs WITH
  held <- MajorRuns \cup TableRuns,
  RunLengths <- {1} \cup {PagesFor(SizeOf(req)) : req \in Requests},
  Callers <- {"heap", "paging"}

-----------------------------------------------------------------------------
(* Operators on sequences and numbers.                                     *)

LEMMA InsertAtFacts ==
  ASSUME NEW S, NEW s \in Seq(S), NEW k \in 1 .. Len(s) + 1, NEW e \in S
  PROVE  /\ InsertAt(s, k, e) \in Seq(S)
         /\ Len(InsertAt(s, k, e)) = Len(s) + 1
         /\ InsertAt(s, k, e)[k] = e
         /\ Inserts(s, Len(s), k, InsertAt(s, k, e))
  <1> DEFINE front == SubSeq(s, 1, k - 1)
             back == SubSeq(s, k, Len(s))
             r == front \o <<e>> \o back
  <1>1. /\ front \in Seq(S) /\ Len(front) = k - 1
        /\ \A i \in 1 .. k - 1 : front[i] = s[i]
    OBVIOUS
  <1>2. /\ back \in Seq(S) /\ Len(back) = Len(s) - k + 1
        /\ \A i \in 1 .. Len(s) - k + 1 : back[i] = s[i + k - 1]
    OBVIOUS
  <1>3. InsertAt(s, k, e) = r
    BY DEF InsertAt
  <1> HIDE DEF front, back
  <1>4. r \in Seq(S) /\ Len(r) = Len(s) + 1
    BY <1>1, <1>2
  <1>5. r[k] = e
    BY <1>1, <1>2
  <1>6. \A i \in 1 .. Len(s) : i < k => r[i] = s[i]
    BY <1>1, <1>2
  <1>7. ASSUME NEW i \in 1 .. Len(s), i >= k PROVE r[i + 1] = s[i]
    <2>1. r[i + 1] = back[i + 1 - k]
      <3>1. PICK m : m = front \o <<e>>
        OBVIOUS
      <3>2. m \in Seq(S) /\ Len(m) = k
        BY <1>1, <3>1
      <3>3. i + 1 \in k + 1 .. k + Len(back)
        BY <1>2, <1>7
      <3>4. (m \o back)[i + 1] = back[i + 1 - k]
        BY <1>2, <3>2, <3>3
      <3>5. QED
        BY <3>1, <3>4
    <2>2. i + 1 - k \in 1 .. Len(s) - k + 1 /\ (i + 1 - k) + k - 1 = i
      BY <1>7
    <2>3. QED
      BY <1>2, <2>1, <2>2
  <1> HIDE DEF r
  <1>8. QED
    BY <1>3, <1>4, <1>5, <1>6, <1>7 DEF Inserts

LEMMA FirstInserted ==
  ASSUME NEW e
  PROVE  InsertAt(<<>>, 1, e)[1] = e
  <1>1. ASSUME NEW s \in Seq({e}), s = <<>> PROVE InsertAt(s, 1, e)[1] = e
    <2>1. Len(s) = 0
      BY <1>1
    <2>2. 1 \in 1 .. Len(s) + 1 /\ e \in {e}
      BY <2>1
    <2>3. QED
      BY <2>2, InsertAtFacts
  <1>2. <<>> \in Seq({e})
    OBVIOUS
  <1>3. QED
    BY <1>1, <1>2

LEMMA RemoveAtFacts ==
  ASSUME NEW S, NEW s \in Seq(S), NEW k \in 1 .. Len(s)
  PROVE  /\ RemoveAt(s, k) \in Seq(S)
         /\ Len(RemoveAt(s, k)) = Len(s) - 1
         /\ Inserts(RemoveAt(s, k), Len(s) - 1, k, s)
  <1> DEFINE front == SubSeq(s, 1, k - 1)
             back == SubSeq(s, k + 1, Len(s))
             r == front \o back
  <1>1. /\ front \in Seq(S) /\ Len(front) = k - 1
        /\ \A i \in 1 .. k - 1 : front[i] = s[i]
    OBVIOUS
  <1>2. /\ back \in Seq(S) /\ Len(back) = Len(s) - k
        /\ \A i \in 1 .. Len(s) - k : back[i] = s[i + k]
    OBVIOUS
  <1>3. RemoveAt(s, k) = r
    BY DEF RemoveAt
  <1> HIDE DEF front, back
  <1>4. r \in Seq(S) /\ Len(r) = Len(s) - 1
    BY <1>1, <1>2
  <1>5. \A i \in 1 .. Len(s) - 1 : i < k => r[i] = s[i]
    BY <1>1, <1>2
  <1>6. ASSUME NEW i \in 1 .. Len(s) - 1, i >= k PROVE s[i + 1] = r[i]
    <2>1. i \in Len(front) + 1 .. Len(front) + Len(back)
      BY <1>1, <1>2, <1>6
    <2>2. r[i] = back[i - (k - 1)]
      BY <1>1, <1>2, <2>1
    <2>3. i - (k - 1) \in 1 .. Len(s) - k /\ (i - (k - 1)) + k = i + 1
      BY <1>6
    <2>4. QED
      BY <1>2, <2>2, <2>3
  <1> HIDE DEF r
  <1>7. QED
    BY <1>3, <1>4, <1>5, <1>6 DEF Inserts

(* The least element of a set of naturals.                                 *)
LEMMA MinIsLeast ==
  ASSUME NEW S, S \subseteq Nat, S # {}
  PROVE  Min(S) \in S /\ \A x \in S : Min(S) <= x
  BY NatMin DEF Min

(* The largest value of a non-empty sequence.                              *)
LEMMA MaxIsReached ==
  ASSUME NEW n \in Nat \ {0}, NEW f, \A i \in 1 .. n : f[i] \in Int
  PROVE  /\ Max({f[i] : i \in 1 .. n}) \in {f[i] : i \in 1 .. n}
         /\ \A i \in 1 .. n : Max({f[j] : j \in 1 .. n}) >= f[i]
  <1> DEFINE S == {k \in 0 .. n : k # 0 => \E i \in 1 .. k : \A j \in 1 .. k : f[i] >= f[j]}
  <1>1. 0 \in S
    OBVIOUS
  <1>2. ASSUME NEW k \in 1 .. n, k - 1 \in S PROVE k \in S
    <2>1. CASE k = 1
      BY <2>1
    <2>2. CASE k # 1
      <3>1. PICK i \in 1 .. k - 1 : \A j \in 1 .. k - 1 : f[i] >= f[j]
        BY <1>2, <2>2
      <3>2. f[i] \in Int /\ f[k] \in Int /\ \A j \in 1 .. k : j = k \/ j \in 1 .. k - 1
        OBVIOUS
      <3>3. CASE f[i] >= f[k]
        <4>1. \A j \in 1 .. k : f[i] >= f[j]
          BY <3>1, <3>2, <3>3
        <4>2. QED
          BY <4>1
      <3>4. CASE f[k] >= f[i]
        <4>1. \A j \in 1 .. k : f[k] >= f[j]
          BY <3>1, <3>2, <3>4
        <4>2. QED
          BY <4>1
      <3>5. QED
        BY <3>2, <3>3, <3>4
    <2>3. QED
      BY <2>1, <2>2
  <1>3. n \in S
    <2> HIDE DEF S
    <2>1. QED
      BY <1>1, <1>2, UpTo
  <1>4. PICK i \in 1 .. n : \A j \in 1 .. n : f[i] >= f[j]
    BY <1>3
  <1>5. \A y \in {f[j] : j \in 1 .. n} : f[i] >= y
    BY <1>4
  <1>6. QED
    BY <1>5 DEF Max

(* The pages of a major hold its header and the block it is made for.      *)
LEMMA PagesForHolds ==
  ASSUME NEW size \in Nat
  PROVE  /\ PagesFor(size) \in Nat \ {0}
         /\ PagesFor(size) * BytesPerPage >= size + MajorHeader + MinorHeader
  <1> DEFINE b == size + MajorHeader + MinorHeader
             st == (b + BytesPerPage - 1) \div BytesPerPage
  <1> USE HeapAssumption
  <1>1. b \in Nat \ {0} /\ BytesPerPage \in Nat \ {0}
    OBVIOUS
  <1>2. st \in Nat \ {0} /\ b <= st * BytesPerPage
    <2> HIDE DEF b
    <2>1. QED
      BY <1>1, AP!RoundUp
  <1>3. PagesFor(size) = IF st < PageCount THEN PageCount ELSE st
    BY DEF PagesFor
  <1>4. st < PageCount => st * BytesPerPage <= PageCount * BytesPerPage
    <2> HIDE DEF st
    <2>1. QED
      BY <1>1, <1>2
  <1>5. QED
    <2> HIDE DEF st, b
    <2>1. QED
      BY <1>1, <1>2, <1>3, <1>4 DEF b
-----------------------------------------------------------------------------
(* One major: its blocks are apart, and usage says how many bytes they and *)
(* the headers take.                                                       *)

Minor == [at : Nat, size : Nat, req : Nat]

Sizes(m) == [k \in 1 .. Len(m.minors) |-> m.minors[k].size]

(* The bytes in the blocks of a major.                                     *)
Filled(m) == Total(Sizes(m), 1 .. Len(m.minors))

Laid(m) ==
  /\ m \in [page : Nat, pages : Nat \ {0}, usage : Int, minors : Seq(Minor)]
  /\ \A k \in 0 .. Len(m.minors) : Gap(m, k) >= 0
  /\ \A k \in 1 .. Len(m.minors) : SizeOf(m.minors[k].req) <= m.minors[k].size
  /\ m.usage = MajorHeader + Len(m.minors) * MinorHeader + Filled(m)

LEMMA MinorParts ==
  ASSUME NEW b \in Minor
  PROVE  b.at \in Int /\ b.size \in Int /\ b.req \in Int
  BY DEF Minor

LEMMA FilledIsNumber ==
  ASSUME NEW m, Laid(m)
  PROVE  /\ Filled(m) \in Int
         /\ Len(m.minors) \in Nat
         /\ \A k \in 1 .. Len(m.minors) : m.minors[k] \in Minor /\ Sizes(m)[k] = m.minors[k].size
  <1>1. /\ Len(m.minors) \in Nat
        /\ \A k \in 1 .. Len(m.minors) : m.minors[k] \in Minor
    BY DEF Laid
  <1>2. \A k \in 1 .. Len(m.minors) : Sizes(m)[k] \in Int /\ Sizes(m)[k] = m.minors[k].size
    BY <1>1 DEF Sizes, Minor
  <1>3. Filled(m) \in Int
    <2>1. IsFiniteSet(1 .. Len(m.minors))
      BY <1>1, FS_Interval
    <2>2. QED
      BY <1>2, <2>1, SumTakeOut DEF Filled
  <1>4. QED
    BY <1>1, <1>2, <1>3

(* A new block in a gap that is large enough touches no other.             *)
LEMMA PlaceKeepsLaid ==
  ASSUME NEW m, Laid(m), NEW req \in Nat, Gaps(m, SizeOf(req)) # {}
  PROVE  /\ Laid(Place(m, req))
         /\ Place(m, req).page = m.page /\ Place(m, req).pages = m.pages
         /\ Len(Place(m, req).minors) = Len(m.minors) + 1
         /\ Filled(Place(m, req)) = Filled(m) + SizeOf(req)
  <1> USE HeapAssumption
  <1>0. PICK n : n = Len(m.minors)
    OBVIOUS
  <1>1. n \in Nat /\ Filled(m) \in Int /\ \A i \in 1 .. n : m.minors[i] \in Minor
    BY <1>0, FilledIsNumber
  <1>2. SizeOf(req) \in Nat
    BY DEF SizeOf
  <1>3. PICK k \in 0 .. n : k = Min(Gaps(m, SizeOf(req))) /\ Gap(m, k) >= SizeOf(req) + MinorHeader
    <2>1. Gaps(m, SizeOf(req)) \subseteq Nat
      BY <1>0, <1>1 DEF Gaps
    <2>2. Min(Gaps(m, SizeOf(req))) \in Gaps(m, SizeOf(req))
      BY <2>1, MinIsLeast
    <2>3. QED
      BY <1>0, <2>2 DEF Gaps
  <1>4. PICK r : r = Place(m, req)
    OBVIOUS
  <1>5. GapStart(m, k) \in Nat
    BY <1>1, <1>3 DEF GapStart, End, Minor
  <1>6. PICK e \in Minor :
          e = [at |-> GapStart(m, k), size |-> SizeOf(req), req |-> req]
    BY <1>2, <1>5 DEF Minor
  <1>7. PICK p \in 1 .. n + 1 : p = k + 1
    BY <1>1, <1>3
  <1>8. PICK s \in Seq(Minor) : s = m.minors /\ Len(s) = n
    BY <1>0 DEF Laid
  <1>9. PICK t : t = InsertAt(s, p, e)
    OBVIOUS
  <1>10. /\ t \in Seq(Minor) /\ Len(t) = n + 1 /\ t[p] = e
         /\ Inserts(s, n, p, t)
    <2>1. p \in 1 .. Len(s) + 1
      BY <1>8
    <2>2. /\ InsertAt(s, p, e) \in Seq(Minor)
          /\ Len(InsertAt(s, p, e)) = Len(s) + 1
          /\ InsertAt(s, p, e)[p] = e
          /\ Inserts(s, Len(s), p, InsertAt(s, p, e))
      BY <2>1, InsertAtFacts
    <2>3. QED
      BY <1>8, <1>9, <2>2
  <1>11. r = [m EXCEPT !.usage = @ + SizeOf(req) + MinorHeader, !.minors = t]
    <2>1. t = InsertAt(m.minors, Min(Gaps(m, SizeOf(req))) + 1,
                       [at |-> GapStart(m, Min(Gaps(m, SizeOf(req)))), size |-> SizeOf(req), req |-> req])
      BY <1>3, <1>6, <1>7, <1>8, <1>9
    <2>2. QED
      BY <1>4, <2>1, Zenon DEF Place
  <1>12. /\ r.minors = t
         /\ r.usage = m.usage + SizeOf(req) + MinorHeader
         /\ r.page = m.page /\ r.pages = m.pages
         /\ r \in [page : Nat, pages : Nat \ {0}, usage : Int, minors : Seq(Minor)]
    <2>1. m \in [page : Nat, pages : Nat \ {0}, usage : Int, minors : Seq(Minor)]
      BY DEF Laid
    <2>2. m.usage + SizeOf(req) + MinorHeader \in Int
      BY <1>2, <2>1
    <2>3. QED
      BY <1>10, <1>11, <2>1, <2>2
  <1>13. /\ e.at = GapStart(m, k) /\ e.size = SizeOf(req) /\ e.req = req
         /\ Bytes(r) = Bytes(m) /\ Bytes(m) \in Int
         /\ \A i \in 1 .. n : s[i].at \in Int /\ s[i].size \in Int /\ s[i].req \in Int
    <2>1. m.pages \in Nat
      BY DEF Laid
    <2>2. Bytes(r) = Bytes(m) /\ Bytes(m) \in Int
      BY <1>12, <2>1 DEF Bytes
    <2>3. \A i \in 1 .. n : s[i].at \in Int /\ s[i].size \in Int /\ s[i].req \in Int
      <3>1. \A i \in 1 .. n : s[i] \in Minor
        BY <1>1, <1>8
      <3>2. QED
        BY <3>1, MinorParts
    <2>4. QED
      BY <1>6, <2>2, <2>3
  <1>14. \A j \in 0 .. n :
           Gap(m, j) = (IF j = n THEN Bytes(m) ELSE s[j + 1].at)
                         - (IF j = 0 THEN MajorHeader ELSE s[j].at + MinorHeader + s[j].size)
    BY <1>0, <1>8 DEF Gap, GapStart, End
  <1>15. \A j \in 0 .. n + 1 :
           Gap(r, j) = (IF j = n + 1 THEN Bytes(m) ELSE t[j + 1].at)
                         - (IF j = 0 THEN MajorHeader ELSE t[j].at + MinorHeader + t[j].size)
    BY <1>10, <1>12, <1>13 DEF Gap, GapStart, End
  <1>16. GapStart(m, k) = IF k = 0 THEN MajorHeader ELSE s[k].at + MinorHeader + s[k].size
    BY <1>8 DEF GapStart, End
  <1>17. \A j \in 0 .. n : Gap(m, j) >= 0
    BY <1>0 DEF Laid
  <1>18. ASSUME NEW j \in 0 .. n + 1 PROVE Gap(r, j) >= 0
    <2>1. CASE j < k
      <3>1. j \in 0 .. n /\ j + 1 < p /\ (j # 0 => t[j] = s[j]) /\ (j # n => t[j + 1] = s[j + 1])
        BY <1>1, <1>3, <1>7, <1>10, <2>1, SMTT(30) DEF Inserts
      <3>2. Gap(r, j) = t[j + 1].at
                          - (IF j = 0 THEN MajorHeader ELSE t[j].at + MinorHeader + t[j].size)
        BY <1>1, <1>3, <1>15, <2>1
      <3>3. Gap(m, j) = s[j + 1].at
                          - (IF j = 0 THEN MajorHeader ELSE s[j].at + MinorHeader + s[j].size)
        BY <1>3, <1>14, <2>1, <3>1
      <3>4. t[j + 1] = s[j + 1] /\ (j # 0 => t[j] = s[j])
        BY <1>3, <2>1, <3>1
      <3>5. QED
        BY <1>17, <3>1, <3>2, <3>3, <3>4
    <2>2. CASE j = k
      <3>1. j # 0 => t[j] = s[j]
        BY <1>1, <1>3, <1>7, <1>10, <2>2 DEF Inserts
      <3>2. Gap(r, j) = e.at - GapStart(m, k)
        BY <1>1, <1>3, <1>7, <1>10, <1>15, <1>16, <2>2, <3>1, SMTT(30)
      <3>3. QED
        BY <1>5, <1>13, <3>2
    <2>3. CASE j = k + 1
      <3>1. k # n => t[j + 1] = s[k + 1]
        BY <1>1, <1>3, <1>7, <1>10, <2>3 DEF Inserts
      <3>2. Gap(r, j) = (IF k = n THEN Bytes(m) ELSE s[k + 1].at)
                          - (GapStart(m, k) + MinorHeader + SizeOf(req))
        BY <1>1, <1>3, <1>7, <1>10, <1>13, <1>15, <2>3, <3>1, SMTT(100)
      <3>3. Gap(m, k) = (IF k = n THEN Bytes(m) ELSE s[k + 1].at) - GapStart(m, k)
        BY <1>3, <1>14, <1>16
      <3>4. (IF k = n THEN Bytes(m) ELSE s[k + 1].at) \in Int
        BY <1>1, <1>3, <1>13
      <3>5. QED
        BY <1>2, <1>3, <1>5, <3>2, <3>3, <3>4, SMTT(30)
    <2>4. CASE j > k + 1
      <3>1. PICK i \in 1 .. n : i = j - 1 /\ i >= p
        BY <1>1, <1>3, <1>7, <2>4
      <3>2. t[j] = s[i] /\ (i # n => t[j + 1] = s[i + 1])
        BY <1>1, <1>10, <3>1, SMTT(30) DEF Inserts
      <3>3. Gap(r, j) = Gap(m, i)
        BY <1>1, <1>14, <1>15, <3>1, <3>2
      <3>4. QED
        BY <1>17, <3>1, <3>3
    <2>5. QED
      BY <1>1, <1>3, <2>1, <2>2, <2>3, <2>4
  <1>19. \A i \in 1 .. n + 1 :
           i = p \/ (i \in 1 .. n /\ t[i] = s[i]) \/ (i - 1 \in 1 .. n /\ t[i] = s[i - 1])
    <2>1. ASSUME NEW i \in 1 .. n + 1, i > p PROVE i - 1 \in 1 .. n /\ t[i] = s[i - 1]
      <3>1. i - 1 \in 1 .. n /\ i - 1 >= p /\ (i - 1) + 1 = i
        BY <1>1, <2>1
      <3>2. QED
        BY <1>10, <3>1 DEF Inserts
    <2>2. ASSUME NEW i \in 1 .. n + 1, i < p PROVE i \in 1 .. n /\ t[i] = s[i]
      BY <1>1, <1>10, <2>2 DEF Inserts
    <2>3. QED
      BY <2>1, <2>2
  <1>20. \A i \in 1 .. n : SizeOf(s[i].req) <= s[i].size
    BY <1>8, <1>13 DEF Laid
  <1>21. ASSUME NEW j \in 1 .. n + 1 PROVE SizeOf(t[j].req) <= t[j].size
    <2>1. SizeOf(e.req) <= e.size
      BY <1>2, <1>13
    <2>2. QED
      BY <1>10, <1>19, <1>20, <2>1
  <1>22. Filled(r) = Filled(m) + SizeOf(req)
    <2>1. PICK f : f = Sizes(m)
      OBVIOUS
    <2>2. PICK g : g = Sizes(r)
      OBVIOUS
    <2>3. \A i \in 1 .. n : f[i] = s[i].size /\ f[i] \in Int
      BY <1>8, <1>13, <2>1 DEF Sizes
    <2>4. \A i \in 1 .. n + 1 : g[i] = t[i].size
      BY <1>10, <1>12, <2>2 DEF Sizes
    <2>5. g[p] = SizeOf(req) /\ g[p] \in Int
      BY <1>2, <1>7, <1>10, <1>13, <2>4
    <2>6. Inserts(f, n, p, g)
      <3>1. ASSUME NEW i \in 1 .. n, i < p PROVE g[i] = f[i]
        <4>1. t[i] = s[i] /\ i \in 1 .. n + 1
          BY <1>1, <1>10, <3>1 DEF Inserts
        <4>2. QED
          BY <2>3, <2>4, <4>1
      <3>2. ASSUME NEW i \in 1 .. n, i >= p PROVE g[i + 1] = f[i]
        <4>1. t[i + 1] = s[i] /\ i + 1 \in 1 .. n + 1
          BY <1>1, <1>10, <3>2 DEF Inserts
        <4>2. QED
          BY <2>3, <2>4, <4>1
      <3>3. QED
        BY <3>1, <3>2 DEF Inserts
    <2>7. Total(g, 1 .. n + 1) = Total(f, 1 .. n) + g[p]
      BY <1>1, <1>7, <2>3, <2>5, <2>6, SumInsert
    <2>8. Filled(r) = Total(g, 1 .. n + 1) /\ Filled(m) = Total(f, 1 .. n)
      BY <1>8, <1>10, <1>12, <1>13, <2>1, <2>2 DEF Filled
    <2>9. QED
      BY <2>5, <2>7, <2>8
  <1>23. r.usage = MajorHeader + Len(r.minors) * MinorHeader + Filled(r)
    <2>1. m.usage = MajorHeader + n * MinorHeader + Filled(m)
      BY <1>8, <1>13 DEF Laid
    <2>2. (n + 1) * MinorHeader = n * MinorHeader + MinorHeader /\ n * MinorHeader \in Int
      BY <1>1
    <2>3. Len(r.minors) = n + 1
      BY <1>10, <1>12
    <2>4. QED
      BY <1>1, <1>2, <1>12, <1>22, <2>1, <2>2, <2>3
  <1>24. Laid(r)
    BY <1>10, <1>12, <1>18, <1>21, <1>23 DEF Laid
  <1>25. QED
    BY <1>0, <1>4, <1>10, <1>12, <1>22, <1>24

(* What kfree leaves of a major.                                           *)
Without(m, k) ==
  [m EXCEPT !.usage = @ - (m.minors[k].size + MinorHeader), !.minors = RemoveAt(@, k)]

(* The gap a block leaves joins its neighbours.                            *)
LEMMA FreeKeepsLaid ==
  ASSUME NEW m, Laid(m), NEW k \in 1 .. Len(m.minors)
  PROVE  /\ Laid(Without(m, k))
         /\ Without(m, k).page = m.page /\ Without(m, k).pages = m.pages
         /\ Len(Without(m, k).minors) = Len(m.minors) - 1
         /\ Filled(Without(m, k)) = Filled(m) - m.minors[k].size
  <1> USE HeapAssumption
  <1>0. PICK n : n = Len(m.minors)
    OBVIOUS
  <1>1. n \in Nat /\ k \in 1 .. n /\ Filled(m) \in Int /\ \A i \in 1 .. n : m.minors[i] \in Minor
    BY <1>0, FilledIsNumber
  <1>2. PICK r : r = Without(m, k)
    OBVIOUS
  <1>3. PICK s \in Seq(Minor) : s = m.minors /\ Len(s) = n
    BY <1>0 DEF Laid
  <1>4. PICK t : t = RemoveAt(s, k)
    OBVIOUS
  <1>5. t \in Seq(Minor) /\ Len(t) = n - 1 /\ Inserts(t, n - 1, k, s)
    <2>1. k \in 1 .. Len(s)
      BY <1>1, <1>3
    <2>2. /\ RemoveAt(s, k) \in Seq(Minor)
          /\ Len(RemoveAt(s, k)) = Len(s) - 1
          /\ Inserts(RemoveAt(s, k), Len(s) - 1, k, s)
      BY <2>1, RemoveAtFacts
    <2>3. QED
      BY <1>3, <1>4, <2>2
  <1>6. /\ \A i \in 1 .. n : s[i].at \in Nat /\ s[i].size \in Nat /\ s[i].req \in Nat
        /\ \A i \in 1 .. n - 1 : i < k => t[i] = s[i]
        /\ \A i \in 1 .. n - 1 : i >= k => t[i] = s[i + 1]
    <2>1. \A i \in 1 .. n : s[i].at \in Nat /\ s[i].size \in Nat /\ s[i].req \in Nat
      BY <1>1, <1>3 DEF Minor
    <2>2. QED
      BY <1>5, <2>1 DEF Inserts
  <1>7. r = [m EXCEPT !.usage = @ - (s[k].size + MinorHeader), !.minors = t]
    BY <1>2, <1>3, <1>4, Zenon DEF Without
  <1>8. /\ r.minors = t
        /\ r.usage = m.usage - (s[k].size + MinorHeader)
        /\ r.page = m.page /\ r.pages = m.pages
        /\ r \in [page : Nat, pages : Nat \ {0}, usage : Int, minors : Seq(Minor)]
    <2>1. m \in [page : Nat, pages : Nat \ {0}, usage : Int, minors : Seq(Minor)]
      BY DEF Laid
    <2>2. m.usage - (s[k].size + MinorHeader) \in Int
      BY <1>1, <1>6, <2>1
    <2>3. QED
      BY <1>5, <1>7, <2>1, <2>2
  <1>9. Bytes(r) = Bytes(m) /\ Bytes(m) \in Int
    <2>1. m.pages \in Nat
      BY DEF Laid
    <2>2. QED
      BY <1>8, <2>1 DEF Bytes
  <1>10. \A j \in 0 .. n :
           Gap(m, j) = (IF j = n THEN Bytes(m) ELSE s[j + 1].at)
                         - (IF j = 0 THEN MajorHeader ELSE s[j].at + MinorHeader + s[j].size)
    BY <1>0, <1>3 DEF Gap, GapStart, End
  <1>11. \A j \in 0 .. n - 1 :
           Gap(r, j) = (IF j = n - 1 THEN Bytes(m) ELSE t[j + 1].at)
                         - (IF j = 0 THEN MajorHeader ELSE t[j].at + MinorHeader + t[j].size)
    BY <1>5, <1>8, <1>9 DEF Gap, GapStart, End
  <1>12. \A j \in 0 .. n : Gap(m, j) >= 0
    BY <1>0 DEF Laid
  <1>13. ASSUME NEW j \in 0 .. n - 1 PROVE Gap(r, j) >= 0
    <2>1. CASE j < k - 1
      <3>1. j \in 0 .. n /\ j # n /\ j # n - 1 /\ t[j + 1] = s[j + 1] /\ (j # 0 => t[j] = s[j])
        BY <1>1, <1>6, <2>1
      <3>2. Gap(r, j) = t[j + 1].at
                          - (IF j = 0 THEN MajorHeader ELSE t[j].at + MinorHeader + t[j].size)
        BY <1>11, <3>1
      <3>3. Gap(m, j) = s[j + 1].at
                          - (IF j = 0 THEN MajorHeader ELSE s[j].at + MinorHeader + s[j].size)
        BY <1>10, <3>1
      <3>4. QED
        BY <1>12, <3>1, <3>2, <3>3
    <2>2. CASE j = k - 1
      <3>0. j # 0 => s[j].at \in Nat /\ s[j].size \in Nat
        BY <1>1, <1>6
      <3>1. PICK lo \in Int : lo = IF j = 0 THEN MajorHeader ELSE s[j].at + MinorHeader + s[j].size
        BY <3>0, SMTT(30)
      <3>2. PICK hi \in Int : hi = IF k = n THEN Bytes(m) ELSE s[k + 1].at
        BY <1>1, <1>6, <1>9
      <3>3. j # 0 => t[j] = s[j]
        BY <1>1, <1>6, <2>2
      <3>4. k # n => t[k] = s[k + 1]
        BY <1>1, <1>6
      <3>5. Gap(r, j) = hi - lo
        BY <1>1, <1>11, <2>2, <3>1, <3>2, <3>3, <3>4
      <3>6. Gap(m, j) = s[k].at - lo
        BY <1>1, <1>10, <2>2, <3>1
      <3>7. Gap(m, k) = hi - (s[k].at + MinorHeader + s[k].size)
        BY <1>1, <1>10, <3>2
      <3>8. s[k].at \in Int /\ s[k].size \in Nat /\ Gap(m, j) >= 0 /\ Gap(m, k) >= 0
        BY <1>1, <1>6, <1>12
      <3>9. QED
        BY <3>5, <3>6, <3>7, <3>8, SMTT(30)
    <2>3. CASE j > k - 1
      <3>1. PICK i \in 0 .. n : i = j + 1 /\ i # 0
        BY <1>1
      <3>2. t[j] = s[i] /\ (i # n => t[j + 1] = s[i + 1]) /\ j # 0
        BY <1>1, <1>6, <2>3, <3>1
      <3>3. Gap(r, j) = (IF i = n THEN Bytes(m) ELSE s[i + 1].at)
                          - (s[i].at + MinorHeader + s[i].size)
        BY <1>1, <1>11, <3>1, <3>2
      <3>4. Gap(m, i) = (IF i = n THEN Bytes(m) ELSE s[i + 1].at)
                          - (s[i].at + MinorHeader + s[i].size)
        BY <1>10, <3>1
      <3>5. QED
        BY <1>12, <3>3, <3>4
    <2>4. QED
      BY <1>1, <2>1, <2>2, <2>3
  <1>14. ASSUME NEW j \in 1 .. n - 1 PROVE SizeOf(t[j].req) <= t[j].size
    <2>1. \A i \in 1 .. n : SizeOf(s[i].req) <= s[i].size
      BY <1>3 DEF Laid
    <2>2. t[j] = s[j] \/ t[j] = s[j + 1]
      BY <1>1, <1>6
    <2>3. QED
      BY <1>1, <2>1, <2>2
  <1>15. Filled(r) = Filled(m) - s[k].size
    <2>1. PICK f : f = Sizes(r)
      OBVIOUS
    <2>2. PICK g : g = Sizes(m)
      OBVIOUS
    <2>3. \A i \in 1 .. n : g[i] = s[i].size /\ g[i] \in Int
      BY <1>3, <1>6, <2>2 DEF Sizes
    <2>4. \A i \in 1 .. n - 1 : f[i] = t[i].size
      BY <1>5, <1>8, <2>1 DEF Sizes
    <2>5. PICK j \in Nat : j = n - 1 /\ n = j + 1
      BY <1>1
    <2>6. \A i \in 1 .. j : f[i] \in Int
      <3>1. ASSUME NEW i \in 1 .. j PROVE t[i] = s[i] \/ t[i] = s[i + 1]
        BY <1>1, <1>6, <2>5
      <3>2. QED
        BY <1>6, <2>4, <2>5, <3>1
    <2>7. Inserts(f, j, k, g)
      <3>1. ASSUME NEW i \in 1 .. j, i < k PROVE g[i] = f[i]
        BY <1>6, <2>3, <2>4, <2>5, <3>1
      <3>2. ASSUME NEW i \in 1 .. j, i >= k PROVE g[i + 1] = f[i]
        <4>1. t[i] = s[i + 1] /\ i + 1 \in 1 .. n
          BY <1>6, <2>5, <3>2
        <4>2. QED
          BY <2>3, <2>4, <2>5, <4>1
      <3>3. QED
        BY <3>1, <3>2 DEF Inserts
    <2>8. Total(g, 1 .. j + 1) = Total(f, 1 .. j) + g[k] /\ Total(f, 1 .. j) \in Int
      BY <1>1, <2>3, <2>5, <2>6, <2>7, SumInsert
    <2>9. Filled(r) = Total(f, 1 .. j) /\ Filled(m) = Total(g, 1 .. j + 1)
      BY <1>3, <1>5, <1>8, <2>1, <2>2, <2>5 DEF Filled
    <2>10. QED
      BY <1>1, <2>3, <2>8, <2>9
  <1>16. r.usage = MajorHeader + Len(r.minors) * MinorHeader + Filled(r)
    <2>1. m.usage = MajorHeader + n * MinorHeader + Filled(m)
      BY <1>0 DEF Laid
    <2>2. (n - 1) * MinorHeader = n * MinorHeader - MinorHeader /\ n * MinorHeader \in Int
      BY <1>1
    <2>3. Len(r.minors) = n - 1
      BY <1>5, <1>8
    <2>4. QED
      BY <1>1, <1>6, <1>8, <1>15, <2>1, <2>2, <2>3
  <1>17. Laid(r)
    BY <1>5, <1>8, <1>13, <1>14, <1>16 DEF Laid
  <1>18. QED
    BY <1>0, <1>2, <1>3, <1>5, <1>8, <1>15, <1>17

LEMMA ShrinkKeepsLaid ==
  ASSUME NEW m, Laid(m), NEW k \in 1 .. Len(m.minors), NEW req \in 1 .. m.minors[k].req
  PROVE  /\ Laid([m EXCEPT !.minors[k].req = req])
         /\ [m EXCEPT !.minors[k].req = req].page = m.page
         /\ [m EXCEPT !.minors[k].req = req].pages = m.pages
         /\ Len([m EXCEPT !.minors[k].req = req].minors) = Len(m.minors)
         /\ Filled([m EXCEPT !.minors[k].req = req]) = Filled(m)
  <1> USE HeapAssumption
  <1>1. PICK r : r = [m EXCEPT !.minors[k].req = req]
    OBVIOUS
  <1>2. PICK s \in Seq(Minor) : s = m.minors
    BY DEF Laid
  <1>3. PICK t : t = [s EXCEPT ![k].req = req]
    OBVIOUS
  <1>4. /\ Len(s) \in Nat /\ k \in 1 .. Len(s)
        /\ \A i \in 1 .. Len(s) : s[i] \in Minor
        /\ \A i \in 1 .. Len(s) : s[i].at \in Nat /\ s[i].size \in Nat /\ s[i].req \in Nat
        /\ req \in Nat /\ req <= s[k].req
    <2>1. Len(s) \in Nat /\ k \in 1 .. Len(s) /\ \A i \in 1 .. Len(s) : s[i] \in Minor
      BY <1>2
    <2>2. \A i \in 1 .. Len(s) : s[i].at \in Nat /\ s[i].size \in Nat /\ s[i].req \in Nat
      BY <2>1 DEF Minor
    <2>3. QED
      BY <1>2, <2>1, <2>2
  <1>5. /\ t \in Seq(Minor) /\ Len(t) = Len(s)
        /\ t[k].req = req
        /\ \A i \in 1 .. Len(s) : t[i].at = s[i].at /\ t[i].size = s[i].size
        /\ \A i \in 1 .. Len(s) : i # k => t[i].req = s[i].req
    <2>1. [s[k] EXCEPT !.req = req] \in Minor
      BY <1>4 DEF Minor
    <2>2. t = [s EXCEPT ![k] = [s[k] EXCEPT !.req = req]]
      BY <1>3
    <2>3. t \in Seq(Minor) /\ Len(t) = Len(s)
      BY <1>4, <2>1, <2>2
    <2>4. t[k] = [s[k] EXCEPT !.req = req] /\ \A i \in 1 .. Len(s) : i # k => t[i] = s[i]
      BY <1>4, <2>2, SMTT(30)
    <2>5. t[k].req = req /\ t[k].at = s[k].at /\ t[k].size = s[k].size
      BY <1>4, <2>4 DEF Minor
    <2>6. QED
      BY <1>4, <2>3, <2>4, <2>5
  <1>6. /\ r.minors = t /\ r.usage = m.usage /\ r.page = m.page /\ r.pages = m.pages
        /\ r \in [page : Nat, pages : Nat \ {0}, usage : Int, minors : Seq(Minor)]
    <2>1. m \in [page : Nat, pages : Nat \ {0}, usage : Int, minors : Seq(Minor)]
      BY DEF Laid
    <2>2. r = [m EXCEPT !.minors = t]
      BY <1>1, <1>2, <1>3
    <2>3. QED
      BY <1>5, <2>1, <2>2
  <1>7. Bytes(r) = Bytes(m)
    BY <1>6 DEF Bytes
  <1>8. ASSUME NEW j \in 0 .. Len(s) PROVE Gap(r, j) >= 0
    <2>1. Gap(m, j) = (IF j = Len(s) THEN Bytes(m) ELSE s[j + 1].at)
                        - (IF j = 0 THEN MajorHeader ELSE s[j].at + MinorHeader + s[j].size)
      BY <1>2 DEF Gap, GapStart, End
    <2>2. Gap(r, j) = (IF j = Len(s) THEN Bytes(r) ELSE t[j + 1].at)
                        - (IF j = 0 THEN MajorHeader ELSE t[j].at + MinorHeader + t[j].size)
      BY <1>5, <1>6 DEF Gap, GapStart, End
    <2>3. /\ j # Len(s) => j + 1 \in 1 .. Len(s)
          /\ j # 0 => j \in 1 .. Len(s)
      BY <1>4
    <2>4. Gap(r, j) = Gap(m, j)
      BY <1>5, <1>7, <2>1, <2>2, <2>3
    <2>5. QED
      BY <1>2, <2>4 DEF Laid
  <1>9. ASSUME NEW j \in 1 .. Len(s) PROVE SizeOf(t[j].req) <= t[j].size
    <2>1. SizeOf(s[j].req) <= s[j].size
      BY <1>2 DEF Laid
    <2>2. CASE j = k
      BY <1>4, <1>5, <2>1, <2>2, SMTT(60) DEF SizeOf
    <2>3. CASE j # k
      BY <1>4, <1>5, <2>1, <2>3
    <2>4. QED
      BY <2>2, <2>3
  <1>10. Filled(r) = Filled(m)
    <2>1. Sizes(r) = Sizes(m)
      BY <1>2, <1>5, <1>6 DEF Sizes
    <2>2. Len(r.minors) = Len(m.minors)
      BY <1>2, <1>5, <1>6
    <2>3. QED
      BY <2>1, <2>2, Zenon DEF Filled
  <1>11. Laid(r)
    <2>1. m.usage = MajorHeader + Len(m.minors) * MinorHeader + Filled(m)
      BY DEF Laid
    <2>2. QED
      BY <1>2, <1>5, <1>6, <1>8, <1>9, <1>10, <2>1 DEF Laid
  <1>12. QED
    BY <1>1, <1>2, <1>5, <1>6, <1>10, <1>11

(* An empty major has a place for the block it was made for, at its start. *)
LEMMA NewMajorLaid ==
  ASSUME NEW page \in Nat, NEW size \in Nat
  PROVE  /\ Laid(NewMajor(page, size))
         /\ Gaps(NewMajor(page, size), size) = {0}
         /\ Filled(NewMajor(page, size)) = 0
  <1> USE HeapAssumption
  <1>1. PICK m : m = NewMajor(page, size)
    OBVIOUS
  <1>2. /\ m.page = page /\ m.pages = PagesFor(size) /\ m.usage = MajorHeader
        /\ m.minors = <<>>
        /\ m \in [page : Nat, pages : Nat \ {0}, usage : Int, minors : Seq(Minor)]
    BY <1>1, PagesForHolds DEF NewMajor
  <1>3. Len(m.minors) = 0
    BY <1>2
  <1>4. Gap(m, 0) = Bytes(m) - MajorHeader
    BY <1>3 DEF Gap, GapStart
  <1>5. Bytes(m) \in Int /\ Bytes(m) >= size + MajorHeader + MinorHeader
    BY <1>2, PagesForHolds DEF Bytes
  <1>6. Gap(m, 0) \in Int /\ Gap(m, 0) >= size + MinorHeader
    BY <1>4, <1>5
  <1>7. Filled(m) = 0
    <2>1. 1 .. Len(m.minors) = {}
      BY <1>3
    <2>2. QED
      BY <2>1, SumEmpty DEF Filled
  <1>8. Laid(m)
    BY <1>2, <1>3, <1>6, <1>7 DEF Laid
  <1>9. Gaps(m, size) = {0}
    BY <1>3, <1>6 DEF Gaps
  <1>10. QED
    BY <1>1, <1>7, <1>8, <1>9

(* No gap is larger than all the bytes that are unused.                    *)
LEMMA GapsAreUnused ==
  ASSUME NEW m, Laid(m), NEW k \in 0 .. Len(m.minors)
  PROVE  /\ Gap(m, k) <= Unused(m)
         /\ Gap(m, k) \in Int /\ Unused(m) \in Int
  <1> USE HeapAssumption
  <1>1. PICK n \in Nat : n = Len(m.minors)
    BY FilledIsNumber
  <1>2. PICK s \in Seq(Minor) : s = m.minors /\ Len(s) = n
    BY <1>1 DEF Laid
  <1>3. \A i \in 1 .. n : s[i].at \in Int /\ s[i].size \in Nat
    <2>1. \A i \in 1 .. n : s[i] \in Minor
      BY <1>2
    <2>2. QED
      BY <2>1 DEF Minor
  <1>4. Bytes(m) \in Int
    <2>1. m.pages \in Nat
      BY DEF Laid
    <2>2. QED
      BY <2>1 DEF Bytes
  <1>5. PICK f : f = Sizes(m)
    OBVIOUS
  <1>6. \A i \in 1 .. n : f[i] = s[i].size /\ f[i] \in Int
    BY <1>2, <1>3, <1>5 DEF Sizes
  <1>7. PICK hi : hi = [j \in 0 .. n |-> IF j = n THEN Bytes(m) ELSE s[j + 1].at]
    OBVIOUS
  <1>8. PICK lo : lo = [j \in 0 .. n |-> IF j = 0 THEN MajorHeader
                                         ELSE s[j].at + MinorHeader + s[j].size]
    OBVIOUS
  <1>9. \A j \in 0 .. n : hi[j] \in Int /\ lo[j] \in Int /\ Gap(m, j) = hi[j] - lo[j]
    <2> SUFFICES ASSUME NEW j \in 0 .. n
                 PROVE  hi[j] \in Int /\ lo[j] \in Int /\ Gap(m, j) = hi[j] - lo[j]
      OBVIOUS
    <2>1. Gap(m, j) = hi[j] - lo[j]
      BY <1>2, <1>7, <1>8 DEF Gap, GapStart, End
    <2>2. (j # n => j + 1 \in 1 .. n) /\ (j # 0 => j \in 1 .. n)
      OBVIOUS
    <2>3. QED
      BY <1>3, <1>4, <1>7, <1>8, <2>1, <2>2, SMTT(100)
  <1>10. \A j \in 0 .. n : hi[j] >= lo[j]
    BY <1>1, <1>9 DEF Laid
  <1>11. \A j \in 1 .. n : lo[j] = hi[j - 1] + MinorHeader + f[j]
    <2> SUFFICES ASSUME NEW j \in 1 .. n PROVE lo[j] = hi[j - 1] + MinorHeader + f[j]
      OBVIOUS
    <2>1. j - 1 \in 0 .. n /\ j - 1 # n /\ (j - 1) + 1 = j /\ j \in 0 .. n /\ j # 0
      OBVIOUS
    <2>2. hi[j - 1] = s[j].at /\ lo[j] = s[j].at + MinorHeader + s[j].size
      BY <1>7, <1>8, <2>1
    <2>3. QED
      BY <1>6, <2>2
  (* What lies before a gap, and with the gap what lies before the next.   *)
  <1> DEFINE used(j) == MajorHeader + j * MinorHeader + Total(f, 1 .. j)
             S == {j \in 0 .. n : /\ used(j) <= lo[j]
                                  /\ j >= k => used(j) + Gap(m, k) <= hi[j]}
  <1>12. \A j \in 0 .. n : used(j) \in Int
    <2> SUFFICES ASSUME NEW j \in 0 .. n PROVE used(j) \in Int
      OBVIOUS
    <2>1. IsFiniteSet(1 .. j) /\ \A i \in 1 .. j : f[i] \in Int
      BY <1>6, FS_Interval
    <2>2. Total(f, 1 .. j) \in Int
      BY <2>1, SumTakeOut
    <2>3. QED
      BY <2>2
  <1>13. \A j \in 1 .. n : used(j) = used(j - 1) + MinorHeader + f[j]
    <2> SUFFICES ASSUME NEW j \in 1 .. n PROVE used(j) = used(j - 1) + MinorHeader + f[j]
      OBVIOUS
    <2>1. PICK i \in Nat : i = j - 1 /\ j = i + 1
      OBVIOUS
    <2>2. \A x \in 1 .. i + 1 : f[x] \in Int
      BY <1>6, <2>1
    <2>3. Total(f, 1 .. i + 1) = Total(f, 1 .. i) + f[i + 1] /\ Total(f, 1 .. i) \in Int
      BY <2>2, SumPrefix
    <2>4. j * MinorHeader = i * MinorHeader + MinorHeader /\ i * MinorHeader \in Int
      BY <2>1
    <2>5. QED
      BY <1>6, <2>1, <2>3, <2>4
  <1>14. used(0) = MajorHeader
    <2>1. 1 .. 0 = {}
      OBVIOUS
    <2>2. Total(f, 1 .. 0) = 0
      BY <2>1, SumEmpty
    <2>3. QED
      BY <2>2
  <1> HIDE DEF used
  <1>15. Gap(m, k) \in Int
    <2>1. k \in 0 .. n
      BY <1>1
    <2>2. hi[k] \in Int /\ lo[k] \in Int /\ Gap(m, k) = hi[k] - lo[k]
      BY <1>9, <2>1
    <2>3. QED
      BY <2>2
  <1>16. ASSUME NEW j \in 0 .. n, used(j) <= lo[j], j > k => used(j) + Gap(m, k) <= lo[j]
         PROVE  j \in S
    <2>1. used(j) \in Int /\ hi[j] \in Int /\ lo[j] \in Int /\ hi[j] >= lo[j]
      BY <1>9, <1>10, <1>12
    <2>2. CASE j = k
      <3>1. Gap(m, k) = hi[j] - lo[j]
        BY <1>9, <2>2
      <3>2. used(j) + Gap(m, k) <= hi[j]
        BY <1>16, <2>1, <3>1
      <3>3. QED
        BY <1>16, <3>2
    <2>3. CASE j # k
      <3>1. j >= k => j > k
        BY <1>1, <2>3
      <3>2. j > k => used(j) + Gap(m, k) <= hi[j]
        BY <1>15, <1>16, <2>1
      <3>3. QED
        BY <1>16, <3>1, <3>2
    <2>4. QED
      BY <2>2, <2>3
  <1>17. 0 \in S
    <2>1. lo[0] = MajorHeader /\ 0 \in 0 .. n
      BY <1>8
    <2>2. used(0) <= lo[0] /\ ~ (0 > k)
      BY <1>1, <1>14, <2>1
    <2>3. QED
      BY <1>16, <2>1, <2>2
  <1>18. ASSUME NEW j \in 1 .. n, j - 1 \in S PROVE j \in S
    <2>1. j \in 0 .. n /\ j - 1 \in 0 .. n /\ used(j - 1) <= lo[j - 1] /\ lo[j - 1] <= hi[j - 1]
      BY <1>10, <1>18
    <2>2. j > k => used(j - 1) + Gap(m, k) <= hi[j - 1]
      BY <1>1, <1>18
    <2>3. used(j - 1) \in Int /\ f[j] \in Int /\ hi[j - 1] \in Int /\ lo[j - 1] \in Int
          /\ Gap(m, k) \in Int
      BY <1>1, <1>6, <1>9, <1>12, <1>15, <2>1
    <2>4. used(j) <= lo[j]
      BY <1>11, <1>13, <2>1, <2>3, SMTT(30)
    <2>5. j > k => used(j) + Gap(m, k) <= lo[j]
      BY <1>11, <1>13, <2>2, <2>3
    <2>6. QED
      BY <1>16, <2>1, <2>4, <2>5
  <1>19. n \in S
    <2> HIDE DEF S
    <2>1. QED
      BY <1>17, <1>18, UpTo, SMTT(100)
  <1>20. used(n) + Gap(m, k) <= Bytes(m)
    BY <1>1, <1>7, <1>19
  <1>21. m.usage = used(n)
    BY <1>1, <1>5 DEF Laid, Filled, used
  <1>22. Unused(m) \in Int
    BY <1>1, <1>4, <1>12, <1>21 DEF Unused
  <1>23. QED
    BY <1>1, <1>4, <1>9, <1>12, <1>15, <1>20, <1>21, <1>22 DEF Unused

-----------------------------------------------------------------------------
(* The list of majors: no two of them at one place, none of them empty,    *)
(* and what an operation on one of them does to the sums over all of them. *)

MajorType == [page : Nat, pages : Nat \ {0}, usage : Int, minors : Seq(Minor)]

Listing(ms) ==
  /\ ms \in Seq(MajorType)
  /\ \A i \in 1 .. Len(ms) : Laid(ms[i]) /\ Len(ms[i].minors) # 0
  /\ \A i, j \in 1 .. Len(ms) : ms[i].page = ms[j].page => i = j

RunOf(m) == [first |-> m.page, pages |-> m.pages, by |-> "heap"]

TableRun(p) == [first |-> p, pages |-> 1, by |-> "paging"]

RunsOf(ms) == {RunOf(ms[i]) : i \in 1 .. Len(ms)}

FilledIn(ms) == [i \in 1 .. Len(ms) |-> Filled(ms[i])]

BytesIn(ms) == [i \in 1 .. Len(ms) |-> Bytes(ms[i])]

UsageIn(ms) == [i \in 1 .. Len(ms) |-> ms[i].usage]

BlocksIn(ms) == [i \in 1 .. Len(ms) |-> Len(ms[i].minors)]

InUseOf(ms) == Total(FilledIn(ms), 1 .. Len(ms))

AllocatedOf(ms) == Total(BytesIn(ms), 1 .. Len(ms))

LEMMA ListingFacts ==
  ASSUME NEW ms, Listing(ms)
  PROVE  /\ Len(ms) \in Nat /\ DOMAIN ms = 1 .. Len(ms)
         /\ \A i \in 1 .. Len(ms) : /\ ms[i] \in MajorType
                                    /\ FilledIn(ms)[i] = Filled(ms[i])
                                    /\ BytesIn(ms)[i] = Bytes(ms[i])
                                    /\ FilledIn(ms)[i] \in Int
                                    /\ BytesIn(ms)[i] \in Int
                                    /\ UsageIn(ms)[i] \in Int
                                    /\ UsageIn(ms)[i] = ms[i].usage
                                    /\ BlocksIn(ms)[i] \in Nat
                                    /\ BlocksIn(ms)[i] = Len(ms[i].minors)
  <1>1. Len(ms) \in Nat /\ DOMAIN ms = 1 .. Len(ms) /\ \A i \in 1 .. Len(ms) : ms[i] \in MajorType
    BY DEF Listing
  <1>2. ASSUME NEW i \in 1 .. Len(ms)
        PROVE  /\ FilledIn(ms)[i] = Filled(ms[i]) /\ FilledIn(ms)[i] \in Int
               /\ BytesIn(ms)[i] = Bytes(ms[i]) /\ BytesIn(ms)[i] \in Int
    <2>1. Laid(ms[i]) /\ ms[i].pages \in Nat
      BY <1>1 DEF Listing, MajorType
    <2>2. Filled(ms[i]) \in Int
      BY <2>1, FilledIsNumber
    <2>3. Bytes(ms[i]) \in Int
      BY <2>1, HeapAssumption DEF Bytes
    <2>4. QED
      BY <1>1, <2>2, <2>3 DEF FilledIn, BytesIn
  <1>3. \A i \in 1 .. Len(ms) : /\ UsageIn(ms)[i] \in Int /\ UsageIn(ms)[i] = ms[i].usage
                                /\ BlocksIn(ms)[i] \in Nat
                                /\ BlocksIn(ms)[i] = Len(ms[i].minors)
    BY <1>1 DEF UsageIn, BlocksIn, MajorType
  <1>4. QED
    BY <1>1, <1>2, <1>3

(* What is left when a major, old, is changed to m.                        *)
Replaced(ms, rs, old, m) ==
  /\ Listing(rs) /\ Len(rs) = Len(ms)
  /\ \A j \in 1 .. Len(ms) : rs[j].page = ms[j].page
  /\ RunsOf(rs) = RunsOf(ms)
  /\ InUseOf(rs) = InUseOf(ms) - Filled(old) + Filled(m)
  /\ AllocatedOf(rs) = AllocatedOf(ms)

LEMMA ReplaceMajor ==
  ASSUME NEW ms, Listing(ms), NEW i \in 1 .. Len(ms), NEW m, Laid(m),
         Len(m.minors) # 0, m.page = ms[i].page, m.pages = ms[i].pages
  PROVE  Replaced(ms, [ms EXCEPT ![i] = m], ms[i], m)
  <1>0. PICK rs : rs = [ms EXCEPT ![i] = m]
    OBVIOUS
  <1>1. m \in MajorType
    BY DEF Laid, MajorType
  <1>2. /\ Len(ms) \in Nat
        /\ rs \in Seq(MajorType) /\ Len(rs) = Len(ms) /\ rs[i] = m
        /\ \A j \in 1 .. Len(ms) : j # i => rs[j] = ms[j]
    BY <1>0, <1>1 DEF Listing
  <1>3. \A j \in 1 .. Len(ms) : rs[j].page = ms[j].page /\ rs[j].pages = ms[j].pages
    BY <1>2
  <1>4. Listing(rs)
    BY <1>2, <1>3 DEF Listing
  <1>5. RunsOf(rs) = RunsOf(ms)
    BY <1>2, <1>3 DEF RunsOf, RunOf
  <1>6. PICK f : f = FilledIn(ms)
    OBVIOUS
  <1>7. PICK g : g = FilledIn(rs)
    OBVIOUS
  <1>8. \A j \in 1 .. Len(ms) : f[j] = Filled(ms[j]) /\ f[j] \in Int
    BY <1>6, ListingFacts
  <1>9. \A j \in 1 .. Len(ms) : g[j] = Filled(rs[j]) /\ g[j] \in Int
    BY <1>2, <1>4, <1>7, ListingFacts
  <1>10. g[i] \in Int /\ \A j \in 1 .. Len(ms) : j # i => g[j] = f[j]
    BY <1>2, <1>8, <1>9
  <1>11. Total(g, 1 .. Len(ms)) = Total(f, 1 .. Len(ms)) - f[i] + g[i]
    <2>1. PICK n \in Nat : n = Len(ms)
      BY <1>2
    <2>2. /\ i \in 1 .. n /\ g[i] \in Int
          /\ \A j \in 1 .. n : f[j] \in Int
          /\ \A j \in 1 .. n : j # i => g[j] = f[j]
      BY <1>8, <1>10, <2>1
    <2>3. Total(g, 1 .. n) = Total(f, 1 .. n) - f[i] + g[i]
      BY <2>2, SumReplace, ZenonT(60)
    <2>4. QED
      BY <2>1, <2>3
  <1>12. InUseOf(rs) = InUseOf(ms) - Filled(ms[i]) + Filled(m)
    BY <1>2, <1>6, <1>7, <1>8, <1>9, <1>11 DEF InUseOf
  <1>13. AllocatedOf(rs) = AllocatedOf(ms)
    <2>1. \A j \in 1 .. Len(ms) : BytesIn(ms)[j] \in Int /\ BytesIn(ms)[j] = BytesIn(rs)[j]
      <3>1. \A j \in 1 .. Len(ms) : BytesIn(ms)[j] = Bytes(ms[j]) /\ BytesIn(ms)[j] \in Int
        BY ListingFacts
      <3>2. \A j \in 1 .. Len(ms) : BytesIn(rs)[j] = Bytes(rs[j])
        BY <1>2, <1>4, ListingFacts
      <3>3. QED
        BY <1>3, <3>1, <3>2 DEF Bytes
    <2>2. PICK a : a = BytesIn(ms)
      OBVIOUS
    <2>3. PICK b : b = BytesIn(rs)
      OBVIOUS
    <2>4. Total(a, 1 .. Len(ms)) = Total(b, 1 .. Len(ms))
      BY <1>2, <2>1, <2>2, <2>3, SumSame
    <2>5. QED
      BY <1>2, <2>2, <2>3, <2>4 DEF AllocatedOf
  <1>14. QED
    BY <1>0, <1>2, <1>3, <1>4, <1>5, <1>12, <1>13 DEF Replaced

Appended(ms, rs, m) ==
  /\ Listing(rs) /\ Len(rs) = Len(ms) + 1
  /\ rs[Len(rs)] = m /\ \A i \in 1 .. Len(ms) : rs[i] = ms[i]
  /\ RunsOf(rs) = RunsOf(ms) \cup {RunOf(m)}
  /\ InUseOf(rs) = InUseOf(ms) + Filled(m)
  /\ AllocatedOf(rs) = AllocatedOf(ms) + Bytes(m)

LEMMA AppendMajor ==
  ASSUME NEW ms, Listing(ms), NEW m, Laid(m), Len(m.minors) # 0,
         \A i \in 1 .. Len(ms) : ms[i].page # m.page
  PROVE  Appended(ms, Append(ms, m), m)
  <1>0. PICK rs : rs = Append(ms, m)
    OBVIOUS
  <1>1. m \in MajorType
    BY DEF Laid, MajorType
  <1>2. PICK n \in Nat : n = Len(ms)
    BY ListingFacts
  <1>3. /\ rs \in Seq(MajorType) /\ Len(rs) = n + 1 /\ rs[n + 1] = m
        /\ \A j \in 1 .. n : rs[j] = ms[j]
    BY <1>0, <1>1, <1>2 DEF Listing
  <1>4. \A j \in 1 .. n + 1 : j = n + 1 \/ j \in 1 .. n
    BY <1>2
  <1>5. Listing(rs)
    <2>1. \A i \in 1 .. n + 1 : Laid(rs[i]) /\ Len(rs[i].minors) # 0
      BY <1>2, <1>3, <1>4 DEF Listing
    <2>2. \A i, j \in 1 .. n + 1 : rs[i].page = rs[j].page => i = j
      BY <1>2, <1>3, <1>4 DEF Listing
    <2>3. QED
      BY <1>3, <2>1, <2>2 DEF Listing
  <1>6. RunsOf(rs) = RunsOf(ms) \cup {RunOf(m)}
    BY <1>2, <1>3, <1>4 DEF RunsOf
  <1>7. \A i \in 1 .. n + 1 : /\ FilledIn(rs)[i] = Filled(rs[i]) /\ FilledIn(rs)[i] \in Int
                              /\ BytesIn(rs)[i] = Bytes(rs[i]) /\ BytesIn(rs)[i] \in Int
    BY <1>3, <1>5, ListingFacts
  <1>8. \A i \in 1 .. n : /\ FilledIn(ms)[i] = Filled(ms[i]) /\ FilledIn(ms)[i] \in Int
                          /\ BytesIn(ms)[i] = Bytes(ms[i]) /\ BytesIn(ms)[i] \in Int
    BY <1>2, ListingFacts
  <1>9. n + 1 \in 1 .. n + 1
    BY <1>2
  <1>10. InUseOf(rs) = InUseOf(ms) + Filled(m)
    <2>1. PICK f : f = FilledIn(rs)
      OBVIOUS
    <2>2. PICK g : g = FilledIn(ms)
      OBVIOUS
    <2>3. \A i \in 1 .. n + 1 : f[i] \in Int
      BY <1>7, <2>1
    <2>4. Total(f, 1 .. n + 1) = Total(f, 1 .. n) + f[n + 1]
      BY <1>2, <2>3, SumPrefix
    <2>5. \A i \in 1 .. n : f[i] \in Int /\ f[i] = g[i]
      BY <1>2, <1>3, <1>7, <1>8, <2>1, <2>2
    <2>6. Total(f, 1 .. n) = Total(g, 1 .. n)
      BY <1>2, <2>5, SumSame
    <2>7. f[n + 1] = Filled(m)
      BY <1>3, <1>7, <1>9, <2>1
    <2>8. QED
      BY <1>2, <1>3, <2>1, <2>2, <2>4, <2>6, <2>7 DEF InUseOf
  <1>11. AllocatedOf(rs) = AllocatedOf(ms) + Bytes(m)
    <2>1. PICK f : f = BytesIn(rs)
      OBVIOUS
    <2>2. PICK g : g = BytesIn(ms)
      OBVIOUS
    <2>3. \A i \in 1 .. n + 1 : f[i] \in Int
      BY <1>7, <2>1
    <2>4. Total(f, 1 .. n + 1) = Total(f, 1 .. n) + f[n + 1]
      BY <1>2, <2>3, SumPrefix
    <2>5. \A i \in 1 .. n : f[i] \in Int /\ f[i] = g[i]
      BY <1>2, <1>3, <1>7, <1>8, <2>1, <2>2
    <2>6. Total(f, 1 .. n) = Total(g, 1 .. n)
      BY <1>2, <2>5, SumSame
    <2>7. f[n + 1] = Bytes(m)
      BY <1>3, <1>7, <1>9, <2>1
    <2>8. QED
      BY <1>2, <1>3, <2>1, <2>2, <2>4, <2>6, <2>7 DEF AllocatedOf
  <1>12. QED
    BY <1>0, <1>2, <1>3, <1>5, <1>6, <1>10, <1>11 DEF Appended

Dropped(ms, rs, i) ==
  /\ Listing(rs) /\ Len(rs) = Len(ms) - 1
  /\ \A j \in 1 .. Len(ms) : j # i => \E k \in 1 .. Len(rs) : rs[k] = ms[j]
  /\ \A k \in 1 .. Len(rs) : \E j \in 1 .. Len(ms) : j # i /\ rs[k] = ms[j]
  /\ InUseOf(rs) = InUseOf(ms) - Filled(ms[i])
  /\ AllocatedOf(rs) = AllocatedOf(ms) - Bytes(ms[i])

LEMMA DropMajor ==
  ASSUME NEW ms, Listing(ms), NEW i \in 1 .. Len(ms)
  PROVE  Dropped(ms, RemoveAt(ms, i), i)
  <1>0. PICK rs : rs = RemoveAt(ms, i)
    OBVIOUS
  <1>1. PICK n \in Nat : Len(ms) = n + 1
    <2>1. Len(ms) \in Nat /\ Len(ms) - 1 \in Nat /\ Len(ms) = (Len(ms) - 1) + 1
      BY ListingFacts
    <2>2. QED
      BY <2>1
  <1>2. rs \in Seq(MajorType) /\ Len(rs) = n /\ Inserts(rs, n, i, ms)
    <2>1. ms \in Seq(MajorType)
      BY DEF Listing
    <2>2. RemoveAt(ms, i) \in Seq(MajorType) /\ Len(RemoveAt(ms, i)) = Len(ms) - 1
          /\ Inserts(RemoveAt(ms, i), Len(ms) - 1, i, ms)
      BY <2>1, RemoveAtFacts
    <2>3. QED
      BY <1>0, <1>1, <2>2
  <1>3. ASSUME NEW k \in 1 .. n
        PROVE  \E j \in 1 .. n + 1 : /\ j # i /\ rs[k] = ms[j]
                                     /\ j = IF k < i THEN k ELSE k + 1
    <2>1. CASE k < i
      BY <1>1, <1>2, <2>1 DEF Inserts
    <2>2. CASE k >= i
      <3>1. k + 1 \in 1 .. n + 1 /\ k + 1 # i
        BY <1>1, <2>2
      <3>2. rs[k] = ms[k + 1]
        BY <1>2, <2>2 DEF Inserts
      <3>3. QED
        BY <1>1, <2>2, <3>1, <3>2
    <2>3. QED
      BY <1>1, <2>1, <2>2
  <1>4. ASSUME NEW j \in 1 .. n + 1, j # i PROVE \E k \in 1 .. n : rs[k] = ms[j]
    <2>1. CASE j < i
      <3>1. j \in 1 .. n /\ ms[j] = rs[j]
        BY <1>1, <1>2, <2>1 DEF Inserts
      <3>2. QED
        BY <3>1
    <2>2. CASE j > i
      <3>1. j - 1 \in 1 .. n /\ j - 1 >= i /\ (j - 1) + 1 = j
        BY <1>1, <2>2
      <3>2. ms[j] = rs[j - 1]
        BY <1>2, <3>1 DEF Inserts
      <3>3. QED
        BY <3>1, <3>2
    <2>3. QED
      BY <1>1, <1>4, <2>1, <2>2
  <1>5. Listing(rs)
    <2>1. \A k \in 1 .. n : Laid(rs[k]) /\ Len(rs[k].minors) # 0
      BY <1>1, <1>3 DEF Listing
    <2>2. ASSUME NEW k \in 1 .. n, NEW l \in 1 .. n, rs[k].page = rs[l].page PROVE k = l
      <3>1. PICK j \in 1 .. n + 1 : rs[k] = ms[j] /\ j = IF k < i THEN k ELSE k + 1
        BY <1>3
      <3>2. PICK h \in 1 .. n + 1 : rs[l] = ms[h] /\ h = IF l < i THEN l ELSE l + 1
        BY <1>3
      <3>3. j = h
        BY <1>1, <2>2, <3>1, <3>2 DEF Listing
      <3>4. QED
        BY <1>1, <3>1, <3>2, <3>3
    <2>3. QED
      BY <1>2, <2>1, <2>2 DEF Listing
  <1>6. \A k \in 1 .. n : /\ FilledIn(rs)[k] = Filled(rs[k]) /\ FilledIn(rs)[k] \in Int
                          /\ BytesIn(rs)[k] = Bytes(rs[k]) /\ BytesIn(rs)[k] \in Int
    BY <1>2, <1>5, ListingFacts
  <1>7. \A k \in 1 .. n + 1 : /\ FilledIn(ms)[k] = Filled(ms[k]) /\ FilledIn(ms)[k] \in Int
                              /\ BytesIn(ms)[k] = Bytes(ms[k]) /\ BytesIn(ms)[k] \in Int
    BY <1>1, ListingFacts
  <1>8. i \in 1 .. n + 1
    BY <1>1
  <1>9. InUseOf(rs) = InUseOf(ms) - Filled(ms[i])
    <2>1. PICK f : f = FilledIn(rs)
      OBVIOUS
    <2>2. PICK g : g = FilledIn(ms)
      OBVIOUS
    <2>3. (\A k \in 1 .. n : f[k] \in Int) /\ g[i] \in Int /\ g[i] = Filled(ms[i])
      BY <1>6, <1>7, <1>8, <2>1, <2>2
    <2>4. Inserts(f, n, i, g)
      <3>1. \A k \in 1 .. n : k \in 1 .. n + 1 /\ k + 1 \in 1 .. n + 1
        BY <1>1
      <3>2. ASSUME NEW k \in 1 .. n, k < i PROVE g[k] = f[k]
        BY <1>2, <1>6, <1>7, <2>1, <2>2, <3>1, <3>2 DEF Inserts
      <3>3. ASSUME NEW k \in 1 .. n, k >= i PROVE g[k + 1] = f[k]
        BY <1>2, <1>6, <1>7, <2>1, <2>2, <3>1, <3>3 DEF Inserts
      <3>4. QED
        BY <3>2, <3>3 DEF Inserts
    <2>5. Total(g, 1 .. n + 1) = Total(f, 1 .. n) + g[i] /\ Total(f, 1 .. n) \in Int
      BY <1>8, <2>3, <2>4, SumInsert
    <2>6. QED
      BY <1>1, <1>2, <2>1, <2>2, <2>3, <2>5 DEF InUseOf
  <1>10. AllocatedOf(rs) = AllocatedOf(ms) - Bytes(ms[i])
    <2>1. PICK f : f = BytesIn(rs)
      OBVIOUS
    <2>2. PICK g : g = BytesIn(ms)
      OBVIOUS
    <2>3. (\A k \in 1 .. n : f[k] \in Int) /\ g[i] \in Int /\ g[i] = Bytes(ms[i])
      BY <1>6, <1>7, <1>8, <2>1, <2>2
    <2>4. Inserts(f, n, i, g)
      <3>1. \A k \in 1 .. n : k \in 1 .. n + 1 /\ k + 1 \in 1 .. n + 1
        BY <1>1
      <3>2. ASSUME NEW k \in 1 .. n, k < i PROVE g[k] = f[k]
        BY <1>2, <1>6, <1>7, <2>1, <2>2, <3>1, <3>2 DEF Inserts
      <3>3. ASSUME NEW k \in 1 .. n, k >= i PROVE g[k + 1] = f[k]
        BY <1>2, <1>6, <1>7, <2>1, <2>2, <3>1, <3>3 DEF Inserts
      <3>4. QED
        BY <3>2, <3>3 DEF Inserts
    <2>5. Total(g, 1 .. n + 1) = Total(f, 1 .. n) + g[i] /\ Total(f, 1 .. n) \in Int
      BY <1>8, <2>3, <2>4, SumInsert
    <2>6. QED
      BY <1>1, <1>2, <2>1, <2>2, <2>3, <2>5 DEF AllocatedOf
  <1>11. QED
    BY <1>0, <1>1, <1>2, <1>3, <1>4, <1>5, <1>9, <1>10 DEF Dropped

-----------------------------------------------------------------------------
(* The inductive invariant, while the page allocator is not run dry: the   *)
(* list, its counters and l_bestBet are right, and the page allocator's    *)
(* own invariant holds of the runs that the heap and the tables hold.      *)
HInv ==
  /\ Listing(majors)
  /\ tables \subseteq Nat
  /\ \A p \in tables : \A i \in 1 .. Len(majors) : majors[i].page # p
  /\ BestBetListed
  /\ l_inuse = InUseOf(majors) /\ l_allocated = AllocatedOf(majors)
  /\ AP!PInv

LEMMA HInvNumbers ==
  ASSUME HInv
  PROVE  l_inuse \in Int /\ l_allocated \in Int
  <1>1. PICK n \in Nat : n = Len(majors)
    BY ListingFacts DEF HInv
  <1>2. IsFiniteSet(1 .. n)
    BY FS_Interval
  <1>3. PICK f : f = FilledIn(majors) /\ \A j \in 1 .. n : f[j] \in Int
    BY <1>1, ListingFacts DEF HInv
  <1>4. PICK g : g = BytesIn(majors) /\ \A j \in 1 .. n : g[j] \in Int
    BY <1>1, ListingFacts DEF HInv
  <1>5. Total(f, 1 .. n) \in Int /\ Total(g, 1 .. n) \in Int
    BY <1>2, <1>3, <1>4, SumTakeOut
  <1>6. QED
    BY <1>1, <1>3, <1>4, <1>5 DEF HInv, InUseOf, AllocatedOf

RunLengths == {1} \cup {PagesFor(SizeOf(req)) : req \in Requests}

LEMMA RunLengthsPositive == RunLengths \subseteq Nat \ {0}
  <1>1. ASSUME NEW req \in Requests PROVE PagesFor(SizeOf(req)) \in Nat \ {0}
    <2>1. SizeOf(req) \in Nat
      BY HeapAssumption DEF SizeOf
    <2>2. QED
      BY <2>1, PagesForHolds
  <1>2. QED
    BY <1>1 DEF RunLengths

(* The two instances of the page allocator speak of the same operators.    *)
LEMMA SameMaps ==
  ASSUME NEW map
  PROVE  /\ Allocator!total_pages(map) = AP!total_pages(map)
         /\ Allocator!bitmap_size(map) = AP!bitmap_size(map)
         /\ Allocator!BitmapPages(map) = AP!BitmapPages(map)
         /\ Allocator!Numbered(map) = AP!Numbered(map)
         /\ Allocator!Slack(map) = AP!Slack(map)
         /\ Allocator!Stray(map) = AP!Stray(map)
         /\ Allocator!Bits(map) = AP!Bits(map)
         /\ \A types : Allocator!PagesOfType(map, types) = AP!PagesOfType(map, types)
  <1>1. Allocator!Usable = AP!Usable
    BY DEF Allocator!Usable, AP!Usable
  <1>2. \A types : Allocator!PagesOfType(map, types) = AP!PagesOfType(map, types)
    BY Zenon DEF Allocator!PagesOfType, AP!PagesOfType, Allocator!Pages, AP!Pages
  <1>3. Allocator!total_pages(map) = AP!total_pages(map)
    BY <1>1, Zenon DEF Allocator!total_pages, AP!total_pages,
       Allocator!MapThenSumSet, AP!MapThenSumSet,
       Allocator!MapThenFoldSet, AP!MapThenFoldSet
  <1>4. Allocator!bitmap_size(map) = AP!bitmap_size(map)
    BY <1>3, Zenon DEF Allocator!bitmap_size, AP!bitmap_size
  <1>5. Allocator!BitmapPages(map) = AP!BitmapPages(map)
    BY <1>1, <1>4, Zenon DEF Allocator!BitmapPages, AP!BitmapPages, Allocator!Min, AP!Min
  <1>6. Allocator!Numbered(map) = AP!Numbered(map)
    BY <1>5 DEF Allocator!Numbered, AP!Numbered, Allocator!Cardinality, AP!Cardinality
  <1>7. Allocator!Slack(map) = AP!Slack(map)
    BY <1>3, <1>4, Zenon DEF Allocator!Slack, AP!Slack, Allocator!SearchedIn, AP!SearchedIn
  <1>8. Allocator!Stray(map) = AP!Stray(map)
    BY <1>1, <1>2, <1>6, <1>7, Zenon DEF Allocator!Stray, AP!Stray
  <1>9. Allocator!Bits(map) = AP!Bits(map)
    <2>1. \A e : Allocator!Pages(e) = AP!Pages(e)
      BY DEF Allocator!Pages, AP!Pages
    <2>2. Allocator!SearchedIn(map) = AP!SearchedIn(map)
      BY <1>3 DEF Allocator!SearchedIn, AP!SearchedIn
    <2>3. QED
      BY <1>6, <2>1, <2>2, Zenon DEF Allocator!Bits, AP!Bits
  <1>10. QED
    BY <1>2, <1>3, <1>4, <1>5, <1>6, <1>7, <1>8, <1>9

LEMMA AllocatorAssumption == AP!PmmAssumption
  <1>1. ASSUME NEW map, Allocator!WellFormed(map) PROVE AP!WellFormed(map)
    <2>1. \A e : Allocator!Pages(e) = AP!Pages(e)
      BY DEF Allocator!Pages, AP!Pages
    <2>2. Allocator!Usable = AP!Usable
      BY DEF Allocator!Usable, AP!Usable
    <2>3. QED
      BY <1>1, <2>1, <2>2, SameMaps DEF Allocator!WellFormed, AP!WellFormed
  <1>2. {1} \cup {PagesFor(SizeOf(req)) : req \in Requests} \subseteq Nat \ {0}
    BY RunLengthsPositive DEF RunLengths
  <1>3. \A map \in MemoryMaps : Allocator!WellFormed(map)
    BY HeapAssumption DEF Allocator!Regular
  <1>4. QED
    BY <1>1, <1>2, <1>3, HeapAssumption

(* On a regular map no page is stray, so what is held is marked, is memory *)
(* and is held once.                                                       *)
LEMMA NothingStray ==
  ASSUME HInv
  PROVE  /\ AP!Stray(pmm_memory_map) = {}
         /\ AP!HeldPages \subseteq bitmap \cap AP!Available
  <1>1. AP!PInv /\ pmm_memory_map \in MemoryMaps
    BY DEF HInv, AP!PInv
  <1>2. Allocator!Stray(pmm_memory_map) = {}
    BY <1>1, HeapAssumption DEF Allocator!Regular
  <1>3. AP!Stray(pmm_memory_map) = {}
    BY <1>2, SameMaps
  <1>4. QED
    BY <1>1, <1>3 DEF AP!PInv, AP!HeldApart, AP!OnlyMemory

LEMMA HeldRuns ==
  ASSUME Listing(majors)
  PROVE  MajorRuns = RunsOf(majors)
  BY ListingFacts DEF MajorRuns, RunsOf, RunOf

(* A page that is free is nobody's.                                        *)
LEMMA FreePageIsNew ==
  ASSUME HInv, NEW n \in RunLengths, AP!FreeRuns(n) # {},
         NEW first, first = Min(AP!FreeRuns(n))
  PROVE  /\ first \in Nat
         /\ first \notin tables
         /\ \A i \in 1 .. Len(majors) : majors[i].page # first
  <1>1. n \in Nat \ {0}
    BY RunLengthsPositive
  <1>2. /\ first \in AP!Searched
        /\ AP!Run(first, n) \subseteq AP!Searched \ bitmap
    <2>1. pmm_memory_map \in MemoryMaps
      BY DEF HInv, AP!PInv
    <2>2. AP!Min(AP!FreeRuns(n)) = Min(AP!FreeRuns(n))
      BY DEF AP!Min, Min
    <2>3. /\ AP!Min(AP!FreeRuns(n)) \in AP!Searched
          /\ AP!Run(AP!Min(AP!FreeRuns(n)), n) \subseteq AP!Searched \ bitmap
      BY <2>1, AllocatorAssumption, AP!FirstFit DEF RunLengths
    <2>4. QED
      BY <2>2, <2>3
  <1>3. AP!Searched \subseteq Nat
    BY AllocatorAssumption, AP!SearchedNat DEF HInv, AP!PInv, AP!Searched
  <1>4. first \in Nat /\ first \in AP!Run(first, n)
    <2>1. first \in Nat
      BY <1>2, <1>3
    <2>2. QED
      BY <1>1, <2>1 DEF AP!Run
  <1>5. first \notin AP!HeldPages
    BY <1>2, <1>4, NothingStray
  <1>6. first \notin tables
    <2>1. ASSUME first \in tables PROVE FALSE
      <3>1. TableRun(first) \in TableRuns
        BY <2>1 DEF TableRuns, TableRun
      <3>2. first \in AP!Pages(TableRun(first))
        BY <1>4 DEF AP!Pages, TableRun
      <3>3. QED
        BY <1>5, <3>1, <3>2 DEF AP!HeldPages
    <2>2. QED
      BY <2>1
  <1>7. ASSUME NEW i \in 1 .. Len(majors), majors[i].page = first PROVE FALSE
    <2>1. RunOf(majors[i]) \in MajorRuns
      BY HeldRuns DEF HInv, RunsOf
    <2>2. majors[i].pages \in Nat \ {0}
      BY ListingFacts DEF HInv, MajorType
    <2>3. first \in AP!Pages(RunOf(majors[i]))
      BY <1>4, <1>7, <2>2 DEF AP!Pages, RunOf
    <2>4. QED
      BY <1>5, <2>1, <2>3 DEF AP!HeldPages
  <1>8. QED
    BY <1>4, <1>6, <1>7

(* The majors the search comes to are those of the list, all of them.      *)
LEMMA VisitsAll ==
  ASSUME HInv, NEW size
  PROVE  /\ Visits(size) \in Seq(MajorType)
         /\ \A v \in 1 .. Len(Visits(size)) :
              \E i \in 1 .. Len(majors) : Visits(size)[v] = majors[i]
         /\ \A i \in 1 .. Len(majors) :
              \E v \in 1 .. Len(Visits(size)) : Visits(size)[v] = majors[i]
  <1>1. PICK ms \in Seq(MajorType) : ms = majors
    BY DEF HInv, Listing
  <1>2. CASE Visits(size) = majors
    BY <1>1, <1>2
  <1>3. CASE Visits(size) # majors
    <2>1. PICK best : /\ best = CHOOSE i \in DOMAIN majors : majors[i].page = l_bestBet
                      /\ Visits(size) = SubSeq(majors, best, Len(majors)) \o majors
                      /\ l_bestBet # nullptr
      BY <1>3, Zenon DEF Visits
    <2>2. best \in 1 .. Len(ms)
      BY <1>1, <2>1 DEF HInv, BestBetListed
    <2>3. PICK front : front = SubSeq(ms, best, Len(ms))
      OBVIOUS
    <2>4. /\ front \in Seq(MajorType)
          /\ \A v \in 1 .. Len(front) : \E i \in 1 .. Len(ms) : front[v] = ms[i]
      <3>1. front \in Seq(MajorType) /\ Len(front) = Len(ms) - best + 1
        BY <2>2, <2>3
      <3>2. ASSUME NEW v \in 1 .. Len(front) PROVE \E i \in 1 .. Len(ms) : front[v] = ms[i]
        <4>1. v + best - 1 \in 1 .. Len(ms) /\ front[v] = ms[v + best - 1]
          BY <2>2, <2>3, <3>1
        <4>2. QED
          BY <4>1
      <3>3. QED
        BY <3>1, <3>2
    <2>5. PICK vs : vs = front \o ms
      OBVIOUS
    <2>6. /\ vs \in Seq(MajorType) /\ Len(vs) = Len(front) + Len(ms)
          /\ \A v \in 1 .. Len(front) : vs[v] = front[v]
          /\ \A i \in 1 .. Len(ms) : vs[Len(front) + i] = ms[i]
      BY <2>4, <2>5
    <2>7. ASSUME NEW v \in 1 .. Len(vs) PROVE \E i \in 1 .. Len(ms) : vs[v] = ms[i]
      <3>1. CASE v <= Len(front)
        BY <2>4, <2>6, <3>1
      <3>2. CASE v > Len(front)
        <4>1. PICK i \in 1 .. Len(ms) : v = Len(front) + i
          <5>1. v - Len(front) \in 1 .. Len(ms) /\ v = Len(front) + (v - Len(front))
            BY <2>4, <2>6, <3>2
          <5>2. QED
            BY <5>1
        <4>2. QED
          BY <2>6, <4>1
      <3>3. QED
        <4>1. v <= Len(front) \/ v > Len(front)
          BY <2>4, <2>6
        <4>2. QED
          BY <3>1, <3>2, <4>1
    <2>8. ASSUME NEW i \in 1 .. Len(ms) PROVE \E v \in 1 .. Len(vs) : vs[v] = ms[i]
      <3>1. Len(front) + i \in 1 .. Len(vs)
        BY <2>4, <2>6
      <3>2. QED
        BY <2>6, <3>1
    <2>9. Visits(size) = vs
      BY <1>1, <2>1, <2>3, <2>5
    <2>10. QED
      BY <1>1, <2>6, <2>7, <2>8, <2>9
  <1>4. QED
    BY <1>2, <1>3

(* l_bestBet stays, or goes to one of the majors that were visited.        *)
LEMMA BestIsVisited ==
  ASSUME HInv, NEW ms, ms \in Seq(MajorType)
  PROVE  BestAfter(ms) = l_bestBet \/ \E i \in 1 .. Len(ms) : BestAfter(ms) = ms[i].page
  <1>1. CASE ms = <<>>
    BY <1>1, Zenon DEF BestAfter
  <1>2. CASE ms # <<>>
    <2>1. PICK n \in Nat \ {0} : n = Len(ms) /\ DOMAIN ms = 1 .. n
      BY <1>2
    <2>2. PICK f : f = [i \in 1 .. n |-> Unused(ms[i])]
      OBVIOUS
    <2>3. \A i \in 1 .. n : f[i] \in Int /\ f[i] = Unused(ms[i])
      <3> SUFFICES ASSUME NEW i \in 1 .. n PROVE Unused(ms[i]) \in Int
        BY <2>2
      <3>1. ms[i] \in MajorType
        BY <2>1
      <3>2. ms[i].pages \in Nat /\ ms[i].usage \in Int
        BY <3>1 DEF MajorType
      <3>3. QED
        BY <3>2, HeapAssumption DEF Unused, Bytes
    <2>4. PICK most : most = Max({f[i] : i \in 1 .. n}) /\ \E i \in 1 .. n : f[i] = most
      BY <2>1, <2>3, MaxIsReached
    <2>5. {f[i] : i \in 1 .. n} = {Unused(ms[i]) : i \in DOMAIN ms}
      BY <2>1, <2>3
    <2>6. PICK firsts : firsts = {i \in DOMAIN ms : Unused(ms[i]) = most}
      OBVIOUS
    <2>7. firsts \subseteq Nat /\ firsts # {} /\ firsts \subseteq 1 .. n
      <3>1. firsts \subseteq 1 .. n
        BY <2>1, <2>6
      <3>2. PICK i \in 1 .. n : f[i] = most
        BY <2>4
      <3>3. i \in firsts
        BY <2>1, <2>3, <2>6, <3>2
      <3>4. QED
        BY <3>1, <3>3
    <2>8. Min(firsts) \in 1 .. n
      BY <2>7, MinIsLeast
    <2>9. BestAfter(ms) = IF ms # <<>> /\ most > BestSize THEN ms[Min(firsts)].page ELSE l_bestBet
      BY <2>4, <2>5, <2>6, Zenon DEF BestAfter
    <2>10. QED
      BY <2>1, <2>8, <2>9
  <1>3. QED
    BY <1>1, <1>2

-----------------------------------------------------------------------------
(* The steps.                                                              *)

LEMMA SameAllocator ==
  /\ \A n : Allocator!FreeRuns(n) = AP!FreeRuns(n)
  /\ \A p, n : Allocator!Run(p, n) = AP!Run(p, n)
  /\ AP!PagesOfType(pmm_memory_map, {"loader"}) = Allocator!PagesOfType(pmm_memory_map, {"loader"})
  BY DEF Allocator!FreeRuns, AP!FreeRuns, Allocator!Run, AP!Run, Allocator!Searched, AP!Searched,
     Allocator!SearchedIn, AP!SearchedIn, Allocator!total_pages, AP!total_pages,
     Allocator!MapThenSumSet, AP!MapThenSumSet, Allocator!MapThenFoldSet, AP!MapThenFoldSet,
     Allocator!Usable, AP!Usable, Allocator!PagesOfType, AP!PagesOfType,
     Allocator!Pages, AP!Pages

(* A step of the heap is a step of the page allocator.                     *)
PagesStep == [AP!Next]_(AP!vars)

LEMMA PagesKept == ASSUME HInv, PagesStep PROVE AP!PInv'
  BY AllocatorAssumption, AP!PStep DEF HInv, PagesStep

LEMMA QuietPages ==
  ASSUME HInv, NEW rs, rs = majors', Listing(rs), RunsOf(rs) = RunsOf(majors),
         UNCHANGED <<tables, bitmap, pmm>>
  PROVE  PagesStep
  <1>1. MajorRuns' = MajorRuns
    <2>1. MajorRuns = RunsOf(majors)
      BY HeldRuns DEF HInv
    <2>2. MajorRuns' = RunsOf(rs)
      BY ListingFacts DEF MajorRuns, RunsOf, RunOf
    <2>3. QED
      BY <2>1, <2>2
  <1>2. TableRuns' = TableRuns
    BY DEF TableRuns
  <1>3. QED
    BY <1>1, <1>2 DEF PagesStep, AP!vars, pmm

(* One major is replaced, l_bestBet goes to one of the list.               *)
LEMMA ReplaceStep ==
  ASSUME HInv, NEW i \in 1 .. Len(majors), NEW m, Laid(m), Len(m.minors) # 0,
         m.page = majors[i].page, m.pages = majors[i].pages,
         NEW rs, rs = majors', rs = [majors EXCEPT ![i] = m],
         l_inuse' = l_inuse - Filled(majors[i]) + Filled(m),
         l_bestBet' = l_bestBet \/ \E j \in 1 .. Len(majors) : l_bestBet' = majors[j].page,
         UNCHANGED <<pmm, bitmap, l_allocated, tables>>
  PROVE  HInv' /\ PagesStep
  <1>1. Listing(majors)
    BY DEF HInv
  <1>2. /\ Listing(rs) /\ Len(rs) = Len(majors)
        /\ \A j \in 1 .. Len(majors) : rs[j].page = majors[j].page
        /\ RunsOf(rs) = RunsOf(majors)
        /\ InUseOf(rs) = InUseOf(majors) - Filled(majors[i]) + Filled(m)
        /\ AllocatedOf(rs) = AllocatedOf(majors)
    <2>1. Replaced(majors, rs, majors[i], m)
      <3>1. Replaced(majors, [majors EXCEPT ![i] = m], majors[i], m)
        BY <1>1, ReplaceMajor
      <3>2. QED
        BY <3>1
    <2>2. QED
      BY <2>1 DEF Replaced
  <1>3. PagesStep
    BY <1>2, QuietPages
  <1>4. AP!PInv'
    BY <1>3, PagesKept
  <1>5. BestBetListed'
    <2>1. DOMAIN majors = 1 .. Len(majors) /\ DOMAIN rs = 1 .. Len(majors)
      BY <1>1, <1>2, ListingFacts
    <2>2. QED
      BY <1>2, <2>1 DEF HInv, BestBetListed
  <1>6. l_inuse' = InUseOf(rs) /\ l_allocated' = AllocatedOf(rs)
    BY <1>2 DEF HInv
  <1>7. tables' \subseteq Nat /\ \A p \in tables' : \A j \in 1 .. Len(rs) : rs[j].page # p
    BY <1>2 DEF HInv
  <1>8. QED
    BY <1>2, <1>3, <1>4, <1>5, <1>6, <1>7 DEF HInv

LEMMA FitsStep ==
  ASSUME HInv, NEW req \in Requests, kmalloc_fits(req)
  PROVE  HInv' /\ PagesStep
  <1>1. PICK size \in Nat : size = SizeOf(req)
    BY HeapAssumption DEF SizeOf
  <1>2. PICK vs \in Seq(MajorType) : vs = Visits(size)
    BY VisitsAll
  <1>3. Fitting(size) = {v \in 1 .. Len(vs) : Fits(vs[v], size)} /\ Fitting(size) # {}
    BY <1>1, <1>2 DEF Fitting, kmalloc_fits
  <1>4. PICK found \in 1 .. Len(vs) : found = Min(Fitting(size)) /\ Fits(vs[found], size)
    <2>1. Fitting(size) \subseteq Nat
      BY <1>3
    <2>2. Min(Fitting(size)) \in Fitting(size)
      BY <1>3, <2>1, MinIsLeast
    <2>3. QED
      BY <1>3, <2>2
  <1>5. PICK i \in 1 .. Len(majors) : vs[found] = majors[i]
    BY <1>2, VisitsAll
  <1>6. PICK m : m = majors[i]
    OBVIOUS
  <1>7. Laid(m) /\ Gaps(m, size) # {} /\ Len(m.minors) \in Nat
    BY <1>4, <1>5, <1>6, FilledIsNumber DEF HInv, Listing, Fits
  <1>8. PICK r : r = Place(m, req)
    OBVIOUS
  <1>9. /\ Laid(r) /\ r.page = m.page /\ r.pages = m.pages
        /\ Len(r.minors) = Len(m.minors) + 1 /\ Filled(r) = Filled(m) + size
    BY <1>1, <1>7, <1>8, PlaceKeepsLaid, HeapAssumption
  <1>10. PICK rs : rs = majors'
    OBVIOUS
  <1>11. rs = [majors EXCEPT ![i] = r]
    <2>1. majors' = [j \in DOMAIN majors |->
                       IF majors[j].page = Visits(size)[Min(Fitting(size))].page
                       THEN Place(Visits(size)[Min(Fitting(size))], req) ELSE majors[j]]
      BY <1>1, Zenon DEF kmalloc_fits
    <2>2. majors' = [j \in DOMAIN majors |->
                       IF majors[j].page = m.page THEN r ELSE majors[j]]
      BY <1>2, <1>4, <1>5, <1>6, <1>8, <2>1
    <2>3. \A j \in DOMAIN majors : majors[j].page = m.page <=> j = i
      BY <1>6, ListingFacts DEF HInv, Listing
    <2>4. DOMAIN majors = 1 .. Len(majors) /\ majors \in Seq(MajorType)
      BY DEF HInv, Listing
    <2>5. QED
      BY <1>10, <2>2, <2>3, <2>4
  <1>12. l_inuse' = l_inuse - Filled(m) + Filled(r)
    <2>1. l_inuse' = l_inuse + size
      BY <1>1 DEF kmalloc_fits
    <2>2. l_inuse \in Int
      BY HInvNumbers
    <2>3. Filled(m) \in Int
      BY <1>7, FilledIsNumber
    <2>4. QED
      BY <1>9, <2>1, <2>2, <2>3
  <1>13. l_bestBet' = l_bestBet \/ \E j \in 1 .. Len(majors) : l_bestBet' = majors[j].page
    <2>1. PICK ms : ms = SubSeq(vs, 1, found)
      OBVIOUS
    <2>2. ms \in Seq(MajorType) /\ Len(ms) = found /\ \A v \in 1 .. found : ms[v] = vs[v]
      BY <2>1
    <2>3. l_bestBet' = BestAfter(ms)
      BY <1>1, <1>2, <1>4, <2>1 DEF kmalloc_fits
    <2>4. \A v \in 1 .. Len(vs) : \E j \in 1 .. Len(majors) : vs[v] = majors[j]
      BY <1>2, VisitsAll
    <2>5. BestAfter(ms) = l_bestBet \/ \E v \in 1 .. Len(ms) : BestAfter(ms) = ms[v].page
      BY <2>2, BestIsVisited
    <2>6. ASSUME NEW v \in 1 .. Len(ms), BestAfter(ms) = ms[v].page
          PROVE  \E j \in 1 .. Len(majors) : l_bestBet' = majors[j].page
      <3>1. v \in 1 .. Len(vs) /\ ms[v] = vs[v]
        BY <2>2
      <3>2. PICK j \in 1 .. Len(majors) : vs[v] = majors[j]
        BY <2>4, <3>1
      <3>3. QED
        BY <2>3, <2>6, <3>1, <3>2
    <2>7. QED
      BY <2>3, <2>5, <2>6
  <1>14. UNCHANGED <<pmm, bitmap, l_allocated, tables>>
    BY DEF kmalloc_fits
  <1>15. Len(r.minors) # 0
    BY <1>7, <1>9
  <1>16. QED
    BY <1>6, <1>9, <1>10, <1>11, <1>12, <1>13, <1>14, <1>15, ReplaceStep

(* A new major, on the first free run.                                     *)
LEMMA GrowsStep ==
  ASSUME HInv, MayExhaust = FALSE, NEW req \in Requests, kmalloc_grows(req)
  PROVE  HInv' /\ PagesStep
  <1>1. PICK size \in Nat : size = SizeOf(req)
    BY HeapAssumption DEF SizeOf
  <1>2. PICK n \in RunLengths : n = PagesFor(size) /\ n \in Nat \ {0}
    BY <1>1, RunLengthsPositive DEF RunLengths
  <1>3. Allocator!FreeRuns(n) # {} /\ Allocator!FreeRuns(n) = AP!FreeRuns(n)
    BY <1>1, <1>2, SameAllocator DEF kmalloc_grows
  <1>4. PICK first : first = Min(AP!FreeRuns(n))
    OBVIOUS
  <1>5. first \in Nat /\ first \notin tables /\ \A i \in 1 .. Len(majors) : majors[i].page # first
    BY <1>3, <1>4, FreePageIsNew
  <1>6. PICK new : new = NewMajor(first, size)
    OBVIOUS
  <1>7. /\ Laid(new) /\ Gaps(new, size) = {0} /\ Filled(new) = 0
        /\ new.page = first /\ new.pages = n /\ new.minors = <<>>
    BY <1>2, <1>5, <1>6, NewMajorLaid DEF NewMajor
  <1>8. PICK m : m = Place(new, req)
    OBVIOUS
  <1>9. /\ Laid(m) /\ m.page = first /\ m.pages = n
        /\ Len(m.minors) # 0 /\ Filled(m) = size
    <2>1. req \in Nat /\ Gaps(new, SizeOf(req)) # {}
      BY <1>1, <1>7, HeapAssumption
    <2>2. /\ Laid(m) /\ m.page = new.page /\ m.pages = new.pages
          /\ Len(m.minors) = Len(new.minors) + 1 /\ Filled(m) = Filled(new) + SizeOf(req)
      BY <1>7, <1>8, <2>1, PlaceKeepsLaid
    <2>3. QED
      BY <1>1, <1>7, <2>2
  <1>10. PICK rs : rs = majors'
    OBVIOUS
  <1>11. /\ rs = Append(majors, m)
         /\ bitmap' = bitmap \cup AP!Run(first, n)
         /\ l_inuse' = l_inuse + size /\ l_allocated' = l_allocated + Bytes(m)
         /\ UNCHANGED <<pmm, tables>>
    <2>1. Allocator!Run(first, n) = AP!Run(first, n)
      BY SameAllocator
    <2>2. Bytes(new) = Bytes(m)
      BY <1>7, <1>9 DEF Bytes
    <2>3. new = NewMajor(IF Allocator!FreeRuns(n) = {} THEN 0 ELSE Min(Allocator!FreeRuns(n)), size)
      BY <1>3, <1>4, <1>6
    <2>4. /\ majors' = Append(majors, Place(new, req))
          /\ bitmap' = bitmap \cup Allocator!Run(new.page, n)
          /\ l_inuse' = l_inuse + size /\ l_allocated' = l_allocated + Bytes(new)
          /\ UNCHANGED <<pmm, tables>>
      BY <1>1, <1>2, <1>3, <2>3, Zenon DEF kmalloc_grows
    <2>5. QED
      BY <1>7, <1>8, <1>10, <2>1, <2>2, <2>4
  <1>12. /\ l_bestBet' = l_bestBet
         \/ l_bestBet' = first
         \/ \E i \in 1 .. Len(majors) : l_bestBet' = majors[i].page
    <2>1. PICK vs \in Seq(MajorType) : vs = Visits(size)
      BY VisitsAll
    <2>2. new \in MajorType
      BY <1>7 DEF Laid, MajorType
    <2>3. PICK ms \in Seq(MajorType) :
            /\ l_bestBet' = BestAfter(ms)
            /\ ms = vs \/ ms = Append(vs, new)
      <3>1. l_bestBet' = BestAfter(vs) \/ l_bestBet' = BestAfter(Append(vs, new))
        <4>1. new = NewMajor(IF Allocator!FreeRuns(n) = {} THEN 0 ELSE Min(Allocator!FreeRuns(n)), size)
          BY <1>3, <1>4, <1>6
        <4>2. QED
          BY <1>1, <1>2, <2>1, <4>1, Zenon DEF kmalloc_grows
      <3>2. Append(vs, new) \in Seq(MajorType)
        BY <2>2
      <3>3. QED
        BY <3>1, <3>2
    <2>4. \A v \in 1 .. Len(vs) : \E j \in 1 .. Len(majors) : vs[v] = majors[j]
      BY <2>1, VisitsAll
    <2>5. ASSUME NEW v \in 1 .. Len(ms)
          PROVE  ms[v].page = first \/ \E j \in 1 .. Len(majors) : ms[v].page = majors[j].page
      <3>1. ms[v] = new \/ (v \in 1 .. Len(vs) /\ ms[v] = vs[v])
        BY <2>2, <2>3
      <3>2. CASE ms[v] = new
        BY <1>7, <3>2
      <3>3. CASE v \in 1 .. Len(vs) /\ ms[v] = vs[v]
        BY <2>4, <3>3
      <3>4. QED
        BY <3>1, <3>2, <3>3
    <2>6. BestAfter(ms) = l_bestBet \/ \E v \in 1 .. Len(ms) : BestAfter(ms) = ms[v].page
      BY BestIsVisited
    <2>7. ASSUME NEW v \in 1 .. Len(ms), BestAfter(ms) = ms[v].page
          PROVE  l_bestBet' = first \/ \E j \in 1 .. Len(majors) : l_bestBet' = majors[j].page
      BY <2>3, <2>5, <2>7
    <2>8. QED
      BY <2>3, <2>6, <2>7
  <1>13. /\ Listing(rs) /\ Len(rs) = Len(majors) + 1 /\ rs[Len(rs)] = m
         /\ \A i \in 1 .. Len(majors) : rs[i] = majors[i]
         /\ RunsOf(rs) = RunsOf(majors) \cup {RunOf(m)}
         /\ InUseOf(rs) = InUseOf(majors) + Filled(m)
         /\ AllocatedOf(rs) = AllocatedOf(majors) + Bytes(m)
    <2>1. \A i \in 1 .. Len(majors) : majors[i].page # m.page
      BY <1>5, <1>9
    <2>2. Appended(majors, rs, m)
      BY <1>9, <1>11, <2>1, AppendMajor DEF HInv
    <2>3. QED
      BY <2>2 DEF Appended
  <1>14. PagesStep
    <2>1. MajorRuns = RunsOf(majors) /\ MajorRuns' = RunsOf(rs) /\ TableRuns' = TableRuns
      <3>1. MajorRuns = RunsOf(majors)
        BY HeldRuns DEF HInv
      <3>2. MajorRuns' = RunsOf(rs)
        BY <1>10, <1>11, <1>13, ListingFacts DEF MajorRuns, RunsOf, RunOf
      <3>3. TableRuns' = TableRuns
        BY <1>10, <1>11 DEF TableRuns
      <3>4. QED
        BY <3>1, <3>2, <3>3
    <2>2. /\ RunOf(m) = [first |-> first, pages |-> n, by |-> "heap"]
          /\ (MajorRuns \cup TableRuns)' = (MajorRuns \cup TableRuns) \cup {RunOf(m)}
      BY <1>9, <1>13, <2>1 DEF RunOf
    <2>3. AP!Min(AP!FreeRuns(n)) = first
      BY <1>4 DEF AP!Min, Min
    <2>4. RunOf(m) \notin MajorRuns \cup TableRuns
      <3>1. \A i \in 1 .. Len(majors) : RunOf(majors[i]) # RunOf(m)
        BY <1>5, <1>9 DEF RunOf
      <3>2. QED
        BY <2>1, <3>1 DEF RunsOf, RunOf, TableRuns
    <2>5. AP!Pages(RunOf(m)) = AP!Run(first, n)
      BY <2>2 DEF AP!Pages, AP!Run
    <2>6. AP!pmm_alloc_pages(n, "heap")
      BY <1>3, <1>11, <2>2, <2>3, <2>4, <2>5, Zenon DEF AP!pmm_alloc_pages, pmm
    <2>7. QED
      BY <2>6 DEF PagesStep, AP!Next, RunLengths
  <1>15. AP!PInv'
    BY <1>14, PagesKept
  <1>16. Len(majors) \in Nat /\ DOMAIN majors = 1 .. Len(majors) /\ DOMAIN rs = 1 .. Len(rs)
    BY <1>13, ListingFacts DEF HInv
  <1>17. BestBetListed'
    <2>1. Len(rs) \in DOMAIN rs /\ rs[Len(rs)].page = first
      BY <1>9, <1>13, <1>16
    <2>2. \A i \in 1 .. Len(majors) : i \in DOMAIN rs /\ rs[i].page = majors[i].page
      BY <1>13, <1>16
    <2>3. l_bestBet = nullptr \/ \E i \in 1 .. Len(majors) : l_bestBet = majors[i].page
      BY <1>16 DEF HInv, BestBetListed
    <2>4. l_bestBet' = nullptr \/ \E i \in DOMAIN rs : rs[i].page = l_bestBet'
      BY <1>12, <2>1, <2>2, <2>3
    <2>5. QED
      BY <1>10, <2>4 DEF BestBetListed
  <1>18. tables' \subseteq Nat /\ \A p \in tables' : \A j \in 1 .. Len(rs) : rs[j].page # p
    <2>1. \A j \in 1 .. Len(rs) : j = Len(rs) \/ j \in 1 .. Len(majors)
      BY <1>13, <1>16
    <2>2. QED
      BY <1>5, <1>9, <1>11, <1>13, <2>1 DEF HInv
  <1>19. l_inuse' = InUseOf(rs) /\ l_allocated' = AllocatedOf(rs)
    BY <1>9, <1>11, <1>13 DEF HInv
  <1>20. QED
    BY <1>10, <1>13, <1>14, <1>15, <1>17, <1>18, <1>19 DEF HInv

(* A block is freed, and with the last block its major.                    *)
LEMMA FreeStep ==
  ASSUME HInv, NEW i \in DOMAIN majors, NEW k \in DOMAIN majors[i].minors, kfree(i, k)
  PROVE  HInv' /\ PagesStep
  <1>1. PICK m : m = majors[i]
    OBVIOUS
  <1>2. /\ i \in 1 .. Len(majors) /\ Laid(m) /\ k \in 1 .. Len(m.minors)
        /\ m \in MajorType /\ m.pages \in Nat \ {0}
    <2>1. i \in 1 .. Len(majors)
      BY ListingFacts DEF HInv
    <2>2. Laid(m) /\ m \in MajorType
      BY <1>1, <2>1, ListingFacts DEF HInv, Listing
    <2>3. QED
      BY <1>1, <2>1, <2>2 DEF MajorType
  <1>3. PICK left : left = Without(m, k)
    OBVIOUS
  <1>4. /\ Laid(left) /\ left.page = m.page /\ left.pages = m.pages
        /\ Filled(left) = Filled(m) - m.minors[k].size
    BY <1>2, <1>3, FreeKeepsLaid
  <1>5. Filled(m) \in Int /\ Filled(left) \in Int /\ Len(left.minors) \in Nat
        /\ m.minors[k].size \in Int
    BY <1>2, <1>4, FilledIsNumber DEF Minor
  <1>6. PICK rs : rs = majors'
    OBVIOUS
  <1>7. /\ l_inuse' = l_inuse - m.minors[k].size
        /\ IF left.minors = <<>>
           THEN /\ rs = RemoveAt(majors, i)
                /\ l_bestBet' = BetWithout(m)
                /\ l_allocated' = l_allocated - Bytes(m)
                /\ bitmap' = Released(m)
           ELSE /\ rs = [majors EXCEPT ![i] = left]
                /\ l_bestBet' = IF l_bestBet # nullptr /\ Unused(left) > BestSize
                                THEN m.page ELSE l_bestBet
                /\ UNCHANGED <<l_allocated, bitmap>>
        /\ UNCHANGED <<pmm, tables>>
    BY <1>1, <1>3, <1>6, Zenon DEF kfree, Without, InUseWithout
  <1>8. CASE left.minors = <<>>
    <2>1. Dropped(majors, rs, i)
      BY <1>2, <1>7, <1>8, DropMajor DEF HInv
    <2>2. Listing(rs) /\ Len(rs) \in Nat /\ DOMAIN rs = 1 .. Len(rs)
      BY <2>1, ListingFacts DEF Dropped
    <2>3. Filled(left) = 0
      <3>1. Len(left.minors) = 0 /\ 1 .. 0 = {}
        BY <1>8
      <3>2. QED
        BY <3>1, SumEmpty DEF Filled
    <2>4. l_inuse' = InUseOf(rs) /\ l_allocated' = AllocatedOf(rs)
      BY <1>1, <1>4, <1>5, <1>7, <1>8, <2>1, <2>3 DEF HInv, Dropped
    <2>5. RunsOf(rs) = RunsOf(majors) \ {RunOf(m)}
      <3>1. ASSUME NEW h \in 1 .. Len(rs) PROVE RunOf(rs[h]) \in RunsOf(majors) \ {RunOf(m)}
        <4>1. PICK j \in 1 .. Len(majors) : j # i /\ rs[h] = majors[j]
          BY <2>1 DEF Dropped
        <4>2. majors[j].page # m.page
          BY <1>1, <1>2, <4>1 DEF HInv, Listing
        <4>3. QED
          BY <4>1, <4>2 DEF RunsOf, RunOf
      <3>2. ASSUME NEW j \in 1 .. Len(majors), RunOf(majors[j]) # RunOf(m)
            PROVE  RunOf(majors[j]) \in RunsOf(rs)
        <4>1. PICK h \in 1 .. Len(rs) : rs[h] = majors[j]
          BY <1>1, <2>1, <3>2 DEF Dropped
        <4>2. QED
          BY <4>1 DEF RunsOf
      <3>3. QED
        BY <3>1, <3>2 DEF RunsOf
    <2>6. RunOf(m) \notin TableRuns
      BY <1>1, <1>2 DEF HInv, RunOf, TableRuns
    <2>7. RunOf(m) \in RunsOf(majors)
      BY <1>1, <1>2 DEF RunsOf
    <2>8. MajorRuns = RunsOf(majors) /\ MajorRuns' = RunsOf(rs) /\ TableRuns' = TableRuns
      BY <1>6, <1>7, <2>2, HeldRuns DEF HInv, MajorRuns, RunsOf, RunOf, TableRuns
    <2>9. (MajorRuns \cup TableRuns)' = (MajorRuns \cup TableRuns) \ {RunOf(m)}
      BY <2>5, <2>6, <2>8
    <2>10. bitmap' = bitmap \ AP!Pages(RunOf(m))
      BY <1>7, <1>8 DEF Released, Allocator!Run, AP!Pages, RunOf
    <2>11. AP!pmm_free_pages(RunOf(m))
      BY <1>7, <2>7, <2>8, <2>9, <2>10 DEF AP!pmm_free_pages, pmm
    <2>12. PagesStep
      BY <2>7, <2>8, <2>11 DEF PagesStep, AP!Next
    <2>13. AP!PInv'
      BY <2>12, PagesKept
    <2>14. BestBetListed'
      <3>1. ASSUME l_bestBet' # nullptr PROVE \E h \in 1 .. Len(rs) : rs[h].page = l_bestBet'
        <4>1. l_bestBet' = l_bestBet /\ l_bestBet # m.page
          BY <1>7, <1>8, <3>1 DEF BetWithout
        <4>2. PICK j \in DOMAIN majors : majors[j].page = l_bestBet
          BY <3>1, <4>1 DEF HInv, BestBetListed
        <4>3. j \in 1 .. Len(majors) /\ j # i
          BY <1>1, <4>1, <4>2, ListingFacts DEF HInv
        <4>4. PICK h \in 1 .. Len(rs) : rs[h] = majors[j]
          BY <2>1, <4>3 DEF Dropped
        <4>5. QED
          BY <4>1, <4>2, <4>4
      <3>2. QED
        BY <1>6, <2>2, <3>1 DEF BestBetListed
    <2>15. tables' \subseteq Nat /\ \A p \in tables' : \A j \in 1 .. Len(rs) : rs[j].page # p
      BY <1>7, <2>1 DEF HInv, Dropped
    <2>16. QED
      BY <1>6, <2>2, <2>4, <2>12, <2>13, <2>14, <2>15 DEF HInv
  <1>9. CASE left.minors # <<>>
    <2>1. Len(left.minors) # 0
      BY <1>4, <1>9 DEF Laid
    <2>2. l_bestBet' = l_bestBet \/ \E j \in 1 .. Len(majors) : l_bestBet' = majors[j].page
      BY <1>1, <1>2, <1>7, <1>9
    <2>3. l_inuse \in Int
      BY HInvNumbers
    <2>4. l_inuse' = l_inuse - Filled(majors[i]) + Filled(left)
      BY <1>1, <1>4, <1>5, <1>7, <2>3
    <2>5. /\ left.page = majors[i].page /\ left.pages = majors[i].pages
          /\ rs = majors' /\ rs = [majors EXCEPT ![i] = left]
          /\ UNCHANGED <<pmm, bitmap, l_allocated, tables>>
      BY <1>1, <1>4, <1>6, <1>7, <1>9
    <2>6. QED
      BY <1>2, <1>4, <2>1, <2>2, <2>4, <2>5, ReplaceStep
  <1>10. QED
    BY <1>8, <1>9

LEMMA ShrinkStep ==
  ASSUME HInv, NEW i \in DOMAIN majors, NEW k \in DOMAIN majors[i].minors,
         NEW req, krealloc_shrinks(i, k, req)
  PROVE  HInv' /\ PagesStep
  <1>1. PICK old : old = majors[i]
    OBVIOUS
  <1>2. i \in 1 .. Len(majors) /\ Laid(old) /\ old \in MajorType
    BY <1>1, ListingFacts DEF HInv, Listing
  <1>3. k \in 1 .. Len(old.minors) /\ Len(old.minors) \in Nat \ {0}
    BY <1>1, <1>2 DEF HInv, Listing, MajorType
  <1>4. req \in 1 .. old.minors[k].req
    BY <1>1 DEF krealloc_shrinks
  <1>5. PICK m : m = [old EXCEPT !.minors[k].req = req]
    OBVIOUS
  <1>6. /\ Laid(m) /\ m.page = old.page /\ m.pages = old.pages
        /\ Len(m.minors) = Len(old.minors) /\ Filled(m) = Filled(old)
    BY <1>2, <1>3, <1>4, <1>5, ShrinkKeepsLaid
  <1>7. PICK rs : rs = majors'
    OBVIOUS
  <1>8. rs = [majors EXCEPT ![i] = m]
    BY <1>1, <1>5, <1>7 DEF krealloc_shrinks
  <1>9. /\ l_inuse' = l_inuse /\ l_bestBet' = l_bestBet
        /\ UNCHANGED <<pmm, bitmap, l_allocated, tables>>
    BY DEF krealloc_shrinks
  <1>10. l_inuse' = l_inuse - Filled(majors[i]) + Filled(m)
    BY <1>1, <1>2, <1>6, <1>9, HInvNumbers, FilledIsNumber
  <1>11. m.page = majors[i].page /\ m.pages = majors[i].pages /\ Len(m.minors) # 0
    BY <1>1, <1>3, <1>6
  <1>12. QED
    BY <1>2, <1>6, <1>7, <1>8, <1>9, <1>10, <1>11, ReplaceStep

(* The majors stay as they are.                                            *)
LEMMA SameMajors ==
  ASSUME HInv, UNCHANGED <<majors, l_bestBet, l_inuse, l_allocated>>, PagesStep,
         tables' \subseteq Nat, \A p \in tables' : \A i \in 1 .. Len(majors) : majors[i].page # p
  PROVE  HInv'
  <1>1. AP!PInv'
    BY PagesKept
  <1>2. BestBetListed'
    BY DEF HInv, BestBetListed
  <1>3. QED
    BY <1>1, <1>2 DEF HInv

LEMMA TableStep ==
  ASSUME HInv, new_page_table
  PROVE  HInv' /\ PagesStep
  <1>1. AP!FreeRuns(1) # {} /\ AP!FreeRuns(1) = Allocator!FreeRuns(1)
    BY SameAllocator DEF new_page_table
  <1>2. PICK p : p = Min(AP!FreeRuns(1))
    OBVIOUS
  <1>3. /\ tables' = tables \cup {p} /\ bitmap' = bitmap \cup {p}
        /\ UNCHANGED <<pmm, majors, l_bestBet, l_inuse, l_allocated>>
    BY <1>1, <1>2 DEF new_page_table
  <1>4. /\ p \in Nat /\ p \notin tables
        /\ \A i \in 1 .. Len(majors) : majors[i].page # p
    BY <1>1, <1>2, FreePageIsNew DEF RunLengths
  <1>5. PagesStep
    <2>1. MajorRuns' = MajorRuns /\ TableRuns' = TableRuns \cup {TableRun(p)}
      BY <1>3 DEF MajorRuns, TableRuns, TableRun
    <2>2. (MajorRuns \cup TableRuns)' = (MajorRuns \cup TableRuns) \cup {TableRun(p)}
      BY <2>1
    <2>3. AP!Min(AP!FreeRuns(1)) = p /\ TableRun(p) = [first |-> p, pages |-> 1, by |-> "paging"]
      BY <1>2 DEF AP!Min, Min, TableRun
    <2>4. AP!Pages(TableRun(p)) = {p}
      BY <1>4 DEF AP!Pages, TableRun
    <2>5. TableRun(p) \notin MajorRuns \cup TableRuns
      BY <1>4 DEF MajorRuns, TableRuns, TableRun
    <2>6. AP!pmm_alloc_pages(1, "paging")
      BY <1>1, <1>3, <2>2, <2>3, <2>4, <2>5, Zenon DEF AP!pmm_alloc_pages, pmm
    <2>7. QED
      BY <2>6 DEF PagesStep, AP!Next
  <1>6. tables' \subseteq Nat /\ \A q \in tables' : \A i \in 1 .. Len(majors) : majors[i].page # q
    BY <1>3, <1>4 DEF HInv
  <1>7. QED
    BY <1>3, <1>5, <1>6, SameMajors

LEMMA ReclaimStep ==
  ASSUME HInv, reclaim
  PROVE  HInv' /\ PagesStep
  <1>1. UNCHANGED <<majors, l_bestBet, l_inuse, l_allocated, tables>>
    BY DEF reclaim
  <1>2. (MajorRuns \cup TableRuns)' = MajorRuns \cup TableRuns
    BY <1>1 DEF MajorRuns, TableRuns
  <1>3. AP!pmm_reclaim_bootloader_memory
    BY <1>2, SameAllocator DEF reclaim, AP!pmm_reclaim_bootloader_memory,
       Allocator!pmm_reclaim_bootloader_memory
  <1>4. PagesStep
    BY <1>3 DEF PagesStep, AP!Next
  <1>5. tables' \subseteq Nat /\ \A q \in tables' : \A i \in 1 .. Len(majors) : majors[i].page # q
    BY <1>1 DEF HInv
  <1>6. QED
    BY <1>1, <1>4, <1>5, SameMajors

LEMMA HeapStep ==
  ASSUME HInv, MayExhaust = FALSE, [Next]_vars
  PROVE  HInv' /\ PagesStep
  <1>1. CASE \E req \in Requests : kmalloc_fits(req)
    BY <1>1, FitsStep
  <1>2. CASE \E req \in Requests : kmalloc_grows(req)
    BY <1>2, GrowsStep
  <1>3. CASE \E i \in DOMAIN majors : \E k \in DOMAIN majors[i].minors : kfree(i, k)
    BY <1>3, FreeStep
  <1>4. CASE \E i \in DOMAIN majors : \E k \in DOMAIN majors[i].minors :
               \E req \in Requests : krealloc_shrinks(i, k, req)
    BY <1>4, ShrinkStep
  <1>5. CASE new_page_table
    BY <1>5, TableStep
  <1>6. CASE reclaim
    BY <1>6, ReclaimStep
  <1>7. CASE UNCHANGED vars
    <2>1. UNCHANGED <<majors, l_bestBet, l_inuse, l_allocated, tables, bitmap, pmm>>
      BY <1>7 DEF vars, pmm
    <2>2. PagesStep
      BY <2>1 DEF PagesStep, AP!vars, MajorRuns, TableRuns, pmm
    <2>3. QED
      BY <2>1, <2>2, SameMajors DEF HInv
  <1>8. QED
    BY <1>1, <1>2, <1>3, <1>4, <1>5, <1>6, <1>7 DEF Next

LEMMA SameSteps ==
  /\ AP!Init <=> Allocator!Init
  /\ [AP!Next]_(AP!vars) => [Allocator!Next]_(Allocator!vars)
  <1>1. \A n : Allocator!FreeRuns(n) = AP!FreeRuns(n)
    BY SameAllocator
  <1>2. \A p, n : Allocator!Run(p, n) = AP!Run(p, n)
    BY SameAllocator
  <1>3. \A S : Allocator!Min(S) = AP!Min(S)
    BY Zenon DEF Allocator!Min, AP!Min
  <1>4. \A n, c : AP!pmm_alloc_pages(n, c) => Allocator!pmm_alloc_pages(n, c)
    <2>1. \A e : Allocator!Pages(e) = AP!Pages(e)
      BY DEF Allocator!Pages, AP!Pages
    <2>2. QED
      BY <1>1, <1>3, <2>1, Zenon DEF AP!pmm_alloc_pages, Allocator!pmm_alloc_pages
  <1>5. \A r : AP!pmm_free_pages(r) => Allocator!pmm_free_pages(r)
    BY DEF AP!pmm_free_pages, Allocator!pmm_free_pages, AP!Pages, Allocator!Pages
  <1>6. AP!pmm_reclaim_bootloader_memory => Allocator!pmm_reclaim_bootloader_memory
    BY SameAllocator DEF AP!pmm_reclaim_bootloader_memory,
       Allocator!pmm_reclaim_bootloader_memory
  <1>7. AP!vars = Allocator!vars /\ (AP!vars)' = (Allocator!vars)'
    BY DEF AP!vars, Allocator!vars
  <1>8. AP!Next => Allocator!Next
    <2>1. AP!others_write => Allocator!others_write
      BY SameMaps, Zenon DEF AP!others_write, Allocator!others_write
    <2>2. QED
      BY <1>4, <1>5, <1>6, <2>1, Zenon DEF AP!Next, Allocator!Next
  <1>9. AP!Init <=> Allocator!Init
    <2>1. \A map : /\ Allocator!bitmap_size(map) = AP!bitmap_size(map)
                   /\ Allocator!Bits(map) = AP!Bits(map)
                   /\ Allocator!BitmapPages(map) = AP!BitmapPages(map)
                   /\ Allocator!Numbered(map) = AP!Numbered(map)
                   /\ \A types : Allocator!PagesOfType(map, types) = AP!PagesOfType(map, types)
      BY SameMaps
    <2>2. Allocator!Usable = AP!Usable
      BY DEF Allocator!Usable, AP!Usable
    <2>3. \A map, garbage : Allocator!pmm_init(map, garbage) = AP!pmm_init(map, garbage)
      BY <2>1, <2>2 DEF Allocator!pmm_init, AP!pmm_init
    <2>4. QED
      BY <2>1, <2>3 DEF Allocator!Init, AP!Init
  <1>10. QED
    BY <1>7, <1>8, <1>9

LEMMA HeapStart == Init => HInv /\ AP!Init
  <1> SUFFICES ASSUME Init PROVE HInv /\ AP!Init
    OBVIOUS
  <1>1. majors = <<>> /\ tables = {} /\ l_bestBet = nullptr /\ l_inuse = 0 /\ l_allocated = 0
    BY DEF Init
  <1>2. AP!Init
    BY SameSteps DEF Init
  <1>3. AP!PInv
    BY <1>2, AP!PEstablish, AllocatorAssumption
  <1>5. Len(majors) = 0 /\ 1 .. 0 = {} /\ DOMAIN majors = {}
    BY <1>1
  <1>6. Listing(majors)
    BY <1>1, <1>5 DEF Listing
  <1>7. InUseOf(majors) = 0 /\ AllocatedOf(majors) = 0
    BY <1>5, SumEmpty DEF InUseOf, AllocatedOf
  <1>8. QED
    BY <1>1, <1>2, <1>3, <1>5, <1>6, <1>7 DEF HInv, BestBetListed

-----------------------------------------------------------------------------
(* The theorems.                                                           *)

LEMMA HeapInvariant == ASSUME MayExhaust = FALSE PROVE Spec => []HInv
  <1>1. Init => HInv
    BY HeapStart
  <1>2. HInv /\ [Next]_vars => HInv'
    BY HeapStep
  <1>3. QED
    BY <1>1, <1>2, PTL DEF Spec

(* Blocks never share a byte, and hold what was asked for, in whatever     *)
(* order they were allocated, shrunk and freed.                            *)
THEOREM BlocksLieApart == ASSUME MayExhaust = FALSE PROVE Spec => []BlocksApart
  <1>1. HInv => BlocksApart
    <2> SUFFICES ASSUME HInv PROVE BlocksApart
      OBVIOUS
    <2>1. ASSUME NEW i \in DOMAIN majors
          PROVE  /\ \A k \in 0 .. Len(majors[i].minors) : Gap(majors[i], k) >= 0
                 /\ \A k \in DOMAIN majors[i].minors :
                      SizeOf(majors[i].minors[k].req) <= majors[i].minors[k].size
      <3>1. i \in 1 .. Len(majors)
        BY ListingFacts DEF HInv
      <3>2. Laid(majors[i]) /\ majors[i] \in MajorType
        BY <3>1, ListingFacts DEF HInv, Listing
      <3>3. DOMAIN majors[i].minors = 1 .. Len(majors[i].minors)
        BY <3>2 DEF MajorType
      <3>4. QED
        BY <3>2, <3>3 DEF Laid
    <2>2. QED
      BY <2>1 DEF BlocksApart
  <1>2. QED
    BY <1>1, HeapInvariant, PTL

(* l_bestBet never outlives its major.                                     *)
THEOREM BestBetIsListed == ASSUME MayExhaust = FALSE PROVE Spec => []BestBetListed
  <1>1. HInv => BestBetListed
    BY DEF HInv
  <1>2. QED
    BY <1>1, HeapInvariant, PTL

(* Heap and page tables use the page allocator as it promises: each of     *)
(* their steps is an allocation, or the release of what they hold.         *)
THEOREM HeapUsesAllocator == ASSUME MayExhaust = FALSE PROVE Spec => UsesAllocator
  <1>1. Init => HInv /\ Allocator!Init
    BY HeapStart, SameSteps
  <1>2. HInv /\ [Next]_vars => HInv' /\ [Allocator!Next]_(Allocator!vars)
    BY HeapStep, SameSteps DEF PagesStep
  <1>3. QED
    BY <1>1, <1>2, PTL DEF Spec, UsesAllocator, Allocator!Spec

(* Heap and page tables never share a page, and a page that neither holds  *)
(* can be allocated again: no empty major keeps its pages.                 *)
THEOREM PagesAreAccounted == ASSUME MayExhaust = FALSE PROVE Spec => []PagesAccounted
  <1>1. HInv => PagesAccounted
    <2> SUFFICES ASSUME HInv PROVE PagesAccounted
      OBVIOUS
    <2>1. PICK n \in Nat : n = Len(majors) /\ DOMAIN majors = 1 .. n
      BY ListingFacts DEF HInv
    <2>2. \A e : Allocator!Pages(e) = AP!Pages(e)
      BY DEF Allocator!Pages, AP!Pages
    <2>3. Allocator!HeldPages = AP!HeldPages
      BY DEF Allocator!HeldPages, AP!HeldPages, Allocator!Pages, AP!Pages
    <2>4. Allocator!Available = AP!Available
      <3>1. Allocator!Usable = AP!Usable
        BY DEF Allocator!Usable, AP!Usable
      <3>2. /\ Allocator!BitmapPages(pmm_memory_map) = AP!BitmapPages(pmm_memory_map)
            /\ \A types : Allocator!PagesOfType(pmm_memory_map, types)
                          = AP!PagesOfType(pmm_memory_map, types)
        BY SameMaps
      <3>3. QED
        BY <3>1, <3>2 DEF Allocator!Available, AP!Available
    <2>5. AP!HeldApart /\ AP!OnlyMemory /\ AP!NothingLost
      BY DEF HInv, AP!PInv
    <2>6. Allocator!HeldApart /\ Allocator!OnlyMemory /\ Allocator!NothingLost
      BY <2>2, <2>3, <2>4, <2>5, SameMaps, Zenon DEF Allocator!HeldApart, AP!HeldApart, Allocator!OnlyMemory,
         AP!OnlyMemory, Allocator!NothingLost, AP!NothingLost
    <2>7. MajorsOwnPages
      <3>1. ASSUME NEW i \in 1 .. n
            PROVE  Allocator!Run(majors[i].page, majors[i].pages) \subseteq AP!HeldPages
        <4>1. RunOf(majors[i]) \in MajorRuns
          BY <2>1, HeldRuns DEF HInv, RunsOf
        <4>2. AP!Pages(RunOf(majors[i])) = Allocator!Run(majors[i].page, majors[i].pages)
          BY DEF AP!Pages, Allocator!Run, RunOf
        <4>3. QED
          BY <4>1, <4>2 DEF AP!HeldPages
      <3>2. AP!HeldPages \subseteq bitmap \cap Allocator!Available
        BY <2>4, NothingStray
      <3>3. QED
        BY <2>1, <3>1, <3>2 DEF MajorsOwnPages
    <2>8. \A i, j \in DOMAIN majors : i # j => majors[i].page # majors[j].page
      BY <2>1 DEF HInv, Listing
    <2>9. \A i \in DOMAIN majors : majors[i].minors # <<>>
      BY <2>1 DEF HInv, Listing
    <2>10. QED
      BY <2>6, <2>7, <2>8, <2>9 DEF PagesAccounted
  <1>2. QED
    BY <1>1, HeapInvariant, PTL

-----------------------------------------------------------------------------
(* The counters.                                                           *)

LEMMA MinorsAddUp ==
  ASSUME NEW m, Laid(m)
  PROVE  MapThenSumSet(LAMBDA k : m.minors[k].size + MinorHeader, DOMAIN m.minors)
           = Filled(m) + Len(m.minors) * MinorHeader
  <1>1. PICK n \in Nat : n = Len(m.minors) /\ DOMAIN m.minors = 1 .. n
    BY FilledIsNumber DEF Laid
  <1>2. PICK u : u = [k \in 1 .. n |-> m.minors[k].size + MinorHeader]
    OBVIOUS
  <1>3. \A k \in 1 .. n : u[k] \in Int /\ u[k] = m.minors[k].size + MinorHeader
    BY <1>1, <1>2, FilledIsNumber, HeapAssumption DEF Minor
  <1>4. IsFiniteSet(1 .. n)
    BY FS_Interval
  <1> DEFINE Choice(h) == h = [s \in SUBSET (1 .. n) |->
               IF s = {} THEN 0
               ELSE LET x == CHOOSE x \in s : TRUE
                    IN (m.minors[x].size + MinorHeader) + h[s \ {x}]]
  <1>5. \A h : Choice(h) <=> SumRecursion(u, 1 .. n, h)
    <2>1. ASSUME NEW h, NEW s \in SUBSET (1 .. n)
          PROVE  SumBody(u, s, h) = IF s = {} THEN 0
                                    ELSE LET x == CHOOSE x \in s : TRUE
                                         IN (m.minors[x].size + MinorHeader) + h[s \ {x}]
      <3>1. CASE s = {}
        BY <3>1, Zenon DEF SumBody
      <3>2. CASE s # {}
        <4>1. PICK x \in s : x = CHOOSE y \in s : TRUE
          BY <3>2
        <4>2. u[x] = m.minors[x].size + MinorHeader
          BY <1>3
        <4>3. QED
          BY <3>2, <4>1, <4>2, Zenon DEF SumBody
      <3>3. QED
        BY <3>1, <3>2
    <2>2. QED
      BY <2>1, ZenonT(60) DEF SumRecursion
  <1>6. MapThenSumSet(LAMBDA k : m.minors[k].size + MinorHeader, 1 .. n) = (CHOOSE h : Choice(h))[1 .. n]
    BY Zenon DEF MapThenSumSet, MapThenFoldSet
  <1> HIDE DEF Choice
  <1>7. PICK c : c = (CHOOSE h : Choice(h)) /\ Choice(c)
    <2>1. \E h : Choice(h)
      BY <1>3, <1>4, <1>5, SumExists
    <2>2. QED
      BY <2>1, Zenon
  <1>8. c[1 .. n] = Total(u, 1 .. n)
    BY <1>3, <1>4, <1>5, <1>7, SumByRecursion
  <1>9. Total(u, 1 .. n) = Filled(m) + n * MinorHeader
    <2>1. PICK f : f = Sizes(m)
      OBVIOUS
    <2>2. PICK z \in Int : z = 0
      OBVIOUS
    <2>3. ASSUME NEW k \in 1 .. n
          PROVE  f[k] \in Int /\ u[k] = f[k] + f[k] * z + MinorHeader
      BY <1>1, <1>3, <2>1, <2>2, FilledIsNumber, HeapAssumption, SMTT(30) DEF Minor
    <2>4. Total(u, 1 .. n) = Total(f, 1 .. n) + Total(f, 1 .. n) * z + n * MinorHeader
      <3>1. MinorHeader \in Int
        BY HeapAssumption
      <3>2. Linear(n, u, f, f, z, MinorHeader)
        BY <2>3 DEF Linear
      <3>3. QED
        BY <1>1, <2>2, <3>1, <3>2, SumLinear
    <2>5. Total(f, 1 .. n) \in Int /\ Total(f, 1 .. n) = Filled(m)
      BY <1>1, <1>4, <2>1, <2>3, SumTakeOut DEF Filled
    <2>6. QED
      BY <1>1, <2>2, <2>4, <2>5, HeapAssumption
  <1>10. QED
    BY <1>1, <1>6, <1>7, <1>8, <1>9

LEMMA BytesAddUp ==
  ASSUME NEW ms, Listing(ms)
  PROVE  MapThenSumSet(LAMBDA i : Bytes(ms[i]), DOMAIN ms) = Total(BytesIn(ms), 1 .. Len(ms))
  <1>1. PICK n \in Nat : n = Len(ms) /\ DOMAIN ms = 1 .. n
    BY ListingFacts
  <1>2. PICK f : f = BytesIn(ms)
    OBVIOUS
  <1>3. \A i \in 1 .. n : f[i] \in Int /\ f[i] = Bytes(ms[i])
    BY <1>1, <1>2, ListingFacts
  <1> DEFINE Choice(h) == h = [s \in SUBSET (1 .. n) |->
               IF s = {} THEN 0
               ELSE LET x == CHOOSE x \in s : TRUE IN Bytes(ms[x]) + h[s \ {x}]]
  <1>4. \A h : Choice(h) <=> SumRecursion(f, 1 .. n, h)
    <2>1. ASSUME NEW h, NEW s \in SUBSET (1 .. n)
          PROVE  SumBody(f, s, h) = IF s = {} THEN 0
                                    ELSE LET x == CHOOSE x \in s : TRUE
                                         IN Bytes(ms[x]) + h[s \ {x}]
      <3>1. CASE s = {}
        BY <3>1, Zenon DEF SumBody
      <3>2. CASE s # {}
        <4>1. PICK x \in s : x = CHOOSE y \in s : TRUE
          BY <3>2
        <4>2. f[x] = Bytes(ms[x])
          BY <1>3
        <4>3. QED
          BY <3>2, <4>1, <4>2, Zenon DEF SumBody
      <3>3. QED
        BY <3>1, <3>2
    <2>2. QED
      BY <2>1, ZenonT(60) DEF SumRecursion
  <1>5. MapThenSumSet(LAMBDA i : Bytes(ms[i]), 1 .. n) = (CHOOSE h : Choice(h))[1 .. n]
    BY Zenon DEF MapThenSumSet, MapThenFoldSet
  <1> HIDE DEF Choice
  <1>6. PICK c : c = (CHOOSE h : Choice(h)) /\ Choice(c)
    <2>1. IsFiniteSet(1 .. n)
      BY <1>1, FS_Interval
    <2>2. \E h : Choice(h)
      BY <1>3, <1>4, <2>1, SumExists
    <2>3. QED
      BY <2>2, Zenon
  <1>7. c[1 .. n] = Total(f, 1 .. n)
    <2>1. IsFiniteSet(1 .. n)
      BY <1>1, FS_Interval
    <2>2. QED
      BY <1>3, <1>4, <1>6, <2>1, SumByRecursion
  <1>8. QED
    BY <1>1, <1>2, <1>5, <1>6, <1>7

LEMMA BlocksAddUp ==
  ASSUME NEW ms, Listing(ms)
  PROVE  MapThenSumSet(LAMBDA i : Len(ms[i].minors), DOMAIN ms) = Total(BlocksIn(ms), 1 .. Len(ms))
  <1>1. PICK n \in Nat : n = Len(ms) /\ DOMAIN ms = 1 .. n
    BY ListingFacts
  <1>2. PICK f : f = BlocksIn(ms)
    OBVIOUS
  <1>3. \A i \in 1 .. n : f[i] \in Int /\ f[i] = Len(ms[i].minors)
    BY <1>1, <1>2, ListingFacts
  <1> DEFINE Choice(h) == h = [s \in SUBSET (1 .. n) |->
               IF s = {} THEN 0
               ELSE LET x == CHOOSE x \in s : TRUE IN Len(ms[x].minors) + h[s \ {x}]]
  <1>4. \A h : Choice(h) <=> SumRecursion(f, 1 .. n, h)
    <2>1. ASSUME NEW h, NEW s \in SUBSET (1 .. n)
          PROVE  SumBody(f, s, h) = IF s = {} THEN 0
                                    ELSE LET x == CHOOSE x \in s : TRUE
                                         IN Len(ms[x].minors) + h[s \ {x}]
      <3>1. CASE s = {}
        BY <3>1, Zenon DEF SumBody
      <3>2. CASE s # {}
        <4>1. PICK x \in s : x = CHOOSE y \in s : TRUE
          BY <3>2
        <4>2. f[x] = Len(ms[x].minors)
          BY <1>3
        <4>3. QED
          BY <3>2, <4>1, <4>2, Zenon DEF SumBody
      <3>3. QED
        BY <3>1, <3>2
    <2>2. QED
      BY <2>1, ZenonT(60) DEF SumRecursion
  <1>5. MapThenSumSet(LAMBDA i : Len(ms[i].minors), 1 .. n) = (CHOOSE h : Choice(h))[1 .. n]
    BY Zenon DEF MapThenSumSet, MapThenFoldSet
  <1> HIDE DEF Choice
  <1>6. PICK c : c = (CHOOSE h : Choice(h)) /\ Choice(c)
    <2>1. IsFiniteSet(1 .. n)
      BY <1>1, FS_Interval
    <2>2. \E h : Choice(h)
      BY <1>3, <1>4, <2>1, SumExists
    <2>3. QED
      BY <2>2, Zenon
  <1>7. c[1 .. n] = Total(f, 1 .. n)
    <2>1. IsFiniteSet(1 .. n)
      BY <1>1, FS_Interval
    <2>2. QED
      BY <1>3, <1>4, <1>6, <2>1, SumByRecursion
  <1>8. QED
    BY <1>1, <1>2, <1>5, <1>6, <1>7

LEMMA UsageAddsUp ==
  ASSUME NEW ms, Listing(ms)
  PROVE  MapThenSumSet(LAMBDA i : ms[i].usage, DOMAIN ms) = Total(UsageIn(ms), 1 .. Len(ms))
  <1>1. PICK n \in Nat : n = Len(ms) /\ DOMAIN ms = 1 .. n
    BY ListingFacts
  <1>2. PICK f : f = UsageIn(ms)
    OBVIOUS
  <1>3. \A i \in 1 .. n : f[i] \in Int /\ f[i] = ms[i].usage
    BY <1>1, <1>2, ListingFacts
  <1> DEFINE Choice(h) == h = [s \in SUBSET (1 .. n) |->
               IF s = {} THEN 0
               ELSE LET x == CHOOSE x \in s : TRUE IN ms[x].usage + h[s \ {x}]]
  <1>4. \A h : Choice(h) <=> SumRecursion(f, 1 .. n, h)
    <2>1. ASSUME NEW h, NEW s \in SUBSET (1 .. n)
          PROVE  SumBody(f, s, h) = IF s = {} THEN 0
                                    ELSE LET x == CHOOSE x \in s : TRUE
                                         IN ms[x].usage + h[s \ {x}]
      <3>1. CASE s = {}
        BY <3>1, Zenon DEF SumBody
      <3>2. CASE s # {}
        <4>1. PICK x \in s : x = CHOOSE y \in s : TRUE
          BY <3>2
        <4>2. f[x] = ms[x].usage
          BY <1>3
        <4>3. QED
          BY <3>2, <4>1, <4>2, Zenon DEF SumBody
      <3>3. QED
        BY <3>1, <3>2
    <2>2. QED
      BY <2>1, ZenonT(60) DEF SumRecursion
  <1>5. MapThenSumSet(LAMBDA i : ms[i].usage, 1 .. n) = (CHOOSE h : Choice(h))[1 .. n]
    BY Zenon DEF MapThenSumSet, MapThenFoldSet
  <1> HIDE DEF Choice
  <1>6. PICK c : c = (CHOOSE h : Choice(h)) /\ Choice(c)
    <2>1. IsFiniteSet(1 .. n)
      BY <1>1, FS_Interval
    <2>2. \E h : Choice(h)
      BY <1>3, <1>4, <2>1, SumExists
    <2>3. QED
      BY <2>2, Zenon
  <1>7. c[1 .. n] = Total(f, 1 .. n)
    <2>1. IsFiniteSet(1 .. n)
      BY <1>1, FS_Interval
    <2>2. QED
      BY <1>3, <1>4, <1>6, <2>1, SumByRecursion
  <1>8. QED
    BY <1>1, <1>2, <1>5, <1>6, <1>7

LEMMA CountersArePositive ==
  ASSUME NEW ms, Listing(ms)
  PROVE  /\ InUseOf(ms) \in Nat /\ AllocatedOf(ms) \in Nat
         /\ \A i \in 1 .. Len(ms) : Filled(ms[i]) \in Nat /\ ms[i].usage \in Nat
  <1>1. PICK n \in Nat : n = Len(ms)
    BY ListingFacts
  <1>2. ASSUME NEW i \in 1 .. n
        PROVE  Filled(ms[i]) \in Nat /\ ms[i].usage \in Nat /\ Bytes(ms[i]) \in Nat
    <2>1. Laid(ms[i]) /\ ms[i].pages \in Nat
      BY <1>1, ListingFacts DEF Listing, MajorType
    <2>2. PICK k \in Nat : k = Len(ms[i].minors)
      BY <2>1, FilledIsNumber
    <2>3. \A j \in 1 .. k : Sizes(ms[i])[j] \in Nat
      BY <2>1, <2>2, FilledIsNumber DEF Minor
    <2>4. Filled(ms[i]) \in Nat
      BY <2>2, <2>3, SumNatural DEF Filled
    <2>5. ms[i].usage = MajorHeader + k * MinorHeader + Filled(ms[i])
      BY <2>1, <2>2 DEF Laid
    <2>6. k * MinorHeader \in Nat /\ ms[i].pages * BytesPerPage \in Nat
      BY <2>1, <2>2, HeapAssumption
    <2>7. QED
      BY <2>4, <2>5, <2>6, HeapAssumption DEF Bytes
  <1>3. PICK f : f = FilledIn(ms)
    OBVIOUS
  <1>4. PICK g : g = BytesIn(ms)
    OBVIOUS
  <1>5. \A i \in 1 .. n : f[i] \in Nat /\ g[i] \in Nat
    BY <1>1, <1>2, <1>3, <1>4, ListingFacts
  <1>6. Total(f, 1 .. n) \in Nat /\ Total(g, 1 .. n) \in Nat
    BY <1>5, SumNatural
  <1>7. QED
    BY <1>1, <1>2, <1>3, <1>4, <1>6 DEF InUseOf, AllocatedOf

(* All the bytes in use: those of the blocks and of the headers.           *)
LEMMA HeadersAddUp ==
  ASSUME NEW ms, Listing(ms)
  PROVE  /\ Total(UsageIn(ms), 1 .. Len(ms))
              = InUseOf(ms) + Total(BlocksIn(ms), 1 .. Len(ms)) * MinorHeader
                            + Len(ms) * MajorHeader
         /\ Total(BlocksIn(ms), 1 .. Len(ms)) \in Int
  <1>1. PICK n \in Nat : n = Len(ms)
    BY ListingFacts
  <1>2. PICK f : f = FilledIn(ms)
    OBVIOUS
  <1>3. PICK g : g = BlocksIn(ms)
    OBVIOUS
  <1>4. PICK u : u = UsageIn(ms)
    OBVIOUS
  <1>5. MinorHeader \in Int /\ MajorHeader \in Int
    BY HeapAssumption
  <1>6. ASSUME NEW i \in 1 .. n
        PROVE  f[i] \in Int /\ g[i] \in Int /\ u[i] = f[i] + g[i] * MinorHeader + MajorHeader
    <2>1. /\ f[i] = Filled(ms[i]) /\ f[i] \in Int
          /\ g[i] = Len(ms[i].minors) /\ g[i] \in Int
          /\ u[i] = ms[i].usage
      BY <1>1, <1>2, <1>3, <1>4, ListingFacts
    <2>2. ms[i].usage = MajorHeader + Len(ms[i].minors) * MinorHeader + Filled(ms[i])
      BY <1>1 DEF Listing, Laid
    <2>3. PICK p \in Int : p = g[i] * MinorHeader
      BY <1>5, <2>1
    <2>4. u[i] = MajorHeader + p + f[i]
      BY <2>1, <2>2, <2>3
    <2>5. QED
      BY <1>5, <2>1, <2>3, <2>4
  <1>7. Linear(n, u, f, g, MinorHeader, MajorHeader)
    BY <1>6 DEF Linear
  <1>8. Total(u, 1 .. n) = Total(f, 1 .. n) + Total(g, 1 .. n) * MinorHeader + n * MajorHeader
    BY <1>5, <1>7, SumLinear
  <1>9. Total(g, 1 .. n) \in Int
    <2>1. IsFiniteSet(1 .. n)
      BY FS_Interval
    <2>2. QED
      BY <1>6, <2>1, SumTakeOut
  <1>10. QED
    BY <1>1, <1>2, <1>3, <1>4, <1>8, <1>9 DEF InUseOf

(* The counters say what the lists say: what kmalloc decides by, l_bestBet *)
(* and usage, is never out of step with the blocks, and no count goes      *)
(* below zero however blocks are freed.                                    *)
THEOREM CountersFollowLists == ASSUME MayExhaust = FALSE PROVE Spec => []Accounting
  <1>1. Spec => []AP!TypeOK
    <2>1. Init => HInv /\ AP!Init
      BY HeapStart
    <2>2. HInv /\ [Next]_vars => HInv' /\ [AP!Next]_(AP!vars)
      BY HeapStep DEF PagesStep
    <2>3. Spec => AP!Spec
      BY <2>1, <2>2, PTL DEF Spec, AP!Spec
    <2>4. AP!Spec => []AP!TypeOK
      BY AllocatorAssumption, AP!TypesKept
    <2>5. QED
      BY <2>3, <2>4, PTL
  <1>2. HInv /\ AP!TypeOK => Accounting
    <2> SUFFICES ASSUME HInv, AP!TypeOK PROVE Accounting
      OBVIOUS
    <2>1. Listing(majors)
      BY DEF HInv
    <2>2. PICK n \in Nat : n = Len(majors) /\ DOMAIN majors = 1 .. n
      BY <2>1, ListingFacts
    <2>3. TypeOK
      <3>1. bitmap \subseteq Nat
        BY AllocatorAssumption, AP!BitsNat DEF AP!TypeOK
      <3>2. majors \in Seq(Major)
        <4>1. ASSUME NEW i \in 1 .. n PROVE majors[i] \in Major
          <5>1. majors[i] \in MajorType /\ majors[i].usage \in Nat
            BY <2>1, <2>2, ListingFacts, CountersArePositive
          <5>2. QED
            BY <5>1 DEF MajorType, Major, Minor
        <4>2. majors \in [1 .. n -> Major]
          BY <2>1, <2>2, <4>1 DEF Listing
        <4>3. QED
          BY <2>2, <4>2
      <3>3. l_inuse \in Nat /\ l_allocated \in Nat
        BY <2>1, CountersArePositive DEF HInv
      <3>4. l_bestBet \in Nat \cup {nullptr}
        <4>1. ASSUME NEW i \in 1 .. n PROVE majors[i].page \in Nat
          BY <2>1, <2>2, ListingFacts DEF MajorType
        <4>2. QED
          BY <2>2, <4>1 DEF HInv, BestBetListed
      <3>5. QED
        BY <3>1, <3>2, <3>3, <3>4 DEF TypeOK, HInv
    <2>4. ASSUME NEW i \in DOMAIN majors
          PROVE  majors[i].usage = MajorHeader
                   + MapThenSumSet(LAMBDA k : majors[i].minors[k].size + MinorHeader,
                                   DOMAIN majors[i].minors)
      <3>1. PICK m : m = majors[i]
        OBVIOUS
      <3>2. Laid(m) /\ Filled(m) \in Int /\ Len(m.minors) \in Nat
        BY <2>1, <2>2, <3>1, FilledIsNumber DEF Listing
      <3>3. MapThenSumSet(LAMBDA k : majors[i].minors[k].size + MinorHeader, DOMAIN majors[i].minors)
              = Filled(majors[i]) + Len(majors[i].minors) * MinorHeader
        BY <3>1, <3>2, MinorsAddUp
      <3>4. m.usage = MajorHeader + Len(m.minors) * MinorHeader + Filled(m)
        BY <3>2 DEF Laid
      <3>5. PICK p \in Int : p = Len(m.minors) * MinorHeader
        BY <3>2, HeapAssumption
      <3>6. MajorHeader + p + Filled(m) = MajorHeader + (Filled(m) + p)
        BY <3>2, HeapAssumption
      <3>7. m.usage = MajorHeader + (Filled(m) + Len(m.minors) * MinorHeader)
        BY <3>4, <3>5, <3>6
      <3>8. QED
        BY <3>1, <3>3, <3>7
    <2>5. l_allocated = MapThenSumSet(LAMBDA i : Bytes(majors[i]), DOMAIN majors)
      BY <2>1, BytesAddUp DEF HInv, AllocatedOf
    <2>6. l_inuse + BlockCount * MinorHeader + Len(majors) * MajorHeader
            = MapThenSumSet(LAMBDA i : majors[i].usage, DOMAIN majors)
      <3>1. BlockCount = Total(BlocksIn(majors), 1 .. Len(majors))
        BY <2>1, BlocksAddUp DEF BlockCount
      <3>2. MapThenSumSet(LAMBDA i : majors[i].usage, DOMAIN majors)
              = Total(UsageIn(majors), 1 .. Len(majors))
        BY <2>1, UsageAddsUp
      <3>3. l_inuse = InUseOf(majors)
        BY DEF HInv
      <3>4. QED
        BY <2>1, <3>1, <3>2, <3>3, HeadersAddUp
    <2>7. QED
      BY <2>3, <2>4, <2>5, <2>6 DEF Accounting
  <1>3. QED
    BY <1>1, <1>2, HeapInvariant, PTL

-----------------------------------------------------------------------------
(* When the heap grows.                                                    *)

(* The list gets longer only where a major is added.                       *)
LEMMA OthersDoNotGrow ==
  ASSUME HInv, [Next]_vars, ~ \E req \in Requests : kmalloc_grows(req)
  PROVE  ~ Len(majors') > Len(majors)
  <1>1. PICK n \in Nat : n = Len(majors) /\ DOMAIN majors = 1 .. n
    BY ListingFacts DEF HInv
  <1>2. PICK ms \in Seq(MajorType) : ms = majors
    BY DEF HInv, Listing
  <1>3. CASE \E req \in Requests : kmalloc_fits(req)
    <2>1. Len(majors') = n
      <3>1. PICK f : f = majors'
        OBVIOUS
      <3>2. PICK req \in Requests : kmalloc_fits(req)
        BY <1>3
      <3>3. PICK m : m = Visits(SizeOf(req))[Min(Fitting(SizeOf(req)))]
        OBVIOUS
      <3>4. f = [i \in DOMAIN majors |-> IF majors[i].page = m.page THEN Place(m, req) ELSE majors[i]]
        BY <3>1, <3>2, <3>3, Zenon DEF kmalloc_fits
      <3>5. QED
        BY <1>1, <3>1, <3>4
    <2>2. QED
      BY <1>1, <2>1
  <1>4. CASE \E i \in DOMAIN majors : \E k \in DOMAIN majors[i].minors : kfree(i, k)
    <2>1. PICK i \in 1 .. n : \/ majors' = RemoveAt(majors, i)
                              \/ \E m : majors' = [majors EXCEPT ![i] = m]
      BY <1>1, <1>4, Zenon DEF kfree
    <2>2. CASE majors' = RemoveAt(majors, i)
      <3>1. Len(RemoveAt(ms, i)) = Len(ms) - 1
        BY <1>1, <1>2, <2>1, RemoveAtFacts
      <3>2. QED
        BY <1>1, <1>2, <2>2, <3>1
    <2>3. CASE \E m : majors' = [majors EXCEPT ![i] = m]
      BY <1>1, <1>2, <2>3
    <2>4. QED
      BY <2>1, <2>2, <2>3
  <1>5. CASE \E i \in DOMAIN majors : \E k \in DOMAIN majors[i].minors :
               \E req \in Requests : krealloc_shrinks(i, k, req)
    BY <1>1, <1>2, <1>5 DEF krealloc_shrinks
  <1>6. CASE new_page_table \/ reclaim \/ UNCHANGED vars
    BY <1>1, <1>6 DEF new_page_table, reclaim, vars
  <1>7. QED
    BY <1>3, <1>4, <1>5, <1>6 DEF Next

(* Where one is added, no major has a gap for the block it is added for.   *)
LEMMA NoGapIsLeft ==
  ASSUME HInv, MayExhaust = FALSE, NEW req \in Requests, kmalloc_grows(req),
         NEW i \in DOMAIN majors
  PROVE  Gaps(majors[i], SizeOf(req)) = {}
  <1>1. PICK size \in Nat : size = SizeOf(req)
    BY HeapAssumption DEF SizeOf
  <1>2. i \in 1 .. Len(majors) /\ Laid(majors[i])
    BY ListingFacts DEF HInv, Listing
  <1>3. PICK v \in 1 .. Len(Visits(size)) : Visits(size)[v] = majors[i]
    BY <1>2, VisitsAll
  <1>4. v \in DOMAIN Visits(size)
    BY VisitsAll
  <1>5. ~ Fits(majors[i], size)
    BY <1>1, <1>3, <1>4 DEF kmalloc_grows, Fitting
  <1>6. ASSUME NEW k \in Gaps(majors[i], size) PROVE FALSE
    <2>1. k \in 0 .. Len(majors[i].minors) /\ Gap(majors[i], k) >= size + MinorHeader
      BY DEF Gaps
    <2>2. Gap(majors[i], k) <= Unused(majors[i])
      BY <1>2, <2>1, GapsAreUnused
    <2>3. Unused(majors[i]) \in Int /\ Gap(majors[i], k) \in Int
      BY <1>2, <2>1, GapsAreUnused
    <2>4. Unused(majors[i]) >= size + MinorHeader
      BY <2>1, <2>2, <2>3, HeapAssumption
    <2>5. QED
      BY <1>5, <1>6, <2>4 DEF Fits
  <1>7. QED
    BY <1>1, <1>6

(* The block a major is added for is the one it then holds.                *)
LEMMA AddedFor ==
  ASSUME HInv, MayExhaust = FALSE, NEW req \in Requests, kmalloc_grows(req)
  PROVE  Last(majors').minors[1].size = SizeOf(req)
  <1>1. PICK new, n : new = NewMajor(n, SizeOf(req)) /\ majors' = Append(majors, Place(new, req))
    BY Zenon DEF kmalloc_grows
  <1>2. PICK ms \in Seq(MajorType) : ms = majors
    BY DEF HInv, Listing
  <1>3. PICK m : m = Place(new, req)
    OBVIOUS
  <1>4. Last(Append(ms, m)) = m
    <2>1. Len(Append(ms, m)) = Len(ms) + 1 /\ Append(ms, m)[Len(ms) + 1] = m
      OBVIOUS
    <2>2. QED
      BY <2>1 DEF Last
  <1>5. m.minors[1].size = SizeOf(req)
    <2>1. SizeOf(req) \in Nat /\ req \in Nat
      BY HeapAssumption DEF SizeOf
    <2>2. Min(Gaps(new, SizeOf(req))) = 0
      <3>1. Gaps(new, SizeOf(req)) = Gaps(NewMajor(0, SizeOf(req)), SizeOf(req))
        BY <1>1 DEF Gaps, Gap, GapStart, Bytes, NewMajor
      <3>2. Gaps(NewMajor(0, SizeOf(req)), SizeOf(req)) = {0}
        BY <2>1, NewMajorLaid
      <3>3. Min({0}) \in {0}
        BY MinIsLeast
      <3>4. QED
        BY <3>1, <3>2, <3>3
    <2>3. PICK e : /\ e = [at |-> GapStart(new, 0), size |-> SizeOf(req), req |-> req]
                   /\ m.minors = InsertAt(<<>>, 1, e)
      BY <1>1, <1>3, <2>2 DEF Place, NewMajor
    <2>4. InsertAt(<<>>, 1, e)[1] = e
      BY FirstInserted
    <2>5. QED
      BY <2>3, <2>4
  <1>6. QED
    BY <1>1, <1>2, <1>3, <1>4, <1>5

(* The heap takes more pages only if no major has a gap that is large      *)
(* enough, although the search starts in the middle of the list, at        *)
(* l_bestBet, and passes over majors by their count of used bytes.         *)
THEOREM GrowsWhenFull == ASSUME MayExhaust = FALSE PROVE Spec => GrowsOnlyWhenFull
  <1> DEFINE Grown == Len(majors') > Len(majors) =>
               \A i \in DOMAIN majors : Gaps(majors[i], Last(majors').minors[1].size) = {}
  <1>1. HInv /\ [Next]_vars => Grown
    <2> SUFFICES ASSUME HInv, [Next]_vars PROVE Grown
      OBVIOUS
    <2>1. CASE \E req \in Requests : kmalloc_grows(req)
      <3>1. PICK req \in Requests : kmalloc_grows(req)
        BY <2>1
      <3>2. Last(majors').minors[1].size = SizeOf(req)
        BY <3>1, AddedFor
      <3>3. \A i \in DOMAIN majors : Gaps(majors[i], SizeOf(req)) = {}
        BY <3>1, NoGapIsLeft
      <3>4. QED
        BY <3>2, <3>3
    <2>2. CASE ~ \E req \in Requests : kmalloc_grows(req)
      BY <2>2, OthersDoNotGrow
    <2>3. QED
      BY <2>1, <2>2
  <1>2. QED
    BY <1>1, HeapInvariant, PTL DEF Spec, GrowsOnlyWhenFull
=============================================================================
