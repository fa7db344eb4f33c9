---------------------- MODULE StreamConfigStore_proofs ----------------------
(***************************************************************************)
(* Proofs about StreamConfigStore, for any ids, configuration at the start, *)
(* foreign memory and number of requests: the slice is the list of          *)
(* StreamList, and what is appended never costs a Start that runs beside it *)
(* the entries that were there.                                             *)
(***************************************************************************)
EXTENDS StreamConfigStore, SequenceTheorems, TLAPS

Cell == Entry \cup {Zero}
-----------------------------------------------------------------------------
(* The invariant.                                                           *)

\* A handler stores into the arrays there are.
SameShape == \A a \in 1..Len(heap) : Len(heapTo[a]) = Len(heap[a])

\* Below the length there are entries that somebody wrote.
Written == \A j \in 1..sliceTo.len : heapTo[sliceTo.arr][j] \in Entry

\* Start has something to read, until it has not, and its index counts what it launched.
Progress ==
    /\ spc \in {"header", "entry"} => unread # {}
    /\ spc = "sem" => unread = {}
    /\ spc \in {"entry", "sem"} => k <= view.len
    /\ spc = "header" => launched = <<>>
    /\ k = Len(launched) + 1

\* An array has the complete entries, and will have them.
Holds(a) ==
    /\ complete <= Len(heap[a])
    /\ \A j \in 1..complete : /\ heap[a][j] = heapTo[sliceTo.arr][j]
                              /\ heapTo[a][j] = heapTo[sliceTo.arr][j]

\* Whatever part of the header is stored first, the complete entries are under it.
MemoryHolds == ~disturbed =>
    /\ complete <= slice.len /\ complete <= sliceTo.len
    /\ Holds(slice.arr) /\ Holds(sliceTo.arr)

\* And under any part of the header that Start has copied.
HeaderHolds == ~disturbed =>
    /\ spc # "header" \/ "arr" \notin unread => Holds(view.arr)
    /\ spc # "header" \/ "len" \notin unread => complete <= view.len

\* What was launched, and what was copied of the entry at the loop's index.
LoopHolds == ~disturbed =>
    /\ \A j \in 1..complete : j <= Len(launched) => launched[j] = heapTo[sliceTo.arr][j]
    /\ spc \in {"entry", "sem"} /\ k <= complete =>
        /\ "id" \notin unread => cur.id = heapTo[sliceTo.arr][k].id
        /\ "rev" \notin unread => cur.rev = heapTo[sliceTo.arr][k].rev

IInv == TypeOK /\ SameShape /\ Written /\ Progress /\ MemoryHolds /\ HeaderHolds /\ LoopHolds
-----------------------------------------------------------------------------
(* Lemmas about the operators.                                              *)

\* What is written over an array from an index on is there, and nothing else changes.
LEMMA OverwriteSeq ==
    ASSUME NEW array \in Seq(Cell), NEW from \in Nat \ {0}, NEW xs \in Seq(Cell)
    PROVE  /\ Overwrite(array, from, xs) \in Seq(Cell)
           /\ Len(Overwrite(array, from, xs)) = Len(array)
           /\ \A j \in 1..Len(array) : Overwrite(array, from, xs)[j] =
                  IF j >= from /\ j < from + Len(xs) THEN xs[j - from + 1] ELSE array[j]
<1> DEFINE g == Overwrite(array, from, xs)
           e(j) == IF j >= from /\ j < from + Len(xs) THEN xs[j - from + 1] ELSE array[j]
<1>1. Len(array) \in Nat /\ Len(xs) \in Nat
  OBVIOUS
<1>2. ASSUME NEW j \in 1..Len(array) PROVE e(j) \in Cell
  <2>1. CASE j >= from /\ j < from + Len(xs)
    <3>1. j - from + 1 \in 1..Len(xs)
      BY <1>1, <2>1
    <3> QED BY <2>1, <3>1
  <2>2. CASE ~(j >= from /\ j < from + Len(xs))
    BY <2>2
  <2> QED BY <2>1, <2>2
<1>3. g = [j \in 1..Len(array) |-> e(j)]
  BY DEF Overwrite
<1> HIDE DEF g
<1>4. \A j \in 1..Len(array) : g[j] = e(j)
  BY <1>3
<1>5. g \in [1..Len(array) -> Cell]
  <2> HIDE DEF e
  <2> QED BY <1>2, <1>3
<1>6. g \in Seq(Cell) /\ Len(g) = Len(array)
  BY <1>1, <1>5, SeqDef
<1> QED BY <1>4, <1>6 DEF g

LEMMA GoalTyped ==
    ASSUME TypeOK
    PROVE  /\ heapTo \in Seq(Seq(Cell)) /\ Len(heapTo) = Len(heap) /\ Len(heapTo) \in Nat
           /\ sliceTo \in [arr : 1..Len(heapTo), len : Nat]
           /\ heapTo[sliceTo.arr] \in Seq(Cell) /\ sliceTo.len <= Len(heapTo[sliceTo.arr])
<1>1. heapTo \in Seq(Seq(Cell)) /\ Len(heapTo) = Len(heap)
  BY DEF TypeOK, Cell
<1>2. sliceTo \in [arr : 1..Len(heapTo), len : Nat] /\ sliceTo.len <= Len(heapTo[sliceTo.arr])
  BY <1>1 DEF TypeOK, Header
<1>3. PICK a \in 1..Len(heapTo) : a = sliceTo.arr
  BY <1>2
<1>4. heapTo[a] \in Seq(Cell)
  BY <1>1, ElementOfSeq
<1> QED BY <1>1, <1>2, <1>3, <1>4, LenProperties

\* The list is what the slice covers.
Covered ==
    /\ List \in Seq(Cell) /\ Len(List) = sliceTo.len
    /\ \A j \in 1..sliceTo.len : List[j] = heapTo[sliceTo.arr][j]

LEMMA ListCovered == TypeOK => Covered
<1> SUFFICES ASSUME TypeOK PROVE Covered
  OBVIOUS
<1>1. /\ heapTo[sliceTo.arr] \in Seq(Cell) /\ sliceTo.len \in Nat /\ sliceTo.arr \in 1..Len(heapTo)
      /\ sliceTo.len <= Len(heapTo[sliceTo.arr])
  BY GoalTyped
<1>2. PICK h \in Seq(Cell) : h = heapTo[sliceTo.arr]
  BY <1>1
<1>3. PICK n \in Nat : n = sliceTo.len
  BY <1>1
<1>4. \A i \in 1..n : h[i] \in Cell
  BY <1>1, <1>2, <1>3
<1>5. List = SubSeq(h, 1, n)
  BY <1>2, <1>3 DEF List
<1> QED BY <1>2, <1>3, <1>4, <1>5, SubSeqProperties DEF Covered

\* What append does: the list goes on with the new entries, in its array or in a new one
\* when that has become too short; no other array changes.
Grown(xs) ==
    /\ heapTo' \in Seq(Seq(Cell)) /\ Len(heapTo) <= Len(heapTo')
    /\ sliceTo' \in [arr : 1..Len(heapTo'), len : Nat] /\ sliceTo'.len <= Len(heapTo'[sliceTo'.arr])
    /\ sliceTo'.len = sliceTo.len + Len(xs)
    /\ \A a \in 1..Len(heapTo) :
        Len(heapTo'[a]) = Len(heapTo[a]) /\ (a # sliceTo.arr => heapTo'[a] = heapTo[a])
    /\ \A j \in 1..sliceTo.len : heapTo'[sliceTo.arr][j] = heapTo[sliceTo.arr][j]
    /\ \A j \in 1..sliceTo'.len : heapTo'[sliceTo'.arr][j] =
        IF j <= sliceTo.len THEN heapTo[sliceTo.arr][j] ELSE xs[j - sliceTo.len]

\* What is stored of it at once: at most a new array with the old entries.
MemoryGrown ==
    /\ heap' \in Seq(Seq(Cell)) /\ Len(heap') = Len(heapTo') /\ Len(heap) <= Len(heap')
    /\ \A a \in 1..Len(heap) : heap'[a] = heap[a]
    /\ SameShape'
    /\ \A j \in 1..sliceTo.len : heap'[sliceTo'.arr][j] = heapTo[sliceTo.arr][j]

LEMMA AppendGrows ==
    ASSUME TypeOK, Free, NEW xs \in Seq(Entry), AppendTo(xs)
    PROVE  Grown(xs) /\ MemoryGrown
<1>1. /\ heapTo \in Seq(Seq(Cell)) /\ sliceTo \in [arr : 1..Len(heapTo), len : Nat]
      /\ sliceTo.len <= Len(heapTo[sliceTo.arr]) /\ Len(heapTo) \in Nat
      /\ heapTo[sliceTo.arr] \in Seq(Cell)
  BY GoalTyped
<1>2. PICK h \in Seq(Cell) : h = heapTo[sliceTo.arr]
  BY <1>1
<1>3. PICK n \in Nat : n = sliceTo.len
  BY <1>1
<1>4. PICK arr \in 1..Len(heapTo) : arr = sliceTo.arr
  BY <1>1
<1>5. xs \in Seq(Cell) /\ Len(xs) \in Nat /\ Len(h) \in Nat /\ n <= Len(h)
  BY <1>1, <1>2, <1>3, SeqMonotonic DEF Cell
<1> DEFINE need == n + Len(xs)
           room == IF need > 2 * Len(h) THEN need ELSE 2 * Len(h)
<1>6. CASE need <= Len(h)
  <2>0. PICK from \in Nat \ {0} : from = n + 1
    OBVIOUS
  <2>1. PICK g : g = Overwrite(h, from, xs)
    OBVIOUS
  <2>2. /\ heapTo' = [heapTo EXCEPT ![arr] = g] /\ sliceTo' = [sliceTo EXCEPT !.len = need]
        /\ heap' = heapTo
    <3>1. need \in Int /\ Len(h) \in Int /\ ~(need > Len(h))
      BY <1>5, <1>6
    <3> HIDE DEF room
    <3>2. /\ heapTo' = [heapTo EXCEPT ![arr] = Overwrite(h, n + 1, xs)]
          /\ sliceTo' = [sliceTo EXCEPT !.len = need] /\ heap' = heap
      BY <1>2, <1>3, <1>4, <3>1 DEF AppendTo
    <3> HIDE DEF need
    <3> QED BY <2>0, <2>1, <3>2 DEF Free
  <2>3. /\ g \in Seq(Cell) /\ Len(g) = Len(h)
        /\ \A j \in 1..Len(h) : g[j] = IF j >= from /\ j < from + Len(xs)
                                       THEN xs[j - from + 1] ELSE h[j]
    <3> HIDE DEF need, room
    <3> QED BY <1>5, <2>1, OverwriteSeq
  <2>4. /\ heapTo' \in Seq(Seq(Cell)) /\ Len(heapTo') = Len(heapTo) /\ heapTo'[arr] = g
        /\ \A a \in 1..Len(heapTo) : a # arr => heapTo'[a] = heapTo[a]
    BY <1>1, <2>2, <2>3, ExceptSeq
  <2>5. sliceTo'.arr = arr /\ sliceTo'.len = need /\ sliceTo' \in [arr : 1..Len(heapTo'), len : Nat]
    <3>1. need \in Nat
      BY <1>5
    <3> HIDE DEF need, room
    <3>2. sliceTo'.arr = arr /\ sliceTo'.len = need /\ sliceTo' \in [arr : 1..Len(heapTo), len : Nat]
      BY <1>1, <1>4, <2>2, <3>1
    <3> QED BY <2>4, <3>2
  <2>6. \A j \in 1..need : g[j] = IF j <= n THEN h[j] ELSE xs[j - n]
    <3> SUFFICES ASSUME NEW j \in 1..need PROVE g[j] = IF j <= n THEN h[j] ELSE xs[j - n]
      OBVIOUS
    <3>1. /\ j - from + 1 = j - n /\ (j >= from <=> ~(j <= n)) /\ j < from + Len(xs)
          /\ j \in 1..Len(h)
      BY <1>5, <1>6, <2>0
    <3> QED BY <2>3, <3>1
  <2>7. \A j \in 1..n : g[j] = h[j]
    BY <1>5, <2>6
  <2>8. sliceTo'.len <= Len(heapTo'[sliceTo'.arr]) /\ sliceTo'.len = sliceTo.len + Len(xs)
    BY <1>3, <1>6, <2>3, <2>4, <2>5
  <2> HIDE DEF need
  <2>9. \A a \in 1..Len(heapTo) :
            Len(heapTo'[a]) = Len(heapTo[a]) /\ (a # sliceTo.arr => heapTo'[a] = heapTo[a])
    BY <1>2, <1>4, <2>3, <2>4
  <2>10. \A j \in 1..sliceTo.len : heapTo'[sliceTo.arr][j] = heapTo[sliceTo.arr][j]
    BY <1>2, <1>3, <1>4, <2>4, <2>7
  <2>11. \A j \in 1..sliceTo'.len : heapTo'[sliceTo'.arr][j] =
            IF j <= sliceTo.len THEN heapTo[sliceTo.arr][j] ELSE xs[j - sliceTo.len]
    <3> SUFFICES ASSUME NEW j \in 1..sliceTo'.len
                 PROVE  heapTo'[sliceTo'.arr][j] = IF j <= n THEN h[j] ELSE xs[j - n]
      BY <1>2, <1>3
    <3>1. heapTo'[sliceTo'.arr][j] = g[j]
      BY <2>4, <2>5
    <3>2. j \in 1..need
      BY <2>5
    <3> QED BY <2>6, <3>1, <3>2
  <2>12. Len(heapTo) <= Len(heapTo')
    BY <1>1, <2>4
  <2>13. MemoryGrown
    <3>1. heap = heapTo /\ \A j \in 1..sliceTo.len : heap'[sliceTo'.arr][j] = heapTo[sliceTo.arr][j]
      BY <1>4, <2>2, <2>5 DEF Free
    <3>2. SameShape'
      BY <2>2, <2>4, <2>9 DEF SameShape
    <3> QED BY <1>1, <2>2, <2>4, <3>1, <3>2 DEF MemoryGrown
  <2> QED BY <1>4, <2>4, <2>5, <2>8, <2>9, <2>10, <2>11, <2>12, <2>13 DEF Grown
<1>7. CASE ~(need <= Len(h))
  <2> DEFINE zeros(z) == [j \in 1..z |-> Zero]
  <2>1. need \in Nat /\ room \in Nat /\ room - need \in Nat /\ room - n \in Nat
    BY <1>5
  <2>z. ASSUME NEW z \in Nat PROVE zeros(z) \in Seq(Cell) /\ Len(zeros(z)) = z
    <3>1. PICK f : f = zeros(z)
      OBVIOUS
    <3>2. f \in [1..z -> Cell]
      BY <3>1 DEF Cell
    <3> HIDE DEF zeros, need, room
    <3> QED BY <3>1, <3>2, SeqDef
  <2>2. PICK fill \in Seq(Cell) : fill = zeros(room - need) /\ Len(fill) = room - need
    <3> HIDE DEF zeros, need, room
    <3> QED BY <2>1, <2>z
  <2>m. PICK old \in Seq(Cell) : old = zeros(room - n) /\ Len(old) = room - n
    <3> HIDE DEF zeros, need, room
    <3> QED BY <2>1, <2>z
  <2>3. PICK g : g = List \o xs \o fill
    OBVIOUS
  <2>4. /\ heapTo' = Append(heapTo, g) /\ sliceTo' = [arr |-> Len(heapTo) + 1, len |-> need]
        /\ heap' = Append(heap, List \o old)
    <3>1. /\ heapTo' = Append(heapTo, List \o xs \o zeros(room - need))
          /\ sliceTo' = [arr |-> Len(heapTo) + 1, len |-> need]
          /\ heap' = Append(heap, List \o zeros(room - n))
      BY <1>2, <1>3, <1>5, <1>7 DEF AppendTo
    <3> HIDE DEF zeros, need, room
    <3> QED BY <2>2, <2>3, <2>m, <3>1
  <2>5. PICK es \in Seq(Cell) : es = List /\ Len(es) = n /\ \A j \in 1..n : es[j] = h[j]
    BY <1>2, <1>3, ListCovered DEF Covered
  <2>6. /\ es \o xs \in Seq(Cell) /\ Len(es \o xs) = need
        /\ \A j \in 1..need : (es \o xs)[j] = IF j <= n THEN es[j] ELSE xs[j - n]
    <3>1. PICK m \in Nat : m = Len(xs)
      BY <1>5
    <3> HIDE DEF zeros, room
    <3>2. /\ es \o xs \in Seq(Cell) /\ Len(es \o xs) = Len(es) + Len(xs)
          /\ \A j \in 1..(Len(es) + Len(xs)) :
                (es \o xs)[j] = IF j <= Len(es) THEN es[j] ELSE xs[j - Len(es)]
      BY <1>5, ConcatProperties
    <3> QED BY <2>5, <3>1, <3>2
  <2>7. PICK ex \in Seq(Cell) : ex = es \o xs
    BY <2>6
  <2> HIDE DEF zeros, room, need
  <2>8. /\ g \in Seq(Cell) /\ Len(g) = need + (room - need)
        /\ \A j \in 1..need : g[j] = ex[j]
    <3>1. g = ex \o fill
      BY <2>3, <2>5, <2>7
    <3>2. /\ ex \o fill \in Seq(Cell) /\ Len(ex \o fill) = Len(ex) + Len(fill)
          /\ \A j \in 1..(Len(ex) + Len(fill)) :
                (ex \o fill)[j] = IF j <= Len(ex) THEN ex[j] ELSE fill[j - Len(ex)]
      BY ConcatProperties
    <3>3. Len(ex) = need /\ Len(fill) = room - need
      BY <2>2, <2>6, <2>7
    <3>4. ASSUME NEW j \in 1..need PROVE g[j] = ex[j]
      <4>1. j \in 1..(Len(ex) + Len(fill)) /\ j <= Len(ex)
        BY <2>1, <3>3
      <4> QED BY <3>1, <3>2, <4>1
    <3> QED BY <3>1, <3>2, <3>3, <3>4
  <2>9. \A j \in 1..need : g[j] = IF j <= n THEN h[j] ELSE xs[j - n]
    <3> SUFFICES ASSUME NEW j \in 1..need PROVE g[j] = IF j <= n THEN h[j] ELSE xs[j - n]
      OBVIOUS
    <3>1. g[j] = ex[j]
      BY <2>8
    <3>2. ex[j] = IF j <= n THEN es[j] ELSE xs[j - n]
      BY <2>6, <2>7
    <3>3. j <= n => j \in 1..n
      BY <2>1
    <3>4. j <= n => es[j] = h[j]
      BY <2>5, <3>3
    <3> QED BY <3>1, <3>2, <3>4
  <2>10. /\ heapTo' \in Seq(Seq(Cell)) /\ Len(heapTo') = Len(heapTo) + 1 /\ heapTo'[Len(heapTo) + 1] = g
         /\ \A a \in 1..Len(heapTo) : heapTo'[a] = heapTo[a]
    BY <1>1, <2>4, <2>8, AppendProperties
  <2>11. sliceTo'.arr = Len(heapTo) + 1 /\ sliceTo'.len = need /\ sliceTo' \in [arr : 1..Len(heapTo'), len : Nat]
    BY <1>1, <2>1, <2>4, <2>10
  <2>12. need <= Len(g) /\ need > Len(h)
    <3>1. need <= Len(g)
      BY <2>1, <2>8
    <3>2. need > Len(h)
      BY <1>5, <1>7, <2>1
    <3> QED BY <3>1, <3>2
  <2>13. /\ sliceTo'.len <= Len(heapTo'[sliceTo'.arr])
         /\ \A j \in 1..sliceTo'.len : heapTo'[sliceTo'.arr][j] = g[j]
    <3>1. heapTo'[sliceTo'.arr] = g
      BY <2>10, <2>11
    <3> QED BY <1>1, <2>11, <2>12, <3>1
  <2>14. sliceTo'.len = sliceTo.len + Len(xs)
    BY <1>3, <2>11 DEF need
  <2>15. \A j \in 1..sliceTo'.len : heapTo'[sliceTo'.arr][j] =
            IF j <= sliceTo.len THEN heapTo[sliceTo.arr][j] ELSE xs[j - sliceTo.len]
    <3> SUFFICES ASSUME NEW j \in 1..sliceTo'.len
                 PROVE  heapTo'[sliceTo'.arr][j] = IF j <= n THEN h[j] ELSE xs[j - n]
      BY <1>2, <1>3
    <3>1. heapTo'[sliceTo'.arr][j] = g[j]
      BY <2>13
    <3>2. j \in 1..need
      BY <2>11
    <3> QED BY <2>9, <3>1, <3>2
  <2>16. \A a \in 1..Len(heapTo) :
            Len(heapTo'[a]) = Len(heapTo[a]) /\ (a # sliceTo.arr => heapTo'[a] = heapTo[a])
    BY <2>10
  <2>17. \A j \in 1..sliceTo.len : heapTo'[sliceTo.arr][j] = heapTo[sliceTo.arr][j]
    BY <1>4, <2>10
  <2>18. PICK h2 \in Seq(Cell) : /\ h2 = es \o old /\ Len(h2) = n + (room - n)
                                 /\ \A j \in 1..n : h2[j] = es[j]
    <3>1. /\ es \o old \in Seq(Cell) /\ Len(es \o old) = Len(es) + Len(old)
          /\ \A j \in 1..(Len(es) + Len(old)) :
                (es \o old)[j] = IF j <= Len(es) THEN es[j] ELSE old[j - Len(es)]
      BY ConcatProperties
    <3>2. ASSUME NEW j \in 1..n PROVE (es \o old)[j] = es[j]
      <4>1. j \in 1..(Len(es) + Len(old)) /\ j <= Len(es)
        BY <2>1, <2>5, <2>m
      <4> QED BY <3>1, <4>1
    <3>3. Len(es \o old) = n + (room - n)
      BY <2>5, <2>m, <3>1
    <3>4. PICK h2 \in Seq(Cell) : h2 = es \o old
      BY <3>1
    <3> QED BY <3>2, <3>3, <3>4
  <2>19. /\ heap = heapTo /\ heap' \in Seq(Seq(Cell)) /\ Len(heap') = Len(heap) + 1
         /\ heap'[Len(heap) + 1] = h2 /\ \A a \in 1..Len(heap) : heap'[a] = heap[a]
    <3>1. heap = heapTo /\ heap' = Append(heap, h2)
      BY <2>4, <2>5, <2>18 DEF Free
    <3> QED BY <1>1, <3>1, AppendProperties
  <2>20. Len(h2) = Len(g)
    BY <2>1, <2>8, <2>18
  <2>21. SameShape'
    <3> SUFFICES ASSUME NEW a \in 1..Len(heap') PROVE Len(heapTo'[a]) = Len(heap'[a])
      BY DEF SameShape
    <3>1. PICK l \in Nat : l = Len(heapTo) /\ l = Len(heap) /\ Len(heap') = l + 1
      BY <1>1, <2>19
    <3>0. a \in 1..(l + 1)
      BY <3>1
    <3>2. a \in 1..l \/ a = l + 1
      BY <3>0
    <3>3. CASE a \in 1..l
      BY <2>10, <2>19, <3>1, <3>3
    <3>4. CASE a = l + 1
      BY <2>10, <2>19, <2>20, <3>1, <3>4
    <3> QED BY <3>2, <3>3, <3>4
  <2>22. \A j \in 1..sliceTo.len : heap'[sliceTo'.arr][j] = heapTo[sliceTo.arr][j]
    <3>1. heap'[sliceTo'.arr] = h2
      BY <2>11, <2>19
    <3>2. \A j \in 1..n : h2[j] = h[j]
      BY <2>5, <2>18
    <3> QED BY <1>2, <1>3, <3>1, <3>2
  <2>23. MemoryGrown
    BY <1>1, <2>10, <2>19, <2>21, <2>22 DEF MemoryGrown
  <2> QED BY <1>1, <2>10, <2>11, <2>13, <2>14, <2>15, <2>16, <2>17, <2>23 DEF Grown
<1> QED BY <1>6, <1>7
-----------------------------------------------------------------------------
(* The handlers keep the invariant, and do what StreamList does.            *)

LEMMA CellIsCopy == Cell \subseteq Copy
BY StoreAssumption DEF Cell, Entry, Zero, Copy

LEMMA MemoryIsCopies == Seq(Seq(Cell)) \subseteq Seq(Seq(Copy))
<1>1. Seq(Cell) \subseteq Seq(Copy)
  BY CellIsCopy, SeqMonotonic
<1> QED BY <1>1, SeqMonotonic

LEMMA InitIInv == Init => IInv
<1> SUFFICES ASSUME Init PROVE IInv
  OBVIOUS
<1>1. Boot \in Seq(Entry) /\ Boot \in Seq(Cell) /\ Len(Boot) \in Nat /\ MaxOps \in Nat
  <2>1. MaxOps \in Nat /\ [id : StreamID, rev : {0}] \subseteq Entry
    BY StoreAssumption DEF Entry
  <2>2. Boot \in Seq([id : StreamID, rev : {0}])
    BY StoreAssumption
  <2>3. Boot \in Seq(Entry)
    BY <2>1, <2>2, SeqMonotonic
  <2>4. Boot \in Seq(Cell)
    BY <2>3, SeqMonotonic DEF Cell
  <2> QED BY <2>1, <2>3, <2>4
<1>2. /\ heap \in Seq(Seq(Cell)) /\ heap \in Seq(Seq(Copy)) /\ Len(heap) = 1 /\ heap[1] = Boot
      /\ heapTo = heap /\ slice = [arr |-> 1, len |-> Len(Boot)] /\ sliceTo = slice
  <2>1. heap \in Seq(Seq(Cell)) /\ Len(heap) = 1 /\ heap[1] = Boot
    BY <1>1 DEF Init
  <2>2. heap \in Seq(Seq(Copy))
    BY <2>1, MemoryIsCopies
  <2> QED BY <2>1, <2>2 DEF Init
<1>3. /\ slice \in Header /\ sliceTo \in Header /\ view \in Header
      /\ sliceTo.len <= Len(heapTo[sliceTo.arr])
  BY <1>1, <1>2 DEF Init, Header
<1>4. cur \in Copy
  BY <1>1 DEF Init, Copy, Zero
<1>5. TypeOK
  <2>1. launched \in Seq(Copy)
    BY DEF Init
  <2>4. disturbed \in BOOLEAN
    BY DEF Init
  <2>3. complete \in Nat
    BY <1>1 DEF Init
  <2>2. ops \in 0..MaxOps /\ spc = "header" /\ unread \subseteq {"arr", "len"} /\ k \in Nat \ {0}
    BY <1>1 DEF Init
  <2> QED BY <1>2, <1>3, <1>4, <2>1, <2>2, <2>3, <2>4 DEF TypeOK, Cell
<1>6. SameShape /\ Written
  BY <1>1, <1>2 DEF SameShape, Written
<1>7. Progress
  BY DEF Init, Progress
<1>8. MemoryHolds
  BY <1>1, <1>2 DEF Init, MemoryHolds, Holds
<1>9. HeaderHolds /\ LoopHolds
  BY DEF Init, HeaderHolds, LoopHolds
<1> QED BY <1>5, <1>6, <1>7, <1>8, <1>9 DEF IInv

\* The complete entries stay where Start finds them, and as they are.
LEMMA GrownKeepsIInv ==
    ASSUME IInv, NEW xs \in Seq(Entry), Request(FALSE), Grown(xs), MemoryGrown
    PROVE  IInv'
<1>0. TypeOK /\ Free /\ UNCHANGED startVars /\ slice' = slice
  BY DEF IInv, Request
<1>1. /\ heapTo \in Seq(Seq(Cell)) /\ sliceTo \in [arr : 1..Len(heapTo), len : Nat]
      /\ heap = heapTo /\ slice = sliceTo /\ sliceTo.len <= Len(heapTo[sliceTo.arr])
      /\ view \in [arr : 1..Len(heapTo), len : Nat] /\ Len(heapTo) \in Nat /\ Len(xs) \in Nat
  BY <1>0, LenProperties DEF TypeOK, Header, Cell, Free
<1>2. UNCHANGED <<spc, unread, view, k, cur, launched>>
  BY <1>0 DEF startVars
<1>a. PICK arr \in 1..Len(heapTo) : arr = sliceTo.arr
  BY <1>1
<1>n. PICK n \in Nat : n = sliceTo.len
  BY <1>1
<1>m. PICK m \in Nat : m = Len(xs)
  BY <1>1
<1>l. sliceTo'.len = n + m
  BY <1>n, <1>m DEF Grown
<1>3. TypeOK'
  <2>1. ops' \in 0..MaxOps
    <3>1. ops \in 0..MaxOps /\ ops < MaxOps /\ ops' = ops + 1 /\ MaxOps \in Nat
      BY <1>0, StoreAssumption DEF Request, TypeOK
    <3> QED BY <3>1
  <2>2. complete' \in Nat /\ disturbed' \in BOOLEAN
    BY <1>0, <1>1 DEF Request, Note, TypeOK
  <2>3. /\ heap' \in Seq(Seq(Copy)) /\ heapTo' \in Seq(Seq(Cell)) /\ Len(heapTo') = Len(heap')
        /\ sliceTo'.len <= Len(heapTo'[sliceTo'.arr])
    BY MemoryIsCopies DEF Grown, MemoryGrown
  <2>4. slice' \in Header' /\ sliceTo' \in Header' /\ view' \in Header'
    <3>1. 1..Len(heapTo) \subseteq 1..Len(heapTo')
      BY <1>1, LenProperties DEF Grown
    <3> QED BY <1>0, <1>1, <1>2, <2>3, <3>1 DEF Grown, Header
  <2> QED BY <1>0, <1>2, <2>1, <2>2, <2>3, <2>4 DEF TypeOK, Cell
<1>4. Written'
  <2> SUFFICES ASSUME NEW j \in 1..sliceTo'.len PROVE heapTo'[sliceTo'.arr][j] \in Entry
    BY DEF Written
  <2>1. CASE j <= n
    <3>1. heapTo'[sliceTo'.arr][j] = heapTo[sliceTo.arr][j]
      BY <1>n, <2>1 DEF Grown
    <3>2. j \in 1..sliceTo.len
      BY <1>n, <1>l, <2>1
    <3> QED BY <3>1, <3>2 DEF IInv, Written
  <2>2. CASE ~(j <= n)
    <3>1. j - sliceTo.len \in 1..Len(xs)
      BY <1>n, <1>m, <1>l, <2>2
    <3> QED BY <1>n, <2>2, <3>1, ElementOfSeq DEF Grown
  <2> QED BY <2>1, <2>2
<1>5. Progress'
  BY <1>2 DEF IInv, Progress
<1>6. PICK c \in Nat : c = complete'
  BY <1>3 DEF TypeOK
<1>7. ASSUME ~disturbed'
      PROVE  /\ c <= n
             /\ StartBegan => ~disturbed /\ c = complete
  <2>1. CASE StartBegan
    <3>1. ~disturbed /\ c = complete
      BY <1>6, <1>7, <2>1 DEF Request, Note
    <3> QED BY <1>n, <3>1 DEF IInv, MemoryHolds
  <2>2. CASE ~StartBegan
    BY <1>6, <1>n, <2>2 DEF Request, Note
  <2> QED BY <2>1, <2>2
<1>8. ASSUME ~disturbed', NEW j \in 1..c
      PROVE  /\ heapTo'[sliceTo'.arr][j] = heapTo[arr][j]
             /\ heapTo'[arr][j] = heapTo[arr][j] /\ heap'[arr][j] = heapTo[arr][j]
             /\ heap'[sliceTo'.arr][j] = heapTo[arr][j]
  <2>1. j \in 1..n /\ j \in 1..(n + m) /\ j <= n
    BY <1>7, <1>8
  <2>2. heapTo'[sliceTo'.arr][j] = heapTo[arr][j] /\ heapTo'[arr][j] = heapTo[arr][j]
    BY <1>a, <1>n, <1>l, <2>1 DEF Grown
  <2>3. heap'[arr] = heapTo[arr] /\ heap'[sliceTo'.arr][j] = heapTo[arr][j]
    BY <1>1, <1>a, <1>n, <2>1 DEF MemoryGrown
  <2> QED BY <2>2, <2>3
<1>9. MemoryHolds'
  <2> SUFFICES ASSUME ~disturbed' PROVE MemoryHolds'
    BY DEF MemoryHolds
  <2>1. c <= slice'.len /\ c <= sliceTo'.len
    BY <1>0, <1>1, <1>n, <1>l, <1>7
  <2>2. c <= Len(heap'[arr]) /\ c <= Len(heap'[sliceTo'.arr])
    <3>1. heap'[arr] = heapTo[arr] /\ n <= Len(heapTo[arr])
      BY <1>1, <1>a, <1>n DEF MemoryGrown
    <3>2. PICK b \in 1..Len(heap') : b = sliceTo'.arr
      BY DEF Grown, MemoryGrown
    <3>3. Len(heap'[b]) = Len(heapTo'[b]) /\ n + m <= Len(heapTo'[b])
      BY <1>l, <3>2 DEF Grown, MemoryGrown, SameShape
    <3>4. Len(heapTo[arr]) \in Nat /\ Len(heap'[b]) \in Nat
      <4>1. heapTo[arr] \in Seq(Cell)
        BY <1>1
      <4>2. heap'[b] \in Seq(Cell)
        BY <3>2 DEF MemoryGrown
      <4> QED BY <4>1, <4>2, LenProperties
    <3>5. c <= Len(heapTo[arr])
      BY <1>7, <3>1, <3>4
    <3>6. c <= Len(heap'[b])
      BY <1>7, <3>3, <3>4
    <3> QED BY <3>1, <3>2, <3>5, <3>6
  <2>3. Holds(slice.arr)' /\ Holds(sliceTo.arr)'
    BY <1>0, <1>1, <1>6, <1>8, <1>a, <2>2 DEF Holds
  <2> QED BY <1>6, <2>1, <2>3 DEF MemoryHolds
<1>10. HeaderHolds'
  <2> SUFFICES ASSUME ~disturbed', spc # "header" \/ unread # {"arr", "len"} PROVE HeaderHolds'
    BY <1>2 DEF HeaderHolds
  <2>1. ~disturbed /\ c = complete
    BY <1>7 DEF StartBegan
  <2>2. ASSUME spc # "header" \/ "arr" \notin unread PROVE Holds(view.arr)'
    <3>1. Holds(view.arr)
      BY <2>1, <2>2 DEF IInv, HeaderHolds
    <3>2. PICK v \in 1..Len(heapTo) : v = view.arr
      BY <1>1
    <3>3. heap'[v] = heap[v]
      BY <1>1 DEF MemoryGrown
    <3>4. ASSUME NEW j \in 1..c
          PROVE  /\ heap'[v][j] = heapTo'[sliceTo'.arr][j]
                 /\ heapTo'[v][j] = heapTo'[sliceTo'.arr][j]
      <4>1. heap[v][j] = heapTo[arr][j] /\ heapTo[v][j] = heapTo[arr][j]
        BY <1>a, <2>1, <3>1, <3>2 DEF Holds
      <4>2. heapTo'[v][j] = heapTo[v][j]
        <5>1. CASE v = arr
          BY <1>8, <5>1
        <5>2. CASE v # arr
          BY <1>a, <5>2 DEF Grown
        <5> QED BY <5>1, <5>2
      <4> QED BY <1>8, <3>3, <4>1, <4>2
    <3>5. c <= Len(heap'[v])
      BY <2>1, <3>1, <3>2, <3>3 DEF Holds
    <3> QED BY <1>2, <1>6, <3>2, <3>4, <3>5 DEF Holds
  <2>3. spc # "header" \/ "len" \notin unread => c <= view.len
    BY <2>1 DEF IInv, HeaderHolds
  <2> QED BY <1>2, <1>6, <2>2, <2>3 DEF HeaderHolds
<1>11. LoopHolds'
  <2> SUFFICES ASSUME ~disturbed' PROVE LoopHolds'
    BY DEF LoopHolds
  <2>1. CASE ~StartBegan
    <3>1. launched' = <<>> /\ spc' = "header"
      BY <1>2, <2>1 DEF IInv, Progress, StartBegan
    <3> QED BY <1>6, <3>1 DEF LoopHolds
  <2>2. CASE StartBegan
    <3>1. ~disturbed /\ c = complete
      BY <1>7, <2>2
    <3>2. \A j \in 1..c : j <= Len(launched) => launched[j] = heapTo'[sliceTo'.arr][j]
      BY <1>8, <1>a, <3>1 DEF IInv, LoopHolds
    <3>3. ASSUME spc \in {"entry", "sem"}, k <= c
          PROVE  /\ "id" \notin unread => cur.id = heapTo'[sliceTo'.arr][k].id
                 /\ "rev" \notin unread => cur.rev = heapTo'[sliceTo'.arr][k].rev
      <4>1. k \in 1..c
        BY <1>0, <3>3 DEF TypeOK
      <4>2. heapTo'[sliceTo'.arr][k] = heapTo[sliceTo.arr][k]
        BY <1>8, <1>a, <4>1
      <4> QED BY <3>1, <3>3, <4>2 DEF IInv, LoopHolds
    <3> QED BY <1>2, <1>6, <3>2, <3>3 DEF LoopHolds
  <2> QED BY <2>1, <2>2
<1>12. SameShape'
  BY DEF MemoryGrown
<1> QED BY <1>3, <1>4, <1>5, <1>9, <1>10, <1>11, <1>12 DEF IInv

LEMMA GrownExtends ==
    ASSUME IInv, IInv', NEW xs \in Seq(Entry), Grown(xs)
    PROVE  List' = List \o xs
<1>1. /\ List \in Seq(Cell) /\ Len(List) = sliceTo.len
      /\ \A j \in 1..sliceTo.len : List[j] = heapTo[sliceTo.arr][j]
  BY ListCovered DEF IInv, Covered
<1>2. /\ List' \in Seq(Cell) /\ Len(List') = sliceTo'.len
      /\ \A j \in 1..sliceTo'.len : List'[j] = heapTo'[sliceTo'.arr][j]
  <2>1. TypeOK'
    BY DEF IInv
  <2>2. Covered'
    BY <2>1, ListCovered, PTL
  <2> QED BY <2>2 DEF Covered
<1>3. xs \in Seq(Cell) /\ Len(xs) \in Nat
  BY SeqMonotonic DEF Cell
<1>4. /\ List \o xs \in Seq(Cell) /\ Len(List \o xs) = sliceTo.len + Len(xs)
      /\ \A j \in 1..(sliceTo.len + Len(xs)) : (List \o xs)[j] =
             IF j <= sliceTo.len THEN List[j] ELSE xs[j - sliceTo.len]
  <2>1. PICK es \in Seq(Cell) : es = List
    BY <1>1
  <2>2. PICK n \in Nat : n = sliceTo.len /\ n = Len(es)
    BY <1>1, <2>1
  <2>3. /\ es \o xs \in Seq(Cell) /\ Len(es \o xs) = n + Len(xs)
        /\ \A j \in 1..(n + Len(xs)) : (es \o xs)[j] = IF j <= n THEN es[j] ELSE xs[j - n]
    BY <1>3, <2>2, ConcatProperties
  <2> QED BY <2>1, <2>2, <2>3
<1>5. sliceTo'.len = sliceTo.len + Len(xs) /\ sliceTo.len \in Nat
  BY DEF Grown, IInv, TypeOK, Header
<1>6. ASSUME NEW j \in 1..sliceTo'.len PROVE List'[j] = (List \o xs)[j]
  <2>1. List'[j] = IF j <= sliceTo.len THEN heapTo[sliceTo.arr][j] ELSE xs[j - sliceTo.len]
    <3>1. heapTo'[sliceTo'.arr][j] = IF j <= sliceTo.len THEN heapTo[sliceTo.arr][j] ELSE xs[j - sliceTo.len]
      BY DEF Grown
    <3> QED BY <1>2, <3>1
  <2>2. j <= sliceTo.len => List[j] = heapTo[sliceTo.arr][j]
    BY <1>1, <1>3, <1>5
  <2>3. (List \o xs)[j] = IF j <= sliceTo.len THEN List[j] ELSE xs[j - sliceTo.len]
    BY <1>3, <1>4, <1>5
  <2>4. j <= sliceTo.len \/ ~(j <= sliceTo.len)
    OBVIOUS
  <2> QED BY <2>1, <2>2, <2>3, <2>4
<1>7. PICK es \in Seq(Cell) : es = List'
  BY <1>2
<1>8. PICK ex \in Seq(Cell) : ex = List \o xs
  BY <1>4
<1>9. Len(es) = Len(ex) /\ \A j \in 1..Len(es) : es[j] = ex[j]
  BY <1>2, <1>4, <1>5, <1>6, <1>7, <1>8
<1> QED BY <1>7, <1>8, <1>9, SeqEqual

\* A creation or an import: the entries are typed, and the list goes on with them.
LEMMA CreateStep ==
    ASSUME IInv, \/ \E id \in StreamID : CreateStream(id)
                 \/ \E id1, id2 \in StreamID : HandleBatchImport(id1, id2)
    PROVE  IInv' /\ Abstract!Next
<1>0. TypeOK /\ ops < MaxOps => ops + 1 \in 0..MaxOps
  BY StoreAssumption DEF TypeOK
<1>1. ASSUME NEW xs \in Seq(Entry), Request(FALSE), AppendTo(xs)
      PROVE  IInv' /\ List' = List \o xs
  <2>1. Grown(xs) /\ MemoryGrown
    BY <1>1, AppendGrows DEF IInv, Request
  <2>2. IInv'
    BY <1>1, <2>1, GrownKeepsIInv
  <2> QED BY <2>1, <2>2, GrownExtends
<1>2. ASSUME NEW id \in StreamID, CreateStream(id) PROVE IInv' /\ Abstract!Next
  <2>1. ops' \in 0..MaxOps
    BY <1>0, <1>2 DEF CreateStream, Request, IInv
  <2>2. PICK e \in Entry : e = [id |-> id, rev |-> ops']
    BY <2>1 DEF Entry
  <2>3. PICK xs \in Seq(Entry) : xs = <<e>>
    <3>1. <<e>> \in Seq(Entry)
      OBVIOUS
    <3> QED BY <3>1
  <2>4. IInv' /\ List' = List \o xs
    BY <1>1, <1>2, <2>2, <2>3 DEF CreateStream
  <2> QED BY <2>3, <2>4 DEF Abstract!Next, Abstract!Extend
<1>3. ASSUME NEW id1 \in StreamID, NEW id2 \in StreamID, HandleBatchImport(id1, id2)
      PROVE  IInv' /\ Abstract!Next
  <2>1. ops' \in 0..MaxOps
    BY <1>0, <1>3 DEF HandleBatchImport, Request, IInv
  <2>2. PICK e \in Entry, f \in Entry : e = [id |-> id1, rev |-> ops'] /\ f = [id |-> id2, rev |-> ops']
    BY <2>1 DEF Entry
  <2>3. PICK xs \in Seq(Entry) : xs = <<e, f>>
    <3>1. <<e, f>> \in Seq(Entry)
      OBVIOUS
    <3> QED BY <3>1
  <2>4. IInv' /\ List' = List \o xs
    BY <1>1, <1>3, <2>2, <2>3 DEF HandleBatchImport
  <2> QED BY <2>3, <2>4 DEF Abstract!Next, Abstract!Extend
<1> QED BY <1>2, <1>3

\* An update or a deletion is remembered.
LEMMA ChangeKeepsIInv ==
    ASSUME IInv, Request(TRUE), heap' = heap,
           NEW g \in Seq(Cell), heapTo' = [heapTo EXCEPT ![sliceTo.arr] = g],
           Len(g) = Len(heapTo[sliceTo.arr]),
           NEW n \in 0..sliceTo.len, sliceTo' = [sliceTo EXCEPT !.len = n],
           \A j \in 1..n : g[j] \in Entry
    PROVE  IInv' /\ sliceTo'.len = n /\ \A j \in 1..n : heapTo'[sliceTo'.arr][j] = g[j]
<1>1. /\ heapTo \in Seq(Seq(Cell)) /\ sliceTo \in [arr : 1..Len(heapTo), len : Nat]
      /\ Len(heapTo) = Len(heap) /\ sliceTo.len <= Len(heapTo[sliceTo.arr]) /\ TypeOK
  BY GoalTyped DEF IInv
<1>2. PICK arr \in 1..Len(heapTo) : arr = sliceTo.arr
  BY <1>1
<1>3. /\ heapTo' \in Seq(Seq(Cell)) /\ Len(heapTo') = Len(heapTo) /\ heapTo'[arr] = g
      /\ \A a \in 1..Len(heapTo) : a # arr => heapTo'[a] = heapTo[a]
  BY <1>1, <1>2, ExceptSeq
<1>4. n \in Nat /\ n <= Len(g)
  BY <1>1
<1>5. sliceTo' \in Header' /\ sliceTo'.len = n /\ sliceTo'.arr = arr /\ Header' = Header
  BY <1>1, <1>2, <1>3, <1>4 DEF Header
<1>6. disturbed' = TRUE /\ complete' \in Nat
  BY <1>1 DEF Request, Note, TypeOK
<1>7. UNCHANGED <<slice, spc, unread, view, k, cur, launched>>
  BY DEF Request, startVars
<1>8. TypeOK'
  <2>1. ops' \in 0..MaxOps
    <3>1. ops \in 0..MaxOps /\ ops < MaxOps /\ ops' = ops + 1 /\ MaxOps \in Nat
      BY <1>1, StoreAssumption DEF Request, TypeOK
    <3> QED BY <3>1
  <2> QED BY <1>1, <1>3, <1>4, <1>5, <1>6, <1>7, <2>1 DEF TypeOK, Cell
<1>9. SameShape' /\ Written' /\ Progress'
  BY <1>1, <1>2, <1>3, <1>5, <1>7 DEF IInv, SameShape, Written, Progress
<1>10. MemoryHolds' /\ HeaderHolds' /\ LoopHolds'
  BY <1>6 DEF MemoryHolds, HeaderHolds, LoopHolds
<1> QED BY <1>3, <1>5, <1>8, <1>9, <1>10 DEF IInv

\* What IsFirst says is what StreamList's says.
LEMMA FirstInList ==
    ASSUME TypeOK, NEW id, NEW i \in 1..sliceTo.len, IsFirst(i, id)
    PROVE  i \in 1..Len(List) /\ Abstract!IsFirst(i, id)
<1>1. Covered
  BY ListCovered
<1> QED BY <1>1 DEF Covered, IsFirst, Abstract!IsFirst

LEMMA UpdateStep ==
    ASSUME IInv, NEW id \in StreamID, UpdateStream(id)
    PROVE  IInv' /\ Abstract!Next
<1>0. /\ TypeOK /\ heapTo[sliceTo.arr] \in Seq(Cell) /\ sliceTo \in [arr : 1..Len(heapTo), len : Nat]
      /\ sliceTo.len <= Len(heapTo[sliceTo.arr])
  BY GoalTyped DEF IInv
<1>1. ops' \in 0..MaxOps
  <2>1. ops \in 0..MaxOps /\ ops < MaxOps /\ ops' = ops + 1 /\ MaxOps \in Nat
    BY <1>0, StoreAssumption DEF UpdateStream, Request, TypeOK
  <2> QED BY <2>1
<1>2. PICK e \in Entry : e = [id |-> id, rev |-> ops']
  BY <1>1 DEF Entry
<1>3. PICK i \in 1..sliceTo.len :
          IsFirst(i, id) /\ heapTo' = [heapTo EXCEPT ![sliceTo.arr][i] = e]
  BY <1>2 DEF UpdateStream
<1>4. PICK h \in Seq(Cell) : h = heapTo[sliceTo.arr]
  BY <1>0
<1>5. PICK n \in Nat : n = sliceTo.len /\ n <= Len(h)
  BY <1>0, <1>4
<1>6. PICK g \in Seq(Cell) : /\ g = [h EXCEPT ![i] = e] /\ Len(g) = Len(h)
                             /\ \A j \in 1..Len(h) : g[j] = IF j = i THEN e ELSE h[j]
  BY <1>3, <1>4, <1>5, ExceptSeq DEF Cell
<1>7. heapTo' = [heapTo EXCEPT ![sliceTo.arr] = g]
  BY <1>3, <1>4, <1>6
<1>8. \A j \in 1..n : g[j] \in Entry
  BY <1>4, <1>5, <1>6 DEF IInv, Written
<1>9. sliceTo' = [sliceTo EXCEPT !.len = n]
  BY <1>0, <1>5 DEF UpdateStream
<1>10. IInv' /\ sliceTo'.len = n /\ \A j \in 1..n : heapTo'[sliceTo'.arr][j] = g[j]
  <2>1. n \in 0..sliceTo.len /\ Len(g) = Len(heapTo[sliceTo.arr])
    BY <1>4, <1>5, <1>6
  <2>2. Request(TRUE) /\ heap' = heap
    BY DEF UpdateStream
  <2> QED BY <1>7, <1>8, <1>9, <2>1, <2>2, ChangeKeepsIInv
<1>11. Covered /\ Covered'
  <2>1. TypeOK'
    BY <1>10 DEF IInv
  <2> QED BY <1>0, <2>1, ListCovered, PTL
<1>12. PICK es \in Seq(Cell) : es = List /\ Len(es) = n /\ \A j \in 1..n : es[j] = h[j]
  BY <1>4, <1>5, <1>11 DEF Covered
<1>13. PICK es2 \in Seq(Cell) : es2 = List' /\ Len(es2) = n /\ \A j \in 1..n : es2[j] = g[j]
  <2>1. List' \in Seq(Cell) /\ Len(List') = n
    BY <1>10, <1>11 DEF Covered
  <2>2. \A j \in 1..n : List'[j] = g[j]
    BY <1>10, <1>11 DEF Covered
  <2> QED BY <2>1, <2>2
<1>14. es2 = [es EXCEPT ![i] = e]
  <2>1. PICK ex \in Seq(Cell) : /\ ex = [es EXCEPT ![i] = e] /\ Len(ex) = n
                                /\ \A j \in 1..n : ex[j] = IF j = i THEN e ELSE es[j]
    <3>1. e \in Cell /\ i \in 1..Len(es)
      BY <1>3, <1>5, <1>12 DEF Cell
    <3>2. /\ [es EXCEPT ![i] = e] \in Seq(Cell) /\ Len([es EXCEPT ![i] = e]) = Len(es)
          /\ \A j \in 1..Len(es) : [es EXCEPT ![i] = e][j] = IF j = i THEN e ELSE es[j]
      BY <3>1, ExceptSeq
    <3> QED BY <1>12, <3>2
  <2>2. \A j \in 1..n : es2[j] = ex[j]
    BY <1>5, <1>6, <1>12, <1>13, <2>1
  <2> QED BY <1>13, <2>1, <2>2, SeqEqual
<1>15. i \in 1..Len(List) /\ Abstract!IsFirst(i, e.id)
  <2>1. e.id = id
    BY <1>2
  <2> QED BY <1>0, <1>3, <2>1, FirstInList
<1>16. List' = [List EXCEPT ![i] = e]
  BY <1>12, <1>13, <1>14
<1> QED BY <1>10, <1>15, <1>16 DEF Abstract!Next, Abstract!Replace

LEMMA DeleteStep ==
    ASSUME IInv, NEW id \in StreamID, DeleteStream(id)
    PROVE  IInv' /\ Abstract!Next
<1>0. /\ TypeOK /\ heapTo[sliceTo.arr] \in Seq(Cell) /\ sliceTo \in [arr : 1..Len(heapTo), len : Nat]
      /\ sliceTo.len <= Len(heapTo[sliceTo.arr])
  BY GoalTyped DEF IInv
<1>2. PICK h \in Seq(Cell) : h = heapTo[sliceTo.arr]
  BY <1>0
<1>3. PICK n \in Nat : n = sliceTo.len /\ n <= Len(h)
  BY <1>0, <1>2
<1>4. PICK i \in 1..n : /\ IsFirst(i, id)
                        /\ heapTo' = [heapTo EXCEPT ![sliceTo.arr] =
                               Overwrite(h, i, SubSeq(List, i + 1, n))]
  BY <1>2, <1>3 DEF DeleteStream, ShiftDown
<1>5. Covered
  BY <1>0, ListCovered
<1>6. PICK es \in Seq(Cell) : es = List /\ Len(es) = n /\ \A j \in 1..n : es[j] = h[j]
  BY <1>2, <1>3, <1>5 DEF Covered
<1>7. PICK t \in Seq(Cell) : /\ t = SubSeq(es, i + 1, n) /\ Len(t) = n - i
                             /\ \A j \in 1..(n - i) : t[j] = es[i + j]
  <2>1. i + 1 \in Int /\ n \in Int /\ \A j \in (i + 1)..n : es[j] \in Cell
    BY <1>6
  <2>2. /\ SubSeq(es, i + 1, n) \in Seq(Cell)
        /\ Len(SubSeq(es, i + 1, n)) = IF i + 1 <= n THEN n - (i + 1) + 1 ELSE 0
        /\ \A j \in 1..(n - (i + 1) + 1) : SubSeq(es, i + 1, n)[j] = es[i + 1 + j - 1]
    BY <2>1, SubSeqProperties
  <2>3. PICK t \in Seq(Cell) : t = SubSeq(es, i + 1, n)
    BY <2>2
  <2>4. Len(t) = n - i
    BY <2>2, <2>3
  <2>5. ASSUME NEW j \in 1..(n - i) PROVE t[j] = es[i + j]
    <3>1. j \in 1..(n - (i + 1) + 1) /\ i + 1 + j - 1 = i + j
      OBVIOUS
    <3> QED BY <2>2, <2>3, <3>1
  <2> QED BY <2>3, <2>4, <2>5
<1>8. PICK g \in Seq(Cell) : g = Overwrite(h, i, t) /\ Len(g) = Len(h) /\
          \A j \in 1..Len(h) : g[j] = IF j >= i /\ j < i + Len(t) THEN t[j - i + 1] ELSE h[j]
  BY OverwriteSeq
<1>9. heapTo' = [heapTo EXCEPT ![sliceTo.arr] = g]
  BY <1>4, <1>6, <1>7, <1>8
<1>10. ASSUME NEW j \in 1..(n - 1) PROVE g[j] = IF j < i THEN es[j] ELSE es[j + 1]
  <2>1. j \in 1..n /\ j \in 1..Len(h)
    BY <1>3
  <2>2. CASE j < i
    BY <1>6, <1>8, <2>1, <2>2
  <2>3. CASE ~(j < i)
    <3>1. j >= i /\ j < i + Len(t) /\ j - i + 1 \in 1..(n - i) /\ i + (j - i + 1) = j + 1
      <4>1. Len(t) = n - i /\ n \in Nat /\ i \in 1..n
        BY <1>7
      <4> QED BY <2>3, <4>1
    <3>2. g[j] = t[j - i + 1]
      BY <1>8, <2>1, <3>1
    <3>3. t[j - i + 1] = es[i + (j - i + 1)]
      BY <1>7, <3>1
    <3> QED BY <2>3, <3>1, <3>2, <3>3
  <2> QED BY <2>2, <2>3
<1>11. \A j \in 1..(n - 1) : g[j] \in Entry
  <2> SUFFICES ASSUME NEW j \in 1..(n - 1) PROVE g[j] \in Entry
    OBVIOUS
  <2>1. j \in 1..n /\ j + 1 \in 1..n
    BY <1>3
  <2>2. es[j] \in Entry /\ es[j + 1] \in Entry
    BY <1>2, <1>3, <1>6, <2>1 DEF IInv, Written
  <2> QED BY <1>10, <2>2
<1>12. PICK m \in 0..sliceTo.len : m = n - 1
  BY <1>3
<1>13. sliceTo' = [sliceTo EXCEPT !.len = m]
  BY <1>3, <1>12 DEF DeleteStream
<1>14. IInv' /\ sliceTo'.len = m /\ \A j \in 1..m : heapTo'[sliceTo'.arr][j] = g[j]
  <2>1. Len(g) = Len(heapTo[sliceTo.arr])
    BY <1>2, <1>8
  <2>2. Request(TRUE) /\ heap' = heap
    BY DEF DeleteStream
  <2>3. \A j \in 1..m : g[j] \in Entry
    BY <1>11, <1>12
  <2> QED BY <1>9, <1>13, <2>1, <2>2, <2>3, ChangeKeepsIInv
<1>15. Covered'
  <2>1. TypeOK'
    BY <1>14 DEF IInv
  <2> QED BY <2>1, ListCovered, PTL
<1>16. PICK es2 \in Seq(Cell) : es2 = List' /\ Len(es2) = m /\ \A j \in 1..m : es2[j] = g[j]
  <2>1. List' \in Seq(Cell) /\ Len(List') = m
    BY <1>14, <1>15 DEF Covered
  <2>2. \A j \in 1..m : List'[j] = g[j]
    BY <1>14, <1>15 DEF Covered
  <2> QED BY <2>1, <2>2
<1>17. es2 = SubSeq(es, 1, i - 1) \o SubSeq(es, i + 1, n)
  <2>1. \A j \in 1..(i - 1) : es[j] \in Cell
    BY <1>6
  <2>2. PICK b \in Seq(Cell) : /\ b = SubSeq(es, 1, i - 1) /\ Len(b) = i - 1
                               /\ \A j \in 1..(i - 1) : b[j] = es[j]
    <3>1. /\ SubSeq(es, 1, i - 1) \in Seq(Cell)
          /\ Len(SubSeq(es, 1, i - 1)) = IF 1 <= i - 1 THEN i - 1 - 1 + 1 ELSE 0
          /\ \A j \in 1..(i - 1 - 1 + 1) : SubSeq(es, 1, i - 1)[j] = es[1 + j - 1]
      BY <2>1, SubSeqProperties
    <3>2. PICK b \in Seq(Cell) : b = SubSeq(es, 1, i - 1)
      BY <3>1
    <3>3. Len(b) = i - 1
      BY <3>1, <3>2
    <3>4. ASSUME NEW j \in 1..(i - 1) PROVE b[j] = es[j]
      <4>1. j \in 1..(i - 1 - 1 + 1) /\ 1 + j - 1 = j
        OBVIOUS
      <4> QED BY <3>1, <3>2, <4>1
    <3> QED BY <3>2, <3>3, <3>4
  <2>3. PICK x \in Seq(Cell) : /\ x = b \o t /\ Len(x) = Len(b) + Len(t)
                               /\ \A j \in 1..(Len(b) + Len(t)) :
                                    x[j] = IF j <= Len(b) THEN b[j] ELSE t[j - Len(b)]
    <3>1. /\ b \o t \in Seq(Cell) /\ Len(b \o t) = Len(b) + Len(t)
          /\ \A j \in 1..(Len(b) + Len(t)) :
                (b \o t)[j] = IF j <= Len(b) THEN b[j] ELSE t[j - Len(b)]
      BY ConcatProperties
    <3> QED BY <3>1
  <2>4. Len(x) = m
    BY <1>7, <1>12, <2>2, <2>3
  <2>5. ASSUME NEW j \in 1..m PROVE es2[j] = x[j]
    <3>1. j \in 1..(n - 1) /\ j \in 1..(Len(b) + Len(t))
      BY <1>12, <2>3, <2>4
    <3>2. es2[j] = IF j < i THEN es[j] ELSE es[j + 1]
      BY <1>10, <1>16, <3>1
    <3>3. CASE j < i
      <4>1. j \in 1..(i - 1) /\ j <= Len(b)
        BY <2>2, <3>3
      <4> QED BY <2>2, <2>3, <3>1, <3>2, <3>3, <4>1
    <3>4. CASE ~(j < i)
      <4>1. ~(j <= Len(b)) /\ j - Len(b) \in 1..(n - i) /\ i + (j - Len(b)) = j + 1
        BY <2>2, <3>1, <3>4
      <4>2. x[j] = t[j - Len(b)] /\ t[j - Len(b)] = es[i + (j - Len(b))]
        BY <1>7, <2>3, <3>1, <4>1
      <4> QED BY <3>2, <3>4, <4>1, <4>2
    <3> QED BY <3>3, <3>4
  <2>6. es2 = x
    BY <1>16, <2>4, <2>5, SeqEqual
  <2> QED BY <1>7, <2>2, <2>3, <2>6
<1>18. PICK e \in Entry : e.id = id
  <2>1. [id |-> id, rev |-> 0] \in Entry
    BY StoreAssumption DEF Entry
  <2> QED BY <2>1
<1>19. i \in 1..Len(List) /\ Abstract!IsFirst(i, e.id)
  BY <1>0, <1>3, <1>4, <1>18, FirstInList
<1>20. List' = SubSeq(List, 1, i - 1) \o SubSeq(List, i + 1, Len(List))
  BY <1>6, <1>16, <1>17
<1> QED BY <1>14, <1>19, <1>20 DEF Abstract!Next, Abstract!Remove
-----------------------------------------------------------------------------
(* The stores keep the invariant, and change nothing of the list.           *)

LEMMA StoreHeaderStep ==
    ASSUME IInv, NEW part \in {"arr", "len"}, StoreHeader(part)
    PROVE  IInv' /\ UNCHANGED List
<1>1. /\ slice' = [slice EXCEPT ![part] = sliceTo[part]]
      /\ UNCHANGED <<heap, heapTo, sliceTo, ops, spc, unread, view, k, cur, launched, complete, disturbed>>
  BY DEF StoreHeader, goal, startVars, history
<1>2. TypeOK /\ slice \in [arr : 1..Len(heap), len : Nat] /\ sliceTo \in [arr : 1..Len(heap), len : Nat]
  BY DEF IInv, TypeOK, Header
<1>3. /\ slice' \in [arr : 1..Len(heap), len : Nat]
      /\ slice'.arr \in {slice.arr, sliceTo.arr} /\ slice'.len \in {slice.len, sliceTo.len}
  <2>1. CASE part = "arr"
    BY <1>1, <1>2, <2>1
  <2>2. CASE part = "len"
    BY <1>1, <1>2, <2>2
  <2> QED BY <2>1, <2>2
<1>4. TypeOK'
  BY <1>1, <1>2, <1>3 DEF TypeOK, Header
<1>5. SameShape' /\ Written' /\ Progress' /\ HeaderHolds' /\ LoopHolds'
  BY <1>1 DEF IInv, SameShape, Written, Progress, HeaderHolds, LoopHolds, Holds
<1>6. MemoryHolds'
  BY <1>1, <1>3 DEF IInv, MemoryHolds, Holds
<1> QED BY <1>1, <1>4, <1>5, <1>6 DEF IInv, List

\* None of the complete entries is stored to: they are already what they will be.
LEMMA StoreEntryStep ==
    ASSUME IInv, NEW i \in 1..Len(heap[sliceTo.arr]), NEW field \in {"id", "rev"}, StoreEntry(i, field)
    PROVE  IInv' /\ UNCHANGED List
<1>1. /\ heap' = [heap EXCEPT ![sliceTo.arr][i][field] = heapTo[sliceTo.arr][i][field]]
      /\ heap[sliceTo.arr][i][field] # heapTo[sliceTo.arr][i][field]
      /\ UNCHANGED <<slice, heapTo, sliceTo, ops, spc, unread, view, k, cur, launched, complete, disturbed>>
  BY DEF StoreEntry, goal, startVars, history
<1>2. /\ TypeOK /\ heap \in Seq(Seq(Copy)) /\ heapTo \in Seq(Seq(Copy)) /\ Len(heapTo) = Len(heap)
      /\ sliceTo \in [arr : 1..Len(heap), len : Nat]
  BY MemoryIsCopies DEF IInv, TypeOK, Header, Cell
<1>3. PICK arr \in 1..Len(heap) : arr = sliceTo.arr
  BY <1>2
<1>4. PICK h \in Seq(Copy), g \in Seq(Copy) : h = heap[arr] /\ g = heapTo[arr] /\ Len(g) = Len(h)
  BY <1>2 DEF IInv, SameShape
<1>5. i \in 1..Len(h)
  BY <1>3, <1>4
<1>6. PICK e \in Copy, f \in Copy : e = h[i] /\ f = g[i]
  BY <1>4, <1>5, ElementOfSeq
<1>7. PICK c \in Copy : c = [e EXCEPT ![field] = f[field]]
  <2>1. CASE field = "id"
    BY <1>6, <2>1 DEF Copy
  <2>2. CASE field = "rev"
    BY <1>6, <2>2 DEF Copy
  <2> QED BY <2>1, <2>2
<1>8. PICK h2 \in Seq(Copy) : /\ h2 = [h EXCEPT ![i] = c] /\ Len(h2) = Len(h)
                              /\ \A j \in 1..Len(h) : h2[j] = IF j = i THEN c ELSE h[j]
  <2>1. /\ [h EXCEPT ![i] = c] \in Seq(Copy) /\ Len([h EXCEPT ![i] = c]) = Len(h)
        /\ \A j \in 1..Len(h) : [h EXCEPT ![i] = c][j] = IF j = i THEN c ELSE h[j]
    BY <1>5, ExceptSeq
  <2> QED BY <2>1
<1>9. heap' = [heap EXCEPT ![arr] = h2]
  BY <1>1, <1>3, <1>4, <1>6, <1>7, <1>8
<1>10. /\ heap' \in Seq(Seq(Copy)) /\ Len(heap') = Len(heap) /\ heap'[arr] = h2
       /\ \A a \in 1..Len(heap) : a # arr => heap'[a] = heap[a]
  BY <1>2, <1>9, ExceptSeq
<1>11. TypeOK' /\ Header' = Header
  BY <1>1, <1>2, <1>10 DEF TypeOK, Header
<1>12. SameShape' /\ Written' /\ Progress'
  <2>1. SameShape'
    BY <1>1, <1>4, <1>8, <1>10 DEF IInv, SameShape
  <2>2. Written' /\ Progress'
    BY <1>1 DEF IInv, Written, Progress
  <2> QED BY <2>1, <2>2
<1>13. ASSUME ~disturbed, NEW a \in 1..Len(heap), Holds(a) PROVE Holds(a)'
  <2>1. CASE a # arr
    BY <1>1, <1>10, <1>13, <2>1 DEF Holds
  <2>2. CASE a = arr
    <3>1. Len(heap'[a]) = Len(heap[a]) /\ Len(h) \in Nat /\ complete \in Nat /\ complete <= Len(h)
      BY <1>2, <1>4, <1>8, <1>10, <1>13, <2>2, LenProperties DEF Holds, TypeOK
    <3>2. i \notin 1..complete
      BY <1>1, <1>3, <1>13, <2>2 DEF Holds
    <3>3. \A j \in 1..complete : heap'[a][j] = heap[a][j]
      <4>1. \A j \in 1..complete : j \in 1..Len(h) /\ j # i
        BY <3>1, <3>2
      <4>2. heap'[a] = h2 /\ heap[a] = h
        BY <1>4, <1>10, <2>2
      <4> QED BY <1>8, <4>1, <4>2
    <3> QED BY <1>1, <1>13, <3>1, <3>3 DEF Holds
  <2> QED BY <2>1, <2>2
<1>14. MemoryHolds'
  <2>1. slice.arr \in 1..Len(heap) /\ sliceTo.arr \in 1..Len(heap)
    BY <1>2 DEF TypeOK, Header
  <2>2. ASSUME ~disturbed PROVE Holds(slice.arr)' /\ Holds(sliceTo.arr)'
    <3>1. PICK a \in 1..Len(heap), b \in 1..Len(heap) : a = slice.arr /\ b = sliceTo.arr
      BY <2>1
    <3>2. Holds(a) /\ Holds(b)
      BY <2>2, <3>1 DEF IInv, MemoryHolds
    <3>3. Holds(a)'
      BY <1>13, <2>2, <3>2
    <3>4. Holds(b)'
      BY <1>13, <2>2, <3>2
    <3>5. Holds(slice.arr)'
      BY <1>1, <3>1, <3>3 DEF Holds
    <3>6. Holds(sliceTo.arr)'
      BY <1>1, <3>1, <3>4 DEF Holds
    <3> QED BY <3>5, <3>6
  <2> QED BY <1>1, <2>2 DEF IInv, MemoryHolds
<1>15. HeaderHolds'
  <2>1. view.arr \in 1..Len(heap)
    BY <1>2 DEF TypeOK, Header
  <2> QED BY <1>1, <1>13, <2>1 DEF IInv, HeaderHolds, Holds
<1>16. LoopHolds'
  BY <1>1 DEF IInv, LoopHolds
<1> QED BY <1>1, <1>11, <1>12, <1>14, <1>15, <1>16 DEF IInv, List
-----------------------------------------------------------------------------
(* Start keeps the invariant.                                               *)

\* Nothing of the memory changes.
LEMMA StartType ==
    ASSUME IInv, UNCHANGED <<memory, goal>>
    PROVE  /\ UNCHANGED <<heap, slice, heapTo, sliceTo, ops>>
           /\ Header' = Header /\ SameShape' /\ Written'
           /\ heap \in Seq(Seq(Copy)) /\ slice \in [arr : 1..Len(heap), len : Nat]
           /\ sliceTo \in [arr : 1..Len(heap), len : Nat] /\ view \in [arr : 1..Len(heap), len : Nat]
           /\ /\ view' \in Header /\ k' \in Nat \ {0} /\ cur' \in Copy /\ launched' \in Seq(Copy)
              /\ spc' \in {"header", "entry", "sem", "done"}
              /\ unread' \subseteq IF spc' = "header" THEN {"arr", "len"} ELSE {"id", "rev"}
              /\ complete' \in Nat /\ disturbed' \in BOOLEAN
              => TypeOK'
BY DEF IInv, memory, goal, TypeOK, SameShape, Written, Header

LEMMA ReadHeaderStep ==
    ASSUME IInv, NEW part \in {"arr", "len"}, ReadHeader(part)
    PROVE  IInv'
<1>0. TypeOK /\ UNCHANGED <<memory, goal>>
  BY DEF IInv, ReadHeader
<1>1. /\ spc = "header" /\ part \in unread /\ unread \subseteq {"arr", "len"}
      /\ launched = <<>> /\ k = 1 /\ UNCHANGED <<k, cur, launched>>
      /\ view' = [view EXCEPT ![part] = slice[part]]
      /\ \/ unread = {part} /\ spc' = (IF view'.len = 0 THEN "done" ELSE "entry") /\ unread' = {"id", "rev"}
         \/ unread # {part} /\ spc' = spc /\ unread' = unread \ {part}
  BY DEF ReadHeader, IInv, Progress, TypeOK
<1>2. /\ UNCHANGED <<heap, slice, heapTo, sliceTo, ops>> /\ Header' = Header /\ SameShape' /\ Written'
      /\ slice \in [arr : 1..Len(heap), len : Nat] /\ view \in [arr : 1..Len(heap), len : Nat]
      /\ sliceTo \in [arr : 1..Len(heap), len : Nat] /\ heap \in Seq(Seq(Copy))
  BY <1>0, StartType
<1>3. /\ view' \in [arr : 1..Len(heap), len : Nat]
      /\ part = "arr" => view'.arr = slice.arr /\ view'.len = view.len
      /\ part = "len" => view'.arr = view.arr /\ view'.len = slice.len
  <2>1. CASE part = "arr"
    BY <1>1, <1>2, <2>1
  <2>2. CASE part = "len"
    BY <1>1, <1>2, <2>2
  <2> QED BY <2>1, <2>2
<1>4. complete' \in Nat /\ disturbed' \in BOOLEAN
  BY <1>0, <1>2 DEF ReadHeader, history, TypeOK
<1>5. TypeOK'
  <2>1. spc' \in {"header", "entry", "sem", "done"}
    BY <1>1
  <2>2. unread' \subseteq IF spc' = "header" THEN {"arr", "len"} ELSE {"id", "rev"}
    BY <1>1
  <2> QED BY <1>0, <1>1, <1>3, <1>4, <2>1, <2>2, StartType DEF TypeOK, Header
<1>6. Progress'
  <2>1. CASE unread = {part}
    <3>1. spc' = (IF view'.len = 0 THEN "done" ELSE "entry") /\ unread' # {}
      BY <1>1, <2>1
    <3>2. view'.len \in Nat
      BY <1>3
    <3> QED BY <1>1, <3>1, <3>2 DEF Progress
  <2>2. CASE unread # {part}
    BY <1>1, <2>2 DEF Progress
  <2> QED BY <2>1, <2>2
<1>7. MemoryHolds' /\ (StartBegan => UNCHANGED history)
  <2>1. CASE ~StartBegan /\ Free
    <3>1. heap = heapTo /\ slice = sliceTo /\ complete' = slice.len
      BY <2>1 DEF ReadHeader, Free
    <3>2. slice.len <= Len(heap[slice.arr]) /\ slice.len \in Nat
      BY <1>0, <1>2, <3>1 DEF TypeOK
    <3> QED BY <1>2, <2>1, <3>1, <3>2 DEF MemoryHolds, Holds
  <2>2. CASE ~(~StartBegan /\ Free)
    <3>1. complete' = complete /\ disturbed' = disturbed
      BY <2>2 DEF ReadHeader, history
    <3> QED BY <1>2, <3>1 DEF IInv, MemoryHolds, Holds, history
  <2> QED BY <2>1, <2>2
<1>8. HeaderHolds'
  <2> SUFFICES ASSUME ~disturbed'
               PROVE  /\ spc' # "header" \/ "arr" \notin unread' => Holds(view.arr)'
                      /\ spc' # "header" \/ "len" \notin unread' => complete' <= view'.len
    BY DEF HeaderHolds
  <2>1. complete' <= slice.len /\ Holds(slice.arr)'
    BY <1>2, <1>7 DEF MemoryHolds
  <2>2. ASSUME "arr" \notin unread PROVE part = "len" /\ StartBegan /\ Holds(view.arr) /\ ~disturbed
    <3>1. part = "len" /\ StartBegan
      BY <1>1, <2>2 DEF StartBegan
    <3> QED BY <1>7, <2>2, <3>1 DEF IInv, HeaderHolds, history
  <2>3. ASSUME "len" \notin unread PROVE part = "arr" /\ StartBegan /\ complete <= view.len
    <3>1. part = "arr" /\ StartBegan
      BY <1>1, <2>3 DEF StartBegan
    <3> QED BY <1>7, <2>3, <3>1 DEF IInv, HeaderHolds, history
  <2>4. CASE part = "arr"
    <3>1. Holds(view.arr)'
      BY <1>2, <1>3, <2>1, <2>4 DEF Holds
    <3>2. spc' # "header" \/ "len" \notin unread' => "len" \notin unread
      BY <1>1, <2>4
    <3>3. "len" \notin unread => complete' <= view'.len
      BY <1>3, <1>7, <2>3, <2>4 DEF history
    <3> QED BY <3>1, <3>2, <3>3
  <2>5. CASE part = "len"
    <3>1. complete' <= view'.len
      BY <1>3, <2>1, <2>5
    <3>2. spc' # "header" \/ "arr" \notin unread' => "arr" \notin unread
      BY <1>1, <2>5
    <3>3. "arr" \notin unread => Holds(view.arr)'
      BY <1>2, <1>3, <1>7, <2>2, <2>5 DEF history, Holds
    <3> QED BY <3>1, <3>2, <3>3
  <2> QED BY <2>4, <2>5
<1>9. LoopHolds'
  <2>1. launched' = <<>>
    BY <1>1
  <2>2. spc' = "entry" => unread' = {"id", "rev"}
    BY <1>1
  <2>3. spc' # "sem"
    BY <1>1
  <2> QED BY <1>4, <2>1, <2>2, <2>3 DEF LoopHolds
<1> QED BY <1>2, <1>5, <1>6, <1>7, <1>8, <1>9 DEF IInv

LEMMA ReadEntryStep ==
    ASSUME IInv, NEW field \in {"id", "rev"}, ReadEntry(field)
    PROVE  IInv'
<1>0. TypeOK /\ UNCHANGED <<memory, goal>>
  BY DEF IInv, ReadEntry
<1>1. /\ spc = "entry" /\ unread \subseteq {"id", "rev"} /\ unread' = unread \ {field}
      /\ UNCHANGED <<view, k, launched, complete, disturbed>>
      /\ spc' = IF unread' = {} THEN "sem" ELSE "entry"
  BY <1>0 DEF ReadEntry, TypeOK, history
<1>2. /\ UNCHANGED <<heap, slice, heapTo, sliceTo, ops>> /\ Header' = Header /\ SameShape' /\ Written'
      /\ view \in [arr : 1..Len(heap), len : Nat] /\ heap \in Seq(Seq(Copy))
      /\ k \in Nat \ {0} /\ cur \in Copy
  BY <1>0, StartType DEF TypeOK
<1>3. PICK h \in Seq(Copy) : h = heap[view.arr]
  BY <1>2
<1>4. PICK e \in Copy : /\ cur' = [cur EXCEPT ![field] = e[field]]
                        /\ k <= Len(h) => e = h[k]
  <2>1. PICK v \in Readable(field) : cur' = [cur EXCEPT ![field] = v]
    BY DEF ReadEntry
  <2>2. CASE k <= Len(h)
    <3>1. k \in 1..Len(h)
      BY <1>2, <2>2
    <3>2. PICK e \in Copy : e = h[k]
      BY <3>1, ElementOfSeq
    <3>3. v = e[field]
      BY <1>3, <2>1, <2>2, <3>2 DEF Readable
    <3> QED BY <2>1, <3>2, <3>3
  <2>3. CASE ~(k <= Len(h))
    <3>1. PICK e \in Foreign : v = e[field]
      BY <1>3, <2>1, <2>3 DEF Readable
    <3>2. e \in Copy
      BY <3>1, StoreAssumption
    <3> QED BY <2>1, <2>3, <3>1, <3>2
  <2> QED BY <2>2, <2>3
<1>5. /\ cur' \in Copy /\ cur'[field] = e[field]
      /\ \A other \in {"id", "rev"} \ {field} : cur'[other] = cur[other]
  <2>0. cur' = [cur EXCEPT ![field] = e[field]] /\ cur \in Copy
    BY <1>2, <1>4
  <2>1. CASE field = "id"
    BY <2>0, <2>1 DEF Copy
  <2>2. CASE field = "rev"
    BY <2>0, <2>2 DEF Copy
  <2> QED BY <2>1, <2>2
<1>6. TypeOK'
  <2>1. /\ spc' \in {"header", "entry", "sem", "done"} /\ spc' # "header"
        /\ unread' \subseteq {"id", "rev"}
    BY <1>1
  <2>2. /\ view' \in Header /\ k' \in Nat \ {0} /\ launched' \in Seq(Copy)
        /\ complete' \in Nat /\ disturbed' \in BOOLEAN
    BY <1>0, <1>1 DEF TypeOK
  <2> QED BY <1>0, <1>5, <2>1, <2>2, StartType
<1>7. Progress' /\ MemoryHolds' /\ HeaderHolds'
  <2>1. Progress'
    BY <1>1 DEF IInv, Progress
  <2>2. MemoryHolds' /\ HeaderHolds'
    BY <1>1, <1>2 DEF IInv, MemoryHolds, HeaderHolds, Holds
  <2> QED BY <2>1, <2>2
<1>8. LoopHolds'
  <2>1. ASSUME ~disturbed, k <= complete
        PROVE  /\ "id" \notin unread' => cur'.id = heapTo[sliceTo.arr][k].id
               /\ "rev" \notin unread' => cur'.rev = heapTo[sliceTo.arr][k].rev
    <3>1. Holds(view.arr) /\ complete \in Nat /\ k \in 1..complete
      BY <1>0, <1>1, <1>2, <2>1 DEF IInv, HeaderHolds, TypeOK
    <3>2. k <= Len(h)
      BY <1>2, <1>3, <2>1, <3>1, LenProperties DEF Holds
    <3>3. e = heapTo[sliceTo.arr][k]
      <4>1. e = heap[view.arr][k]
        BY <1>3, <1>4, <3>2
      <4>2. heap[view.arr][k] = heapTo[sliceTo.arr][k]
        BY <3>1 DEF Holds
      <4> QED BY <4>1, <4>2
    <3>4. /\ "id" \notin unread => cur.id = heapTo[sliceTo.arr][k].id
          /\ "rev" \notin unread => cur.rev = heapTo[sliceTo.arr][k].rev
      BY <1>1, <2>1 DEF IInv, LoopHolds
    <3>5. CASE field = "id"
      BY <1>1, <1>5, <3>3, <3>4, <3>5
    <3>6. CASE field = "rev"
      BY <1>1, <1>5, <3>3, <3>4, <3>6
    <3> QED BY <3>5, <3>6
  <2> QED BY <1>1, <1>2, <2>1 DEF IInv, LoopHolds
<1> QED BY <1>2, <1>6, <1>7, <1>8 DEF IInv

LEMMA LaunchStep == ASSUME IInv, Launch PROVE IInv'
<1>0. TypeOK /\ UNCHANGED <<memory, goal>>
  BY DEF IInv, Launch
<1>1. /\ spc = "sem" /\ launched' = Append(launched, cur) /\ k' = k + 1 /\ unread' = {"id", "rev"}
      /\ spc' = (IF k' <= view.len THEN "entry" ELSE "done")
      /\ UNCHANGED <<view, cur, complete, disturbed>> /\ unread = {} /\ k = Len(launched) + 1
  BY DEF Launch, IInv, Progress, history
<1>2. /\ UNCHANGED <<heap, slice, heapTo, sliceTo, ops>> /\ Header' = Header /\ SameShape' /\ Written'
      /\ view \in [arr : 1..Len(heap), len : Nat] /\ k \in Nat \ {0} /\ cur \in Copy
      /\ launched \in Seq(Copy) /\ complete \in Nat
  BY <1>0, StartType DEF TypeOK
<1>3. /\ launched' \in Seq(Copy) /\ Len(launched') = Len(launched) + 1 /\ Len(launched) \in Nat
      /\ launched'[Len(launched) + 1] = cur
      /\ \A j \in 1..Len(launched) : launched'[j] = launched[j]
  BY <1>1, <1>2, AppendProperties, LenProperties
<1>4. TypeOK'
  <2>1. spc' \in {"header", "entry", "sem", "done"} /\ spc' # "header" /\ k' \in Nat \ {0}
    BY <1>1, <1>2
  <2>2. view' \in Header /\ disturbed' \in BOOLEAN
    BY <1>0, <1>1, <1>2 DEF Header, TypeOK
  <2> QED BY <1>0, <1>1, <1>2, <1>3, <2>1, <2>2, StartType
<1>5. Progress'
  BY <1>1, <1>3 DEF Progress
<1>6. MemoryHolds' /\ HeaderHolds'
  BY <1>1, <1>2 DEF IInv, MemoryHolds, HeaderHolds, Holds
<1>7. LoopHolds'
  <2>1. ASSUME ~disturbed, NEW j \in 1..complete, j <= Len(launched')
        PROVE  launched'[j] = heapTo[sliceTo.arr][j]
    <3>1. CASE j <= Len(launched)
      <4>1. j \in 1..Len(launched)
        BY <1>3, <3>1
      <4> QED BY <1>3, <2>1, <3>1, <4>1 DEF IInv, LoopHolds
    <3>2. CASE ~(j <= Len(launched))
      <4>1. j = k
        BY <1>1, <1>3, <2>1, <3>2
      <4>2. cur.id = heapTo[sliceTo.arr][j].id /\ cur.rev = heapTo[sliceTo.arr][j].rev
        BY <1>1, <2>1, <4>1 DEF IInv, LoopHolds
      <4>3. heapTo[sliceTo.arr][j] \in Entry
        <5>1. j \in 1..sliceTo.len
          BY <1>0, <1>2, <2>1 DEF IInv, MemoryHolds, TypeOK, Header
        <5> QED BY <5>1 DEF IInv, Written
      <4>4. PICK x \in Entry : x = heapTo[sliceTo.arr][j]
        BY <4>3
      <4>5. cur = x
        <5>1. cur = [id |-> cur.id, rev |-> cur.rev]
          BY <1>2 DEF Copy
        <5>2. x = [id |-> x.id, rev |-> x.rev]
          BY <4>4 DEF Entry
        <5> QED BY <4>2, <4>4, <5>1, <5>2
      <4> QED BY <1>1, <1>3, <4>1, <4>4, <4>5
    <3> QED BY <3>1, <3>2
  <2> QED BY <1>1, <1>2, <2>1 DEF LoopHolds
<1> QED BY <1>2, <1>4, <1>5, <1>6, <1>7 DEF IInv

LEMMA CancelStep == ASSUME IInv, StartCancelled PROVE IInv'
<1>0. TypeOK /\ UNCHANGED <<memory, goal>>
  BY DEF IInv, StartCancelled
<1>1. /\ spc = "sem" /\ spc' = "done"
      /\ UNCHANGED <<unread, view, k, cur, launched, complete, disturbed>>
  BY DEF StartCancelled, history
<1>2. UNCHANGED <<heap, slice, heapTo, sliceTo, ops>> /\ Header' = Header /\ SameShape' /\ Written'
  BY <1>0, StartType
<1>3. TypeOK'
  BY <1>0, <1>1, StartType DEF TypeOK
<1>4. Progress' /\ LoopHolds'
  BY <1>1, <1>2 DEF IInv, Progress, LoopHolds
<1>5. MemoryHolds' /\ HeaderHolds'
  BY <1>1, <1>2 DEF IInv, MemoryHolds, HeaderHolds, Holds
<1> QED BY <1>2, <1>3, <1>4, <1>5 DEF IInv

LEMMA StartStep ==
    ASSUME IInv, Start \/ UNCHANGED vars
    PROVE  IInv' /\ UNCHANGED List
<1>1. CASE Start
  <2>1. IInv'
    BY <1>1, ReadHeaderStep, ReadEntryStep, LaunchStep, CancelStep DEF Start
  <2>2. UNCHANGED goal
    BY <1>1 DEF Start, ReadHeader, ReadEntry, Launch, StartCancelled
  <2> QED BY <2>1, <2>2 DEF goal, List
<1>2. CASE UNCHANGED vars
  BY <1>2 DEF vars, memory, goal, startVars, history, IInv, TypeOK, Header, SameShape, Written,
     Progress, MemoryHolds, HeaderHolds, LoopHolds, Holds, List
<1> QED BY <1>1, <1>2

LEMMA Step == IInv /\ [Next]_vars => IInv' /\ [Abstract!Next]_List
<1> SUFFICES ASSUME IInv, [Next]_vars PROVE IInv' /\ (Abstract!Next \/ UNCHANGED List)
  OBVIOUS
<1>1. CASE Handler
  BY <1>1, CreateStep, UpdateStep, DeleteStep DEF Handler
<1>2. CASE Store
  BY <1>2, StoreHeaderStep, StoreEntryStep DEF Store
<1>3. CASE Start \/ UNCHANGED vars
  BY <1>3, StartStep
<1> QED BY <1>1, <1>2, <1>3 DEF Next, Bounded

LEMMA InductiveInvariant == Spec => []IInv
<1> QED BY InitIInv, Step, PTL DEF Spec
-----------------------------------------------------------------------------
(* Theorems.                                                                *)

\* The arrays, as stored and as they will be, both copies of the header and what Start
\* copied are of their types: the length never exceeds the array once all is stored
\* (handler_stream.go, manager.go:46).
THEOREM TypeCorrect == Spec => []TypeOK
BY InductiveInvariant, PTL DEF IInv

\* As long as nothing is updated or deleted, Start launches each entry there was when it
\* began, as it is and in its place, whatever is created or imported beside it, in the
\* array or in another, in whatever order the stores and Start's reads come
\* (manager.go:46-56, handler_stream.go:155-157).
THEOREM ThereIsLaunched == Spec => []LaunchesWhatWasThere
<1>1. IInv => LaunchesWhatWasThere
  <2> SUFFICES ASSUME IInv, ~disturbed
               PROVE  /\ \A j \in 1..complete : j <= Len(launched) => launched[j] = List[j]
                      /\ spc = "done" /\ k > view.len => complete <= Len(launched)
    BY DEF LaunchesWhatWasThere
  <2>1. /\ complete \in Nat /\ sliceTo.len \in Nat /\ view.len \in Nat /\ launched \in Seq(Copy)
        /\ complete <= sliceTo.len /\ k = Len(launched) + 1
    BY DEF IInv, TypeOK, Header, MemoryHolds, Progress
  <2>2. \A j \in 1..sliceTo.len : List[j] = heapTo[sliceTo.arr][j]
    BY ListCovered DEF IInv, Covered
  <2>3. \A j \in 1..complete : List[j] = heapTo[sliceTo.arr][j]
    BY <2>1, <2>2
  <2>4. spc = "done" => complete <= view.len
    BY DEF IInv, HeaderHolds
  <2>5. Len(launched) \in Nat
    BY <2>1, LenProperties
  <2> QED BY <2>1, <2>3, <2>4, <2>5 DEF IInv, LoopHolds
<1> QED BY <1>1, InductiveInvariant, PTL

\* The handlers make of the slice, however its arrays are shared, grown and shifted, the
\* list that StreamList promises the API's users; their stores and Start's steps leave it
\* alone (handler_stream.go:149-192, 207-221).
THEOREM Refinement == Spec => ImplementsStreamList
<1>1. Init => Abstract!Init
  <2> SUFFICES ASSUME Init PROVE List \in Seq(Entry)
    BY DEF Abstract!Init
  <2>1. Covered /\ Written /\ sliceTo.len \in Nat
    BY InitIInv, ListCovered DEF IInv, TypeOK, Header
  <2>2. PICK es \in Seq(Cell) : es = List
    BY <2>1 DEF Covered
  <2>3. Len(es) \in Nat /\ \A j \in 1..Len(es) : es[j] \in Entry
    BY <2>1, <2>2 DEF Covered, Written
  <2>4. es \in [1..Len(es) -> Entry]
    BY <2>3, LenProperties
  <2>5. es \in Seq(Entry)
    BY <2>3, <2>4, SeqDef
  <2> QED BY <2>2, <2>5
<1> QED BY <1>1, Step, InductiveInvariant, PTL DEF Spec, ImplementsStreamList, Abstract!Spec
=============================================================================
