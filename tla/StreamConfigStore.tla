------------------------- MODULE StreamConfigStore -------------------------
(***************************************************************************)
(* cfg.Streams as the process holds it: a Go slice (backing array, length,  *)
(* capacity) that the API handlers append to, overwrite and shift in place  *)
(* under Server.mu (internal/api/handler_stream.go), and that               *)
(* StreamManager.Start ranges over in its own goroutine without that lock   *)
(* (internal/manager/manager.go:46), waiting at the semaphore in between.   *)
(*                                                                          *)
(* A handler computes, under the lock, what the memory shall be, and then   *)
(* stores it location by location, in any order: Go stores the new length   *)
(* of an append before the entries, and moves the tail of a deletion entry  *)
(* by entry.  Start's reads come between these stores: it reads the header  *)
(* of the slice and every entry in two parts, in either order.  A part is   *)
(* stored and read whole; a new array holds the old entries by the time its *)
(* address can be read.  An entry is its id and a revision that stands for  *)
(* all its other fields.                                                    *)
(***************************************************************************)
EXTENDS Integers, Sequences

CONSTANTS
    StreamID,          \* ids that requests and the configuration file give
    Unset,             \* the id in memory no entry was written to
    Boot,              \* cfg.Streams as config.Load returned it
    Foreign,           \* what memory past the end of an array may look like
    MaxOps             \* bound: successful requests that change the list

Entry == [id : StreamID, rev : 0..MaxOps]

\* An entry in memory or in a copy: it may be half of one and half of another.
Copy == [id : StreamID \cup {Unset}, rev : 0..MaxOps]

ASSUME StoreAssumption ==
    /\ Unset \notin StreamID /\ MaxOps \in Nat
    /\ Boot \in Seq([id : StreamID, rev : {0}]) /\ Foreign \subseteq Copy

VARIABLES
    heap,              \* the backing arrays allocated so far, at their capacity
    slice,             \* cfg.Streams: index of its array and length
    heapTo, sliceTo,   \* both as they are when the handler under way has stored all
    ops,               \* requests that changed the list; the revision of what they wrote
    spc,               \* Start: header, entry, sem, done
    unread,            \* parts of the header or the entry Start has still to copy
    view,              \* Start's copy of the header
    k,                 \* index of Start's loop
    cur,               \* streamCfg, the loop's copy of the entry
    launched,          \* the entries given to startStream, in order
    complete,          \* history: the entries there were when Start began, without those
                       \* that were just being appended
    disturbed          \* history: an update or delete was under way then, or came after

memory == <<heap, slice>>
goal == <<heapTo, sliceTo, ops>>
startVars == <<spc, unread, view, k, cur, launched>>
history == <<complete, disturbed>>
vars == <<memory, goal, startVars, history>>

Zero == [id |-> Unset, rev |-> 0]

\* The list, with what the handler under way makes of it.
List == SubSeq(heapTo[sliceTo.arr], 1, sliceTo.len)

\* Server.mu is free.
Free == heap = heapTo /\ slice = sliceTo

Header == [arr : 1..Len(heap), len : Nat]

TypeOK ==
    /\ heap \in Seq(Seq(Copy)) /\ slice \in Header
    /\ heapTo \in Seq(Seq(Entry \cup {Zero})) /\ sliceTo \in Header
    /\ Len(heapTo) = Len(heap) /\ sliceTo.len <= Len(heapTo[sliceTo.arr])
    /\ ops \in 0..MaxOps
    /\ spc \in {"header", "entry", "sem", "done"}
    /\ unread \subseteq IF spc = "header" THEN {"arr", "len"} ELSE {"id", "rev"}
    /\ view \in Header /\ k \in Nat \ {0} /\ cur \in Copy /\ launched \in Seq(Copy)
    /\ complete \in Nat /\ disturbed \in BOOLEAN

Init ==
    /\ heap = <<Boot>> /\ slice = [arr |-> 1, len |-> Len(Boot)]
    /\ heapTo = heap /\ sliceTo = slice /\ ops = 0
    /\ spc = "header" /\ unread = {"arr", "len"}
    /\ view = [arr |-> 1, len |-> 0] /\ k = 1 /\ cur = Zero /\ launched = <<>>
    /\ complete = Len(Boot) /\ disturbed = FALSE

StartBegan == spc # "header" \/ unread # {"arr", "len"}
-----------------------------------------------------------------------------
(* The handlers of /api/streams.  Each takes Server.mu.                     *)

Overwrite(array, from, xs) ==
    [j \in 1..Len(array) |->
        IF j >= from /\ j < from + Len(xs) THEN xs[j - from + 1] ELSE array[j]]

\* The history: a handler that changes entries there were disturbs Start.
Note(changes) ==
    /\ complete' = IF StartBegan THEN complete ELSE sliceTo.len
    /\ disturbed' = ((StartBegan /\ disturbed) \/ changes)

Request(changes) ==
    /\ Free /\ ops < MaxOps /\ ops' = ops + 1
    /\ slice' = slice /\ Note(changes) /\ UNCHANGED startVars

\* Fault variant: the new entries go over the last one.
AppendToLast(xs) ==
    /\ sliceTo.len > 0
    /\ heapTo' = [heapTo EXCEPT ![sliceTo.arr] = Overwrite(@, sliceTo.len, xs)]
    /\ UNCHANGED <<heap, sliceTo>>

\* Fault variant: one entry more than the capacity is taken to fit.
AppendBeyondCapacity(xs) ==
    /\ sliceTo.len + Len(xs) <= Len(heapTo[sliceTo.arr]) + 1
    /\ heapTo' = [heapTo EXCEPT ![sliceTo.arr] = Overwrite(@, sliceTo.len + 1, xs)]
    /\ sliceTo' = [sliceTo EXCEPT !.len = @ + Len(xs)]
    /\ heap' = heap

\* append: in place while the capacity lasts, else into a new array of at least
\* twice the size (rounding up to the allocator's size classes left out).
AppendTo(xs) ==
    LET size == Len(heapTo[sliceTo.arr])
        need == sliceTo.len + Len(xs)
        room == IF need > 2 * size THEN need ELSE 2 * size
        zeros(n) == [j \in 1..n |-> Zero]
    IN  \/ /\ need <= size
           /\ heapTo' = [heapTo EXCEPT ![sliceTo.arr] = Overwrite(@, sliceTo.len + 1, xs)]
           /\ sliceTo' = [sliceTo EXCEPT !.len = need]
           /\ heap' = heap
        \/ /\ need > size
           /\ heapTo' = Append(heapTo, List \o xs \o zeros(room - need))
           /\ sliceTo' = [arr |-> Len(heapTo) + 1, len |-> need]
           /\ heap' = Append(heap, List \o zeros(room - sliceTo.len))

CreateStream(id) == Request(FALSE) /\ AppendTo(<<[id |-> id, rev |-> ops']>>)

HandleBatchImport(id1, id2) ==
    Request(FALSE) /\ AppendTo(<<[id |-> id1, rev |-> ops'], [id |-> id2, rev |-> ops']>>)

IsFirst(i, id) == List[i].id = id /\ \A j \in 1..(i - 1) : List[j].id # id

\* Only the first match is overwritten, in place.
UpdateStream(id) ==
    /\ Request(TRUE) /\ UNCHANGED <<heap, sliceTo>>
    /\ \E i \in 1..sliceTo.len :
        /\ IsFirst(i, id)
        /\ heapTo' = [heapTo EXCEPT ![sliceTo.arr][i] = [id |-> id, rev |-> ops']]

\* The entries after the ith move down inside the array, whose last slot keeps its
\* old content.
ShiftDown(i) ==
    heapTo' = [heapTo EXCEPT ![sliceTo.arr] = Overwrite(@, i, SubSeq(List, i + 1, sliceTo.len))]

\* Fault variant: the length is left as it was.
DeleteStreamKeepsLength(id) ==
    /\ Request(TRUE) /\ UNCHANGED <<heap, sliceTo>>
    /\ \E i \in 1..sliceTo.len : IsFirst(i, id) /\ ShiftDown(i)

\* append(s[:i], s[i+1:]...).  Nothing asks whether the stream is running.
DeleteStream(id) ==
    /\ Request(TRUE) /\ heap' = heap
    /\ \E i \in 1..sliceTo.len : IsFirst(i, id) /\ ShiftDown(i)
    /\ sliceTo' = [sliceTo EXCEPT !.len = @ - 1]

\* The stores of the handler under way; the last one frees the lock.
StoreHeader(part) ==
    /\ slice[part] # sliceTo[part]
    /\ slice' = [slice EXCEPT ![part] = sliceTo[part]]
    /\ UNCHANGED <<heap, goal, startVars, history>>

StoreEntry(i, field) ==
    LET a == sliceTo.arr IN
    /\ heap[a][i][field] # heapTo[a][i][field]
    /\ heap' = [heap EXCEPT ![a][i][field] = heapTo[a][i][field]]
    /\ UNCHANGED <<slice, goal, startVars, history>>
-----------------------------------------------------------------------------
(* StreamManager.Start, without the lock.                                   *)

\* range m.cfg.Streams copies pointer and length, which an append may change
\* in between.  When the first part is read, Start has begun.
ReadHeader(part) ==
    /\ spc = "header" /\ part \in unread
    /\ view' = [view EXCEPT ![part] = slice[part]]
    /\ IF unread = {part}
       THEN spc' = (IF view'.len = 0 THEN "done" ELSE "entry") /\ unread' = {"id", "rev"}
       ELSE spc' = spc /\ unread' = unread \ {part}
    /\ IF ~StartBegan /\ Free
       THEN complete' = slice.len /\ disturbed' = FALSE
       ELSE UNCHANGED history
    /\ UNCHANGED <<memory, goal, k, cur, launched>>

\* What a read at the loop's index may find; past the array's end, what there is.
Readable(field) ==
    IF k <= Len(heap[view.arr]) THEN {heap[view.arr][k][field]} ELSE {e[field] : e \in Foreign}

\* streamCfg is copied field by field.
ReadEntry(field) ==
    /\ spc = "entry" /\ field \in unread
    /\ \E v \in Readable(field) : cur' = [cur EXCEPT ![field] = v]
    /\ unread' = unread \ {field}
    /\ spc' = IF unread' = {} THEN "sem" ELSE "entry"
    /\ UNCHANGED <<memory, goal, view, k, launched, history>>

\* A slot is free: the goroutine gets its copy, the loop goes on.
Launch ==
    /\ spc = "sem"
    /\ launched' = Append(launched, cur) /\ k' = k + 1
    /\ unread' = {"id", "rev"}
    /\ spc' = IF k' <= view.len THEN "entry" ELSE "done"
    /\ UNCHANGED <<memory, goal, view, cur, history>>

StartCancelled ==
    /\ spc = "sem" /\ spc' = "done"
    /\ UNCHANGED <<memory, goal, unread, view, k, cur, launched, history>>

\* The bound on requests, not the code, ends the model.
Bounded == spc = "done" /\ ops = MaxOps /\ Free /\ UNCHANGED vars

Handler ==
    \/ \E id \in StreamID : CreateStream(id) \/ UpdateStream(id) \/ DeleteStream(id)
    \/ \E id1, id2 \in StreamID : HandleBatchImport(id1, id2)

Store ==
    \/ \E part \in {"arr", "len"} : StoreHeader(part)
    \/ \E i \in 1..Len(heap[sliceTo.arr]), field \in {"id", "rev"} : StoreEntry(i, field)

Start ==
    \/ \E part \in {"arr", "len"} : ReadHeader(part)
    \/ \E field \in {"id", "rev"} : ReadEntry(field)
    \/ Launch \/ StartCancelled

Next == Handler \/ Store \/ Start \/ Bounded

Spec == Init /\ [][Next]_vars
-----------------------------------------------------------------------------
(* Properties.                                                              *)

Abstract == INSTANCE StreamList WITH list <- List

\* Whatever arrays are shared, grown and shifted underneath, the slice is the list the
\* API's users think of: that of the handler which has the lock, since only Start reads
\* without it (handler_stream.go:149-192, 207-221).
ImplementsStreamList == Abstract!Spec

\* What is created or imported while Start runs may reach it half-written, or as an entry
\* its array does not have.  But it never costs the entries there were when Start began:
\* as long as nothing is updated or deleted, Start launches each as it is in the list, in
\* its place, whatever parts of whichever array and length it has copied, and ends with
\* fewer only if it is cancelled (manager.go:46-56, handler_stream.go:155-157).
LaunchesWhatWasThere ==
    ~disturbed =>
        /\ \A j \in 1..complete : j <= Len(launched) => launched[j] = List[j]
        /\ spc = "done" /\ k > view.len => complete <= Len(launched)
=============================================================================
