--------------------------- MODULE EventLog_proofs ---------------------------
(***************************************************************************)
(* Proofs about EventLog, for any levels, page size, requests and bounds:   *)
(* responses are full pages, the page shows the selected level, and what is *)
(* reported acknowledged is, and nothing else.                              *)
(***************************************************************************)
EXTENDS EventLog, FiniteSetTheorems, SequenceTheorems, TLAPS
-----------------------------------------------------------------------------
(* Lemmas about the rows.                                                   *)

\* The ids of the rows that a filter selects.
Ids(rs, f) == {id \in DOMAIN rs : f = Any \/ rs[id].level = f}

LEMMA IdsFinite ==
    ASSUME NEW rs \in Seq(EventItem), NEW f
    PROVE  IsFiniteSet(Ids(rs, f)) /\ Cardinality(Ids(rs, f)) \in Nat
<1>1. IsFiniteSet(DOMAIN rs)
  BY FS_Interval
<1> QED BY <1>1, FS_Subset, FS_CardinalityType DEF Ids

\* Rows that keep their level and get company are selected still.
LEMMA MatchingGrows ==
    ASSUME rows \in Seq(EventItem), rows' \in Seq(EventItem), NEW f,
           DOMAIN rows \subseteq DOMAIN rows',
           \A id \in DOMAIN rows : rows'[id].level = rows[id].level
    PROVE  Matching(f)' \in Nat /\ Matching(f) \in Nat /\ Matching(f) <= Matching(f)'
<1>1. Ids(rows, f) \subseteq Ids(rows', f)
  BY DEF Ids
<1>2. Matching(f) = Cardinality(Ids(rows, f)) /\ Matching(f)' = Cardinality(Ids(rows', f))
  BY DEF Matching, Ids
<1> QED BY <1>1, <1>2, IdsFinite, FS_Subset

\* A function on the ids of rows is a sequence as long.
LEMMA RowsAreSeq ==
    ASSUME NEW n \in Nat, NEW S, NEW g \in [1..n -> S]
    PROVE  g \in Seq(S) /\ Len(g) = n
BY SeqDef

\* Acknowledging rows, all or some, keeps everything else of them.
LEMMA AckKeepsRows ==
    ASSUME rows \in Seq(EventItem), NEW I,
           rows' = [id \in DOMAIN rows |->
                        IF id \in I THEN [rows[id] EXCEPT !.acked = TRUE] ELSE rows[id]]
    PROVE  /\ rows' \in Seq(EventItem) /\ Len(rows') = Len(rows)
           /\ DOMAIN rows' = DOMAIN rows
           /\ \A id \in DOMAIN rows : /\ rows'[id].level = rows[id].level
                                      /\ rows[id].acked \/ id \in I => rows'[id].acked
                                      /\ rows'[id].acked => rows[id].acked \/ id \in I
<1>1. DOMAIN rows = 1..Len(rows) /\ Len(rows) \in Nat /\ \A id \in DOMAIN rows : rows[id] \in EventItem
  OBVIOUS
<1>2. ASSUME NEW id \in DOMAIN rows
      PROVE  /\ rows'[id] \in EventItem /\ rows'[id].level = rows[id].level
             /\ rows[id].acked \/ id \in I => rows'[id].acked
             /\ rows'[id].acked => rows[id].acked \/ id \in I
  BY <1>1 DEF EventItem
<1>3. rows' \in [1..Len(rows) -> EventItem]
  BY <1>1, <1>2
<1> QED BY <1>1, <1>2, <1>3, RowsAreSeq
-----------------------------------------------------------------------------
(* Types.                                                                   *)

LEMMA InitType == Init => TypeOK
<1> SUFFICES ASSUME Init PROVE TypeOK
  OBVIOUS
<1>1. NewHook \in Hook(Filter)
  BY DEF NewHook, Hook
<1>2. Any \in Filter /\ 1 \in Slot /\ MaxEvents \in Nat
  BY EventAssumption DEF Slot
<1>3. rows \in Seq(EventItem) /\ Len(rows) <= MaxEvents /\ selected \in Filter
  BY <1>2 DEF Init
<1>4. fetches \in [Slot -> Fetch]
  BY <1>2 DEF Init, Fetch
<1>5. acks \in [Caller -> Ack]
  BY DEF Init, Ack
<1> QED BY <1>1, <1>3, <1>4, <1>5 DEF Init, TypeOK

\* What fetchData does to the page's cells leaves them typed.
LEMMA HookType ==
    ASSUME hook \in Hook(Filter), NEW f \in Filter
    PROVE  /\ Fetching(hook) \in Hook(Filter) /\ Resolved(hook, f) \in Hook(Filter)
           /\ Rejected(hook) \in Hook(Filter)
BY DEF Hook, Fetching, Resolved, Rejected

LEMMA StartFetchType ==
    ASSUME TypeOK, NEW f \in Filter, StartFetch(f)
    PROVE  /\ fetches' \in [Slot -> Fetch] /\ hook' \in Hook(Filter)
           /\ \E s \in Slot \ InFlight : fetches' = [fetches EXCEPT ![s] = [step |-> "sent", level |-> f]]
<1> DEFINE s0 == CHOOSE k \in Slot \ InFlight : TRUE
<1>1. s0 \in Slot \ InFlight
  BY DEF StartFetch, InFlight
<1>2. fetches' = [fetches EXCEPT ![s0] = [step |-> "sent", level |-> f]] /\ hook' = Fetching(hook)
  BY DEF StartFetch
<1> HIDE DEF s0
<1> QED BY <1>1, <1>2, HookType DEF TypeOK, Fetch
-----------------------------------------------------------------------------
(* The invariant.                                                           *)

\* A total that was counted is not more than there are by now.
CountsHold == \A s \in Slot :
    fetches[s].step = "counted" => fetches[s].total <= Matching(fetches[s].level)

\* The ids of a request are of rows, and those it is done with are acknowledged.
AcksCover == \A c \in Caller : acks[c].step # "idle" =>
    \A j \in DOMAIN acks[c].ids :
        /\ acks[c].ids[j] \in DOMAIN rows
        /\ acks[c].step = "ok" \/ j < acks[c].next => rows[acks[c].ids[j]].acked

\* Unless a refetch came in between, one request at most is in flight, for the level
\* that is selected, while the page loads; then the page shows that level, or failed.
OneLevel == ~overlapped =>
    /\ \A s, t \in InFlight : s = t /\ fetches[s].level = selected
    /\ InFlight # {} => hook.loading
    /\ hook.loading \/ hook.error \/ hook.data = {selected}

IInv == TypeOK /\ CountsHold /\ PageIsFull /\ AcksCover /\ OneLevel

LEMMA InitIInv == Init => IInv
<1> SUFFICES ASSUME Init PROVE IInv
  OBVIOUS
<1>1. \A s \in Slot : fetches[s].step \in {"idle", "sent"}
  BY DEF Init, Idle
<1>2. OneLevel
  BY DEF Init, OneLevel, InFlight, Idle, NewHook
<1>3. CountsHold /\ PageIsFull /\ AcksCover
  BY <1>1 DEF Init, CountsHold, PageIsFull, AcksCover, Caller, Idle
<1> QED BY <1>2, <1>3, InitType DEF IInv

LEMMA IdsTyped ==
    ASSUME TypeOK, NEW c \in Caller, acks[c].step # "idle"
    PROVE  /\ acks[c] \in Ack /\ acks[c].ids \in Seq(Nat \ {0}) /\ acks[c].next \in Nat \ {0}
           /\ acks[c].level \in Filter /\ acks[c].all \in BOOLEAN
           /\ DOMAIN acks[c].ids = 1..Len(acks[c].ids) /\ Len(acks[c].ids) \in Nat
<1>1. acks[c] \in Ack /\ acks[c] # Idle
  BY DEF TypeOK, Idle
<1> QED BY <1>1 DEF Ack

LEMMA FetchTyped ==
    ASSUME TypeOK, NEW s \in Slot, fetches[s].step # "idle"
    PROVE  /\ fetches[s] \in Fetch /\ fetches[s].level \in Filter
           /\ fetches[s].step \in {"sent", "counted", "answered"}
           /\ fetches[s].step = "counted" => fetches[s].total \in Nat
           /\ fetches[s].step = "answered" => fetches[s].short \in BOOLEAN /\ fetches[s].cut \in BOOLEAN
<1>1. fetches[s] \in Fetch /\ fetches[s] # Idle
  BY DEF TypeOK, Idle
<1> QED BY <1>1 DEF Fetch

\* More rows, and more of them acknowledged, falsify no count and no acknowledgement.
LEMMA RowsGrow ==
    ASSUME IInv, rows' \in Seq(EventItem), DOMAIN rows \subseteq DOMAIN rows',
           \A id \in DOMAIN rows : /\ rows'[id].level = rows[id].level
                                   /\ rows[id].acked => rows'[id].acked
    PROVE  /\ fetches' = fetches => CountsHold' /\ PageIsFull'
           /\ acks' = acks => AcksCover'
<1>1. ASSUME fetches' = fetches PROVE CountsHold'
  <2> SUFFICES ASSUME NEW s \in Slot, fetches[s].step = "counted"
               PROVE  fetches[s].total <= Matching(fetches[s].level)'
    BY <1>1 DEF CountsHold
  <2>1. PICK f : f = fetches[s].level
    OBVIOUS
  <2>2. Matching(f)' \in Nat /\ Matching(f) \in Nat /\ Matching(f) <= Matching(f)'
    BY MatchingGrows DEF IInv, TypeOK
  <2>3. fetches[s].total <= Matching(f) /\ fetches[s].total \in Nat
    BY <2>1, FetchTyped DEF IInv, CountsHold
  <2>4. Matching(fetches[s].level)' = Matching(f)'
    BY <1>1, <2>1 DEF Matching
  <2> QED BY <2>2, <2>3, <2>4
<1>2. acks' = acks => AcksCover'
  BY DEF IInv, AcksCover
<1> QED BY <1>1, <1>2 DEF IInv, PageIsFull

\* A request of the page that goes from one step to another, and the page stays.
LEMMA FetchStep ==
    ASSUME IInv, UNCHANGED <<rows, page, acks>>, NEW s \in Slot, NEW r \in Fetch,
           fetches[s].step # "idle", fetches' = [fetches EXCEPT ![s] = r],
           r.step # "idle", r.level = fetches[s].level,
           r.step = "counted" => r.total <= Matching(r.level),
           r.step = "answered" /\ ~r.cut => ~r.short
    PROVE  IInv'
<1>1. TypeOK' /\ AcksCover'
  BY DEF IInv, TypeOK, AcksCover, page
<1>2. CountsHold' /\ PageIsFull'
  BY DEF IInv, TypeOK, CountsHold, PageIsFull, Matching
<1>3. OneLevel'
  BY DEF IInv, TypeOK, OneLevel, InFlight, page
<1> QED BY <1>1, <1>2, <1>3 DEF IInv

LEMMA ServerKeepsIInv ==
    ASSUME IInv, NEW s \in Slot, CountEvents(s) \/ SelectEvents(s) \/ RowsBreak(s)
    PROVE  IInv'
<1>0. TypeOK /\ PageSize \in Nat \ {0}
  BY EventAssumption DEF IInv
<1>1. fetches[s].step # "idle" /\ UNCHANGED <<rows, page, acks>>
  BY DEF CountEvents, SelectEvents, RowsBreak
<1>f. PICK f \in Filter : f = fetches[s].level
  BY <1>0, <1>1, FetchTyped
<1>2. Matching(f) \in Nat
  BY <1>0, IdsFinite DEF Matching, Ids, TypeOK
<1>3. CASE CountEvents(s)
  <2> DEFINE r0 == [step |-> "counted", level |-> f, total |-> Matching(f)]
  <2>1. r0 \in Fetch
    BY <1>2 DEF Fetch
  <2>2. PICK r \in Fetch : r = r0
    BY <2>1
  <2>3. r.step = "counted" /\ r.level = f /\ r.total = Matching(f)
    BY <2>2
  <2>4. fetches' = [fetches EXCEPT ![s] = r]
    BY <1>3, <1>f, <2>2 DEF CountEvents, Matching
  <2>5. r.total <= Matching(r.level)
    BY <1>2, <2>3
  <2> QED BY <1>1, <1>f, <2>3, <2>4, <2>5, FetchStep
<1>4. CASE SelectEvents(s)
  <2> DEFINE r0 == Answer(f, fetches[s].total, FirstPage(f), FALSE)
  <2>1. fetches[s].total \in Nat /\ fetches[s].total <= Matching(f)
    BY <1>0, <1>4, <1>f, FetchTyped DEF IInv, CountsHold, SelectEvents, Matching
  <2>2. ~r0.short /\ r0 \in Fetch /\ r0.step = "answered" /\ r0.level = f
    <3>1. (FirstPage(f) < Min2(PageSize, fetches[s].total)) = FALSE
      BY <1>0, <1>2, <2>1 DEF FirstPage, Min2
    <3>2. r0 = [step |-> "answered", level |-> f, short |-> FALSE, cut |-> FALSE]
      BY <3>1 DEF Answer
    <3> HIDE DEF r0
    <3> QED BY <3>2 DEF Fetch
  <2>3. PICK r \in Fetch : r = r0
    BY <2>2
  <2>4. fetches' = [fetches EXCEPT ![s] = r]
    BY <1>4, <1>f, <2>3 DEF SelectEvents, FirstPage, Matching
  <2> QED BY <1>1, <1>f, <2>2, <2>3, <2>4, FetchStep
<1>5. CASE RowsBreak(s)
  <2>1. PICK n \in 0..(FirstPage(f) - 1) :
            fetches' = [fetches EXCEPT ![s] = Answer(f, fetches[s].total, n, TRUE)]
    BY <1>5, <1>f DEF RowsBreak, FirstPage, Matching
  <2> DEFINE r0 == Answer(f, fetches[s].total, n, TRUE)
  <2>2. r0 \in Fetch /\ r0.step = "answered" /\ r0.level = f /\ r0.cut
    BY DEF Answer, Fetch
  <2>3. PICK r \in Fetch : r = r0
    BY <2>2
  <2>4. fetches' = [fetches EXCEPT ![s] = r]
    BY <2>1, <2>3
  <2> QED BY <1>1, <1>f, <2>2, <2>3, <2>4, FetchStep
<1> QED BY <1>3, <1>4, <1>5

\* A request to acknowledge that is done, or done with one id more.
LEMMA AckMoves ==
    ASSUME TypeOK, NEW c \in Caller, acks[c].step # "idle"
    PROVE  /\ [acks EXCEPT ![c].step = "ok"] \in [Caller -> Ack]
           /\ [acks EXCEPT ![c].next = @ + 1] \in [Caller -> Ack]
           /\ [acks[c] EXCEPT !.step = "ok"].ids = acks[c].ids
           /\ [acks[c] EXCEPT !.step = "ok"].next = acks[c].next
           /\ [acks[c] EXCEPT !.next = @ + 1].ids = acks[c].ids
           /\ [acks[c] EXCEPT !.next = @ + 1].next = acks[c].next + 1
           /\ [acks[c] EXCEPT !.next = @ + 1].step = acks[c].step
<1>1. acks[c] \in Ack /\ acks[c] # Idle
  BY DEF TypeOK, Idle
<1>2. [acks[c] EXCEPT !.step = "ok"] \in Ack /\ [acks[c] EXCEPT !.next = @ + 1] \in Ack
  BY <1>1 DEF Ack
<1> QED BY <1>1, <1>2 DEF TypeOK, Ack

\* The statements that write rows, and the other client.
LEMMA AcksKeepIInv ==
    ASSUME IInv, NEW c \in Caller,
           AckAllEvents(c) \/ AckEvent(c) \/ AckEventsReturn(c) \/ AckFails(c)
    PROVE  IInv'
<1>0. TypeOK /\ rows \in Seq(EventItem) /\ acks \in [Caller -> Ack] /\ acks[c] \in Ack
  BY DEF IInv, TypeOK
<1>1. UNCHANGED <<page, fetches>>
  BY DEF AckAllEvents, AckEvent, AckEventsReturn, AckFails
<1>2. acks[c].step # "idle"
  BY DEF AckAllEvents, AckEvent, AckEventsReturn, AckFails
<1>3. OneLevel'
  BY <1>1 DEF IInv, OneLevel, page, InFlight
<1>4. CASE AckAllEvents(c)
  <2>1. /\ rows' = [id \in DOMAIN rows |-> [rows[id] EXCEPT !.acked = TRUE]]
        /\ acks' = [acks EXCEPT ![c].step = "ok"]
    BY <1>4 DEF AckAllEvents
  <2>2. rows' = [id \in DOMAIN rows |->
                    IF id \in DOMAIN rows THEN [rows[id] EXCEPT !.acked = TRUE] ELSE rows[id]]
    BY <2>1
  <2>3. /\ rows' \in Seq(EventItem) /\ Len(rows') = Len(rows) /\ DOMAIN rows' = DOMAIN rows
        /\ \A id \in DOMAIN rows : rows'[id].level = rows[id].level /\ rows'[id].acked
    <3> HIDE <2>1
    <3> QED BY <1>0, <2>2, AckKeepsRows
  <2>4. acks' \in [Caller -> Ack] /\ acks'[c].ids = acks[c].ids /\ acks'[c].next = acks[c].next
        /\ \A b \in Caller \ {c} : acks'[b] = acks[b]
    BY <1>0, <1>2, <2>1, AckMoves
  <2>5. AcksCover'
    BY <1>2, <2>3, <2>4 DEF IInv, AcksCover
  <2> QED BY <1>0, <1>1, <1>3, <2>3, <2>4, <2>5, RowsGrow DEF IInv, TypeOK, page
<1>5. CASE AckEvent(c)
  <2>1. /\ rows' = [id \in DOMAIN rows |->
                        IF id \in {NextId(c)} THEN [rows[id] EXCEPT !.acked = TRUE] ELSE rows[id]]
        /\ acks' = [acks EXCEPT ![c].next = @ + 1]
        /\ acks[c].step = "running" /\ acks[c].next <= Len(acks[c].ids)
    BY <1>5 DEF AckEvent
  <2>2. PICK n : n = NextId(c)
    OBVIOUS
  <2>3. /\ rows' \in Seq(EventItem) /\ Len(rows') = Len(rows) /\ DOMAIN rows' = DOMAIN rows
        /\ \A id \in DOMAIN rows : /\ rows'[id].level = rows[id].level
                                   /\ rows[id].acked \/ id = n => rows'[id].acked
    <3>1. rows' = [id \in DOMAIN rows |->
                    IF id \in {n} THEN [rows[id] EXCEPT !.acked = TRUE] ELSE rows[id]]
      BY <2>1, <2>2
    <3> QED BY <1>0, <3>1, AckKeepsRows
  <2>4. /\ acks' \in [Caller -> Ack] /\ acks'[c].ids = acks[c].ids
        /\ acks'[c].next = acks[c].next + 1 /\ acks'[c].step = "running"
        /\ \A b \in Caller \ {c} : acks'[b] = acks[b]
    BY <1>0, <1>2, <2>1, AckMoves
  <2>5. AcksCover'
    <3> SUFFICES ASSUME NEW b \in Caller, acks'[b].step # "idle", NEW j \in DOMAIN acks'[b].ids
                 PROVE  /\ acks'[b].ids[j] \in DOMAIN rows'
                        /\ acks'[b].step = "ok" \/ j < acks'[b].next => rows'[acks'[b].ids[j]].acked
      BY DEF AcksCover
    <3>1. CASE b # c
      BY <1>0, <2>3, <2>4, <3>1 DEF IInv, AcksCover
    <3>2. CASE b = c
      <4>1. /\ j \in DOMAIN acks[c].ids /\ acks[c].ids[j] \in DOMAIN rows
            /\ j < acks[c].next => rows[acks[c].ids[j]].acked
        BY <1>2, <2>4, <3>2 DEF IInv, AcksCover
      <4>2. j < acks'[c].next => j < acks[c].next \/ j = acks[c].next
        BY <1>0, <1>2, <2>4, <4>1, IdsTyped
      <4> QED BY <2>2, <2>3, <2>4, <3>2, <4>1, <4>2 DEF NextId
    <3> QED BY <3>1, <3>2
  <2> QED BY <1>0, <1>1, <1>3, <2>3, <2>4, <2>5, RowsGrow DEF IInv, TypeOK, page
<1>6. CASE AckEventsReturn(c)
  <2>1. /\ acks' = [acks EXCEPT ![c].step = "ok"] /\ UNCHANGED <<rows, page, fetches>>
        /\ acks[c].step = "running" /\ acks[c].next > Len(acks[c].ids)
    BY <1>6 DEF AckEventsReturn
  <2>2. /\ acks' \in [Caller -> Ack] /\ acks'[c].ids = acks[c].ids
        /\ \A b \in Caller \ {c} : acks'[b] = acks[b]
    BY <1>0, <1>2, <2>1, AckMoves
  <2>3. \A j \in DOMAIN acks[c].ids : j < acks[c].next
    BY <1>0, <1>2, <2>1, IdsTyped
  <2>4. AcksCover'
    BY <1>2, <2>1, <2>2, <2>3 DEF IInv, AcksCover
  <2> QED BY <1>0, <1>3, <2>1, <2>2, <2>4, RowsGrow DEF IInv, TypeOK, page
<1>7. CASE AckFails(c)
  <2>1. acks' = [acks EXCEPT ![c] = Idle] /\ UNCHANGED <<rows, page, fetches>>
    BY <1>7 DEF AckFails
  <2>2. acks' \in [Caller -> Ack] /\ AcksCover'
    BY <1>0, <2>1 DEF IInv, AcksCover, Ack, Idle
  <2> QED BY <1>0, <1>3, <2>1, <2>2, RowsGrow DEF IInv, TypeOK, page
<1> QED BY <1>4, <1>5, <1>6, <1>7

\* A new row, and the acknowledgements that are begun or come back.
LEMMA InsertKeepsIInv ==
    ASSUME IInv, NEW l \in Level, InsertEvent(l)
    PROVE  IInv'
<1> DEFINE e == [level |-> l, acked |-> FALSE]
<1>1. /\ rows \in Seq(EventItem) /\ e \in EventItem /\ rows' = Append(rows, e)
      /\ UNCHANGED <<page, fetches, acks>> /\ Len(rows) < MaxEvents
  BY DEF InsertEvent, IInv, TypeOK, EventItem
<1>2. /\ rows' \in Seq(EventItem) /\ Len(rows') = Len(rows) + 1 /\ DOMAIN rows \subseteq DOMAIN rows'
      /\ \A id \in DOMAIN rows : rows'[id] = rows[id]
  <2> HIDE DEF e
  <2> QED BY <1>1, AppendProperties
<1>3. CountsHold' /\ PageIsFull' /\ AcksCover'
  BY <1>1, <1>2, RowsGrow
<1>4. TypeOK' /\ OneLevel'
  BY <1>1, <1>2, EventAssumption DEF IInv, TypeOK, OneLevel, page, InFlight
<1> QED BY <1>3, <1>4 DEF IInv

LEMMA RequestsKeepIInv ==
    ASSUME IInv, UNCHANGED <<rows, page, fetches>>, NEW c \in Caller, NEW a \in Ack,
           acks' = [acks EXCEPT ![c] = a],
           a.step # "idle" =>
                a.step = "running" /\ a.next = 1 /\ \A j \in DOMAIN a.ids : a.ids[j] \in DOMAIN rows
    PROVE  IInv'
<1>1. AcksCover'
  <2> SUFFICES ASSUME NEW b \in Caller, acks'[b].step # "idle", NEW j \in DOMAIN acks'[b].ids
               PROVE  /\ acks'[b].ids[j] \in DOMAIN rows'
                      /\ acks'[b].step = "ok" \/ j < acks'[b].next => rows'[acks'[b].ids[j]].acked
    BY DEF AcksCover
  <2>1. CASE b # c
    BY <2>1 DEF IInv, TypeOK, AcksCover
  <2>2. CASE b = c
    <3>1. acks'[b] = a /\ a # Idle
      BY <2>2 DEF IInv, TypeOK, Idle
    <3>2. DOMAIN a.ids \subseteq Nat \ {0}
      BY <3>1 DEF Ack
    <3> QED BY <3>1, <3>2
  <2> QED BY <2>1, <2>2
<1>2. CountsHold' /\ PageIsFull' /\ OneLevel'
  BY DEF IInv, CountsHold, PageIsFull, OneLevel, page, InFlight, Matching
<1>3. TypeOK'
  BY DEF IInv, TypeOK, page
<1> QED BY <1>1, <1>2, <1>3 DEF IInv

LEMMA CallersKeepIInv ==
    ASSUME IInv,
           \/ AckAll \/ ClientAcks(TRUE, <<>>) \/ ClientReceives
           \/ \E ids \in IdLists : ClientAcks(FALSE, ids)
    PROVE  IInv'
<1>0. TypeOK /\ selected \in Filter /\ Any \in Filter /\ <<>> \in Seq(Nat \ {0}) /\ Idle \in Ack
  BY EventAssumption DEF IInv, TypeOK, Ack
<1>1. \A ids \in Seq(Nat \ {0}), f \in Filter : AckEvents(ids, f) \in Ack
  BY DEF AckEvents, Ack
<1>2. CASE AckAll
  <2>1. PICK a \in Ack : a = AckEvents(<<>>, selected)
    BY <1>0, <1>1
  <2>2. /\ acks' = [acks EXCEPT !["page"] = a] /\ UNCHANGED <<rows, page, fetches>>
        /\ a.step = "running" /\ a.next = 1 /\ DOMAIN a.ids = {}
    BY <1>2, <2>1 DEF AckAll, AckEvents
  <2> QED BY <2>2, RequestsKeepIInv DEF Caller
<1>3. ASSUME NEW ids \in Seq(Nat \ {0}), NEW all \in BOOLEAN, ClientAcks(all, ids) PROVE IInv'
  <2>1. [AckEvents(ids, Any) EXCEPT !.all = all] =
            [step |-> "running", all |-> all, ids |-> ids, next |-> 1, level |-> Any]
    BY DEF AckEvents
  <2>2. PICK a \in Ack : a = [step |-> "running", all |-> all, ids |-> ids, next |-> 1, level |-> Any]
    <3>1. [step |-> "running", all |-> all, ids |-> ids, next |-> 1, level |-> Any] \in Ack
      BY <1>0 DEF Ack
    <3> QED BY <3>1
  <2>3. a.step = "running" /\ a.next = 1 /\ a.ids = ids
    BY <2>2
  <2>4. /\ acks' = [acks EXCEPT !["client"] = a] /\ UNCHANGED <<rows, page, fetches>>
        /\ \A j \in DOMAIN ids : ids[j] \in DOMAIN rows
    BY <1>3, <2>1, <2>2 DEF ClientAcks
  <2> QED BY <2>3, <2>4, RequestsKeepIInv DEF Caller
<1>4. CASE ClientReceives
  <2>1. acks' = [acks EXCEPT !["client"] = Idle] /\ UNCHANGED <<rows, page, fetches>>
    BY <1>4 DEF ClientReceives
  <2> QED BY <1>0, <2>1, RequestsKeepIInv DEF Caller, Idle
<1> QED BY <1>0, <1>2, <1>3, <1>4, EventAssumption

\* A fetch that begins: nothing else is in flight, and it is for the level that is
\* selected, or overlapped says so.
LEMMA FetchBegins ==
    ASSUME IInv, NEW f \in Filter, StartFetch(f), rows' = rows,
           selected' \in Filter, overlapped' \in BOOLEAN,
           acks' \in [Caller -> Ack], AcksCover',
           ~overlapped' => f = selected' /\ InFlight = {}
    PROVE  IInv'
<1>0. TypeOK
  BY DEF IInv
<1>1. PICK s \in Slot \ InFlight : fetches' = [fetches EXCEPT ![s] = [step |-> "sent", level |-> f]]
  BY <1>0, StartFetchType
<1>2. TypeOK'
  BY <1>0, StartFetchType DEF TypeOK
<1>3. fetches'[s].step = "sent" /\ fetches'[s].level = f /\ \A t \in Slot \ {s} : fetches'[t] = fetches[t]
  BY <1>0, <1>1 DEF TypeOK
<1>4. CountsHold' /\ PageIsFull'
  BY <1>3 DEF IInv, CountsHold, PageIsFull, Matching
<1>5. hook'.loading
  BY <1>0 DEF StartFetch, Fetching, TypeOK, Hook
<1>6. OneLevel'
  BY <1>3, <1>5 DEF OneLevel, InFlight
<1> QED BY <1>2, <1>4, <1>6 DEF IInv

LEMMA StartsKeepIInv ==
    ASSUME IInv, Refetch \/ \E f \in Filter : SelectLevel(f)
    PROVE  IInv'
<1>0. TypeOK
  BY DEF IInv
<1>1. ASSUME NEW f \in Filter, SelectLevel(f) PROVE IInv'
  <2>1. /\ StartFetch(f) /\ selected' = f /\ rows' = rows /\ acks' = acks
        /\ overlapped' = (overlapped /\ InFlight # {})
    BY <1>1 DEF SelectLevel
  <2>2. ~hook.loading
    BY <1>1 DEF SelectLevel, Shown, Table, Text
  <2>3. ~overlapped' => InFlight = {}
    BY <2>1, <2>2 DEF IInv, OneLevel
  <2>4. AcksCover'
    BY <2>1 DEF IInv, AcksCover
  <2>5. overlapped' \in BOOLEAN /\ acks' \in [Caller -> Ack]
    BY <1>0, <2>1 DEF TypeOK
  <2> QED BY <2>1, <2>3, <2>4, <2>5, FetchBegins
<1>2. CASE Refetch
  <2>1. PICK f \in Filter : f = acks["page"].level
    BY <1>0, <1>2, IdsTyped DEF Refetch, Caller
  <2>2. StartFetch(acks["page"].level) /\ overlapped' = (f # selected \/ InFlight # {})
    BY <1>2, <2>1 DEF Refetch
  <2>3. StartFetch(f)
    BY <2>1, <2>2 DEF StartFetch
  <2>4. acks' = [acks EXCEPT !["page"] = Idle] /\ rows' = rows /\ selected' = selected
    BY <1>2 DEF Refetch
  <2>5. AcksCover' /\ acks' \in [Caller -> Ack]
    BY <1>0, <2>4 DEF IInv, TypeOK, AcksCover, Ack, Idle
  <2>6. selected' \in Filter /\ overlapped' \in BOOLEAN /\ (~overlapped' => f = selected' /\ InFlight = {})
    BY <1>0, <2>2, <2>4 DEF TypeOK
  <2> QED BY <2>3, <2>4, <2>5, <2>6, FetchBegins
<1> QED BY <1>1, <1>2

\* What comes back to fetchData.
LEMMA ResponsesKeepIInv ==
    ASSUME IInv, NEW s \in Slot, ShowResponse(s) \/ ShowError(s)
    PROVE  IInv'
<1>0. TypeOK /\ Idle \in Fetch
  BY DEF IInv, Fetch
<1>1. /\ fetches' = [fetches EXCEPT ![s] = Idle] /\ fetches[s].step # "idle"
      /\ UNCHANGED <<rows, selected, overlapped, acks>>
  BY DEF ShowResponse, ShowError
<1>f. PICK f \in Filter : f = fetches[s].level
  BY <1>0, <1>1, FetchTyped
<1>2. hook' = Resolved(hook, f) \/ hook' = Rejected(hook)
  BY <1>f DEF ShowResponse, ShowError
<1>3. fetches'[s] = Idle /\ \A t \in Slot \ {s} : fetches'[t] = fetches[t]
  BY <1>0, <1>1 DEF TypeOK
<1>4. TypeOK'
  BY <1>0, <1>1, <1>2, HookType DEF TypeOK
<1>5. CountsHold' /\ PageIsFull' /\ AcksCover'
  BY <1>1, <1>3 DEF IInv, CountsHold, PageIsFull, AcksCover, Matching, Idle
<1>6. OneLevel'
  <2> SUFFICES ASSUME ~overlapped
               PROVE  /\ InFlight' = {}
                      /\ hook'.loading \/ hook'.error \/ hook'.data = {selected}
    BY <1>1 DEF OneLevel
  <2>1. f = selected /\ InFlight \subseteq {s}
    BY <1>1, <1>f DEF IInv, OneLevel, InFlight
  <2>2. InFlight' = {}
    BY <1>3, <2>1 DEF InFlight, Idle
  <2>3. hook'.loading \/ hook'.error \/ hook'.data = {selected}
    <3>1. CASE hook' = Resolved(hook, f)
      BY <2>1, <3>1 DEF Resolved
    <3>2. CASE hook' = Rejected(hook)
      BY <1>0, <3>2 DEF TypeOK, Hook, Rejected
    <3> QED BY <1>2, <3>1, <3>2
  <2> QED BY <2>2, <2>3
<1> QED BY <1>4, <1>5, <1>6 DEF IInv

LEMMA StepKeepsIInv == IInv /\ [Next]_vars => IInv'
<1> SUFFICES ASSUME IInv, [Next]_vars PROVE IInv'
  OBVIOUS
<1>1. CASE UNCHANGED vars
  BY <1>1 DEF vars, IInv, TypeOK, CountsHold, PageIsFull, AcksCover, OneLevel, InFlight, Matching
<1>2. CASE Next
  BY <1>2, InsertKeepsIInv, ServerKeepsIInv, AcksKeepIInv, CallersKeepIInv, StartsKeepIInv,
     ResponsesKeepIInv DEF Next
<1> QED BY <1>1, <1>2

LEMMA InductiveInvariant == Spec => []IInv
<1> QED BY InitIInv, StepKeepsIInv, PTL DEF Spec
-----------------------------------------------------------------------------
(* Theorems.                                                                *)

\* The rows, the requests and the cells of the page are of their types, and the table
\* never exceeds its bound (event_store.go, handler_event.go, EventLog.tsx).
THEOREM TypeCorrect == Spec => []TypeOK
BY InductiveInvariant, PTL DEF IInv

\* A response to the page has as many items as its total promises for a page, however
\* the statements of other requests come between its two, unless the connection broke
\* while its rows were read (event_store.go:55-80).
THEOREM FullPages == Spec => []PageIsFull
BY InductiveInvariant, PTL DEF IInv

\* The page shows the level that is selected whatever the order of clicks, requests
\* and responses, unless its last request failed or a refetch of an acknowledgement
\* ran beside or for another level (EventLog.tsx:12-24, useAPI.ts).
THEOREM SelectedShown == Spec => []ShowsSelectedLevel
<1>1. IInv => ShowsSelectedLevel
  BY DEF IInv, TypeOK, OneLevel, ShowsSelectedLevel, Shown, Table, Text, Page, Hook
<1> QED BY <1>1, InductiveInvariant, PTL

\* What an acknowledgement that succeeded named is acknowledged, and stays so, beside
\* any other client (event_store.go:84-91, handler_event.go:58-68).
THEOREM Acknowledged == Spec => []AckedMeansAcked
<1>1. IInv => AckedMeansAcked
  BY DEF IInv, AcksCover, AckedMeansAcked
<1> QED BY <1>1, InductiveInvariant, PTL

\* An acknowledged event stays so, and becomes so only while a request that names it, or
\* all, runs (event_store.go:84-102).
THEOREM OnlyRequested == Spec => OnlyRequestedAreAcked
<1> DEFINE Requested(id) ==
               \E c \in Caller : /\ acks[c].step = "running"
                                 /\ acks[c].all \/ \E k \in DOMAIN acks[c].ids : acks[c].ids[k] = id
           Step == \A id \in DOMAIN rows :
               /\ rows[id].acked => rows'[id].acked
               /\ ~rows[id].acked /\ rows'[id].acked => Requested(id)
<1>1. IInv /\ [Next]_vars => [Step]_vars
  <2> SUFFICES ASSUME IInv, Next PROVE Step
    OBVIOUS
  <2>0. TypeOK /\ rows \in Seq(EventItem)
    BY DEF IInv, TypeOK
  <2>1. CASE rows' = rows
    BY <2>1
  <2>2. ASSUME NEW l \in Level, InsertEvent(l) PROVE Step
    <3>1. PICK e \in EventItem : rows' = Append(rows, e)
      BY <2>2 DEF InsertEvent, EventItem
    <3>2. \A id \in DOMAIN rows : rows'[id] = rows[id]
      BY <2>0, <3>1, AppendProperties
    <3> QED BY <3>2
  <2>3. ASSUME NEW c \in Caller, AckAllEvents(c) PROVE Step
    <3>1. rows' = [id \in DOMAIN rows |-> [rows[id] EXCEPT !.acked = TRUE]]
      BY <2>3 DEF AckAllEvents
    <3>2. rows' = [id \in DOMAIN rows |->
                      IF id \in DOMAIN rows THEN [rows[id] EXCEPT !.acked = TRUE] ELSE rows[id]]
      BY <3>1
    <3>3. \A id \in DOMAIN rows : rows'[id].acked
      <4> HIDE <3>1
      <4> QED BY <2>0, <3>2, AckKeepsRows
    <3> QED BY <2>3, <3>3 DEF AckAllEvents
  <2>4. ASSUME NEW c \in Caller, AckEvent(c) PROVE Step
    <3>1. acks[c].step = "running" /\ acks[c].next \in DOMAIN acks[c].ids
      BY <2>0, <2>4, IdsTyped DEF AckEvent
    <3>2. PICK n : n = acks[c].ids[acks[c].next]
      OBVIOUS
    <3>3. rows' = [id \in DOMAIN rows |->
                      IF id \in {n} THEN [rows[id] EXCEPT !.acked = TRUE] ELSE rows[id]]
      BY <2>4, <3>2 DEF AckEvent, NextId
    <3>4. \A id \in DOMAIN rows : /\ rows[id].acked => rows'[id].acked
                                  /\ rows'[id].acked => rows[id].acked \/ id = n
      BY <2>0, <3>3, AckKeepsRows
    <3> QED BY <3>1, <3>2, <3>4
  <2>5. CASE UNCHANGED rows
    BY <2>5
  <2> QED BY <2>2, <2>3, <2>4, <2>5 DEF Next, CountEvents, SelectEvents, RowsBreak, AckEventsReturn,
          AckFails, SelectLevel, AckAll, Refetch, ShowResponse, ShowError, ClientAcks, ClientReceives
<1>2. [Step]_vars => [\A id \in DOMAIN rows :
        /\ rows[id].acked => rows'[id].acked
        /\ ~rows[id].acked /\ rows'[id].acked =>
            \E c \in Caller : /\ acks[c].step = "running"
                              /\ acks[c].all \/ \E k \in DOMAIN acks[c].ids : acks[c].ids[k] = id]_vars
  OBVIOUS
<1> QED BY <1>1, InductiveInvariant, PTL DEF Spec, OnlyRequestedAreAcked
=============================================================================
