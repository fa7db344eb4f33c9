------------------------------ MODULE EventLog ------------------------------
(***************************************************************************)
(* The events: the table and its statements (internal/store/event_store.go),*)
(* the two handlers (internal/api/handler_event.go), the page that shows    *)
(* them (web/src/pages/EventLog.tsx, through UseAPI), and one other client  *)
(* of the API that acknowledges events by id.                               *)
(*                                                                          *)
(* A step is one SQL statement, one response reaching the page, or one      *)
(* click.  Statements of concurrent requests interleave: no handler opens a *)
(* transaction.  Responses reach the page in any order.  React runs the     *)
(* effect of a click before the next event, so a click and the request it   *)
(* starts are one step.  Expired tokens are left to the session.            *)
(***************************************************************************)
EXTENDS Integers, Sequences, FiniteSets, UseAPI

CONSTANTS
    Level,             \* the levels of events
    Any,               \* the filter '' : every level
    Filter,            \* the filters clicked: '' and levels
    PageSize,          \* f.Size: 20 in the code, which is what the page gets
    IdLists,           \* what the other client acknowledges: sequences of ids
    MaxInFlight,       \* bound: requests of the page in flight
    MaxEvents          \* bound: rows

ASSUME EventAssumption ==
    /\ Any \notin Level /\ Any \in Filter /\ Filter \subseteq Level \cup {Any}
    /\ PageSize \in Nat \ {0} /\ MaxEvents \in Nat
    /\ \A ids \in IdLists : ids \in Seq(Nat \ {0})
    /\ MaxInFlight \in Nat \ {0}

Caller == {"page", "client"}
Slot   == 1..MaxInFlight

VARIABLES
    rows,              \* the table, in the order of id and created_at
    selected,          \* the page's level
    hook,              \* the page's useAPI; of a response its level
    fetches,           \* the GET /events requests of the page
    acks,              \* a POST /events/ack request of each caller
    overlapped         \* history: a refetch ran beside, or for, another level

vars == <<rows, selected, hook, fetches, acks, overlapped>>
page == <<selected, hook, overlapped>>
-----------------------------------------------------------------------------
Idle == [step |-> "idle"]

Min2(a, b) == IF a < b THEN a ELSE b

\* How many rows a filter selects.
Matching(f) == Cardinality({id \in DOMAIN rows : f = Any \/ rows[id].level = f})

\* Fault variant: pages are numbered from 0, and the first one is skipped.
FirstPageSkipped(f) == Min2(PageSize, IF Matching(f) > PageSize THEN Matching(f) - PageSize ELSE 0)

\* LIMIT size OFFSET 0: the page sends neither page nor size.  Of the items only their
\* number counts here.
FirstPage(f) == Min2(PageSize, Matching(f))

InFlight == {s \in Slot : fetches[s].step # "idle"}

\* A response to the page.  short says that it has fewer items than the total promises
\* for a page; cut is history, and says that the connection to the database broke while
\* they were read.
Answer(f, total, items, cut) ==
    [step |-> "answered", level |-> f, short |-> items < Min2(PageSize, total), cut |-> cut]

EventItem == [level : Level, acked : BOOLEAN]

Fetch ==
    {Idle} \cup [step : {"sent"}, level : Filter]
           \cup [step : {"counted"}, level : Filter, total : Nat]
           \cup [step : {"answered"}, level : Filter, short : BOOLEAN, cut : BOOLEAN]

Ack ==
    {Idle} \cup [step : {"running", "ok"}, all : BOOLEAN, ids : Seq(Nat \ {0}),
                 next : Nat \ {0}, level : Filter]

TypeOK ==
    /\ rows \in Seq(EventItem) /\ Len(rows) <= MaxEvents
    /\ selected \in Filter /\ hook \in Hook(Filter) /\ overlapped \in BOOLEAN
    /\ fetches \in [Slot -> Fetch] /\ acks \in [Caller -> Ack]

\* An open page has just mounted: its effect has sent the first request.
Init ==
    /\ rows = <<>> /\ selected = Any /\ hook = NewHook
    /\ fetches = [s \in Slot |-> IF s = 1 THEN [step |-> "sent", level |-> Any] ELSE Idle]
    /\ acks = [c \in Caller |-> Idle]
    /\ overlapped = FALSE
-----------------------------------------------------------------------------
(* The store and the handlers.                                              *)

InsertEvent(l) ==
    /\ Len(rows) < MaxEvents
    /\ rows' = Append(rows, [level |-> l, acked |-> FALSE])
    /\ UNCHANGED <<page, fetches, acks>>

\* ListEvents: SELECT COUNT, then the rows.
CountEvents(s) ==
    /\ fetches[s].step = "sent"
    /\ LET f == fetches[s].level IN
        fetches' = [fetches EXCEPT ![s] =
            [step |-> "counted", level |-> f, total |-> Matching(f)]]
    /\ UNCHANGED <<rows, page, acks>>

SelectEvents(s) ==
    /\ fetches[s].step = "counted"
    /\ LET f == fetches[s].level IN
        fetches' = [fetches EXCEPT ![s] = Answer(f, fetches[s].total, FirstPage(f), FALSE)]
    /\ UNCHANGED <<rows, page, acks>>

\* The connection breaks between two rows: rows.Next ends the loop, rows.Err is not
\* asked, and the rows read so far are the answer.
RowsBreak(s) ==
    /\ fetches[s].step = "counted"
    /\ LET f == fetches[s].level IN
        \E n \in 0..(FirstPage(f) - 1) :
            fetches' = [fetches EXCEPT ![s] = Answer(f, fetches[s].total, n, TRUE)]
    /\ UNCHANGED <<rows, page, acks>>

\* handleAckEvents with all: AckAllEvents, one statement.
AckAllEvents(c) ==
    /\ acks[c].step = "running" /\ acks[c].all
    /\ rows' = [id \in DOMAIN rows |-> [rows[id] EXCEPT !.acked = TRUE]]
    /\ acks' = [acks EXCEPT ![c].step = "ok"]
    /\ UNCHANGED <<page, fetches>>

\* The id that AckEvents is at.
NextId(c) == acks[c].ids[acks[c].next]

\* One UPDATE of AckEvents; an id that no row has changes nothing and is no error.
AckEvent(c) ==
    /\ acks[c].step = "running" /\ ~acks[c].all /\ acks[c].next <= Len(acks[c].ids)
    /\ rows' = [id \in DOMAIN rows |->
                    IF id = NextId(c) THEN [rows[id] EXCEPT !.acked = TRUE] ELSE rows[id]]
    /\ acks' = [acks EXCEPT ![c].next = @ + 1]
    /\ UNCHANGED <<page, fetches>>

\* Fault variant: no ids means all of them.
AckEventsReturnAll(c) ==
    /\ acks[c].step = "running" /\ ~acks[c].all /\ acks[c].next > Len(acks[c].ids)
    /\ rows' = IF acks[c].ids = <<>> THEN [id \in DOMAIN rows |-> [rows[id] EXCEPT !.acked = TRUE]]
               ELSE rows
    /\ acks' = [acks EXCEPT ![c].step = "ok"]
    /\ UNCHANGED <<page, fetches>>

AckEventsReturn(c) ==
    /\ acks[c].step = "running" /\ ~acks[c].all /\ acks[c].next > Len(acks[c].ids)
    /\ acks' = [acks EXCEPT ![c].step = "ok"]
    /\ UNCHANGED <<rows, page, fetches>>

\* Fault variant: a failed UPDATE is not reported.
AckFailsSilently(c) ==
    /\ acks[c].step = "running"
    /\ acks' = [acks EXCEPT ![c].step = "ok"]
    /\ UNCHANGED <<rows, page, fetches>>

\* A statement fails, or the answer is lost: the rows before stay acknowledged.  On
\* the page the await throws, and nobody catches it: there is no refetch.
AckFails(c) ==
    /\ acks[c].step # "idle"
    /\ acks' = [acks EXCEPT ![c] = Idle]
    /\ UNCHANGED <<rows, page, fetches>>
-----------------------------------------------------------------------------
(* The page, and the other client.                                          *)

\* The filters, the button and the table.
Shown == Table(hook)

\* fetchData for level f.
StartFetch(f) ==
    /\ InFlight # Slot
    /\ LET s == CHOOSE k \in Slot \ InFlight : TRUE
       IN  fetches' = [fetches EXCEPT ![s] = [step |-> "sent", level |-> f]]
    /\ hook' = Fetching(hook)

\* Fault variant: the filters can be clicked while the page loads.
SelectLevelAnytime(f) ==
    /\ f # selected
    /\ selected' = f /\ StartFetch(f)
    /\ overlapped' = (overlapped /\ InFlight # {})
    /\ UNCHANGED <<rows, acks>>

\* A click on a filter: a loading page shows none.
SelectLevel(f) ==
    /\ Shown.view = "page" /\ f # selected
    /\ selected' = f /\ StartFetch(f)
    /\ overlapped' = (overlapped /\ InFlight # {})
    /\ UNCHANGED <<rows, acks>>

\* POST /events/ack: the page's client never says all.  level is that of the refetch.
AckEvents(ids, f) ==
    [step |-> "running", all |-> FALSE, ids |-> ids, next |-> 1, level |-> f]

\* handleAckAll until its await.  The closure holds refetch for the level of now.
\* Bound: one such request at a time.
AckAll ==
    /\ Shown.view = "page" /\ acks["page"].step = "idle"
    /\ acks' = [acks EXCEPT !["page"] = AckEvents(<<>>, selected)]
    /\ UNCHANGED <<rows, page, fetches>>

\* handleAckAll after its await: refetch, for the level of the click.
Refetch ==
    /\ acks["page"].step = "ok"
    /\ LET f == acks["page"].level IN
        /\ StartFetch(f)
        /\ overlapped' = (f # selected \/ InFlight # {})
    /\ acks' = [acks EXCEPT !["page"] = Idle]
    /\ UNCHANGED <<rows, selected>>

\* Fault variant: the envelope of the response is not taken off.
ShowResponseWrapped(s) ==
    /\ fetches[s].step = "answered"
    /\ hook' = Resolved(hook, fetches[s])
    /\ fetches' = [fetches EXCEPT ![s] = Idle]
    /\ UNCHANGED <<rows, selected, overlapped, acks>>

\* The response reaches fetchData.
ShowResponse(s) ==
    /\ fetches[s].step = "answered"
    /\ hook' = Resolved(hook, fetches[s].level)
    /\ fetches' = [fetches EXCEPT ![s] = Idle]
    /\ UNCHANGED <<rows, selected, overlapped, acks>>

\* A statement fails, or the connection.
ShowError(s) ==
    /\ fetches[s].step # "idle"
    /\ hook' = Rejected(hook)
    /\ fetches' = [fetches EXCEPT ![s] = Idle]
    /\ UNCHANGED <<rows, selected, overlapped, acks>>

\* Somebody else acknowledges events of the table: all, or those of a list.
ClientAcks(all, ids) ==
    /\ acks["client"].step = "idle"
    /\ \A k \in DOMAIN ids : ids[k] \in DOMAIN rows
    /\ acks' = [acks EXCEPT !["client"] = [AckEvents(ids, Any) EXCEPT !.all = all]]
    /\ UNCHANGED <<rows, page, fetches>>

ClientReceives ==
    /\ acks["client"].step = "ok"
    /\ acks' = [acks EXCEPT !["client"] = Idle]
    /\ UNCHANGED <<rows, page, fetches>>

Next ==
    \/ \E l \in Level : InsertEvent(l)
    \/ \E s \in Slot : CountEvents(s) \/ SelectEvents(s) \/ RowsBreak(s)
    \/ \E c \in Caller : AckAllEvents(c) \/ AckEvent(c) \/ AckEventsReturn(c) \/ AckFails(c)
    \/ \E f \in Filter : SelectLevel(f)
    \/ AckAll \/ Refetch
    \/ \E s \in Slot : ShowResponse(s) \/ ShowError(s)
    \/ \E ids \in IdLists : ClientAcks(FALSE, ids)
    \/ ClientAcks(TRUE, <<>>) \/ ClientReceives

Spec == Init /\ [][Next]_vars
-----------------------------------------------------------------------------
(* Properties.                                                              *)

\* A response has as many items as its total promises for a page, unless the
\* connection broke: between the count and the rows events can only be added
\* (event_store.go:55-80).
PageIsFull == \A s \in Slot : fetches[s].step = "answered" /\ ~fetches[s].cut => ~fetches[s].short

\* The page shows rows, and of the level that is selected, unless its last request
\* failed or the refetch of an acknowledgement, which is for the level of its click,
\* came in between: a page that loads takes no clicks (EventLog.tsx:12-24).
ShowsSelectedLevel ==
    ~hook.error /\ ~overlapped => Shown.view = "loading" \/ Shown.data = {selected}

\* An acknowledgement that succeeds covers every row it named; one that fails
\* halfway is never reported as done
\* (event_store.go:84-91, handler_event.go:58-68).
AckedMeansAcked ==
    \A c \in Caller : acks[c].step = "ok" =>
        \A k \in DOMAIN acks[c].ids : rows[acks[c].ids[k]].acked

\* An event is acknowledged only while a request that names it, or all, runs; and it
\* stays so.
OnlyRequestedAreAcked ==
    [][\A id \in DOMAIN rows :
        /\ rows[id].acked => rows'[id].acked
        /\ ~rows[id].acked /\ rows'[id].acked =>
            \E c \in Caller : /\ acks[c].step = "running"
                              /\ acks[c].all \/ \E k \in DOMAIN acks[c].ids : acks[c].ids[k] = id]_vars

=============================================================================
