-------------------------------- MODULE Pages --------------------------------
(***************************************************************************)
(* The signed-in area of the console in one tab: Dashboard, StreamList,     *)
(* StreamDetail and EngineConfig (web/src/pages), which read through        *)
(* UseAPI, and the stream list of the server, which other users of          *)
(* web/src/api/streams.ts change meanwhile.  The event page is EventLog's   *)
(* subject, the token Console's.                                            *)
(*                                                                          *)
(* A step is a click, a request served, or a response reaching the page.    *)
(* Requests are served and answered in any order.  React runs the effect    *)
(* of a click before the next event, so both are one step.  The server's    *)
(* list is what StreamConfigStore implements; each handler holds Server.mu. *)
(***************************************************************************)
EXTENDS Integers, Sequences, UseAPI

CONSTANTS
    StreamID,          \* ids that streams have, or had
    All,               \* the filter '' : every status
    Status,            \* the filters clicked: '' and statuses
    Boot,              \* the list when the tab is opened
    MaxInFlight,       \* bound: GET requests of the tab in flight
    MaxEdits           \* bound: changes of the list by others

Entry == [id : StreamID]

ASSUME PagesAssumption ==
    /\ {"/", "/streams", "/config", "elsewhere"} \cap StreamID = {}
    /\ All \in Status /\ Boot \in Seq(Entry)
    /\ MaxInFlight \in Nat \ {0} /\ MaxEdits \in Nat

Slot  == 1..MaxInFlight
Route == {"/", "/streams", "/config", "elsewhere"} \cup StreamID

VARIABLES
    list,              \* cfg.Streams
    edits,             \* changes of it so far
    route,             \* where the tab is: a page, an id for its detail page, or elsewhere
    status,            \* StreamList's filter
    hook,              \* the page's useAPI
    fetches,           \* the GET requests of the tab
    act,               \* the POST request of StreamList's handleAction
    acted,             \* history: the edits there were when the server did the last action
    untold,            \* history: the list was left, or the answer lost; no fetch since
    overlapped         \* history: the last fetch ran beside another, or for another path

tabVars == <<route, status, hook, fetches, act, acted, untold, overlapped>>
vars == <<list, edits, tabVars>>

Server == INSTANCE StreamList
-----------------------------------------------------------------------------
\* What useAPI is called with, for the page and filter of now.
PathOf(r, f) == [page |-> r, filter |-> f]
Path == PathOf(route, status)

\* A request, or none.  live says that the page that sent it is still mounted.
Idle == [step |-> "idle", live |-> FALSE]
Request(p, live) == [step |-> "sent", path |-> p, live |-> live]
Live == {s \in Slot : fetches[s].live}

\* A response: its path, the edits there were, and the ids of its items.
Response == [path : [page : Route, filter : Status], at : 0..MaxEdits, ids : SUBSET StreamID]

Started(fs, r) == [fs EXCEPT ![CHOOSE s \in Slot : fs[s] = Idle] = r]
SlotFree == \E s \in Slot : fetches[s] = Idle

Asked == [page : Route \ {"elsewhere"}, filter : Status]

Fetch ==
    {Idle} \cup [step : {"sent", "notFound"}, path : Asked, live : BOOLEAN]
           \cup [step : {"answered"}, path : Asked, live : BOOLEAN, body : Response]

Action ==
    LET Clicked == [page : {"/streams"}, filter : Status] IN
    {Idle} \cup [step : {"sent", "done"}, path : Clicked, live : BOOLEAN]

TypeOK ==
    /\ list \in Seq(Entry) /\ edits \in 0..MaxEdits
    /\ route \in Route /\ status \in Status
    /\ hook \in Hook(Response)
    /\ fetches \in [Slot -> Fetch] /\ act \in Action
    /\ acted \in 0..edits /\ untold \in BOOLEAN /\ overlapped \in BOOLEAN

\* The tab opens with the dashboard, whose effect has sent its request.
Init ==
    /\ list = Boot /\ edits = 0
    /\ route = "/" /\ status = All /\ hook = NewHook
    /\ fetches = Started([s \in Slot |-> Idle], Request(PathOf("/", All), TRUE))
    /\ act = Idle /\ acted = 0 /\ untold = FALSE /\ overlapped = FALSE
-----------------------------------------------------------------------------
(* What the pages render.                                                   *)

\* The summary.
Dashboard(h) == PageOrFailure(h)

\* The filter bar and the table, a row for each item.
StreamTable(h) == Table(h)

\* One stream, or that there is none.
StreamDetail(h) == PageOrFailure(h)

\* A form; the answer's fields have other names than those it looks for, so its
\* inputs are blank.
EngineConfig(h) == IF h.loading THEN Text("loading") ELSE Page({})

Shown ==
    CASE route = "/"        -> Dashboard(hook)
      [] route = "/streams" -> StreamTable(hook)
      [] route = "/config"  -> EngineConfig(hook)
      [] route \in StreamID -> StreamDetail(hook)
      [] OTHER              -> Page({})

\* The streams with a row in the table.
Rows == UNION {d.ids : d \in IF route = "/streams" THEN Shown.data ELSE {}}

\* The button of a row.
Offered(s) == IF s \in {"stopped", "error"} THEN "start" ELSE "stop"
-----------------------------------------------------------------------------
(* The other users, through the handlers of StreamConfigStore.              *)

Edit == edits < MaxEdits /\ edits' = edits + 1 /\ UNCHANGED tabVars

CreateStream(e) == Edit /\ Server!Extend(<<e>>)
UpdateStream(e) == Edit /\ Server!Replace(e)
DeleteStream(id) == Edit /\ Server!Remove(id)
-----------------------------------------------------------------------------
(* The server answers.                                                      *)

\* listStreams does not read the query, and says "stopped" of every stream.
ListedAs(id) == "stopped"

Body(p, ids) == [path |-> p, at |-> edits, ids |-> ids]
Listed == {list[i].id : i \in DOMAIN list}

\* The summary and the configuration are there always, a stream only if it is listed.
Serve(s) ==
    /\ fetches[s].step = "sent"
    /\ LET p == fetches[s].path
           ids == IF p.page = "/streams" THEN Listed ELSE {p.page} \cap Listed
           answer == IF p.page \in StreamID /\ ids = {}
                     THEN [step |-> "notFound", path |-> p, live |-> fetches[s].live]
                     ELSE [step |-> "answered", path |-> p, live |-> fetches[s].live,
                           body |-> Body(p, ids)]
       IN  fetches' = [fetches EXCEPT ![s] = answer]
    /\ UNCHANGED <<list, edits, route, status, hook, act, acted, untold, overlapped>>

\* handleStreamAction logs, and changes nothing.
ServeAction ==
    /\ act.step = "sent" /\ act' = [act EXCEPT !.step = "done"]
    /\ acted' = edits /\ untold' = ~act.live
    /\ UNCHANGED <<list, edits, route, status, hook, fetches, overlapped>>
-----------------------------------------------------------------------------
(* The page.                                                                *)

Unmounted(fs) == [s \in Slot |-> [fs[s] EXCEPT !.live = FALSE]]

\* A link of the sidebar, a row or the detail page, or the history, which may hold any
\* stream there was, leads to another page: its component is mounted.  What the old one
\* waits for will find it gone.
Mount(r) ==
    /\ r # "elsewhere" /\ r # route /\ ~(r \in StreamID /\ route \in StreamID) /\ SlotFree
    /\ route' = r /\ status' = All /\ hook' = NewHook
    /\ fetches' = Started(Unmounted(fetches), Request(PathOf(r, All), TRUE))
    /\ act' = [act EXCEPT !.live = FALSE]
    /\ untold' = FALSE /\ overlapped' = FALSE
    /\ UNCHANGED <<list, edits, acted>>

\* To the event page or out of the signed-in area.
Leave ==
    /\ route # "elsewhere"
    /\ route' = "elsewhere" /\ status' = All /\ hook' = NewHook
    /\ fetches' = Unmounted(fetches) /\ act' = [act EXCEPT !.live = FALSE]
    /\ untold' = FALSE /\ overlapped' = FALSE
    /\ UNCHANGED <<list, edits, acted>>

\* fetchData of a mounted page, which asks for path p and may not be at p.
Refresh(p, atPath) ==
    /\ SlotFree
    /\ hook' = Fetching(hook)
    /\ fetches' = Started(fetches, Request(p, TRUE))
    /\ untold' = FALSE /\ overlapped' = (Live # {} \/ ~atPath)

\* Fault variant: the effect does not depend on the path.
JumpKeepsData(id) ==
    /\ route \in StreamID /\ id \in StreamID \ {route}
    /\ route' = id
    /\ UNCHANGED <<list, edits, status, hook, fetches, act, acted, untold, overlapped>>

\* The history leads from one stream to another: StreamDetail stays mounted, with
\* the data it has, and its path changes.
Jump(id) ==
    /\ route \in StreamID /\ id \in StreamID \ {route}
    /\ route' = id /\ Refresh(PathOf(id, All), TRUE)
    /\ UNCHANGED <<list, edits, status, act, acted>>

\* A click on a filter: a loading page shows none.
SelectStatus(f) ==
    /\ route = "/streams" /\ Shown.view = "page" /\ f # status
    /\ status' = f /\ Refresh(PathOf(route, f), TRUE)
    /\ UNCHANGED <<list, edits, route, act, acted>>

\* handleAction until its await, for a row that offers it.  The closure holds refetch
\* for the path of now.  Bound: one such request at a time.
Act(id, action) ==
    /\ id \in Rows /\ action = Offered(ListedAs(id)) /\ act = Idle
    /\ act' = Request(Path, TRUE)
    /\ UNCHANGED <<list, edits, route, status, hook, fetches, acted, untold, overlapped>>

\* Fault variant: the answer is not followed by a refetch.
RefetchForgotten ==
    /\ act.step = "done" /\ act.live
    /\ act' = Idle
    /\ UNCHANGED <<list, edits, route, status, hook, fetches, acted, untold, overlapped>>

\* handleAction after its await: refetch, for the path of the click.
Refetch ==
    /\ act.step = "done" /\ act.live
    /\ act' = Idle /\ Refresh(act.path, act.path = Path)
    /\ UNCHANGED <<list, edits, route, status, acted>>

\* The same after the list was left: the request is sent, for nobody.
RefetchUnmounted ==
    /\ act.step = "done" /\ ~act.live /\ SlotFree
    /\ act' = Idle /\ fetches' = Started(fetches, Request(act.path, FALSE))
    /\ UNCHANGED <<list, edits, route, status, hook, acted, untold, overlapped>>

\* The request, or the answer of a server that has done it, is lost.  The await throws,
\* nobody catches it, and there is no refetch.
ActionFails ==
    /\ act # Idle /\ act' = Idle
    /\ untold' = (untold \/ (act.step = "done" /\ act.live))
    /\ UNCHANGED <<list, edits, route, status, hook, fetches, acted, overlapped>>

\* A request ends: its page, if it is still mounted, takes the outcome.
Settle(s, outcome) ==
    /\ hook' = IF fetches[s].live THEN outcome ELSE hook
    /\ fetches' = [fetches EXCEPT ![s] = Idle]
    /\ UNCHANGED <<list, edits, route, status, act, acted, untold, overlapped>>

\* Fault variant: the envelope of the response is not taken off.
ReceiveWrapped(s) == fetches[s].step = "answered" /\ Settle(s, Resolved(hook, fetches[s]))

Receive(s) == fetches[s].step = "answered" /\ Settle(s, Resolved(hook, fetches[s].body))

\* The envelope's code is 404, and request throws.
ReceiveNotFound(s) == fetches[s].step = "notFound" /\ Settle(s, Rejected(hook))

\* The connection fails, and fetch throws.
Fail(s) == fetches[s] # Idle /\ Settle(s, Rejected(hook))

Next ==
    \/ \E e \in Entry : CreateStream(e) \/ UpdateStream(e)
    \/ \E id \in StreamID : DeleteStream(id) \/ Jump(id)
    \/ \E s \in Slot : Serve(s) \/ Receive(s) \/ ReceiveNotFound(s) \/ Fail(s)
    \/ \E r \in Route : Mount(r)
    \/ \E f \in Status : SelectStatus(f)
    \/ \E id \in StreamID, action \in {"start", "stop"} : Act(id, action)
    \/ Leave \/ ServeAction \/ Refetch \/ RefetchUnmounted \/ ActionFails

Spec == Init /\ [][Next]_vars

\* The server answers every request or the browser gives up on it, and the browser
\* resumes the code that waits for it.
FairSpec ==
    /\ Spec
    /\ \A s \in Slot : WF_vars(Serve(s)) /\ WF_vars(Receive(s)) /\ WF_vars(ReceiveNotFound(s))
-----------------------------------------------------------------------------
(* Properties.                                                              *)

\* What a page shows is the answer to what its address and filter ask for, and it says
\* that it has nothing only when its request failed, unless requests of it overlapped:
\* a click is taken only when nothing is loading, a mount makes earlier requests void,
\* and a change of path fetches again (useAPI.ts:9-24, StreamList.tsx:13-25,
\* StreamDetail.tsx:7-11).
ShowsWhatIsAsked ==
    ~hook.error /\ ~overlapped =>
        \/ Shown.view = "loading"
        \/ Shown.view = "page" /\ \A d \in Shown.data : d.path = Path

\* Once the server has done an action, what a page at rest shows is not older than it:
\* the refetch is sent after the answer, whatever others change meanwhile
\* (StreamList.tsx:20-23).  There are two exceptions, until the next fetch: the list was
\* left before the server did the action, so that the refetch is for nobody, though the
\* list may be mounted again; and the answer was lost on its way back.
ActionIsShown ==
    Live = {} /\ act.step # "done" /\ ~untold /\ ~hook.error /\ ~overlapped =>
        \A d \in hook.data : d.at >= acted

\* No page loads for ever: it comes back or is left, whatever fails or overlaps
\* (useAPI.ts:15-19).
LoadingEnds == \A r \in Route \ {"elsewhere"} :
    (route = r /\ hook.loading) ~> (route # r \/ ~hook.loading)

=============================================================================
