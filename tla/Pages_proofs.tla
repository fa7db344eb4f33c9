---------------------------- MODULE Pages_proofs ----------------------------
(***************************************************************************)
(* Proofs about Pages, for any streams, filters, list at the start and      *)
(* bounds: a page shows the answer to what it asks for, and a list at rest  *)
(* is not older than the last action.                                       *)
(***************************************************************************)
EXTENDS Pages, SequenceTheorems, TLAPS
-----------------------------------------------------------------------------
(* The invariant.                                                           *)

\* Only the stream list has a filter.
FilterIsLists == route # "/streams" => status = All

\* An answer is that to its request.
BodiesMatch == \A s \in Slot :
    fetches[s].step = "answered" => fetches[s].body.path = fetches[s].path

\* Unless requests overlapped, one at most is awaited by the page, for its path, and it
\* loads until the answer comes; then it shows that, or failed.
OneView == ~overlapped =>
    /\ \A s, t \in Live : s = t /\ fetches[s].path = Path
    /\ Live # {} => hook.loading
    /\ hook.loading \/ hook.error \/ \E d \in Response : hook.data = {d} /\ d.path = Path

\* Unless requests overlapped, or the page is still to refetch or never will, no answer is
\* from before the last action was done: not the one on its way, and not the one shown.
Fresh == ~overlapped /\ ~untold /\ ~(act.step = "done" /\ act.live) =>
    /\ \A s \in Live : fetches[s].step = "answered" => fetches[s].body.at >= acted
    /\ Live = {} => hook.error \/ \A d \in hook.data : d.at >= acted

IInv == TypeOK /\ FilterIsLists /\ BodiesMatch /\ OneView /\ Fresh
-----------------------------------------------------------------------------
(* Lemmas about the operators.                                              *)

LEMMA IdleRecord ==
    /\ Idle.step = "idle" /\ ~Idle.live /\ Idle.live = FALSE
    /\ [Idle EXCEPT !.live = FALSE] = Idle /\ Idle \in Fetch /\ Idle \in Action
<1>1. Idle.step = "idle" /\ ~Idle.live /\ Idle.live = FALSE
  BY DEF Idle
<1>2. [Idle EXCEPT !.live = FALSE] = Idle
  <2>1. \A v : [[step |-> "idle", live |-> v] EXCEPT !.live = v] = [step |-> "idle", live |-> v]
    OBVIOUS
  <2> QED BY <2>1 DEF Idle
<1> QED BY <1>1, <1>2 DEF Fetch, Action

LEMMA FetchTyped ==
    ASSUME NEW r \in Fetch, r # Idle
    PROVE  /\ r.step \in {"sent", "answered", "notFound"} /\ r.path \in Asked /\ r.live \in BOOLEAN
           /\ r.step = "answered" => r.body \in Response
BY DEF Fetch

LEMMA ActTyped ==
    ASSUME TypeOK, act # Idle
    PROVE  /\ act.step \in {"sent", "done"} /\ act.path \in Asked /\ act.path.page = "/streams"
           /\ act.live \in BOOLEAN
BY DEF TypeOK, Action, Asked, Route

\* What is started takes a slot that is free.
LEMMA StartedSlot ==
    ASSUME NEW fs \in [Slot -> Fetch], NEW r \in Fetch, \E z \in Slot : fs[z] = Idle
    PROVE  /\ Started(fs, r) \in [Slot -> Fetch]
           /\ \E s \in Slot : fs[s] = Idle /\ Started(fs, r) = [fs EXCEPT ![s] = r]
<1> DEFINE s0 == CHOOSE s \in Slot : fs[s] = Idle
<1>1. s0 \in Slot /\ fs[s0] = Idle
  OBVIOUS
<1>2. Started(fs, r) = [fs EXCEPT ![s0] = r]
  BY DEF Started
<1> HIDE DEF s0
<1> QED BY <1>1, <1>2

\* A page that goes leaves its requests behind, to nobody.
LEMMA UnmountedFetches ==
    ASSUME TypeOK
    PROVE  /\ Unmounted(fetches) \in [Slot -> Fetch]
           /\ \A s \in Slot : /\ ~Unmounted(fetches)[s].live
                              /\ Unmounted(fetches)[s].step = fetches[s].step
                              /\ fetches[s] = Idle => Unmounted(fetches)[s] = Idle
                              /\ fetches[s].step = "answered" =>
                                    /\ Unmounted(fetches)[s].body = fetches[s].body
                                    /\ Unmounted(fetches)[s].path = fetches[s].path
<1>1. ASSUME NEW r \in Fetch
      PROVE  /\ [r EXCEPT !.live = FALSE] \in Fetch /\ [r EXCEPT !.live = FALSE].live = FALSE
             /\ [r EXCEPT !.live = FALSE].step = r.step
             /\ r = Idle => [r EXCEPT !.live = FALSE] = Idle
             /\ r.step = "answered" => /\ [r EXCEPT !.live = FALSE].body = r.body
                                       /\ [r EXCEPT !.live = FALSE].path = r.path
  <2>1. CASE r = Idle
    BY <2>1, IdleRecord
  <2>2. CASE r # Idle
    BY <2>2 DEF Fetch
  <2> QED BY <2>1, <2>2
<1>2. \A s \in Slot : fetches[s] \in Fetch /\ Unmounted(fetches)[s] = [fetches[s] EXCEPT !.live = FALSE]
  BY DEF TypeOK, Unmounted
<1>3. ASSUME NEW s \in Slot
      PROVE  LET u == Unmounted(fetches)[s] IN
             /\ u \in Fetch /\ ~u.live /\ u.step = fetches[s].step /\ (fetches[s] = Idle => u = Idle)
             /\ fetches[s].step = "answered" => u.body = fetches[s].body /\ u.path = fetches[s].path
  <2>1. PICK r \in Fetch : r = fetches[s]
    BY <1>2
  <2>2. Unmounted(fetches)[s] = [r EXCEPT !.live = FALSE]
    BY <1>2, <2>1
  <2> QED BY <1>1, <2>1, <2>2
<1>4. Unmounted(fetches) \in [Slot -> Fetch]
  BY <1>3 DEF Unmounted
<1> QED BY <1>3, <1>4

LEMMA UnmountedAct ==
    ASSUME TypeOK
    PROVE  [act EXCEPT !.live = FALSE] \in Action
<1>1. CASE act = Idle
  BY <1>1, IdleRecord
<1>2. CASE act # Idle
  BY <1>2 DEF TypeOK, Action
<1> QED BY <1>1, <1>2

LEMMA RequestType ==
    ASSUME NEW p \in Asked, NEW live \in BOOLEAN
    PROVE  /\ Request(p, live) \in Fetch /\ Request(p, live).live = live
           /\ Request(p, live).step = "sent" /\ Request(p, live).path = p
BY DEF Request, Fetch

LEMMA PathType ==
    ASSUME NEW r \in Route \ {"elsewhere"}, NEW f \in Status
    PROVE  PathOf(r, f) \in Asked
BY DEF PathOf, Asked
-----------------------------------------------------------------------------
(* The invariant holds.                                                     *)

LEMMA InitIInv == Init => IInv
<1> SUFFICES ASSUME Init PROVE IInv
  OBVIOUS
<1> DEFINE none == [s \in Slot |-> Idle]
           p == PathOf("/", All)
<1>1. p \in Asked /\ All \in Status /\ "/" \in Route
  BY PagesAssumption, PathType DEF Route
<1>2. PICK r \in Fetch : r = Request(p, TRUE)
  BY <1>1, RequestType
<1>3. r.live = TRUE /\ r.step = "sent" /\ r.path = p
  BY <1>1, <1>2, RequestType
<1>4. none \in [Slot -> Fetch] /\ \E z \in Slot : none[z] = Idle
  <2>1. 1 \in Slot /\ Idle \in Fetch
    BY PagesAssumption DEF Slot, Fetch
  <2> QED BY <2>1
<1>5. PICK s \in Slot : fetches = [none EXCEPT ![s] = r]
  <2> HIDE DEF none, p
  <2>1. fetches = Started(none, r)
    BY <1>2 DEF Init, none, p
  <2> QED BY <1>4, <2>1, StartedSlot
<1>6. fetches[s] = r /\ \A t \in Slot \ {s} : fetches[t] = Idle
  BY <1>5
<1>7. list \in Seq(Entry)
  BY PagesAssumption DEF Init
<1>8. TypeOK
  <2>1. fetches \in [Slot -> Fetch]
    BY <1>4, <1>5
  <2>2. hook \in Hook(Response) /\ act \in Action
    <3>1. NewHook \in Hook(Response)
      BY DEF NewHook, Hook
    <3> QED BY <3>1, IdleRecord DEF Init
  <2>3. edits \in 0..MaxEdits /\ acted \in 0..edits
    BY PagesAssumption DEF Init
  <2>4. route \in Route /\ status \in Status /\ overlapped \in BOOLEAN /\ untold \in BOOLEAN
    BY <1>1 DEF Init
  <2> QED BY <1>7, <2>1, <2>2, <2>3, <2>4 DEF TypeOK
<1>9. FilterIsLists /\ BodiesMatch
  BY <1>3, <1>6, IdleRecord DEF Init, FilterIsLists, BodiesMatch
<1>10. OneView /\ Fresh
  <2>1. Live = {s}
    BY <1>3, <1>6, IdleRecord DEF Live
  <2>2. hook.loading /\ hook.data = {} /\ Path = p
    BY DEF Init, NewHook, Path
  <2> QED BY <1>3, <1>6, <2>1, <2>2 DEF OneView, Fresh
<1> QED BY <1>8, <1>9, <1>10 DEF IInv

\* What the others do to the list shows nowhere yet.
LEMMA EditKeepsIInv ==
    ASSUME IInv, Edit, list' \in Seq(Entry)
    PROVE  IInv'
<1>1. Edit /\ TypeOK
  BY DEF IInv
<1>2. TypeOK'
  BY <1>1, PagesAssumption DEF TypeOK, Edit, tabVars
<1>3. FilterIsLists' /\ BodiesMatch'
  BY DEF IInv, Edit, tabVars, FilterIsLists, BodiesMatch
<1>4. OneView' /\ Fresh'
  BY DEF IInv, Edit, tabVars, OneView, Fresh, Live, Path
<1> QED BY <1>2, <1>3, <1>4 DEF IInv

LEMMA OthersKeepIInv ==
    ASSUME IInv, \/ \E e \in Entry : CreateStream(e) \/ UpdateStream(e)
                 \/ \E id \in StreamID : DeleteStream(id)
    PROVE  IInv'
<1>0. list \in Seq(Entry)
  BY DEF IInv, TypeOK
<1>1. ASSUME NEW e \in Entry, CreateStream(e) PROVE IInv'
  <2>1. list' = list \o <<e>>
    BY <1>1 DEF CreateStream, Server!Extend
  <2>2. list' \in Seq(Entry)
    BY <1>0, <2>1
  <2> QED BY <1>1, <2>2, EditKeepsIInv DEF CreateStream
<1>2. ASSUME NEW e \in Entry, UpdateStream(e) PROVE IInv'
  <2>1. PICK i \in 1..Len(list) : list' = [list EXCEPT ![i] = e]
    BY <1>2 DEF UpdateStream, Server!Replace
  <2>2. list' \in Seq(Entry)
    BY <1>0, <2>1, ExceptSeq
  <2> QED BY <1>2, <2>2, EditKeepsIInv DEF UpdateStream
<1>3. ASSUME NEW id \in StreamID, DeleteStream(id) PROVE IInv'
  <2>1. PICK i \in 1..Len(list) : list' = SubSeq(list, 1, i - 1) \o SubSeq(list, i + 1, Len(list))
    BY <1>3 DEF DeleteStream, Server!Remove
  <2>2. SubSeq(list, 1, i - 1) \in Seq(Entry) /\ SubSeq(list, i + 1, Len(list)) \in Seq(Entry)
    BY <1>0, SubSeqProperties
  <2>3. list' \in Seq(Entry)
    BY <2>1, <2>2, ConcatProperties
  <2> QED BY <1>3, <2>3, EditKeepsIInv DEF DeleteStream
<1> QED BY <1>1, <1>2, <1>3

\* A request that is answered, by what the list is by then.
LEMMA ServeKeepsIInv ==
    ASSUME IInv, NEW s \in Slot, Serve(s)
    PROVE  IInv'
<1>0. TypeOK /\ fetches[s] \in Fetch /\ fetches[s] # Idle
  BY DEF IInv, TypeOK, Serve, Idle
<1>p. PICK p \in Asked : p = fetches[s].path
  BY <1>0, FetchTyped
<1>l. PICK live \in BOOLEAN : live = fetches[s].live
  BY <1>0, FetchTyped
<1> DEFINE ids == IF p.page = "/streams" THEN Listed ELSE {p.page} \cap Listed
<1>1. Listed \subseteq StreamID
  <2> SUFFICES ASSUME NEW i \in DOMAIN list PROVE list[i].id \in StreamID
    BY DEF Listed
  <2>1. list[i] \in Entry
    BY <1>0 DEF TypeOK
  <2> QED BY <2>1 DEF Entry
<1>2. PICK b \in Response : b = Body(p, ids)
  <2>1. p \in [page : Route, filter : Status] /\ edits \in 0..MaxEdits /\ ids \in SUBSET StreamID
    BY <1>0, <1>1 DEF Asked, TypeOK
  <2> HIDE DEF ids
  <2>2. Body(p, ids) \in Response
    BY <2>1 DEF Body, Response
  <2> QED BY <2>2
<1>3. b.path = p /\ b.at = edits
  BY <1>2 DEF Body
<1>4. PICK r \in Fetch : /\ fetches' = [fetches EXCEPT ![s] = r]
                         /\ r.path = p /\ r.live = live /\ r.step \in {"answered", "notFound"}
                         /\ r.step = "answered" => r.body = b
  <2>1. \/ fetches' = [fetches EXCEPT ![s] = [step |-> "notFound", path |-> p, live |-> live]]
        \/ fetches' = [fetches EXCEPT ![s] =
                           [step |-> "answered", path |-> p, live |-> live, body |-> b]]
    BY <1>p, <1>l, <1>2 DEF Serve, Listed
  <2>2. [step |-> "notFound", path |-> p, live |-> live] \in Fetch
    BY DEF Fetch
  <2>3. [step |-> "answered", path |-> p, live |-> live, body |-> b] \in Fetch
    BY DEF Fetch
  <2> QED BY <2>1, <2>2, <2>3
<1>5. UNCHANGED <<list, edits, route, status, hook, act, acted, untold, overlapped>>
  BY DEF Serve
<1>6. fetches'[s] = r /\ \A t \in Slot \ {s} : fetches'[t] = fetches[t]
  BY <1>0, <1>4 DEF TypeOK
<1>7. TypeOK' /\ FilterIsLists'
  BY <1>4, <1>5 DEF IInv, TypeOK, FilterIsLists
<1>8. BodiesMatch'
  BY <1>3, <1>4, <1>6 DEF IInv, BodiesMatch
<1>9. Live' = Live
  BY <1>l, <1>4, <1>6 DEF Live
<1>10. OneView'
  BY <1>p, <1>4, <1>5, <1>6, <1>9 DEF IInv, OneView, Path
<1>11. Fresh'
  <2>1. b.at >= acted
    BY <1>0, <1>3 DEF TypeOK
  <2>2. ~overlapped /\ ~untold /\ ~(act.step = "done" /\ act.live) =>
            \A t \in Live : fetches'[t].step = "answered" => fetches'[t].body.at >= acted
    BY <1>4, <1>6, <2>1 DEF IInv, Fresh, Live
  <2> QED BY <1>5, <1>9, <2>2 DEF IInv, Fresh
<1> QED BY <1>7, <1>8, <1>10, <1>11 DEF IInv

\* A page that is mounted sends its request, and awaits no other.
LEMMA MountKeepsIInv ==
    ASSUME IInv, NEW r \in Route, Mount(r)
    PROVE  IInv'
<1>0. TypeOK /\ r \in Route \ {"elsewhere"} /\ All \in Status
  BY PagesAssumption DEF IInv, Mount
<1>1. PathOf(r, All) \in Asked
  BY <1>0, PathType
<1>2. PICK q \in Fetch : q = Request(PathOf(r, All), TRUE)
  BY <1>1, RequestType
<1>3. q.live = TRUE /\ q.step = "sent" /\ q.path = PathOf(r, All)
  BY <1>1, <1>2, RequestType
<1> DEFINE gone == Unmounted(fetches)
<1>4. gone \in [Slot -> Fetch] /\ \E z \in Slot : gone[z] = Idle
  BY <1>0, UnmountedFetches DEF Mount, SlotFree
<1>5. PICK s \in Slot : fetches' = [gone EXCEPT ![s] = q]
  <2>1. fetches' = Started(gone, q)
    BY <1>2 DEF Mount
  <2> HIDE DEF gone
  <2> QED BY <1>4, <2>1, StartedSlot
<1>6. fetches'[s] = q /\ \A t \in Slot \ {s} : fetches'[t] = gone[t]
  BY <1>4, <1>5
<1>7. /\ UNCHANGED <<list, edits, acted>>
      /\ route' = r /\ status' = All /\ hook' = NewHook /\ overlapped' = FALSE /\ untold' = FALSE
      /\ act' = [act EXCEPT !.live = FALSE]
  BY DEF Mount
<1>8. TypeOK'
  <2>1. act' \in Action
    BY <1>0, <1>7, UnmountedAct
  <2>2. fetches' \in [Slot -> Fetch]
    BY <1>4, <1>5
  <2> QED BY <1>0, <1>7, <2>1, <2>2 DEF TypeOK, NewHook, Hook
<1>9. FilterIsLists' /\ BodiesMatch'
  BY <1>0, <1>3, <1>6, <1>7, UnmountedFetches DEF IInv, FilterIsLists, BodiesMatch
<1>10. Live' = {s}
  BY <1>0, <1>3, <1>6, UnmountedFetches DEF Live
<1>11. OneView' /\ Fresh'
  BY <1>3, <1>6, <1>7, <1>10 DEF OneView, Fresh, Path, NewHook
<1> QED BY <1>8, <1>9, <1>11 DEF IInv

LEMMA LeaveKeepsIInv == ASSUME IInv, Leave PROVE IInv'
<1>0. TypeOK /\ All \in Status /\ "elsewhere" \in Route
  BY PagesAssumption DEF IInv, Route
<1>1. /\ UNCHANGED <<list, edits, acted>> /\ fetches' = Unmounted(fetches)
      /\ route' = "elsewhere" /\ status' = All /\ hook' = NewHook /\ overlapped' = FALSE /\ untold' = FALSE
      /\ act' = [act EXCEPT !.live = FALSE]
  BY DEF Leave
<1>2. act' \in Action
  BY <1>0, <1>1, UnmountedAct
<1>3. TypeOK'
  BY <1>0, <1>1, <1>2, UnmountedFetches DEF TypeOK, NewHook, Hook
<1>4. FilterIsLists' /\ BodiesMatch' /\ Live' = {}
  BY <1>0, <1>1, UnmountedFetches DEF IInv, FilterIsLists, BodiesMatch, Live
<1>5. OneView' /\ Fresh'
  BY <1>1, <1>4 DEF OneView, Fresh, NewHook
<1> QED BY <1>3, <1>4, <1>5 DEF IInv

\* fetchData of a mounted page: it awaits that request alone, at its path, or
\* overlapped says so.
LEMMA RefreshKeepsIInv ==
    ASSUME IInv, NEW p \in Asked, NEW atPath \in BOOLEAN, Refresh(p, atPath),
           list' = list, edits' = edits, acted' = acted, act' \in Action,
           route' \in Route, status' \in Status, FilterIsLists',
           atPath => p = Path'
    PROVE  IInv'
<1>0. TypeOK
  BY DEF IInv
<1>1. PICK q \in Fetch : q = Request(p, TRUE)
  BY RequestType
<1>2. q.live = TRUE /\ q.step = "sent" /\ q.path = p
  BY <1>1, RequestType
<1>3. PICK s \in Slot : fetches[s] = Idle /\ fetches' = [fetches EXCEPT ![s] = q]
  <2>1. fetches' = Started(fetches, q)
    BY <1>1 DEF Refresh
  <2> QED BY <1>0, <2>1, StartedSlot DEF Refresh, SlotFree, TypeOK
<1>4. fetches'[s] = q /\ \A t \in Slot \ {s} : fetches'[t] = fetches[t]
  BY <1>0, <1>3 DEF TypeOK
<1>5. hook' \in Hook(Response) /\ hook'.loading
  BY <1>0 DEF Refresh, TypeOK, Fetching, Hook
<1>6. overlapped' = (Live # {} \/ ~atPath) /\ untold' = FALSE
  BY DEF Refresh
<1>7. TypeOK'
  BY <1>0, <1>3, <1>5, <1>6 DEF TypeOK
<1>8. BodiesMatch'
  BY <1>2, <1>4 DEF IInv, BodiesMatch
<1>9. Live' = Live \cup {s}
  BY <1>2, <1>3, <1>4 DEF Live, Idle
<1>10. OneView' /\ Fresh'
  BY <1>2, <1>4, <1>5, <1>6, <1>9 DEF OneView, Fresh
<1> QED BY <1>7, <1>8, <1>10 DEF IInv

LEMMA ClicksKeepIInv ==
    ASSUME IInv, Refetch \/ (\E id \in StreamID : Jump(id)) \/ \E f \in Status : SelectStatus(f)
    PROVE  IInv'
<1>0. TypeOK /\ All \in Status
  BY PagesAssumption DEF IInv
<1>1. ASSUME NEW id \in StreamID, Jump(id) PROVE IInv'
  <2>1. /\ Refresh(PathOf(id, All), TRUE) /\ route' = id /\ route \in StreamID
        /\ UNCHANGED <<list, edits, status, act, acted>>
    BY <1>1 DEF Jump
  <2>2. id \in Route \ {"elsewhere"} /\ id # "/streams" /\ route # "/streams"
    BY <2>1, PagesAssumption DEF Route
  <2>3. status = All
    BY <2>2 DEF IInv, FilterIsLists
  <2>4. PathOf(id, All) = Path' /\ FilterIsLists'
    BY <2>1, <2>2, <2>3 DEF Path, FilterIsLists
  <2>5. PICK p \in Asked : p = PathOf(id, All)
    BY <1>0, <2>2, PathType
  <2>6. Refresh(p, TRUE)
    BY <2>1, <2>5
  <2> QED BY <1>0, <2>1, <2>2, <2>4, <2>5, <2>6, RefreshKeepsIInv DEF TypeOK
<1>2. ASSUME NEW f \in Status, SelectStatus(f) PROVE IInv'
  <2>1. /\ Refresh(PathOf(route, f), TRUE) /\ status' = f /\ route = "/streams"
        /\ UNCHANGED <<list, edits, route, act, acted>>
    BY <1>2 DEF SelectStatus
  <2>2. PathOf(route, f) = Path' /\ FilterIsLists'
    BY <2>1 DEF Path, FilterIsLists
  <2>3. PICK p \in Asked : p = PathOf(route, f)
    BY <1>0, <2>1, PathType DEF Route
  <2>4. Refresh(p, TRUE)
    BY <2>1, <2>3
  <2> QED BY <1>0, <2>1, <2>2, <2>3, <2>4, RefreshKeepsIInv DEF TypeOK
<1>3. CASE Refetch
  <2>1. act # Idle /\ act.step = "done"
    BY <1>3 DEF Refetch, Idle
  <2>2. PICK p \in Asked : p = act.path
    BY <1>0, <2>1, ActTyped
  <2>3. PICK atPath \in BOOLEAN : atPath = (p = Path)
    OBVIOUS
  <2>4. /\ Refresh(p, atPath) /\ UNCHANGED <<list, edits, route, status, acted>>
        /\ act' = Idle
    BY <1>3, <2>2, <2>3 DEF Refetch, Refresh
  <2>5. Path' = Path /\ FilterIsLists' /\ act' \in Action
    BY <2>4 DEF IInv, FilterIsLists, Path, Action
  <2> QED BY <1>0, <2>3, <2>4, <2>5, RefreshKeepsIInv DEF TypeOK
<1> QED BY <1>1, <1>2, <1>3

\* The steps of an action that change neither the page nor what it awaits.
LEMMA ActionsKeepIInv ==
    ASSUME IInv, \/ \E id \in StreamID, action \in {"start", "stop"} : Act(id, action)
                 \/ ServeAction \/ RefetchUnmounted \/ ActionFails
    PROVE  IInv'
<1>0. TypeOK /\ Idle \in Action
  BY DEF IInv, Action
<1>1. UNCHANGED <<list, edits, route, status, hook, overlapped>>
  BY DEF Act, ServeAction, RefetchUnmounted, ActionFails
<1>2. ASSUME UNCHANGED fetches, act' \in Action, acted' \in 0..edits, untold' \in BOOLEAN, Fresh'
      PROVE  IInv'
  <2>1. TypeOK'
    BY <1>0, <1>1, <1>2 DEF TypeOK
  <2>2. FilterIsLists' /\ BodiesMatch' /\ Live' = Live /\ Path' = Path
    BY <1>1, <1>2 DEF IInv, FilterIsLists, BodiesMatch, Live, Path
  <2>3. OneView'
    BY <1>1, <1>2, <2>2 DEF IInv, OneView
  <2> QED BY <1>2, <2>1, <2>2, <2>3 DEF IInv
<1>3. ASSUME NEW id \in StreamID, NEW action, Act(id, action) PROVE IInv'
  <2>1. /\ act' = Request(Path, TRUE) /\ act = Idle /\ id \in Rows
        /\ UNCHANGED <<fetches, acted, untold>>
    BY <1>3 DEF Act
  <2>2. route = "/streams"
    BY <2>1 DEF Rows
  <2>3. Request(Path, TRUE) \in Action
    BY <1>0, <2>2 DEF Request, Path, PathOf, Action, TypeOK
  <2>4. Fresh'
    BY <1>1, <2>1, IdleRecord DEF IInv, Fresh, Live
  <2> QED BY <1>0, <1>2, <2>1, <2>3, <2>4 DEF TypeOK
<1>4. CASE ServeAction
  <2>1. /\ act' = [step |-> "done", path |-> act.path, live |-> act.live]
        /\ fetches' = fetches /\ acted' = edits /\ untold' = ~act.live
    BY <1>0, <1>4 DEF ServeAction, TypeOK, Action, Idle
  <2>2. act.path \in [page : {"/streams"}, filter : Status] /\ act.live \in BOOLEAN
    BY <1>0, <1>4 DEF TypeOK, Action, ServeAction, Idle
  <2>3. act' \in Action
    BY <2>1, <2>2 DEF Action
  <2>4. Fresh'
    BY <2>1, <2>2 DEF Fresh
  <2> QED BY <1>0, <1>2, <2>1, <2>2, <2>3, <2>4 DEF TypeOK
<1>5. CASE ActionFails
  <2>1. act' = Idle /\ untold' = (untold \/ (act.step = "done" /\ act.live)) /\ UNCHANGED <<fetches, acted>>
    BY <1>5 DEF ActionFails
  <2>2. Fresh'
    BY <1>1, <2>1, IdleRecord DEF IInv, Fresh, Live
  <2>3. untold' \in BOOLEAN
    BY <2>1
  <2> QED BY <1>0, <1>2, <2>1, <2>2, <2>3 DEF TypeOK
<1>6. CASE RefetchUnmounted
  <2>1. /\ act' = Idle /\ act # Idle /\ ~act.live /\ UNCHANGED <<acted, untold>>
        /\ fetches' = Started(fetches, Request(act.path, FALSE))
        /\ \E z \in Slot : fetches[z] = Idle
    BY <1>6 DEF RefetchUnmounted, Idle, SlotFree
  <2>2. PICK p \in Asked : p = act.path
    BY <1>0, <2>1, ActTyped
  <2>3. PICK q \in Fetch : q = Request(p, FALSE)
    BY RequestType
  <2>4. q.live = FALSE /\ q.step = "sent"
    BY <2>3, RequestType
  <2>5. fetches' = Started(fetches, q)
    BY <2>1, <2>2, <2>3
  <2>6. PICK s \in Slot : fetches[s] = Idle /\ fetches' = [fetches EXCEPT ![s] = q]
    BY <1>0, <2>1, <2>5, StartedSlot DEF TypeOK
  <2>7. fetches'[s] = q /\ \A t \in Slot \ {s} : fetches'[t] = fetches[t]
    BY <1>0, <2>6 DEF TypeOK
  <2>8. TypeOK'
    <3>1. fetches' \in [Slot -> Fetch]
      BY <1>0, <2>6 DEF TypeOK
    <3> QED BY <1>0, <1>1, <2>1, <3>1 DEF TypeOK
  <2>9. FilterIsLists' /\ BodiesMatch' /\ Live' = Live /\ Path' = Path
    BY <1>1, <2>4, <2>6, <2>7 DEF IInv, FilterIsLists, BodiesMatch, Live, Path, Idle
  <2>10. OneView' /\ Fresh'
    <3>1. \A t \in Live : fetches'[t] = fetches[t]
      BY <2>6, <2>7 DEF Live, Idle
    <3>2. OneView'
      BY <1>1, <2>9, <3>1 DEF IInv, OneView
    <3>3. Fresh'
      BY <1>1, <2>1, <2>9, <3>1, IdleRecord DEF IInv, Fresh
    <3> QED BY <3>2, <3>3
  <2> QED BY <2>8, <2>9, <2>10 DEF IInv
<1> QED BY <1>3, <1>4, <1>5, <1>6

\* A request that ends: what the page awaited is there, or failed.
LEMMA SettleKeepsIInv ==
    ASSUME IInv, NEW s \in Slot, Receive(s) \/ ReceiveNotFound(s) \/ Fail(s)
    PROVE  IInv'
<1>0. TypeOK /\ fetches[s] \in Fetch /\ fetches[s] # Idle /\ Idle \in Fetch
  BY DEF IInv, TypeOK, Receive, ReceiveNotFound, Fail, Idle, Fetch
<1>1. /\ UNCHANGED <<list, edits, route, status, act, acted, untold, overlapped>>
      /\ fetches' = [fetches EXCEPT ![s] = Idle]
  BY DEF Receive, ReceiveNotFound, Fail, Settle
<1>2. fetches'[s] = Idle /\ \A t \in Slot \ {s} : fetches'[t] = fetches[t]
  BY <1>0, <1>1 DEF TypeOK
<1>3. Live' = Live \ {s} /\ Path' = Path
  BY <1>1, <1>2 DEF Live, Path, Idle
<1>4. FilterIsLists' /\ BodiesMatch'
  BY <1>1, <1>2 DEF IInv, FilterIsLists, BodiesMatch, Idle
<1>5. hook \in Hook(Response)
  BY <1>0 DEF TypeOK
<1>6. CASE hook' = hook /\ ~fetches[s].live
  <2>1. TypeOK'
    BY <1>0, <1>1, <1>6 DEF TypeOK
  <2>2. Live' = Live
    BY <1>3, <1>6 DEF Live
  <2>3. OneView' /\ Fresh'
    BY <1>1, <1>2, <1>3, <1>6, <2>2 DEF IInv, OneView, Fresh
  <2> QED BY <1>4, <2>1, <2>3 DEF IInv
<1>7. CASE fetches[s].live /\ hook' = Rejected(hook)
  <2>1. hook' \in Hook(Response) /\ hook'.error
    BY <1>5, <1>7 DEF Hook, Rejected
  <2>2. TypeOK'
    BY <1>0, <1>1, <2>1 DEF TypeOK
  <2>3. ~overlapped => Live' = {}
    BY <1>3, <1>7 DEF IInv, OneView, Live
  <2>4. OneView' /\ Fresh'
    BY <1>1, <2>1, <2>3 DEF OneView, Fresh
  <2> QED BY <1>4, <2>2, <2>4 DEF IInv
<1>8. CASE fetches[s].live /\ fetches[s].step = "answered" /\ hook' = Resolved(hook, fetches[s].body)
  <2>1. PICK b \in Response : b = fetches[s].body
    BY <1>0, <1>8, FetchTyped
  <2>2. hook' \in Hook(Response) /\ hook'.data = {b}
    BY <1>5, <1>8, <2>1 DEF Hook, Resolved
  <2>3. TypeOK'
    BY <1>0, <1>1, <2>2 DEF TypeOK
  <2>4. /\ ~overlapped => Live' = {} /\ b.path = Path
        /\ ~overlapped /\ ~untold /\ ~(act.step = "done" /\ act.live) => b.at >= acted
    BY <1>3, <1>8, <2>1 DEF IInv, OneView, Fresh, BodiesMatch, Live
  <2>5. OneView' /\ Fresh'
    BY <1>1, <1>3, <2>2, <2>4 DEF OneView, Fresh
  <2> QED BY <1>4, <2>3, <2>5 DEF IInv
<1>9. fetches[s].live \in BOOLEAN
  BY <1>0, FetchTyped
<1> QED BY <1>6, <1>7, <1>8, <1>9 DEF Receive, ReceiveNotFound, Fail, Settle

LEMMA StepKeepsIInv == IInv /\ [Next]_vars => IInv'
<1> SUFFICES ASSUME IInv, [Next]_vars PROVE IInv'
  OBVIOUS
<1>1. CASE UNCHANGED vars
  BY <1>1 DEF vars, tabVars, IInv, TypeOK, FilterIsLists, BodiesMatch, OneView, Fresh, Live, Path
<1>2. CASE Next
  BY <1>2, OthersKeepIInv, ServeKeepsIInv, MountKeepsIInv, LeaveKeepsIInv, ClicksKeepIInv,
     ActionsKeepIInv, SettleKeepsIInv DEF Next
<1> QED BY <1>1, <1>2

LEMMA InductiveInvariant == Spec => []IInv
<1> QED BY InitIInv, StepKeepsIInv, PTL DEF Spec
-----------------------------------------------------------------------------
(* Theorems.                                                                *)

\* The list, the page and every request are of their types, and an action is done no
\* later than now (streams.ts, useAPI.ts, StreamList.tsx).
THEOREM TypeCorrect == Spec => []TypeOK
BY InductiveInvariant, PTL DEF IInv

\* Whatever the order of links, clicks, answers and failures, a page shows the answer
\* to what its address and filter ask for, unless requests of it overlapped or the last
\* one failed (useAPI.ts:9-24, StreamList.tsx:13-25, StreamDetail.tsx:7-11).
THEOREM AskedIsShown == Spec => []ShowsWhatIsAsked
<1>1. IInv => ShowsWhatIsAsked
  <2> SUFFICES ASSUME IInv, ~hook.error, ~overlapped, Shown.view # "loading"
               PROVE  Shown.view = "page" /\ \A d \in Shown.data : d.path = Path
    BY DEF ShowsWhatIsAsked
  <2>1. CASE hook.loading
    <3>1. route \notin {"/", "/streams", "/config"} \cup StreamID
      BY <2>1 DEF Shown, Dashboard, StreamTable, EngineConfig, StreamDetail, PageOrFailure, Table, Text
    <3> QED BY <3>1 DEF Shown, Page
  <2>2. CASE ~hook.loading
    <3>1. PICK d \in Response : hook.data = {d} /\ d.path = Path
      BY <2>2 DEF IInv, OneView
    <3>2. Shown = Page(hook.data) \/ Shown = Page({})
      BY <2>2, <3>1 DEF Shown, Dashboard, StreamTable, EngineConfig, StreamDetail, PageOrFailure, Table
    <3> QED BY <3>1, <3>2 DEF Page
  <2> QED BY <2>1, <2>2
<1> QED BY <1>1, InductiveInvariant, PTL

\* What a page at rest shows is not older than the last action, whatever others change
\* meanwhile, unless the list was left before the server did the action or its answer was
\* lost, with no fetch since, or fetches overlapped or the last one failed
\* (StreamList.tsx:20-23).
THEOREM ActionShown == Spec => []ActionIsShown
<1>1. IInv => ActionIsShown
  BY DEF IInv, Fresh, ActionIsShown
<1> QED BY <1>1, InductiveInvariant, PTL
=============================================================================
