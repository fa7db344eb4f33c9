# TLA+ verification of the video stream capture engine

The engine (Go) runs one ffmpeg child process per configured RTSP stream, decodes raw frames from its pipe, sends them
through a chain of filters, and writes what passes to Kafka. An HTTP API and a small React console sit beside it. This
directory holds TLA+ models of that program, the TLC configurations that check them, and TLAPS proofs about all eight of
the modules that are checked. `src/` is the only reference: every definition names its lines in `PROJECT.json` (`map`).

Paths below are relative to the repository. "Design" is
`docs/superpowers/specs/2026-07-10-video-stream-capture-engine-design.md`, "tracking design" is
`2026-07-10-lightweight-tracking-design.md` beside it.

## 1. Inventory

| Component | Source | State | Operations |
|---|---|---|---|
| Stream manager, shutdown | `internal/manager/manager.go`, `cmd/engine/main.go` | `workers` map under `mu`, semaphore channel, shared Kafka writer | `Start`, `startStream`, `Stop`, `buildPipeline`; main's signal path |
| Health registry | `internal/manager/health.go` | id -> last heartbeat | `Register`, `Unregister`, `Heartbeat`, `Check`, `UnhealthyStreams` |
| Decoder worker | `internal/decoder/worker.go`, `reader.go`, `ffmpeg.go` | context, child process, pipe, `seqNum` | `Run`, `readLoop`, `processFrame`, `Stop` |
| Backoff | `internal/decoder/reconnect.go` | attempt counter | `NextDelay`, `Sleep`, `Reset` |
| Filter pipeline | `internal/filter/*` | the chain; the duplicate filter's last hash | `Process`, `Detections`, each `Apply` |
| Face tracker | `internal/tracker/face.go`, `object.go` | last grey frame, frame count, last detections | `Track`, `LastDetections` |
| Track matching | `internal/tracker/iou.go` | tracks, `nextID` | `match` |
| Kafka output | `internal/output/kafka.go`, `serializer.go` | a synchronous producer | `Write`, `Close` |
| Configuration | `internal/config/config.go` | `cfg.Streams`, a slice | `Load`, `validate` |
| Stream API | `internal/api/handler_stream.go` | the same slice, under `Server.mu` | create, batch import, update, delete, list, get |
| Events | `internal/store/event_store.go`, `internal/api/handler_event.go` | the `events` table | insert, list, acknowledge |
| API hook | `web/src/hooks/useAPI.ts` | `data`, `loading`, `error` of the mounted page | `fetchData` on mount, on a change of path, as `refetch` |
| Console pages | `web/src/pages/Dashboard.tsx`, `StreamList.tsx`, `StreamDetail.tsx`, `EngineConfig.tsx`, `web/src/api/streams.ts` | the route, the status filter, requests in flight | links and history, filter, start/stop of a row |
| Event page | `web/src/pages/EventLog.tsx`, `web/src/api/events.ts` | level, the hook | select, acknowledge all, refetch |
| Web session | `web/src/api/client.ts`, `auth.ts`, `App.tsx`, `main.tsx`, `Login.tsx`, `Layout.tsx` | the token in `localStorage`, shared by tabs; each tab's route and document | login, logout, guard, the 401 path, loading documents |
| Accounts, tokens | `internal/auth`, `handler_auth.go`, `user_store.go`, `router.go` (`authWrap`) | users (written once at start) | login, check of a token |
| Routing, metrics, config page, DB pool | `internal/api/router.go`, `handler_metrics.go`, `handler_config.go`, `internal/metrics`, `internal/store/db.go` | none of their own | constant answers, I/O |

How they interact. `main` loads the configuration, makes the manager and the API server, which *share* the `*Config`, and
runs `Start` in a goroutine. `Start` ranges over `cfg.Streams`, takes a semaphore slot per entry and launches a goroutine
that runs `startStream`: it builds the chain and the writer, puts a worker in the map, registers it with the health
monitor, and calls `worker.Run`, which returns only at the worker's end; then the slot is given back. `Run` spawns ffmpeg
under the worker's context and reads frames from the pipe; each frame goes through the filters and to `Write`. On a
signal `main` cancels Start's context and calls `Stop`, which cancels every worker in the map, closes the shared writer
and returns, waiting for nobody; then the process exits.

What is hard here, and what makes each part correct:

* **Shutdown races** (manager): registration, Start's loop and running workers are concurrent with `Stop`. Correct when no
  worker is missed without a reason, slots are given back exactly once, Start and Stop return, and the writer goes last.
* **Reconnection** (worker): ffmpeg dies, the context is cancelled, or both, at any point. Correct when no child is left
  behind, numbering never goes back, at most one frame follows Stop, and a dead child is replaced.
* **Matching while mutating** (tracks): one frame's detections are matched with tracks the same loop changes. Correct when
  ids are fresh, followed and bounded.
* **Memory of the filters** (pipeline, face tracker): each remembers frames that others may drop, and the tracker skips
  frames by two rules at once. Correct when nothing that differs is held back and a moving scene is looked at.
* **A shared slice** (stream API against Start): handlers shift and append in place under a lock that Start does not take.
* **Statement-wise SQL and unordered responses** (events): handlers use no transaction, the page has overlapping requests.
* **Closures older than the page** (console pages): the hook takes whichever answer comes last, a refetch belongs to the
  render it was clicked in, a page may be left or change its path meanwhile. Correct when a page shows the answer to what
  its address asks for, a list at rest is not older than the user's last action, and loading ends.
* **One token, many tabs, late answers** (web session): every 401 removes the token of *now*, the guard looks only when it
  is mounted, nobody listens to storage events. Correct when a valid token goes only for a reason, the tab that removes it
  goes too, and signing in takes a login that was granted.

`PROJECT.json` lists the hazards one by one with their lines and the properties that cover them.

## 2. Modules

| Module | Stands for | Run |
|---|---|---|
| `StreamManager` | Start, startStream, Stop, main's shutdown, the shared writer, registry order | `StreamManager*` |
| `DecoderWorker` | one worker with its child, pipe and backoff counter; refines `FrameStream` | `DecoderWorker*` |
| `FrameStream` | abstract: growing sequence numbers, at most one frame after cancellation, then the end | as a property |
| `TrackManager` | `match`, one step per detection | `TrackManager*` |
| `FilterPipeline` | `buildPipeline`, `Process`, every filter, `FaceTracker.Track` | `FilterPipeline*` |
| `StreamConfigStore` | the slice (arrays, header, capacity), the handlers, Start's torn reads; refines `StreamList` | `StreamConfigStore*` |
| `StreamList` | abstract: the list of streams the API's users think of | as a property |
| `UseAPI` | `useAPI.ts`: what each event makes of the hook's three cells, and what pages render from them | with `EventLog`, `Pages` |
| `EventLog` | the table, the handlers statement by statement, the event page, another client; uses `UseAPI` | `EventLog` |
| `Pages` | the other pages in one tab, over `UseAPI` and the server's `StreamList` | `Pages` |
| `Console` | tabs sharing the token, guard, documents, `authWrap`, `handleLogin`; refines `Session` | `Console*` |
| `Session` | abstract: signing in takes a granted login, each once; signing out is always possible | as a property |
| `<module>_proofs`, one for each of the eight modules with a run | theorems | `tlapm` |

`MC<module>` gives a module its constants for TLC. Definitions named as fault variants are what a plausible bug would make
of the definition they precede; the specifications do not use them. They show that each property can fail.

**State and actions against the code.**

* *StreamManager.* `mpc`, `spc`, `wpc[l]` are the program counters of main, Start's goroutine and the goroutine of entry
  `l`. `workers` is the map, from an id to the entry whose worker it holds, so that two entries with one id (which
  `validate` lets through) can meet; `sem` is `len(sem)`; `m.mu` is not a variable: Stop holds it exactly in
  `stopping`/`closing`, and registration waits for that (`RegisterWorker`). The select of Start is `StartCancelled` /
  `LaunchStream`, both enabled when both channels are ready, as in Go. A worker is reduced to its context check, its wait
  for a frame and its write; `WriteRefused` and `WritePanics` are the two things sarama does with a message sent during
  and after `Close`.
* *DecoderWorker.* `pc` follows Run and readLoop; `ffmpeg` and `pipe` are the child, `ContextKills` is os/exec's watcher.
  A full pipe blocks ffmpeg, a blocking writer blocks the worker. `cmd.Start` is two steps, its check of the context
  (`StartChecks`) and the fork, with Stop possible in between: then a child is forked for a stopped worker, and killed.
* *TrackManager.* One action per branch of the loop body, `Cleanup` for the second loop. Overlaps are exact fractions in
  place of float64; ties fall as the map's iteration order would let them.
* *FilterPipeline.* One action per turn of `buildPipeline`'s loop, one for its end, one per `Apply`. An image is a hash,
  grey samples, a sharpness score and a number of faces; distances and the 1 % rule are computed from those. `lastGray`,
  `lastDetections` are sets of at most one element, empty for nil. What happens to a frame after `Send` is
  DecoderWorker's subject.
* *StreamConfigStore.* `heap` holds every backing array at its capacity, `slice` is the header; `append` writes in place
  or moves. `heapTo` and `sliceTo` are the same two as the handler that holds `Server.mu` will leave them: a handler's
  action sets those, and `StoreHeader` and `StoreEntry` then store what differs location by location, in any order, which
  includes the one the compiler chooses (length before entry in `createStream`). The lock is free when nothing differs.
  Start reads the header and each entry in two parts, in either order, between these stores: a data race. So it can see a
  new length with an old array, whose end it then reads past (`Foreign`), or half an entry. Two things are assumed of the
  hardware, as on amd64: a word is stored and read whole, and whoever reads the address of a new array finds the old
  entries in it, which `append` copied before it returned.
* *UseAPI.* The hook is a record `[data, loading, error]`; `data` has at most one response. `Resolved` and `Rejected` are
  the two ways out of `fetchData`; neither asks whether another request is in flight.
* *EventLog.* One action per SQL statement, click, and response reaching the page. `selected` and `hook` are the page's;
  `acks["page"].level` is the render's closure that `refetch` belongs to. `fetches` are answered in any order.
* *Pages.* `route` and `status` give `Path`, what the hook is called with. `Mount` replaces the component, and what the
  old one waits for finds it gone (`live`); `Jump`, from one detail page to another through the history, keeps it and
  its data. `act` is the POST of `handleAction` with the path its `refetch` closure holds. Other users change `list`
  through the operations of `StreamList`, which `StreamConfigStore` is shown to implement: the two models meet there. A
  response carries the number of edits there were when it was made, so that its age can be spoken of. The production
  build is modelled: StrictMode's second run of each effect exists in development only. Which page asks for what, and
  what it shows when it has nothing, differs by page (`PageOrFailure`, `Table`, `EngineConfig`).
* *Console.* `tab[t]` has the route, Login's error and `leaving`, a change of document that is under way. A request
  carries the token of when it was sent. `Guard` is AuthGuard being mounted, which happens only on the way into the
  signed-in area; `Unguarded` is a change of pages within it. A token is the second it was issued in, because its claims
  are the user and that time: two logins of one second get the same token. Of all addresses only `/` has a file
  (`HasFile`). Requests whose document goes are aborted; those whose component goes are not, and their code still stores
  or removes the token.

`MC` modules use symmetry in one place, the tabs of `Console`: no definition tells them apart.

## 3. Runs

All passing runs check a type invariant besides what is named here.

| Run | Bounds | What it shows |
|---|---|---|
| `StreamManager` | 3 entries, 2 slots, 2 ids (one shared), one entry with its own topic; about 11 000 states | slots are accounted for on every way out of a stream (`SlotsAreAccounted`), and an entry is kept waiting only by streams that hold all of them for ever (`OnlyStreamsHoldUpStart`); Stop's pass is complete (`StopPassIsComplete`), closing comes after it (`CloseComesLast`); a worker Stop missed registered late, or the map holds another entry's worker under its id (`UnstoppedIsExplained`); Start, Stop and cancelled workers return |
| `DecoderWorker` | 4 frames, pipe of 2, attempts counted to 2, any number of reconnections | the worker implements `FrameStream` and its fair version; no child left behind, not even one forked after Stop, and a dead one is replaced |
| `TrackManager` | 4 frames of up to 3 boxes out of four, threshold 3/10, `maxLost` 1; about 196 000 states | tracks stay bounded, ids are never reused, a face followed without a gap keeps its id, an old track goes to one detection only |
| `FilterPipeline` | 10 frames, 4 images, 8 filter lists, detection every 3rd frame; about 16 000 states | what a last duplicate filter holds back resembles the last frame sent, what is sent does not repeat itself, of 3 moving frames one is looked at, frames that pass a tracker carry detections |
| `StreamConfigStore` | 2 configured streams, 2 ids, 2 requests, what lies past an array is nothing or a plausible entry; about 641 000 states | the slice behaves as the list whatever is shared (`ImplementsStreamList`); as long as nothing is updated or deleted, Start launches each entry there was when it began, whole and in its place, however the stores of creations and imports and its own reads interleave (`LaunchesWhatWasThere`). What is being added may reach it half-written |
| `EventLog` | 2 events, 2 levels, page size 1, 2 requests of the page in flight, one more client; about 660 000 states | responses have what they promise unless a connection breaks (`PageIsFull`); the page shows the selected level unless a refetch interferes (`ShowsSelectedLevel`); what is reported acknowledged is (`AckedMeansAcked`); nothing else is (`OnlyRequestedAreAcked`) |
| `Pages` | 1 stream listed and 1 more id, 2 filters, 2 requests in flight, 1 edit by others; about 461 000 states, three minutes | a page shows the answer to what its address and filter ask for, unless requests of it overlapped or its last one failed (`ShowsWhatIsAsked`); a list at rest is not older than the last action, unless it was left before the server did the action or the answer was lost (`ActionIsShown`); no page loads for ever (`LoadingEnds`) |
| `Console` | 2 tabs, 2 pages, 2 requests in flight, tokens valid for 1 of 2 seconds; about 620 000 states, two minutes | a tab that removed the token goes too (`SignedOutTabsLeave`); a valid token is given up only for a logout, a newer login, or the rejection of a login or of a request with another token (`ValidTokenIsKept`); the whole implements `Session` |

Why the bounds are enough. Three entries over two slots are the least that has a waiting entry, a duplicate id and a
bystander at once. Four frames over a pipe of two allow a full pipe, a frame before and after a reconnection and one after
Stop. Four boxes in a chain (A meets B, B meets C, A does not meet C, D meets nobody) give every overlap pattern of three
detections, and four frames outlive a track that is dropped after two. Images drift in two steps, each below both
thresholds and above them together, so comparing with the wrong frame shows. Two requests grow an array of two past its
capacity, then write into the room that is left, or delete under Start; the third only repeats one of these. Two
overlapping requests are what it takes to be out of order; more only repeat it. A stream listed and one that is not give
a detail page that is found and one that is not, with the history leading between them; one edit is what it takes for a
list to be older than an action. Two tabs are one that acts and one that is acted upon, two pages are a change within
the guard, two slots a late answer beside a newer request; a token that lives one of two seconds can be expired while a
later login's is valid. In `DecoderWorker`, `StreamManager`, `EventLog`, `Pages` and `Console` behaviours are unbounded;
only the data are bounded.

**Runs that end in a violation** state what the documents say, and TLC shows the code doing otherwise:

| Run | Says | What the code does |
|---|---|---|
| `StreamManager_panic` | design 85, graceful shutdown | Stop does not know a stream that has yet to register: it closes the producer, the stream registers, is never cancelled, and its first send is on a closed channel: panic |
| `StreamManager_starved` | design 83, `max_concurrent_starts` bounds *starting* streams | the slot is kept for the worker's life, so later entries never start |
| `DecoderWorker_nobackoff` | design 216-217, back off after EOF | only a failed `cmd.Start` backs off; a dying ffmpeg is respawned at once |
| `Console_rejected` | plan `docs/superpowers/plans/2026-07-10-video-stream-capture-engine.md` 3167, the login page shows its errors and those without a token are led to it | a 401, also the one for a wrong password, loads `/login` as a document, which the file server (`main.go:83-90`) does not have: the tab ends at a 404 |

**Fairness.** `StreamManager`: Start, Stop and each stream goroutine run when they can; a worker waiting for a frame is
only promised to move once it is cancelled, because the context kills ffmpeg, which ends the pipe. Signals are not
assumed. `DecoderWorker`: the goroutine runs, the writer answers (sarama's retries and timeouts are bounded), a cancelled
child is killed; cameras need not deliver. `Pages`: a request that is out is answered in the end and the browser runs the
code waiting for the answer; clicks, edits and failures are not assumed. That a server answers at all is an assumption
about the network, because `fetch` has no timeout. The other modules state no liveness.

## 4. Proofs

The theorems hold for every value of the constants, under the ASSUMEs of the modules (`ConfigAssumption`,
`BoundAssumption`, `TrackerAssumption`, `PipelineAssumption`, `StoreAssumption`, `EventAssumption`, `PagesAssumption`,
`ConsoleAssumption`), and are checked to the last leaf. Every safety invariant and action property that a passing run
checks is a theorem, and so is the safety of every refinement. The inductive invariants named below were first checked by
TLC on the runs' instances.

* `StreamManager_proofs`. The inductive invariant is `IInv`: `TypeOK`, `SlotsAreAccounted`, `LaunchOrder` (entries at or
  past `next` are idle, without which a launch could not be seen to add a *new* goroutine to the count) and
  `RegistryInv`: `StopPassIsComplete` together with what it needs, that the map only holds launched entries
  (`MapHoldsLaunched`), that the writer's state follows main's (`WriterFollowsMain`), and that after the pass the map's
  workers are cancelled or late (`MapIsStopped`). Counting rests on two lemmas about adding one element to and removing
  one from `InFlight`. From it: `TypeCorrect`, `SlotsAccounted`, `StopPassComplete`, `UnstoppedExplained`, `CloseIsLast`.
* `DecoderWorker_proofs`. The inductive invariant ties the child to `pc` and the published numbers to `seqNum`. From it:
  `TypeCorrect`, `NoOrphan`, and `Refinement`: `Spec => ImplementsFrameStream`, each action mapped to
  `Publish`, `Cancel`, `Drain`, `Finish` or a stutter.
* `TrackManager_proofs`. `TypeCorrect` and `IdsAreFresh` rest on typing alone. For `SharingIsOfNewTracks` the invariant
  adds that an id given in this frame is either used or new, and that one given twice is used (`GivenIds`): a third
  detection then finds it used. For `FaceIsFollowed` it adds that the only detection of a frame has a track with its box
  that is at most one frame old, and that this is still so when the next frame begins (`FollowInv`). `Matches` is never
  expanded, so both hold for any threshold and any way of comparing boxes. `MemoryIsBounded` counts without counting:
  the invariant (`HavePlaces`) says that there is a one-to-one map from the tracks to *places*, pairs of a call, at most
  `maxLost` calls ago, and a detection of it. A track given to a detection leaves its place, the clean-up moves the others
  one call back and gives those a place in this call, and a track it keeps is lost for at least as many calls as its place
  is old. That bounds the cardinality by that of the places.
* `FilterPipeline_proofs`. `MovingDetected` needs that `missed` never exceeds `frameCount % DetectEvery` (`CyclesHold`),
  and the arithmetic of remainders for it (`RemainderStep`). `SuppressedResembleOutput` and `OutputNotRepeated` need to
  know what the last dropping duplicate filter remembers: the last frame sent, until the frame in the chain has passed the
  filter; from then on that frame, which resembles nothing sent (`Remembered`). No filter behind it can drop that frame,
  so that it is sent. `OutputHasDetections` needs that what a frame has come past were no object trackers, and face
  trackers with detections (`Passed`), and that `Detections` finds the first of them: that a finite set of positions has
  a least one is proved from the library's theorem that strict inclusion of finite sets is well-founded (`LeastExists`).
  One lemma deals with the filters that let a frame on, one with those that drop it (`PassIInv`, `DropIInv`).
* `StreamConfigStore_proofs`. For `Refinement`, `Spec => ImplementsStreamList`, the list is what `sliceTo` covers of its
  array in `heapTo`: the lemmas on `Overwrite` give what an append in place, a move to a new array, and a shift make of
  it, and that entries below the length were written (`Written`). `ThereIsLaunched` says of an array that it *holds* the
  first `complete` entries of the list (`Holds`). As long as nothing is updated or deleted, the arrays of `slice` and of
  `sliceTo` hold them (`MemoryHolds`), since no store is left to do below `complete`; so does the array that Start copied
  from the header, and the length it copied covers them (`HeaderHolds`); what the loop has copied and launched up to
  `complete` is from there (`LoopHolds`). One lemma deals with `append` (`AppendGrows`), one with each kind of store.
* `EventLog_proofs`. `FullPages` needs that the count of the first statement is not more than what the second finds
  (`CountsHold`), because rows are only added; `Acknowledged` that an acknowledgement under way has done those it has come
  past (`AcksCover`); `SelectedShown` that the requests of a page without overlap are for one level (`OneLevel`).
  `OnlyRequested` is an action property that follows from the types.
* `Pages_proofs`. `AskedIsShown` and `ActionShown` need that unless requests overlapped, at most one is awaited by the
  page, for the path it is at, that the page loads until it is answered (`OneView`), and that neither that answer nor
  the one shown is from before the last action (`Fresh`), unless nobody was told of the action (`untold`); besides, that
  answers are those to their requests (`BodiesMatch`) and that only the list has a filter (`FilterIsLists`).
* `Console_proofs`. The types carry more than types: no token is newer than the server's clock and a granted login has a
  token, so that signing in never stores none. `IInv` adds to them and to `SignedOutTabsLeave` that a token that is set
  was set after the last removal (`RemovedIsNone`, without which an old remover would be caught by the next removal) and
  that a page's request is rejected only for a token that is valid no longer (`RejectedAreInvalid`, which stays true as
  time goes on). The actions of the pages are dealt with by one relation, `Moves`: each slot keeps its request or goes
  from idle to sent. From the invariant: `TypeCorrect`, `Departure`, `Keeping`; and `Refinement`:
  `Spec => ImplementsSession`, where a removal maps to `SignOut`, `SignIn` to `SignIn`, `GrantLogin` to `Grant`, and what
  keeps the token and grants nothing to `Lose` of the grants that go, or to a stutter.

Only model-checked: everything temporal under fairness (out of the prover's reach, as is ENABLED):
`StartReturnsAfterCancel`, `StopReturns`, `CancelledReturns`, `OnlyStreamsHoldUpStart`, `DeadFfmpegIsReplaced`,
`LoadingEnds`, and the fairness of `ImplementsFairFrameStream`, whose safety `Refinement` proves. The violations are
TLC's counterexamples.

## 5. Seen in the code, without a run

* Stop neither waits for workers nor applies a timeout; `max_retries` is never read; the design's queue that drops new
  frames does not exist, writes block the read loop instead.
* Two entries with one id: the first worker cannot be stopped (excused by name in `UnstoppedIsExplained`).
* A stream goroutine that is still building when Stop runs registers afterwards and is never told to stop (`late`). That
  is the shortest way to the panic of `StreamManager_panic`; a stopped worker that is past its context check when the
  producer closes can panic too.
* Stop between the check and the fork of `cmd.Start` leaves a child to be forked, which os/exec then kills.
* `max_concurrent_starts: 0` blocks Start at its first stream.
* A track created in a frame counts that frame as lost. A detection can be matched with the track just made for another
  detection of its frame, against tracking design 199 (`SharingOnlyOfNewTracks` says that this is the only way to share).
* After one change on a frame that is not due, and then stillness, the face tracker keeps its old detections, against
  tracking design 158-160.
* A delete during Start's loop skips one stream and starts another twice, and an update can reach it half-written
  (`disturbed`). An append under way can show Start the new length before the new entries, or with the old array, so that
  it launches a zero or half-written entry, or reads past the array. None of this costs it the entries there were.
* `duplicate.go:9` and design 296 say that a frame is compared with the previous one; it is compared with the last one
  that passed the filter, which is what bounds slow drift (`DuplicatesResembleOutput`).
* With a blur filter or a tracker behind it, the duplicate filter suppresses repeats of frames that were never sent.
* A stream can be deleted while it runs; start and stop of the API change nothing; the list says "stopped", the
  detail page "running", whatever the worker does.
* `ListEvents` does not ask `rows.Err`, so a broken connection gives a short page as a success (`RowsBreak`).
* The page's "acknowledge all" sends an empty list of ids, which acknowledges nothing; its refetch belongs to the level
  selected when it was clicked (`overlapped`); an error leaves the old rows under the new filter.
* Nothing calls `Heartbeat` or `InsertEvent`. `InsertEvent` is modelled as the store's operation all the same.
* A 401 that comes late, for an old token, removes a newer login's, and a wrong password typed in one tab signs out all of
  them (`ValidTokenIsKept` names both as its exceptions). Another tab shows its page until a request of its own is
  rejected.
* Login's button stays enabled: a second answer signs in again, also after a logout. `Session` lets a grant be used late,
  because the code does.
* An action whose list was left before the server did it, or whose answer is lost, is not followed by a fetch of the list,
  which may be mounted again and then be older than it (`untold`).
* From one stream's page to another's by the history, a failed request leaves the old stream's data under the new address.
  `StreamList` and `EventLog` do not look at the error and show an empty table, or old rows.
* The status filter is sent and not read by the server. The list says "stopped" of every stream (`ListedAs`), so that a
  row never offers to stop one. `EngineConfig`'s inputs stay blank, because the answer's fields have other names. Save,
  add, import and the detail page's buttons have no handler. `refresh`, most of `streams.ts` and `api/config.ts` have no
  caller, nor has `authMiddleware`. Layout's header is constant text.

## 6. Not modelled

JPEG and JSON encoding, image arithmetic, ffmpeg's arguments, Prometheus counters, routing tables, constant answers, the
markup and the chart of the pages: data or I/O without state of the program. Delays as durations: the backoff's overflow
after some 35 failures (on amd64 a negative delay) needs a module of its own. Heartbeats: no caller, so that `Check` can
only say "unhealthy" after the timeout. Passwords, hashing, signing and the parsing of tokens: external, a token is
valid or not. Creation of the tables and of the first account: once, before anything else runs.

## 7. Plan

Written so far, in this order: StreamManager, DecoderWorker with FrameStream, TrackManager, StreamConfigStore with
StreamList, FilterPipeline, EventLog, UseAPI, Pages, Console with Session; proofs about all of them.

Next:

1. A composition of `StreamManager` with one `DecoderWorker` per entry, so that the reduced worker of the former is shown
   to be implemented by the latter, and the proof of it.
2. `Backoff`: delays in a scaled word size; `HealthMonitor`, should it get a caller.
