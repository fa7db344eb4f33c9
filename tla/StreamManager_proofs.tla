------------------------ MODULE StreamManager_proofs ------------------------
(***************************************************************************)
(* Proofs that the safety properties of StreamManager hold for any number   *)
(* of configured streams, any ids, topics and semaphore capacity.           *)
(***************************************************************************)
EXTENDS StreamManager, FiniteSetTheorems, TLAPS

\* Start launches the entries in order, each once.
LaunchOrder == \A l \in Launch : wpc[l] = "idle" <=> l >= next

\* The map holds launched workers under their own ids, and every running worker's
\* id is in it; Stop visits ids of the map only.
MapHoldsLaunched ==
    /\ toStop \subseteq Registered
    /\ \A id \in Registered : IdOf[workers[id]] = id /\ wpc[workers[id]] # "idle"
    /\ \A l \in Running : IdOf[l] \in Registered

\* The writer's state follows main's.
WriterFollowsMain ==
    /\ writer = "closing" <=> mpc = "closing"
    /\ writer = "closed" <=> mpc \in {"stopped", "exited"}
    /\ mpc # "stopping" => toStop = {}

\* Once Stop is over, the map holds workers that are cancelled or came late.
MapIsStopped ==
    mpc \in {"stopped", "exited"} =>
        \A id \in Registered : workers[id] \in cancelled \cup late

RegistryInv == StopPassIsComplete /\ MapHoldsLaunched /\ WriterFollowsMain /\ MapIsStopped

IInv == TypeOK /\ SlotsAreAccounted /\ LaunchOrder /\ RegistryInv

AtWork == PC \ {"idle", "returned"}
-----------------------------------------------------------------------------
(* Counting the goroutines in flight.                                       *)

\* The goroutines in flight are finitely many, so their number is a natural.
LEMMA InFlightIsFinite == IsFiniteSet(InFlight) /\ Cardinality(InFlight) \in Nat
<1>1. IsFiniteSet(Launch)
  BY ConfigAssumption, FS_Interval DEF Launch
<1>2. IsFiniteSet(InFlight)
  BY <1>1, FS_Subset DEF InFlight
<1> QED
  BY <1>2, FS_CardinalityType

\* A goroutine that goes on working does not change their number.
LEMMA MoveKeepsInFlight ==
    ASSUME TypeOK, NEW l \in Launch, wpc[l] \in AtWork, NEW p \in AtWork, Goto(l, p)
    PROVE  InFlight' = InFlight
BY DEF TypeOK, Goto, InFlight, AtWork, PC

\* One that is launched adds one.
LEMMA LaunchAddsOne ==
    ASSUME TypeOK, NEW l \in Launch, wpc[l] = "idle", Goto(l, "build")
    PROVE  Cardinality(InFlight') = Cardinality(InFlight) + 1
<1>1. InFlight' = InFlight \cup {l} /\ l \notin InFlight
  BY DEF TypeOK, Goto, InFlight
<1> QED
  BY <1>1, InFlightIsFinite, FS_AddElement

\* One that ends takes one away, and there was one.
LEMMA ReturnRemovesOne ==
    ASSUME TypeOK, NEW l \in Launch, wpc[l] \in AtWork, Goto(l, "returned")
    PROVE  /\ Cardinality(InFlight') = Cardinality(InFlight) - 1
           /\ Cardinality(InFlight) > 0
<1>1. InFlight' = InFlight \ {l} /\ l \in InFlight
  BY DEF TypeOK, Goto, InFlight, AtWork, PC
<1>2. InFlight # {}
  BY <1>1
<1>3. Cardinality(InFlight) # 0
  BY <1>2, InFlightIsFinite, FS_EmptySet
<1>4. Cardinality(InFlight) > 0
  BY <1>3, InFlightIsFinite
<1>5. Cardinality(InFlight \ {l}) = Cardinality(InFlight) - 1
  BY <1>1, InFlightIsFinite, FS_RemoveElement
<1> QED
  BY <1>1, <1>4, <1>5
-----------------------------------------------------------------------------
(* The invariant holds initially and is preserved.                          *)

LEMMA InitIInv == Init => IInv
<1> SUFFICES ASSUME Init PROVE IInv
  OBVIOUS
<1>1. TypeOK
  <2>1. next \in 1..(N + 1) /\ sem \in 0..MaxConcurrentStarts
    BY ConfigAssumption DEF Init
  <2>2. wpc \in [Launch -> PC] /\ workers \in [StreamID -> Launch \cup {NoWorker}]
    BY DEF Init, PC
  <2> QED
    BY <2>1, <2>2 DEF Init, TypeOK
<1>2. InFlight = {} /\ Running = {} /\ Registered = {}
  BY DEF Init, InFlight, Running, Registered
<1>3. SlotsAreAccounted
  BY <1>2, FS_EmptySet DEF SlotsAreAccounted, Init
<1>4. LaunchOrder
  BY DEF Init, LaunchOrder, Launch
<1>5. RegistryInv
  BY <1>2 DEF Init, RegistryInv, StopPassIsComplete, MapHoldsLaunched, WriterFollowsMain, MapIsStopped
<1> QED
  BY <1>1, <1>3, <1>4, <1>5 DEF IInv

\* Start's steps.
LEMMA StartKeepsIInv == IInv /\ StartStep => IInv'
<1> SUFFICES ASSUME IInv, StartStep PROVE IInv'
  OBVIOUS
<1>1. CASE StartCancelled \/ StartReturns
  <2>1. TypeOK' /\ SlotsAreAccounted'
    BY <1>1 DEF IInv, StartCancelled, StartReturns, mainVars, TypeOK, SlotsAreAccounted, InFlight
  <2>2. LaunchOrder'
    BY <1>1 DEF IInv, StartCancelled, StartReturns, mainVars, TypeOK, LaunchOrder
  <2>3. RegistryInv'
    BY <1>1 DEF IInv, StartCancelled, StartReturns, mainVars, TypeOK, RegistryInv,
       StopPassIsComplete, MuHeldByStop, Registered, MapHoldsLaunched, Running,
       WriterFollowsMain, MapIsStopped
  <2> QED
    BY <2>1, <2>2, <2>3 DEF IInv
<1>2. CASE LaunchStream
  <2>1. next \in Launch /\ wpc[next] = "idle" /\ Goto(next, "build")
    BY <1>2, ConfigAssumption DEF IInv, TypeOK, LaunchStream, Launch, LaunchOrder
  <2>2. TypeOK'
    BY <1>2, <2>1, ConfigAssumption DEF IInv, TypeOK, LaunchStream, Goto, PC, mainVars, Launch
  <2>3. SlotsAreAccounted'
    BY <1>2, <2>1, LaunchAddsOne DEF IInv, SlotsAreAccounted, LaunchStream
  <2>4. LaunchOrder'
    BY <1>2, <2>1, ConfigAssumption DEF IInv, TypeOK, LaunchOrder, LaunchStream, Goto, Launch
  <2>5. RegistryInv'
    BY <1>2, <2>1 DEF IInv, TypeOK, LaunchStream, Goto, mainVars, RegistryInv, StopPassIsComplete,
       MuHeldByStop, Registered, MapHoldsLaunched, Running, WriterFollowsMain, MapIsStopped
  <2> QED
    BY <2>2, <2>3, <2>4, <2>5 DEF IInv
<1> QED
  BY <1>1, <1>2 DEF StartStep

\* The steps of a stream's goroutine that only move it on.
MoveStep(l) ==
    \/ BuildStream(l) \/ AwaitFrame(l) \/ NoFrame(l) \/ FrameReady(l)
    \/ BeginWrite(l) \/ WriteRefused(l) \/ FinishWrite(l)

LEMMA MoveKeepsIInv ==
    ASSUME IInv, NEW l \in Launch, MoveStep(l)
    PROVE  IInv'
<1> DEFINE p == wpc'[l]
<1>1. /\ wpc[l] \in AtWork /\ p \in AtWork /\ Goto(l, p)
      /\ wpc[l] \in {"loop", "read", "write", "sending"} <=> p \in {"loop", "read", "write", "sending"}
      /\ wpc[l] # "health" /\ p # "health"
      /\ UNCHANGED <<mainVars, startVars, sem, workers, health, cancelled, late, panicked>>
  BY DEF IInv, TypeOK, MoveStep, BuildStream, AwaitFrame, NoFrame, FrameReady, BeginWrite,
     WriteRefused, FinishWrite, Goto, AtWork, PC
<1> HIDE DEF p
<1>2. TypeOK'
  BY <1>1 DEF IInv, TypeOK, Goto, AtWork, mainVars, startVars
<1>3. SlotsAreAccounted'
  BY <1>1, MoveKeepsInFlight DEF IInv, SlotsAreAccounted
<1>4. LaunchOrder'
  BY <1>1 DEF IInv, TypeOK, LaunchOrder, Goto, AtWork, startVars
<1>5. RegistryInv'
  <2>1. Running' = Running /\ Registered' = Registered
    BY <1>1 DEF IInv, TypeOK, Running, Registered, Goto
  <2> QED
    BY <1>1, <2>1 DEF IInv, TypeOK, RegistryInv, StopPassIsComplete, MuHeldByStop, MapHoldsLaunched,
       WriterFollowsMain, MapIsStopped, Goto, AtWork, mainVars, startVars
<1> QED
  BY <1>2, <1>3, <1>4, <1>5 DEF IInv

\* The steps that end it.
LEMMA ReleaseKeepsIInv ==
    ASSUME IInv, NEW l \in Launch, BuildFails(l) \/ RunReturns(l) \/ RunFails(l)
    PROVE  IInv'
<1>1. /\ wpc[l] \in AtWork /\ Goto(l, "returned") /\ sem' = sem - 1
      /\ cancelled' \in {cancelled, cancelled \cup {l}}
      /\ UNCHANGED <<mainVars, startVars, workers, health, late, panicked>>
  BY DEF BuildFails, RunReturns, RunFails, Release, AtWork, PC
<1>2. TypeOK'
  <2>1. sem > 0
    BY <1>1, ReturnRemovesOne DEF IInv, SlotsAreAccounted
  <2>2. sem' \in 0..MaxConcurrentStarts
    BY <1>1, <2>1, ConfigAssumption DEF IInv, TypeOK
  <2>3. wpc' \in [Launch -> PC] /\ cancelled' \subseteq Launch
    BY <1>1 DEF IInv, TypeOK, Goto, PC
  <2> QED
    BY <1>1, <2>2, <2>3 DEF IInv, TypeOK, mainVars, startVars
<1>3. SlotsAreAccounted'
  BY <1>1, ReturnRemovesOne DEF IInv, SlotsAreAccounted
<1>4. LaunchOrder'
  BY <1>1 DEF IInv, TypeOK, LaunchOrder, Goto, AtWork, startVars
<1>5. RegistryInv'
  <2>1. Running' \subseteq Running /\ Registered' = Registered
    BY <1>1 DEF IInv, TypeOK, Running, Registered, Goto
  <2> QED
    BY <1>1, <2>1 DEF IInv, TypeOK, RegistryInv, StopPassIsComplete, MuHeldByStop, MapHoldsLaunched,
       WriterFollowsMain, MapIsStopped, Goto, AtWork, mainVars, startVars
<1> QED
  BY <1>2, <1>3, <1>4, <1>5 DEF IInv

\* Registration: the map grows, or another worker of the same id takes the place.
LEMMA RegisterKeepsIInv ==
    ASSUME IInv, NEW l \in Launch, ~Ended, RegisterWorker(l)
    PROVE  IInv'
<1>1. wpc[l] \in AtWork /\ "health" \in AtWork /\ Goto(l, "health") /\ IdOf[l] \in StreamID
  BY ConfigAssumption DEF RegisterWorker, AtWork, PC
<1>2. TypeOK'
  BY <1>1, ConfigAssumption DEF IInv, TypeOK, RegisterWorker, Goto, PC, mainVars, startVars
<1>3. SlotsAreAccounted'
  BY <1>1, MoveKeepsInFlight DEF IInv, SlotsAreAccounted, RegisterWorker
<1>4. LaunchOrder'
  BY <1>1 DEF IInv, TypeOK, LaunchOrder, RegisterWorker, Goto, startVars, AtWork
<1>5. Registered' = Registered \cup {IdOf[l]} /\ Running' = Running \cup {l}
  BY <1>1, ConfigAssumption DEF IInv, TypeOK, RegisterWorker, Registered, Running, Goto, NoWorker, Launch
<1>6. MapHoldsLaunched'
  BY <1>1, <1>5, ConfigAssumption DEF IInv, TypeOK, RegistryInv, MapHoldsLaunched, RegisterWorker,
     Goto, mainVars
<1>7. MapIsStopped'
  BY <1>1, <1>5 DEF IInv, TypeOK, RegistryInv, MapIsStopped, RegisterWorker, mainVars, Ended
<1>8. StopPassIsComplete' /\ WriterFollowsMain'
  BY DEF IInv, RegistryInv, StopPassIsComplete, MuHeldByStop, WriterFollowsMain, RegisterWorker, mainVars
<1> QED
  BY <1>2, <1>3, <1>4, <1>6, <1>7, <1>8 DEF IInv, RegistryInv

LEMMA HealthKeepsIInv ==
    ASSUME IInv, NEW l \in Launch, RegisterHealth(l)
    PROVE  IInv'
<1>1. wpc[l] \in AtWork /\ "loop" \in AtWork /\ Goto(l, "loop") /\ IdOf[l] \in StreamID
  BY ConfigAssumption DEF RegisterHealth, AtWork, PC
<1>2. TypeOK'
  BY <1>1 DEF IInv, TypeOK, RegisterHealth, Goto, PC, mainVars, startVars
<1>3. SlotsAreAccounted'
  BY <1>1, MoveKeepsInFlight DEF IInv, SlotsAreAccounted, RegisterHealth
<1>4. LaunchOrder'
  BY <1>1 DEF IInv, TypeOK, LaunchOrder, RegisterHealth, Goto, startVars, AtWork
<1>5. RegistryInv'
  <2>1. Running' = Running /\ Registered' = Registered
    BY <1>1 DEF IInv, TypeOK, Running, Registered, Goto, RegisterHealth
  <2> QED
    BY <1>1, <2>1 DEF IInv, TypeOK, RegistryInv, StopPassIsComplete, MuHeldByStop, MapHoldsLaunched,
       WriterFollowsMain, MapIsStopped, Goto, AtWork, mainVars, startVars, RegisterHealth
<1> QED
  BY <1>2, <1>3, <1>4, <1>5 DEF IInv

\* Main's steps and Stop's.
LEMMA MainKeepsIInv ==
    ASSUME IInv, Signal \/ StopStep \/ Exit
    PROVE  IInv'
<1>1. /\ UNCHANGED <<startVars, sem, wpc, workers, late, panicked>>
      /\ InFlight' = InFlight /\ Running' = Running /\ Registered' = Registered
  BY DEF Signal, StopStep, StopLock, StopWorker, BeginClose, FinishClose, Exit, startVars,
     InFlight, Running, Registered
<1>2. SlotsAreAccounted' /\ LaunchOrder'
  BY <1>1 DEF IInv, SlotsAreAccounted, LaunchOrder, startVars
<1>3. CASE Signal \/ StopLock \/ BeginClose \/ FinishClose \/ Exit
  <2>1. TypeOK'
    BY <1>1, <1>3 DEF IInv, TypeOK, Signal, StopLock, BeginClose, FinishClose, Exit, startVars, Registered
  <2>2. RegistryInv'
    BY <1>1, <1>3 DEF IInv, TypeOK, RegistryInv, StopPassIsComplete, MuHeldByStop, MapHoldsLaunched,
       WriterFollowsMain, MapIsStopped, Signal, StopLock, BeginClose, FinishClose, Exit, startVars
  <2> QED
    BY <1>2, <2>1, <2>2 DEF IInv
<1>4. ASSUME NEW id \in StreamID, StopWorker(id) PROVE IInv'
  <2>1. workers[id] \in Launch
    BY <1>4 DEF IInv, TypeOK, RegistryInv, MapHoldsLaunched, StopWorker, Registered
  <2>2. TypeOK'
    BY <1>1, <1>4, <2>1 DEF IInv, TypeOK, StopWorker, startVars
  <2>3. RegistryInv'
    BY <1>1, <1>4 DEF IInv, TypeOK, RegistryInv, StopPassIsComplete, MuHeldByStop, MapHoldsLaunched,
       WriterFollowsMain, MapIsStopped, StopWorker, startVars
  <2> QED
    BY <1>2, <2>2, <2>3 DEF IInv
<1> QED
  BY <1>3, <1>4 DEF StopStep

LEMMA StepKeepsIInv == IInv /\ [Next]_vars => IInv'
<1> SUFFICES ASSUME IInv, [Next]_vars PROVE IInv'
  OBVIOUS
<1>1. CASE UNCHANGED vars
  BY <1>1 DEF vars, mainVars, startVars, IInv, TypeOK, SlotsAreAccounted, InFlight, LaunchOrder,
     RegistryInv, StopPassIsComplete, MuHeldByStop, Registered, MapHoldsLaunched, Running,
     WriterFollowsMain, MapIsStopped
<1>2. ASSUME NEW l \in Launch, ~Ended, StreamStep(l) PROVE IInv'
  <2>1. CASE WritePanics(l)
    BY <2>1 DEF WritePanics, mainVars, startVars, IInv, TypeOK, SlotsAreAccounted, InFlight,
       LaunchOrder, RegistryInv, StopPassIsComplete, MuHeldByStop, Registered, MapHoldsLaunched,
       Running, WriterFollowsMain, MapIsStopped
  <2> QED
    BY <1>2, <2>1, MoveKeepsIInv, ReleaseKeepsIInv, RegisterKeepsIInv, HealthKeepsIInv
       DEF StreamStep, LeaveRead, MoveStep
<1> QED
  BY <1>1, <1>2, StartKeepsIInv, MainKeepsIInv DEF Next, Step, Terminated

THEOREM InductiveInvariant == Spec => []IInv
BY InitIInv, StepKeepsIInv, PTL DEF Spec
-----------------------------------------------------------------------------
(* What follows from it.                                                    *)

\* The types; in particular at most MaxConcurrentStarts slots are ever taken.
THEOREM TypeCorrect == Spec => []TypeOK
<1>1. IInv => TypeOK
  BY DEF IInv
<1> QED
  BY <1>1, InductiveInvariant, PTL

\* manager.go:54: every slot taken belongs to a goroutine in flight and back.
THEOREM SlotsAccounted == Spec => []SlotsAreAccounted
<1>1. IInv => SlotsAreAccounted
  BY DEF IInv
<1> QED
  BY <1>1, InductiveInvariant, PTL

\* manager.go:118-126: no registration slips in behind Stop's loop over the map.
THEOREM StopPassComplete == Spec => []StopPassIsComplete
<1>1. IInv => StopPassIsComplete
  BY DEF IInv, RegistryInv
<1> QED
  BY <1>1, InductiveInvariant, PTL

\* manager.go:96-98, 118-131: a worker that outlives Stop registered after it or
\* was replaced in the map by the worker of another entry with its id.
THEOREM UnstoppedExplained == Spec => []UnstoppedIsExplained
<1>1. IInv => UnstoppedIsExplained
  <2> SUFFICES ASSUME IInv, mpc \in {"stopped", "exited"},
                      NEW l \in Running \ (cancelled \cup late)
               PROVE  workers[IdOf[l]] \in Launch \ {l}
    BY DEF UnstoppedIsExplained
  <2> DEFINE k == workers[IdOf[l]]
  <2>1. IdOf[l] \in Registered
    BY DEF IInv, RegistryInv, MapHoldsLaunched
  <2>2. k \in Launch
    BY <2>1 DEF IInv, TypeOK, Registered
  <2>3. k \in cancelled \cup late
    BY <2>1 DEF IInv, RegistryInv, MapIsStopped
  <2> QED
    BY <2>2, <2>3
<1> QED
  BY <1>1, InductiveInvariant, PTL

\* manager.go:122-130: the shared writer is closed after every worker in the map
\* was told to stop, and stays closed.
THEOREM CloseIsLast == Spec => CloseComesLast
<1>1. IInv /\ [Next]_vars =>
        [/\ writer = "open" /\ writer' # "open" => \A id \in Registered : workers[id] \in cancelled
         /\ writer = "closed" => writer' = "closed"]_vars
  <2> SUFFICES ASSUME IInv, Next, writer' # writer
               PROVE  /\ writer = "open" /\ writer' # "open" =>
                            \A id \in Registered : workers[id] \in cancelled
                      /\ writer = "closed" => writer' = "closed"
    BY DEF vars, mainVars
  <2>1. BeginClose \/ FinishClose
    BY DEF Next, Step, Terminated, vars, mainVars, StartStep, StartCancelled, LaunchStream,
       StartReturns, StreamStep, LeaveRead, BuildStream, BuildFails, RegisterWorker,
       RegisterHealth, RunReturns, AwaitFrame, RunFails, NoFrame, FrameReady, BeginWrite,
       WriteRefused, WritePanics, FinishWrite, Signal, StopStep, StopLock, StopWorker, Exit
  <2> QED
    BY <2>1 DEF IInv, RegistryInv, StopPassIsComplete, MuHeldByStop, WriterFollowsMain,
       BeginClose, FinishClose
<1> QED
  BY <1>1, InductiveInvariant, PTL DEF Spec, CloseComesLast
=============================================================================
