------------------------ MODULE TrackManager_proofs ------------------------
(***************************************************************************)
(* Proofs about match for any boxes, threshold, maxLost and number of       *)
(* detections.  What decides whether two boxes overlap enough is nowhere    *)
(* expanded: the theorems hold for any way of comparing them.               *)
(***************************************************************************)
EXTENDS TrackManager, FiniteSetTheorems, FunctionTheorems, TLAPS

\* An id given in this frame is that of a used track or of a new one, and an id
\* given twice is that of a used track.
GivenIds ==
    /\ \A i \in 1..Len(ids) : ids[i] \in used \/ ids[i] >= firstNew
    /\ \A i, j \in 1..Len(ids) : i < j /\ ids[i] = ids[j] => ids[i] \in used

\* Before the first detection of a frame, nothing is used or new, and the only
\* detection of the frame before has its track.
FrameBegins ==
    pc = "match" /\ Len(ids) = 0 =>
        /\ nextID = firstNew /\ used = {}
        /\ Len(prev) = 1 => \E id \in DOMAIN tracks : tracks[id].box = prev[1]

\* The only detection of a frame has its track, and the clean-up keeps it.
OnlyFaceIsTracked ==
    Len(dets) = 1 /\ Len(ids) = 1 =>
        /\ ids[1] \in DOMAIN tracks /\ tracks[ids[1]].box = dets[1]
        /\ pc = "match" => tracks[ids[1]].lost = 0

IdleIsDone == pc = "idle" => Len(ids) = Len(dets)

\* ContinuousFaceKeepsTrack, from the moment the detection has its id.
OnlyFaceIsFollowed ==
    Len(prev) = 1 /\ Len(dets) = 1 /\ Len(ids) = 1 /\ Matches(dets[1], prev[1])
        => ids[1] < firstNew

\* The tracks given to detections of the call that runs.
Given == IF pc = "match" THEN {ids[i] : i \in 1..Len(ids)} ELSE {}

\* A detection of one of the last maxLost + 1 calls: how many calls ago, and which.
Place == (0..MaxLost) \X (1..MaxDets)

\* f finds for each track the last detection it was given to.  A track that is lost
\* for n calls was given at least n calls ago: the new ones count their own.
IsPlacing(f) ==
    /\ f \in [DOMAIN tracks \ Given -> Place]
    /\ \A j, k \in DOMAIN tracks \ Given : f[j] = f[k] => j = k
    /\ \A k \in DOMAIN tracks \ Given : f[k][1] <= tracks[k].lost

HavePlaces == \E f : IsPlacing(f)

UsedIsGiven == pc = "match" => used \subseteq Given

BoundInv    == HavePlaces /\ UsedIsGiven
SharingInv  == TypeOK /\ GivenIds /\ SharingOnlyOfNewTracks
FollowInv   == FrameBegins /\ OnlyFaceIsTracked /\ IdleIsDone /\ OnlyFaceIsFollowed
-----------------------------------------------------------------------------
(* Typing.                                                                  *)

LEMMA InitTypeOK == Init => TypeOK
<1> SUFFICES ASSUME Init PROVE TypeOK
  OBVIOUS
<1>1. frames \in 0..MaxFrames /\ Len(dets) <= MaxDets /\ MaxDets \in Nat
  BY TrackerAssumption DEF Init
<1>2. DOMAIN tracks = {}
  BY DEF Init
<1> QED
  BY <1>1, <1>2 DEF Init, TypeOK

\* What Seen returns.
LEMMA SeenTracks ==
  ASSUME TypeOK, NEW id \in Nat \ {0}, NEW b \in Box
  PROVE  /\ DOMAIN Seen(id, b) = DOMAIN tracks \cup {id}
         /\ Seen(id, b)[id] = [box |-> b, lost |-> 0]
         /\ \A k \in DOMAIN tracks : k # id => Seen(id, b)[k] = tracks[k]
         /\ \A k \in DOMAIN Seen(id, b) : IsTrack(Seen(id, b)[k])
<1>1. IsTrack([box |-> b, lost |-> 0])
  BY TrackerAssumption DEF IsTrack
<1> QED
  BY <1>1 DEF Seen, TypeOK

LEMMA CurrentIsBox ==
  ASSUME TypeOK, Len(ids) < Len(dets)
  PROVE  Current \in Box /\ Len(ids) + 1 \in 1..Len(dets)
<1>1. Len(ids) + 1 \in 1..Len(dets) /\ dets \in Seq(Box)
  BY DEF TypeOK
<1> QED
  BY <1>1 DEF Current

\* What the clean-up keeps, and that it keeps what was used.
LEMMA CleanupTracks ==
  ASSUME TypeOK, Cleanup
  PROVE  /\ DOMAIN tracks' = {k \in DOMAIN tracks : Aged(k).lost <= MaxLost}
         /\ \A k \in DOMAIN tracks' : tracks'[k] = Aged(k) /\ IsTrack(tracks'[k])
         /\ \A k \in DOMAIN tracks : tracks[k].box = Aged(k).box
         /\ \A k \in used : k \in DOMAIN tracks'
<1>1. MaxLost \in Nat
  BY TrackerAssumption
<1>2. ASSUME NEW k \in DOMAIN tracks
      PROVE  /\ Aged(k) \in [box : Box, lost : Nat]
             /\ Aged(k).box = tracks[k].box
             /\ k \in used => Aged(k) = tracks[k] /\ tracks[k].lost <= MaxLost
  <2>1. tracks[k] \in [box : Box, lost : 0..MaxLost]
    BY DEF TypeOK, IsTrack
  <2>2. tracks[k].lost \in 0..MaxLost /\ tracks[k].box \in Box
    BY <2>1
  <2>3. CASE k \in used
    BY <1>1, <2>1, <2>2, <2>3 DEF Aged
  <2>4. CASE k \notin used
    <3>1. Aged(k) = [tracks[k] EXCEPT !.lost = tracks[k].lost + 1]
      BY <2>4 DEF Aged
    <3>2. Aged(k) = [box |-> tracks[k].box, lost |-> tracks[k].lost + 1]
      BY <2>1, <3>1
    <3> QED
      BY <1>1, <2>2, <2>4, <3>2
  <2> QED
    BY <2>3, <2>4
<1>3. /\ DOMAIN tracks' = {k \in DOMAIN tracks : Aged(k).lost <= MaxLost}
      /\ \A k \in DOMAIN tracks' : tracks'[k] = Aged(k)
  BY DEF Cleanup
<1>4. used \subseteq DOMAIN tracks
  BY DEF TypeOK
<1>5. ASSUME NEW k \in DOMAIN tracks' PROVE IsTrack(tracks'[k])
  <2>1. k \in DOMAIN tracks /\ Aged(k).lost <= MaxLost /\ tracks'[k] = Aged(k)
    BY <1>3
  <2>2. Aged(k) \in [box : Box, lost : Nat]
    BY <1>2, <2>1
  <2> QED
    BY <1>1, <2>1, <2>2 DEF IsTrack
<1>6. \A k \in used : Aged(k).lost <= MaxLost
  BY <1>2, <1>4
<1> QED
  BY <1>2, <1>3, <1>4, <1>5, <1>6

LEMMA NextTypeOK == TypeOK /\ [Next]_vars => TypeOK'
<1> SUFFICES ASSUME TypeOK, [Next]_vars PROVE TypeOK'
  OBVIOUS
<1>1. ASSUME NEW ds \in Scenes, BeginMatch(ds) PROVE TypeOK'
  <2>1. ds \in Seq(Box) /\ Len(ds) <= MaxDets /\ MaxFrames \in Nat
    BY TrackerAssumption
  <2>2. ids' = <<>> /\ Len(ids') = 0 /\ Len(ds) \in Nat
    BY <1>1, <2>1 DEF BeginMatch
  <2>3. frames' \in 0..MaxFrames /\ firstNew' \in 1..nextID'
    BY <1>1, <2>1 DEF BeginMatch, TypeOK
  <2> QED
    BY <1>1, <2>1, <2>2, <2>3 DEF BeginMatch, TypeOK
<1>2. ASSUME NEW id \in DOMAIN tracks, AssignTrack(id) PROVE TypeOK'
  <2>1. id \in 1..(nextID - 1) /\ id \in Nat \ {0} /\ Current \in Box
    BY <1>2, CurrentIsBox DEF TypeOK, AssignTrack
  <2>2. ids' \in Seq(1..(nextID' - 1)) /\ Len(ids') = Len(ids) + 1
    BY <1>2, <2>1 DEF AssignTrack, TypeOK
  <2>3. Len(ids') <= Len(dets')
    BY <1>2, <2>2 DEF AssignTrack, TypeOK
  <2>4. /\ DOMAIN tracks' = DOMAIN tracks \cup {id}
        /\ \A k \in DOMAIN tracks' : IsTrack(tracks'[k])
    BY <1>2, <2>1, SeenTracks DEF AssignTrack
  <2> QED
    BY <1>2, <2>1, <2>2, <2>3, <2>4 DEF AssignTrack, TypeOK
<1>3. CASE NewTrack
  <2>1. nextID \in Nat \ {0} /\ Current \in Box /\ nextID' = nextID + 1
    BY <1>3, CurrentIsBox DEF TypeOK, NewTrack
  <2>2. ids' \in Seq(1..(nextID' - 1)) /\ Len(ids') = Len(ids) + 1
    <3>1. ids \in Seq(1..nextID) /\ nextID \in 1..nextID /\ nextID' - 1 = nextID
      <4>1. 1..(nextID - 1) \subseteq 1..nextID
        BY <2>1
      <4> QED
        BY <2>1, <4>1 DEF TypeOK
    <3> QED
      BY <1>3, <3>1 DEF NewTrack
  <2>3. Len(ids') <= Len(dets')
    BY <1>3, <2>2 DEF NewTrack, TypeOK
  <2>4. /\ DOMAIN tracks' = DOMAIN tracks \cup {nextID}
        /\ \A k \in DOMAIN tracks' : IsTrack(tracks'[k])
    BY <1>3, <2>1, SeenTracks DEF NewTrack
  <2>5. DOMAIN tracks' \subseteq 1..(nextID' - 1) /\ used' \subseteq DOMAIN tracks'
    BY <1>3, <2>1, <2>4 DEF NewTrack, TypeOK
  <2>6. firstNew' \in 1..nextID' /\ nextID' \in Nat \ {0}
    BY <1>3, <2>1 DEF NewTrack, TypeOK
  <2> QED
    BY <1>3, <2>2, <2>3, <2>4, <2>5, <2>6 DEF NewTrack, TypeOK
<1>4. CASE Cleanup
  <2>1. DOMAIN tracks' \subseteq DOMAIN tracks /\ used \subseteq DOMAIN tracks'
    BY <1>4, CleanupTracks
  <2>2. \A k \in DOMAIN tracks' : IsTrack(tracks'[k])
    BY <1>4, CleanupTracks
  <2> QED
    BY <1>4, <2>1, <2>2 DEF Cleanup, TypeOK
<1>5. CASE Bounded \/ UNCHANGED vars
  <2>1. UNCHANGED vars
    BY <1>5 DEF Bounded
  <2> QED
    BY <2>1 DEF vars, TypeOK, IsTrack
<1> QED
  BY <1>1, <1>2, <1>3, <1>4, <1>5 DEF Next

\* Every reachable state of match is well typed: ids given and used belong to
\* tracks created before, no track outlives maxLost (iou.go).
THEOREM TypeCorrect == Spec => []TypeOK
  BY InitTypeOK, NextTypeOK, PTL DEF Spec
-----------------------------------------------------------------------------
(* Sharing.                                                                 *)

LEMMA InitSharing == Init => GivenIds /\ SharingOnlyOfNewTracks
  BY DEF Init, GivenIds, SharingOnlyOfNewTracks

LEMMA NextSharing == SharingInv /\ [Next]_vars => SharingInv'
<1> SUFFICES ASSUME SharingInv, [Next]_vars PROVE SharingInv'
  OBVIOUS
<1>1. TypeOK /\ TypeOK'
  BY NextTypeOK DEF SharingInv
<1>2. ids \in Seq(1..(nextID - 1)) /\ Len(ids) \in Nat /\ nextID \in Nat /\ firstNew \in 1..nextID
  BY <1>1 DEF TypeOK
<1>3. ASSUME NEW ds \in Scenes, BeginMatch(ds) PROVE (GivenIds /\ SharingOnlyOfNewTracks)'
  BY <1>3 DEF BeginMatch, GivenIds, SharingOnlyOfNewTracks
<1>4. ASSUME NEW id \in DOMAIN tracks, AssignTrack(id)
      PROVE (GivenIds /\ SharingOnlyOfNewTracks)'
  <2>1. id \notin used /\ used' = used \cup {id} /\ firstNew' = firstNew
    BY <1>4 DEF AssignTrack, Best, Candidates
  <2>2. /\ Len(ids') = Len(ids) + 1 /\ ids'[Len(ids) + 1] = id
        /\ \A i \in 1..Len(ids) : ids'[i] = ids[i]
    BY <1>1, <1>2, <1>4 DEF AssignTrack, TypeOK
  <2>3. 1..Len(ids') = (1..Len(ids)) \cup {Len(ids) + 1}
    BY <1>2, <2>2
  <2>4. \A i \in 1..Len(ids) : ids[i] = id => ids[i] >= firstNew
    BY <2>1 DEF SharingInv, GivenIds
  <2>5. \A i, j \in 1..Len(ids) : ids[i] = id /\ ids[j] = id => i = j
    BY <1>2, <2>1 DEF SharingInv, GivenIds
  <2>6. GivenIds'
    BY <1>2, <2>1, <2>2, <2>3 DEF SharingInv, GivenIds
  <2>7. SharingOnlyOfNewTracks'
    <3> SUFFICES ASSUME NEW i \in 1..Len(ids'), NEW j \in 1..Len(ids'), i < j, ids'[i] = ids'[j]
                 PROVE  /\ ids'[i] >= firstNew'
                        /\ \A k \in (1..Len(ids')) \ {i, j} : ids'[k] # ids'[i]
      BY DEF SharingOnlyOfNewTracks
    <3>1. i \in 1..Len(ids)
      BY <1>2, <2>3
    <3>2. CASE j = Len(ids) + 1
      BY <2>1, <2>2, <2>3, <2>4, <2>5, <3>1, <3>2
    <3>3. CASE j \in 1..Len(ids)
      <4>1. ids[i] \in used
        BY <2>2, <3>1, <3>3 DEF SharingInv, GivenIds
      <4>2. /\ ids[i] >= firstNew
            /\ \A k \in (1..Len(ids)) \ {i, j} : ids[k] # ids[i]
        BY <2>2, <3>1, <3>3 DEF SharingInv, SharingOnlyOfNewTracks
      <4> QED
        BY <2>1, <2>2, <2>3, <3>1, <4>1, <4>2
    <3> QED
      BY <2>3, <3>2, <3>3
  <2> QED
    BY <2>6, <2>7
<1>5. CASE NewTrack
  <2>1. used' = used /\ firstNew' = firstNew
    BY <1>5 DEF NewTrack
  <2>2. /\ Len(ids') = Len(ids) + 1 /\ ids'[Len(ids) + 1] = nextID
        /\ \A i \in 1..Len(ids) : ids'[i] = ids[i]
    BY <1>1, <1>2, <1>5 DEF NewTrack, TypeOK
  <2>3. 1..Len(ids') = (1..Len(ids)) \cup {Len(ids) + 1}
    BY <1>2, <2>2
  <2>4. \A i \in 1..Len(ids) : ids'[i] # nextID
    BY <1>2, <2>2
  <2>5. \A i, j \in 1..Len(ids') : i < j /\ ids'[i] = ids'[j] =>
            i \in 1..Len(ids) /\ j \in 1..Len(ids)
    BY <1>2, <2>2, <2>3, <2>4
  <2>6. \A i \in 1..Len(ids') : ids'[i] \in used' \/ ids'[i] >= firstNew'
    BY <1>2, <2>1, <2>2, <2>3 DEF SharingInv, GivenIds
  <2>7. \A i, j \in 1..Len(ids') : i < j /\ ids'[i] = ids'[j] => ids'[i] \in used'
    BY <2>1, <2>2, <2>5 DEF SharingInv, GivenIds
  <2>8. SharingOnlyOfNewTracks'
    BY <2>1, <2>2, <2>3, <2>4, <2>5 DEF SharingInv, SharingOnlyOfNewTracks
  <2> QED
    BY <1>1, <2>6, <2>7, <2>8 DEF SharingInv, GivenIds
<1>6. ASSUME UNCHANGED <<ids, used, firstNew>> PROVE (GivenIds /\ SharingOnlyOfNewTracks)'
  BY <1>6 DEF SharingInv, GivenIds, SharingOnlyOfNewTracks
<1>7. CASE Cleanup \/ Bounded \/ UNCHANGED vars
  BY <1>1, <1>6, <1>7 DEF Cleanup, Bounded, vars, SharingInv
<1> QED
  BY <1>1, <1>3, <1>4, <1>5, <1>7 DEF Next, SharingInv

\* Two detections of a frame share an id only if its track was created in that
\* frame, and no third one joins them, for any boxes and threshold (iou.go:54, 67).
THEOREM SharingIsOfNewTracks == Spec => []SharingOnlyOfNewTracks
<1>1. Init => SharingInv
  BY InitTypeOK, InitSharing DEF SharingInv
<1>2. SharingInv => SharingOnlyOfNewTracks
  BY DEF SharingInv
<1> QED
  BY <1>1, <1>2, NextSharing, PTL DEF Spec
-----------------------------------------------------------------------------
(* Ids.                                                                     *)

LEMMA StepNeverReuses ==
  ASSUME TypeOK, Next, NEW id \in 1..(nextID - 1), id \notin DOMAIN tracks
  PROVE  id \notin DOMAIN tracks'
<1>1. ASSUME NEW k \in DOMAIN tracks, AssignTrack(k) PROVE DOMAIN tracks' = DOMAIN tracks
  BY <1>1 DEF AssignTrack, Seen
<1>2. CASE NewTrack
  <2>1. DOMAIN tracks' = DOMAIN tracks \cup {nextID} /\ id # nextID
    BY <1>2 DEF NewTrack, Seen, TypeOK
  <2> QED
    BY <2>1
<1>3. CASE Cleanup
  BY <1>3 DEF Cleanup
<1>4. ASSUME UNCHANGED tracks PROVE id \notin DOMAIN tracks'
  BY <1>4
<1> QED
  BY <1>1, <1>2, <1>3, <1>4 DEF Next, BeginMatch, Bounded, vars

\* An id whose track is gone is never the id of a track again (iou.go:69-71).
THEOREM IdsAreFresh == Spec => IdsAreNeverReused
<1>1. TypeOK /\ [Next]_vars
        => [\A id \in 1..(nextID - 1) : id \notin DOMAIN tracks => id \notin DOMAIN tracks']_vars
  BY StepNeverReuses
<1> QED
  BY <1>1, TypeCorrect, PTL DEF Spec, IdsAreNeverReused
-----------------------------------------------------------------------------
(* Following.                                                               *)

LEMMA InitFollow == Init => FollowInv
  BY DEF Init, FollowInv, FrameBegins, OnlyFaceIsTracked, IdleIsDone, OnlyFaceIsFollowed

\* A call begins with the tracks the one before left.
LEMMA BeginFollow ==
  ASSUME TypeOK, FollowInv, NEW ds \in Scenes, BeginMatch(ds)
  PROVE  FollowInv'
<1>1. Len(ids') = 0 /\ pc' = "match" /\ tracks' = tracks /\ prev' = dets
      /\ nextID' = firstNew' /\ used' = {}
  BY DEF BeginMatch
<1>2. Len(dets) = 1 => Len(ids) = 1
  BY DEF BeginMatch, FollowInv, IdleIsDone
<1>3. FrameBegins'
  BY <1>1, <1>2 DEF FrameBegins, FollowInv, OnlyFaceIsTracked
<1> QED
  BY <1>1, <1>3 DEF FollowInv, OnlyFaceIsTracked, IdleIsDone, OnlyFaceIsFollowed

\* The first detection is given the track id, which then has its box.
LEMMA FirstIsTracked ==
  ASSUME TypeOK, pc = "match", NEW id \in Nat \ {0},
         Len(ids) < Len(dets), Len(ids') = Len(ids) + 1, Len(ids) = 0 => ids'[1] = id,
         tracks' = Seen(id, Current), dets' = dets
  PROVE  OnlyFaceIsTracked'
<1> SUFFICES ASSUME Len(dets) = 1, Len(ids') = 1
             PROVE /\ ids'[1] \in DOMAIN tracks' /\ tracks'[ids'[1]].box = dets[1]
                   /\ tracks'[ids'[1]].lost = 0
  BY DEF OnlyFaceIsTracked
<1>1. Len(ids) = 0 /\ Current = dets[1] /\ Current \in Box
  BY CurrentIsBox DEF Current, TypeOK
<1>2. ids'[1] = id
  BY <1>1
<1>3. id \in DOMAIN tracks' /\ tracks'[id] = [box |-> Current, lost |-> 0]
  BY <1>1, SeenTracks
<1> QED
  BY <1>1, <1>2, <1>3

LEMMA AssignFollow ==
  ASSUME TypeOK, FollowInv, NEW id \in DOMAIN tracks, AssignTrack(id)
  PROVE  FollowInv'
<1>1. ids \in Seq(1..(nextID - 1)) /\ id \in 1..(nextID - 1) /\ nextID \in Nat /\ Len(ids) \in Nat
  BY DEF TypeOK
<1>2. ids' = Append(ids, id) /\ Len(ids') = Len(ids) + 1 /\ (Len(ids) = 0 => ids'[1] = id)
  BY <1>1 DEF AssignTrack
<1>3. OnlyFaceIsTracked'
  BY <1>1, <1>2, FirstIsTracked DEF AssignTrack
<1>4. OnlyFaceIsFollowed'
  <2> SUFFICES ASSUME Len(ids') = 1 PROVE ids'[1] < firstNew'
    BY DEF OnlyFaceIsFollowed
  <2>1. Len(ids) = 0 /\ nextID = firstNew /\ firstNew' = firstNew
    BY <1>1, <1>2 DEF AssignTrack, FollowInv, FrameBegins
  <2> QED
    BY <1>1, <1>2, <2>1
<1>5. FrameBegins' /\ IdleIsDone'
  BY <1>1, <1>2 DEF AssignTrack, FrameBegins, IdleIsDone
<1> QED
  BY <1>3, <1>4, <1>5 DEF FollowInv

\* A new track for the only detection means that the one before is elsewhere.
LEMMA NewFollow ==
  ASSUME TypeOK, FollowInv, NewTrack
  PROVE  FollowInv'
<1>1. ids \in Seq(1..(nextID - 1)) /\ nextID \in Nat \ {0} /\ Len(ids) \in Nat
  BY DEF TypeOK
<1>2. ids' = Append(ids, nextID) /\ Len(ids') = Len(ids) + 1 /\ (Len(ids) = 0 => ids'[1] = nextID)
  BY <1>1 DEF NewTrack
<1>3. OnlyFaceIsTracked'
  BY <1>1, <1>2, FirstIsTracked DEF NewTrack
<1>4. OnlyFaceIsFollowed'
  <2> SUFFICES ASSUME Len(prev) = 1, Len(dets) = 1, Len(ids') = 1, Matches(dets[1], prev[1])
               PROVE FALSE
    BY DEF OnlyFaceIsFollowed, NewTrack
  <2>1. Len(ids) = 0 /\ Current = dets[1] /\ pc = "match" /\ Candidates = {} /\ used = {}
    BY <1>1, <1>2 DEF NewTrack, Current, FollowInv, FrameBegins
  <2>2. PICK id \in DOMAIN tracks : tracks[id].box = prev[1]
    BY <2>1 DEF FollowInv, FrameBegins
  <2>3. id \in Candidates
    BY <2>1, <2>2 DEF Candidates
  <2> QED
    BY <2>1, <2>3
<1>5. FrameBegins' /\ IdleIsDone'
  BY <1>1, <1>2 DEF NewTrack, FrameBegins, IdleIsDone
<1> QED
  BY <1>3, <1>4, <1>5 DEF FollowInv

\* The track of the only detection is at most one frame old, which maxLost allows.
LEMMA CleanupFollow ==
  ASSUME TypeOK, FollowInv, Cleanup
  PROVE  FollowInv'
<1>1. pc = "match" /\ pc' = "idle" /\ UNCHANGED <<dets, ids, prev, firstNew>>
      /\ Len(ids) = Len(dets)
  BY DEF Cleanup
<1>2. OnlyFaceIsTracked'
  <2> SUFFICES ASSUME Len(dets) = 1, Len(ids) = 1
               PROVE ids[1] \in DOMAIN tracks' /\ tracks'[ids[1]].box = dets[1]
    BY <1>1 DEF OnlyFaceIsTracked
  <2> DEFINE id == ids[1]
  <2>1. id \in DOMAIN tracks /\ tracks[id].box = dets[1] /\ tracks[id].lost = 0
    BY <1>1 DEF FollowInv, OnlyFaceIsTracked
  <2>2. tracks[id] \in [box : Box, lost : 0..MaxLost] /\ MaxLost \in Nat \ {0}
    BY <2>1, TrackerAssumption DEF TypeOK, IsTrack
  <2>3. Aged(id).lost <= MaxLost
    BY <2>1, <2>2 DEF Aged
  <2> QED
    BY <2>1, <2>3, CleanupTracks
<1> QED
  BY <1>1, <1>2 DEF FollowInv, FrameBegins, IdleIsDone, OnlyFaceIsFollowed

LEMMA NextFollow == TypeOK /\ FollowInv /\ [Next]_vars => FollowInv'
<1>1. ASSUME FollowInv, Bounded \/ UNCHANGED vars PROVE FollowInv'
  BY <1>1 DEF Bounded, vars, FollowInv, FrameBegins, OnlyFaceIsTracked, IdleIsDone,
              OnlyFaceIsFollowed
<1> QED
  BY <1>1, BeginFollow, AssignFollow, NewFollow, CleanupFollow DEF Next

\* A face seen alone in two frames in a row, in boxes that overlap enough, keeps its
\* id, whatever the other tracks are (iou.go:52-83).
THEOREM FaceIsFollowed == Spec => []ContinuousFaceKeepsTrack
<1>1. FollowInv => ContinuousFaceKeepsTrack
  BY DEF FollowInv, OnlyFaceIsFollowed, IdleIsDone, ContinuousFaceKeepsTrack
<1> QED
  BY <1>1, TypeCorrect, InitFollow, NextFollow, PTL DEF Spec
-----------------------------------------------------------------------------
(* Bounded memory.                                                          *)

LEMMA InitBound == Init => BoundInv
<1> SUFFICES ASSUME Init PROVE BoundInv
  OBVIOUS
<1>1. DOMAIN tracks \ Given = {} /\ pc = "idle"
  BY DEF Init
<1>2. IsPlacing([k \in {} |-> k])
  BY <1>1 DEF IsPlacing
<1> QED
  BY <1>1, <1>2 DEF BoundInv, HavePlaces, UsedIsGiven

\* A track that is given to a detection needs its old place no more.
LEMMA GiveBound ==
  ASSUME TypeOK, BoundInv, NEW id \in Nat \ {0},
         pc = "match", pc' = "match", ids' = Append(ids, id), tracks' = Seen(id, Current),
         Len(ids) < Len(dets), used' \subseteq used \cup {id}
  PROVE  BoundInv'
<1>1. ids \in Seq(Nat) /\ Len(ids) \in Nat
  <2>1. 1..(nextID - 1) \subseteq Nat
    BY DEF TypeOK
  <2> QED
    BY <2>1 DEF TypeOK
<1>2. /\ Len(ids') = Len(ids) + 1 /\ ids'[Len(ids) + 1] = id
      /\ \A i \in 1..Len(ids) : ids'[i] = ids[i]
  BY <1>1
<1>3. Given' = Given \cup {id}
  <2>1. Given' = {ids'[i] : i \in 1..(Len(ids) + 1)}
    BY <1>2 DEF Given
  <2>2. \A i \in 1..(Len(ids) + 1) : i \in 1..Len(ids) \/ i = Len(ids) + 1
    BY <1>1
  <2>3. 1..Len(ids) \subseteq 1..(Len(ids) + 1) /\ Len(ids) + 1 \in 1..(Len(ids) + 1)
    BY <1>1
  <2>4. Given = {ids[i] : i \in 1..Len(ids)}
    BY DEF Given
  <2> QED
    BY <2>1, <2>2, <2>3, <2>4, <1>2
<1>4. Current \in Box
  BY CurrentIsBox
<1>5. /\ DOMAIN tracks' = DOMAIN tracks \cup {id}
      /\ \A k \in DOMAIN tracks : k # id => tracks'[k] = tracks[k]
  BY <1>4, SeenTracks
<1>6. DOMAIN tracks' \ Given' = (DOMAIN tracks \ Given) \ {id}
  BY <1>3, <1>5
<1>7. PICK f : IsPlacing(f)
  BY DEF BoundInv, HavePlaces
<1>g. PICK g : g = [k \in DOMAIN tracks' \ Given' |-> f[k]]
  OBVIOUS
<1>8. IsPlacing(g)'
  <2>1. \A k \in DOMAIN tracks' \ Given' :
           k \in DOMAIN tracks \ Given /\ k # id /\ g[k] = f[k] /\ tracks'[k] = tracks[k]
    BY <1>5, <1>6, <1>g
  <2>2. /\ f \in [DOMAIN tracks \ Given -> Place]
        /\ \A j, k \in DOMAIN tracks \ Given : f[j] = f[k] => j = k
        /\ \A k \in DOMAIN tracks \ Given : f[k][1] <= tracks[k].lost
    BY <1>7 DEF IsPlacing
  <2>3. g \in [DOMAIN tracks' \ Given' -> Place]
    BY <2>1, <2>2, <1>g
  <2>4. \A j, k \in DOMAIN tracks' \ Given' : g[j] = g[k] => j = k
    BY <2>1, <2>2
  <2>5. \A k \in DOMAIN tracks' \ Given' : g[k][1] <= tracks'[k].lost
    BY <2>1, <2>2
  <2> QED
    BY <2>3, <2>4, <2>5 DEF IsPlacing, Place
<1>9. UsedIsGiven'
  BY <1>3 DEF BoundInv, UsedIsGiven
<1> QED
  BY <1>8, <1>9 DEF BoundInv, HavePlaces

\* The clean-up moves every place a call back, and the tracks given get a place of this one.
LEMMA CleanupBound ==
  ASSUME TypeOK, BoundInv, Cleanup
  PROVE  BoundInv'
<1>1. pc = "match" /\ pc' = "idle" /\ Len(ids) = Len(dets)
  BY DEF Cleanup
<1>2. Len(ids) \in Nat /\ MaxDets \in Nat /\ MaxLost \in Nat /\ 1..Len(ids) \subseteq 1..MaxDets
  BY <1>1, TrackerAssumption DEF TypeOK
<1>3. Given = {ids[i] : i \in 1..Len(ids)} /\ Given' = {} /\ used \subseteq Given
  BY <1>1 DEF Given, BoundInv, UsedIsGiven
<1>4. /\ DOMAIN tracks' = {k \in DOMAIN tracks : Aged(k).lost <= MaxLost}
      /\ \A k \in DOMAIN tracks' : tracks'[k] = Aged(k) /\ IsTrack(tracks'[k])
  BY CleanupTracks
<1>5. PICK f : IsPlacing(f)
  BY DEF BoundInv, HavePlaces
<1> DEFINE Det(k) == CHOOSE i \in 1..Len(ids) : ids[i] = k
<1>g. PICK g : g = [k \in DOMAIN tracks' |->
                      IF k \in Given THEN <<0, Det(k)>> ELSE <<f[k][1] + 1, f[k][2]>>]
  OBVIOUS
<1>6. \A k \in Given : Det(k) \in 1..MaxDets /\ ids[Det(k)] = k
  BY <1>2, <1>3
<1> HIDE DEF Det
<1>7. ASSUME NEW k \in DOMAIN tracks', k \notin Given
      PROVE  /\ f[k] \in Place /\ f[k][1] \in Nat /\ f[k][2] \in 1..MaxDets
             /\ f[k] = <<f[k][1], f[k][2]>>
             /\ f[k][1] + 1 <= tracks'[k].lost /\ f[k][1] + 1 \in 0..MaxLost
  <2>1. k \in DOMAIN tracks \ Given /\ k \notin used
    BY <1>3, <1>4, <1>7
  <2>2. f[k] \in Place /\ f[k][1] <= tracks[k].lost
    BY <2>1, <1>5 DEF IsPlacing
  <2>3. f[k][1] \in 0..MaxLost /\ f[k][2] \in 1..MaxDets /\ f[k] = <<f[k][1], f[k][2]>>
    BY <2>2 DEF Place
  <2>4. tracks[k] \in [box : Box, lost : 0..MaxLost]
    BY <2>1 DEF TypeOK, IsTrack
  <2>5. tracks'[k].lost = tracks[k].lost + 1
    <3>1. tracks'[k] = [tracks[k] EXCEPT !.lost = tracks[k].lost + 1]
      BY <2>1, <1>4 DEF Aged
    <3> QED
      BY <3>1, <2>4
  <2>6. tracks'[k].lost \in 0..MaxLost
    BY <1>4 DEF IsTrack
  <2>7. tracks[k].lost \in 0..MaxLost
    BY <2>4
  <2>8. f[k][1] + 1 <= tracks'[k].lost /\ f[k][1] + 1 \in 0..MaxLost
    BY <2>2, <2>3, <2>5, <2>6, <2>7, <1>2
  <2> QED
    BY <2>2, <2>3, <2>8
<1>8. ASSUME NEW k \in DOMAIN tracks', k \in Given
      PROVE  g[k] = <<0, Det(k)>> /\ g[k] \in Place /\ g[k][1] = 0 /\ g[k][1] <= tracks'[k].lost
  <2>1. g[k] = <<0, Det(k)>> /\ g[k][1] = 0
    BY <1>g, <1>8
  <2>2. g[k] \in Place
    BY <2>1, <1>2, <1>6, <1>8 DEF Place
  <2>3. tracks'[k].lost \in 0..MaxLost
    BY <1>4 DEF IsTrack
  <2> QED
    BY <2>1, <2>2, <2>3, <1>2
<1>9. ASSUME NEW k \in DOMAIN tracks', k \notin Given
      PROVE  g[k] = <<f[k][1] + 1, f[k][2]>> /\ g[k] \in Place /\ g[k][1] <= tracks'[k].lost
             /\ g[k][1] # 0
  <2>1. g[k] = <<f[k][1] + 1, f[k][2]>> /\ g[k][1] = f[k][1] + 1
    BY <1>g, <1>9
  <2> QED
    BY <2>1, <1>7, <1>9 DEF Place
<1>10. ASSUME NEW j \in DOMAIN tracks', NEW k \in DOMAIN tracks', g[j] = g[k]
       PROVE  j = k
  <2>1. CASE j \in Given /\ k \in Given
    <3>1. Det(j) = Det(k)
      BY <2>1, <1>8, <1>10
    <3> QED
      BY <2>1, <3>1, <1>6
  <2>2. CASE j \notin Given /\ k \notin Given
    <3>1. f[j][1] + 1 = f[k][1] + 1 /\ f[j][2] = f[k][2]
      BY <2>2, <1>9, <1>10
    <3>2. f[j] = f[k]
      BY <2>2, <3>1, <1>7
    <3> QED
      BY <2>2, <3>2, <1>4, <1>5 DEF IsPlacing
  <2>3. CASE (j \in Given) # (k \in Given)
    BY <2>3, <1>8, <1>9, <1>10
  <2> QED
    BY <2>1, <2>2, <2>3
<1>11. IsPlacing(g)'
  <2>1. DOMAIN tracks' \ Given' = DOMAIN tracks'
    BY <1>3
  <2>2. g \in [DOMAIN tracks' -> Place]
    BY <1>g, <1>8, <1>9
  <2>3. \A k \in DOMAIN tracks' : g[k][1] <= tracks'[k].lost
    BY <1>8, <1>9
  <2> QED
    BY <2>1, <2>2, <2>3, <1>10 DEF IsPlacing, Place
<1> QED
  BY <1>1, <1>11 DEF BoundInv, HavePlaces, UsedIsGiven

LEMMA NextBound == TypeOK /\ BoundInv /\ [Next]_vars => BoundInv'
<1> SUFFICES ASSUME TypeOK, BoundInv, [Next]_vars PROVE BoundInv'
  OBVIOUS
<1>1. ASSUME NEW ds \in Scenes, BeginMatch(ds) PROVE BoundInv'
  <2>1. pc = "idle" /\ ids' = <<>> /\ used' = {} /\ tracks' = tracks
    BY <1>1 DEF BeginMatch
  <2>2. Given = {} /\ Given' = {}
    BY <2>1 DEF Given
  <2> QED
    BY <2>1, <2>2 DEF BoundInv, HavePlaces, IsPlacing, UsedIsGiven
<1>2. ASSUME NEW id \in DOMAIN tracks, AssignTrack(id) PROVE BoundInv'
  <2>1. id \in Nat \ {0}
    BY DEF TypeOK
  <2> QED
    BY <2>1, <1>2, GiveBound DEF AssignTrack
<1>3. CASE NewTrack
  <2>1. nextID \in Nat \ {0}
    BY DEF TypeOK
  <2> QED
    BY <2>1, <1>3, GiveBound DEF NewTrack
<1>4. CASE Cleanup
  BY <1>4, CleanupBound
<1>5. CASE Bounded \/ UNCHANGED vars
  <2>1. UNCHANGED <<pc, ids, used, tracks>>
    BY <1>5 DEF Bounded, vars
  <2>2. Given' = Given
    BY <2>1 DEF Given
  <2>3. PICK f : IsPlacing(f)
    BY DEF BoundInv, HavePlaces
  <2>4. IsPlacing(f)'
    BY <2>1, <2>2, <2>3 DEF IsPlacing, Place
  <2> QED
    BY <2>1, <2>2, <2>4 DEF BoundInv, HavePlaces, UsedIsGiven
<1> QED
  BY <1>1, <1>2, <1>3, <1>4, <1>5 DEF Next

\* Between calls every track has a place of its own, and there are so many places.
LEMMA PlacesBound == BoundInv => TracksAreBounded
<1> SUFFICES ASSUME BoundInv, pc = "idle"
             PROVE  Cardinality(DOMAIN tracks) <= MaxDets * (MaxLost + 1)
  BY DEF TracksAreBounded
<1>1. PICK f : IsPlacing(f)
  BY DEF BoundInv, HavePlaces
<1>2. f \in [DOMAIN tracks -> Place] /\ \A j, k \in DOMAIN tracks : f[j] = f[k] => j = k
  BY <1>1 DEF IsPlacing, Given
<1>3. f \in Injection(DOMAIN tracks, Place)
  BY <1>2, Fun_IsInj
<1>4. MaxDets \in Nat /\ MaxLost \in Nat
  BY TrackerAssumption
<1>5. /\ IsFiniteSet(0..MaxLost) /\ Cardinality(0..MaxLost) = MaxLost + 1
      /\ IsFiniteSet(1..MaxDets) /\ Cardinality(1..MaxDets) = MaxDets
  BY <1>4, FS_Interval
<1>6. IsFiniteSet(Place) /\ Cardinality(Place) = (MaxLost + 1) * MaxDets
  <2>1. PICK A : A = 0..MaxLost
    OBVIOUS
  <2>2. PICK B : B = 1..MaxDets
    OBVIOUS
  <2>3. /\ IsFiniteSet(A) /\ Cardinality(A) = MaxLost + 1
        /\ IsFiniteSet(B) /\ Cardinality(B) = MaxDets
    BY <1>5, <2>1, <2>2
  <2>4. IsFiniteSet(A \X B) /\ Cardinality(A \X B) = Cardinality(A) * Cardinality(B)
    BY <2>3, FS_Product
  <2> QED BY <2>1, <2>2, <2>3, <2>4 DEF Place
<1>7. Cardinality(DOMAIN tracks) <= Cardinality(Place)
  BY <1>3, <1>6, FS_Injection
<1> QED
  BY <1>4, <1>6, <1>7

\* Between calls there are no more tracks than the detections of maxLost + 1 calls,
\* however long the scene: a stale track is always deleted (iou.go:76-83).
THEOREM MemoryIsBounded == Spec => []TracksAreBounded
  BY TypeCorrect, InitBound, NextBound, PlacesBound, PTL DEF Spec
=============================================================================
