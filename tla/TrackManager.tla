---------------------------- MODULE TrackManager ----------------------------
(***************************************************************************)
(* trackManager.match (internal/tracker/iou.go): the detections of a frame  *)
(* are given track ids one after the other, each taking the unused track    *)
(* whose last box it overlaps most, or a new one; then the tracks nobody    *)
(* took age and are dropped.                                                *)
(*                                                                          *)
(* A step is one iteration of the loop over the detections.  Overlaps are   *)
(* exact fractions, compared by cross-multiplication, in place of float64.  *)
(* The order of Go's map iteration decides between equal overlaps.  Any     *)
(* list of boxes may be detected: RunCascade's results are not clustered    *)
(* (face.go:118-135), so one face usually gives several overlapping boxes.  *)
(***************************************************************************)
EXTENDS Integers, Sequences, FiniteSets

CONSTANTS
    Box,               \* the boxes detections have: records x0, y0, x1, y1
    ThresholdNum,      \* iouThreshold = ThresholdNum / ThresholdDen
    ThresholdDen,
    MaxLost,           \* maxLost; withDefaults replaces values below 1
    Scenes,            \* the lists of boxes that a frame can give
    MaxDets,           \* the length of the longest of them
    MaxFrames          \* bound: frames matched

ASSUME TrackerAssumption ==
    /\ \A b \in Box : b \in [x0 : Int, y0 : Int, x1 : Int, y1 : Int]
    /\ ThresholdNum \in Nat /\ ThresholdDen \in Nat \ {0}
    /\ MaxLost \in Nat \ {0} /\ MaxDets \in Nat /\ MaxFrames \in Nat
    /\ \A s \in Scenes : s \in Seq(Box) /\ Len(s) <= MaxDets

VARIABLES
    pc,                \* idle between calls, match inside one
    frames,            \* calls begun
    dets,              \* the boxes of the current, or last, call
    ids,               \* the TrackIDs given to them so far
    used,              \* used
    tracks,            \* tm.tracks: id -> lastBBox and lostFrames
    nextID,            \* tm.nextID
    prev,              \* history: dets of the call before
    firstNew           \* history: nextID when the current call began

vars == <<pc, frames, dets, ids, used, tracks, nextID, prev, firstNew>>
-----------------------------------------------------------------------------
(* image.Rectangle and iou.                                                 *)

Low(a, b)  == IF a < b THEN a ELSE b
High(a, b) == IF a > b THEN a ELSE b

Area(r) == IF r.x0 >= r.x1 \/ r.y0 >= r.y1 THEN 0 ELSE (r.x1 - r.x0) * (r.y1 - r.y0)

Intersect(a, b) == [x0 |-> High(a.x0, b.x0), y0 |-> High(a.y0, b.y0),
                    x1 |-> Low(a.x1, b.x1),  y1 |-> Low(a.y1, b.y1)]

\* A fraction <<numerator, denominator>>.
IOU(a, b) ==
    LET inter == Area(Intersect(a, b))
    IN  IF inter = 0 THEN <<0, 1>> ELSE <<inter, Area(a) + Area(b) - inter>>

Exceeds(p, q) == p[1] * q[2] > q[1] * p[2]

Matches(a, b) == Exceeds(IOU(a, b), <<ThresholdNum, ThresholdDen>>)
-----------------------------------------------------------------------------
IsTrack(t) == t \in [box : Box, lost : 0..MaxLost]

TypeOK ==
    /\ pc \in {"idle", "match"} /\ frames \in 0..MaxFrames
    /\ dets \in Seq(Box) /\ ids \in Seq(1..(nextID - 1)) /\ prev \in Seq(Box)
    /\ Len(ids) <= Len(dets) /\ Len(dets) <= MaxDets
    /\ nextID \in Nat \ {0} /\ firstNew \in 1..nextID
    /\ DOMAIN tracks \subseteq 1..(nextID - 1) /\ used \subseteq DOMAIN tracks
    /\ \A id \in DOMAIN tracks : IsTrack(tracks[id])

Init ==
    /\ pc = "idle" /\ frames = 0
    /\ dets = <<>> /\ ids = <<>> /\ used = {}
    /\ tracks = <<>> /\ nextID = 1
    /\ prev = <<>> /\ firstNew = 1

\* FaceTracker.Track calls match with what the classifier found.
BeginMatch(ds) ==
    /\ pc = "idle" /\ frames < MaxFrames
    /\ pc' = "match" /\ frames' = frames + 1
    /\ dets' = ds /\ ids' = <<>> /\ used' = {}
    /\ prev' = dets /\ firstNew' = nextID
    /\ UNCHANGED <<tracks, nextID>>

Current == dets[Len(ids) + 1]

\* Fault variant: used is not consulted.
CandidatesIgnoringUsed == {id \in DOMAIN tracks : Matches(Current, tracks[id].box)}

Candidates == {id \in DOMAIN tracks \ used : Matches(Current, tracks[id].box)}

Best == {id \in Candidates : \A k \in Candidates :
            ~Exceeds(IOU(Current, tracks[k].box), IOU(Current, tracks[id].box))}

\* tracks with id seen at box b in this frame.
Seen(id, b) ==
    [k \in DOMAIN tracks \cup {id} |-> IF k = id THEN [box |-> b, lost |-> 0] ELSE tracks[k]]

\* Fault variant: a matched track keeps the box it was created with.
AssignTrackKeepsBox(id) ==
    /\ pc = "match" /\ Len(ids) < Len(dets) /\ id \in Best
    /\ ids' = Append(ids, id)
    /\ tracks' = Seen(id, tracks[id].box) /\ used' = used \cup {id}
    /\ UNCHANGED <<pc, frames, dets, nextID, prev, firstNew>>

AssignTrack(id) ==
    /\ pc = "match" /\ Len(ids) < Len(dets) /\ id \in Best
    /\ ids' = Append(ids, id)
    /\ tracks' = Seen(id, Current) /\ used' = used \cup {id}
    /\ UNCHANGED <<pc, frames, dets, nextID, prev, firstNew>>

\* Fault variant: ids are taken from the number of live tracks.
NewTrackByCount ==
    /\ pc = "match" /\ Len(ids) < Len(dets) /\ Candidates = {}
    /\ LET id == Cardinality(DOMAIN tracks) + 1 IN
        ids' = Append(ids, id) /\ tracks' = Seen(id, Current)
    /\ nextID' = nextID + 1
    /\ UNCHANGED <<pc, frames, dets, used, prev, firstNew>>

\* The new track is not marked as used.
NewTrack ==
    /\ pc = "match" /\ Len(ids) < Len(dets) /\ Candidates = {}
    /\ ids' = Append(ids, nextID)
    /\ tracks' = Seen(nextID, Current) /\ nextID' = nextID + 1
    /\ UNCHANGED <<pc, frames, dets, used, prev, firstNew>>

\* The last loop: a track not used in this frame, or created in it, grows older.
Aged(id) == IF id \in used THEN tracks[id] ELSE [tracks[id] EXCEPT !.lost = @ + 1]

\* Fault variant: the age is compared before it is incremented.
CleanupLate ==
    /\ pc = "match" /\ Len(ids) = Len(dets)
    /\ pc' = "idle"
    /\ tracks' = [id \in {k \in DOMAIN tracks : tracks[k].lost <= MaxLost} |-> Aged(id)]
    /\ UNCHANGED <<frames, dets, ids, used, nextID, prev, firstNew>>

\* Fault variant: tracks grow old but are never deleted.
CleanupForgets ==
    /\ pc = "match" /\ Len(ids) = Len(dets)
    /\ pc' = "idle"
    /\ tracks' = [id \in DOMAIN tracks |-> Aged(id)]
    /\ UNCHANGED <<frames, dets, ids, used, nextID, prev, firstNew>>

Cleanup ==
    /\ pc = "match" /\ Len(ids) = Len(dets)
    /\ pc' = "idle"
    /\ tracks' = [id \in {k \in DOMAIN tracks : Aged(k).lost <= MaxLost} |-> Aged(id)]
    /\ UNCHANGED <<frames, dets, ids, used, nextID, prev, firstNew>>

\* The bound on frames, not the code, ends the model.
Bounded == pc = "idle" /\ frames = MaxFrames /\ UNCHANGED vars

Next ==
    \/ \E ds \in Scenes : BeginMatch(ds)
    \/ \E id \in DOMAIN tracks : AssignTrack(id)
    \/ NewTrack \/ Cleanup \/ Bounded

Spec == Init /\ [][Next]_vars
-----------------------------------------------------------------------------
(* Properties.                                                              *)

\* Memory is bounded by what maxLost frames can create: a stale track is always
\* found and deleted (iou.go:76-83).
TracksAreBounded ==
    pc = "idle" => Cardinality(DOMAIN tracks) <= MaxDets * (MaxLost + 1)

\* Two detections of a frame share an id only if their track was created in that
\* very frame, and no third one joins them: a track from an earlier frame goes to
\* one detection at most (iou.go:54, 67).
SharingOnlyOfNewTracks ==
    \A i, j \in 1..Len(ids) : i < j /\ ids[i] = ids[j] =>
        ids[i] >= firstNew /\ \A k \in (1..Len(ids)) \ {i, j} : ids[k] # ids[i]

\* A face seen alone in two frames in a row, in boxes that overlap enough, is not
\* given a new id in the second: tracks follow the boxes matched to them
\* (iou.go:65) and survive the frame they are created in (iou.go:76-82).
ContinuousFaceKeepsTrack ==
    pc = "idle" /\ Len(prev) = 1 /\ Len(dets) = 1 /\ Matches(dets[1], prev[1])
        => ids[1] < firstNew

\* An id is never given to a second track: once its track is gone, no track has
\* it again (iou.go:69-71).
IdsAreNeverReused ==
    [][\A id \in 1..(nextID - 1) : id \notin DOMAIN tracks => id \notin DOMAIN tracks']_vars
====
