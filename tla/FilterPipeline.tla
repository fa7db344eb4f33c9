--------------------------- MODULE FilterPipeline ---------------------------
(***************************************************************************)
(* The filter chain of one stream: StreamManager.buildPipeline puts it      *)
(* together, DecoderWorker.processFrame sends each decoded frame through    *)
(* FilterPipeline.Process, and the filters remember what they have seen     *)
(* (internal/filter, internal/tracker/face.go).                             *)
(*                                                                          *)
(* A step is one filter built, or one Apply.  An image is what the filters  *)
(* can tell of it: the bits of its difference hash, its grey value at the   *)
(* points frameChanged samples, its Laplacian score and how many faces the  *)
(* classifier finds.  What match then makes of the faces is TrackManager's  *)
(* subject.                                                                 *)
(***************************************************************************)
EXTENDS Integers, Sequences, FiniteSets

CONSTANTS
    Bits,              \* the bits of a hash: 64 in the code
    Samples,           \* the points frameChanged compares
    Image,             \* the images a camera gives
    FilterLists,       \* cfg.Filters: sequences of types, of trackers also the kind
    BlurThreshold,     \* threshold of BlurFilter
    HashThreshold,     \* threshold of DuplicateFilter
    DetectEvery,       \* DetectEvery; withDefaults replaces values below 1
    MaxFrames          \* bound: frames decoded

FilterType == {"blur", "duplicate", "face", "object", "noop"}

ASSUME PipelineAssumption ==
    /\ \A i \in Image :
        i \in [hash : SUBSET Bits, gray : [Samples -> 0..255], sharp : Nat, faces : Nat]
    /\ IsFiniteSet(Bits) /\ IsFiniteSet(Samples)
    /\ \A l \in FilterLists : l \in Seq(FilterType \cup {"unknown"})
    /\ BlurThreshold \in Nat \ {0} /\ HashThreshold \in Nat
    /\ DetectEvery \in Nat \ {0} /\ MaxFrames \in Nat

VARIABLES
    unbuilt,           \* the part of cfg.Filters that buildPipeline has not come to
    chain,             \* the types of p.filters, in order
    pos,               \* the filter to apply next; 0 between frames, -1 before the first
    frame,             \* the frame in the chain, or the last one: a set of at most one image
    lastHash,          \* hasLast and lastHash of each DuplicateFilter: the hash in a set, or {}
    faces,             \* the FaceTracker of each tracker filter
    frames,            \* frames decoded
    droppedBy,         \* history: who dropped the last frame; 0 if nobody did
    sent               \* history: the last frames, two at most, that Process let through

built == <<chain, lastHash, faces>>
vars == <<unbuilt, chain, pos, frame, lastHash, faces, frames, droppedBy, sent>>
-----------------------------------------------------------------------------
Distance(a, b) == Cardinality((a \ b) \cup (b \ a))

\* Fault variant: a distance equal to the threshold is not similar.
SimilarStrictly(a, b) == Distance(a, b) < HashThreshold

Similar(a, b) == Distance(a, b) <= HashThreshold

\* frameChanged: more than 1% of the samples differ by more than 20.
Changed(a, b) ==
    LET moved == {s \in Samples : a[s] - b[s] > 20 \/ b[s] - a[s] > 20}
    IN  Cardinality(moved) * 100 > Cardinality(Samples)

\* A FaceTracker: lastGray and lastDetections are nil until the first frame and the
\* first detection.  The detections are named by the image they were made on;
\* missed is history: it counts the frames since then, or since the last one the gate
\* stopped.
NewFaceTracker == [frameCount |-> 0, lastGray |-> {}, lastDetections |-> {},
                   missed |-> 0]

FaceTracker ==
    [frameCount : Nat, lastGray : SUBSET [Samples -> 0..255], lastDetections : SUBSET Image,
     missed : Nat]

\* The motion gate: nothing changed since the frame before, and there is a result.
Gate(t, i) ==
    /\ t.lastDetections # {}
    /\ \A g \in t.lastGray : ~Changed(g, i.gray)

\* Fault variant: a detection is due one frame later.
TrackLate(t, i) ==
    LET n == t.frameCount + 1
        detect == ~Gate(t, i) /\ n % (DetectEvery + 1) = 0
    IN  [frameCount |-> n, lastGray |-> {i.gray},
         lastDetections |-> IF detect THEN {i} ELSE t.lastDetections,
         missed |-> IF detect \/ Gate(t, i) THEN 0 ELSE t.missed + 1]

Track(t, i) ==
    LET n == t.frameCount + 1
        detect == ~Gate(t, i) /\ n % DetectEvery = 0
    IN  [frameCount |-> n, lastGray |-> {i.gray},
         lastDetections |-> IF detect THEN {i} ELSE t.lastDetections,
         missed |-> IF detect \/ Gate(t, i) THEN 0 ELSE t.missed + 1]

\* len(lastDetections), which is what Track returns and LastDetections too.
Count(t) == IF t.lastDetections = {} THEN 0 ELSE (CHOOSE i \in t.lastDetections : TRUE).faces

\* FilterPipeline.Detections: of the first face tracker that has any.
Detections ==
    LET having == {p \in DOMAIN chain : chain[p] = "face" /\ Count(faces[p]) > 0}
    IN  IF having = {} THEN 0
        ELSE Count(faces[CHOOSE p \in having : \A q \in having : p <= q])
-----------------------------------------------------------------------------
TypeOK ==
    /\ unbuilt \in Seq(FilterType \cup {"unknown"}) /\ chain \in Seq(FilterType)
    /\ pos \in -1..(Len(chain) + 1) /\ (pos >= 0 => chain # <<>>) /\ frames \in 0..MaxFrames
    /\ frame \subseteq Image /\ (pos > 0 => frame # {})
    /\ lastHash \in [DOMAIN chain -> SUBSET (SUBSET Bits)]
    /\ faces \in [DOMAIN chain -> FaceTracker]
    /\ droppedBy \in 0..Len(chain)
    /\ sent \in Seq([image : Image, detections : Nat]) /\ Len(sent) <= 2

Init ==
    /\ unbuilt \in FilterLists /\ chain = <<>> /\ lastHash = <<>> /\ faces = <<>>
    /\ pos = -1 /\ frame = {} /\ frames = 0 /\ droppedBy = 0 /\ sent = <<>>

\* filters = append(filters, ...), a filter that has seen nothing.
AddFilter(type) ==
    /\ chain' = Append(chain, type)
    /\ lastHash' = Append(lastHash, {}) /\ faces' = Append(faces, NewFaceTracker)

\* A turn of buildPipeline's loop: an unknown type is skipped, and so would be a
\* face tracker whose classifier did not load; the one it loads is part of the binary.
BuildFilter ==
    /\ pos = -1 /\ unbuilt # <<>>
    /\ IF Head(unbuilt) = "unknown" THEN UNCHANGED built ELSE AddFilter(Head(unbuilt))
    /\ unbuilt' = Tail(unbuilt)
    /\ UNCHANGED <<pos, frame, frames, droppedBy, sent>>

\* Fault variant: an empty chain stays empty.
BuildPipelineUnpadded ==
    /\ pos = -1 /\ unbuilt = <<>>
    /\ pos' = 0
    /\ UNCHANGED <<unbuilt, built, frame, frames, droppedBy, sent>>

\* buildPipeline after its loop: an empty chain gets a noop filter.
BuildPipeline ==
    /\ pos = -1 /\ unbuilt = <<>>
    /\ IF chain = <<>> THEN AddFilter("noop") ELSE UNCHANGED built
    /\ pos' = 0
    /\ UNCHANGED <<unbuilt, frame, frames, droppedBy, sent>>

\* processFrame hands a decoded frame to Process.
Begin(i) ==
    /\ pos = 0 /\ frames < MaxFrames
    /\ pos' = 1 /\ frame' = {i} /\ frames' = frames + 1 /\ droppedBy' = 0
    /\ UNCHANGED <<unbuilt, built, sent>>

At(type) == pos \in DOMAIN chain /\ chain[pos] = type

\* The filter's decision: Process goes on to the next filter, or returns.
Pass == pos' = pos + 1 /\ UNCHANGED <<unbuilt, chain, frame, frames, droppedBy, sent>>
Drop == pos' = 0 /\ droppedBy' = pos /\ UNCHANGED <<unbuilt, chain, frame, frames, sent>>

ApplyNoop == At("noop") /\ Pass /\ UNCHANGED <<lastHash, faces>>

ApplyBlur ==
    /\ At("blur")
    /\ \E i \in frame : IF i.sharp < BlurThreshold THEN Drop ELSE Pass
    /\ UNCHANGED <<lastHash, faces>>

\* Fault variant: every frame is remembered, the dropped ones too.
DuplicateDropsRemembers ==
    /\ At("duplicate")
    /\ \E i \in frame :
        /\ \E h \in lastHash[pos] : Similar(i.hash, h)
        /\ lastHash' = [lastHash EXCEPT ![pos] = {i.hash}]
    /\ Drop /\ UNCHANGED faces

DuplicateDrops ==
    /\ At("duplicate")
    /\ \E i \in frame : \E h \in lastHash[pos] : Similar(i.hash, h)
    /\ Drop /\ UNCHANGED <<lastHash, faces>>

DuplicatePasses ==
    /\ At("duplicate")
    /\ \E i \in frame :
        /\ \A h \in lastHash[pos] : ~Similar(i.hash, h)
        /\ lastHash' = [lastHash EXCEPT ![pos] = {i.hash}]
    /\ Pass /\ UNCHANGED faces

\* Fault variant: frames without detections pass.
ApplyFaceTrackerAlways ==
    /\ At("face")
    /\ \E i \in frame : faces' = [faces EXCEPT ![pos] = Track(@, i)]
    /\ Pass
    /\ UNCHANGED lastHash

\* TrackerFilter, with the minDetections of 1 that buildPipeline gives it.
ApplyFaceTracker ==
    /\ At("face")
    /\ \E i \in frame : faces' = [faces EXCEPT ![pos] = Track(@, i)]
    /\ IF Count(faces'[pos]) < 1 THEN Drop ELSE Pass
    /\ UNCHANGED lastHash

\* ObjectTracker finds nothing yet, which is fewer than minDetections.
ApplyObjectTracker == At("object") /\ Drop /\ UNCHANGED <<lastHash, faces>>

\* The frame went through the whole chain: it is serialized, given the detections
\* and handed to the writer.  What becomes of it there is DecoderWorker's subject.
Send ==
    /\ pos = Len(chain) + 1
    /\ \E i \in frame :
        sent' = SubSeq(Append(sent, [image |-> i, detections |-> Detections]),
                       IF Len(sent) = 2 THEN 2 ELSE 1, Len(sent) + 1)
    /\ pos' = 0
    /\ UNCHANGED <<unbuilt, built, frame, frames, droppedBy>>

\* The bound on frames, not the code, ends the model.
Bounded == pos = 0 /\ frames = MaxFrames /\ UNCHANGED vars

Next ==
    \/ BuildFilter \/ BuildPipeline
    \/ \E i \in Image : Begin(i)
    \/ ApplyNoop \/ ApplyBlur \/ DuplicateDrops \/ DuplicatePasses
    \/ ApplyFaceTracker \/ ApplyObjectTracker
    \/ Send \/ Bounded

Spec == Init /\ [][Next]_vars
-----------------------------------------------------------------------------
(* Properties.                                                              *)

\* No filter after p drops a frame.
DropsLast(p) == \A q \in DOMAIN chain : q > p => chain[q] = "noop"

\* Between frames, a frame that the last dropping filter called a duplicate
\* resembles the last one sent: however slowly a scene drifts, what is held back
\* never gets further from the output than the threshold (duplicate.go:29-34
\* compares with the last frame passed, not with the one before).
DuplicatesResembleOutput ==
    pos = 0 /\ droppedBy > 0 /\ chain[droppedBy] = "duplicate" /\ DropsLast(droppedBy) =>
        sent # <<>> /\ \A i \in frame : Similar(i.hash, sent[Len(sent)].image.hash)

\* With a duplicate filter that no other one drops after, two frames sent in a row
\* are never similar, whatever the filters before it dropped in between.
OutputsDiffer ==
    (\E p \in DOMAIN chain : chain[p] = "duplicate" /\ DropsLast(p)) =>
        (Len(sent) = 2 =>
            Distance(sent[1].image.hash, sent[2].image.hash) > HashThreshold)

\* A scene that keeps moving is looked at: of DetectEvery frames in a row that the
\* motion gate lets through, the classifier runs on one, however many the gate
\* stopped before them (face.go:85-97 counts the stopped frames as well).
MovingSceneIsDetected ==
    \A p \in DOMAIN chain : chain[p] = "face" => faces[p].missed < DetectEvery

\* What is sent through a face tracker carries detections, and a chain with an
\* object tracker, whose tracker detects nothing, sends nothing at all
\* (tracker_filter.go:24-27, pipeline.go:34-44, worker.go:134-146).
OutputCarriesDetections ==
    \A k \in DOMAIN sent :
        /\ \A p \in DOMAIN chain : chain[p] # "object"
        /\ (\E p \in DOMAIN chain : chain[p] = "face") => sent[k].detections > 0
=============================================================================
