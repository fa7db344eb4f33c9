----------------------- MODULE FilterPipeline_proofs -----------------------
(***************************************************************************)
(* Proofs about the filter chain, for any filter lists, images and          *)
(* thresholds.                                                              *)
(*                                                                          *)
(* That a moving scene is looked at is not inductive: what holds the frames *)
(* missed down is the remainder of the frame count, which grows with them   *)
(* and is zero when a detection is due (CyclesHold).  That duplicates are   *)
(* measured against the output rests on what the last dropping duplicate    *)
(* filter remembers: the last frame sent while the frame in the chain has   *)
(* not passed it, and that frame once it has (Remembered).  That the output *)
(* carries detections rests on what the frame has come past (Passed).       *)
(***************************************************************************)
EXTENDS FilterPipeline, FiniteSetTheorems, SequenceTheorems, TLAPS

\* The frames missed since the last detection, or the last frame the gate stopped,
\* are at most those counted since a detection was last due.
MissedWithinCycle(t) ==
    /\ t.frameCount \in Nat /\ t.missed \in Nat
    /\ t.missed <= t.frameCount % DetectEvery

CyclesHold == \A p \in DOMAIN chain : MissedWithinCycle(faces[p])

\* Nothing is remembered or sent while the chain is put together.
StartsEmpty ==
    pos = -1 => sent = <<>> /\ droppedBy = 0 /\ \A p \in DOMAIN chain : lastHash[p] = {}

\* A frame in the chain is one image, and nobody has dropped it.
InChain == pos > 0 => droppedBy = 0 /\ \E i \in Image : frame = {i}

\* The hash of the last frame sent, in a set.
OutputHash == IF sent = <<>> THEN {} ELSE {sent[Len(sent)].image.hash}

Remembered ==
    \A p \in DOMAIN chain : chain[p] = "duplicate" /\ DropsLast(p) =>
        IF pos > p
        THEN \A i \in frame : lastHash[p] = {i.hash} /\ \A h \in OutputHash : ~Similar(i.hash, h)
        ELSE lastHash[p] = OutputHash

\* A frame is past no object tracker, and past a face tracker only with detections.
Passed ==
    \A p \in DOMAIN chain : pos > p =>
        chain[p] # "object" /\ (chain[p] = "face" => Count(faces[p]) > 0)

IInv ==
    /\ TypeOK /\ CyclesHold /\ StartsEmpty /\ InChain /\ Remembered /\ Passed
    /\ DuplicatesResembleOutput /\ OutputsDiffer /\ OutputCarriesDetections
-----------------------------------------------------------------------------
(* The remainder of a count.                                                *)

\* Zero is the only multiple of d between -d and d.
LEMMA OnlyMultiple ==
  ASSUME NEW d \in Nat \ {0}, NEW k \in Int, -d < d * k, d * k < d
  PROVE  k = 0
<1>1. CASE k >= 1
  <2>1. d * k >= d
    BY <1>1
  <2> QED
    BY <2>1
<1>2. CASE k <= -1
  <2>1. d * k <= -d
    BY <1>2
  <2> QED
    BY <2>1
<1> QED
  BY <1>1, <1>2

\* Counting one more adds one to the remainder, unless it comes to zero.
LEMMA RemainderStep ==
  ASSUME NEW n \in Nat, NEW d \in Nat \ {0}, (n + 1) % d # 0
  PROVE  (n + 1) % d = (n % d) + 1
<1> DEFINE q == n \div d
           r == n % d
           q1 == (n + 1) \div d
           r1 == (n + 1) % d
<1>1. q \in Int /\ q1 \in Int /\ r \in 0..(d - 1) /\ r1 \in 0..(d - 1)
  OBVIOUS
<1>2. n = d * q + r /\ n + 1 = d * q1 + r1
  OBVIOUS
<1> HIDE DEF q, r, q1, r1
<1>3. d * (q1 - q) = 1 + r - r1
  <2>1. d * (q1 - q) = d * q1 - d * q
    BY <1>1
  <2> QED
    BY <2>1, <1>1, <1>2
<1>4. q1 - q = 0
  <2>1. -d < 1 + r - r1 /\ 1 + r - r1 < d
    BY <1>1 DEF r1
  <2> QED
    BY <2>1, <1>1, <1>3, OnlyMultiple
<1>5. 1 + r - r1 = 0
  BY <1>3, <1>4
<1> QED
  BY <1>1, <1>5 DEF r, r1
-----------------------------------------------------------------------------
(* The operators of the model.                                              *)

LEMMA NewTrackerMissedNothing == MissedWithinCycle(NewFaceTracker)
<1>1. 0 % DetectEvery = 0
  BY PipelineAssumption
<1> QED
  BY <1>1 DEF MissedWithinCycle, NewFaceTracker

\* A frame that is neither stopped by the gate nor detected on was not due.
LEMMA TrackKeepsCycle ==
  ASSUME NEW t, NEW i, MissedWithinCycle(t)
  PROVE  MissedWithinCycle(Track(t, i))
<1> DEFINE n == t.frameCount + 1
           u == Track(t, i)
<1>1. t.frameCount \in Nat /\ t.missed \in Nat /\ n \in Nat
  BY DEF MissedWithinCycle
<1>2. DetectEvery \in Nat \ {0}
  BY PipelineAssumption
<1>3. n % DetectEvery \in Nat
  BY <1>1, <1>2
<1>4. u.frameCount = n
  BY DEF Track
<1>5. CASE Gate(t, i) \/ n % DetectEvery = 0
  <2>1. u.missed = 0
    BY <1>5 DEF Track
  <2> QED
    BY <2>1, <1>1, <1>3, <1>4 DEF MissedWithinCycle
<1>6. CASE ~Gate(t, i) /\ n % DetectEvery # 0
  <2>1. u.missed = t.missed + 1
    BY <1>6 DEF Track
  <2>2. n % DetectEvery = (t.frameCount % DetectEvery) + 1
    BY <1>1, <1>2, <1>6, RemainderStep
  <2>3. t.frameCount % DetectEvery \in Nat /\ t.missed <= t.frameCount % DetectEvery
    BY <1>1, <1>2 DEF MissedWithinCycle
  <2>4. u.missed <= n % DetectEvery
    <3> HIDE DEF n, u
    <3> QED
      BY <2>1, <2>2, <2>3, <1>1
  <2> QED
    BY <2>1, <2>4, <1>1, <1>4 DEF MissedWithinCycle
<1> QED
  BY <1>5, <1>6

\* The distance of two hashes is a number, and the same both ways.
LEMMA DistanceIsSymmetric ==
  ASSUME NEW a \in SUBSET Bits, NEW b \in SUBSET Bits
  PROVE  Distance(a, b) \in Nat /\ Distance(a, b) = Distance(b, a)
<1>1. (a \ b) \cup (b \ a) \in SUBSET Bits /\ (a \ b) \cup (b \ a) = (b \ a) \cup (a \ b)
  OBVIOUS
<1>2. IsFiniteSet((a \ b) \cup (b \ a))
  BY <1>1, FS_Subset, PipelineAssumption
<1> QED
  BY <1>1, <1>2, FS_CardinalityType DEF Distance

LEMMA ImageFields ==
  ASSUME NEW i \in Image
  PROVE  i.hash \in SUBSET Bits /\ i.gray \in [Samples -> 0..255] /\ i.faces \in Nat
  BY PipelineAssumption

LEMMA NewTrackerType == NewFaceTracker \in FaceTracker
  BY DEF NewFaceTracker, FaceTracker

LEMMA TrackType ==
  ASSUME NEW t \in FaceTracker, NEW i \in Image
  PROVE  Track(t, i) \in FaceTracker
<1>1. i.gray \in [Samples -> 0..255]
  BY ImageFields
<1> QED
  BY <1>1 DEF Track, FaceTracker

LEMMA CountType ==
  ASSUME NEW t \in FaceTracker
  PROVE  Count(t) \in Nat
<1>1. CASE t.lastDetections = {}
  BY <1>1 DEF Count
<1>2. CASE t.lastDetections # {}
  <2>1. (CHOOSE i \in t.lastDetections : TRUE) \in Image
    BY <1>2 DEF FaceTracker
  <2> QED
    BY <2>1, <1>2, ImageFields DEF Count
<1> QED
  BY <1>1, <1>2

\* A finite set of numbers that is not empty has a least one.
LEMMA LeastExists ==
  ASSUME NEW S \in SUBSET Nat, IsFiniteSet(S), S # {}
  PROVE  \E p \in S : \A q \in S : p <= q
<1> DEFINE UpTo(p) == {q \in S : q <= p}
           R == StrictSubsetOrdering(S)
           T == {UpTo(p) : p \in S}
<1>1. IsWellFoundedOn(R, FiniteSubsetsOf(S))
  BY FS_StrictSubsetOrderingWellFounded
<1>2. T \subseteq FiniteSubsetsOf(S)
  <2>1. FiniteSubsetsOf(S) = SUBSET S
    BY FS_FiniteSubsetsOfFinite
  <2> QED
    BY <2>1
<1>3. \E x \in T : \A y \in T : ~(<<y, x>> \in R)
  <2>1. T # {}
    OBVIOUS
  <2> HIDE DEF T, R
  <2> QED
    BY <1>1, <1>2, <2>1, WFMin
<1>4. PICK p \in S : \A q \in S : ~(<<UpTo(q), UpTo(p)>> \in R)
  BY <1>3
<1>5. ASSUME NEW q \in S, q < p PROVE <<UpTo(q), UpTo(p)>> \in R
  <2>1. p \in Nat /\ q \in Nat
    OBVIOUS
  <2>2. UpTo(q) \subseteq UpTo(p)
    <3> SUFFICES ASSUME NEW k \in S, k <= q PROVE k <= p
      OBVIOUS
    <3>1. k \in Nat
      OBVIOUS
    <3> QED
      BY <3>1, <2>1, <1>5
  <2>3. p \in UpTo(p) /\ p \notin UpTo(q)
    BY <2>1, <1>5
  <2>4. UpTo(q) # UpTo(p) /\ UpTo(q) \in SUBSET S /\ UpTo(p) \in SUBSET S
    BY <2>3
  <2> HIDE DEF UpTo
  <2> QED
    BY <2>2, <2>4 DEF StrictSubsetOrdering
<1>6. ASSUME NEW q \in S PROVE p <= q
  <2>1. p \in Nat /\ q \in Nat /\ ~(q < p)
    BY <1>4, <1>5
  <2> QED
    BY <2>1
<1> QED
  BY <1>6

\* Detections returns a number, and not zero if a face tracker has any.
LEMMA DetectionsOfATracker ==
  ASSUME TypeOK
  PROVE  /\ Detections \in Nat
         /\ \A p \in DOMAIN chain :
              chain[p] = "face" /\ Count(faces[p]) > 0 => Detections > 0
<1> DEFINE having == {p \in DOMAIN chain : chain[p] = "face" /\ Count(faces[p]) > 0}
           first == CHOOSE p \in having : \A q \in having : p <= q
<1>1. CASE having = {}
  BY <1>1 DEF Detections
<1>2. CASE having # {}
  <2>1. having \in SUBSET (1..Len(chain)) /\ having \in SUBSET Nat /\ Len(chain) \in Nat
    BY DEF TypeOK
  <2>2. IsFiniteSet(having)
    <3>1. IsFiniteSet(1..Len(chain))
      BY <2>1, FS_Interval
    <3> HIDE DEF having
    <3> QED
      BY <2>1, <3>1, FS_Subset
  <2>3. \E p \in having : \A q \in having : p <= q
    <3> HIDE DEF having
    <3> QED
      BY <2>1, <2>2, <1>2, LeastExists
  <2>4. first \in having
    <3> HIDE DEF having
    <3> QED
      BY <2>3
  <2>5. Detections = Count(faces[first])
    BY <1>2 DEF Detections
  <2>6. Count(faces[first]) \in Nat /\ Count(faces[first]) > 0
    <3> HIDE DEF first
    <3>1. faces[first] \in FaceTracker
      BY <2>4 DEF TypeOK
    <3> QED
      BY <3>1, <2>4, CountType
  <2> QED
    BY <2>5, <2>6
<1> QED
  BY <1>1, <1>2

LEMMA EmptySeqHasNoPlace == \A n : n \notin DOMAIN <<>>
<1>1. DOMAIN <<>> = {}
  OBVIOUS
<1> QED
  BY <1>1

\* u ends with r, and may have the last element of s before it.
LastTwo(u, s, r) ==
    /\ u # <<>> /\ Len(u) <= 2 /\ u[Len(u)] = r
    /\ Len(u) = 2 => s # <<>> /\ Len(s) \in DOMAIN s /\ u[1] = s[Len(s)]
    /\ \A k \in DOMAIN u : u[k] = r \/ \E j \in DOMAIN s : u[k] = s[j]

\* What is kept of the frames sent: the last two of them at most.
LEMMA LastTwoKept ==
  ASSUME NEW S, NEW s \in Seq(S), Len(s) <= 2, NEW r \in S
  PROVE  \E u \in Seq(S) :
           /\ u = SubSeq(Append(s, r), IF Len(s) = 2 THEN 2 ELSE 1, Len(s) + 1)
           /\ LastTwo(u, s, r)
<1>1. Len(s) \in Nat /\ DOMAIN s = 1..Len(s)
  BY LenProperties
<1>2. PICK a \in Seq(S) : a = Append(s, r)
  BY AppendProperties
<1>3. Len(a) = Len(s) + 1 /\ (\A j \in 1..Len(s) : a[j] = s[j]) /\ a[Len(s) + 1] = r
  BY <1>2, AppendProperties
<1>4. \A j \in 1..(Len(s) + 1) : a[j] \in S
  BY <1>3
<1>5. ASSUME NEW m \in {1, 2}, m <= Len(s) + 1
      PROVE  \E u \in Seq(S) : /\ u = SubSeq(a, m, Len(s) + 1) /\ Len(u) = Len(s) + 2 - m
                               /\ \A k \in 1..(Len(s) + 2 - m) : u[k] = a[m + k - 1]
  <2>1. m \in Int /\ Len(s) + 1 \in Int /\ \A j \in m..(Len(s) + 1) : a[j] \in S
    BY <1>1, <1>4
  <2>2. /\ SubSeq(a, m, Len(s) + 1) \in Seq(S)
        /\ Len(SubSeq(a, m, Len(s) + 1)) = IF m <= Len(s) + 1 THEN Len(s) + 1 - m + 1 ELSE 0
        /\ \A k \in 1..(Len(s) + 1 - m + 1) : SubSeq(a, m, Len(s) + 1)[k] = a[m + k - 1]
    BY <2>1, SubSeqProperties
  <2>3. Len(s) + 1 - m + 1 = Len(s) + 2 - m
    BY <1>1
  <2>4. PICK u \in Seq(S) : u = SubSeq(a, m, Len(s) + 1)
    BY <2>2
  <2> QED
    BY <1>1, <1>5, <2>2, <2>3, <2>4
<1>6. CASE Len(s) = 2
  <2>1. PICK u \in Seq(S) : /\ u = SubSeq(a, 2, Len(s) + 1) /\ Len(u) = 2
                            /\ u[1] = a[2] /\ u[2] = a[3]
    BY <1>5, <1>6
  <2>2. u = SubSeq(Append(s, r), IF Len(s) = 2 THEN 2 ELSE 1, Len(s) + 1)
    BY <2>1, <1>2, <1>6
  <2>3. DOMAIN u = 1..2 /\ u[1] = s[2] /\ u[2] = r
    BY <2>1, <1>3, <1>6
  <2>4. u # <<>> /\ Len(u) <= 2 /\ u[Len(u)] = r
    <3>1. Len(u) <= 2 /\ u[Len(u)] = r
      BY <2>1, <2>3
    <3>2. 1 \in DOMAIN u
      BY <2>3
    <3> QED
      BY <3>1, <3>2, EmptySeqHasNoPlace
  <2>5. Len(u) = 2 => s # <<>> /\ Len(s) \in DOMAIN s /\ u[1] = s[Len(s)]
    <3>1. Len(s) \in DOMAIN s
      BY <1>1, <1>6
    <3>2. u[1] = s[Len(s)]
      BY <2>3, <1>6
    <3> QED
      BY <3>1, <3>2, EmptySeqHasNoPlace
  <2>6. \A k \in DOMAIN u : u[k] = r \/ \E j \in DOMAIN s : u[k] = s[j]
    BY <2>3, <1>1, <1>6
  <2> QED
    BY <2>2, <2>4, <2>5, <2>6 DEF LastTwo
<1>7. CASE Len(s) = 1
  <2>1. PICK u \in Seq(S) : /\ u = SubSeq(a, 1, Len(s) + 1) /\ Len(u) = 2
                            /\ u[1] = a[1] /\ u[2] = a[2]
    BY <1>5, <1>7
  <2>2. u = SubSeq(Append(s, r), IF Len(s) = 2 THEN 2 ELSE 1, Len(s) + 1)
    BY <2>1, <1>2, <1>7
  <2>3. DOMAIN u = 1..2 /\ u[1] = s[1] /\ u[2] = r
    BY <2>1, <1>3, <1>7
  <2>4. u # <<>> /\ Len(u) <= 2 /\ u[Len(u)] = r
    <3>1. Len(u) <= 2 /\ u[Len(u)] = r
      BY <2>1, <2>3
    <3>2. 1 \in DOMAIN u
      BY <2>3
    <3> QED
      BY <3>1, <3>2, EmptySeqHasNoPlace
  <2>5. Len(u) = 2 => s # <<>> /\ Len(s) \in DOMAIN s /\ u[1] = s[Len(s)]
    <3>1. Len(s) \in DOMAIN s
      BY <1>1, <1>7
    <3>2. u[1] = s[Len(s)]
      BY <2>3, <1>7
    <3> QED
      BY <3>1, <3>2, EmptySeqHasNoPlace
  <2>6. \A k \in DOMAIN u : u[k] = r \/ \E j \in DOMAIN s : u[k] = s[j]
    BY <2>3, <1>1, <1>7
  <2> QED
    BY <2>2, <2>4, <2>5, <2>6 DEF LastTwo
<1>8. CASE Len(s) = 0
  <2>1. PICK u \in Seq(S) : /\ u = SubSeq(a, 1, Len(s) + 1) /\ Len(u) = 1 /\ u[1] = a[1]
    BY <1>5, <1>8
  <2>2. u = SubSeq(Append(s, r), IF Len(s) = 2 THEN 2 ELSE 1, Len(s) + 1)
    BY <2>1, <1>2, <1>8
  <2>3. DOMAIN u = 1..1 /\ u[1] = r
    BY <2>1, <1>3, <1>8
  <2>4. u # <<>> /\ Len(u) <= 2 /\ u[Len(u)] = r
    <3>1. Len(u) <= 2 /\ u[Len(u)] = r
      BY <2>1, <2>3
    <3>2. 1 \in DOMAIN u
      BY <2>3
    <3> QED
      BY <3>1, <3>2, EmptySeqHasNoPlace
  <2>5. Len(u) = 2 => s # <<>> /\ Len(s) \in DOMAIN s /\ u[1] = s[Len(s)]
    BY <2>1, <2>3, <1>1, <1>8
  <2>6. \A k \in DOMAIN u : u[k] = r \/ \E j \in DOMAIN s : u[k] = s[j]
    BY <2>3, <1>1, <1>8
  <2> QED
    BY <2>2, <2>4, <2>5, <2>6 DEF LastTwo
<1>9. Len(s) = 0 \/ Len(s) = 1 \/ Len(s) = 2
  <2>1. PICK n \in Nat : n = Len(s)
    BY <1>1
  <2>2. n <= 2
    BY <2>1
  <2>3. n = 0 \/ n = 1 \/ n = 2
    BY <2>2
  <2> QED
    BY <2>1, <2>3
<1> QED
  BY <1>6, <1>7, <1>8, <1>9
-----------------------------------------------------------------------------
(* Types.                                                                   *)

\* A filter added leaves the ones before it as they are.
LEMMA AddFilterAppends ==
  ASSUME TypeOK, NEW type \in FilterType, AddFilter(type)
  PROVE  /\ Len(chain) \in Nat /\ Len(chain') = Len(chain) + 1 /\ chain' \in Seq(FilterType)
         /\ DOMAIN chain = 1..Len(chain) /\ DOMAIN chain' = 1..(Len(chain) + 1)
         /\ lastHash' \in [DOMAIN chain' -> SUBSET (SUBSET Bits)]
         /\ faces' \in [DOMAIN chain' -> FaceTracker]
         /\ \A p \in DOMAIN chain : /\ chain'[p] = chain[p] /\ lastHash'[p] = lastHash[p]
                                    /\ faces'[p] = faces[p]
         /\ chain'[Len(chain) + 1] = type /\ lastHash'[Len(chain) + 1] = {}
         /\ faces'[Len(chain) + 1] = NewFaceTracker
<1> DEFINE n == Len(chain)
           Hash == SUBSET (SUBSET Bits)
<1>1. n \in Nat /\ DOMAIN chain = 1..n /\ chain \in Seq(FilterType)
  BY LenProperties DEF TypeOK
<1>2. lastHash \in Seq(Hash) /\ Len(lastHash) = n
  <2>1. lastHash \in [1..n -> Hash]
    BY <1>1 DEF TypeOK
  <2> HIDE DEF Hash, n
  <2> QED
    BY <2>1, <1>1
<1>3. faces \in Seq(FaceTracker) /\ Len(faces) = n
  <2>1. faces \in [1..n -> FaceTracker]
    BY <1>1 DEF TypeOK
  <2> HIDE DEF n
  <2> QED
    BY <2>1, <1>1
<1>4. chain' = Append(chain, type) /\ lastHash' = Append(lastHash, {})
      /\ faces' = Append(faces, NewFaceTracker)
  BY DEF AddFilter
<1>5. /\ chain' \in Seq(FilterType) /\ Len(chain') = n + 1
      /\ \A p \in 1..n : chain'[p] = chain[p]
      /\ chain'[n + 1] = type
  BY <1>1, <1>4, AppendProperties
<1>6. /\ lastHash' \in Seq(Hash) /\ Len(lastHash') = n + 1
      /\ \A p \in 1..n : lastHash'[p] = lastHash[p]
      /\ lastHash'[n + 1] = {}
  <2>1. {} \in Hash
    OBVIOUS
  <2> HIDE DEF Hash
  <2> QED
    BY <2>1, <1>2, <1>4, AppendProperties
<1>7. /\ faces' \in Seq(FaceTracker) /\ Len(faces') = n + 1
      /\ \A p \in 1..n : faces'[p] = faces[p]
      /\ faces'[n + 1] = NewFaceTracker
  BY <1>3, <1>4, NewTrackerType, AppendProperties
<1>8. DOMAIN chain' = 1..(n + 1) /\ lastHash' \in [1..(n + 1) -> Hash]
      /\ faces' \in [1..(n + 1) -> FaceTracker]
  BY <1>5, <1>6, <1>7
<1> QED
  BY <1>1, <1>5, <1>6, <1>7, <1>8

LEMMA AtAFilter ==
  ASSUME TypeOK, NEW type, At(type)
  PROVE  /\ Len(chain) \in Nat /\ DOMAIN chain = 1..Len(chain) /\ chain # <<>>
         /\ pos \in 1..Len(chain) /\ chain[pos] = type
  BY LenProperties DEF TypeOK, At

\* Process going on, or returning, keeps the types if the filter does.
LEMMA PassOrDropType ==
  ASSUME TypeOK, NEW type, At(type), Pass \/ Drop,
         lastHash' \in [DOMAIN chain -> SUBSET (SUBSET Bits)],
         faces' \in [DOMAIN chain -> FaceTracker]
  PROVE  TypeOK'
<1>1. /\ Len(chain) \in Nat /\ DOMAIN chain = 1..Len(chain) /\ chain # <<>>
      /\ pos \in 1..Len(chain) /\ chain[pos] = type
  BY AtAFilter
<1>2. /\ UNCHANGED <<unbuilt, chain, frame, frames, sent>>
      /\ \/ pos' = pos + 1 /\ droppedBy' = droppedBy
         \/ pos' = 0 /\ droppedBy' = pos
  BY DEF Pass, Drop
<1>3. pos' \in -1..(Len(chain) + 1) /\ droppedBy' \in 0..Len(chain)
  BY <1>1, <1>2 DEF TypeOK
<1>4. frame # {}
  BY <1>1 DEF TypeOK
<1> QED
  BY <1>1, <1>2, <1>3, <1>4 DEF TypeOK

\* Send appends the frame and its detections, and keeps at most one frame before it.
LEMMA SendAppends ==
  ASSUME TypeOK, Send
  PROVE  \E i \in frame, u \in Seq([image : Image, detections : Nat]) :
           /\ sent' = u /\ Len(u) <= 2
           /\ LastTwo(u, sent, [image |-> i, detections |-> Detections])
<1> DEFINE Record == [image : Image, detections : Nat]
<1>1. PICK i \in frame :
        sent' = SubSeq(Append(sent, [image |-> i, detections |-> Detections]),
                       IF Len(sent) = 2 THEN 2 ELSE 1, Len(sent) + 1)
  BY DEF Send
<1>2. sent \in Seq(Record) /\ Len(sent) <= 2
  BY DEF TypeOK
<1>3. [image |-> i, detections |-> Detections] \in Record
  BY DetectionsOfATracker DEF TypeOK
<1>4. PICK r \in Record : r = [image |-> i, detections |-> Detections]
  BY <1>3
<1> HIDE DEF Record
<1>5. PICK u \in Seq(Record) :
        /\ u = SubSeq(Append(sent, r), IF Len(sent) = 2 THEN 2 ELSE 1, Len(sent) + 1)
        /\ LastTwo(u, sent, r)
  BY <1>2, LastTwoKept
<1>6. sent' = u
  BY <1>1, <1>4, <1>5
<1>7. Len(u) <= 2
  BY <1>5 DEF LastTwo
<1> QED
  BY <1>4, <1>5, <1>6, <1>7 DEF Record

LEMMA InitTypeOK == Init => TypeOK
<1> SUFFICES ASSUME Init PROVE TypeOK
  OBVIOUS
<1>1. unbuilt \in Seq(FilterType \cup {"unknown"}) /\ MaxFrames \in Nat
  BY PipelineAssumption DEF Init
<1>2. chain \in Seq(FilterType) /\ Len(chain) = 0 /\ DOMAIN chain = {}
  BY DEF Init
<1>3. sent \in Seq([image : Image, detections : Nat]) /\ Len(sent) = 0
  BY DEF Init
<1>4. lastHash \in [{} -> SUBSET (SUBSET Bits)] /\ faces \in [{} -> FaceTracker]
  BY DEF Init
<1>5. pos = -1 /\ frames = 0 /\ droppedBy = 0 /\ frame = {}
  BY DEF Init
<1> QED
  BY <1>1, <1>2, <1>3, <1>4, <1>5 DEF TypeOK

LEMMA NextTypeOK == TypeOK /\ [Next]_vars => TypeOK'
<1> SUFFICES ASSUME TypeOK, [Next]_vars PROVE TypeOK'
  OBVIOUS
<1>0. Len(chain) \in Nat /\ DOMAIN chain = 1..Len(chain)
  BY LenProperties DEF TypeOK
<1>a. ASSUME NEW type \in FilterType, AddFilter(type), pos = -1, pos' \in {-1, 0},
             unbuilt' \in Seq(FilterType \cup {"unknown"}),
             UNCHANGED <<frame, frames, droppedBy, sent>>
      PROVE  TypeOK'
  <2>1. /\ Len(chain') = Len(chain) + 1 /\ chain' \in Seq(FilterType) /\ chain' # <<>>
        /\ lastHash' \in [DOMAIN chain' -> SUBSET (SUBSET Bits)]
        /\ faces' \in [DOMAIN chain' -> FaceTracker]
    BY <1>a, <1>0, AddFilterAppends
  <2>2. pos' \in -1..(Len(chain') + 1) /\ droppedBy' \in 0..Len(chain') /\ ~(pos' > 0)
    BY <1>a, <1>0, <2>1 DEF TypeOK
  <2> QED
    BY <2>1, <2>2, <1>a DEF TypeOK
<1>1. CASE BuildFilter
  <2>1. /\ Head(unbuilt) \in FilterType \cup {"unknown"}
        /\ unbuilt' \in Seq(FilterType \cup {"unknown"})
    BY <1>1, HeadTailProperties DEF BuildFilter, TypeOK
  <2>2. CASE Head(unbuilt) = "unknown"
    BY <1>1, <2>1, <2>2 DEF BuildFilter, built, TypeOK
  <2>3. CASE Head(unbuilt) # "unknown"
    BY <1>1, <1>a, <2>1, <2>3 DEF BuildFilter
  <2> QED
    BY <2>2, <2>3
<1>2. CASE BuildPipeline
  <2>1. CASE chain = <<>>
    BY <1>2, <1>a, <2>1 DEF BuildPipeline, FilterType, TypeOK
  <2>2. CASE chain # <<>>
    <3>1. UNCHANGED <<unbuilt, chain, lastHash, faces, frame, frames, droppedBy, sent>>
          /\ pos' = 0
      BY <1>2, <2>2 DEF BuildPipeline, built
    <3>2. pos' \in -1..(Len(chain) + 1) /\ ~(pos' > 0)
      BY <3>1, <1>0
    <3> QED
      BY <3>1, <3>2, <2>2 DEF TypeOK
  <2> QED
    BY <2>1, <2>2
<1>3. ASSUME NEW i \in Image, Begin(i) PROVE TypeOK'
  <2>1. /\ pos' = 1 /\ frame' = {i} /\ frames' = frames + 1 /\ droppedBy' = 0
        /\ UNCHANGED <<unbuilt, chain, lastHash, faces, sent>>
        /\ frames < MaxFrames /\ pos = 0
    BY <1>3 DEF Begin, built
  <2>2. pos' \in -1..(Len(chain) + 1) /\ droppedBy' \in 0..Len(chain)
    BY <1>0, <2>1
  <2>3. frames' \in 0..MaxFrames
    BY <2>1, PipelineAssumption DEF TypeOK
  <2>4. chain # <<>> /\ frame' \subseteq Image /\ frame' # {}
    BY <2>1 DEF TypeOK
  <2> QED
    BY <2>1, <2>2, <2>3, <2>4 DEF TypeOK
<1>4. CASE ApplyNoop
  BY <1>4, PassOrDropType DEF ApplyNoop, TypeOK
<1>5. CASE ApplyBlur
  <2>1. Pass \/ Drop
    BY <1>5 DEF ApplyBlur
  <2> QED
    BY <1>5, <2>1, PassOrDropType DEF ApplyBlur, TypeOK
<1>6. CASE DuplicateDrops
  BY <1>6, PassOrDropType DEF DuplicateDrops, TypeOK
<1>7. CASE DuplicatePasses
  <2>1. PICK i \in frame : lastHash' = [lastHash EXCEPT ![pos] = {i.hash}]
    BY <1>7 DEF DuplicatePasses
  <2>2. i.hash \in SUBSET Bits
    BY ImageFields DEF TypeOK
  <2>3. {i.hash} \in SUBSET (SUBSET Bits)
    BY <2>2
  <2>4. lastHash' \in [DOMAIN chain -> SUBSET (SUBSET Bits)]
    BY <2>1, <2>3 DEF TypeOK
  <2> QED
    BY <1>7, <2>4, PassOrDropType DEF DuplicatePasses, TypeOK
<1>8. CASE ApplyFaceTracker
  <2>1. PICK i \in frame : faces' = [faces EXCEPT ![pos] = Track(@, i)]
    BY <1>8 DEF ApplyFaceTracker
  <2>2. pos \in DOMAIN chain /\ faces[pos] \in FaceTracker /\ i \in Image
    BY <1>8 DEF ApplyFaceTracker, At, TypeOK
  <2>3. Track(faces[pos], i) \in FaceTracker
    BY <2>2, TrackType
  <2>4. faces' \in [DOMAIN chain -> FaceTracker]
    BY <2>1, <2>2, <2>3 DEF TypeOK
  <2>5. Pass \/ Drop
    BY <1>8 DEF ApplyFaceTracker
  <2> QED
    BY <1>8, <2>4, <2>5, PassOrDropType DEF ApplyFaceTracker, TypeOK
<1>9. CASE ApplyObjectTracker
  BY <1>9, PassOrDropType DEF ApplyObjectTracker, TypeOK
<1>10. CASE Send
  <2>3. sent' \in Seq([image : Image, detections : Nat]) /\ Len(sent') <= 2
    BY <1>10, SendAppends
  <2>4. pos' = 0 /\ UNCHANGED <<unbuilt, chain, lastHash, faces, frame, frames, droppedBy>>
        /\ pos = Len(chain) + 1
    BY <1>10 DEF Send, built
  <2>5. pos' \in -1..(Len(chain) + 1) /\ chain # <<>> /\ ~(pos' > 0)
    BY <2>4, <1>0 DEF TypeOK
  <2> QED
    BY <2>3, <2>4, <2>5 DEF TypeOK
<1>11. CASE Bounded \/ UNCHANGED vars
  <2>1. UNCHANGED vars
    BY <1>11 DEF Bounded
  <2> QED
    BY <2>1 DEF vars, TypeOK
<1> QED
  BY <1>1, <1>2, <1>3, <1>4, <1>5, <1>6, <1>7, <1>8, <1>9, <1>10, <1>11 DEF Next
-----------------------------------------------------------------------------
(* The invariant.                                                           *)

LEMMA InitIInv == Init => IInv
<1> SUFFICES ASSUME Init PROVE IInv
  OBVIOUS
<1>1. TypeOK
  BY InitTypeOK
<1>2. chain = <<>> /\ pos = -1 /\ sent = <<>> /\ droppedBy = 0 /\ frame = {}
  BY DEF Init
<1>3. DOMAIN chain = {} /\ DOMAIN sent = {} /\ Len(sent) = 0
  BY <1>2
<1>4. CyclesHold /\ StartsEmpty /\ InChain /\ Remembered /\ Passed
  BY <1>2, <1>3 DEF CyclesHold, StartsEmpty, InChain, Remembered, Passed
<1>5. DuplicatesResembleOutput /\ OutputsDiffer /\ OutputCarriesDetections
  BY <1>2, <1>3 DEF DuplicatesResembleOutput, OutputsDiffer, OutputCarriesDetections
<1> QED
  BY <1>1, <1>4, <1>5 DEF IInv

\* While the chain is put together, nothing is said of a frame or of the output.
LEMMA BuildIInv ==
  ASSUME IInv, TypeOK', BuildFilter \/ BuildPipeline
  PROVE  IInv'
<1>0. Len(chain) \in Nat /\ DOMAIN chain = 1..Len(chain)
  BY LenProperties DEF IInv, TypeOK
<1>1. /\ pos = -1 /\ pos' \in {-1, 0} /\ sent = <<>> /\ sent' = <<>>
      /\ droppedBy = 0 /\ droppedBy' = 0
      /\ \A p \in DOMAIN chain : lastHash[p] = {}
  BY DEF BuildFilter, BuildPipeline, IInv, StartsEmpty
<1>2. /\ \A p \in DOMAIN chain' : lastHash'[p] = {} /\ MissedWithinCycle(faces'[p])
      /\ \A p \in DOMAIN chain' : p \in Nat /\ p > 0
  <2>1. ASSUME NEW type \in FilterType, AddFilter(type)
        PROVE  /\ \A p \in DOMAIN chain' : lastHash'[p] = {} /\ MissedWithinCycle(faces'[p])
               /\ \A p \in DOMAIN chain' : p \in Nat /\ p > 0
    <3>1. /\ DOMAIN chain' = 1..(Len(chain) + 1)
          /\ \A p \in DOMAIN chain : lastHash'[p] = lastHash[p] /\ faces'[p] = faces[p]
          /\ lastHash'[Len(chain) + 1] = {} /\ faces'[Len(chain) + 1] = NewFaceTracker
      BY <2>1, AddFilterAppends DEF IInv
    <3>2. \A p \in DOMAIN chain' : p \in DOMAIN chain \/ p = Len(chain) + 1
      BY <3>1, <1>0
    <3>3. \A p \in DOMAIN chain : MissedWithinCycle(faces'[p])
      BY <3>1 DEF IInv, CyclesHold
    <3>4. MissedWithinCycle(faces'[Len(chain) + 1])
      BY <3>1, NewTrackerMissedNothing
    <3>5. \A p \in DOMAIN chain' : p \in Nat /\ p > 0
      BY <3>1, <1>0
    <3> QED
      BY <3>1, <3>2, <3>3, <3>4, <3>5, <1>1
  <2>2. ASSUME UNCHANGED built
        PROVE  /\ \A p \in DOMAIN chain' : lastHash'[p] = {} /\ MissedWithinCycle(faces'[p])
               /\ \A p \in DOMAIN chain' : p \in Nat /\ p > 0
    <3>1. chain' = chain /\ lastHash' = lastHash /\ faces' = faces
      BY <2>2 DEF built
    <3>2. \A p \in DOMAIN chain : p \in Nat /\ p > 0
      BY <1>0
    <3> QED
      BY <3>1, <3>2, <1>1 DEF IInv, CyclesHold
  <2>3. (\E type \in FilterType : AddFilter(type)) \/ UNCHANGED built
    <3>1. CASE BuildFilter
      <4>1. Head(unbuilt) \in FilterType \cup {"unknown"}
        BY <3>1, HeadTailProperties DEF BuildFilter, IInv, TypeOK
      <4> QED
        BY <3>1, <4>1 DEF BuildFilter
    <3>2. CASE BuildPipeline
      BY <3>2 DEF BuildPipeline, FilterType
    <3> QED
      BY <3>1, <3>2
  <2> QED
    BY <2>1, <2>2, <2>3
<1>3. CyclesHold' /\ StartsEmpty' /\ InChain'
  BY <1>1, <1>2 DEF CyclesHold, StartsEmpty, InChain
<1>4. \A p \in DOMAIN chain' : ~(pos' > p)
  BY <1>1, <1>2
<1>5. Remembered' /\ Passed'
  BY <1>1, <1>2, <1>4 DEF Remembered, Passed, OutputHash
<1>6. DuplicatesResembleOutput' /\ OutputsDiffer' /\ OutputCarriesDetections'
  <2>1. Len(sent') = 0 /\ DOMAIN sent' = {}
    BY <1>1
  <2> QED
    BY <1>1, <2>1 DEF DuplicatesResembleOutput, OutputsDiffer, OutputCarriesDetections
<1> QED
  BY <1>3, <1>5, <1>6 DEF IInv

LEMMA BeginIInv ==
  ASSUME IInv, TypeOK', NEW i \in Image, Begin(i)
  PROVE  IInv'
<1>1. /\ pos = 0 /\ pos' = 1 /\ frame' = {i} /\ droppedBy' = 0
      /\ UNCHANGED <<chain, lastHash, faces, sent>>
  BY DEF Begin, built
<1>2. \A p \in DOMAIN chain : p \in Nat /\ p > 0
  <2>1. DOMAIN chain = 1..Len(chain) /\ Len(chain) \in Nat
    BY LenProperties DEF IInv, TypeOK
  <2> QED BY <2>1
<1>3. \A p \in DOMAIN chain : ~(pos > p) /\ ~(pos' > p)
  BY <1>1, <1>2
<1>4. CyclesHold' /\ StartsEmpty' /\ InChain'
  BY <1>1 DEF IInv, CyclesHold, StartsEmpty, InChain
<1>5. Remembered' /\ Passed'
  BY <1>1, <1>3 DEF IInv, Remembered, Passed, OutputHash, DropsLast
<1>6. DuplicatesResembleOutput' /\ OutputsDiffer' /\ OutputCarriesDetections'
  BY <1>1 DEF IInv, DuplicatesResembleOutput, OutputsDiffer, OutputCarriesDetections, DropsLast
<1> QED
  BY <1>4, <1>5, <1>6 DEF IInv

\* A filter that lets the frame on: a duplicate filter remembers it, and it resembled
\* nothing remembered; a face tracker has detections.
LEMMA PassIInv ==
  ASSUME IInv, TypeOK', NEW type, At(type), Pass, type # "object", CyclesHold',
         \A p \in DOMAIN chain : p # pos => lastHash'[p] = lastHash[p] /\ faces'[p] = faces[p],
         type = "face" => Count(faces'[pos]) > 0,
         type = "duplicate" =>
            \E i \in frame : /\ lastHash'[pos] = {i.hash}
                             /\ \A h \in lastHash[pos] : ~Similar(i.hash, h)
  PROVE  IInv'
<1>1. /\ Len(chain) \in Nat /\ DOMAIN chain = 1..Len(chain)
      /\ pos \in 1..Len(chain) /\ chain[pos] = type
  BY AtAFilter DEF IInv
<1>2. pos' = pos + 1 /\ UNCHANGED <<chain, frame, droppedBy, sent>>
  BY DEF Pass
<1>3. pos > 0 /\ pos' > 0 /\ pos' # -1 /\ pos' # 0
  BY <1>1, <1>2
<1>4. StartsEmpty' /\ InChain'
  BY <1>2, <1>3 DEF IInv, InChain, StartsEmpty
<1>5. PICK i \in Image : frame = {i}
  BY <1>3 DEF IInv, InChain
<1>6. ASSUME NEW p \in DOMAIN chain
      PROVE  (pos' > p <=> pos > p \/ p = pos) /\ ~(pos > pos)
  <2>1. p \in Nat /\ pos \in Nat
    BY <1>1
  <2> QED
    BY <2>1, <1>2
<1>7. Remembered'
  <2>1. SUFFICES ASSUME NEW p \in DOMAIN chain, chain[p] = "duplicate", DropsLast(p)
        PROVE  IF pos' > p
               THEN lastHash'[p] = {i.hash} /\ \A h \in OutputHash : ~Similar(i.hash, h)
               ELSE lastHash'[p] = OutputHash
    BY <1>2, <1>5 DEF Remembered, OutputHash, DropsLast
  <2>2. IF pos > p
        THEN lastHash[p] = {i.hash} /\ \A h \in OutputHash : ~Similar(i.hash, h)
        ELSE lastHash[p] = OutputHash
    BY <2>1, <1>5 DEF IInv, Remembered
  <2>3. CASE p = pos
    BY <2>1, <2>2, <2>3, <1>1, <1>5, <1>6
  <2>4. CASE p # pos
    BY <2>2, <2>4, <1>6
  <2> QED
    BY <2>3, <2>4
<1>8. Passed'
  <2>1. SUFFICES ASSUME NEW p \in DOMAIN chain, pos > p \/ p = pos
        PROVE  chain[p] # "object" /\ (chain[p] = "face" => Count(faces'[p]) > 0)
    BY <1>2, <1>6 DEF Passed
  <2>2. CASE p = pos
    BY <2>2, <1>1
  <2>3. CASE p # pos
    BY <2>1, <2>3 DEF IInv, Passed
  <2> QED
    BY <2>2, <2>3
<1>9. DuplicatesResembleOutput' /\ OutputsDiffer' /\ OutputCarriesDetections'
  BY <1>2, <1>3 DEF IInv, DuplicatesResembleOutput, OutputsDiffer, OutputCarriesDetections, DropsLast
<1> QED
  BY <1>4, <1>7, <1>8, <1>9 DEF IInv

\* A filter that drops the frame: what a duplicate filter drops resembled what it remembers.
LEMMA DropIInv ==
  ASSUME IInv, TypeOK', NEW type, At(type), Drop, type # "noop", CyclesHold',
         lastHash' = lastHash,
         type = "duplicate" => \E i \in frame : \E h \in lastHash[pos] : Similar(i.hash, h)
  PROVE  IInv'
<1>1. /\ Len(chain) \in Nat /\ DOMAIN chain = 1..Len(chain)
      /\ pos \in 1..Len(chain) /\ chain[pos] = type
  BY AtAFilter DEF IInv
<1>2. pos' = 0 /\ droppedBy' = pos /\ UNCHANGED <<chain, frame, sent>>
  BY DEF Drop
<1>3. pos > 0 /\ ~(pos > pos) /\ \A p \in DOMAIN chain : ~(0 > p)
  BY <1>1
<1>4. StartsEmpty' /\ InChain' /\ Passed'
  BY <1>2, <1>3 DEF IInv, InChain, StartsEmpty, Passed
<1>5. PICK i \in Image : frame = {i}
  BY <1>3 DEF IInv, InChain
<1>6. Remembered'
  <2>1. SUFFICES ASSUME NEW p \in DOMAIN chain, chain[p] = "duplicate", DropsLast(p)
        PROVE  lastHash[p] = OutputHash
    BY <1>2, <1>3 DEF Remembered, OutputHash, DropsLast
  <2>2. ~(pos > p)
    BY <2>1, <1>1 DEF DropsLast
  <2> QED
    BY <2>1, <2>2 DEF IInv, Remembered
<1>7. DuplicatesResembleOutput'
  <2>1. SUFFICES ASSUME chain[pos] = "duplicate", DropsLast(pos)
        PROVE  sent # <<>> /\ \A j \in frame : Similar(j.hash, sent[Len(sent)].image.hash)
    BY <1>2 DEF DuplicatesResembleOutput, DropsLast
  <2>2. lastHash[pos] = OutputHash
    BY <2>1, <1>1, <1>3 DEF IInv, Remembered
  <2>3. PICK h \in OutputHash : Similar(i.hash, h)
    BY <2>1, <2>2, <1>1, <1>5
  <2> QED
    BY <2>3, <1>5 DEF OutputHash
<1>8. OutputsDiffer' /\ OutputCarriesDetections'
  BY <1>2 DEF IInv, OutputsDiffer, OutputCarriesDetections, DropsLast
<1> QED
  BY <1>4, <1>6, <1>7, <1>8 DEF IInv

\* A frame that is sent is past every filter: the last dropping duplicate filter
\* remembers it, and every face tracker has detections.
LEMMA SendIInv ==
  ASSUME IInv, TypeOK', Send
  PROVE  IInv'
<1>1. /\ pos = Len(chain) + 1 /\ pos' = 0
      /\ UNCHANGED <<chain, lastHash, faces, frame, droppedBy>>
  BY DEF Send, built
<1>2. Len(chain) \in Nat /\ DOMAIN chain = 1..Len(chain)
  BY LenProperties DEF IInv, TypeOK
<1>3. pos > 0 /\ droppedBy = 0 /\ \A p \in DOMAIN chain : pos > p /\ ~(0 > p)
  BY <1>1, <1>2 DEF IInv, InChain
<1>4. PICK i \in frame, u \in Seq([image : Image, detections : Nat]) :
         /\ sent' = u /\ Len(u) <= 2
         /\ LastTwo(u, sent, [image |-> i, detections |-> Detections])
  BY SendAppends DEF IInv
<1>5. frame = {i} /\ i \in Image
  BY <1>3, <1>4 DEF IInv, InChain
<1>6. /\ sent' # <<>> /\ sent'[Len(sent')].image = i
      /\ sent'[Len(sent')].detections = Detections
      /\ Len(sent') = 2 => /\ sent # <<>> /\ Len(sent) \in DOMAIN sent
                           /\ sent'[1] = sent[Len(sent)]
      /\ \A k \in DOMAIN sent' : \/ sent'[k] = [image |-> i, detections |-> Detections]
                                 \/ \E j \in DOMAIN sent : sent'[k] = sent[j]
  <2> DEFINE r == [image |-> i, detections |-> Detections]
  <2>1. r.image = i /\ r.detections = Detections
    OBVIOUS
  <2>2. LastTwo(sent', sent, r)
    BY <1>4
  <2> HIDE DEF r
  <2>3. /\ sent' # <<>> /\ sent'[Len(sent')] = r
        /\ Len(sent') = 2 => /\ sent # <<>> /\ Len(sent) \in DOMAIN sent
                             /\ sent'[1] = sent[Len(sent)]
        /\ \A k \in DOMAIN sent' : sent'[k] = r \/ \E j \in DOMAIN sent : sent'[k] = sent[j]
    BY <2>2 DEF LastTwo
  <2>5. \A k \in DOMAIN sent' : \/ sent'[k] = [image |-> i, detections |-> Detections]
                                \/ \E j \in DOMAIN sent : sent'[k] = sent[j]
    BY <2>3 DEF r
  <2> QED
    BY <2>1, <2>3, <2>5
<1>7. CyclesHold' /\ StartsEmpty' /\ InChain' /\ Passed'
  BY <1>1, <1>3 DEF IInv, CyclesHold, StartsEmpty, InChain, Passed
<1>8. Remembered'
  <2>1. SUFFICES ASSUME NEW p \in DOMAIN chain, chain[p] = "duplicate", DropsLast(p)
        PROVE  lastHash[p] = OutputHash'
    BY <1>1, <1>3 DEF Remembered, DropsLast
  <2>2. OutputHash' = {i.hash}
    BY <1>6 DEF OutputHash
  <2> QED
    BY <2>1, <2>2, <1>3, <1>5 DEF IInv, Remembered
<1>9. DuplicatesResembleOutput'
  BY <1>1, <1>3 DEF DuplicatesResembleOutput
<1>10. OutputsDiffer'
  <2>1. SUFFICES ASSUME NEW p \in DOMAIN chain, chain[p] = "duplicate", DropsLast(p),
                        Len(sent') = 2
        PROVE  Distance(sent'[1].image.hash, sent'[2].image.hash) > HashThreshold
    BY <1>1 DEF OutputsDiffer, DropsLast
  <2> DEFINE old == sent[Len(sent)].image
  <2>2. sent # <<>> /\ sent'[1].image = old /\ sent'[2].image = i
    BY <2>1, <1>6
  <2>3. old \in Image
    <3> DEFINE Record == [image : Image, detections : Nat]
    <3>1. sent \in Seq(Record)
      BY DEF IInv, TypeOK
    <3>2. Len(sent) \in DOMAIN sent
      BY <2>1, <1>6
    <3>3. sent[Len(sent)] \in Record
      <4> HIDE DEF Record
      <4> QED
        BY <3>1, <3>2, LenProperties, ElementOfSeq
    <3> QED
      BY <3>3
  <2>4. ~Similar(i.hash, old.hash)
    BY <2>1, <2>2, <1>3, <1>5 DEF IInv, Remembered, OutputHash
  <2>5. /\ Distance(i.hash, old.hash) \in Nat
        /\ Distance(old.hash, i.hash) = Distance(i.hash, old.hash)
    BY <2>3, <1>5, ImageFields, DistanceIsSymmetric
  <2>6. Distance(i.hash, old.hash) > HashThreshold
    BY <2>4, <2>5, PipelineAssumption DEF Similar
  <2> QED
    BY <2>2, <2>5, <2>6
<1>11. OutputCarriesDetections'
  <2>1. \A p \in DOMAIN chain : chain[p] # "object"
    BY <1>3 DEF IInv, Passed
  <2>2. (\E p \in DOMAIN chain : chain[p] = "face") => Detections > 0
    BY <1>3, DetectionsOfATracker DEF IInv, Passed
  <2>3. ASSUME NEW k \in DOMAIN sent', \E p \in DOMAIN chain : chain[p] = "face"
        PROVE  sent'[k].detections > 0
    <3>1. CASE sent'[k] = [image |-> i, detections |-> Detections]
      BY <2>2, <2>3, <3>1
    <3>2. CASE \E j \in DOMAIN sent : sent'[k] = sent[j]
      BY <2>3, <3>2 DEF IInv, OutputCarriesDetections
    <3> QED
      BY <3>1, <3>2, <1>6
  <2> QED
    BY <2>1, <2>3, <1>1 DEF OutputCarriesDetections
<1> QED
  BY <1>7, <1>8, <1>9, <1>10, <1>11 DEF IInv

LEMMA NextIInv == IInv /\ [Next]_vars => IInv'
<1> SUFFICES ASSUME IInv, [Next]_vars PROVE IInv'
  OBVIOUS
<1>1. TypeOK'
  BY NextTypeOK DEF IInv
<1>a. ASSUME UNCHANGED <<chain, faces>> PROVE CyclesHold'
  BY <1>a DEF IInv, CyclesHold
<1>2. CASE BuildFilter \/ BuildPipeline
  BY <1>1, <1>2, BuildIInv
<1>3. ASSUME NEW i \in Image, Begin(i) PROVE IInv'
  BY <1>1, <1>3, BeginIInv
<1>4. CASE ApplyNoop
  <2>1. At("noop") /\ Pass /\ UNCHANGED <<chain, lastHash, faces>>
    BY <1>4 DEF ApplyNoop, Pass
  <2> QED
    BY <2>1, <1>1, <1>a, PassIInv
<1>5. CASE ApplyBlur
  <2>1. At("blur") /\ (Pass \/ Drop) /\ UNCHANGED <<chain, lastHash, faces>>
    BY <1>5 DEF ApplyBlur, Pass, Drop
  <2>2. CASE Pass
    BY <2>1, <2>2, <1>1, <1>a, PassIInv
  <2>3. CASE Drop
    BY <2>1, <2>3, <1>1, <1>a, DropIInv
  <2> QED
    BY <2>1, <2>2, <2>3
<1>6. CASE DuplicateDrops
  <2>1. At("duplicate") /\ Drop /\ UNCHANGED <<chain, lastHash, faces>>
    BY <1>6 DEF DuplicateDrops, Drop
  <2>2. \E i \in frame : \E h \in lastHash[pos] : Similar(i.hash, h)
    BY <1>6 DEF DuplicateDrops
  <2> QED
    BY <2>1, <2>2, <1>1, <1>a, DropIInv
<1>7. CASE DuplicatePasses
  <2>1. At("duplicate") /\ Pass /\ UNCHANGED <<chain, faces>>
    BY <1>7 DEF DuplicatePasses, Pass
  <2>2. PICK i \in frame : /\ \A h \in lastHash[pos] : ~Similar(i.hash, h)
                           /\ lastHash' = [lastHash EXCEPT ![pos] = {i.hash}]
    BY <1>7 DEF DuplicatePasses
  <2>3. /\ lastHash'[pos] = {i.hash}
        /\ \A p \in DOMAIN chain : p # pos => lastHash'[p] = lastHash[p] /\ faces'[p] = faces[p]
    BY <2>1, <2>2 DEF At, IInv, TypeOK
  <2> QED
    BY <2>1, <2>2, <2>3, <1>1, <1>a, PassIInv
<1>8. CASE ApplyFaceTracker
  <2>1. At("face") /\ UNCHANGED <<chain, lastHash>>
    BY <1>8 DEF ApplyFaceTracker, Pass, Drop
  <2>2. PICK i \in frame : faces' = [faces EXCEPT ![pos] = Track(@, i)]
    BY <1>8 DEF ApplyFaceTracker
  <2>3. \A p \in DOMAIN chain : faces'[p] = IF p = pos THEN Track(faces[p], i) ELSE faces[p]
    BY <2>2 DEF IInv, TypeOK
  <2>4. \A p \in DOMAIN chain : MissedWithinCycle(faces'[p])
    BY <2>3, TrackKeepsCycle DEF IInv, CyclesHold
  <2>5. CyclesHold'
    BY <2>1, <2>4 DEF CyclesHold
  <2>6. CASE Count(faces'[pos]) < 1
    <3>1. Drop
      BY <1>8, <2>6 DEF ApplyFaceTracker
    <3> QED
      BY <3>1, <2>1, <2>5, <1>1, DropIInv
  <2>7. CASE ~(Count(faces'[pos]) < 1)
    <3>1. Pass
      BY <1>8, <2>7 DEF ApplyFaceTracker
    <3>2. Count(faces'[pos]) > 0
      <4>1. faces'[pos] \in FaceTracker
        BY <2>1, <1>1 DEF At, TypeOK
      <4>2. Count(faces'[pos]) \in Nat
        BY <4>1, CountType
      <4> QED
        BY <4>2, <2>7
    <3> QED
      BY <3>1, <3>2, <2>1, <2>3, <2>5, <1>1, PassIInv
  <2> QED
    BY <2>6, <2>7
<1>9. CASE ApplyObjectTracker
  <2>1. At("object") /\ Drop /\ UNCHANGED <<chain, lastHash, faces>>
    BY <1>9 DEF ApplyObjectTracker, Drop
  <2> QED
    BY <2>1, <1>1, <1>a, DropIInv
<1>10. CASE Send
  BY <1>1, <1>10, SendIInv
<1>11. CASE Bounded \/ UNCHANGED vars
  <2>1. UNCHANGED vars
    BY <1>11 DEF Bounded
  <2> QED
    BY <2>1, <1>1 DEF vars, IInv, CyclesHold, StartsEmpty, InChain, Remembered, Passed, OutputHash,
       DropsLast, DuplicatesResembleOutput, OutputsDiffer, OutputCarriesDetections
<1> QED
  BY <1>2, <1>3, <1>4, <1>5, <1>6, <1>7, <1>8, <1>9, <1>10, <1>11 DEF Next

LEMMA IInvImpliesDetected == IInv => MovingSceneIsDetected
<1> SUFFICES ASSUME IInv, NEW p \in DOMAIN chain PROVE faces[p].missed < DetectEvery
  BY DEF MovingSceneIsDetected
<1>1. DetectEvery \in Nat \ {0} /\ MissedWithinCycle(faces[p])
  BY PipelineAssumption DEF IInv, CyclesHold
<1>2. faces[p].frameCount % DetectEvery \in 0..(DetectEvery - 1)
  BY <1>1 DEF MissedWithinCycle
<1> QED
  BY <1>1, <1>2 DEF MissedWithinCycle

LEMMA Invariance == Spec => []IInv
  BY InitIInv, NextIInv, PTL DEF Spec
-----------------------------------------------------------------------------
(* The theorems.                                                            *)

\* Every filter keeps the state of its own type in its place of the chain, which is
\* never empty once frames come; at most one frame is in it (manager.go:133-216).
THEOREM TypeCorrect == Spec => []TypeOK
<1>1. IInv => TypeOK
  BY DEF IInv
<1> QED
  BY <1>1, Invariance, PTL

\* Of DetectEvery frames in a row that the motion gate lets through, the classifier
\* runs on one, in every face tracker of every chain (face.go:85-97).
THEOREM MovingDetected == Spec => []MovingSceneIsDetected
  BY Invariance, IInvImpliesDetected, PTL

\* What the last dropping duplicate filter holds back resembles the last frame sent,
\* in every chain and however long a scene drifts (duplicate.go:29-34).
THEOREM SuppressedResembleOutput == Spec => []DuplicatesResembleOutput
<1>1. IInv => DuplicatesResembleOutput
  BY DEF IInv
<1> QED
  BY <1>1, Invariance, PTL

\* Behind a duplicate filter that no other one drops after, two frames sent in a row
\* are further apart than its threshold (duplicate.go:29-37).
THEOREM OutputNotRepeated == Spec => []OutputsDiffer
<1>1. IInv => OutputsDiffer
  BY DEF IInv
<1> QED
  BY <1>1, Invariance, PTL

\* What comes through a face tracker is sent with detections, and nothing comes
\* through an object tracker (tracker_filter.go:24-27, pipeline.go:34-44).
THEOREM OutputHasDetections == Spec => []OutputCarriesDetections
<1>1. IInv => OutputCarriesDetections
  BY DEF IInv
<1> QED
  BY <1>1, Invariance, PTL
=============================================================================
