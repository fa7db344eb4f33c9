-------------------------- MODULE MCFilterPipeline --------------------------
(* Images and chains for FilterPipeline.  With a threshold of 1 bit and one  *)
(* sample, Empty drifts into Enter and Enter into Stay, each step below both *)
(* thresholds, the two together above; Smear is Stay out of focus.           *)
EXTENDS FilterPipeline

Empty == [hash |-> {},     gray |-> [s \in Samples |-> 0],  sharp |-> 100, faces |-> 0]
Enter == [hash |-> {1},    gray |-> [s \in Samples |-> 20], sharp |-> 100, faces |-> 1]
Stay  == [hash |-> {1, 2}, gray |-> [s \in Samples |-> 40], sharp |-> 100, faces |-> 2]
Smear == [hash |-> {1, 2}, gray |-> [s \in Samples |-> 40], sharp |-> 99,  faces |-> 0]

Images == {Empty, Enter, Stay, Smear}

\* The chain of the design, the duplicate filter last, two of them, two trackers,
\* the object tracker, and lists of unknown and of no filters.
Lists == {<<"blur", "duplicate", "face">>, <<"blur", "face", "duplicate", "noop">>,
          <<"duplicate", "blur", "duplicate">>, <<"face", "face">>,
          <<"duplicate", "object">>, <<"face", "duplicate">>, <<"unknown", "duplicate">>, <<>>}
=============================================================================
