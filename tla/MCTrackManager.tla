-------------------------- MODULE MCTrackManager --------------------------
(* Boxes for TrackManager: with a threshold of 3/10, Left overlaps Middle    *)
(* and Middle overlaps Right, Left and Right do not overlap enough, and Far  *)
(* overlaps nothing.  A frame gives no box, one, two different ones, three   *)
(* detections of one face, or the chain of three in either order.            *)
EXTENDS TrackManager

Left   == [x0 |-> 0, y0 |-> 0, x1 |-> 4, y1 |-> 4]
Middle == [x0 |-> 1, y0 |-> 1, x1 |-> 5, y1 |-> 5]
Right  == [x0 |-> 2, y0 |-> 2, x1 |-> 6, y1 |-> 6]
Far    == [x0 |-> 8, y0 |-> 0, x1 |-> 9, y1 |-> 2]

AllBoxes == {Left, Middle, Right, Far}

Frames ==
    {<<>>} \cup {<<b>> : b \in AllBoxes} \cup {<<b, b, b>> : b \in AllBoxes}
    \cup {<<b, c>> : <<b, c>> \in {p \in AllBoxes \X AllBoxes : p[1] # p[2]}}
    \cup {<<Left, Middle, Right>>, <<Right, Middle, Left>>}
=============================================================================
