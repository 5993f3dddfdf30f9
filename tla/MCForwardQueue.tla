--------------------------- MODULE MCForwardQueue ---------------------------
(***************************************************************************)
(* Instances of ForwardQueue for TLC.                                      *)
(***************************************************************************)
EXTENDS ForwardQueue, TLC

CONSTANTS i1, i2, i3, i4, c1, c2

TwoDocs   == {i1, i3}
ThreeDocs == {i1, i2, i3}
FourDocs  == {i1, i2, i3, i4}

(* A single message and an album of one channel and an album of another: a  *)
(* batch of two may be of one channel or mixed, and two albums may need two *)
(* requests.  i4 is an album that begins with the message i2 does and is    *)
(* too large for a request; with the unique index only one of them is       *)
(* queued.                                                                  *)
DocKey  == [i \in Items |-> IF i = i4 THEN i2 ELSE i]
DocChat == [i \in Items |-> IF i = i3 THEN c2 ELSE c1]
DocSize == [i \in Items |-> IF i = i4 THEN 4 ELSE IF i = i1 THEN 1 ELSE 2]

(* The state without the history variables that no action reads and no      *)
(* property of ForwardQueueSplit mentions.                                  *)
SplitView == <<store, thread, limiter, reqs, tried>>
=============================================================================
