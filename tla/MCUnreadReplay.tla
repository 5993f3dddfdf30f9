--------------------------- MODULE MCUnreadReplay ---------------------------
EXTENDS UnreadReplay

CONSTANT a

(* One channel: a single message, then an album of two parts of which only  *)
(* the second has the tag.  TDLib pushes the single message and the second  *)
(* part; the first part is only found in the history.                       *)
Ids     == 1..3
Chats   == [m \in Ids |-> a]
Parts   == {2, 3}
Group   == [m \in Ids |-> IF m \in Parts THEN Parts ELSE {m}]
WithTag == {1, 3}

=============================================================================
