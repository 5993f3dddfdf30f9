--------------------------- MODULE QueueContract ---------------------------
(***************************************************************************)
(* What the forwarding queue promises to the rest of the program, without  *)
(* ticks, batches, requests, callbacks or retries: a document that was put *)
(* in stays in, leaves PENDING only for a verdict, never goes back, and is *)
(* called SUCCESS only after Telegram executed a request with its          *)
(* messages.  That is less than "forwarded": an executed request may leave *)
(* messages out, and the queue does not learn of it.  A later verdict may  *)
(* replace an earlier one: the program writes them unconditionally.        *)
(***************************************************************************)
CONSTANT Items      \* the documents of forward_queue

VARIABLES
  verdict,   \* "NONE" before the document is put in, else its status
  executed,  \* the documents of which Telegram executed a request
  forwarded  \* the documents all of whose messages it forwarded

promise == <<verdict, executed, forwarded>>

Queued == {i \in Items : verdict[i] # "NONE"}

Init ==
  /\ verdict = [i \in Items |-> "NONE"]
  /\ executed = {}
  /\ forwarded = {}

Put(i) ==
  /\ verdict[i] = "NONE"
  /\ verdict' = [verdict EXCEPT ![i] = "PENDING"]
  /\ UNCHANGED <<executed, forwarded>>

(* Telegram executes requests for the documents of S, and forwards all      *)
(* messages of those in T.                                                  *)
Forward(S, T) ==
  /\ S \subseteq Queued /\ T \subseteq S
  /\ executed' = executed \union S
  /\ forwarded' = forwarded \union T
  /\ UNCHANGED verdict

Succeed(i) ==
  /\ i \in executed
  /\ verdict' = [verdict EXCEPT ![i] = "SUCCESS"]
  /\ UNCHANGED <<executed, forwarded>>

GiveUp(S) ==
  /\ S \subseteq Queued
  /\ verdict' = [i \in Items |-> IF i \in S THEN "FAILED" ELSE verdict[i]]
  /\ UNCHANGED <<executed, forwarded>>

Next ==
  \/ \E i \in Items : Put(i) \/ Succeed(i)
  \/ \E S, T \in SUBSET Items : Forward(S, T)
  \/ \E S \in SUBSET Items : GiveUp(S)

Spec == Init /\ [][Next]_promise

=============================================================================
