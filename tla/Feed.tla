-------------------------------- MODULE Feed --------------------------------
(***************************************************************************)
(* What the listener promises the event loop, and all that the event loop  *)
(* relies on: a bounded queue that delivers every launch at most once and  *)
(* in the order of sending, with notices of reconnects in between.         *)
(* Listener implements it from the sending side and Sniper from the        *)
(* receiving side: what Sniper lets its environment send is no more and no *)
(* less than what a Feed may carry.                                        *)
(***************************************************************************)
EXTENDS Integers, Sequences, SequencesExt

CONSTANTS
  Items,     \* the launches that may be sent
  Notice,    \* the message that says the listener reconnects
  Capacity   \* how many messages the queue holds

VARIABLES
  queue,  \* messages sent and not yet taken
  taken,  \* the launches taken so far
  open    \* both sides are there

vars == <<queue, taken, open>>

Init == queue = <<>> /\ taken = {} /\ open = TRUE

Put(m) == open /\ Len(queue) < Capacity /\ queue' = Append(queue, m)

SendItem(x) ==
  /\ x \notin taken \cup ToSet(queue)
  /\ Put(x)
  /\ UNCHANGED <<taken, open>>

\* The sender may be gone right after its notice.
SendNotice == Put(Notice) /\ open' \in {TRUE, FALSE} /\ UNCHANGED taken

Take ==
  /\ queue # <<>>
  /\ taken' = taken \cup ({Head(queue)} \ {Notice})
  /\ queue' = Tail(queue)
  /\ UNCHANGED open

\* Either side goes away, the receiver with everything still in the queue.
Close == open' = FALSE /\ queue' \in {queue, <<>>} /\ UNCHANGED taken

Next == (\E x \in Items : SendItem(x)) \/ SendNotice \/ Take \/ Close

Spec == Init /\ [][Next]_vars
=============================================================================
