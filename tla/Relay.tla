------------------------------- MODULE Relay --------------------------------
(***************************************************************************)
(* What stream redirection promises: what is sent down a stream arrives at *)
(* its destination, item by item, in order, each once, with nothing said   *)
(* of pipes, readiness and buffers.  It may be told to shut down while     *)
(* streams are in use; what came down those that had been closed by then   *)
(* is still delivered before it ends.                                      *)
(***************************************************************************)
EXTENDS Sequences

CONSTANTS
  Stream,  \* the streams
  Item     \* what is sent

VARIABLES
  open,    \* the streams that may still be sent to
  queue,   \* sent and not delivered
  got,     \* delivered
  closing, \* told to shut down
  owed,    \* the streams that had been closed by then
  over

vars == <<open, queue, got, closing, owed, over>>

TypeOK ==
  /\ open \in SUBSET Stream
  /\ queue \in [Stream -> Seq(Item)]
  /\ got \in [Stream -> Seq(Item)]
  /\ closing \in BOOLEAN
  /\ owed \in SUBSET Stream
  /\ over \in BOOLEAN

Init ==
  /\ open = Stream
  /\ queue = [s \in Stream |-> <<>>]
  /\ got = [s \in Stream |-> <<>>]
  /\ closing = FALSE
  /\ owed = {}
  /\ over = FALSE

Send(s) ==
  /\ s \in open
  /\ \E item \in Item : queue' = [queue EXCEPT ![s] = Append(@, item)]
  /\ UNCHANGED <<open, got, closing, owed, over>>

Deliver(s) ==
  /\ ~over /\ queue[s] # <<>>
  /\ got' = [got EXCEPT ![s] = Append(@, Head(queue[s]))]
  /\ queue' = [queue EXCEPT ![s] = Tail(@)]
  /\ UNCHANGED <<open, closing, owed, over>>

Finish(s) ==
  /\ s \in open
  /\ open' = open \ {s}
  /\ UNCHANGED <<queue, got, closing, owed, over>>

Shut ==
  /\ ~closing
  /\ closing' = TRUE
  /\ owed' = Stream \ open
  /\ UNCHANGED <<open, queue, got, over>>

End ==
  /\ ~over /\ closing
  /\ \A s \in owed : queue[s] = <<>>
  /\ over' = TRUE
  /\ UNCHANGED <<open, queue, got, closing, owed>>

Next == Shut \/ End \/ \E s \in Stream : Send(s) \/ Deliver(s) \/ Finish(s)

Spec == Init /\ [][Next]_vars
=============================================================================
