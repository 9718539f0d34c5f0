--------------------------- MODULE DropNewestQueue ---------------------------
(***************************************************************************)
(* What the Livox driver's point queue promises to the code on either side *)
(* of it, seen from outside: one bounded FIFO of packets for each lidar.   *)
(* The n-th packet offered for a lidar is named n.  A packet that meets a  *)
(* full queue is dropped; one that was accepted is published exactly once, *)
(* after all the packets that were accepted before it.                     *)
(***************************************************************************)
EXTENDS Naturals, Sequences

CONSTANTS Lidars,     \* the lidars' indices
          Size        \* the capacity of a queue

VARIABLES offered,    \* offered[l]: the packets the driver handed to Lds
          queue,      \* queue[l]: the accepted packets not yet published
          published   \* published[l]: the packets published so far

vars == <<offered, queue, published>>

Init == /\ offered = [l \in Lidars |-> 0]
        /\ queue = [l \in Lidars |-> << >>]
        /\ published = [l \in Lidars |-> << >>]

Offer(l) == /\ offered' = [offered EXCEPT ![l] = @ + 1]
            /\ UNCHANGED <<queue, published>>

\* A packet newer than all those accepted before enters the queue.
Accept(l) == /\ Len(queue[l]) < Size
             /\ \E p \in 1 .. offered[l] :
                  /\ \A n \in DOMAIN queue[l] : queue[l][n] < p
                  /\ \A n \in DOMAIN published[l] : published[l][n] < p
                  /\ queue' = [queue EXCEPT ![l] = Append(@, p)]
             /\ UNCHANGED <<offered, published>>

Publish(l) == /\ queue[l] # << >>
              /\ published' = [published EXCEPT ![l] = Append(@, Head(queue[l]))]
              /\ queue' = [queue EXCEPT ![l] = Tail(@)]
              /\ UNCHANGED offered

Next == \E l \in Lidars : Offer(l) \/ Accept(l) \/ Publish(l)

Spec == Init /\ [][Next]_vars
=============================================================================
