---------------------------- MODULE FifoDelivery ----------------------------
(***************************************************************************)
(* What the inter-thread queues of YH-176 promise, without threads, locks  *)
(* or an event loop: every producer contributes at most one message, the   *)
(* single reader takes messages in the order in which they were produced,  *)
(* and takes each of them at most once.                                    *)
(***************************************************************************)
EXTENDS Sequences

CONSTANT Producers

VARIABLES idle,      \* producers that have not produced yet
          queue,     \* messages produced and not taken
          delivered  \* messages the reader took, oldest first

fifoVars == <<idle, queue, delivered>>

Init == /\ idle = Producers
        /\ queue = <<>>
        /\ delivered = <<>>

Produce(p) == /\ p \in idle
              /\ idle' = idle \ {p}
              /\ queue' = Append(queue, p)
              /\ UNCHANGED delivered

Take == /\ queue # <<>>
        /\ delivered' = Append(delivered, Head(queue))
        /\ queue' = Tail(queue)
        /\ UNCHANGED idle

Next == Take \/ \E p \in Producers : Produce(p)

Spec == Init /\ [][Next]_fifoVars
=============================================================================
