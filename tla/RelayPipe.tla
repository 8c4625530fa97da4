------------------------------ MODULE RelayPipe ------------------------------
(***************************************************************************)
(* One direction of a relay, as its two ends see it: the source writes,    *)
(* the sink gets what was written, in chunks and as far as the relay       *)
(* carries it.  The relay may give the direction up only when the sink is  *)
(* no longer there, when the source broke off, or when the source has      *)
(* closed and the sink has everything.                                     *)
(***************************************************************************)
EXTENDS Naturals

VARIABLES
    sent,   \* how much the source wrote
    got,    \* how much of it the sink received
    source, \* absent, open, closed (in order) or gone (unreachable, died, or
            \* liable to be reset since something was sent to it after its close)
    sink,
    over    \* the relay will not carry anything more

pipeVars == <<sent, got, source, sink, over>>

Init == sent = 0 /\ got = 0 /\ over = FALSE
        /\ source \in {"absent", "open"} /\ sink \in {"absent", "open"}

Write == /\ source = "open"
         /\ sent' = sent + 1
         /\ UNCHANGED <<got, source, sink, over>>

Carry == /\ ~over /\ sink = "open"
         /\ got' > got /\ got' <= sent
         /\ UNCHANGED <<sent, source, sink, over>>

Becomes(x, y) == \/ x = "absent" /\ y = "open"
                 \/ x = "open" /\ y = "closed"
                 \/ x \in {"absent", "open", "closed"} /\ y = "gone"

SourceMoves == /\ Becomes(source, source')
               /\ UNCHANGED <<sent, got, sink, over>>

SinkMoves == /\ Becomes(sink, sink')
             /\ UNCHANGED <<sent, got, source, over>>

MayEnd == \/ sink \in {"closed", "gone"}
          \/ source = "gone"
          \/ source = "closed" /\ got = sent

GiveUp == /\ ~over /\ MayEnd
          /\ over' = TRUE
          /\ UNCHANGED <<sent, got, source, sink>>

Next == Write \/ Carry \/ SourceMoves \/ SinkMoves \/ GiveUp

Spec == Init /\ [][Next]_pipeVars
=============================================================================
