------------------------------ MODULE BevProxy ------------------------------
(***************************************************************************)
(* YH-146/bev_tcp_proxy_server.cpp: one accepted connection, relayed by    *)
(* two bufferevents that are each other's callback argument.  "in" is the  *)
(* side of the client that connected, "out" the side of the destination.   *)
(* Connections share no state, so one of them shows what each does.        *)
(*                                                                         *)
(* Data are counted, not spelt out: evbuffers are moved as a whole.  Both  *)
(* bufferevents are made with BEV_OPT_DEFER_CALLBACKS: input, output and   *)
(* errors only mark a callback as pending, and the event loop runs it      *)
(* later, when the callbacks and the argument may no longer be those that  *)
(* were set when it was marked.                                            *)
(***************************************************************************)
EXTENDS Naturals

CONSTANT MaxSent  \* how much each peer writes at most

ASSUME MaxSentAssumption == MaxSent \in Nat

Sides == {"in", "out"}
Partner(s) == IF s = "in" THEN "out" ELSE "in"

VARIABLES
    peer,     \* the other end of each socket: absent, open, closed, refusing
              \* (closed, and written to since), gone (reset, unreachable)
    sent,     \* what the peer wrote
    net,      \* of that, what the bufferevent has not read
    input,    \* its input evbuffer
    output,   \* its output evbuffer
    got,      \* what the peer received
    bev,      \* none, up, ending (ending_write_cb, no argument), freed
    readable, \* EV_READ is enabled
    writable, \* EV_WRITE is enabled
    onRead, onWrite, onEvent  \* deferred callbacks that are pending

peerVars == <<peer, sent, net, got>>
bevVars == <<input, output, bev, readable, writable>>
pending == <<onRead, onWrite, onEvent>>
vars == <<peerVars, bevVars, pending>>

Init ==
    /\ peer = [s \in Sides |-> IF s = "in" THEN "open" ELSE "absent"]
    /\ sent = [s \in Sides |-> 0] /\ net = [s \in Sides |-> 0]
    /\ input = [s \in Sides |-> 0] /\ output = [s \in Sides |-> 0]
    /\ got = [s \in Sides |-> 0]
    /\ bev = [s \in Sides |-> "none"]
    /\ readable = [s \in Sides |-> FALSE]
    /\ writable = [s \in Sides |-> FALSE]
    /\ onRead = [s \in Sides |-> FALSE]
    /\ onWrite = [s \in Sides |-> FALSE]
    /\ onEvent = [s \in Sides |-> FALSE]

-----------------------------------------------------------------------------
(* The two peers                                                           *)

Sends(s) ==
    /\ peer[s] = "open" /\ sent[s] < MaxSent
    /\ sent' = [sent EXCEPT ![s] = @ + 1]
    /\ net' = [net EXCEPT ![s] = @ + 1]
    /\ UNCHANGED <<peer, got, bevVars, pending>>

Closes(s) ==
    /\ peer[s] = "open"
    /\ peer' = [peer EXCEPT ![s] = "closed"]
    /\ UNCHANGED <<sent, net, got, bevVars, pending>>

Breaks(s) ==         \* a reset, or a destination that cannot be reached
    /\ peer[s] \in {"absent", "open", "refusing"}
    /\ peer' = [peer EXCEPT ![s] = "gone"]
    /\ net' = [net EXCEPT ![s] = 0]
    /\ UNCHANGED <<sent, got, bevVars, pending>>

Connects ==          \* BEV_EVENT_CONNECTED: event_cb has nothing to do
    /\ bev["out"] # "none" /\ peer["out"] = "absent"
    /\ peer' = [peer EXCEPT !["out"] = "open"]
    /\ UNCHANGED <<sent, net, got, bevVars, pending>>

-----------------------------------------------------------------------------
(* accept_cb                                                               *)

Accept ==
    /\ bev["in"] = "none"
    /\ bev' = [s \in Sides |-> "up"]
    /\ readable' = [s \in Sides |-> TRUE]
    /\ writable' = [s \in Sides |-> TRUE]
    /\ UNCHANGED <<peerVars, input, output, pending>>

AcceptFails ==       \* bufferevent_socket_connect() < 0
    /\ bev["in"] = "none" /\ peer["out"] = "gone"
    /\ bev' = [s \in Sides |-> "freed"]
    /\ UNCHANGED <<peerVars, input, output, readable, writable, pending>>

-----------------------------------------------------------------------------
(* libevent: socket input and output                                       *)

Left == {"closed", "refusing", "gone"}
Connected(s) == peer[s] # "absent"

Reads(s) ==
    /\ bev[s] = "up" /\ readable[s] /\ net[s] > 0
    /\ \E k \in 1 .. net[s] :
         /\ net' = [net EXCEPT ![s] = @ - k]
         /\ input' = [input EXCEPT ![s] = @ + k]
    /\ onRead' = [onRead EXCEPT ![s] = TRUE]
    /\ UNCHANGED <<peer, sent, got, output, bev, readable, writable, onWrite, onEvent>>

SeesEnd(s) ==        \* EOF, error, or the connection could not be made
    /\ bev[s] = "up" /\ readable[s] /\ net[s] = 0 /\ peer[s] \in Left
    /\ readable' = [readable EXCEPT ![s] = FALSE]
    /\ onEvent' = [onEvent EXCEPT ![s] = TRUE]
    /\ UNCHANGED <<peerVars, input, output, bev, writable, onRead, onWrite>>

CanWrite(s) == bev[s] \in {"up", "ending"} /\ writable[s] /\ Connected(s) /\ output[s] > 0

(* The write callback is marked only where one is set.                     *)
Wrote(s, k) ==
    /\ output' = [output EXCEPT ![s] = @ - k]
    /\ onWrite' = [onWrite EXCEPT ![s] = @ \/ (bev[s] = "ending" /\ output[s] = k)]
    /\ UNCHANGED <<sent, net, input, bev, readable, writable, onRead, onEvent>>

Writes(s) ==
    /\ CanWrite(s) /\ peer[s] = "open"
    /\ \E k \in 1 .. output[s] :
         Wrote(s, k) /\ got' = [got EXCEPT ![s] = @ + k]
    /\ UNCHANGED peer

WritesInVain(s) ==   \* the kernel still takes it, the peer does not
    /\ CanWrite(s) /\ peer[s] \in {"closed", "refusing"}
    /\ \E k \in 1 .. output[s] : Wrote(s, k)
    /\ peer' = [peer EXCEPT ![s] = "refusing"]
    /\ UNCHANGED got

WriteFails(s) ==
    /\ CanWrite(s) /\ peer[s] = "gone"
    /\ writable' = [writable EXCEPT ![s] = FALSE]
    /\ onEvent' = [onEvent EXCEPT ![s] = TRUE]
    /\ UNCHANGED <<peerVars, input, output, bev, readable, onRead, onWrite>>

-----------------------------------------------------------------------------
(* The callbacks, in the order in which a deferred run calls them          *)

ReadCb(s) ==         \* evbuffer_add_buffer to the partner's output
    /\ bev[s] = "up" /\ onRead[s]
    /\ output' = [output EXCEPT ![Partner(s)] = @ + input[s]]
    /\ input' = [input EXCEPT ![s] = 0]
    /\ onRead' = [onRead EXCEPT ![s] = FALSE]
    /\ UNCHANGED <<peerVars, bev, readable, writable, onWrite, onEvent>>

EndingWriteCb(s) ==
    /\ bev[s] = "ending" /\ onWrite[s]
    /\ onWrite' = [onWrite EXCEPT ![s] = FALSE]
    /\ bev' = [bev EXCEPT ![s] = IF output[s] = 0 THEN "freed" ELSE @]
    /\ UNCHANGED <<peerVars, input, output, readable, writable, onRead, onEvent>>

EndsAtOnce(s) ==     \* mutant of EventCb: the partner is freed, whatever it holds
    /\ bev[s] = "up" /\ onEvent[s] /\ ~onRead[s]
    /\ bev' = [t \in Sides |-> "freed"]
    /\ onEvent' = [onEvent EXCEPT ![s] = FALSE]
    /\ UNCHANGED <<peerVars, input, output, readable, writable, onRead, onWrite>>

KeepsArgument(s) ==  \* mutant of EventCb: the partner is left as it is
    /\ bev[s] = "up" /\ onEvent[s] /\ ~onRead[s]
    /\ bev' = [bev EXCEPT ![s] = "freed"]
    /\ onEvent' = [onEvent EXCEPT ![s] = FALSE]
    /\ UNCHANGED <<peerVars, input, output, readable, writable, onRead, onWrite>>

EndsAnyway(s) ==     \* mutant of EventCb: waits for a write callback that never comes
    /\ bev[s] = "up" /\ onEvent[s] /\ ~onRead[s]
    /\ output' = [output EXCEPT ![Partner(s)] = @ + input[s]]
    /\ input' = [input EXCEPT ![s] = 0]
    /\ bev' = [bev EXCEPT ![s] = "freed", ![Partner(s)] = "ending"]
    /\ readable' = [readable EXCEPT ![Partner(s)] = FALSE]
    /\ onEvent' = [onEvent EXCEPT ![s] = FALSE]
    /\ onRead' = [onRead EXCEPT ![Partner(s)] = FALSE]
    /\ UNCHANGED <<peerVars, writable, onWrite>>

EventCb(s) ==        \* with a partner: flush, then free or let it drain
    LET t == Partner(s)
        flushed == output[t] + input[s]
    IN
    /\ bev[s] = "up" /\ onEvent[s] /\ ~onRead[s]
    /\ output' = [output EXCEPT ![t] = flushed]
    /\ input' = [input EXCEPT ![s] = 0]
    /\ bev' = [bev EXCEPT ![s] = "freed", ![t] = IF flushed > 0 THEN "ending" ELSE "freed"]
    /\ readable' = [readable EXCEPT ![t] = FALSE]
    /\ onEvent' = [onEvent EXCEPT ![s] = FALSE]
    /\ onRead' = [onRead EXCEPT ![t] = FALSE]  \* its read callback is now NULL
    /\ UNCHANGED <<peerVars, writable, onWrite>>

EndingEventCb(s) ==  \* no partner any more: only frees itself
    /\ bev[s] = "ending" /\ onEvent[s] /\ ~onWrite[s]
    /\ bev' = [bev EXCEPT ![s] = "freed"]
    /\ onEvent' = [onEvent EXCEPT ![s] = FALSE]
    /\ UNCHANGED <<peerVars, input, output, readable, writable, onRead, onWrite>>

-----------------------------------------------------------------------------
Peer(s) == Sends(s) \/ Closes(s) \/ Breaks(s)

Io(s) == Reads(s) \/ SeesEnd(s) \/ Writes(s) \/ WritesInVain(s) \/ WriteFails(s)

Callback(s) == ReadCb(s) \/ EndingWriteCb(s) \/ EventCb(s) \/ EndingEventCb(s)

Over == (\A s \in Sides : bev[s] = "freed") /\ UNCHANGED vars

Next == \/ Connects \/ Accept \/ AcceptFails \/ Over
        \/ \E s \in Sides : Peer(s) \/ Io(s) \/ Callback(s)

Spec == Init /\ [][Next]_vars

(* The event loop serves every ready descriptor and every pending          *)
(* callback, and a connection attempt succeeds or fails.  Peers owe        *)
(* nothing, but what is written to an open peer is taken by it.            *)
Fairness ==
    /\ WF_vars(Accept \/ AcceptFails)
    /\ WF_vars(Connects \/ Breaks("out"))
    /\ \A s \in Sides : WF_vars(Callback(s))
    /\ \A s \in Sides : WF_vars(Reads(s) \/ SeesEnd(s))
    /\ \A s \in Sides : WF_vars(Writes(s) \/ WritesInVain(s) \/ WriteFails(s))

FairSpec == Spec /\ Fairness

-----------------------------------------------------------------------------
Amounts == [Sides -> 0 .. MaxSent]
Flags == [Sides -> BOOLEAN]

TypeOK ==
    /\ peer \in [Sides -> {"absent", "open", "closed", "refusing", "gone"}]
    /\ sent \in Amounts /\ net \in Amounts /\ got \in Amounts
    /\ input \in Amounts /\ output \in Amounts
    /\ bev \in [Sides -> {"none", "up", "ending", "freed"}]
    /\ readable \in Flags /\ writable \in Flags
    /\ onRead \in Flags /\ onWrite \in Flags /\ onEvent \in Flags

(* The argument of a callback is the partner's bufferevent: a bufferevent  *)
(* that still has it never outlives it (event_cb, l.66-78).                *)
ArgumentIsAlive == \A s \in Sides : bev[s] = "up" => bev[Partner(s)] = "up"

(* Nothing is made up or delivered twice, and while the partners are up    *)
(* and the peers well nothing is missing either.                           *)
Accounted ==
    \A s \in Sides : LET t == Partner(s) IN
        /\ net[s] + input[s] + output[t] + got[t] <= sent[s]
        /\ (bev[t] \in {"none", "up"} /\ peer[s] # "gone" /\ peer[t] \notin Left)
           => net[s] + input[s] + output[t] + got[t] = sent[s]

(* A bufferevent left to drain has something to drain, or the callback     *)
(* that frees it is pending: none of them is forgotten (l.51-59, l.70-73). *)
DrainingEnds ==
    \A s \in Sides : bev[s] = "ending" => output[s] > 0 \/ onWrite[s] \/ onEvent[s]

(* Each direction keeps what a relay promises.                             *)
SeenAs(s) == IF peer[s] = "refusing" THEN "gone" ELSE peer[s]

Forth == INSTANCE RelayPipe WITH sent <- sent["in"], got <- got["out"],
             source <- SeenAs("in"), sink <- SeenAs("out"), over <- bev["out"] = "freed"
Back == INSTANCE RelayPipe WITH sent <- sent["out"], got <- got["in"],
             source <- SeenAs("out"), sink <- SeenAs("in"), over <- bev["in"] = "freed"

RelaysForth == Forth!Spec
RelaysBack == Back!Spec
Relays == RelaysForth /\ RelaysBack

(* When one peer has left, both bufferevents are freed in the end.         *)
BothFreed == (\E s \in Sides : peer[s] \in Left)
             ~> (\A s \in Sides : bev[s] = "freed")
=============================================================================
