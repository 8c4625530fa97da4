-------------------------- MODULE LibeventProofs --------------------------
(***************************************************************************)
(* Proofs about the two systems on libevent: BevProxy, for every amount    *)
(* the peers may write, and EventEcho, for any number of messages, any     *)
(* size of the socket's buffer and every client.                           *)
(***************************************************************************)
EXTENDS BevProxy, EventEcho, SequenceTheorems, TLAPS

-----------------------------------------------------------------------------
(* The proxy                                                               *)

Typed ==
    /\ peer \in [Sides -> {"absent", "open", "closed", "refusing", "gone"}]
    /\ sent \in [Sides -> 0 .. MaxSent]
    /\ net \in [Sides -> Nat] /\ got \in [Sides -> Nat]
    /\ input \in [Sides -> Nat] /\ output \in [Sides -> Nat]
    /\ bev \in [Sides -> {"none", "up", "ending", "freed"}]
    /\ readable \in Flags /\ writable \in Flags
    /\ onRead \in Flags /\ onWrite \in Flags /\ onEvent \in Flags

(* Both bufferevents are made by the same call of accept_cb.               *)
MadeTogether == bev["in"] = "none" <=> bev["out"] = "none"

(* An error or EOF is only reported of a peer that has left; if it closed  *)
(* in order, everything it wrote had been read before.                     *)
EventsAreTrue ==
    \A s \in Sides : onEvent[s] => \/ peer[s] \in {"refusing", "gone"}
                                   \/ peer[s] = "closed" /\ net[s] = 0

(* What is left to drain is all that its peer still lacks.                 *)
DrainsTheRest ==
    \A s \in Sides : LET t == Partner(s) IN
        bev[t] = "ending" => \/ peer[t] \in Left
                             \/ peer[s] \in {"refusing", "gone"}
                             \/ peer[s] = "closed" /\ output[t] + got[t] = sent[s]

IInv == /\ Typed /\ MadeTogether /\ ArgumentIsAlive /\ Accounted
             /\ DrainingEnds /\ EventsAreTrue /\ DrainsTheRest

-----------------------------------------------------------------------------
LEMMA Two ==
    ASSUME NEW s \in Sides
    PROVE  /\ Partner(s) \in Sides /\ Partner(s) # s /\ Partner(Partner(s)) = s
           /\ \A u \in Sides : u = s \/ u = Partner(s)
BY DEF Sides, Partner

LEMMA Updated ==
    ASSUME NEW s \in Sides, NEW S, NEW f \in [Sides -> S], NEW x
    PROVE  /\ [f EXCEPT ![s] = x][s] = x
           /\ [f EXCEPT ![s] = x][Partner(s)] = f[Partner(s)]
BY Two

LEMMA Starts == Init => IInv
BY MaxSentAssumption DEF Init, IInv, Typed, MadeTogether, ArgumentIsAlive, Accounted,
   DrainingEnds, EventsAreTrue, DrainsTheRest, Sides, Partner, Flags, Left

LEMMA StepTyped ==
    ASSUME IInv, Next PROVE Typed'
<1> USE MaxSentAssumption DEF IInv, Typed, Flags
<1>1. CASE Connects BY <1>1 DEF Connects, Sides, bevVars, pending
<1>2. CASE Accept BY <1>2 DEF Accept, Sides, peerVars, pending
<1>3. CASE AcceptFails BY <1>3 DEF AcceptFails, Sides, peerVars, pending
<1>4. CASE Over BY <1>4 DEF Over, vars, peerVars, bevVars, pending
<1>5. ASSUME NEW s \in Sides, Peer(s) PROVE Typed'
  BY <1>5 DEF Peer, Sends, Closes, Breaks, bevVars, pending
<1>6. ASSUME NEW s \in Sides, Io(s) PROVE Typed'
  <2>1. CASE Reads(s) BY <2>1 DEF Reads
  <2>2. CASE SeesEnd(s) BY <2>2 DEF SeesEnd, peerVars
  <2>3. CASE Writes(s) BY <2>3 DEF Writes, Wrote
  <2>4. CASE WritesInVain(s) BY <2>4 DEF WritesInVain, Wrote
  <2>5. CASE WriteFails(s) BY <2>5 DEF WriteFails, peerVars
  <2> QED BY <1>6, <2>1, <2>2, <2>3, <2>4, <2>5 DEF Io
<1>7. ASSUME NEW s \in Sides, Callback(s) PROVE Typed'
  <2>1. CASE ReadCb(s) BY <2>1, Two DEF ReadCb, peerVars
  <2>2. CASE EndingWriteCb(s) BY <2>2 DEF EndingWriteCb, peerVars
  <2>3. CASE EventCb(s) BY <2>3, Two DEF EventCb, peerVars
  <2>4. CASE EndingEventCb(s) BY <2>4 DEF EndingEventCb, peerVars
  <2> QED BY <1>7, <2>1, <2>2, <2>3, <2>4 DEF Callback
<1> QED BY <1>1, <1>2, <1>3, <1>4, <1>5, <1>6, <1>7 DEF Next

(* The rest of the invariant, one operation at a time: s is the side it    *)
(* works on and t the other one.                                           *)
Others == /\ MadeTogether /\ ArgumentIsAlive /\ Accounted /\ DrainingEnds
          /\ EventsAreTrue /\ DrainsTheRest

LEMMA StepOthers ==
    ASSUME IInv, Next, Typed' PROVE Others'
<1> USE MaxSentAssumption, Two DEF IInv, Typed, Flags, Left
<1> DEFINE Goal == Others'
<1> USE DEF Others, MadeTogether, ArgumentIsAlive, Accounted, DrainingEnds, EventsAreTrue,
            DrainsTheRest
<1>1. CASE Connects BY <1>1 DEF Connects, Sides, Partner, bevVars, pending
<1>2. CASE Accept BY <1>2 DEF Accept, Sides, Partner, peerVars, pending
<1>3. CASE AcceptFails BY <1>3 DEF AcceptFails, Sides, Partner, peerVars, pending
<1>4. CASE Over BY <1>4 DEF Over, vars, peerVars, bevVars, pending
<1>5. ASSUME NEW s \in Sides, Peer(s) PROVE Others'
  <2>1. CASE Sends(s) BY <2>1 DEF Sends, bevVars, pending
  <2>2. CASE Closes(s) BY <2>2 DEF Closes, bevVars, pending
  <2>3. CASE Breaks(s) BY <2>3 DEF Breaks, bevVars, pending
  <2> QED BY <1>5, <2>1, <2>2, <2>3 DEF Peer
<1>6. ASSUME NEW s \in Sides, Io(s) PROVE Others'
  <2>1. CASE Reads(s) BY <2>1 DEF Reads
  <2>2. CASE SeesEnd(s) BY <2>2 DEF SeesEnd, peerVars
  <2>3. CASE Writes(s)
    <3> DEFINE t == Partner(s)
    <3>1. PICK k \in 1 .. output[s] : Wrote(s, k) /\ got' = [got EXCEPT ![s] = @ + k]
      BY <2>3 DEF Writes
    <3>2. /\ output'[s] = output[s] - k /\ got'[s] = got[s] + k
          /\ output'[t] = output[t] /\ got'[t] = got[t]
          /\ output'[s] + got'[s] = output[s] + got[s]
      BY <3>1 DEF Wrote
    <3>3. /\ UNCHANGED <<peer, sent, net, input, bev, readable, writable, onRead, onEvent>>
          /\ bev[s] \in {"up", "ending"} /\ output[s] > 0
      BY <3>1, <2>3 DEF Wrote, Writes, CanWrite
    <3>4. /\ onWrite'[t] = onWrite[t]
          /\ onWrite'[s] = (onWrite[s] \/ (bev[s] = "ending" /\ output[s] = k))
      BY <3>1 DEF Wrote
    <3>5. MadeTogether' /\ ArgumentIsAlive' /\ EventsAreTrue' BY <3>3
    <3>6. Accounted' BY <3>2, <3>3
    <3>7. DrainingEnds'
      <4>1. bev[t] = "ending" => output'[t] > 0 \/ onWrite'[t] \/ onEvent'[t]
        BY <3>2, <3>3, <3>4
      <4>2. output[s] \in Nat /\ k \in 1 .. output[s] BY <3>1
      <4>3. output'[s] = output[s] - k BY <3>2
      <4>4. output[s] = k \/ output'[s] > 0
        <5> HIDE DEF IInv, Typed, Others
        <5> QED BY <4>2, <4>3, SMT
      <4>5. bev[s] = "ending" => output'[s] > 0 \/ onWrite'[s]
        BY <4>4, <3>4
      <4> QED BY <4>1, <4>5, <3>3
    <3>8. DrainsTheRest' BY <3>2, <3>3
    <3> QED BY <3>5, <3>6, <3>7, <3>8
  <2>4. CASE WritesInVain(s) BY <2>4 DEF WritesInVain, Wrote, CanWrite
  <2>5. CASE WriteFails(s) BY <2>5 DEF WriteFails, peerVars, CanWrite
  <2> QED BY <1>6, <2>1, <2>2, <2>3, <2>4, <2>5 DEF Io
<1>7. ASSUME NEW s \in Sides, Callback(s) PROVE Others'
  <2>1. CASE ReadCb(s) BY <2>1 DEF ReadCb, peerVars
  <2>2. CASE EndingWriteCb(s) BY <2>2 DEF EndingWriteCb, peerVars
  <2>3. CASE EventCb(s)
    <3> DEFINE t == Partner(s)
               flushed == output[t] + input[s]
    <3>1. /\ bev[s] = "up" /\ bev[t] = "up" /\ onEvent[s]
          /\ UNCHANGED <<peer, sent, net, got, writable, onWrite>>
      BY <2>3 DEF EventCb, peerVars
    <3>2. /\ output'[t] = flushed /\ output'[s] = output[s]
          /\ input'[s] = 0 /\ input'[t] = input[t]
      BY <2>3 DEF EventCb
    <3>3. onEvent'[t] = onEvent[t] /\ onEvent'[s] = FALSE
      <4>1. onEvent' = [onEvent EXCEPT ![s] = FALSE] BY <2>3 DEF EventCb
      <4>2. onEvent \in [Sides -> BOOLEAN] OBVIOUS
      <4> HIDE DEF IInv, Typed
      <4> QED BY <4>1, <4>2, Updated
    <3>4. bev'[s] = "freed" /\ bev'[t] = IF flushed > 0 THEN "ending" ELSE "freed"
      BY <2>3 DEF EventCb
    <3>5. MadeTogether' BY <3>1, <3>4 DEF Sides
    <3>6. ArgumentIsAlive' BY <3>4
    <3>7. EventsAreTrue' BY <3>1, <3>3
    <3>8. Accounted' BY <3>1, <3>2, <3>4
    <3>9. DrainingEnds'
      <4>1. bev'[s] # "ending" /\ (bev'[t] = "ending" => output'[t] > 0) BY <3>2, <3>4
      <4> QED BY <4>1
    <3>10. DrainsTheRest' BY <3>1, <3>2, <3>4
    <3> QED BY <3>5, <3>6, <3>7, <3>8, <3>9, <3>10
  <2>4. CASE EndingEventCb(s) BY <2>4 DEF EndingEventCb, peerVars
  <2> QED BY <1>7, <2>1, <2>2, <2>3, <2>4 DEF Callback
<1> QED BY <1>1, <1>2, <1>3, <1>4, <1>5, <1>6, <1>7 DEF Next

LEMMA Step == IInv /\ [Next]_vars => IInv'
<1>1. ASSUME IInv, Next PROVE IInv'
  BY <1>1, StepTyped, StepOthers DEF IInv, Others
<1>2. ASSUME IInv, UNCHANGED vars PROVE IInv'
  <2> USE DEF vars, peerVars, bevVars, pending
  <2>1. Typed' /\ MadeTogether' /\ ArgumentIsAlive'
    BY <1>2 DEF IInv, Typed, MadeTogether, ArgumentIsAlive
  <2>2. Accounted' /\ DrainingEnds' /\ EventsAreTrue' /\ DrainsTheRest'
    BY <1>2 DEF IInv, Accounted, DrainingEnds, EventsAreTrue, DrainsTheRest
  <2> QED BY <2>1, <2>2 DEF IInv
<1> QED BY <1>1, <1>2

LEMMA Inductive == Spec => []IInv
BY Starts, Step, PTL DEF Spec

(* Every amount is bounded by what was sent: MaxSent bounds the model.     *)
THEOREM TypeCorrect == Spec => []TypeOK
<1>1. IInv => TypeOK
  <2> SUFFICES ASSUME IInv PROVE TypeOK OBVIOUS
  <2>1. \A s \in Sides : LET t == Partner(s) IN
          net[s] + input[s] + output[t] + got[t] <= MaxSent
    BY MaxSentAssumption, Two DEF IInv, Typed, Accounted
  <2>2. \A s \in Sides : /\ net[s] \in 0 .. MaxSent /\ input[s] \in 0 .. MaxSent
                         /\ output[s] \in 0 .. MaxSent /\ got[s] \in 0 .. MaxSent
    BY <2>1, MaxSentAssumption, Two DEF IInv, Typed
  <2> QED BY <2>2 DEF IInv, Typed, TypeOK, Amounts
<1> QED BY <1>1, Inductive, PTL

(* The partner a callback is given is never freed before it (l.66-78).     *)
THEOREM PartnerLives == Spec => []ArgumentIsAlive
<1>1. IInv => ArgumentIsAlive BY DEF IInv
<1> QED BY <1>1, Inductive, PTL

(* Between peers that have not left, nothing is lost or made up.           *)
THEOREM AllAccounted == Spec => []Accounted
<1>1. IInv => Accounted BY DEF IInv
<1> QED BY <1>1, Inductive, PTL

(* A bufferevent left to drain can always still be freed.                  *)
THEOREM DrainIsLive == Spec => []DrainingEnds
<1>1. IInv => DrainingEnds BY DEF IInv
<1> QED BY <1>1, Inductive, PTL

-----------------------------------------------------------------------------
LEMMA ForthStarts == Init => Forth!Init
BY DEF Init, Forth!Init, Sides, SeenAs

LEMMA ForthStep ==
    ASSUME IInv, Typed', Accounted', Next
    PROVE  Forth!Next \/ UNCHANGED Forth!pipeVars
<1> USE MaxSentAssumption DEF IInv, Typed, SeenAs, Sides, Forth!pipeVars, Forth!Next,
                              Partner, Left
<1>1. CASE Connects
  BY <1>1 DEF Connects, bevVars, pending, Forth!SinkMoves, Forth!Becomes
<1>2. CASE Accept BY <1>2 DEF Accept, peerVars, pending, MadeTogether
<1>3. CASE AcceptFails
  BY <1>3 DEF AcceptFails, peerVars, pending, Forth!GiveUp, Forth!MayEnd, MadeTogether
<1>4. CASE Over BY <1>4 DEF Over, vars, peerVars, bevVars, pending
<1>5. ASSUME NEW s \in Sides, Peer(s) PROVE Forth!Next \/ UNCHANGED Forth!pipeVars
  <2>1. CASE Sends(s) BY <2>1 DEF Sends, bevVars, pending, Forth!Write
  <2>2. CASE Closes(s)
    BY <2>2 DEF Closes, bevVars, pending, Forth!SourceMoves, Forth!SinkMoves, Forth!Becomes
  <2>3. CASE Breaks(s)
    BY <2>3 DEF Breaks, bevVars, pending, Forth!SourceMoves, Forth!SinkMoves, Forth!Becomes
  <2> QED BY <1>5, <2>1, <2>2, <2>3 DEF Peer
<1>6. ASSUME NEW s \in Sides, Io(s) PROVE Forth!Next \/ UNCHANGED Forth!pipeVars
  <2>1. CASE Reads(s) BY <2>1 DEF Reads
  <2>2. CASE SeesEnd(s) BY <2>2 DEF SeesEnd, peerVars
  <2>3. CASE Writes(s)
    BY <2>3 DEF Writes, Wrote, CanWrite, Forth!Carry, Accounted
  <2>4. CASE WritesInVain(s)
    BY <2>4 DEF WritesInVain, Wrote, CanWrite, Forth!SourceMoves, Forth!SinkMoves, Forth!Becomes
  <2>5. CASE WriteFails(s) BY <2>5 DEF WriteFails, peerVars
  <2> QED BY <1>6, <2>1, <2>2, <2>3, <2>4, <2>5 DEF Io
<1>7. ASSUME NEW s \in Sides, Callback(s) PROVE Forth!Next \/ UNCHANGED Forth!pipeVars
  <2> USE DEF Forth!GiveUp, Forth!MayEnd
  <2>1. CASE ReadCb(s) BY <2>1 DEF ReadCb, peerVars
  <2>2. CASE EndingWriteCb(s)
    BY <2>2 DEF EndingWriteCb, peerVars, DrainsTheRest
  <2>3. CASE EventCb(s)
    BY <2>3 DEF EventCb, peerVars, EventsAreTrue, Accounted, ArgumentIsAlive
  <2>4. CASE EndingEventCb(s)
    BY <2>4 DEF EndingEventCb, peerVars, EventsAreTrue
  <2> QED BY <1>7, <2>1, <2>2, <2>3, <2>4 DEF Callback
<1> QED BY <1>1, <1>2, <1>3, <1>4, <1>5, <1>6, <1>7 DEF Next

LEMMA BackStarts == Init => Back!Init
BY DEF Init, Back!Init, Sides, SeenAs

LEMMA BackStep ==
    ASSUME IInv, Typed', Accounted', Next
    PROVE  Back!Next \/ UNCHANGED Back!pipeVars
<1> USE MaxSentAssumption DEF IInv, Typed, SeenAs, Sides, Back!pipeVars, Back!Next, Partner, Left
<1>1. CASE Connects
  BY <1>1 DEF Connects, bevVars, pending, Back!SourceMoves, Back!Becomes
<1>2. CASE Accept BY <1>2 DEF Accept, peerVars, pending, MadeTogether
<1>3. CASE AcceptFails
  BY <1>3 DEF AcceptFails, peerVars, pending, Back!GiveUp, Back!MayEnd, MadeTogether
<1>4. CASE Over BY <1>4 DEF Over, vars, peerVars, bevVars, pending
<1>5. ASSUME NEW s \in Sides, Peer(s) PROVE Back!Next \/ UNCHANGED Back!pipeVars
  <2>1. CASE Sends(s) BY <2>1 DEF Sends, bevVars, pending, Back!Write
  <2>2. CASE Closes(s)
    BY <2>2 DEF Closes, bevVars, pending, Back!SourceMoves, Back!SinkMoves, Back!Becomes
  <2>3. CASE Breaks(s)
    BY <2>3 DEF Breaks, bevVars, pending, Back!SourceMoves, Back!SinkMoves, Back!Becomes
  <2> QED BY <1>5, <2>1, <2>2, <2>3 DEF Peer
<1>6. ASSUME NEW s \in Sides, Io(s) PROVE Back!Next \/ UNCHANGED Back!pipeVars
  <2>1. CASE Reads(s) BY <2>1 DEF Reads
  <2>2. CASE SeesEnd(s) BY <2>2 DEF SeesEnd, peerVars
  <2>3. CASE Writes(s)
    BY <2>3 DEF Writes, Wrote, CanWrite, Back!Carry, Accounted
  <2>4. CASE WritesInVain(s)
    BY <2>4 DEF WritesInVain, Wrote, CanWrite, Back!SourceMoves, Back!SinkMoves, Back!Becomes
  <2>5. CASE WriteFails(s) BY <2>5 DEF WriteFails, peerVars
  <2> QED BY <1>6, <2>1, <2>2, <2>3, <2>4, <2>5 DEF Io
<1>7. ASSUME NEW s \in Sides, Callback(s) PROVE Back!Next \/ UNCHANGED Back!pipeVars
  <2> USE DEF Back!GiveUp, Back!MayEnd
  <2>1. CASE ReadCb(s) BY <2>1 DEF ReadCb, peerVars
  <2>2. CASE EndingWriteCb(s)
    BY <2>2 DEF EndingWriteCb, peerVars, DrainsTheRest
  <2>3. CASE EventCb(s)
    BY <2>3 DEF EventCb, peerVars, EventsAreTrue, Accounted, ArgumentIsAlive
  <2>4. CASE EndingEventCb(s)
    BY <2>4 DEF EndingEventCb, peerVars, EventsAreTrue
  <2> QED BY <1>7, <2>1, <2>2, <2>3, <2>4 DEF Callback
<1> QED BY <1>1, <1>2, <1>3, <1>4, <1>5, <1>6, <1>7 DEF Next

LEMMA Pipes == /\ IInv /\ IInv' /\ [Next]_vars => [Forth!Next]_Forth!pipeVars
               /\ IInv /\ IInv' /\ [Next]_vars => [Back!Next]_Back!pipeVars
<1>1. CASE UNCHANGED vars
  BY <1>1 DEF vars, peerVars, bevVars, Forth!pipeVars, Back!pipeVars, SeenAs
<1>2. CASE Next
  BY <1>2, ForthStep, BackStep DEF IInv
<1> QED BY <1>1, <1>2

(* Each direction implements RelayPipe: data are given up only with a sink *)
(* that left, or a source that broke off; a source that closed in order    *)
(* has all it wrote delivered (event_cb and ending_write_cb, l.51-81).     *)
THEOREM ImplementsForth == Spec => RelaysForth
<1>1. Init => Forth!Init BY ForthStarts
<1> QED BY <1>1, Pipes, Inductive, PTL DEF Spec, RelaysForth, Forth!Spec

THEOREM ImplementsBack == Spec => RelaysBack
<1>1. Init => Back!Init BY BackStarts
<1> QED BY <1>1, Pipes, Inductive, PTL DEF Spec, RelaysBack, Back!Spec

(* Both at once: the proxy is two relay pipes over one pair of bufferevents. *)
THEOREM ImplementsRelays == Spec => Relays
BY ImplementsForth, ImplementsBack DEF Relays

-----------------------------------------------------------------------------
(* The echo server: a client that waits has at most one message under way, *)
(* which is in one place: received from, in the server's buffer with the   *)
(* write event in the base, or in the socket.  Of a client that does not,  *)
(* the messages in these places and those received are in ascending order, *)
(* as long as no write event has been left in the base.                    *)

Ascends(s) == \A j, k \in 1 .. Len(s) : j < k => s[j] < s[k]

Below(s, t) == \A j \in 1 .. Len(s), k \in 1 .. Len(t) : s[j] < t[k]

InOrder ==
    /\ Ascends(echoed) /\ Ascends(out) /\ Ascends(coming)
    /\ Below(echoed, out) /\ Below(echoed, coming) /\ Below(out, coming)

(* What the write event is going to send comes in between.                 *)
BufferInOrder == writeEv = "added" =>
    Ascends(buffer) /\ Below(echoed, buffer) /\ Below(out, buffer) /\ Below(buffer, coming)

Ordered == strays = 0 => InOrder /\ BufferInOrder

OneUnderWay ==
    \/ coming = <<said>> /\ out = <<>> /\ writeEv # "added"
    \/ coming = <<>> /\ out = <<>> /\ writeEv = "added" /\ buffer = <<said>>
    \/ coming = <<>> /\ out = <<said>> /\ writeEv # "added"

TakesTurns == Waits =>
    /\ strays = 0
    /\ \A k \in 1 .. Len(echoed) : echoed[k] = k
    /\ cpc = "prompt" => Len(echoed) = said /\ coming = <<>> /\ out = <<>> /\ writeEv # "added"
    /\ cpc = "waiting" => said > 0 /\ Len(echoed) = said - 1 /\ OneUnderWay
    /\ ClientGone => coming = <<>> \/ writeEv # "added"

-----------------------------------------------------------------------------
(* send() takes the first messages of the buffer, no more than fit.        *)
LEMMA FitsPrefix ==
    ASSUME EchoTypeOK
    PROVE  /\ Fits \in Seq(1 .. said) /\ Len(Fits) <= Len(buffer)
           /\ Len(out) + Len(Fits) <= SendBuf
           /\ \A k \in 1 .. Len(Fits) : Fits[k] = buffer[k]
           /\ Len(buffer) <= SendBuf - Len(out) => Fits = buffer
<1> USE BoundsAssumption DEF EchoTypeOK
<1> DEFINE room == SendBuf - Len(out)
<1>1. CASE Len(buffer) <= room BY <1>1 DEF Fits
<1>2. CASE ~(Len(buffer) <= room)
  <2>1. Fits = SubSeq(buffer, 1, room) BY <1>2 DEF Fits
  <2>2. room \in 0 .. Len(buffer) BY <1>2
  <2> QED BY <1>2, <2>1, <2>2
<1> QED BY <1>1, <1>2

LEMMA StepType == ASSUME EchoTypeOK, [EchoNext]_echoVars PROVE EchoTypeOK'
<1> USE BoundsAssumption DEF EchoTypeOK, clientVars, serverVars
<1>1. CASE TypesLine BY <1>1 DEF TypesLine, FreesFirst
<1>2. CASE TypesNothing BY <1>2 DEF TypesNothing, FreesFirst
<1>3. CASE FreesTwice \/ Killed BY <1>3 DEF FreesTwice, Killed
<1>4. CASE Receives BY <1>4 DEF Receives
<1>5. CASE DoAccept BY <1>5 DEF DoAccept
<1>6. CASE DoRead BY <1>6 DEF DoRead
<1>7. CASE DoReadEnd \/ DoReadEndNoEvent \/ StrayWrite
  BY <1>7 DEF DoReadEnd, DoReadEndNoEvent, StrayWrite
<1>8. CASE DoWrite
  <2>1. out' = out \/ out' = out \o Fits BY <1>8 DEF DoWrite
  <2>2. out \o Fits \in Seq(1 .. said) /\ Len(out \o Fits) <= SendBuf
    BY FitsPrefix
  <2>3. out' \in Seq(1 .. said) /\ Len(out') <= SendBuf BY <2>1, <2>2
  <2> QED BY <1>8, <2>3 DEF DoWrite
<1>9. CASE UNCHANGED echoVars BY <1>9 DEF echoVars
<1> QED BY <1>1, <1>2, <1>3, <1>4, <1>5, <1>6, <1>7, <1>8, <1>9
        DEF EchoNext, User, Server, EchoOver

-----------------------------------------------------------------------------
LEMMA StepTurns ==
    ASSUME EchoTypeOK, TakesTurns, [EchoNext]_echoVars PROVE TakesTurns'
<1> SUFFICES ASSUME Waits, client' = client PROVE TakesTurns'
  BY DEF TakesTurns, Waits, EchoNext, User, Server, EchoOver, echoVars,
         clientVars, TypesLine, TypesNothing, FreesTwice, Killed,
         Receives, DoAccept, DoRead, DoReadEnd, DoReadEndNoEvent,
         DoWrite, StrayWrite
<1> USE BoundsAssumption DEF EchoTypeOK, TakesTurns, Waits, OneUnderWay, ClientGone, clientVars,
        serverVars
<1>1. CASE TypesLine
  <2>1. /\ cpc = "prompt" /\ cpc' = "waiting" /\ said' = said + 1
        /\ coming' = Append(coming, said + 1)
        /\ UNCHANGED <<echoed, out, writeEv, strays>>
    BY <1>1 DEF TypesLine
  <2>2. coming' = <<said'>> BY <2>1
  <2> QED BY <2>1, <2>2
<1>2. CASE TypesNothing BY <1>2 DEF TypesNothing, FreesFirst
<1>3. CASE FreesTwice \/ Killed BY <1>3 DEF FreesTwice, Killed
<1>4. CASE Receives
  <2>1. /\ cpc = "waiting" /\ out # <<>> /\ echoed' = echoed \o out /\ out' = <<>>
        /\ cpc' = "prompt" /\ UNCHANGED <<said, coming, writeEv, strays>>
    BY <1>4 DEF Receives
  <2>2. out = <<said>> /\ coming = <<>> /\ writeEv # "added" BY <2>1
  <2>3. /\ Len(echoed') = said /\ echoed'[said] = said
        /\ \A k \in 1 .. Len(echoed) : echoed'[k] = echoed[k]
    BY <2>1, <2>2
  <2>4. ASSUME NEW k \in 1 .. said PROVE echoed'[k] = k
    <3>1. Len(echoed) = said - 1 /\ \A j \in 1 .. Len(echoed) : echoed[j] = j BY <2>1
    <3>2. CASE k = said BY <2>3, <3>2
    <3>3. CASE k # said
      <4>1. k \in 1 .. Len(echoed) BY <3>1, <3>3
      <4> QED BY <2>3, <3>1, <4>1
    <3> QED BY <3>2, <3>3
  <2> QED BY <2>1, <2>2, <2>3, <2>4
<1>5. CASE DoAccept BY <1>5 DEF DoAccept
<1>6. CASE DoRead BY <1>6 DEF DoRead
<1>7. CASE DoReadEnd \/ DoReadEndNoEvent \/ StrayWrite
  BY <1>7 DEF DoReadEnd, DoReadEndNoEvent, StrayWrite
<1>8. CASE DoWrite
  <2>1. /\ writeEv = "added" /\ writeEv' = "deleted" /\ cpc' = cpc
        /\ UNCHANGED <<said, coming, echoed, strays>>
    BY <1>8 DEF DoWrite
  <2>2. CASE cpc = "waiting"
    <3>1. out = <<>> /\ buffer = <<said>> /\ coming = <<>> BY <2>1, <2>2
    <3>2. Fits = buffer BY <3>1, FitsPrefix
    <3>3. out' = <<said>> BY <1>8, <2>2, <3>1, <3>2 DEF DoWrite
    <3> QED BY <2>1, <2>2, <3>1, <3>3
  <2>3. CASE cpc # "waiting" BY <2>1, <2>3
  <2> QED BY <2>2, <2>3
<1>9. CASE UNCHANGED echoVars BY <1>9 DEF echoVars
<1> QED BY <1>1, <1>2, <1>3, <1>4, <1>5, <1>6, <1>7, <1>8, <1>9
        DEF EchoNext, User, Server, EchoOver

-----------------------------------------------------------------------------
(* What becomes of the order when two sequences are joined.                *)
LEMMA Joined ==
    ASSUME NEW s \in Seq(Nat), NEW t \in Seq(Nat), Ascends(s), Ascends(t), Below(s, t)
    PROVE  /\ Ascends(s \o t)
           /\ \A u \in Seq(Nat) : Below(s, u) /\ Below(t, u) => Below(s \o t, u)
           /\ \A u \in Seq(Nat) : Below(u, s) /\ Below(u, t) => Below(u, s \o t)
<1> DEFINE st == s \o t
<1>1. /\ Len(st) = Len(s) + Len(t) /\ Len(s) \in Nat /\ Len(t) \in Nat
      /\ \A k \in 1 .. Len(s) : st[k] = s[k]
      /\ \A k \in Len(s) + 1 .. Len(st) : k - Len(s) \in 1 .. Len(t) /\ st[k] = t[k - Len(s)]
  OBVIOUS
<1> HIDE DEF st
<1>2. Ascends(st)
  <2> SUFFICES ASSUME NEW j \in 1 .. Len(st), NEW k \in 1 .. Len(st), j < k
               PROVE  st[j] < st[k]
    BY DEF Ascends
  <2>1. CASE k <= Len(s)
    <3>1. j \in 1 .. Len(s) /\ k \in 1 .. Len(s) BY <1>1, <2>1
    <3> QED BY <1>1, <3>1 DEF Ascends
  <2>2. CASE j > Len(s)
    <3>1. j \in Len(s) + 1 .. Len(st) /\ k \in Len(s) + 1 .. Len(st) BY <1>1, <2>2
    <3>2. j - Len(s) \in 1 .. Len(t) /\ k - Len(s) \in 1 .. Len(t) /\ j - Len(s) < k - Len(s)
      BY <1>1, <3>1
    <3> QED BY <1>1, <3>1, <3>2 DEF Ascends
  <2>3. CASE j <= Len(s) /\ k > Len(s)
    <3>1. j \in 1 .. Len(s) /\ k \in Len(s) + 1 .. Len(st) BY <1>1, <2>3
    <3> QED BY <1>1, <3>1 DEF Below
  <2> QED BY <1>1, <2>1, <2>2, <2>3
<1>3. ASSUME NEW u \in Seq(Nat), Below(s, u), Below(t, u) PROVE Below(st, u)
  <2> SUFFICES ASSUME NEW j \in 1 .. Len(st), NEW k \in 1 .. Len(u) PROVE st[j] < u[k]
    BY DEF Below
  <2>1. CASE j \in 1 .. Len(s) BY <1>1, <1>3, <2>1 DEF Below
  <2>2. CASE j \in Len(s) + 1 .. Len(st) BY <1>1, <1>3, <2>2 DEF Below
  <2> QED BY <1>1, <2>1, <2>2
<1>4. ASSUME NEW u \in Seq(Nat), Below(u, s), Below(u, t) PROVE Below(u, st)
  <2> SUFFICES ASSUME NEW j \in 1 .. Len(u), NEW k \in 1 .. Len(st) PROVE u[j] < st[k]
    BY DEF Below
  <2>1. CASE k \in 1 .. Len(s) BY <1>1, <1>4, <2>1 DEF Below
  <2>2. CASE k \in Len(s) + 1 .. Len(st) BY <1>1, <1>4, <2>2 DEF Below
  <2> QED BY <1>1, <2>1, <2>2
<1> QED BY <1>2, <1>3, <1>4 DEF st

LEMMA SeqsOfNumbers ==
    ASSUME EchoTypeOK
    PROVE  echoed \in Seq(Nat) /\ out \in Seq(Nat) /\ coming \in Seq(Nat) /\ buffer \in Seq(Nat)
BY SeqMonotonic, 1 .. said \subseteq Nat DEF EchoTypeOK

LEMMA StepOrdered ==
    ASSUME EchoTypeOK, Ordered, [EchoNext]_echoVars PROVE Ordered'
<1> SUFFICES ASSUME strays' = 0, strays = 0, InOrder, BufferInOrder
             PROVE  InOrder' /\ BufferInOrder'
  BY DEF Ordered, EchoTypeOK, EchoNext, User, Server, EchoOver, echoVars, clientVars,
         serverVars, TypesLine, TypesNothing, FreesTwice, Killed,
         Receives, DoAccept, DoRead, DoReadEnd, DoReadEndNoEvent,
         DoWrite, StrayWrite
<1> USE DEF clientVars, serverVars
<1>1. CASE TypesLine
  <2>1. coming' = Append(coming, said + 1) /\ UNCHANGED <<echoed, out, buffer, writeEv>>
    BY <1>1 DEF TypesLine, serverVars
  <2>2. said \in Nat /\ coming \in Seq(1 .. said) BY DEF EchoTypeOK
  <2>3. /\ Len(coming') = Len(coming) + 1 /\ Len(coming) \in Nat
        /\ coming'[Len(coming) + 1] = said + 1
        /\ \A k \in 1 .. Len(coming) : coming'[k] = coming[k] /\ coming[k] \in 1 .. said
    BY <2>1, <2>2
  <2>4. \A s \in Seq(1 .. said) : Below(s, coming) => Below(s, coming')
    <3> SUFFICES ASSUME NEW s \in Seq(1 .. said), Below(s, coming), NEW j \in 1 .. Len(s),
                        NEW k \in 1 .. Len(coming')
                 PROVE  s[j] < coming'[k]
      BY DEF Below
    <3>1. s[j] \in 1 .. said BY ElementOfSeq
    <3>2. CASE k = Len(coming) + 1 BY <2>2, <2>3, <3>1, <3>2
    <3>3. CASE k \in 1 .. Len(coming) BY <2>3, <3>3 DEF Below
    <3> QED BY <2>3, <3>2, <3>3
  <2>5. Ascends(coming')
    <3> SUFFICES ASSUME NEW j \in 1 .. Len(coming'), NEW k \in 1 .. Len(coming'), j < k
                 PROVE  coming'[j] < coming'[k]
      BY DEF Ascends
    <3>1. j \in 1 .. Len(coming) BY <2>3
    <3>2. CASE k = Len(coming) + 1 BY <2>2, <2>3, <3>1, <3>2
    <3>3. CASE k \in 1 .. Len(coming) BY <2>3, <3>1, <3>3 DEF InOrder, Ascends
    <3> QED BY <2>3, <3>2, <3>3
  <2>6. echoed \in Seq(1 .. said) /\ out \in Seq(1 .. said) /\ buffer \in Seq(1 .. said)
    BY DEF EchoTypeOK
  <2> QED BY <2>1, <2>4, <2>5, <2>6 DEF InOrder, BufferInOrder
<1>2. CASE Receives
  <2>1. echoed' = echoed \o out /\ out' = <<>> /\ UNCHANGED <<coming, buffer, writeEv>>
    BY <1>2 DEF Receives
  <2>2. /\ Ascends(echoed') /\ Below(echoed', coming)
        /\ writeEv = "added" => Below(echoed', buffer)
    BY <2>1, Joined, SeqsOfNumbers DEF InOrder, BufferInOrder
  <2>3. Ascends(out') /\ \A s : Below(s, out') /\ Below(out', s)
    BY <2>1 DEF Ascends, Below
  <2> QED BY <2>1, <2>2, <2>3 DEF InOrder, BufferInOrder
<1>3. CASE DoRead
  <2>1. writeEv # "added" BY <1>3 DEF DoRead, EchoTypeOK
  <2>2. buffer' = coming /\ coming' = <<>> /\ UNCHANGED <<echoed, out>> BY <1>3 DEF DoRead
  <2>3. Ascends(coming') /\ \A s : Below(s, coming') BY <2>2 DEF Ascends, Below
  <2> QED BY <2>2, <2>3 DEF InOrder, BufferInOrder
<1>4. CASE DoWrite
  <2>1. /\ writeEv = "added" /\ writeEv' = "deleted" /\ UNCHANGED <<echoed, coming>>
        /\ out' = out \/ out' = out \o Fits
    BY <1>4 DEF DoWrite
  <2>2. CASE out' = out BY <2>1, <2>2 DEF InOrder, BufferInOrder
  <2>3. CASE out' = out \o Fits
    <3>1. Fits \in Seq(Nat) BY FitsPrefix, SeqMonotonic, 1 .. said \subseteq Nat DEF EchoTypeOK
    <3>2. /\ Len(Fits) \in Nat /\ Len(buffer) \in Nat /\ Len(Fits) <= Len(buffer)
          /\ \A k \in 1 .. Len(Fits) : k \in 1 .. Len(buffer) /\ Fits[k] = buffer[k]
      BY <3>1, FitsPrefix, SeqsOfNumbers
    <3>3. /\ Ascends(Fits) /\ Below(out, Fits) /\ Below(echoed, Fits)
          /\ Below(Fits, coming)
      BY <2>1, <3>2 DEF BufferInOrder, Ascends, Below
    <3>4. Ascends(out') /\ Below(echoed, out') /\ Below(out', coming)
      BY <2>3, <3>1, <3>3, SeqsOfNumbers, Joined DEF InOrder
    <3> QED BY <2>1, <3>4 DEF InOrder, BufferInOrder
  <2> QED BY <2>1, <2>2, <2>3
<1>5. CASE UNCHANGED <<echoed, out, coming, buffer>> /\ writeEv' \in {writeEv, "deleted"}
  BY <1>5 DEF InOrder, BufferInOrder
<1> QED BY <1>1, <1>2, <1>3, <1>4, <1>5
        DEF EchoNext, User, Server, EchoOver, TypesNothing, FreesTwice,
            Killed, DoAccept, DoReadEnd, DoReadEndNoEvent, StrayWrite,
            echoVars

LEMMA EchoInductive ==
    EchoSpec => [](EchoTypeOK /\ TakesTurns /\ Ordered)
<1>1. EchoInit => EchoTypeOK /\ TakesTurns /\ Ordered
  BY BoundsAssumption DEF EchoInit, EchoTypeOK, TakesTurns, ClientGone, Ordered, InOrder,
         BufferInOrder, Ascends, Below
<1>2. EchoTypeOK /\ TakesTurns /\ Ordered /\ [EchoNext]_echoVars
      => (EchoTypeOK /\ TakesTurns /\ Ordered)'
  BY StepType, StepTurns, StepOrdered
<1> QED BY <1>1, <1>2, PTL DEF EchoSpec

(* Every variable keeps its type; the socket never takes more than it has  *)
(* room for (l.67-73).                                                     *)
THEOREM EchoTypeCorrect == EchoSpec => []EchoTypeOK
<1> QED BY EchoInductive, PTL

(* A client that waits reads its own messages back in order, however many, *)
(* from a server with one buffer for all of them (l.36-75).                *)
THEOREM EchoesAreInOrder == EchoSpec => []EchoedInOrder
<1>1. TakesTurns => EchoedInOrder BY DEF TakesTurns, EchoedInOrder
<1> QED BY <1>1, EchoInductive, PTL

(* What any client receives ascends as long as there is no stray write     *)
(* event: nothing comes twice or late (l.41 and l.67-73).                  *)
THEOREM SkipsOnly == EchoSpec => []OnlySkips
<1>1. EchoTypeOK /\ Ordered => OnlySkips
  <2> SUFFICES ASSUME EchoTypeOK, Ordered, strays = 0 PROVE Ascends(echoed \o out)
    BY DEF OnlySkips, Ascends
  <2> QED BY SeqsOfNumbers, Joined DEF Ordered, InOrder
<1> QED BY <1>1, EchoInductive, PTL
=============================================================================
