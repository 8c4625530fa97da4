----------------------------- MODULE EventEcho -----------------------------
(***************************************************************************)
(* YH-139: my_event_server.cpp with one connection, and one of its clients *)
(* my_block_client.cpp ("block"), my_event_client.cpp ("event") or a       *)
(* program that writes and reads whenever it likes ("eager").              *)
(*                                                                         *)
(* The server keeps one buffer and one write_event per connection.  An     *)
(* event_new() for a write_event that is still in the base leaves the old  *)
(* one there with nobody to delete it: a stray.                            *)
(***************************************************************************)
EXTENDS Naturals, Sequences

CONSTANTS
    Clients,   \* which of "block", "event" and "eager" the client may be
    NumLines,  \* messages the client sends at most
    MaxEchoed, \* bound on what the client receives
    SendBuf    \* messages the server's socket takes before its client reads

ASSUME BoundsAssumption ==
       /\ Clients \subseteq {"block", "event", "eager"}
       /\ NumLines \in Nat /\ MaxEchoed \in Nat /\ SendBuf \in Nat \ {0}

VARIABLES
    client,    \* which one it is
    cpc,       \* client: prompt, waiting (recv or dispatch), closed, broken
    readEv,    \* event client's read_event: null, added, freed
    said,      \* messages the client has sent
    coming,    \* of those, what the server has not received
    out,       \* in the server's socket, not read by the client
    echoed,    \* received by the client
    param,     \* the server's ev_ptr: none, live, freed
    buffer,    \* ev_ptr->buffer, buffer_used
    writeEv,   \* ev_ptr->write_event: null, added, deleted
    strays,    \* write events in the base that ev_ptr does not name
    server     \* up, broken (undefined behaviour)

clientVars == <<client, cpc, readEv, said, echoed>>
serverVars == <<param, buffer, writeEv, strays, server>>
echoVars == <<clientVars, coming, out, serverVars>>

EchoInit ==
    /\ client \in Clients
    /\ cpc = "prompt" /\ readEv = "null" /\ said = 0 /\ coming = <<>>
    /\ out = <<>> /\ echoed = <<>>
    /\ param = "none" /\ buffer = <<>> /\ writeEv = "null" /\ strays = 0
    /\ server = "up"

-----------------------------------------------------------------------------
(* The client                                                              *)

FreesFirst ==        \* if (read_event) event_free(read_event)
    client = "event" /\ readEv # "null"

TypesLine ==
    /\ cpc = "prompt" /\ said < NumLines
    /\ ~(FreesFirst /\ readEv = "freed")
    /\ said' = said + 1
    /\ coming' = Append(coming, said')
    /\ cpc' = IF client = "eager" THEN "prompt" ELSE "waiting"
    /\ readEv' = IF client = "event" THEN "added" ELSE readEv
    /\ UNCHANGED <<client, echoed, out, serverVars>>

TypesNothing ==      \* the block client leaves, the event client asks again
    /\ cpc = "prompt"
    /\ ~(FreesFirst /\ readEv = "freed")
    /\ cpc' = IF client = "event" THEN "prompt" ELSE "closed"
    /\ readEv' = IF FreesFirst THEN "freed" ELSE readEv
    /\ UNCHANGED <<client, said, echoed, coming, out, serverVars>>

FreesTwice ==        \* read_event still names the event freed before
    /\ cpc = "prompt" /\ FreesFirst /\ readEv = "freed"
    /\ cpc' = "broken"
    /\ UNCHANGED <<client, readEv, said, echoed, coming, out, serverVars>>

Receives ==          \* recv takes what is there, and the loop is left
    /\ cpc = "waiting" \/ (client = "eager" /\ cpc = "prompt")
    /\ out # <<>> /\ Len(echoed) < MaxEchoed
    /\ echoed' = echoed \o out
    /\ out' = <<>>
    /\ cpc' = "prompt"
    /\ UNCHANGED <<client, readEv, said, coming, serverVars>>

Killed ==
    /\ cpc \notin {"closed", "broken"}
    /\ cpc' = "closed"
    /\ UNCHANGED <<client, readEv, said, echoed, coming, out, serverVars>>

ClientGone == cpc \in {"closed", "broken"}

-----------------------------------------------------------------------------
(* The server's callbacks                                                  *)

Up == server = "up"

DoAccept ==
    /\ Up /\ param = "none"
    /\ param' = "live"
    /\ UNCHANGED <<clientVars, coming, out, buffer, writeEv, strays, server>>

Writable == Len(out) < SendBuf \/ ClientGone

(* Of two ready events on a descriptor libevent runs the later added first: *)
(* the write event, which deletes itself.  A stray stays, and is run in     *)
(* every round of the loop with the read event.                            *)
ReadRuns == Up /\ param = "live" /\ ~(Writable /\ writeEv = "added")

DoReadReuses ==      \* mutant of DoRead: event_new() and event_add() only once
    /\ ReadRuns
    /\ coming # <<>>
    /\ buffer' = coming
    /\ coming' = <<>>
    /\ writeEv' = IF writeEv = "null" THEN "added" ELSE writeEv
    /\ UNCHANGED <<clientVars, out, param, strays, server>>

DoRead ==            \* recv() > 0: a new write_event, whatever the old one is
    /\ ReadRuns
    /\ coming # <<>>
    /\ buffer' = coming
    /\ coming' = <<>>
    /\ strays' = IF writeEv = "added" THEN strays + 1 ELSE strays
    /\ writeEv' = "added"
    /\ UNCHANGED <<clientVars, out, param, server>>

DoReadEnd ==         \* recv() <= 0: the two events and ev_ptr are freed
    /\ ReadRuns
    /\ coming = <<>> /\ ClientGone
    /\ writeEv # "null"
    /\ param' = "freed"
    /\ writeEv' = "deleted"
    /\ UNCHANGED <<clientVars, coming, out, buffer, strays, server>>

DoReadEndNoEvent ==  \* event_free(NULL): nothing was received before
    /\ ReadRuns
    /\ coming = <<>> /\ ClientGone
    /\ writeEv = "null"
    /\ server' = "broken"
    /\ UNCHANGED <<clientVars, coming, out, param, buffer, writeEv, strays>>

(* send() takes what fits; the rest is given up (l.67-73).                 *)
Fits == LET room == SendBuf - Len(out) IN
        IF Len(buffer) <= room THEN buffer ELSE SubSeq(buffer, 1, room)

DoWriteKeepsEvent == \* mutant of DoWrite: no event_del()
    /\ Up /\ param = "live" /\ Writable
    /\ writeEv = "added" \/ strays > 0
    /\ out' = IF ClientGone THEN out ELSE out \o Fits
    /\ UNCHANGED <<clientVars, coming, param, buffer, writeEv, strays, server>>

DoWrite ==           \* run by write_event or a stray; deletes write_event
    /\ Up /\ param = "live" /\ Writable
    /\ writeEv = "added" \/ strays > 0
    /\ out' = IF ClientGone THEN out ELSE out \o Fits
    /\ writeEv' = "deleted"
    /\ UNCHANGED <<clientVars, coming, param, buffer, strays, server>>

StrayWrite ==        \* the buffer of a stray is freed: undefined behaviour
    /\ Up /\ param = "freed" /\ strays > 0
    /\ server' = "broken"
    /\ UNCHANGED <<clientVars, coming, out, param, buffer, writeEv, strays>>

-----------------------------------------------------------------------------
User == TypesLine \/ TypesNothing \/ FreesTwice \/ Killed

Server == DoAccept \/ DoRead \/ DoReadEnd \/ DoReadEndNoEvent \/ DoWrite \/ StrayWrite

EchoOver == ClientGone /\ (param = "freed" \/ ~Up) /\ UNCHANGED echoVars

EchoNext == User \/ Receives \/ Server \/ EchoOver

(* The event loop runs what is ready; the client reads while it waits.     *)
EchoSpec == EchoInit /\ [][EchoNext]_echoVars /\ WF_echoVars(Server) /\ WF_echoVars(Receives)

-----------------------------------------------------------------------------
EchoTypeOK ==
    /\ client \in Clients
    /\ cpc \in {"prompt", "waiting", "closed", "broken"}
    /\ readEv \in {"null", "added", "freed"}
    /\ said \in 0 .. NumLines /\ coming \in Seq(1 .. said)
    /\ out \in Seq(1 .. said) /\ Len(out) <= SendBuf
    /\ echoed \in Seq(1 .. said)
    /\ param \in {"none", "live", "freed"} /\ buffer \in Seq(1 .. said)
    /\ writeEv \in {"null", "added", "deleted"} /\ strays \in Nat
    /\ server \in {"up", "broken"}

Waits == client # "eager"

(* A client that waits for each answer reads its own messages back, in     *)
(* order, none of them twice or left out (l.36-75), though the server has  *)
(* one buffer and one write event for all of them.                         *)
EchoedInOrder == Waits => \A k \in 1 .. Len(echoed) : echoed[k] = k

(* Even a client that does not wait only loses messages (a buffer that is  *)
(* overwritten, a send cut short, l.41 and l.67-73); none comes twice or   *)
(* late, as long as there are no strays.                                   *)
OnlySkips == LET all == echoed \o out IN
    strays = 0 => \A j, k \in 1 .. Len(all) : j < k => all[j] < all[k]

(* Every message typed is answered, unless the client is killed first.     *)
Answered == \A k \in 1 .. NumLines :
    Waits /\ said = k ~>
        (\E i \in 1 .. Len(echoed) : echoed[i] = k) \/ ClientGone
=============================================================================
