------------------------------ MODULE SshChain ------------------------------
(***************************************************************************)
(* One session from end to end: ssh_data_client.cpp (the same program in   *)
(* YH-159, YH-160 and YH-161), the session loop and channel callbacks of   *)
(* the server it talks to, which is YH-161/ssh_proxy_server.cpp or one of  *)
(* the three ssh_echo_server.cpp, and behind the proxy an echo server.     *)
(* Authentication is over; SshSessions has the rest of the servers.        *)
(*                                                                         *)
(* A line of at most BUFFER_SIZE bytes is one message, so the proxy's read *)
(* of at most 1024 bytes takes one reply.                                  *)
(***************************************************************************)
EXTENDS Integers, Sequences

CONSTANTS
    ChainLines,    \* lines the user types before the empty one
    RemoteAnswers  \* the echo server goes on answering until it dies

ASSUME ChainAssumption == ChainLines \in Nat /\ RemoteAnswers \in BOOLEAN

Eof == 0
Closing == -1
Error == -2       \* "ERROR: proxy channel is not Open"
Lines == 1 .. ChainLines

VARIABLES
    cpc,       \* client: loop, waitEof, done, dead
    entered,   \* lines typed so far
    up, down,  \* client to proxy and back
    seen,      \* what the client's loop printed
    spc,       \* proxy: poll, reading (inside the data callback), ended
    chan,      \* proxy_to_channel: new, open, closed
    fwd, back, \* proxy to echo server and back
    remote,    \* echo server behind the proxy: alive, gone
    route      \* the client's server: proxy, or echo (direct)

sessionVars == <<cpc, entered, up, down, seen, spc, chan, fwd, back, remote, route>>

ChainInit ==
    /\ cpc = "loop" /\ entered = 0 /\ seen = <<>>
    /\ up = <<>> /\ down = <<>> /\ fwd = <<>> /\ back = <<>>
    /\ spc = "poll" /\ chan = "new" /\ remote = "alive"
    /\ route \in {"proxy", "echo"}

proxyVars == <<spc, chan, fwd, back, remote, route>>

-----------------------------------------------------------------------------
(* ssh_session_function of the client                                      *)

ClientReads ==        \* ssh_channel_read_nonblocking() > 0, printed
    /\ cpc = "loop"
    /\ down # <<>> /\ Head(down) \notin {Eof, Closing}
    /\ seen' = Append(seen, Head(down))
    /\ down' = Tail(down)
    /\ UNCHANGED <<cpc, entered, up, proxyVars>>

ClientTypes ==        \* only when nothing was there to read
    /\ cpc = "loop" /\ down = <<>>
    /\ entered < ChainLines
    /\ entered' = entered + 1
    /\ up' = Append(up, entered')
    /\ UNCHANGED <<cpc, down, seen, proxyVars>>

ClientLeaves ==       \* an empty line; or the channel is closed or at its end
    /\ cpc = "loop"
    /\ down # <<>> => Head(down) \in {Eof, Closing}
    /\ cpc' = "waitEof"
    /\ up' = Append(up, Eof)
    /\ UNCHANGED <<entered, down, seen, proxyVars>>

ClientWaits ==        \* reads, and drops what it reads, until the other end's EOF
    /\ cpc = "waitEof"
    /\ down # <<>>
    /\ IF Head(down) \in {Eof, Closing}
          THEN cpc' = "done" /\ up' = Append(up, Closing)
          ELSE UNCHANGED <<cpc, up>>
    /\ down' = Tail(down)
    /\ UNCHANGED <<entered, seen, proxyVars>>

-----------------------------------------------------------------------------
(* the server: ssh_event_dopoll runs one callback for each thing received  *)

Polled == spc = "poll" /\ up # <<>> /\ up' = Tail(up)

EchoBack ==           \* the data callback of an echo server
    /\ route = "echo"
    /\ Polled /\ Head(up) \in Lines
    /\ down' = Append(down, Head(up))
    /\ UNCHANGED <<cpc, entered, seen, proxyVars>>

Unopenable == chan = "closed" \/ (chan = "new" /\ remote = "gone")

ForwardFails ==       \* ssh_channel_open_session() fails
    /\ route = "proxy"
    /\ Polled /\ Head(up) \in Lines
    /\ Unopenable
    /\ down' = Append(down, Error)
    /\ UNCHANGED <<cpc, entered, seen, proxyVars>>

Sent == IF remote = "alive" THEN Append(fwd, Head(up)) ELSE fwd

ForwardDoesNotRead == \* mutant of Forward: the reply is left to the next line
    /\ route = "proxy"
    /\ Polled /\ Head(up) \in Lines
    /\ ~Unopenable
    /\ chan' = "open"
    /\ fwd' = Sent
    /\ IF back = <<>> THEN UNCHANGED <<down, back>>
                      ELSE down' = Append(down, Head(back)) /\ back' = Tail(back)
    /\ UNCHANGED <<cpc, entered, seen, spc, remote, route>>

Forward ==            \* opens the channel if it is new, writes, goes on to read
    /\ route = "proxy"
    /\ Polled /\ Head(up) \in Lines
    /\ ~Unopenable
    /\ chan' = "open"
    /\ fwd' = Sent
    /\ spc' = "reading"
    /\ UNCHANGED <<cpc, entered, down, seen, back, remote, route>>

LosesChannel ==       \* the dead echo server's channel is seen to be closed
    /\ chan = "open" /\ remote = "gone" /\ back = <<>>
    /\ chan' = "closed"
    /\ spc' = IF spc = "reading" THEN "poll" ELSE spc  \* ssh_channel_read: <= 0
    /\ UNCHANGED <<cpc, entered, up, down, seen, fwd, back, remote, route>>

ReplyKept ==          \* mutant of Reply: the buffer is not consumed
    /\ spc = "reading"
    /\ back # <<>>
    /\ down' = Append(down, Head(back))
    /\ spc' = "poll"
    /\ UNCHANGED <<cpc, entered, up, seen, chan, fwd, back, remote, route>>

Reply ==              \* ssh_channel_read() > 0
    /\ spc = "reading"
    /\ back # <<>>
    /\ down' = Append(down, Head(back))
    /\ back' = Tail(back)
    /\ spc' = "poll"
    /\ UNCHANGED <<cpc, entered, up, seen, chan, fwd, remote, route>>

EofIgnored ==         \* mutant of EofCb: the callback only prints
    /\ Polled /\ Head(up) = Eof
    /\ UNCHANGED <<cpc, entered, seen, proxyVars, down>>

EofCb ==
    /\ Polled /\ Head(up) = Eof
    /\ down' = Append(down, Eof)
    /\ UNCHANGED <<cpc, entered, seen, proxyVars>>

ClientDies ==
    /\ cpc # "done"
    /\ cpc' = "dead"
    /\ UNCHANGED <<entered, up, down, seen, proxyVars>>

ClientLost ==         \* ssh_channel_is_open() is false: no callback ran
    /\ cpc = "dead" /\ spc = "poll"
    /\ spc' = "ended"
    /\ UNCHANGED <<cpc, entered, up, down, seen, chan, fwd, back, remote, route>>

CloseCb ==            \* closes its side; the loop ends, both channels are freed
    /\ Polled /\ Head(up) = Closing
    /\ down' = Append(down, Closing)
    /\ spc' = "ended"
    /\ UNCHANGED <<cpc, entered, seen, chan, fwd, back, remote, route>>

-----------------------------------------------------------------------------
(* the data callback of the echo server behind the proxy                   *)

Echo ==
    /\ remote = "alive"
    /\ fwd # <<>>
    /\ back' = Append(back, Head(fwd))
    /\ fwd' = Tail(fwd)
    /\ UNCHANGED <<cpc, entered, up, down, seen, spc, chan, remote, route>>

RemoteDies ==
    /\ route = "proxy"
    /\ remote = "alive"
    /\ remote' = "gone"
    /\ fwd' = <<>>
    /\ UNCHANGED <<cpc, entered, up, down, seen, spc, chan, back, route>>

-----------------------------------------------------------------------------
Client == ClientReads \/ ClientTypes \/ ClientLeaves \/ ClientWaits

Server == \/ EchoBack \/ Forward \/ ForwardFails \/ LosesChannel \/ Reply
          \/ EofCb \/ CloseCb \/ ClientLost

Ended == cpc \in {"done", "dead"} /\ spc = "ended" /\ UNCHANGED sessionVars

ChainNext == Client \/ ClientDies \/ Server \/ Echo \/ RemoteDies \/ Ended

ChainSpec == ChainInit /\ [][ChainNext]_sessionVars

(* The user leaves in the end; the processes run.                          *)
Fairness == /\ WF_sessionVars(Client) /\ WF_sessionVars(ClientLeaves) /\ WF_sessionVars(Server)
            /\ RemoteAnswers => WF_sessionVars(Echo)

FairSpec == ChainSpec /\ Fairness

-----------------------------------------------------------------------------
Things == Lines \cup {Eof, Closing, Error}

ChainTypeOK ==
    /\ cpc \in {"loop", "waitEof", "done", "dead"} /\ entered \in 0 .. ChainLines
    /\ up \in Seq(Lines \cup {Eof, Closing}) /\ down \in Seq(Things)
    /\ seen \in Seq(Lines \cup {Error})
    /\ spc \in {"poll", "reading", "ended"}
    /\ chan \in {"new", "open", "closed"} /\ remote \in {"alive", "gone"}
    /\ fwd \in Seq(Lines) /\ Len(fwd) <= 1
    /\ back \in Seq(Lines) /\ Len(back) <= 1
    /\ route \in {"proxy", "echo"}

(* What the user sees: the lines in the order typed, each its own echo,    *)
(* until the echo server dies, and from then on only errors.               *)
AnswersInOrder ==
    LET answers == seen \o down IN
    cpc = "loop" => \A k \in 1 .. Len(answers) :
        \/ answers[k] = k
        \/ \A j \in k .. Len(answers) : answers[j] = Error

(* The proxy's callback is a call and its answer, so that no reply is left *)
(* to be taken for the answer to a later line (l.133-143 of the proxy):    *)
(* while the echo server lives, when all is quiet the user has every echo. *)
NoLag ==
    (cpc = "loop" /\ up = <<>> /\ down = <<>> /\ spc = "poll" /\ remote = "alive")
    => Len(seen) = entered

(* The EOF and close exchange ends both programs, at whatever moment the   *)
(* user leaves (client l.140-163, proxy l.148-162 and l.369-384).          *)
BothEnd == RemoteAnswers => <>(cpc \in {"done", "dead"} /\ spc = "ended")
=============================================================================
