------------------------------ MODULE TlsEcho ------------------------------
(***************************************************************************)
(* The TLS echo clients of YH-57, 59, 141, 145, 148, 154 and 155, each     *)
(* against the servers of its directory (YH-57 against YH-59's).           *)
(*                                                                         *)
(* Most clients block.  Two talk TLS over a non-blocking socket            *)
(* (openssl_tls_non_blocking_client.cpp of YH-154, wolfssl_tls_client.cpp  *)
(* of YH-155): after a call that fails they ask the library what the call  *)
(* lacked and wait for it with select().  First main exchanges the user's  *)
(* lines one by one; then two threads share the one SSL object without a   *)
(* lock: one writes NumMsgs messages, the other reads as many.             *)
(*                                                                         *)
(* A record reaches the client in Pieces parts, so the socket can be       *)
(* readable while a read still lacks the rest of a record.                 *)
(* What a failed call lacked is one field of the SSL object (rwstate of    *)
(* OpenSSL, error of wolfSSL; here want): the other thread's calls change  *)
(* it before it is looked at.  That is the data race of the programs; this *)
(* module takes every order of the two threads' calls and looks as a       *)
(* possible outcome.                                                       *)
(* Messages and lines are numbers; 0 stands for a close_notify.            *)
(***************************************************************************)
EXTENDS Integers, Sequences

CONSTANTS NumLines,    \* bound on the lines the user types
          NumMsgs,     \* messages each thread handles (5, l.126 and l.154)
          MaxTries,    \* tries for each of them (5, l.133 and l.157)
          Pieces       \* parts in which a record arrives

ASSUME SizeAssumption == /\ NumLines \in Nat \ {0} /\ NumMsgs \in Nat \ {0}
                         /\ Pieces \in Nat \ {0}

(* The tries of a message cover the parts in which its record arrives.     *)
ASSUME TriesAssumption == MaxTries \in Nat /\ MaxTries > Pieces

-----------------------------------------------------------------------------
(* The programs                                                            *)

(* blocks   the socket blocks                                              *)
(* threads  the two threads follow the lines                               *)
(* lax      a handshake that failed does not end the client                *)
(* stale    after the handshake main never sees why a call failed: it asks *)
(*          about ret, the result of wolfSSL_connect()                     *)
(* tells    sends a close_notify when it leaves                            *)
(* once     has one message, from its command line                         *)
Client(traits) == [t \in {"blocks", "threads", "lax", "stale", "tells", "once"} |-> t \in traits]

Client154 == Client({"blocks", "tells"})
NonBlocking154 == Client({"threads", "tells"})
Client141 == Client({"blocks", "lax"})      \* SSL_connect() < 0, and SSL_set_shutdown()
Client145 == Client({"blocks", "lax"})
Client148 == Client({"blocks", "lax"})
Client155 == Client({"blocks", "lax"})
WolfBlocking155 == Client({"blocks", "tells"})
Wolf155 == Client({"threads", "lax", "stale", "tells"})
Client57 == Client({"blocks", "once"})
Client59 == Client({"blocks", "once"})

(* A server that ends a connection sends a close_notify, or just closes.   *)
Server141 == [notifies |-> TRUE]
Server148 == [notifies |-> TRUE]
Server154 == [notifies |-> TRUE]
Server155 == [notifies |-> TRUE]
WolfServer148 == [notifies |-> TRUE]
WolfServer155 == [notifies |-> TRUE]
BevServer145 == [notifies |-> FALSE]        \* bufferevent_free()
AsioServer59 == [notifies |-> FALSE]        \* delete this

Pairs == {Client154, NonBlocking154} \X {Server154}
         \cup {<<Client141, Server141>>, <<Client145, BevServer145>>}
         \cup {Client148} \X {Server148, WolfServer148}
         \cup {Client155, WolfBlocking155, Wolf155} \X {Server155, WolfServer155}
         \cup {Client57, Client59} \X {AsioServer59}

VARIABLES
    client, server,     \* the two programs of this connection
    ret,        \* what connecting came to: none, ok, failed
    mpc,        \* main of the client
    typed,      \* lines typed
    answers,    \* what main printed for each line, 0: nothing
    conn,       \* none, open, closed by the server, cut when it died
    reset,      \* the client's socket has reported the loss
    toS, toC,   \* records under way to the server, to the client
    arrived,    \* parts of toC that have arrived
    seen,       \* parts of its first record that SSL has taken in
    closed,     \* SSL_RECEIVED_SHUTDOWN
    broken,     \* the SSL object is in its error state
    want,       \* rwstate: what the last call on the SSL object lacked
    spc, si, stry,    \* thread_ssl_send: label, i and j
    rpc, ri, rtry,    \* thread_ssl_read
    err,        \* of each thread: why its own last call failed
    got,        \* messages thread_ssl_read has received
    raced       \* a thread has looked at the result of the other's call

netVars == <<conn, reset, toS, toC, arrived, seen, closed, broken>>
pair == <<client, server>>
mainVars == <<ret, mpc, typed, answers>>
sendVars == <<spc, si, stry>>
readVars == <<rpc, ri, rtry, got>>
vars == <<pair, mainVars, netVars, want, sendVars, readVars, err, raced>>

Ended == {"done", "failed", "killed"}

Init ==
    /\ \E p \in Pairs : client = p[1] /\ server = p[2]
    /\ ret = "none" /\ mpc = "socket" /\ typed = 0 /\ answers = <<>>
    /\ conn = "none" /\ reset = FALSE /\ closed = FALSE /\ broken = FALSE
    /\ toS = <<>> /\ toC = <<>> /\ arrived = 0 /\ seen = 0
    /\ want = "nothing"
    /\ spc = "none" /\ si = 0 /\ stry = 0
    /\ rpc = "none" /\ ri = 0 /\ rtry = 0 /\ got = <<>>
    /\ err = [t \in {"main", "send", "read"} |-> "none"]
    /\ raced = FALSE

-----------------------------------------------------------------------------
(* SSL_read_ex, SSL_write_ex and SSL_get_error as the program uses them    *)

Whole == arrived >= Pieces      \* the first record is there

Eof == conn \in {"closed", "cut"} /\ arrived = Pieces * Len(toC)

ReadSucceeds ==
    /\ Whole /\ ~closed /\ Head(toC) # 0
    /\ want' = "nothing"
    /\ toC' = Tail(toC) /\ arrived' = arrived - Pieces /\ seen' = 0
    /\ UNCHANGED <<conn, reset, toS, closed, broken, err>>

ReadFails(t) ==
    \/ /\ ~Whole /\ ~Eof /\ ~closed     \* EAGAIN, some parts taken in
       /\ seen' = arrived
       /\ want' = "read" /\ err' = [err EXCEPT ![t] = "retry"]
       /\ UNCHANGED <<conn, reset, toS, toC, arrived, closed, broken>>
    \/ /\ closed \/ (Whole /\ Head(toC) = 0)     \* close_notify
       /\ closed' = TRUE
       /\ want' = "nothing" /\ err' = [err EXCEPT ![t] = "zero"]
       /\ UNCHANGED <<conn, reset, toS, toC, arrived, seen, broken>>
    \/ /\ ~Whole /\ Eof /\ ~closed     \* an end that no close_notify announced:
       /\ broken' \in {broken, TRUE}     \* OpenSSL 3 takes no call after it
       /\ want' = "nothing" /\ err' = [err EXCEPT ![t] = "hard"]
       /\ UNCHANGED <<conn, reset, toS, toC, arrived, seen, closed>>

(* A write to a server that has gone is lost, or finds the reset.          *)
WriteSucceeds(m) ==
    /\ ~reset /\ ~broken
    /\ want' = "nothing"
    /\ toS' = IF conn = "open" THEN Append(toS, m) ELSE toS
    /\ UNCHANGED <<conn, reset, toC, arrived, seen, closed, broken, err>>

WriteFails(t) ==
    /\ conn # "open" /\ ~reset /\ ~broken
    /\ reset' = TRUE
    /\ want' = "nothing" /\ err' = [err EXCEPT ![t] = "hard"]
    /\ UNCHANGED <<conn, toS, toC, arrived, seen, closed, broken>>

(* A write without a handshake, or with an object in its error state,      *)
(* fails before it comes to the socket: no SIGPIPE either.                 *)
Refused(t) ==
    /\ ret = "failed" \/ broken
    /\ want' = "nothing" /\ err' = [err EXCEPT ![t] = "hard"]
    /\ UNCHANGED netVars

(* handle_io_failure: 1 retry, 0 end of file, -1 failure.  SSL_get_error   *)
(* goes by the error queue of the calling thread, then by want, then by    *)
(* the close_notify.  A want of "write" is the other thread's write under  *)
(* way: the BIO's flags are then either thread's.                          *)
Fallen(t) == IF closed /\ err[t] # "hard" THEN 0 ELSE -1

Verdicts(t) ==
    (IF want \in {"read", "write"} THEN {1} ELSE {})
    \cup (IF want # "read" \/ err[t] = "hard" THEN {Fallen(t)} ELSE {})

Overtaken(t) == (err[t] = "retry") # (want = "read")

(* wolfSSL_get_error: WANT 1, NONE 2, anything else -1.  Whether a call    *)
(* that succeeds clears the field is the library's affair: both are taken. *)
WolfVerdicts(t) ==
    {IF err[t] = "retry" THEN 1 ELSE -1}
    \cup (IF Overtaken(t) THEN {IF want = "nothing" THEN 2 ELSE 1} ELSE {})

(* select() for reading.                                                   *)
NoWait == TRUE                           \* mutant of Activity: flag swapped
Activity == arrived > seen \/ Eof

-----------------------------------------------------------------------------
(* main of the client                                                      *)

Over == mpc \in Ended

(* Nothing of the process runs on when main has left it, or when SIGPIPE   *)
(* has answered a write to a connection that is gone (asio's ask for none).*)
Ends(how) == mpc' = how

Killed == ret = "ok" /\ ~broken /\ conn # "open" /\ ~client.once /\ Ends("killed")

SocketFails ==       \* no socket, or connect() fails
    /\ mpc = "socket" /\ conn = "none"
    /\ Ends("failed")
    /\ UNCHANGED <<ret, typed, answers, netVars, want, sendVars, readVars, err, raced>>

(* SSL_connect(), or the connection and the handshake of asio.             *)
Connects ==
    /\ mpc = "socket" /\ conn # "none"
    /\ \/ conn = "open" /\ ret' = "ok" /\ mpc' = "input"
       \/ conn # "open" /\ client.lax /\ ret' = "failed" /\ mpc' = "input"
       \/ conn # "open" /\ ~client.stale /\ ret' = "failed" /\ Ends("failed")
    /\ UNCHANGED <<typed, answers, netVars, want, sendVars, readVars, err, raced>>

LinesOf(c) == IF c.once THEN 1 ELSE NumLines

TypesLine ==
    /\ mpc = "input" /\ typed < LinesOf(client)
    /\ typed' = typed + 1
    /\ mpc' = "write"
    /\ UNCHANGED <<ret, answers, netVars, want, sendVars, readVars, err, raced>>

Tells == toS' = IF conn = "open" /\ client.tells THEN Append(toS, 0) ELSE toS

TypesNothing ==      \* an empty line: the two threads are started
    /\ mpc = "input" /\ client.threads
    /\ mpc' = "join"
    /\ spc' = "call" /\ rpc' = "call"
    /\ UNCHANGED <<ret, typed, answers, netVars, want, si, stry, ri, rtry, got, err, raced>>

Leaves ==            \* an empty line ends a client that has no threads
    /\ mpc = "input" /\ ~client.threads /\ ~client.once
    /\ Ends("done") /\ Tells
    /\ UNCHANGED <<ret, typed, answers, conn, reset, toC, arrived, seen, closed, broken, want,
                   sendVars, readVars, err, raced>>

Answered(m) == answers' = Append(answers, m)

NextLine == mpc' = IF client.once THEN "done" ELSE "input"

NoAnswer == Answered(0) /\ NextLine

(* A client that blocks reads whatever the write came to, and the read     *)
(* fails as well; while (!SSL_write_ex()) tries again, whatever            *)
(* handle_io_failure says, and when every try is refused, for ever.        *)
AfterFailedWrite == IF client.blocks THEN NoAnswer ELSE UNCHANGED <<mpc, answers>>

WriteLine ==
    /\ mpc = "write"
    /\ \/ ret = "ok" /\ WriteSucceeds(typed) /\ mpc' = "read" /\ UNCHANGED answers
       \/ ret = "ok" /\ WriteFails("main") /\ AfterFailedWrite
       \/ ret = "failed" /\ Refused("main") /\ NoAnswer
       \/ ret = "ok" /\ Refused("main") /\ AfterFailedWrite
       \/ Killed /\ UNCHANGED <<answers, netVars, want, err>>
    /\ UNCHANGED <<ret, typed, sendVars, readVars, raced>>

ReadReply ==
    /\ mpc = "read"
    /\ \/ ReadSucceeds /\ Answered(Head(toC)) /\ NextLine
       \/ ReadFails("main") /\ ~client.blocks /\ mpc' = "examine" /\ UNCHANGED answers
       \/ ReadFails("main") /\ client.blocks /\ err'["main"] # "retry" /\ NoAnswer
    /\ UNCHANGED <<ret, typed, sendVars, readVars, raced>>

ExamineOnce ==       \* mutant of Examine: a retry ends the loop as well
    /\ mpc = "examine"
    /\ NoAnswer
    /\ UNCHANGED <<ret, typed, netVars, want, sendVars, readVars, err, raced>>

(* wolfSSL_get_error(ssl, ret) is NONE when ret is wolfSSL_connect()'s     *)
(* success: main waits and reads again whatever has happened.              *)
Examine ==
    /\ mpc = "examine"
    /\ \/ /\ client.stale \/ 1 \in Verdicts("main")
          /\ Activity
          /\ mpc' = "read" /\ UNCHANGED answers
       \/ ~client.stale /\ Verdicts("main") \cap {0, -1} # {} /\ NoAnswer
    /\ UNCHANGED <<ret, typed, netVars, want, sendVars, readVars, err, raced>>

Joins ==             \* both joined; SSL_shutdown()
    /\ mpc = "join" /\ spc = "done" /\ rpc = "done"
    /\ mpc' = IF client.stale THEN "shutdown" ELSE "done"
    /\ Tells
    /\ UNCHANGED <<ret, typed, answers, conn, reset, toC, arrived, seen, closed, broken, want,
                   sendVars, readVars, err, raced>>

ShutDown ==          \* wolfSSL_shutdown() again, until the server has closed
    /\ mpc = "shutdown" /\ Eof
    /\ Ends("done")
    /\ UNCHANGED <<ret, typed, answers, netVars, want, sendVars, readVars, err, raced>>

-----------------------------------------------------------------------------
(* thread_ssl_send                                                         *)

SendsNext ==
    /\ si' = si + 1 /\ stry' = 0
    /\ spc' = IF si + 1 = NumMsgs THEN "done" ELSE "call"

SendTry ==           \* one more try, or the message is given up
    IF stry + 1 < MaxTries THEN stry' = stry + 1 /\ spc' = "call" /\ UNCHANGED si
    ELSE SendsNext

SendStarts ==        \* the write is on its way to the socket
    /\ ~Over /\ spc = "call"
    /\ spc' = "writing"
    /\ want' = "write"
    /\ UNCHANGED <<mainVars, netVars, si, stry, readVars, err, raced>>

SendEnds ==
    /\ ~Over /\ spc = "writing"
    /\ \/ ret = "ok" /\ WriteSucceeds(NumLines + si + 1) /\ SendsNext /\ UNCHANGED mpc
       \/ ret = "ok" /\ WriteFails("send") /\ spc' = "examine" /\ UNCHANGED <<si, stry, mpc>>
       \/ Refused("send") /\ spc' = "examine" /\ UNCHANGED <<si, stry, mpc>>
       \/ Killed /\ UNCHANGED <<netVars, want, err, sendVars>>
    /\ UNCHANGED <<ret, typed, answers, readVars, raced>>

WolfSendExamines ==  \* do ... while (WANT_READ or WANT_WRITE)
    \/ 1 \in WolfVerdicts("send") /\ spc' = "call" /\ UNCHANGED <<si, stry>>
    \/ -1 \in WolfVerdicts("send") /\ SendsNext

SendExamines ==      \* OpenSSL's: either way the next try follows
    /\ ~Over /\ spc = "examine"
    /\ IF client.stale THEN WolfSendExamines
       ELSE (Verdicts("send") # {1} \/ Activity) /\ SendTry
    /\ raced' = (raced \/ Overtaken("send"))
    /\ UNCHANGED <<mainVars, netVars, want, readVars, err>>

-----------------------------------------------------------------------------
(* thread_ssl_read                                                         *)

ReadsOneMore ==      \* mutant of ReadsNext: i <= 5
    /\ ri' = ri + 1 /\ rtry' = 0
    /\ rpc' = IF ri + 1 > NumMsgs THEN "done" ELSE "call"

ReadsNext ==
    /\ ri' = ri + 1 /\ rtry' = 0
    /\ rpc' = IF ri + 1 = NumMsgs THEN "done" ELSE "call"

ReadTry ==
    IF rtry + 1 < MaxTries THEN rtry' = rtry + 1 /\ rpc' = "call" /\ UNCHANGED ri
    ELSE ReadsNext

ReadCalls ==
    /\ ~Over /\ rpc = "call"
    /\ \/ ReadSucceeds /\ got' = Append(got, Head(toC)) /\ ReadsNext
       \/ ReadFails("read") /\ rpc' = "examine" /\ UNCHANGED <<ri, rtry, got>>
    /\ UNCHANGED <<mainVars, sendVars, raced>>

WolfReadExamines ==  \* NONE: waits, and leaves the loop all the same
    \/ 1 \in WolfVerdicts("read") /\ rpc' = "wait" /\ UNCHANGED <<ri, rtry>>
    \/ 2 \in WolfVerdicts("read") /\ rpc' = "skip" /\ UNCHANGED <<ri, rtry>>
    \/ -1 \in WolfVerdicts("read") /\ ReadsNext

ReadExamines ==
    /\ ~Over /\ rpc = "examine"
    /\ raced' = (raced \/ Overtaken("read"))
    /\ \/ client.stale /\ WolfReadExamines
       \/ /\ ~client.stale /\ 1 \in Verdicts("read")
          /\ \/ rpc' = "wait" /\ UNCHANGED <<ri, rtry>>
             \/ want = "write" /\ ReadTry       \* select() for writing
       \/ ~client.stale /\ Verdicts("read") \cap {0, -1} # {} /\ ReadsNext
    /\ UNCHANGED <<mainVars, netVars, want, sendVars, got, err>>

ReadWaits ==
    /\ ~Over /\ Activity
    /\ \/ rpc = "wait" /\ ~client.stale /\ ReadTry
       \/ rpc = "wait" /\ client.stale /\ rpc' = "call" /\ UNCHANGED <<ri, rtry>>
       \/ rpc = "skip" /\ ReadsNext
    /\ UNCHANGED <<mainVars, netVars, want, sendVars, got, err, raced>>

-----------------------------------------------------------------------------
(* The server and the network                                              *)

ServerAccepts ==     \* accept() and the handshake, which may fail
    /\ mpc = "socket" /\ conn = "none"
    /\ conn' \in {"open", "closed"}
    /\ UNCHANGED <<mainVars, reset, toS, toC, arrived, seen, closed, broken, want,
                   sendVars, readVars, err, raced>>

ServerEchoes ==
    /\ conn = "open" /\ toS # <<>> /\ Head(toS) # 0
    /\ toS' = Tail(toS) /\ toC' = Append(toC, Head(toS))
    /\ UNCHANGED <<mainVars, conn, reset, arrived, seen, closed, broken, want, sendVars,
                   readVars, err, raced>>

Closes ==
    /\ conn' = "closed" /\ toS' = <<>>
    /\ toC' = IF server.notifies THEN Append(toC, 0) ELSE toC
    /\ UNCHANGED <<mainVars, reset, arrived, seen, closed, broken, want, sendVars,
                   readVars, err, raced>>

ServerEnds ==        \* the client has left
    /\ conn = "open"
    /\ \/ toS # <<>> /\ Head(toS) = 0
       \/ toS = <<>> /\ Over
    /\ Closes

ServerGivesUp ==     \* a read of the server's is interrupted, or fails
    conn = "open" /\ ~Over /\ Closes

ServerDies ==
    /\ conn = "open"
    /\ conn' = "cut" /\ toS' = <<>>
    /\ UNCHANGED <<mainVars, reset, toC, arrived, seen, closed, broken, want, sendVars,
                   readVars, err, raced>>

Arrives ==
    /\ arrived < Pieces * Len(toC)
    /\ arrived' = arrived + 1
    /\ UNCHANGED <<mainVars, conn, reset, toS, toC, seen, closed, broken, want, sendVars,
                   readVars, err, raced>>

-----------------------------------------------------------------------------
Main == \/ SocketFails \/ Connects \/ TypesLine \/ TypesNothing \/ Leaves
        \/ WriteLine \/ ReadReply \/ Examine \/ Joins \/ ShutDown
Sender == SendStarts \/ SendEnds \/ SendExamines
Reader == ReadCalls \/ ReadExamines \/ ReadWaits
Server == ServerAccepts \/ ServerEchoes \/ ServerEnds

Finished == Over /\ conn # "open" /\ arrived = Pieces * Len(toC) /\ UNCHANGED vars

Next == /\ \/ Main \/ Sender \/ Reader \/ Server \/ ServerGivesUp \/ ServerDies
           \/ Arrives \/ Finished
        /\ UNCHANGED pair

Spec == Init /\ [][Next]_vars

(* Every thread runs on, what was sent arrives, a server that lives        *)
(* answers, and the user enters the empty line some time.                  *)
Fairness == /\ WF_vars(Main /\ UNCHANGED pair) /\ WF_vars(Sender /\ UNCHANGED pair)
            /\ WF_vars(Reader /\ UNCHANGED pair) /\ WF_vars(Server /\ UNCHANGED pair)
            /\ WF_vars(Arrives /\ UNCHANGED pair)

FairSpec == Spec /\ Fairness

-----------------------------------------------------------------------------
Numbers == 0 .. NumLines + NumMsgs

TypeOK ==
    /\ <<client, server>> \in Pairs /\ ret \in {"none", "ok", "failed"}
    /\ mpc \in {"socket", "input", "write", "read", "examine", "join", "shutdown"}
             \cup Ended
    /\ typed \in 0 .. NumLines /\ answers \in Seq(0 .. NumLines)
    /\ conn \in {"none", "open", "closed", "cut"}
    /\ reset \in BOOLEAN /\ closed \in BOOLEAN /\ broken \in BOOLEAN
    /\ raced \in BOOLEAN
    /\ toS \in Seq(Numbers) /\ toC \in Seq(Numbers)
    /\ arrived \in 0 .. Pieces * Len(toC)
    /\ seen \in 0 .. arrived /\ seen < Pieces
    /\ want \in {"nothing", "read", "write"}
    /\ spc \in {"none", "call", "writing", "examine", "done"}
    /\ rpc \in {"none", "call", "examine", "wait", "skip", "done"}
    /\ si \in 0 .. NumMsgs /\ ri \in 0 .. NumMsgs
    /\ stry \in 0 .. MaxTries - 1 /\ rtry \in 0 .. MaxTries - 1
    /\ got \in Seq(NumLines + 1 .. NumLines + NumMsgs) /\ Len(got) <= ri
    /\ err \in [{"main", "send", "read"} -> {"none", "retry", "zero", "hard"}]

(* main prints for each line its own echo, and nothing only after the      *)
(* connection was lost (l.254-292); the reading thread, whatever tries it  *)
(* has given up, receives the messages in order and none twice (l.147-186).*)
EchoesInOrder ==
    /\ \A i \in 1 .. Len(answers) :
          answers[i] = i \/ (answers[i] = 0 /\ conn # "open")
    /\ \A i, j \in 1 .. Len(got) : i < j => got[i] < got[j]

(* As long as no thread has looked at the result of the other's call and   *)
(* the connection holds, the tries suffice: no message is missed           *)
(* (l.154-185).  Nothing of the kind holds when the calls race.            *)
AllReceived ==
    rpc = "done" /\ ~raced /\ conn = "open" => Len(got) = NumMsgs

(* main of wolfssl_tls_client.cpp, in its read loop after the end of the   *)
(* connection: readable for ever, and never seen to be at its end (l.312). *)
Spins == client.stale /\ mpc \in {"read", "examine"} /\ conn # "open"

(* main of openssl_tls_non_blocking_client.cpp, in its write loop with an  *)
(* SSL object that refuses every call (l.264-268).                         *)
RetriesForEver == broken /\ mpc = "write" /\ ~client.blocks

(* Every client comes to its end, also when the server dies in the middle  *)
(* of anything: no thread and no main waits for activity that never comes. *)
(* Two loops that turn for ever are the exceptions.                        *)
ClientEnds == <>Over \/ <>[]Spins \/ <>[]RetriesForEver

(* handle_io_failure tells "1 <-- Retry" from "-1 <-- Failure" (l.87-92):  *)
(* main tries a write again after the first, and leaves it after the       *)
(* other, so that no line keeps it in the write.                           *)
WriteEnds == []<>(mpc # "write")
=============================================================================
