------------------------- MODULE SshClientProofs -------------------------
(***************************************************************************)
(* Proofs about the libssh programs that talk to one server:               *)
(* RemoteCommands, for any number of commands, pieces, lines and rounds    *)
(* and for any set of programs, and SshChain, for any number of lines, to  *)
(* an echo server and through the proxy, whoever dies.                     *)
(***************************************************************************)
EXTENDS RemoteCommands, SshChain, SequenceTheorems, TLAPS

-----------------------------------------------------------------------------
(* Remote commands: on a connection that holds every piece is printed or   *)
(* unread, until the time limit of the non-blocking program has come; and  *)
(* of the ways out of the reading only the end of file is open, with       *)
(* nothing unread.                                                         *)

Counts == made \in Nat /\ buf \in Nat /\ printed \in Nat

NotStarted == job = "none" => buf = 0

(* Nothing is thrown away.                                                 *)
PrintedOrUnread == Up /\ ~silent => printed + buf = made

Leaving == at \in {"sendEof", "await", "close"}

LeftAtEof == Leaving /\ Up /\ ~silent /\ job # "none" => AtEof

IInv == Counts /\ NotStarted /\ PrintedOrUnread /\ LeftAtEof

-----------------------------------------------------------------------------
LEMMA Starts == Init => IInv
BY DEF Init, IInv, Counts, NotStarted, PrintedOrUnread, LeftAtEof, Leaving

(* The next command begins with a channel of its own; the last one ends    *)
(* the program.                                                            *)
LEMMA NextCommandKeeps ==
    ASSUME IInv, NextCommand, link' = link
    PROVE  IInv'
<1> USE DEF IInv, Counts, NotStarted, PrintedOrUnread, LeftAtEof, Leaving, AtEof, Up
<1>1. CASE /\ at' = "open" /\ silent' = FALSE
           /\ job' = "none" /\ made' = 0 /\ buf' = 0 /\ printed' = 0
  BY <1>1
<1>2. CASE at' = "done" /\ UNCHANGED chanVars
  BY <1>2 DEF chanVars
<1> QED BY ONLY NextCommand, <1>1, <1>2, Zenon DEF NextCommand, Goto

(* An error leads to a new command, to the end or, where it is ignored, to *)
(* the next call: in closing only when the connection is gone.             *)
LEMMA FailsKeeps ==
    ASSUME IInv, NEW label, Fails(label), link' = link,
           label \in {"exec", "read", "done"} \/ (~Up /\ label = "close")
    PROVE  IInv'
<1>1. CASE NextCommand BY <1>1, NextCommandKeeps
<1>2. CASE UNCHANGED chanVars /\ at' \in {label, "done"}
  BY <1>2 DEF chanVars, IInv, Counts, NotStarted, PrintedOrUnread, LeftAtEof, Leaving, AtEof, Up
<1> QED BY <1>1, <1>2 DEF Fails, Goto

LEMMA ProgramKeeps ==
    ASSUME IInv, ProgramStep PROVE IInv'
<1> USE DEF IInv, Counts, NotStarted, PrintedOrUnread, LeftAtEof, Leaving, AtEof, Up, Goto,
            chanVars
<1>1. CASE Connect BY <1>1 DEF Connect
<1>2. CASE Authenticate BY <1>2 DEF Authenticate, AfterLogin
<1>3. CASE Open
  <2>1. link' = link BY <1>3 DEF Open
  <2>2. CASE at' = "exec" /\ UNCHANGED chanVars BY <2>1, <2>2
  <2>3. CASE Fails("exec") BY ONLY IInv, <2>1, <2>3, FailsKeeps
  <2> QED BY <1>3, <2>2, <2>3 DEF Open
<1>4. CASE Exec
  <2>1. link' = link BY <1>4 DEF Exec
  <2>2. CASE /\ at' \in {"shell", "read"} /\ job' = "running"
             /\ UNCHANGED <<made, buf, printed, silent>>
    BY <2>1, <2>2
  <2>3. CASE Fails("read") BY ONLY IInv, <2>1, <2>3, FailsKeeps
  <2> QED BY <1>4, <2>2, <2>3 DEF Exec
<1>5. CASE ReadPrints \/ ShellPrints
  <2>1. PICK k \in 1 .. buf : Prints(k) BY <1>5 DEF ReadPrints, ShellPrints, PrintPieces
  <2> QED BY <1>5, <2>1 DEF ReadPrints, ShellPrints, PrintPieces, Prints
<1>6. CASE ReadEof \/ ShellEnds BY <1>6 DEF ReadEof, ShellEnds
<1>7. CASE ReadFails \/ ShellFails BY <1>7 DEF ReadFails, ShellFails
<1>8. CASE ReadNothing BY <1>8 DEF ReadNothing
<1>9. CASE SendEof
  <2>1. link' = link /\ Leaving BY <1>9 DEF SendEof
  <2>2. CASE UNCHANGED <<job, made, buf, printed, silent>> BY <2>1, <2>2
  <2>3. CASE ~Up /\ Fails("close") BY ONLY IInv, <2>1, <2>3, FailsKeeps
  <2> QED BY <1>9, <2>2, <2>3 DEF SendEof
<1>10. CASE Await BY <1>10 DEF Await
<1>11. CASE Close
  <2>1. link' = link BY <1>11 DEF Close
  <2>2. CASE NextCommand BY ONLY IInv, <2>1, <2>2, NextCommandKeeps
  <2>3. CASE Fails("done") BY ONLY IInv, <2>1, <2>3, FailsKeeps
  <2> QED BY <1>11, <2>2, <2>3 DEF Close
<1>12. CASE SendLine BY <1>12 DEF SendLine
<1>13. CASE ReadAgain \/ SelectReturns BY <1>13 DEF ReadAgain, SelectReturns
<1> QED BY <1>1, <1>2, <1>3, <1>4, <1>5, <1>6, <1>7, <1>8, <1>9, <1>10, <1>11, <1>12, <1>13
        DEF ProgramStep

THEOREM Inductive == Spec => []IInv
<1>1. IInv /\ [Next]_vars => IInv'
  <2> SUFFICES ASSUME IInv, [Next]_vars PROVE IInv' OBVIOUS
  <2> USE DEF IInv, Counts, NotStarted, PrintedOrUnread, LeftAtEof, Leaving, AtEof, Up, chanVars
  <2>1. CASE ProgramStep BY ONLY IInv, <2>1, ProgramKeeps
  <2>2. CASE User BY <2>2 DEF User
  <2>3. CASE Produces BY <2>3 DEF Produces
  <2>4. CASE Remote BY <2>4 DEF Remote, TakesLine, Ends
  <2>5. CASE Lost BY <2>5 DEF Lost
  <2>6. CASE UNCHANGED vars BY <2>6 DEF vars
  <2> QED BY <2>1, <2>2, <2>3, <2>4, <2>5, <2>6 DEF Next
<1> QED BY Starts, <1>1, PTL DEF Spec

(* Every program, with any command line: a channel is closed on a          *)
(* connection that holds only when the command has ended and all of its    *)
(* output is printed, except at the time limit (the read loops, for        *)
(* instance YH-156/ssh_cmd_blocking.cpp l.97-101).                         *)
THEOREM OutputIsComplete == Spec => []AllPrinted
<1>1. IInv => AllPrinted
  BY DEF IInv, Counts, PrintedOrUnread, LeftAtEof, Leaving, AtEof, AllPrinted
<1> QED BY <1>1, Inductive, PTL

-----------------------------------------------------------------------------
(* No piece is printed twice.                                              *)
NoneTwice == printed + buf <= made

(* The reading goes on until the rounds without output are used up.        *)
Patient == at \in {"connect", "login", "open", "exec", "read", "select"} => quiet < MaxQuiet

TInv == TypeOK /\ NoneTwice /\ Patient

Flags == err \in BOOLEAN /\ eof \in BOOLEAN /\ sentEof \in BOOLEAN /\ silent \in BOOLEAN

Others == /\ prog \in Offered
          /\ cmds \in Seq([input : BOOLEAN, noise : BOOLEAN, ends : BOOLEAN])
          /\ i \in 1 .. Len(cmds)
          /\ at \in {"connect", "login", "open", "exec", "read", "select", "sendEof",
                     "await", "close", "shell", "done"}
          /\ login \in {"none", "ok", "denied"} /\ link \in {"up", "lost"}
          /\ job \in {"none", "running", "ended"}

Counters == /\ made \in 0 .. MaxPieces /\ buf \in 0 .. made /\ printed \in 0 .. made
            /\ quiet \in 0 .. MaxQuiet
            /\ typed \in 0 .. NumLines /\ given \in 0 .. typed /\ taken \in 0 .. given

LEMMA Parts == TypeOK <=> Flags /\ Others /\ Counters
BY DEF TypeOK, Flags, Others, Counters

LEMMA NextCommandTypes ==
    ASSUME TInv, NextCommand, UNCHANGED <<prog, cmds, login, link, lineVars>>
    PROVE  TInv'
<1> USE SizeAssumption DEF TInv, TypeOK, NoneTwice, Patient, lineVars, Goto
<1>1. CASE i < Len(cmds)
  <2>1. Len(cmds) \in Nat BY DEF TypeOK
  <2>2. Flags' BY ONLY NextCommand, <1>1, Zenon DEF NextCommand, Flags
  <2>3. Others' BY ONLY TInv, NextCommand, <1>1, <2>1, UNCHANGED <<prog, cmds, login, link>>
        DEF NextCommand, TInv, TypeOK, Others, Goto
  <2>4. Counters' /\ NoneTwice' /\ Patient'
    <3>1. /\ made' = 0 /\ buf' = 0 /\ printed' = 0 /\ quiet' = 0
          /\ UNCHANGED <<typed, given, taken>>
      BY <1>1 DEF NextCommand
    <3>2. MaxPieces \in Nat /\ MaxQuiet \in Nat \ {0} /\ Counters BY DEF Counters
    <3> QED BY ONLY <3>1, <3>2 DEF Counters, NoneTwice, Patient
  <2>5. TypeOK' BY ONLY <2>2, <2>3, <2>4 DEF TypeOK, Flags, Others, Counters
  <2> QED BY ONLY <2>4, <2>5 DEF TInv
<1>2. CASE ~(i < Len(cmds)) BY <1>2 DEF NextCommand, chanVars
<1> QED BY <1>1, <1>2

LEMMA FailsTypes ==
    ASSUME TInv, NEW label \in {"exec", "read", "close", "done"}, Fails(label),
           label \in {"exec", "read"} => at \in {"open", "exec"},
           UNCHANGED <<prog, cmds, login, link, lineVars>>
    PROVE  TInv'
<1>1. CASE NextCommand BY <1>1, NextCommandTypes
<1>2. CASE UNCHANGED <<i, chanVars>> /\ at' \in {label, "done"}
  BY <1>2 DEF chanVars, lineVars, TInv, TypeOK, NoneTwice, Patient
<1> QED BY <1>1, <1>2 DEF Fails, Goto

LEMMA ProgramTypes == ASSUME TInv, ProgramStep PROVE TInv'
<1> USE SizeAssumption DEF Goto, chanVars, lineVars, TInv, NoneTwice, Patient
<1>1. CASE Connect BY <1>1 DEF Connect, TypeOK
<1>2. CASE Authenticate BY <1>2 DEF Authenticate, AfterLogin, TypeOK
<1>3. CASE Open
  <2>1. CASE Fails("exec") BY <1>3, <2>1, FailsTypes DEF Open
  <2>2. CASE at' = "exec" /\ UNCHANGED <<i, chanVars>> BY <1>3, <2>2 DEF Open, TypeOK
  <2> QED BY <1>3, <2>1, <2>2 DEF Open
<1>4. CASE Exec
  <2>1. CASE Fails("read") BY <1>4, <2>1, FailsTypes DEF Exec
  <2>2. CASE /\ job' = "running" /\ at' \in {"shell", "read"}
             /\ UNCHANGED <<i, made, buf, err, eof, sentEof, printed, quiet, silent>>
    BY <1>4, <2>2 DEF Exec, TypeOK
  <2> QED BY <1>4, <2>1, <2>2 DEF Exec
<1>5. CASE ReadPrints \/ ShellPrints
  <2>1. PICK k \in 1 .. buf : Prints(k) /\ quiet' = 0 /\ UNCHANGED at
    BY <1>5 DEF ReadPrints, ShellPrints, PrintPieces
  <2>2. buf' \in 0 .. made /\ printed' \in 0 .. made /\ printed' + buf' = printed + buf
    BY <2>1 DEF TypeOK, Prints
  <2>3. UNCHANGED <<prog, cmds, i, at, login, link, job, made, err, eof, sentEof, silent, typed,
                    given, taken>>
    BY <1>5, <2>1 DEF ReadPrints, ShellPrints
  <2>4. Flags' /\ Others'
    <3>1. Flags /\ Others BY Parts
    <3>2. Flags' BY ONLY <2>3, <3>1, Zenon DEF Flags
    <3>3. Others' BY ONLY <2>3, <3>1 DEF Others
    <3> QED BY <3>2, <3>3
  <2>5. quiet' = 0 BY <2>1
  <2>6. MaxQuiet \in Nat \ {0} /\ Counters BY DEF TypeOK, Counters
  <2>7. Counters' /\ Patient' BY ONLY <2>2, <2>3, <2>5, <2>6 DEF Counters, Patient
  <2>8. NoneTwice' BY ONLY <2>2, <2>3, TInv DEF TInv, NoneTwice
  <2> QED BY ONLY <2>4, <2>7, <2>8 DEF TInv, TypeOK, Flags, Others, Counters
<1>6. CASE ReadEof \/ ShellEnds BY <1>6 DEF ReadEof, ShellEnds, TypeOK
<1>7. CASE ReadFails \/ ShellFails BY <1>7 DEF ReadFails, ShellFails, TypeOK
<1>8. CASE ReadNothing
  <2>1. quiet \in 0 .. MaxQuiet /\ quiet < MaxQuiet BY <1>8 DEF ReadNothing, TypeOK
  <2>2. quiet' = quiet + 1 BY <1>8 DEF ReadNothing, OneMore
  <2>3. CASE quiet' >= MaxQuiet
    <3>1. silent' = TRUE /\ at' = "sendEof" BY ONLY <1>8, <2>3 DEF ReadNothing, Goto
    <3> QED BY <1>8, <2>1, <2>2, <3>1 DEF ReadNothing, TypeOK
  <2>4. CASE ~(quiet' >= MaxQuiet)
    <3>1. UNCHANGED <<silent, at>> BY ONLY <1>8, <2>4 DEF ReadNothing
    <3> QED BY <1>8, <2>1, <2>2, <2>4, <3>1 DEF ReadNothing, TypeOK
  <2> QED BY <2>3, <2>4
<1>9. CASE SendEof
  <2>1. CASE Fails("close") /\ UNCHANGED <<prog, cmds, login, link, lineVars>>
    BY <2>1, FailsTypes
  <2>2. CASE at' = "await" /\ UNCHANGED <<i, chanVars>> BY <1>9, <2>2 DEF SendEof, TypeOK
  <2>3. CASE /\ sentEof' = TRUE /\ at' \in {"close", "await"}
             /\ UNCHANGED <<i, job, made, buf, err, eof, printed, quiet, silent>>
    BY <1>9, <2>3 DEF SendEof, TypeOK
  <2> QED BY <1>9, <2>1, <2>2, <2>3 DEF SendEof
<1>10. CASE Await BY <1>10 DEF Await, TypeOK
<1>11. CASE Close
  <2>1. CASE NextCommand BY <1>11, <2>1, NextCommandTypes DEF Close
  <2>2. CASE Fails("done") BY <1>11, <2>2, FailsTypes DEF Close
  <2> QED BY <1>11, <2>1, <2>2 DEF Close
<1>12. CASE SendLine BY <1>12 DEF SendLine, TypeOK
<1>13. CASE ReadAgain \/ SelectReturns BY <1>13 DEF ReadAgain, SelectReturns, TypeOK
<1> QED BY <1>1, <1>2, <1>3, <1>4, <1>5, <1>6, <1>7, <1>8, <1>9, <1>10, <1>11, <1>12, <1>13
        DEF ProgramStep

(* Every variable keeps its type, and no index leaves the command line.    *)
THEOREM TypeCorrect == Spec => []TypeOK
<1>1. Init => TInv
  <2> SUFFICES ASSUME Init PROVE TInv OBVIOUS
  <2> USE DEF Init
  <2> DEFINE n == IF prog.runs = "many" THEN NumCmds ELSE 1
  <2>2. n \in Nat /\ n >= 1 BY SizeAssumption
  <2>3. cmds \in [1 .. n -> [input : BOOLEAN, noise : BOOLEAN, ends : BOOLEAN]]
    <3>1. CASE prog.runs = "shell" BY <3>1
    <3>2. CASE prog.runs # "shell" BY <3>2
    <3> QED BY <3>1, <3>2
  <2>4. cmds \in Seq([input : BOOLEAN, noise : BOOLEAN, ends : BOOLEAN]) /\ Len(cmds) = n
    <3> HIDE DEF n
    <3>1. cmds \in Seq([input : BOOLEAN, noise : BOOLEAN, ends : BOOLEAN]) BY <2>2, <2>3, SeqDef
    <3>2. DOMAIN cmds = 1 .. n BY <2>3
    <3>3. DOMAIN cmds = 1 .. Len(cmds) /\ Len(cmds) \in Nat BY <3>1, LenProperties
    <3> QED BY <3>1, <3>2, <3>3, <2>2
  <2>5. i \in 1 .. Len(cmds) BY <2>2, <2>4
  <2>6. cmds \in Seq([input : BOOLEAN, noise : BOOLEAN, ends : BOOLEAN]) BY <2>4
  <2> HIDE DEF n
  <2>7. /\ prog \in Offered /\ at = "connect" /\ login = "none" /\ link = "up" /\ job = "none"
        /\ made = 0 /\ buf = 0 /\ printed = 0 /\ quiet = 0 /\ typed = 0 /\ given = 0 /\ taken = 0
        /\ err = FALSE /\ eof = FALSE /\ sentEof = FALSE /\ silent = FALSE
    OBVIOUS
  <2>8. Flags BY ONLY <2>7, Zenon DEF Flags
  <2>9. Others BY ONLY <2>5, <2>6, <2>7 DEF Others
  <2>10. MaxPieces \in Nat /\ MaxQuiet \in Nat \ {0} /\ NumLines \in Nat BY SizeAssumption
  <2>11. Counters /\ NoneTwice /\ Patient BY ONLY <2>7, <2>10 DEF Counters, NoneTwice, Patient
  <2> QED BY ONLY <2>8, <2>9, <2>11, Parts DEF TInv
<1>2. TInv /\ [Next]_vars => TInv'
  <2> SUFFICES ASSUME TInv, [Next]_vars PROVE TInv' OBVIOUS
  <2> USE SizeAssumption DEF TInv, TypeOK, NoneTwice, Patient, chanVars, lineVars
  <2>1. CASE ProgramStep BY ONLY TInv, <2>1, ProgramTypes
  <2>2. CASE User BY <2>2 DEF User
  <2>3. CASE Produces BY <2>3 DEF Produces
  <2>4. CASE TakesLine BY <2>4 DEF TakesLine
  <2>5. CASE Ends
    <3>1. cmds[i] \in [input : BOOLEAN, noise : BOOLEAN, ends : BOOLEAN] BY ElementOfSeq
    <3>2. err' \in BOOLEAN BY <2>5, <3>1, Zenon DEF Ends
    <3>3. job' = "ended" /\ UNCHANGED <<prog, cmds, at, i, login, link, made, buf, eof, sentEof,
                                       printed, quiet, silent, lineVars>>
      BY <2>5 DEF Ends
    <3> QED BY <3>2, <3>3
  <2>6. CASE Lost BY <2>6 DEF Lost
  <2>7. CASE UNCHANGED vars BY <2>7 DEF vars
  <2> QED BY <2>1, <2>2, <2>3, <2>4, <2>5, <2>6, <2>7 DEF Next, Remote
<1>3. TInv => TypeOK BY DEF TInv
<1> QED BY <1>1, <1>2, <1>3, PTL DEF Spec

-----------------------------------------------------------------------------
(* The data path: as long as the channel behind the proxy can be opened,   *)
(* the lines are in one row: answered, with the echo server, still to be   *)
(* forwarded.  The data callback lets at most one of them be with the echo *)
(* server.  Once the channel cannot be opened it never can again, and      *)
(* every answer after that is an error.                                    *)

(* The answers: printed, or on their way to the client.                    *)
Count == Len(seen) + Len(down)

Answer(k) == IF k <= Len(seen) THEN seen[k] ELSE down[k - Len(seen)]

AtMostOne == /\ spc # "reading" => fwd = <<>> /\ back = <<>>
             /\ Len(fwd) + Len(back) <= 1
             /\ remote = "gone" => fwd = <<>>
             /\ spc = "reading" => chan = "open"
             /\ route = "echo" => spc # "reading" /\ chan = "new" /\ remote = "alive"
             /\ remote = "alive" => chan # "closed"

(* While the client is in its loop nobody has spoken of the end.           *)
Talking == cpc = "loop" =>
    /\ up \in Seq(Lines) /\ down \in Seq(Lines \cup {Error}) /\ spc # "ended"

InRow(first) == /\ first - 1 + Len(up) = entered
                /\ \A k \in 1 .. Len(up) : up[k] = first - 1 + k

Row == cpc = "loop" /\ ~Unopenable =>
    /\ \A k \in 1 .. Count : Answer(k) = k
    /\ spc = "poll" => InRow(Count + 1)
    /\ spc = "reading" => InRow(Count + 2)
    /\ fwd # <<>> => fwd[1] = Count + 1
    /\ back # <<>> => back[1] = Count + 1

ThenErrors == cpc = "loop" => \A k \in 1 .. Count :
    Answer(k) = k \/ \A j \in k .. Count : Answer(j) = Error

CInv == ChainTypeOK /\ AtMostOne /\ Talking /\ Row /\ ThenErrors

-----------------------------------------------------------------------------
LEMMA Numbers ==
    Lines \subseteq Nat \ {0} /\ Eof \notin Lines
           /\ Closing \notin Lines
           /\ Error \notin Lines
           /\ Error # Eof /\ Error # Closing
           /\ Eof # Closing
BY ChainAssumption DEF Lines, Eof, Closing, Error

LEMMA StepType ==
    ASSUME ChainTypeOK, AtMostOne, [ChainNext]_sessionVars
    PROVE  ChainTypeOK' /\ AtMostOne'
<1> USE Numbers, ChainAssumption DEF ChainTypeOK, AtMostOne, proxyVars
<1>1. CASE ClientReads BY <1>1 DEF ClientReads, Things
<1>2. CASE ClientTypes BY <1>2 DEF ClientTypes, Lines
<1>3. CASE ClientLeaves BY <1>3 DEF ClientLeaves
<1>4. CASE ClientWaits
  <2>1. CASE cpc' = "done" /\ up' = Append(up, Closing) BY <1>4, <2>1 DEF ClientWaits
  <2>2. CASE UNCHANGED <<cpc, up>> BY <1>4, <2>2 DEF ClientWaits
  <2> QED BY <1>4, <2>1, <2>2 DEF ClientWaits
<1>5. CASE ClientDies BY <1>5 DEF ClientDies
<1>6. CASE EchoBack BY <1>6 DEF EchoBack, Polled, Things
<1>7. CASE Forward BY <1>7 DEF Forward, Polled, Sent, Unopenable
<1>8. CASE ForwardFails BY <1>8 DEF ForwardFails, Polled, Things
<1>9. CASE LosesChannel BY <1>9 DEF LosesChannel
<1>10. CASE Reply BY <1>10 DEF Reply, Things
<1>11. CASE EofCb BY <1>11 DEF EofCb, Polled, Things
<1>12. CASE CloseCb BY <1>12 DEF CloseCb, Polled, Things
<1>13. CASE ClientLost BY <1>13 DEF ClientLost
<1>14. CASE Echo BY <1>14 DEF Echo
<1>15. CASE RemoteDies BY <1>15 DEF RemoteDies
<1>16. CASE UNCHANGED sessionVars BY <1>16 DEF sessionVars
<1> QED BY <1>1, <1>2, <1>3, <1>4, <1>5, <1>6, <1>7, <1>8, <1>9, <1>10, <1>11, <1>12, <1>13,
           <1>14, <1>15, <1>16 DEF ChainNext, Client, Server, Ended

LEMMA StepTalking ==
    ASSUME ChainTypeOK, AtMostOne, Talking, [ChainNext]_sessionVars PROVE Talking'
<1> SUFFICES ASSUME cpc' = "loop" PROVE Talking'
  BY DEF Talking
<1> USE Numbers, ChainAssumption DEF ChainTypeOK, Talking, proxyVars
<1>1. CASE ClientReads BY <1>1 DEF ClientReads
<1>2. CASE ClientTypes BY <1>2 DEF ClientTypes, Lines
<1>3. CASE ClientLeaves \/ ClientWaits \/ ClientDies
  BY <1>3 DEF ClientLeaves, ClientWaits, ClientDies
<1>4. CASE EchoBack BY <1>4 DEF EchoBack, Polled
<1>5. CASE Forward BY <1>5 DEF Forward, Polled
<1>6. CASE ForwardFails BY <1>6 DEF ForwardFails, Polled
<1>7. CASE LosesChannel BY <1>7 DEF LosesChannel
<1>8. CASE Reply BY <1>8 DEF Reply
<1>9. CASE EofCb \/ CloseCb BY <1>9 DEF EofCb, CloseCb, Polled
<1>10. CASE ClientLost BY <1>10 DEF ClientLost
<1>11. CASE Echo \/ RemoteDies BY <1>11 DEF Echo, RemoteDies
<1>12. CASE UNCHANGED sessionVars BY <1>12 DEF sessionVars
<1> QED BY <1>1, <1>2, <1>3, <1>4, <1>5, <1>6, <1>7, <1>8, <1>9, <1>10, <1>11, <1>12
        DEF ChainNext, Client, Server, Ended

-----------------------------------------------------------------------------
(* Printing an answer changes nothing in the row of the answers.           *)
LEMMA ReadKeeps ==
    ASSUME ChainTypeOK, ClientReads
    PROVE  Count' = Count /\ \A k \in 1 .. Count : Answer(k)' = Answer(k)
<1> USE DEF ChainTypeOK, ClientReads
<1>1. Len(seen') = Len(seen) + 1 /\ Len(down') = Len(down) - 1 /\ Len(down) >= 1
  OBVIOUS
<1>2. ASSUME NEW k \in 1 .. Count PROVE Answer(k)' = Answer(k)
  <2>1. CASE k <= Len(seen) BY <1>1, <2>1 DEF Count, Answer
  <2>2. CASE k = Len(seen) + 1 BY <1>1, <2>2 DEF Count, Answer
  <2>3. CASE k > Len(seen) + 1 BY <1>1, <2>3 DEF Count, Answer
  <2> QED BY <2>1, <2>2, <2>3 DEF Count
<1> QED BY <1>1, <1>2 DEF Count

(* The server's answer becomes the last one.                               *)
LEMMA AnswerAdded ==
    ASSUME ChainTypeOK, NEW x, down' = Append(down, x), seen' = seen
    PROVE  /\ Count' = Count + 1 /\ Answer(Count)' = x
           /\ \A k \in 1 .. Count : Answer(k)' = Answer(k)
<1> USE DEF ChainTypeOK
<1>1. Len(down') = Len(down) + 1 /\ Len(seen) \in Nat /\ Len(down) \in Nat OBVIOUS
<1>2. Count' = Count + 1 BY <1>1 DEF Count
<1>3. Answer(Count)' = x BY <1>1, <1>2 DEF Count, Answer
<1>4. ASSUME NEW k \in 1 .. Count PROVE Answer(k)' = Answer(k)
  BY <1>1 DEF Count, Answer
<1> QED BY <1>2, <1>3, <1>4

-----------------------------------------------------------------------------
(* A channel that cannot be opened stays so.                               *)
LEMMA StaysUnopenable ==
    ASSUME ChainTypeOK, AtMostOne, [ChainNext]_sessionVars, Unopenable
    PROVE  Unopenable'
<1> USE DEF Unopenable, AtMostOne, proxyVars
<1>1. CASE Client \/ ClientDies
  BY <1>1 DEF Client, ClientReads, ClientTypes, ClientLeaves,
              ClientWaits, ClientDies
<1>2. CASE Server
  BY <1>2 DEF Server, EchoBack, Forward, ForwardFails,
              LosesChannel, Reply, EofCb, CloseCb, ClientLost
<1>3. CASE Echo \/ RemoteDies BY <1>3 DEF Echo, RemoteDies
<1>4. CASE UNCHANGED sessionVars BY <1>4 DEF sessionVars
<1> QED BY <1>1, <1>2, <1>3, <1>4 DEF ChainNext, Ended

(* The user types one more line; the proxy takes the first one.            *)
LEMMA RowGrows ==
    ASSUME NEW n \in Nat, up \in Seq(Lines), entered \in Nat, InRow(n),
           up' = Append(up, entered + 1), entered' = entered + 1
    PROVE  InRow(n)'
<1>1. /\ Len(up') = Len(up) + 1 /\ Len(up) \in Nat /\ up'[Len(up) + 1] = entered + 1
      /\ \A k \in 1 .. Len(up) : up'[k] = up[k]
  OBVIOUS
<1> QED BY <1>1 DEF InRow

LEMMA RowMoves ==
    ASSUME NEW n \in Nat, up \in Seq(Lines), up # <<>>, InRow(n), up' = Tail(up),
           entered' = entered
    PROVE  Head(up) = n /\ InRow(n + 1)'
<1>1. Head(up) = n BY DEF InRow
<1>2. /\ Len(up') = Len(up) - 1 /\ Len(up) \in Nat
      /\ \A k \in 1 .. Len(up) - 1 : up'[k] = up[k + 1]
  OBVIOUS
<1> QED BY <1>1, <1>2 DEF InRow

LEMMA StepRow ==
    ASSUME CInv, [ChainNext]_sessionVars PROVE Row'
<1> SUFFICES ASSUME cpc' = "loop", ~Unopenable' PROVE Row'
  BY DEF Row
<1>1. ~Unopenable BY StaysUnopenable DEF CInv
<1>2. CASE cpc # "loop"
  BY <1>2 DEF ChainNext, Client, Server, Ended, ClientReads,
              ClientTypes, ClientLeaves, ClientWaits, ClientDies,
              EchoBack, Forward, ForwardFails, LosesChannel,
              Reply, EofCb, CloseCb, ClientLost, Echo,
              RemoteDies, proxyVars, sessionVars
<1>3. CASE cpc = "loop"
  <2> USE <1>1, <1>3, Numbers
      DEF CInv, ChainTypeOK, AtMostOne, Talking, Row, InRow, proxyVars
  <2>1. CASE ClientReads
    <3>1. UNCHANGED <<up, entered, spc, fwd, back>> BY <2>1 DEF ClientReads
    <3> QED BY <2>1, <3>1, ReadKeeps
  <2>2. CASE ClientTypes
    <3>1. Count' = Count /\ \A k \in 1 .. Count : Answer(k)' = Answer(k)
      BY <2>2 DEF ClientTypes, Count, Answer
    <3>2. UNCHANGED <<spc, fwd, back>> /\ entered' = entered + 1 /\ up' = Append(up, entered + 1)
      BY <2>2 DEF ClientTypes
    <3>3. PICK n \in Nat : n = Count BY DEF Count
    <3>10. n + 1 \in Nat /\ n + 2 \in Nat /\ up \in Seq(Lines) /\ entered \in Nat OBVIOUS
    <3>11. (spc = "poll" => InRow(n + 1)) /\ (spc = "reading" => InRow(n + 2)) BY <3>3
    <3>4. spc = "poll" => InRow(n + 1)' BY ONLY <3>2, <3>10, <3>11, RowGrows
    <3>5. spc = "reading" => InRow(n + 2)' BY ONLY <3>2, <3>10, <3>11, RowGrows
    <3>6. /\ \A k \in 1 .. Count' : Answer(k)' = k
          /\ (fwd # <<>> => fwd[1] = Count + 1)' /\ (back # <<>> => back[1] = Count + 1)'
      BY <3>1, <3>2
    <3> QED BY ONLY <3>1, <3>2, <3>3, <3>4, <3>5, <3>6 DEF Row
  <2>3. CASE EchoBack
    <3>1. /\ spc = "poll" /\ up # <<>> /\ up' = Tail(up) /\ down' = Append(down, Head(up))
          /\ UNCHANGED <<seen, entered, spc, fwd, back>> /\ fwd = <<>> /\ back = <<>>
      BY <2>3 DEF EchoBack, Polled
    <3>2. Count' = Count + 1 /\ Answer(Count)' = Head(up)
          /\ \A k \in 1 .. Count : Answer(k)' = Answer(k)
      BY <3>1, AnswerAdded
    <3>3. PICK n \in Nat : n = Count BY DEF Count
    <3>10. n + 1 \in Nat /\ (n + 1) + 1 = n + 2 /\ up \in Seq(Lines) OBVIOUS
    <3>11. InRow(n + 1) BY <3>1, <3>3
    <3>12. Head(up) = n + 1 /\ InRow((n + 1) + 1)' BY ONLY <3>1, <3>10, <3>11, RowMoves
    <3>4. Head(up) = n + 1 /\ InRow(n + 2)' BY ONLY <3>10, <3>12
    <3>5. \A k \in 1 .. Count' : Answer(k)' = k
      BY <3>2, <3>3, <3>4
    <3> QED BY ONLY <3>1, <3>2, <3>3, <3>4, <3>5 DEF Row
  <2>4. CASE Forward
    <3>1. /\ spc = "poll" /\ up # <<>> /\ up' = Tail(up) /\ spc' = "reading"
          /\ UNCHANGED <<down, seen, entered, back>> /\ fwd = <<>> /\ back = <<>>
          /\ fwd' = <<Head(up)>> \/ fwd' = <<>>
      BY <2>4 DEF Forward, Polled, Sent
    <3>2. Count' = Count /\ \A k \in 1 .. Count : Answer(k)' = Answer(k)
      BY <3>1 DEF Count, Answer
    <3>3. PICK n \in Nat : n = Count BY DEF Count
    <3>10. n + 1 \in Nat /\ (n + 1) + 1 = n + 2 /\ up \in Seq(Lines) OBVIOUS
    <3>11. InRow(n + 1) BY <3>1, <3>3
    <3>12. Head(up) = n + 1 /\ InRow((n + 1) + 1)' BY ONLY <3>1, <3>10, <3>11, RowMoves
    <3>4. Head(up) = n + 1 /\ InRow(n + 2)' BY ONLY <3>10, <3>12
    <3>5. \A k \in 1 .. Count' : Answer(k)' = k BY <3>2
    <3>6. fwd' # <<>> => fwd'[1] = n + 1 BY <3>1, <3>4
    <3> QED BY ONLY <3>1, <3>2, <3>3, <3>4, <3>5, <3>6 DEF Row
  <2>5. CASE Reply
    <3>1. /\ spc = "reading" /\ back # <<>> /\ down' = Append(down, Head(back))
          /\ spc' = "poll" /\ UNCHANGED <<up, seen, entered, fwd>> /\ fwd = <<>> /\ back' = <<>>
      BY <2>5 DEF Reply
    <3>2. Count' = Count + 1 /\ Answer(Count)' = Head(back)
          /\ \A k \in 1 .. Count : Answer(k)' = Answer(k)
      BY <3>1, AnswerAdded
    <3>3. Head(back) = Count + 1 /\ Count \in Nat BY <3>1 DEF Count
    <3>4. \A k \in 1 .. Count' : Answer(k)' = k BY <3>2, <3>3
    <3> QED BY <3>1, <3>2, <3>3, <3>4
  <2>6. CASE Echo
    <3>1. /\ fwd # <<>> /\ back = <<>> /\ back' = Append(back, Head(fwd)) /\ fwd' = Tail(fwd)
          /\ UNCHANGED <<up, down, seen, entered, spc>>
      BY <2>6 DEF Echo
    <3>2. Count' = Count /\ \A k \in 1 .. Count : Answer(k)' = Answer(k)
      BY <3>1 DEF Count, Answer
    <3>3. back' # <<>> /\ fwd' = <<>> /\ back'[1] = fwd[1] BY <3>1
    <3> QED BY <3>1, <3>2, <3>3
  <2>7. CASE RemoteDies
    <3>1. fwd' = <<>> /\ UNCHANGED <<up, down, seen, entered, spc, back>>
      BY <2>7 DEF RemoteDies
    <3>2. Count' = Count /\ \A k \in 1 .. Count : Answer(k)' = Answer(k)
      BY <3>1 DEF Count, Answer
    <3> QED BY <3>1, <3>2
  <2>8. CASE UNCHANGED sessionVars BY <2>8 DEF sessionVars, Count, Answer
  <2>9. CASE ForwardFails \/ LosesChannel
    BY <2>9 DEF ForwardFails, LosesChannel, Unopenable
  <2>10. CASE EofCb \/ CloseCb BY <2>10 DEF EofCb, CloseCb, Polled
  <2>11. CASE ClientLeaves \/ ClientWaits \/ ClientDies \/ ClientLost
    BY <2>11 DEF ClientLeaves, ClientWaits, ClientDies, ClientLost
  <2> QED BY <2>1, <2>2, <2>3, <2>4, <2>5, <2>6, <2>7, <2>8, <2>9, <2>10, <2>11
          DEF ChainNext, Client, Server, Ended
<1> QED BY <1>2, <1>3

(* An answer of the proxy is the next line's, or an error for good.        *)
LEMMA StepThenErrors ==
    ASSUME CInv, [ChainNext]_sessionVars PROVE ThenErrors'
<1> SUFFICES ASSUME cpc' = "loop" PROVE ThenErrors'
  BY DEF ThenErrors
<1> Count \in Nat BY DEF CInv, ChainTypeOK, Count
<1>1. CASE cpc # "loop"
  BY <1>1 DEF ChainNext, Client, Server, Ended, ClientReads,
              ClientTypes, ClientLeaves, ClientWaits, ClientDies,
              EchoBack, Forward, ForwardFails, LosesChannel,
              Reply, EofCb, CloseCb, ClientLost, Echo,
              RemoteDies, proxyVars, sessionVars
<1>2. CASE cpc = "loop"
  <2>1. ASSUME Count' = Count, \A k \in 1 .. Count : Answer(k)' = Answer(k)
        PROVE  ThenErrors'
    BY <1>2, <2>1 DEF CInv, ThenErrors
  <2>2. CASE ~Unopenable'
    <3>1. Row' BY StepRow
    <3> QED BY <2>2, <3>1 DEF Row, ThenErrors
  <2>3. CASE ForwardFails
    <3>1. down' = Append(down, Error) /\ seen' = seen BY <2>3 DEF ForwardFails
    <3>2. Count' = Count + 1 /\ Answer(Count)' = Error
          /\ \A k \in 1 .. Count : Answer(k)' = Answer(k)
      BY <3>1, AnswerAdded DEF CInv
    <3> QED BY <1>2, <3>2 DEF CInv, ThenErrors
  <2>4. CASE ClientReads BY <2>1, <2>4, ReadKeeps DEF CInv
  <2>5. CASE UNCHANGED <<seen, down>> BY <2>1, <2>5 DEF Count, Answer
  <2>6. CASE EchoBack \/ Reply
    BY <2>2, <2>6 DEF CInv, AtMostOne, EchoBack, Reply, Unopenable,
                      proxyVars
  <2>7. CASE EofCb \/ CloseCb
    BY <1>2, <2>7, Numbers DEF CInv, ChainTypeOK, Talking, EofCb, CloseCb,
                               Polled
  <2>8. CASE ClientWaits BY <2>8, <1>2 DEF ClientWaits
  <2> QED BY <2>3, <2>4, <2>5, <2>6, <2>7, <2>8
          DEF ChainNext, Client, Server, Ended, ClientTypes,
              ClientLeaves, ClientDies, Forward, LosesChannel,
              ClientLost, Echo, RemoteDies, proxyVars, sessionVars
<1> QED BY <1>1, <1>2

LEMMA ChainInductive ==
    ChainSpec => []CInv
<1>1. ChainInit => CInv
  BY ChainAssumption DEF ChainInit, CInv, ChainTypeOK, AtMostOne, Talking, Row, InRow, ThenErrors,
     Count, Answer
<1>2. CInv /\ [ChainNext]_sessionVars => CInv'
  BY StepType, StepTalking, StepRow, StepThenErrors DEF CInv
<1> QED BY <1>1, <1>2, PTL DEF ChainSpec

(* Every variable keeps its type; at most one line is ever with the echo   *)
(* server behind the proxy.                                                *)
THEOREM ChainTypeCorrect == ChainSpec => []ChainTypeOK
<1>1. CInv => ChainTypeOK BY DEF CInv
<1> QED BY <1>1, ChainInductive, PTL

(* For any number of lines the user reads each line's own echo, in order,  *)
(* until the echo server behind the proxy dies, and then only errors.      *)
THEOREM AnswersAreInOrder == ChainSpec => []AnswersInOrder
<1>1. CInv => AnswersInOrder
  <2> SUFFICES ASSUME CInv, cpc = "loop",
                      NEW k \in 1 .. Len(seen \o down)
               PROVE  \/ (seen \o down)[k] = k
                      \/ \A j \in k .. Len(seen \o down) : (seen \o down)[j] = Error
    BY DEF AnswersInOrder
  <2>1. Len(seen \o down) = Count
    BY DEF CInv, ChainTypeOK, Count
  <2>2. \A j \in 1 .. Count : (seen \o down)[j] = Answer(j)
    BY DEF CInv, ChainTypeOK, Count, Answer
  <2>3. Count \in Nat BY DEF CInv, ChainTypeOK, Count
  <2> QED BY <2>1, <2>2, <2>3 DEF CInv, ThenErrors
<1> QED BY <1>1, ChainInductive, PTL

(* The proxy's callback leaves no reply behind for a later line (l.133-143 *)
(* of the proxy).                                                          *)
THEOREM RepliesDoNotLag == ChainSpec => []NoLag
<1>1. CInv => NoLag
  BY DEF CInv, ChainTypeOK, AtMostOne, Row, InRow, Unopenable, NoLag, Count
<1> QED BY <1>1, ChainInductive, PTL
=============================================================================
