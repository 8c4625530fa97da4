--------------------------- MODULE RemoteCommands ---------------------------
(***************************************************************************)
(* The SSH clients of YH-55 and YH-156 to YH-158: programs that run the    *)
(* commands of their command line on a remote host, one channel after the  *)
(* other, and programs that open a remote shell.                           *)
(*                                                                         *)
(* libssh and the server are the environment.  A call that waits for an    *)
(* answer is one step; the retries of the non-blocking program with their  *)
(* select() are that wait.  Its reading is not one: there select() waits,  *)
(* without a limit, for output the command need not give.  Output is       *)
(* counted in pieces, not spelt out: a channel delivers it in order,       *)
(* before the end of file.                                                 *)
(***************************************************************************)
EXTENDS Naturals, Sequences

CONSTANTS Offered,    \* the programs the user may start
          NumCmds,    \* commands on the command line
          NumLines,   \* lines typed into a shell, the last one is "exit"
          MaxPieces,  \* bound on the pieces a command or a line prints
          MaxQuiet    \* rounds without output up to the time limit (50)

ASSUME SizeAssumption == /\ NumCmds \in Nat \ {0} /\ NumLines \in Nat \ {0}
                         /\ MaxPieces \in Nat /\ MaxQuiet \in Nat \ {0}

-----------------------------------------------------------------------------
(* The programs:                                                           *)
(*   runs    one or many commands, or a shell                              *)
(*   denied  what it does when the password is refused: ends or goes on    *)
(*   failed  what it does when a call on the channel fails: ends, throws   *)
(*           (which ends it too), goes to the next command, or ignores it  *)
(*   limit   it stops reading after a time without output                  *)
(*   awaits  how it waits for the end of file once it has sent its own:    *)
(*           it reads, drains, sleeps for a while or for ever, or does not *)

Program(runs, denied, failed, limit, awaits) ==
    [runs |-> runs, denied |-> denied, failed |-> failed, limit |-> limit,
     awaits |-> awaits]

Client55 == Program("one", "ends", "ignores", FALSE, "not")
NonBlocking156 == Program("many", "goesOn", "next", TRUE, "drains")
NonBlockingCopy156 == Program("many", "goesOn", "next", TRUE, "drains")
Blocking156 == Program("many", "ends", "next", FALSE, "reads")
Blocking157 == Program("many", "ends", "next", FALSE, "reads")
Blocking158 == Program("many", "ends", "next", FALSE, "reads")
Cpp157 == Program("many", "ends", "next", FALSE, "sleeps")
CppException157 == Program("many", "goesOn", "throws", FALSE, "sleeps")
Shell158 == Program("shell", "ends", "ends", FALSE, "forever")
CppShell158 == Program("shell", "goesOn", "throws", FALSE, "forever")

Programs == {Client55, NonBlocking156, NonBlockingCopy156, Blocking156, Blocking157,
             Blocking158, Cpp157, CppException157, Shell158, CppShell158}

ASSUME OfferedAssumption == Offered \subseteq Programs

-----------------------------------------------------------------------------
VARIABLES
    prog,      \* the program
    cmds,      \* its commands: whether they read their input to the end
               \* ("input"), write to stderr ("noise"), and end in the end
               \* ("ends", as a shell does after "exit"; tail -f does not)
    at,        \* where ssh_session_function() is
    i,         \* the command it is at
    login,     \* none, ok, denied
    link,      \* up, lost
    job,       \* this command on the server: none, running, ended
    made,      \* pieces it has written
    buf,       \* of those, what the program has not read
    err,       \* output on stderr, which no program reads
    eof,       \* the server's end of file has been seen
    sentEof,   \* ssh_channel_send_eof()
    printed,   \* pieces printed
    quiet,     \* rounds since the last output
    silent,    \* history: the time limit ended the reading
    typed, given, taken  \* lines typed, sent to the shell, run by the shell

chanVars == <<job, made, buf, err, eof, sentEof, printed, quiet, silent>>
lineVars == <<typed, given, taken>>
vars == <<prog, cmds, at, i, login, link, chanVars, lineVars>>

Init ==
    /\ prog \in Offered
    /\ cmds \in [1 .. (IF prog.runs = "many" THEN NumCmds ELSE 1) ->
                    IF prog.runs = "shell"
                    THEN [input : {FALSE}, noise : {FALSE}, ends : BOOLEAN]
                    ELSE [input : BOOLEAN, noise : BOOLEAN, ends : BOOLEAN]]
    /\ at = "connect" /\ i = 1 /\ login = "none" /\ link = "up"
    /\ job = "none" /\ made = 0 /\ buf = 0 /\ printed = 0 /\ quiet = 0
    /\ err = FALSE /\ eof = FALSE /\ sentEof = FALSE /\ silent = FALSE
    /\ typed = 0 /\ given = 0 /\ taken = 0

Up == link = "up"
Goto(label) == at' = label

-----------------------------------------------------------------------------
(* Session                                                                 *)

Connect ==
    /\ at = "connect"
    /\ \/ Up /\ Goto("login")
       \/ Goto("done")
    /\ UNCHANGED <<prog, cmds, i, login, link, chanVars, lineVars>>

(* Every program ends on an error; not every one on a refusal.             *)
AfterLogin(result) ==
    CASE result = "ok" -> "open"
      [] result = "denied" -> IF prog.denied = "goesOn" THEN "open" ELSE "done"
      [] result = "none" -> "done"

Authenticate ==
    /\ at = "login"
    /\ login' \in IF Up THEN {"ok", "denied", "none"} ELSE {"none"}
    /\ Goto(AfterLogin(login'))
    /\ UNCHANGED <<prog, cmds, i, link, chanVars, lineVars>>

(* The for loop goes round, on a new channel.                              *)
NextCommand ==
    IF i < Len(cmds)
    THEN /\ i' = i + 1 /\ Goto("open")
         /\ job' = "none" /\ made' = 0 /\ buf' = 0 /\ printed' = 0 /\ quiet' = 0
         /\ err' = FALSE /\ eof' = FALSE /\ sentEof' = FALSE /\ silent' = FALSE
    ELSE Goto("done") /\ UNCHANGED <<i, chanVars>>

(* A call on the channel has returned an error.                            *)
Fails(label) ==
    CASE prog.failed = "next" -> NextCommand
      [] prog.failed = "ignores" -> Goto(label) /\ UNCHANGED <<i, chanVars>>
      [] OTHER -> Goto("done") /\ UNCHANGED <<i, chanVars>>

Open ==
    /\ at = "open"
    /\ \/ /\ Up /\ login = "ok"
          /\ Goto("exec") /\ UNCHANGED <<i, chanVars>>
       \/ Fails("exec")
    /\ UNCHANGED <<prog, cmds, login, link, lineVars>>

(* ssh_channel_request_exec(), or the requests for a terminal and a shell. *)
Exec ==
    /\ at = "exec"
    /\ \/ /\ Up /\ login = "ok"
          /\ job' = "running"
          /\ Goto(IF prog.runs = "shell" THEN "shell" ELSE "read")
          /\ UNCHANGED <<i, made, buf, err, eof, sentEof, printed, quiet, silent>>
       \/ Fails("read")
    /\ UNCHANGED <<prog, cmds, login, link, lineVars>>

-----------------------------------------------------------------------------
(* One command                                                             *)

Prints(k) == /\ k \in 1 .. buf
             /\ buf' = buf - k /\ printed' = printed + k

AtEof == buf = 0 /\ job = "ended"

(* ssh_channel_is_eof(): not while there is anything unread.               *)
IsEof == eof /\ buf = 0 /\ ~err

PrintsOnce == \E k \in 1 .. buf :    \* mutant of PrintPieces: one read is taken for all
    Prints(k) /\ quiet' = 0 /\ Goto("sendEof")

PrintPieces == \E k \in 1 .. buf :
    Prints(k) /\ quiet' = 0 /\ UNCHANGED at

ReadPrints ==
    /\ at = "read" /\ PrintPieces
    /\ UNCHANGED <<prog, cmds, i, login, link, job, made, err, eof, sentEof, silent, lineVars>>

ReadEof ==
    /\ at = "read" /\ AtEof
    /\ eof' = TRUE /\ Goto("sendEof")
    /\ UNCHANGED <<prog, cmds, i, login, link, job, made, buf, err, sentEof, printed,
                   quiet, silent, lineVars>>

(* An error ends a blocking read; the non-blocking loop only counts it.    *)
ReadFails ==
    /\ at = "read" /\ (~Up \/ job = "none") /\ ~prog.limit
    /\ Goto(IF prog.failed = "throws" THEN "done" ELSE "sendEof")
    /\ UNCHANGED <<prog, cmds, i, login, link, chanVars, lineVars>>

Forever == quiet' = quiet    \* mutant of OneMore: timeout is never reduced
OneMore == quiet' = quiet + 1

(* Nothing for 100 ms, 5 seconds in all: when the read has returned 0 or   *)
(* an error.                                                               *)
ReadNothing ==
    /\ at = "read" /\ prog.limit /\ (~Up \/ (buf = 0 /\ job = "running"))
    /\ OneMore
    /\ IF quiet' >= MaxQuiet THEN silent' = TRUE /\ Goto("sendEof")
                             ELSE UNCHANGED <<silent, at>>
    /\ UNCHANGED <<prog, cmds, i, login, link, job, made, buf, err, eof, sentEof,
                   printed, lineVars>>

(* When it has returned SSH_AGAIN the program waits in select(), and this  *)
(* is no round of the limit.                                               *)
ReadAgain ==
    /\ at = "read" /\ prog.limit /\ Up /\ buf = 0 /\ job = "running"
    /\ Goto("select")
    /\ UNCHANGED <<prog, cmds, i, login, link, chanVars, lineVars>>

SelectReturns ==
    /\ at = "select" /\ (buf > 0 \/ job = "ended" \/ ~Up)
    /\ Goto("read")
    /\ UNCHANGED <<prog, cmds, i, login, link, chanVars, lineVars>>

(* On a lost connection the call may or may not notice.                    *)
SendEof ==
    /\ at = "sendEof"
    /\ \/ /\ sentEof' = TRUE
          /\ Goto(IF prog.awaits = "not" THEN "close" ELSE "await")
          /\ UNCHANGED <<i, job, made, buf, err, eof, printed, quiet, silent>>
       \/ /\ ~Up
          /\ CASE prog.awaits = "sleeps" /\ prog.failed = "next" -> Goto("await") /\ UNCHANGED <<i, chanVars>>
               [] prog.failed = "ends" -> Goto("await") /\ UNCHANGED <<i, chanVars>>
               [] OTHER -> Fails("close")
    /\ UNCHANGED <<prog, cmds, login, link, lineVars>>

(* What the wait for the end of file is satisfied with.                    *)
Waited ==
    CASE prog.awaits = "reads" -> IsEof \/ (~Up /\ ~eof)
      [] prog.awaits = "drains" -> AtEof \/ ~Up
      [] prog.awaits = "sleeps" -> TRUE
      [] prog.awaits = "forever" -> IsEof

Await ==
    /\ at = "await"
    /\ \/ Waited /\ Goto("close") /\ UNCHANGED buf
       \/ prog.awaits = "drains" /\ buf > 0 /\ buf' = 0 /\ UNCHANGED at
    /\ UNCHANGED <<prog, cmds, i, login, link, job, made, err, eof, sentEof, printed,
                   quiet, silent, lineVars>>

(* An error in closing ends the command as success does, unless it throws. *)
Close ==
    /\ at = "close"
    /\ \/ NextCommand
       \/ ~Up /\ Fails("done")
    /\ UNCHANGED <<prog, cmds, login, link, lineVars>>

-----------------------------------------------------------------------------
(* A remote shell: output goes first, the keyboard is looked at when there *)
(* was none.                                                               *)

ShellPrints ==
    /\ at = "shell" /\ PrintPieces
    /\ UNCHANGED <<prog, cmds, i, login, link, job, made, err, eof, sentEof, silent, lineVars>>

SendLine ==
    /\ at = "shell" /\ buf = 0 /\ job = "running" /\ Up
    /\ given < typed /\ given' = typed
    /\ UNCHANGED <<prog, cmds, at, i, login, link, chanVars, typed, taken>>

ShellEnds ==
    /\ at = "shell" /\ AtEof
    /\ eof' = TRUE /\ Goto("sendEof")
    /\ UNCHANGED <<prog, cmds, i, login, link, job, made, buf, err, sentEof, printed,
                   quiet, silent, lineVars>>

(* The C++ program leaves by an exception.                                 *)
ShellFails ==
    /\ at = "shell" /\ ~Up
    /\ Goto(IF prog.failed = "throws" THEN "done" ELSE "sendEof")
    /\ UNCHANGED <<prog, cmds, i, login, link, chanVars, lineVars>>

-----------------------------------------------------------------------------
(* The environment                                                         *)

User ==
    /\ at = "shell" /\ typed < NumLines
    /\ typed' = typed + 1
    /\ UNCHANGED <<prog, cmds, at, i, login, link, chanVars, given, taken>>

Produces ==
    /\ Up /\ job = "running" /\ made < MaxPieces
    /\ made' = made + 1 /\ buf' = buf + 1
    /\ UNCHANGED <<prog, cmds, at, i, login, link, job, err, eof, sentEof, printed,
                   quiet, silent, lineVars>>

TakesLine ==
    /\ Up /\ job = "running" /\ taken < given
    /\ taken' = taken + 1
    /\ UNCHANGED <<prog, cmds, at, i, login, link, chanVars, typed, given>>

(* A command that reads its input ends after it, a shell at "exit".        *)
Ends ==
    /\ Up /\ job = "running" /\ cmds[i].ends
    /\ IF prog.runs = "shell" THEN taken = NumLines ELSE cmds[i].input => sentEof
    /\ job' = "ended" /\ err' = cmds[i].noise
    /\ UNCHANGED <<prog, cmds, at, i, login, link, made, buf, eof, sentEof, printed,
                   quiet, silent, lineVars>>

Lost ==
    /\ Up /\ link' = "lost"
    /\ UNCHANGED <<prog, cmds, at, i, login, chanVars, lineVars>>

-----------------------------------------------------------------------------
ProgramStep ==
    \/ Connect \/ Authenticate \/ Open \/ Exec
    \/ ReadPrints \/ ReadEof \/ ReadFails \/ ReadNothing \/ ReadAgain \/ SelectReturns
    \/ SendEof \/ Await \/ Close
    \/ ShellPrints \/ SendLine \/ ShellEnds \/ ShellFails

Remote == TakesLine \/ Ends

Next == ProgramStep \/ User \/ Produces \/ Remote \/ Lost

(* The program runs, a command that ends does so, the user comes to        *)
(* "exit".  What a command prints, whether it is one that ends and whether *)
(* the connection holds is left open.                                      *)
Spec == /\ Init /\ [][Next]_vars
        /\ WF_vars(ProgramStep) /\ WF_vars(Remote) /\ WF_vars(User)

-----------------------------------------------------------------------------
TypeOK ==
    /\ prog \in Offered
    /\ cmds \in Seq([input : BOOLEAN, noise : BOOLEAN, ends : BOOLEAN]) /\ i \in 1 .. Len(cmds)
    /\ at \in {"connect", "login", "open", "exec", "read", "select", "sendEof",
               "await", "close", "shell", "done"}
    /\ login \in {"none", "ok", "denied"} /\ link \in {"up", "lost"}
    /\ job \in {"none", "running", "ended"}
    /\ made \in 0 .. MaxPieces /\ buf \in 0 .. made /\ printed \in 0 .. made
    /\ quiet \in 0 .. MaxQuiet
    /\ err \in BOOLEAN /\ eof \in BOOLEAN /\ sentEof \in BOOLEAN /\ silent \in BOOLEAN
    /\ typed \in 0 .. NumLines /\ given \in 0 .. typed /\ taken \in 0 .. given

(* A channel is closed on a connection that holds only when the command or *)
(* shell has ended and every piece of its output is printed, unless the    *)
(* time limit of the non-blocking program cut it short.                    *)
AllPrinted ==
    at = "close" /\ Up /\ job # "none" =>
        silent \/ (job = "ended" /\ printed = made)

(* The command will not end: it is not one that does, or it waits for the  *)
(* end of its input, which the program sends after the reading.            *)
Unending == Up /\ job = "running" /\ (cmds[i].ends => cmds[i].input /\ ~sentEof)

(* Where a program waits for ever.  For such a command: in a blocking      *)
(* read, in the shell's loop, and, for all its time limit, the             *)
(* non-blocking program in the select() of its read or in the second loop, *)
(* which drains without a limit.  For the end of file: in the blocking     *)
(* program with unread output on stderr, which ssh_channel_is_eof() counts *)
(* while reading stdout returns 0, and in the shell client's last loop,    *)
(* which polls nothing, when the connection is gone.                       *)
Stuck ==
    \/ at = "read" /\ ~prog.limit /\ Unending
    \/ at = "select" /\ buf = 0 /\ Unending
    \/ at = "await" /\ prog.awaits = "drains" /\ Unending
    \/ at = "shell" /\ Unending
    \/ at = "await" /\ prog.awaits = "reads" /\ eof /\ err
    \/ at = "await" /\ prog.awaits = "forever" /\ ~Up /\ ~eof

(* These are the only places: every program ends or comes to wait in one   *)
(* of them, whichever command does not end and whenever the connection     *)
(* fails; in particular the non-blocking program's time limit ends its     *)
(* first reading (l.165-184) of a command that keeps it out of select().   *)
EndsUnlessStuck == <>[](at = "done" \/ Stuck)
=============================================================================
