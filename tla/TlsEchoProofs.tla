--------------------------- MODULE TlsEchoProofs ---------------------------
(***************************************************************************)
(* Proofs about TlsEcho, for every client with every server of its         *)
(* directory, any number of lines, messages, parts of a record and tries.  *)
(*                                                                         *)
(* The argument: main has one line under way at a time, and that line is   *)
(* in one place (LineUnderWay), so what comes back is its echo; main goes  *)
(* on without it only when the connection has gone (Exchange).  The        *)
(* messages of the sending thread pass through the server in the order in  *)
(* which they were sent (MessagesUnderWay), with at most a close_notify    *)
(* behind them (Notices).  A thread that waits for the rest of a record    *)
(* wakes up when a part of it has come; a record has fewer parts than      *)
(* there are tries, so none is given up unless the threads race (Tries).   *)
(***************************************************************************)
EXTENDS TlsEcho, SequenceTheorems, TLAPS

-----------------------------------------------------------------------------
(* The inductive invariant                                                 *)

(* Close_notifies come last, what is before them ascends.                  *)
Rising(s) == \A j, k \in 1 .. Len(s) : j < k /\ s[k] # 0 => s[j] # 0 /\ s[j] < s[k]

(* What is in s is ahead of what is in t.                                  *)
Before(s, t) ==
    \A j \in 1 .. Len(s), k \in 1 .. Len(t) : t[k] # 0 => s[j] # 0 /\ s[j] < t[k]

(* The two threads have the connection.                                    *)
Threaded == mpc \in {"join", "shutdown"}

(* Where main and its threads are, and what they have counted by then.     *)
Stages ==
    /\ mpc = "socket" => ret = "none" /\ typed = 0 /\ answers = <<>>
    /\ ~Over => IF Threaded THEN spc # "none" /\ rpc # "none"
                ELSE spc = "none" /\ rpc = "none"
    /\ mpc = "shutdown" => spc = "done" /\ rpc = "done"
    /\ spc = "none" => si = 0
    /\ spc \in {"call", "writing", "examine"} => si < NumMsgs
    /\ rpc = "none" => ri = 0 /\ rtry = 0
    /\ rpc \in {"call", "examine", "wait", "skip"} => ri < NumMsgs
    /\ rpc = "done" => ri = NumMsgs
    /\ conn = "none" => mpc \in {"socket", "failed"}
    /\ ret = "failed" => conn # "open"

(* A close_notify comes from a server that has closed the connection, and  *)
(* an error state from the end of one.                                     *)
Notices ==
    /\ conn # "open" => toS = <<>>
    /\ closed => toC # <<>> /\ toC[1] = 0
    /\ broken => conn \in {"closed", "cut"}
    /\ \A k \in 1 .. Len(toC) : toC[k] = 0 => conn = "closed" /\ k = Len(toC)

(* The line main waits for is in one place: on its way to the server, on   *)
(* its way back, or lost with the connection.                              *)
LineUnderWay ==
    /\ mpc \in {"socket", "input", "write"} => toS = <<>> /\ toC \in {<<>>, <<0>>}
    /\ mpc \in {"read", "examine"} =>
         \/ toS = <<typed>> /\ toC = <<>>
         \/ toS = <<>> /\ toC \in {<<typed>>, <<typed, 0>>}
         \/ toS = <<>> /\ toC \in {<<>>, <<0>>} /\ conn # "open"

(* The answers are those of the lines that were typed so far, and main     *)
(* looks at a call's result with cause.                                    *)
Exchange ==
    /\ \A i \in 1 .. Len(answers) :
          answers[i] = i \/ (answers[i] = 0 /\ conn # "open")
    /\ mpc = "input" => typed = Len(answers)
    /\ mpc \in {"write", "read", "examine"} => typed = Len(answers) + 1
    /\ mpc = "examine" =>
          IF err["main"] = "retry" THEN want = "read"
          ELSE conn # "open" /\ toC \in {<<>>, <<0>>}

(* Messages of the sending thread, all of them sent.                       *)
Relayed(s) == \A k \in 1 .. Len(s) : s[k] # 0 => NumLines < s[k] /\ s[k] <= NumLines + si

(* Received, on the way back, on the way to the server: in this order, and *)
(* in the order in which they were sent.                                   *)
MessagesUnderWay == Threaded =>
    /\ Relayed(got) /\ Relayed(toC) /\ Relayed(toS)
    /\ Rising(toC) /\ Rising(toS)
    /\ Before(got, toC) /\ Before(got, toS) /\ Before(toC, toS)
    /\ spc # "done" => \A k \in 1 .. Len(toS) : toS[k] # 0

(* What the reading thread has received ascends.                           *)
Received == \A i, j \in 1 .. Len(got) : i < j => got[i] < got[j]

(* Each try takes in another part of the record.                           *)
Tries == ~raced /\ conn = "open" =>
    /\ Len(got) = ri
    /\ rpc = "call" => rtry <= arrived
    /\ rpc = "examine" => err["read"] = "retry"
    /\ rpc \in {"examine", "wait"} /\ ~client.stale => rtry <= seen
    /\ client.stale => rtry = 0
    /\ rpc # "skip"

(* The inductive invariant.                                                *)
IInv == TypeOK /\ Stages /\ Notices /\ LineUnderWay /\ Exchange
        /\ MessagesUnderWay /\ Received /\ Tries

-----------------------------------------------------------------------------
(* Of no record there are no parts.                                        *)
LEMMA PartsOfNone == ASSUME NEW P \in Nat PROVE P * 0 = 0 /\ P * 1 = P
OBVIOUS

(* One record more is Pieces parts more.                                   *)
LEMMA PartsOfMore ==
    ASSUME NEW P \in Nat, NEW n \in Nat
    PROVE  /\ P * (n + 1) = P * n + P
           /\ P * n \in Nat
OBVIOUS

(* A whole record can be taken: what is left of the stream and of its      *)
(* parts.                                                                  *)
LEMMA FirstRecord ==
    ASSUME TypeOK, Whole
    PROVE  /\ toC # <<>> /\ Head(toC) = toC[1] /\ Head(toC) \in Numbers
           /\ Tail(toC) \in Seq(Numbers) /\ Len(toC) > 0 /\ Len(Tail(toC)) = Len(toC) - 1
           /\ \A k \in 1 .. Len(toC) - 1 : Tail(toC)[k] = toC[k + 1]
           /\ arrived - Pieces \in 0 .. Pieces * Len(Tail(toC))
<1> USE SizeAssumption DEF TypeOK
<1>1. toC # <<>>
  <2>1. ASSUME toC = <<>> PROVE FALSE
    <3>1. Len(toC) = 0 BY <2>1
    <3>2. arrived <= Pieces * 0 BY <3>1
    <3> QED BY <3>2, PartsOfNone DEF Whole
  <2> QED BY <2>1
<1>2. Len(Tail(toC)) = Len(toC) - 1 /\ Len(toC) - 1 \in Nat BY <1>1
<1>3. Pieces * Len(toC) = Pieces * (Len(toC) - 1) + Pieces
  <2>1. (Len(toC) - 1) + 1 = Len(toC) BY <1>2
  <2> QED BY <1>2, <2>1, PartsOfMore
<1>4. Pieces * (Len(toC) - 1) \in Nat BY <1>2, PartsOfMore
<1>5. arrived - Pieces \in 0 .. Pieces * (Len(toC) - 1) BY <1>3, <1>4 DEF Whole
<1> QED BY <1>1, <1>2, <1>5

(* A record at the end of a stream leaves the parts that have arrived.     *)
LEMMA OneMoreRecord ==
    ASSUME TypeOK, NEW m \in Numbers
    PROVE  /\ Append(toC, m) \in Seq(Numbers) /\ Append(toS, m) \in Seq(Numbers)
           /\ arrived \in 0 .. Pieces * Len(Append(toC, m))
<1> USE SizeAssumption DEF TypeOK
<1>1. Len(Append(toC, m)) = Len(toC) + 1 OBVIOUS
<1>2. Pieces * (Len(toC) + 1) = Pieces * Len(toC) + Pieces /\ Pieces * Len(toC) \in Nat
  BY PartsOfMore
<1> QED BY <1>1, <1>2

(* The library's calls leave the socket and the SSL object well typed.     *)
NetOK ==
    /\ conn \in {"none", "open", "closed", "cut"}
    /\ reset \in BOOLEAN /\ closed \in BOOLEAN /\ broken \in BOOLEAN
    /\ toS \in Seq(Numbers) /\ toC \in Seq(Numbers)
    /\ arrived \in 0 .. Pieces * Len(toC)
    /\ seen \in 0 .. arrived /\ seen < Pieces
    /\ want \in {"nothing", "read", "write"}
    /\ err \in [{"main", "send", "read"} -> {"none", "retry", "zero", "hard"}]

(* A read that succeeds.                                                   *)
LEMMA ReadSucceedsType == ASSUME TypeOK, ReadSucceeds PROVE NetOK'
<1> USE SizeAssumption DEF TypeOK, NetOK
<1>1. Whole BY DEF ReadSucceeds
<1>2. /\ Tail(toC) \in Seq(Numbers)
      /\ arrived - Pieces \in 0 .. Pieces * Len(Tail(toC)) BY <1>1, FirstRecord
<1> QED BY <1>2 DEF ReadSucceeds

(* A read that fails, of any thread.                                       *)
LEMMA ReadFailsType ==
    ASSUME TypeOK, NEW t \in {"main", "send", "read"}, ReadFails(t) PROVE NetOK'
<1> USE SizeAssumption DEF TypeOK, NetOK
<1>1. \A e \in {"none", "retry", "zero", "hard"} :
         [err EXCEPT ![t] = e] \in [{"main", "send", "read"} -> {"none", "retry", "zero", "hard"}]
  OBVIOUS
<1>2. err' \in [{"main", "send", "read"} -> {"none", "retry", "zero", "hard"}]
  BY <1>1 DEF ReadFails
<1>3. arrived \in Nat
  <2>1. Pieces * Len(toC) \in Nat BY PartsOfMore
  <2> QED BY <2>1
<1>4. CASE ~Whole /\ seen' = arrived /\ UNCHANGED <<conn, reset, toS, toC, arrived, closed, broken>>
  <2>1. arrived < Pieces BY <1>3, <1>4 DEF Whole
  <2> HIDE DEF Whole
  <2> QED BY <1>2, <1>3, <1>4, <2>1 DEF ReadFails
<1>5. CASE closed' = TRUE /\ UNCHANGED <<conn, reset, toS, toC, arrived, seen, broken>>
  BY <1>2, <1>5 DEF ReadFails
<1>6. CASE broken' \in {broken, TRUE} /\ UNCHANGED <<conn, reset, toS, toC, arrived, seen, closed>>
  BY <1>2, <1>6 DEF ReadFails
<1> QED BY <1>4, <1>5, <1>6 DEF ReadFails

(* A write, whatever becomes of it.                                        *)
LEMMA WriteType ==
    ASSUME TypeOK, NEW t \in {"main", "send", "read"}, NEW m \in Numbers,
           WriteSucceeds(m) \/ WriteFails(t) \/ Refused(t) PROVE NetOK'
<1> USE SizeAssumption DEF TypeOK, NetOK
<1>1. Append(toS, m) \in Seq(Numbers) BY OneMoreRecord
<1>2. CASE WriteSucceeds(m) BY <1>1, <1>2 DEF WriteSucceeds
<1>3. CASE WriteFails(t) BY <1>3 DEF WriteFails
<1>4. CASE Refused(t) BY <1>4 DEF Refused, netVars
<1> QED BY <1>2, <1>3, <1>4

(* The rest of the state is well typed.                                    *)
RestOK ==
    /\ <<client, server>> \in Pairs /\ ret \in {"none", "ok", "failed"}
    /\ mpc \in {"socket", "input", "write", "read", "examine", "join", "shutdown"}
             \cup Ended
    /\ typed \in 0 .. NumLines /\ answers \in Seq(0 .. NumLines)
    /\ raced \in BOOLEAN
    /\ spc \in {"none", "call", "writing", "examine", "done"}
    /\ rpc \in {"none", "call", "examine", "wait", "skip", "done"}
    /\ si \in 0 .. NumMsgs /\ ri \in 0 .. NumMsgs
    /\ stry \in 0 .. MaxTries - 1 /\ rtry \in 0 .. MaxTries - 1
    /\ got \in Seq(NumLines + 1 .. NumLines + NumMsgs) /\ Len(got) <= ri

(* The two parts are the type invariant, in this state and in the next.    *)
LEMMA TypeParts == TypeOK <=> NetOK /\ RestOK
BY DEF TypeOK, NetOK, RestOK

LEMMA NextTypeParts == NetOK' /\ RestOK' => TypeOK'
BY DEF TypeOK, NetOK, RestOK

(* One more answer.                                                        *)
LEMMA AnswerType ==
    ASSUME TypeOK, NEW m \in 0 .. NumLines
    PROVE  Append(answers, m) \in Seq(0 .. NumLines)
BY DEF TypeOK

(* The steps of main keep the types.                                       *)
LEMMA MainType == ASSUME IInv, Main, UNCHANGED pair PROVE TypeOK'
<1> USE DEF RestOK, NetOK, vars, pair, netVars, sendVars, readVars, mainVars, Ended
<1>t. TypeOK BY DEF IInv
<1>p. NetOK /\ RestOK BY <1>t, TypeParts
<1>1. ASSUME Answered(0) PROVE answers' \in Seq(0 .. NumLines)
  <2>1. 0 \in 0 .. NumLines BY SizeAssumption
  <2> QED BY <1>1, <1>t, <2>1, AnswerType DEF Answered
<1>2. CASE SocketFails \/ Connects \/ TypesNothing \/ ShutDown \/ Examine
  <2>1. RestOK'
    <3>1. CASE SocketFails \/ ShutDown BY <1>p, <3>1 DEF SocketFails, ShutDown, Ends
    <3>2. CASE Connects BY <1>p, <3>2 DEF Connects, Ends
    <3>3. CASE TypesNothing BY <1>p, <3>3 DEF TypesNothing
    <3>4. CASE Examine BY <1>1, <1>p, <3>4 DEF Examine, NoAnswer, NextLine
    <3> QED BY <1>2, <3>1, <3>2, <3>3, <3>4
  <2>2. NetOK' BY <1>2, <1>p
    DEF SocketFails, Connects, TypesNothing, ShutDown, Examine, Ends
  <2> QED BY <2>1, <2>2, NextTypeParts
<1>3. CASE TypesLine
  <2>1. NetOK' BY <1>3, <1>p DEF TypesLine
  <2>2. RestOK' BY <1>3, <1>p, SizeAssumption DEF TypesLine, LinesOf
  <2> QED BY <2>1, <2>2, NextTypeParts
<1>4. CASE Leaves \/ Joins
  <2>1. Append(toS, 0) \in Seq(Numbers) BY <1>t, OneMoreRecord, SizeAssumption DEF Numbers
  <2>2. NetOK' BY <1>4, <1>p, <2>1 DEF Leaves, Joins, Tells
  <2>3. RestOK' BY <1>4, <1>p DEF Leaves, Joins, Ends
  <2> QED BY <2>2, <2>3, NextTypeParts
<1>5. CASE WriteLine
  <2>1. typed \in Numbers BY <1>p, SizeAssumption DEF Numbers
  <2>2. NetOK'
    <3>1. \/ WriteSucceeds(typed) \/ WriteFails("main") \/ Refused("main")
          \/ UNCHANGED <<netVars, want, err>> BY <1>5 DEF WriteLine
    <3> QED BY <1>t, <1>p, <2>1, <3>1, WriteType
  <2>3. RestOK' BY <1>1, <1>5, <1>p
    DEF WriteLine, AfterFailedWrite, NoAnswer, NextLine, Killed, Ends
  <2> QED BY <2>2, <2>3, NextTypeParts
<1>6. CASE ReadReply
  <2>1. NetOK' BY <1>6, <1>t, ReadSucceedsType, ReadFailsType DEF ReadReply
  <2>2. ASSUME ReadSucceeds, Answered(Head(toC)) PROVE answers' \in Seq(0 .. NumLines)
    <3>1. toC # <<>> /\ Head(toC) = toC[1] /\ Head(toC) # 0
      BY <1>t, <2>2, FirstRecord DEF ReadSucceeds
    <3>2. Head(toC) = typed BY <1>6, <3>1 DEF ReadReply, IInv, LineUnderWay
    <3>3. typed \in 0 .. NumLines BY <1>p
    <3> QED BY <1>t, <2>2, <3>2, <3>3, AnswerType DEF Answered
  <2>3. RestOK' BY <1>1, <1>6, <1>p, <2>2 DEF ReadReply, NoAnswer, NextLine
  <2> QED BY <2>1, <2>3, NextTypeParts
<1> QED BY <1>2, <1>3, <1>4, <1>5, <1>6 DEF Main

(* The counts of the sending thread's loops stay within their bounds.      *)
LEMMA SendCounts ==
    ASSUME TypeOK, si < NumMsgs, SendsNext \/ SendTry
    PROVE  /\ si' \in 0 .. NumMsgs /\ stry' \in 0 .. MaxTries - 1
           /\ spc' \in {"call", "done"}
           /\ spc' = "call" => si' < NumMsgs
           /\ si' \in {si, si + 1}
<1> USE SizeAssumption, TriesAssumption DEF TypeOK
<1>1. CASE SendsNext BY <1>1 DEF SendsNext
<1>2. CASE ~SendsNext BY <1>2 DEF SendTry
<1> QED BY <1>1, <1>2

(* The counts of the reading thread's loops stay within their bounds.      *)
LEMMA ReadCounts ==
    ASSUME TypeOK, ri < NumMsgs, ReadsNext \/ ReadTry
    PROVE  /\ ri' \in 0 .. NumMsgs /\ rtry' \in 0 .. MaxTries - 1
           /\ rpc' \in {"call", "done"}
           /\ rpc' = "call" => ri' < NumMsgs
           /\ rpc' = "done" => ri' = NumMsgs
           /\ ri' \in {ri, ri + 1}
<1> USE SizeAssumption, TriesAssumption DEF TypeOK
<1>1. CASE ReadsNext BY <1>1 DEF ReadsNext
<1>2. CASE ~ReadsNext BY <1>2 DEF ReadTry
<1> QED BY <1>1, <1>2

(* The steps of the two threads keep the types.                            *)
LEMMA ThreadsType == ASSUME IInv, Sender \/ Reader, UNCHANGED pair PROVE TypeOK'
<1> USE DEF RestOK, NetOK, vars, pair, netVars, sendVars, readVars, mainVars, Ended
<1>t. TypeOK BY DEF IInv
<1>p. NetOK /\ RestOK BY <1>t, TypeParts
<1> USE SizeAssumption, TriesAssumption
<1>1. CASE SendStarts
  <2>1. NetOK' /\ RestOK' BY <1>1, <1>p DEF SendStarts
  <2> QED BY <2>1, NextTypeParts
<1>2. CASE SendEnds
  <2>1. si < NumMsgs BY <1>2 DEF SendEnds, IInv, Stages
  <2>2. NumLines + si + 1 \in Numbers BY <1>p, <2>1 DEF Numbers
  <2>3. NetOK'
    <3>1. \/ WriteSucceeds(NumLines + si + 1) \/ WriteFails("send") \/ Refused("send")
          \/ UNCHANGED <<netVars, want, err>> BY <1>2 DEF SendEnds
    <3> QED BY <1>t, <1>p, <2>2, <3>1, WriteType
  <2>4. RestOK'
    <3>1. CASE SendsNext BY <1>2, <1>p, <1>t, <2>1, <3>1, SendCounts DEF SendEnds, Killed, Ends
    <3>2. CASE spc' \in {spc, "examine"} /\ UNCHANGED <<si, stry>>
      BY <1>2, <1>p, <3>2 DEF SendEnds, Killed, Ends
    <3> QED BY <1>2, <3>1, <3>2 DEF SendEnds
  <2> QED BY <2>3, <2>4, NextTypeParts
<1>3. CASE SendExamines
  <2>1. si < NumMsgs BY <1>3 DEF SendExamines, IInv, Stages
  <2>2. raced' \in BOOLEAN BY <1>3, <1>p DEF SendExamines, Overtaken
  <2>4. RestOK'
    <3>1. CASE SendsNext \/ SendTry
      BY <1>3, <1>p, <1>t, <2>1, <2>2, <3>1, SendCounts DEF SendExamines
    <3>2. CASE spc' = "call" /\ UNCHANGED <<si, stry>>
      BY <1>3, <1>p, <2>2, <3>2 DEF SendExamines
    <3> QED BY <1>3, <3>1, <3>2 DEF SendExamines, WolfSendExamines
  <2>3. NetOK' BY <1>3, <1>p DEF SendExamines
  <2> QED BY <2>3, <2>4, NextTypeParts
<1>4. CASE ReadCalls
  <2>1. NetOK' BY <1>4, <1>t, ReadSucceedsType, ReadFailsType DEF ReadCalls
  <2>2. ri < NumMsgs BY <1>4 DEF ReadCalls, IInv, Stages
  <2>3. CASE ReadSucceeds /\ got' = Append(got, Head(toC)) /\ ReadsNext
    <3>1. toC # <<>> /\ Head(toC) = toC[1] /\ Head(toC) # 0 /\ Head(toC) \in Numbers
      BY <1>t, <2>3, FirstRecord DEF ReadSucceeds
    <3>2. Relayed(toC) BY <1>4 DEF ReadCalls, Over, IInv, Stages, MessagesUnderWay
    <3>3. 1 \in 1 .. Len(toC) BY <1>p, <3>1
    <3>4. NumLines < Head(toC) BY <3>1, <3>2, <3>3 DEF Relayed
    <3>5. Head(toC) \in NumLines + 1 .. NumLines + NumMsgs BY <3>1, <3>4 DEF Numbers
    <3>6. RestOK' BY <1>4, <1>p, <2>2, <2>3, <3>5 DEF ReadCalls, ReadsNext
    <3> QED BY <2>1, <3>6, NextTypeParts
  <2>4. CASE rpc' = "examine" /\ UNCHANGED <<ri, rtry, got>>
    <3>1. RestOK' BY <1>4, <1>p, <2>4 DEF ReadCalls
    <3> QED BY <2>1, <3>1, NextTypeParts
  <2> QED BY <1>4, <2>3, <2>4 DEF ReadCalls
<1>5. CASE ReadExamines
  <2>1. ri < NumMsgs BY <1>5 DEF ReadExamines, IInv, Stages
  <2>2. raced' \in BOOLEAN BY <1>5, <1>p DEF ReadExamines, Overtaken
  <2>4. UNCHANGED got BY <1>5 DEF ReadExamines
  <2>5. RestOK'
    <3>1. CASE ReadsNext \/ ReadTry
      BY <1>5, <1>p, <1>t, <2>1, <2>2, <2>4, <3>1, ReadCounts DEF ReadExamines
    <3>2. CASE rpc' \in {"wait", "skip"} /\ UNCHANGED <<ri, rtry>>
      BY <1>5, <1>p, <2>2, <2>4, <3>2 DEF ReadExamines
    <3> QED BY <1>5, <3>1, <3>2 DEF ReadExamines, WolfReadExamines
  <2>3. NetOK' BY <1>5, <1>p DEF ReadExamines
  <2> QED BY <2>3, <2>5, NextTypeParts
<1>6. CASE ReadWaits
  <2>1. ri < NumMsgs BY <1>6 DEF ReadWaits, IInv, Stages
  <2>2. RestOK'
    <3>1. CASE ReadsNext \/ ReadTry
      BY <1>6, <1>p, <1>t, <2>1, <3>1, ReadCounts DEF ReadWaits
    <3>2. CASE rpc' = "call" /\ UNCHANGED <<ri, rtry>>
      BY <1>6, <1>p, <3>2 DEF ReadWaits
    <3> QED BY <1>6, <3>1, <3>2 DEF ReadWaits
  <2>3. NetOK' BY <1>6, <1>p DEF ReadWaits
  <2> QED BY <2>2, <2>3, NextTypeParts
<1> QED BY <1>1, <1>2, <1>3, <1>4, <1>5, <1>6 DEF Sender, Reader

(* The steps of the server and of the network.                             *)
NetSteps == ServerAccepts \/ ServerEchoes \/ ServerEnds \/ ServerGivesUp
            \/ ServerDies \/ Arrives

(* They keep the types.                                                    *)
LEMMA NetType == ASSUME IInv, NetSteps, UNCHANGED pair PROVE TypeOK'
<1> USE DEF RestOK, NetOK, vars, pair, netVars, sendVars, readVars, mainVars
<1>t. TypeOK BY DEF IInv
<1>p. NetOK /\ RestOK BY <1>t, TypeParts
<1>r. RestOK' BY <1>p
  DEF NetSteps, ServerAccepts, ServerEchoes, ServerEnds, ServerGivesUp, ServerDies,
      Arrives, Closes
<1>1. CASE ServerAccepts \/ ServerDies
  <2>1. conn' \in {"open", "closed", "cut"} /\ toS' \in Seq(Numbers)
    <3>1. toS \in Seq(Numbers) /\ <<>> \in Seq(Numbers) BY <1>p
    <3> HIDE <1>p DEF NetOK, RestOK
    <3> QED BY <1>1, <3>1 DEF ServerAccepts, ServerDies
  <2>2. UNCHANGED <<reset, toC, arrived, seen, closed, broken, want, err>>
    BY <1>1 DEF ServerAccepts, ServerDies
  <2>3. NetOK' BY <1>p, <2>1, <2>2
  <2> QED BY <1>r, <2>3, NextTypeParts
<1>2. CASE ServerEchoes
  <2>1. Head(toS) \in Numbers /\ Tail(toS) \in Seq(Numbers) BY <1>2, <1>p DEF ServerEchoes
  <2>2. NetOK' BY <1>2, <1>p, <1>t, <2>1, OneMoreRecord DEF ServerEchoes
  <2> QED BY <1>r, <2>2, NextTypeParts
<1>3. CASE Closes
  <2>1. 0 \in Numbers BY SizeAssumption DEF Numbers
  <2>2. NetOK' BY <1>3, <1>p, <1>t, <2>1, OneMoreRecord DEF Closes
  <2> QED BY <1>r, <2>2, NextTypeParts
<1>4. CASE Arrives
  <2>1. Pieces * Len(toC) \in Nat BY <1>p, SizeAssumption, PartsOfMore
  <2>2. NetOK' BY <1>4, <1>p, <2>1 DEF Arrives
  <2> QED BY <1>r, <2>2, NextTypeParts
<1> QED BY <1>1, <1>2, <1>3, <1>4 DEF NetSteps, ServerEnds, ServerGivesUp

-----------------------------------------------------------------------------
(* All steps but stuttering.                                               *)
Actions ==
    \/ Main \/ Sender \/ Reader \/ NetSteps

(* Every step keeps the stages.                                            *)
LEMMA StagesStep == ASSUME IInv, Actions, UNCHANGED pair PROVE Stages'
<1> USE DEF Stages, Over, Ended, Threaded, pair, mainVars, netVars, sendVars, readVars
<1>t. TypeOK BY DEF IInv
<1>s. Stages BY DEF IInv
<1>r. rpc \in {"none", "call", "examine", "wait", "skip", "done"} /\ si \in Nat /\ ri \in Nat
  BY <1>t DEF TypeOK
<1> USE SizeAssumption
<1>1. CASE SocketFails \/ Connects \/ TypesNothing \/ ShutDown \/ TypesLine
  <2>1. CASE SocketFails \/ ShutDown \/ TypesLine BY <1>s, <2>1 DEF SocketFails, ShutDown,
      TypesLine, Ends
  <2>2. CASE Connects BY <1>s, <2>2 DEF Connects, Ends
  <2>3. CASE TypesNothing BY <1>s, <1>r, <2>3 DEF TypesNothing
  <2> QED BY <1>1, <2>1, <2>2, <2>3
<1>2. CASE Leaves BY <1>2, <1>s DEF Leaves, Ends
<1>3. CASE Joins BY <1>3, <1>s DEF Joins
<1>4. CASE WriteLine
  <2>1. UNCHANGED <<conn, closed>> /\ mpc' \in {"input", "write", "read", "done", "killed"}
    BY <1>4 DEF WriteLine, WriteSucceeds, WriteFails, Refused, AfterFailedWrite, NoAnswer,
       NextLine, Killed, Ends
  <2> QED BY <1>4, <1>s, <2>1 DEF WriteLine
<1>5. CASE ReadReply
  <2>1. UNCHANGED conn /\ mpc' \in {"input", "examine", "done"}
    BY <1>5 DEF ReadReply, ReadSucceeds, ReadFails, NoAnswer, NextLine
  <2> QED BY <1>5, <1>s, <2>1 DEF ReadReply
<1>6. CASE Examine
  <2>1. mpc' \in {"read", "input", "done"} BY <1>6 DEF Examine, NoAnswer, NextLine
  <2> QED BY <1>6, <1>s, <2>1 DEF Examine
<1>7. CASE SendStarts BY <1>7, <1>s DEF SendStarts
<1>8. CASE SendEnds
  <2>1. UNCHANGED conn /\ mpc' \in {mpc, "killed"}
    BY <1>8 DEF SendEnds, WriteSucceeds, WriteFails, Refused, Killed, Ends
  <2>2. mpc # "socket" /\ si < NumMsgs BY <1>8, <1>s DEF SendEnds
  <2>3. CASE SendsNext BY <1>8, <1>t, <1>s, <2>1, <2>2, <2>3, SendCounts DEF SendEnds
  <2>4. CASE spc' \in {spc, "examine"} /\ UNCHANGED <<si, stry>>
    BY <1>8, <1>s, <2>1, <2>2, <2>4 DEF SendEnds
  <2> QED BY <1>8, <2>3, <2>4 DEF SendEnds
<1>9. CASE SendExamines
  <2>1. si < NumMsgs BY <1>9, <1>s DEF SendExamines
  <2>2. CASE SendsNext \/ SendTry BY <1>9, <1>t, <1>s, <2>1, <2>2, SendCounts DEF SendExamines
  <2>3. CASE spc' = "call" /\ UNCHANGED <<si, stry>>
    BY <1>9, <1>s, <2>1, <2>3 DEF SendExamines
  <2> QED BY <1>9, <2>2, <2>3 DEF SendExamines, WolfSendExamines
<1>10. CASE Reader
  <2>1. UNCHANGED conn /\ UNCHANGED <<mainVars, spc, si>> /\ ~Over /\ rpc # "none" /\ rpc # "done"
    BY <1>10 DEF Reader, ReadCalls, ReadExamines, ReadWaits, ReadSucceeds, ReadFails
  <2>2. mpc # "socket" /\ ri < NumMsgs BY <1>r, <1>s, <2>1
  <2>3. CASE ReadsNext \/ ReadTry BY <1>s, <1>t, <2>1, <2>2, <2>3, ReadCounts
  <2>4. CASE rpc' \in {"examine", "wait", "skip", "call"} /\ UNCHANGED ri
    BY <1>s, <2>1, <2>2, <2>4
  <2> QED BY <1>10, <2>3, <2>4 DEF Reader, ReadCalls, ReadExamines, WolfReadExamines, ReadWaits
<1>11. CASE NetSteps
  <2>1. UNCHANGED <<mainVars, sendVars, readVars, closed>>
    BY <1>11 DEF NetSteps, ServerAccepts, ServerEchoes, ServerEnds, ServerGivesUp, ServerDies,
                 Arrives, Closes
  <2>2. \/ UNCHANGED conn
        \/ conn = "none" /\ mpc = "socket" /\ conn' \in {"open", "closed"}
        \/ conn = "open" /\ conn' \in {"closed", "cut"}
    BY <1>11 DEF NetSteps, ServerAccepts, ServerEchoes, ServerEnds, ServerGivesUp, ServerDies,
                 Arrives, Closes
  <2> QED BY <1>s, <2>1, <2>2
<1> QED BY <1>1, <1>2, <1>3, <1>4, <1>5, <1>6, <1>7, <1>8, <1>9, <1>10, <1>11
    DEF Actions, Main, Sender

-----------------------------------------------------------------------------
(* A close_notify at the head is all that is under way.                    *)
LEMMA CloseNotice ==
    ASSUME TypeOK, Notices, toC # <<>>, toC[1] = 0 PROVE conn # "open" /\ toC = <<0>>
<1> USE DEF TypeOK
<1>1. 1 \in 1 .. Len(toC) OBVIOUS
<1>2. conn # "open" /\ Len(toC) = 1 BY <1>1 DEF Notices
<1> QED BY <1>2

(* A read fails for want of a record, or for good: then the connection has *)
(* gone.                                                                   *)
LEMMA ReadFailure ==
    ASSUME TypeOK, Notices, NEW t \in {"main", "send", "read"}, ReadFails(t)
    PROVE  /\ UNCHANGED <<conn, reset, toS, toC, arrived>>
           /\ \A u \in {"main", "send", "read"} \ {t} : err'[u] = err[u]
           /\ closed' => toC # <<>> /\ toC[1] = 0
           /\ broken' => conn \in {"closed", "cut"}
           /\ \/ err'[t] = "retry" /\ want' = "read" /\ seen' = arrived
              \/ err'[t] # "retry" /\ want' = "nothing" /\ conn # "open"
                 /\ toC \in {<<>>, <<0>>}
<1> USE DEF TypeOK
<1>0. UNCHANGED <<conn, reset, toS, toC, arrived>> BY DEF ReadFails
<1>b. broken => conn \in {"closed", "cut"} BY DEF Notices
<1>1. CASE ~Whole /\ ~closed /\ seen' = arrived /\ want' = "read"
           /\ err' = [err EXCEPT ![t] = "retry"] /\ UNCHANGED <<closed, broken>>
  BY <1>0, <1>1, <1>b
<1>2. CASE /\ closed \/ (Whole /\ Head(toC) = 0)
           /\ want' = "nothing" /\ err' = [err EXCEPT ![t] = "zero"] /\ broken' = broken
  <2>1. toC # <<>> /\ toC[1] = 0 BY <1>2, FirstRecord DEF Notices
  <2> QED BY <1>0, <1>2, <1>b, <2>1, CloseNotice
<1>3. CASE /\ ~Whole /\ Eof /\ ~closed /\ closed' = closed
           /\ want' = "nothing" /\ err' = [err EXCEPT ![t] = "hard"]
  <2>1. toC = <<>>
    <3>1. SUFFICES ASSUME toC # <<>> PROVE FALSE OBVIOUS
    <3>2. Len(toC) - 1 \in Nat /\ (Len(toC) - 1) + 1 = Len(toC) BY <3>1
    <3>3. Pieces * Len(toC) = Pieces * (Len(toC) - 1) + Pieces
          /\ Pieces * (Len(toC) - 1) \in Nat
      BY <3>2, PartsOfMore, SizeAssumption
    <3>4. arrived = Pieces * Len(toC) BY <1>3 DEF Eof
    <3> QED BY <1>3, <3>3, <3>4, SizeAssumption DEF Whole
  <2> QED BY <1>0, <1>3, <2>1 DEF Eof
<1> QED BY <1>1, <1>2, <1>3 DEF ReadFails

(* A close_notify stays the last thing of its connection.                  *)
LEMMA NoticesStep == ASSUME IInv, Actions, UNCHANGED pair PROVE Notices'
<1> USE DEF TypeOK
<1>t. TypeOK /\ Notices BY DEF IInv
<1>1. CASE UNCHANGED netVars BY <1>t, <1>1 DEF Notices, netVars
<1>2. CASE ReadSucceeds
  <2>1. Whole BY <1>2 DEF ReadSucceeds
  <2> QED BY <1>t, <1>2, <2>1, FirstRecord DEF ReadSucceeds, Notices
<1>3. CASE \E t \in {"main", "read"} : ReadFails(t)
  <2>1. PICK t \in {"main", "read"} : ReadFails(t) BY <1>3
  <2>2. /\ UNCHANGED <<conn, toS, toC>> /\ (closed' => toC # <<>> /\ toC[1] = 0)
        /\ broken' => conn \in {"closed", "cut"}
    BY <1>t, <2>1, ReadFailure
  <2> QED BY <1>t, <2>2 DEF Notices
<1>4. CASE /\ toS' = toS \/ conn = "open"
           /\ UNCHANGED <<conn, toC, closed, broken>>
  BY <1>t, <1>4 DEF Notices
<1>5. CASE ServerAccepts
  <2>1. UNCHANGED <<toC, closed, broken, toS>> /\ toS = <<>> /\ conn = "none"
        BY <1>t, <1>5 DEF ServerAccepts, Notices
  <2>3. \A k \in 1 .. Len(toC) : toC[k] # 0 BY <1>t, <1>5 DEF ServerAccepts, Notices
  <2> QED BY <1>t, <2>1, <2>3 DEF Notices
<1>6. CASE ServerEchoes
  <2>1. conn = "open" /\ toC' = Append(toC, Head(toS)) /\ Head(toS) # 0
        /\ UNCHANGED <<conn, closed, broken>>
    BY <1>6 DEF ServerEchoes
  <2>2. ~closed BY <1>t, <2>1, CloseNotice DEF Notices
  <2>3. \A k \in 1 .. Len(toC) : toC[k] # 0 BY <1>t, <2>1 DEF Notices
  <2>4. Head(toS) \in Numbers BY <1>t, <1>6 DEF ServerEchoes
  <2>5. \A k \in 1 .. Len(toC') : toC'[k] # 0
    <3>1. Len(toC) \in Nat /\ Len(toC') = Len(toC) + 1 BY <2>1, <2>4
    <3>2. \A k \in 1 .. Len(toC') : toC'[k] = IF k = Len(toC) + 1 THEN Head(toS) ELSE toC[k]
      BY <2>1, <2>4
    <3> QED BY <2>1, <2>3, <3>1, <3>2
  <2> QED BY <1>t, <2>1, <2>2, <2>5 DEF Notices
<1>7. CASE conn = "open" /\ Closes
  <2>1. conn' = "closed" /\ toS' = <<>> /\ toC' \in {toC, Append(toC, 0)}
        /\ UNCHANGED <<closed, broken>>
    BY <1>7 DEF Closes
  <2>2. ~closed BY <1>t, <1>7, CloseNotice DEF Notices
  <2>3. \A k \in 1 .. Len(toC) : toC[k] # 0 BY <1>t, <1>7 DEF Notices
  <2>4. 0 \in Numbers BY SizeAssumption DEF Numbers
  <2>5. \A k \in 1 .. Len(toC') : toC'[k] = 0 => k = Len(toC')
    <3>1. CASE toC' = toC BY <2>3, <3>1
    <3>2. CASE toC' = Append(toC, 0)
      <4>1. /\ Len(toC) \in Nat /\ Len(toC') = Len(toC) + 1
            /\ \A k \in 1 .. Len(toC) : toC'[k] = toC[k]
        BY <1>t, <2>4, <3>2
      <4> QED BY <2>3, <4>1
    <3> QED BY <2>1, <3>1, <3>2
  <2> QED BY <1>t, <2>1, <2>2, <2>5 DEF Notices
<1>8. CASE ServerDies BY <1>t, <1>8 DEF ServerDies, Notices
<1>9. CASE Arrives BY <1>t, <1>9 DEF Arrives, Notices
<1> QED
  <2>1. CASE Main
    <3>1. CASE Leaves \/ Joins BY <1>4, <3>1 DEF Leaves, Joins, Tells
    <3>2. CASE WriteLine
      <4>1. CASE WriteSucceeds(typed) BY <1>4, <4>1 DEF WriteSucceeds
      <4>2. CASE WriteFails("main") BY <1>4, <4>2 DEF WriteFails
      <4>3. CASE Refused("main") \/ UNCHANGED netVars BY <1>1, <4>3 DEF Refused
      <4> QED BY <3>2, <4>1, <4>2, <4>3 DEF WriteLine
    <3>3. CASE ReadReply BY <1>2, <1>3, <3>3 DEF ReadReply
    <3> QED BY <1>1, <2>1, <3>1, <3>2, <3>3 DEF Main, SocketFails, Connects, TypesLine,
          TypesNothing, Examine, ShutDown
  <2>2. CASE Sender
    <3>1. CASE SendEnds
      <4>1. CASE WriteSucceeds(NumLines + si + 1) BY <1>4, <4>1 DEF WriteSucceeds
      <4>2. CASE WriteFails("send") BY <1>4, <4>2 DEF WriteFails
      <4>3. CASE Refused("send") \/ UNCHANGED netVars BY <1>1, <4>3 DEF Refused
      <4> QED BY <3>1, <4>1, <4>2, <4>3 DEF SendEnds
    <3> QED BY <1>1, <2>2, <3>1 DEF Sender, SendStarts, SendExamines
  <2>3. CASE Reader
    <3>1. CASE ReadCalls BY <1>2, <1>3, <3>1 DEF ReadCalls
    <3> QED BY <1>1, <2>3, <3>1 DEF Reader, ReadExamines, ReadWaits
  <2> QED BY <1>5, <1>6, <1>7, <1>8, <1>9, <2>1, <2>2, <2>3
       DEF Actions, NetSteps, ServerEnds, ServerGivesUp

-----------------------------------------------------------------------------
(* While main exchanges lines, a reading call takes the answer to its line.*)
LEMMA Reply ==
    ASSUME IInv, mpc \in {"read", "examine"}, ReadSucceeds
    PROVE  /\ toS = <<>> /\ Head(toC) = typed /\ toC' \in {<<>>, <<0>>}
           /\ UNCHANGED <<conn, toS>>
<1>1. toC # <<>> /\ Head(toC) = toC[1] /\ Head(toC) # 0 /\ toC' = Tail(toC)
  BY FirstRecord DEF IInv, ReadSucceeds
<1>2. toS = <<>> /\ toC \in {<<typed>>, <<typed, 0>>} BY <1>1 DEF IInv, LineUnderWay
<1>3. CASE toC = <<typed>> BY <1>1, <1>2, <1>3 DEF ReadSucceeds
<1>4. CASE toC = <<typed, 0>>
  <2>1. Tail(toC) = <<0>> BY <1>4
  <2> QED BY <1>1, <1>2, <1>4, <2>1 DEF ReadSucceeds
<1> QED BY <1>2, <1>3, <1>4

(* main gives a line up only when the connection has gone.                 *)
LEMMA Examined ==
    ASSUME IInv, mpc = "examine", ~client.stale, Verdicts("main") \cap {0, -1} # {}
    PROVE  conn # "open" /\ toC \in {<<>>, <<0>>}
BY DEF IInv, Exchange, Verdicts

(* The line stays in one place.                                            *)
LEMMA LineStep == ASSUME IInv, Actions, UNCHANGED pair PROVE LineUnderWay'
<1> USE DEF LineUnderWay, pair, netVars, mainVars
<1>t. TypeOK /\ Notices /\ Stages /\ LineUnderWay BY DEF IInv
<1>n. conn # "open" => toS = <<>> BY <1>t DEF Notices
<1>z. conn = "open" => \A k \in 1 .. Len(toC) : toC[k] # 0 BY <1>t DEF Notices
<1>o. conn = "open" => toC # <<0>> /\ toC # <<typed, 0>>
  <2>1. conn = "open" => toC # <<0>>
    <3>1. toC = <<0>> => 1 \in 1 .. Len(toC) /\ toC[1] = 0 OBVIOUS
    <3> QED BY <1>z, <3>1
  <2>2. conn = "open" => toC # <<typed, 0>>
    <3>1. toC = <<typed, 0>> => 2 \in 1 .. Len(toC) /\ toC[2] = 0 OBVIOUS
    <3> QED BY <1>z, <3>1
  <2> QED BY <2>1, <2>2
<1>1. CASE SocketFails \/ Leaves \/ Joins \/ ShutDown \/ TypesNothing
  BY <1>1, <1>t DEF SocketFails, Leaves, Joins, ShutDown, TypesNothing, Ends
<1>2. CASE Connects \/ TypesLine BY <1>2, <1>t DEF Connects, TypesLine, Ends
<1>3. CASE WriteLine
  <2>1. toS = <<>> /\ toC \in {<<>>, <<0>>} /\ UNCHANGED typed BY <1>3, <1>t DEF WriteLine
  <2>2. CASE WriteSucceeds(typed) /\ mpc' = "read"
    BY <1>o, <2>1, <2>2 DEF WriteSucceeds
  <2>3. CASE UNCHANGED <<toS, toC>> /\ mpc' \in {"write", "input", "done", "killed"}
    BY <2>1, <2>3
  <2> QED BY <1>3, <2>2, <2>3
      DEF WriteLine, WriteFails, Refused, AfterFailedWrite, NoAnswer, NextLine, Killed, Ends
<1>4. CASE ReadReply
  <2>1. CASE ReadSucceeds /\ NextLine
    <3>1. toS' = <<>> /\ toC' \in {<<>>, <<0>>} BY <1>4, <2>1, Reply DEF ReadReply
    <3> QED BY <2>1, <3>1 DEF NextLine
  <2>2. ASSUME ReadFails("main") PROVE UNCHANGED <<conn, toS, toC, typed>>
    BY <1>4, <1>t, <2>2, ReadFailure DEF ReadReply
  <2>3. CASE ReadFails("main") /\ mpc' = "examine" BY <1>4, <1>t, <2>2, <2>3 DEF ReadReply
  <2>4. CASE ReadFails("main") /\ err'["main"] # "retry" /\ NoAnswer
    <3>1. conn # "open" /\ toC \in {<<>>, <<0>>} BY <1>t, <2>4, ReadFailure
    <3> QED BY <1>n, <2>2, <2>4, <3>1 DEF NoAnswer, NextLine
  <2> QED BY <1>4, <2>1, <2>3, <2>4 DEF ReadReply
<1>5. CASE Examine
  <2>1. CASE mpc' = "read" BY <1>5, <1>t, <2>1 DEF Examine
  <2>2. CASE ~client.stale /\ Verdicts("main") \cap {0, -1} # {} /\ NoAnswer
    <3>1. conn # "open" /\ toC \in {<<>>, <<0>>} BY <1>5, <2>2, Examined DEF Examine
    <3> QED BY <1>5, <1>n, <2>2, <3>1 DEF Examine, NoAnswer, NextLine
  <2> QED BY <1>5, <2>1, <2>2 DEF Examine
<1>6. CASE Sender \/ Reader
  <2>1. mpc \notin {"socket", "input", "write", "read", "examine"}
    BY <1>6, <1>t DEF Sender, Reader, SendStarts, SendEnds, SendExamines, ReadCalls, ReadExamines,
       ReadWaits, Stages, Threaded, Over, Ended
  <2>2. mpc' \in {mpc, "killed"}
    BY <1>6 DEF Sender, Reader, SendStarts, SendEnds, SendExamines, ReadCalls, ReadExamines,
       ReadWaits, Killed, Ends
  <2> QED BY <2>1, <2>2
<1>7. CASE ServerAccepts BY <1>7, <1>t DEF ServerAccepts
<1>8. CASE ServerEchoes
  <2>1. UNCHANGED <<mpc, typed, conn>> /\ conn = "open" /\ toS # <<>> /\ toS' = Tail(toS)
        /\ toC' = Append(toC, Head(toS))
    BY <1>8 DEF ServerEchoes
  <2>2. mpc \in {"read", "examine"} => toS = <<typed>> /\ toC = <<>> BY <1>t, <2>1
  <2>3. mpc \notin {"socket", "input", "write"} BY <1>t, <2>1
  <2>4. CASE toS = <<typed>> /\ toC = <<>>
    <3>1. toS' = <<>> /\ toC' = <<typed>> BY <2>1, <2>4
    <3> QED BY <2>1, <2>3, <3>1
  <2> QED BY <2>1, <2>2, <2>3, <2>4
<1>9. CASE conn = "open" /\ (Closes \/ ServerDies)
  <2>1. UNCHANGED <<mpc, typed>> /\ conn' # "open" /\ toS' = <<>>
        /\ (toC' = toC \/ toC' = Append(toC, 0))
    BY <1>9 DEF Closes, ServerDies
  <2>2. CASE toC = <<>> BY <2>1, <2>2
  <2>3. CASE toC = <<typed>> /\ mpc \in {"read", "examine"} BY <2>1, <2>3
  <2>4. CASE mpc \notin {"socket", "input", "write", "read", "examine"} BY <2>1, <2>4
  <2> QED BY <1>9, <1>t, <1>o, <2>2, <2>3, <2>4
<1>10. CASE Arrives BY <1>10, <1>t DEF Arrives
<1> QED BY <1>1, <1>2, <1>3, <1>4, <1>5, <1>6, <1>7, <1>8, <1>9, <1>10
    DEF Actions, Main, NetSteps, ServerEnds, ServerGivesUp, ServerDies

(* The answers stay those of the lines.                                    *)
LEMMA ExchangeStep == ASSUME IInv, Actions, UNCHANGED pair PROVE Exchange'
<1> USE DEF Exchange, pair, netVars, mainVars
<1>t. TypeOK /\ Notices /\ Stages /\ LineUnderWay /\ Exchange BY DEF IInv
<1>l. Len(answers) \in Nat /\ typed \in Nat BY <1>t DEF TypeOK
<1>a. ASSUME NEW m, Answered(m), m = Len(answers) + 1 \/ (m = 0 /\ conn # "open"), UNCHANGED conn
      PROVE  /\ Len(answers') = Len(answers) + 1
             /\ \A i \in 1 .. Len(answers') :
                   answers'[i] = i \/ (answers'[i] = 0 /\ conn' # "open")
  BY <1>a, <1>t DEF Answered, TypeOK
<1>1. CASE SocketFails \/ Connects \/ TypesLine \/ TypesNothing \/ Leaves \/ Joins \/ ShutDown
  BY <1>1, <1>t, <1>l DEF SocketFails, Connects, TypesLine, TypesNothing, Leaves, Joins, ShutDown,
     Ends, Stages
<1>3. CASE WriteLine
  <2>1. UNCHANGED <<conn, typed>> /\ typed = Len(answers) + 1
    BY <1>3, <1>t DEF WriteLine, WriteSucceeds, WriteFails, Refused
  <2>2. CASE mpc' \in {"read", "write", "killed"} /\ UNCHANGED answers BY <1>t, <2>1, <2>2
  <2>3. CASE conn # "open" /\ NoAnswer BY <1>a, <1>t, <2>1, <2>3 DEF NoAnswer, NextLine
  <2>4. ret = "failed" \/ broken => conn # "open" BY <1>t DEF Notices, Stages
  <2> QED BY <1>3, <1>t, <2>2, <2>3, <2>4 DEF WriteLine, WriteFails, Refused,
                                             AfterFailedWrite, Killed, Ends, Stages
<1>4. CASE ReadReply
  <2>1. UNCHANGED typed /\ typed = Len(answers) + 1 /\ mpc = "read"
    BY <1>4, <1>t DEF ReadReply
  <2>2. CASE ReadSucceeds /\ Answered(Head(toC)) /\ NextLine
    <3>1. Head(toC) = typed /\ UNCHANGED conn BY <2>1, <2>2, Reply
    <3> QED BY <1>a, <2>1, <2>2, <3>1 DEF NextLine
  <2>3. CASE ReadFails("main")
    <3>1. UNCHANGED <<conn, toC>> BY <1>t, <2>3, ReadFailure
    <3>2. err'["main"] = "retry" => want' = "read" BY <1>t, <2>3, ReadFailure
    <3>3. err'["main"] # "retry" => conn # "open" /\ toC \in {<<>>, <<0>>}
      BY <1>t, <2>3, ReadFailure
    <3>4. CASE mpc' = "examine" /\ UNCHANGED answers
      BY <1>t, <2>1, <3>1, <3>2, <3>3, <3>4
    <3>5. CASE err'["main"] # "retry" /\ NoAnswer
      BY <1>a, <2>1, <3>1, <3>3, <3>5 DEF NoAnswer, NextLine
    <3> QED BY <1>4, <2>3, <3>4, <3>5 DEF ReadReply, ReadSucceeds, ReadFails
  <2> QED BY <1>4, <2>2, <2>3 DEF ReadReply
<1>5. CASE Examine
  <2>1. CASE mpc' = "read" /\ UNCHANGED answers BY <1>5, <1>t, <2>1 DEF Examine
  <2>2. CASE ~client.stale /\ Verdicts("main") \cap {0, -1} # {} /\ NoAnswer
    <3>1. conn # "open" BY <1>5, <2>2, Examined DEF Examine
    <3> QED BY <1>5, <1>a, <1>t, <2>2, <3>1 DEF Examine, NoAnswer, NextLine
  <2> QED BY <1>5, <2>1, <2>2 DEF Examine
<1>6. CASE Sender \/ Reader
  <2>1. mpc \notin {"socket", "input", "write", "read", "examine"}
    BY <1>6, <1>t DEF Sender, Reader, SendStarts, SendEnds, SendExamines, ReadCalls, ReadExamines,
       ReadWaits, Stages, Threaded, Over, Ended
  <2>2. mpc' \in {mpc, "killed"} /\ UNCHANGED <<answers, conn>>
    BY <1>6 DEF Sender, Reader, SendStarts, SendEnds, SendExamines, ReadCalls, ReadExamines,
       ReadWaits, Killed, Ends, ReadSucceeds, ReadFails, WriteSucceeds, WriteFails, Refused
  <2> QED BY <1>t, <2>1, <2>2
<1>7. CASE NetSteps
  <2>1. UNCHANGED <<mainVars, err, want>>
    BY <1>7 DEF NetSteps, ServerAccepts, ServerEchoes, ServerEnds, ServerGivesUp, ServerDies,
                Arrives, Closes
  <2>2. conn # "open" /\ mpc # "socket" => UNCHANGED <<conn, toC>>
    BY <1>7, <1>t DEF NetSteps, ServerAccepts, ServerEchoes, ServerEnds, ServerGivesUp,
                      ServerDies, Arrives, Closes
  <2>3. mpc = "socket" => answers = <<>> BY <1>t DEF Stages
  <2> QED BY <1>t, <2>1, <2>2, <2>3
<1> QED BY <1>1, <1>3, <1>4, <1>5, <1>6, <1>7 DEF Actions, Main

-----------------------------------------------------------------------------
(* The first of a stream may be taken.                                     *)
LEMMA TakesFirst ==
    ASSUME NEW s \in Seq(Int), s # <<>>
    PROVE  /\ Head(s) \in Int /\ Tail(s) \in Seq(Int)
           /\ Rising(s) => Rising(Tail(s)) /\ Before(<<Head(s)>>, Tail(s))
           /\ Relayed(s) => Relayed(Tail(s)) /\ Relayed(<<Head(s)>>)
           /\ (\A k \in 1 .. Len(s) : s[k] # 0) =>
                 Head(s) # 0 /\ \A k \in 1 .. Len(Tail(s)) : Tail(s)[k] # 0
           /\ \A t \in Seq(Int) : Before(s, t) => Before(Tail(s), t) /\ Before(<<Head(s)>>, t)
           /\ \A t \in Seq(Int) : Before(t, s) => Before(t, Tail(s)) /\ Before(t, <<Head(s)>>)
<1>1. /\ Len(s) \in Nat \ {0} /\ Len(Tail(s)) = Len(s) - 1
      /\ \A k \in 1 .. Len(s) - 1 : Tail(s)[k] = s[k + 1]
      /\ Head(s) = s[1] /\ Head(s) \in Int /\ Tail(s) \in Seq(Int)
  OBVIOUS
<1>2. Len(<<Head(s)>>) = 1 /\ <<Head(s)>>[1] = s[1] BY <1>1
<1>3. 1 \in 1 .. Len(s) BY <1>1
<1>4. Rising(s) => Rising(Tail(s)) BY <1>1 DEF Rising
<1>5. Rising(s) => Before(<<Head(s)>>, Tail(s)) BY <1>1, <1>2 DEF Rising, Before
<1>6. Relayed(s) => Relayed(Tail(s)) /\ Relayed(<<Head(s)>>) BY <1>1, <1>2 DEF Relayed
<1>7. ASSUME NEW t \in Seq(Int), Before(s, t) PROVE Before(Tail(s), t) /\ Before(<<Head(s)>>, t)
  BY <1>1, <1>2, <1>3, <1>7 DEF Before
<1>8. ASSUME NEW t \in Seq(Int), Before(t, s) PROVE Before(t, Tail(s)) /\ Before(t, <<Head(s)>>)
  BY <1>1, <1>2, <1>3, <1>8 DEF Before
<1> QED BY <1>1, <1>3, <1>4, <1>5, <1>6, <1>7, <1>8

(* What is ahead of nothing may be added at the end of a stream.           *)
LEMMA AddsLast ==
    ASSUME NEW s \in Seq(Int), NEW m \in Int
    PROVE  /\ Rising(s) /\ Before(s, <<m>>) => Rising(Append(s, m))
           /\ Relayed(s) /\ Relayed(<<m>>) => Relayed(Append(s, m))
           /\ \A t \in Seq(Int) : Before(s, t) /\ Before(<<m>>, t) => Before(Append(s, m), t)
           /\ \A t \in Seq(Int) : Before(t, s) /\ Before(t, <<m>>) => Before(t, Append(s, m))
<1>1. /\ Len(s) \in Nat /\ Len(Append(s, m)) = Len(s) + 1
      /\ \A k \in 1 .. Len(s) : Append(s, m)[k] = s[k]
      /\ Append(s, m)[Len(s) + 1] = m
  OBVIOUS
<1>2. Len(<<m>>) = 1 /\ <<m>>[1] = m OBVIOUS
<1>3. Rising(s) /\ Before(s, <<m>>) => Rising(Append(s, m))
  <2> SUFFICES ASSUME Rising(s), Before(s, <<m>>),
                      NEW j \in 1 .. Len(s) + 1, NEW k \in 1 .. Len(s) + 1, j < k,
                      Append(s, m)[k] # 0
               PROVE  Append(s, m)[j] # 0 /\ Append(s, m)[j] < Append(s, m)[k]
    BY <1>1 DEF Rising
  <2>1. j \in 1 .. Len(s) BY <1>1
  <2>2. CASE k = Len(s) + 1 BY <1>1, <1>2, <2>1, <2>2 DEF Before
  <2>3. CASE k \in 1 .. Len(s) BY <1>1, <2>1, <2>3 DEF Rising
  <2> QED BY <1>1, <2>2, <2>3
<1>4. Relayed(s) /\ Relayed(<<m>>) => Relayed(Append(s, m)) BY <1>1, <1>2 DEF Relayed
<1>5. ASSUME NEW t \in Seq(Int), Before(s, t), Before(<<m>>, t) PROVE Before(Append(s, m), t)
  BY <1>1, <1>2, <1>5 DEF Before
<1>6. ASSUME NEW t \in Seq(Int), Before(t, s), Before(t, <<m>>) PROVE Before(t, Append(s, m))
  BY <1>1, <1>2, <1>6 DEF Before
<1> QED BY <1>3, <1>4, <1>5, <1>6

(* Neither an empty stream nor a close_notify is out of order.             *)
LEMMA OfNothing ==
    /\ Relayed(<<>>) /\ Rising(<<>>)
    /\ \A t \in Seq(Int) : Before(<<>>, t) /\ Before(t, <<>>)
    /\ Relayed(<<0>>) /\ Rising(<<0>>) /\ \A t \in Seq(Int) : Before(t, <<0>>)
BY DEF Relayed, Rising, Before

(* The streams are sequences of integers.                                  *)
LEMMA Sequences ==
    ASSUME TypeOK
    PROVE  /\ got \in Seq(Int) /\ toC \in Seq(Int) /\ toS \in Seq(Int)
           /\ \A k \in 1 .. Len(got) : got[k] # 0
           /\ si \in Nat /\ NumLines + si + 1 \in Int /\ NumLines + si + 1 # 0
<1>1. Numbers \subseteq Int /\ NumLines + 1 .. NumLines + NumMsgs \subseteq Int
  BY SizeAssumption DEF Numbers
<1>t. /\ got \in Seq(NumLines + 1 .. NumLines + NumMsgs)
      /\ toC \in Seq(Numbers) /\ toS \in Seq(Numbers)
  BY DEF TypeOK
<1>2. got \in Seq(Int) /\ toC \in Seq(Int) /\ toS \in Seq(Int)
  BY <1>1, <1>t, SeqMonotonic
<1>3. \A k \in 1 .. Len(got) : got[k] # 0 BY SizeAssumption DEF TypeOK
<1> QED BY <1>2, <1>3, SizeAssumption DEF TypeOK

(* Messages that were sent have been sent after one more, too.             *)
LEMMA StillRelayed ==
    ASSUME NEW s \in Seq(Int), Relayed(s), si \in Nat, si' \in {si, si + 1}
    PROVE  \A k \in 1 .. Len(s) : s[k] # 0 => NumLines < s[k] /\ s[k] <= NumLines + si'
<1> SUFFICES ASSUME NEW k \in 1 .. Len(s), s[k] # 0
             PROVE  NumLines < s[k] /\ s[k] <= NumLines + si'
  OBVIOUS
<1>1. s[k] \in Int OBVIOUS
<1>2. NumLines < s[k] /\ s[k] <= NumLines + si BY DEF Relayed
<1> QED BY <1>1, <1>2, SizeAssumption

(* The next message is behind all that were sent.                          *)
LEMMA Precedes ==
    ASSUME NEW s \in Seq(Int), Relayed(s), si \in Nat, \A k \in 1 .. Len(s) : s[k] # 0
    PROVE  Before(s, <<NumLines + si + 1>>)
<1> DEFINE m == NumLines + si + 1
<1> SUFFICES ASSUME NEW j \in 1 .. Len(s) PROVE s[j] # 0 /\ s[j] < m
  BY DEF Before
<1>1. s[j] \in Int OBVIOUS
<1>2. s[j] <= NumLines + si BY DEF Relayed
<1> QED BY <1>1, <1>2, SizeAssumption

(* The messages stay in their order.                                       *)
LEMMA MessagesStep == ASSUME IInv, Actions, UNCHANGED pair PROVE MessagesUnderWay'
<1> USE DEF pair, netVars, mainVars, sendVars, readVars
<1>t. TypeOK /\ Notices /\ Stages /\ LineUnderWay /\ MessagesUnderWay BY DEF IInv
<1>s. /\ got \in Seq(Int) /\ toC \in Seq(Int) /\ toS \in Seq(Int)
      /\ \A k \in 1 .. Len(got) : got[k] # 0
      /\ si \in Nat /\ NumLines + si + 1 \in Int /\ NumLines + si + 1 # 0 /\ NumLines \in Nat
  BY <1>t, Sequences, SizeAssumption
<1>z. conn = "open" => \A k \in 1 .. Len(toC) : toC[k] # 0 BY <1>t DEF Notices
<1>n. conn # "open" => toS = <<>> BY <1>t DEF Notices
<1>m. Threaded => /\ Relayed(got) /\ Relayed(toC) /\ Relayed(toS)
                  /\ Rising(toC) /\ Rising(toS)
                  /\ Before(got, toC) /\ Before(got, toS) /\ Before(toC, toS)
                  /\ (spc # "done" => \A k \in 1 .. Len(toS) : toS[k] # 0)
  BY <1>t DEF MessagesUnderWay
<1>r. ASSUME UNCHANGED si PROVE \A s : Relayed(s) => (Relayed(s))'
  BY <1>r DEF Relayed
<1>u. ASSUME UNCHANGED <<mpc, got, toC, toS>>, si' \in {si, si + 1}, spc # "done"
      PROVE  MessagesUnderWay'
  <2>1. Threaded => (Relayed(got))' /\ (Relayed(toC))' /\ (Relayed(toS))'
    BY <1>u, <1>s, <1>m, StillRelayed DEF Relayed
  <2> QED BY <1>u, <1>m, <2>1 DEF MessagesUnderWay, Rising, Before, Threaded
<1>v. ASSUME mpc' \notin {"join", "shutdown"} PROVE MessagesUnderWay'
  BY <1>v DEF MessagesUnderWay, Threaded
<1>1. CASE TypesNothing
  <2>1. got = <<>> BY <1>1, <1>t DEF TypesNothing, Stages, TypeOK, Threaded, Over, Ended
  <2>2. toS = <<>> /\ toC \in {<<>>, <<0>>} BY <1>1, <1>t DEF TypesNothing, LineUnderWay
  <2>3. UNCHANGED <<got, toC, toS>> BY <1>1 DEF TypesNothing
  <2> QED BY <2>1, <2>2, <2>3 DEF MessagesUnderWay, Relayed, Rising, Before
<1>2. CASE Joins
  <2>1. Threaded /\ spc' = "done" /\ UNCHANGED <<got, toC, si>>
        /\ (toS' = toS \/ toS' = Append(toS, 0))
    BY <1>2 DEF Joins, Threaded, Tells
  <2>2. CASE toS' = toS
    BY <1>m, <2>1, <2>2 DEF MessagesUnderWay, Relayed, Rising, Before
  <2>3. CASE toS' = Append(toS, 0)
    <3>1. Relayed(Append(toS, 0)) /\ Rising(Append(toS, 0))
          /\ Before(got, Append(toS, 0)) /\ Before(toC, Append(toS, 0))
      BY <1>m, <1>s, <2>1, AddsLast, OfNothing
    <3> QED BY <1>m, <2>1, <2>3, <3>1 DEF MessagesUnderWay, Relayed, Rising, Before
  <2> QED BY <2>1, <2>2, <2>3
<1>3. CASE Main /\ ~TypesNothing /\ ~Joins
  <2>1. mpc' \notin {"join", "shutdown"}
    BY <1>3, <1>t DEF Main, SocketFails, Connects, TypesLine, Leaves, WriteLine, ReadReply,
                      Examine, ShutDown, Ends, Killed, AfterFailedWrite, NoAnswer, NextLine
  <2> QED BY <1>v, <2>1
<1>4. CASE Sender
  <2>1. Threaded /\ spc # "done" /\ UNCHANGED <<got, toC>>
    BY <1>4, <1>t DEF Sender, SendStarts, SendEnds, SendExamines, Stages, WriteSucceeds,
                      WriteFails, Refused
  <2>2. CASE SendEnds /\ WriteSucceeds(NumLines + si + 1) /\ conn = "open" /\ SendsNext /\ UNCHANGED mpc
    <3> DEFINE m == NumLines + si + 1
    <3>1. toS' = Append(toS, m) /\ si' = si + 1 BY <2>2 DEF WriteSucceeds, SendsNext
    <3>2. Before(got, <<m>>) /\ Before(toC, <<m>>) /\ Before(toS, <<m>>)
      BY <1>m, <1>s, <1>z, <2>1, <2>2, Precedes
    <3>3. Rising(Append(toS, m)) /\ Before(got, Append(toS, m)) /\ Before(toC, Append(toS, m))
      BY <1>m, <1>s, <2>1, <3>2, AddsLast
    <3>4. /\ Len(Append(toS, m)) = Len(toS) + 1 /\ Append(toS, m)[Len(toS) + 1] = m
          /\ \A k \in 1 .. Len(toS) : Append(toS, m)[k] = toS[k]
      BY <1>s
    <3>5. \A k \in 1 .. Len(toS) + 1 : Append(toS, m)[k] # 0
      BY <1>m, <1>s, <2>1, <3>4
    <3>6. (Relayed(toS))' BY <1>m, <1>s, <2>1, <3>1, <3>4 DEF Relayed
    <3>7. (Relayed(got))' /\ (Relayed(toC))' BY <1>m, <1>s, <2>1, <3>1, StillRelayed DEF Relayed
    <3>8. (Rising(toS))' /\ (Rising(toC))' /\ (Before(got, toS))' /\ (Before(toC, toS))'
          /\ (Before(got, toC))'
      BY <1>m, <2>1, <3>1, <3>3 DEF Rising, Before
    <3> QED BY <3>1, <3>4, <3>5, <3>6, <3>7, <3>8 DEF MessagesUnderWay
  <2>3. CASE SendEnds /\ WriteSucceeds(NumLines + si + 1) /\ conn # "open" /\ SendsNext /\ UNCHANGED mpc
    BY <1>u, <2>1, <2>3 DEF WriteSucceeds, SendsNext
  <2>4. CASE mpc' = "killed" BY <1>v, <2>4
  <2>5. CASE SendEnds /\ (WriteFails("send") \/ Refused("send")) /\ UNCHANGED <<si, mpc>>
    BY <1>u, <2>1, <2>5 DEF WriteFails, Refused
  <2>6. CASE SendStarts BY <1>u, <2>1, <2>6 DEF SendStarts
  <2>7. CASE SendExamines BY <1>u, <2>1, <2>7
     DEF SendExamines, WolfSendExamines, SendTry, SendsNext
  <2> QED BY <1>4, <2>2, <2>3, <2>4, <2>5, <2>6, <2>7 DEF Sender, SendEnds, Killed, Ends
<1>5. CASE ReadCalls /\ ReadSucceeds /\ got' = Append(got, Head(toC))
  <2>1. Threaded /\ UNCHANGED <<mpc, spc, si, toS, conn>>
    BY <1>5, <1>t DEF ReadCalls, ReadSucceeds, Stages
  <2>2. toC # <<>> /\ Head(toC) # 0 /\ toC' = Tail(toC)
    BY <1>5, <1>t, FirstRecord DEF ReadSucceeds
  <2> DEFINE m == Head(toC)
  <2>3. /\ m \in Int /\ Tail(toC) \in Seq(Int)
        /\ Rising(Tail(toC)) /\ Relayed(Tail(toC)) /\ Relayed(<<m>>)
        /\ Before(<<m>>, Tail(toC)) /\ Before(<<m>>, toS) /\ Before(Tail(toC), toS)
        /\ Before(got, Tail(toC))
    BY <1>m, <1>s, <2>1, <2>2, TakesFirst
  <2>4. Relayed(Append(got, m)) /\ Before(Append(got, m), Tail(toC)) /\ Before(Append(got, m), toS)
    BY <1>m, <1>s, <2>1, <2>3, AddsLast
  <2> HIDE DEF m
  <2> QED BY <1>5, <1>m, <2>1, <2>2, <2>3, <2>4 DEF MessagesUnderWay, Relayed, Rising, Before, m
<1>6. CASE Reader /\ UNCHANGED <<got, toC>>
  <2>1. Threaded /\ UNCHANGED <<mpc, spc, si, toS>>
    BY <1>6, <1>t DEF Reader, ReadCalls, ReadExamines, ReadWaits, ReadSucceeds, ReadFails, Stages
  <2> QED BY <1>6, <1>m, <2>1 DEF MessagesUnderWay, Relayed, Rising, Before
<1>7. CASE ServerEchoes
  <2>1. UNCHANGED <<mpc, spc, si, got>> /\ toS # <<>> /\ toS' = Tail(toS)
        /\ toC' = Append(toC, Head(toS))
    BY <1>7 DEF ServerEchoes
  <2>t. CASE Threaded
    <3> DEFINE m == Head(toS)
    <3>1. /\ m \in Int /\ Tail(toS) \in Seq(Int)
          /\ Rising(Tail(toS)) /\ Relayed(Tail(toS)) /\ Relayed(<<m>>)
          /\ Before(<<m>>, Tail(toS)) /\ Before(got, Tail(toS)) /\ Before(toC, Tail(toS))
          /\ Before(toC, <<m>>) /\ Before(got, <<m>>)
          /\ (spc # "done" => \A k \in 1 .. Len(Tail(toS)) : Tail(toS)[k] # 0)
      BY <1>m, <1>s, <2>1, <2>t, TakesFirst
    <3>2. /\ Rising(Append(toC, m)) /\ Relayed(Append(toC, m))
          /\ Before(got, Append(toC, m)) /\ Before(Append(toC, m), Tail(toS))
      BY <1>m, <1>s, <2>t, <3>1, AddsLast
    <3> HIDE DEF m
    <3> QED BY <1>m, <2>1, <2>t, <3>1, <3>2 DEF MessagesUnderWay, Relayed, Rising, Before, m
  <2> QED BY <2>1, <2>t DEF MessagesUnderWay, Threaded
<1>8. CASE conn = "open" /\ (Closes \/ ServerDies)
  <2>1. UNCHANGED <<mpc, spc, si, got>> /\ toS' = <<>> /\ (toC' = toC \/ toC' = Append(toC, 0))
    BY <1>8 DEF Closes, ServerDies
  <2>t. CASE Threaded
    <3>2. CASE toC' = Append(toC, 0)
      <4>1. /\ Rising(Append(toC, 0)) /\ Relayed(Append(toC, 0)) /\ Before(got, Append(toC, 0))
        BY <1>m, <1>s, <2>t, AddsLast, OfNothing
      <4> QED BY <1>m, <2>1, <2>t, <3>2, <4>1 DEF MessagesUnderWay, Relayed, Rising, Before
    <3>3. CASE toC' = toC
      BY <1>m, <2>1, <2>t, <3>3 DEF MessagesUnderWay, Relayed, Rising, Before
    <3> QED BY <2>1, <3>2, <3>3
  <2> QED BY <2>1, <2>t DEF MessagesUnderWay, Threaded
<1>9. CASE ServerAccepts \/ Arrives
  BY <1>9, <1>m DEF ServerAccepts, Arrives, MessagesUnderWay, Relayed, Rising, Before, Threaded
<1> QED BY <1>1, <1>2, <1>3, <1>4, <1>5, <1>6, <1>7, <1>8, <1>9
   DEF Actions, NetSteps, ServerEnds, ServerGivesUp, Reader, ReadCalls, ReadFails,
       ReadExamines, ReadWaits, ServerDies

(* The reading thread receives what is behind all it has received.         *)
LEMMA ReceivedStep == ASSUME IInv, Actions, UNCHANGED pair PROVE Received'
<1>t. TypeOK /\ Stages /\ MessagesUnderWay /\ Received BY DEF IInv
<1>1. CASE ReadCalls /\ ReadSucceeds /\ got' = Append(got, Head(toC))
  <2>1. Threaded BY <1>1, <1>t DEF ReadCalls, Stages
  <2>2. toC # <<>> /\ Head(toC) # 0 BY <1>1, <1>t, FirstRecord DEF ReadSucceeds
  <2> DEFINE m == Head(toC)
  <2>3. got \in Seq(Int) /\ m \in Int /\ Before(got, <<m>>)
    BY <1>t, <2>1, <2>2, Sequences, TakesFirst DEF MessagesUnderWay
  <2>4. \A j \in 1 .. Len(got) : got[j] < m BY <2>2, <2>3 DEF Before
  <2> HIDE DEF m
  <2>5. got' = Append(got, m) BY <1>1 DEF m
  <2>6. Received BY <1>t
  <2>7. /\ Len(got') = Len(got) + 1 /\ Len(got) \in Nat /\ got'[Len(got) + 1] = m
        /\ \A k \in 1 .. Len(got) : got'[k] = got[k]
    BY <2>3, <2>5
  <2> QED BY <2>4, <2>6, <2>7 DEF Received
<1>2. CASE UNCHANGED got BY <1>t, <1>2 DEF Received
<1> QED BY <1>1, <1>2 DEF Actions, Main, SocketFails, Connects, TypesLine, TypesNothing,
                          Leaves, WriteLine, ReadReply, Examine, Joins, ShutDown, Sender,
                          SendStarts, SendEnds, SendExamines, Reader, ReadCalls,
                          ReadExamines, ReadWaits, NetSteps, ServerAccepts, ServerEchoes,
                          ServerEnds, ServerGivesUp, ServerDies, Arrives, Closes, readVars

(* A try takes in at least one part more, as long as nobody looks at the   *)
(* other thread's result.                                                  *)
LEMMA TriesStep == ASSUME IInv, Actions, UNCHANGED pair PROVE Tries'
<1> USE DEF pair, netVars, mainVars, sendVars, readVars
<1>t. TypeOK /\ Notices /\ Stages /\ Tries BY DEF IInv
<1>a. /\ arrived \in Nat /\ seen \in Nat /\ seen <= arrived /\ seen < Pieces
      /\ rtry \in Nat /\ ri \in Nat /\ Len(got) \in Nat /\ Len(got) <= ri
      /\ Pieces \in Nat /\ MaxTries \in Nat /\ Pieces < MaxTries
      /\ err \in [{"main", "send", "read"} -> {"none", "retry", "zero", "hard"}]
  <2>1. Pieces * Len(toC) \in Nat BY <1>t, PartsOfMore, SizeAssumption DEF TypeOK
  <2> QED BY <1>t, <2>1, SizeAssumption, TriesAssumption DEF TypeOK
<1>b. raced \in BOOLEAN BY <1>t DEF TypeOK
<1>s. rpc = "none" => ri = 0 /\ rtry = 0 BY <1>t DEF Stages
<1> SUFFICES ASSUME ~raced', conn' = "open"
             PROVE  /\ Len(got') = ri'
                    /\ rpc' = "call" => rtry' <= arrived'
                    /\ rpc' = "examine" => err'["read"] = "retry"
                    /\ rpc' \in {"examine", "wait"} /\ ~client'.stale => rtry' <= seen'
                    /\ client'.stale => rtry' = 0
                    /\ rpc' # "skip"
  BY DEF Tries
<1>1. CASE Main
  <2>0. ~Over
    BY <1>1, <1>t DEF Main, SocketFails, Connects, TypesLine, TypesNothing, Leaves, WriteLine,
       ReadReply, Examine, Joins, ShutDown, Over, Ended
  <2>1. CASE WriteLine \/ ReadReply
    <3>1. rpc = "none" BY <1>t, <2>0, <2>1 DEF WriteLine, ReadReply, Stages, Threaded
    <3>2. UNCHANGED <<rpc, ri, rtry, got, client>> BY <2>1 DEF WriteLine, ReadReply
    <3> QED BY <1>a, <1>s, <3>1, <3>2
  <2>2. CASE TypesNothing
    <3>1. rpc = "none" BY <1>t, <2>0, <2>2 DEF TypesNothing, Stages, Threaded
    <3> QED BY <1>a, <1>s, <2>2, <3>1 DEF TypesNothing
  <2>3. CASE UNCHANGED <<conn, raced, rpc, ri, rtry, got, client, arrived, seen, err>>
    BY <1>t, <2>3 DEF Tries
  <2> QED BY <1>1, <2>1, <2>2, <2>3 DEF Main, SocketFails, Connects, TypesLine, Leaves,
      Examine, Joins, ShutDown
<1>4. CASE Sender
  <2>1. raced => raced' BY <1>4, <1>b DEF Sender, SendStarts, SendEnds, SendExamines
  <2>2. err'["read"] = err["read"]
    BY <1>4, <1>a DEF Sender, SendStarts, SendEnds, SendExamines, WriteSucceeds,
                      WriteFails, Refused
  <2>3. UNCHANGED <<rpc, ri, rtry, got, client, arrived, seen, conn>>
    BY <1>4 DEF Sender, SendStarts, SendEnds, SendExamines, WriteSucceeds, WriteFails, Refused
  <2> QED BY <1>t, <2>1, <2>2, <2>3 DEF Tries
<1>5. CASE Reader
  <2>a. raced => raced' BY <1>5, <1>b DEF Reader, ReadCalls, ReadExamines, ReadWaits
  <2>b. UNCHANGED <<mpc, client, conn>>
    BY <1>5 DEF Reader, ReadCalls, ReadExamines, ReadWaits, ReadSucceeds, ReadFails
  <2>1. UNCHANGED <<mpc, client, conn>> /\ ~raced BY <2>a, <2>b
  <2>2. /\ Len(got) = ri
        /\ rpc = "call" => rtry <= arrived
        /\ rpc = "examine" => err["read"] = "retry"
        /\ rpc \in {"examine", "wait"} /\ ~client.stale => rtry <= seen
        /\ client.stale => rtry = 0
        /\ rpc # "skip"
    BY <1>t, <2>1 DEF Tries
  <2>3. CASE ReadCalls
    <3>1. CASE ReadSucceeds /\ got' = Append(got, Head(toC)) /\ ReadsNext
      <4>1. Len(got') = Len(got) + 1 BY <1>t, <3>1 DEF TypeOK
      <4>2. ri' = ri + 1 /\ rtry' = 0 /\ rpc' \in {"call", "done"} BY <3>1 DEF ReadsNext
      <4>3. arrived' >= 0 BY <1>a, <3>1 DEF ReadSucceeds, Whole
      <4> QED BY <2>2, <4>1, <4>2, <4>3
    <3>2. CASE ReadFails("read") /\ rpc' = "examine" /\ UNCHANGED <<ri, rtry, got>>
      <4>1. err'["read"] = "retry" /\ seen' = arrived BY <1>t, <2>1, <3>2, ReadFailure
      <4> QED BY <2>1, <2>2, <2>3, <3>2, <4>1 DEF ReadCalls
    <3> QED BY <2>3, <3>1, <3>2 DEF ReadCalls
  <2>4. CASE ReadExamines
    <3>1. err["read"] = "retry" /\ want = "read" BY <2>2, <2>4 DEF ReadExamines, Overtaken
    <3>2. rpc' = "wait" /\ UNCHANGED <<ri, rtry, got, seen, err>>
      BY <2>4, <3>1 DEF ReadExamines, WolfReadExamines, WolfVerdicts, Overtaken, Verdicts
    <3> QED BY <2>1, <2>2, <2>4, <3>2 DEF ReadExamines
  <2>5. CASE ReadWaits
    <3>1. ~Eof BY <2>1 DEF Eof
    <3>2. arrived > seen /\ rpc = "wait" /\ UNCHANGED <<arrived, seen, got>>
      BY <2>2, <2>5, <3>1 DEF ReadWaits, Activity
    <3>3. CASE ~client.stale /\ ReadTry
      <4>1. rtry + 1 <= arrived /\ rtry + 1 < MaxTries BY <1>a, <2>2, <3>2, <3>3
      <4>2. rtry' = rtry + 1 /\ rpc' = "call" /\ ri' = ri BY <3>3, <4>1 DEF ReadTry
      <4> QED BY <2>1, <2>2, <3>2, <3>3, <4>1, <4>2
    <3>4. CASE client.stale /\ rpc' = "call" /\ UNCHANGED <<ri, rtry>>
      BY <1>a, <2>1, <2>2, <3>2, <3>4
    <3> QED BY <2>5, <3>2, <3>3, <3>4 DEF ReadWaits
  <2> QED BY <1>5, <2>3, <2>4, <2>5 DEF Reader
<1>6. CASE NetSteps
  <2>1. /\ UNCHANGED <<mpc, rpc, ri, rtry, got, client, seen, err, raced>>
        /\ arrived' \in {arrived, arrived + 1}
        /\ conn' = conn \/ conn = "open" \/ mpc = "socket"
    BY <1>6 DEF NetSteps, ServerAccepts, ServerEchoes, ServerEnds, ServerGivesUp, ServerDies,
                 Arrives, Closes
  <2>2. CASE mpc = "socket"
    <3>1. rpc = "none" BY <1>t, <2>2 DEF Stages, Threaded, Over, Ended
    <3> QED BY <1>a, <1>s, <2>1, <3>1
  <2> QED BY <1>a, <1>t, <2>1, <2>2 DEF Tries
<1> QED BY <1>1, <1>4, <1>5, <1>6 DEF Actions

-----------------------------------------------------------------------------
(* The invariant holds in the beginning.                                   *)
LEMMA Starts == ASSUME Init PROVE IInv
<1> USE SizeAssumption, TriesAssumption DEF Init
<1>1. TypeOK
  <2>1. <<client, server>> \in Pairs
    <3>1. PICK p \in Pairs : client = p[1] /\ server = p[2] OBVIOUS
    <3>2. p = <<p[1], p[2]>> BY DEF Pairs
    <3> QED BY <3>1, <3>2
  <2>2. Len(toC) = 0 /\ Pieces * 0 = 0 BY PartsOfNone
  <2>3. arrived \in 0 .. Pieces * Len(toC) BY <2>2
  <2>4. seen \in 0 .. arrived /\ seen < Pieces OBVIOUS
  <2>5. stry \in 0 .. MaxTries - 1 /\ rtry \in 0 .. MaxTries - 1 OBVIOUS
  <2>6. typed \in 0 .. NumLines /\ si \in 0 .. NumMsgs /\ ri \in 0 .. NumMsgs OBVIOUS
  <2>7. Len(got) <= ri OBVIOUS
  <2>8. toS \in Seq(Numbers) /\ toC \in Seq(Numbers) /\ answers \in Seq(0 .. NumLines)
        /\ got \in Seq(NumLines + 1 .. NumLines + NumMsgs)
    OBVIOUS
  <2>9. err \in [{"main", "send", "read"} -> {"none", "retry", "zero", "hard"}] OBVIOUS
  <2>10. /\ ret = "none" /\ mpc = "socket" /\ conn = "none" /\ want = "nothing"
         /\ spc = "none" /\ rpc = "none"
         /\ reset = FALSE /\ closed = FALSE /\ broken = FALSE /\ raced = FALSE
    OBVIOUS
  <2> HIDE DEF Init
  <2> QED BY <2>1, <2>3, <2>4, <2>5, <2>6, <2>7, <2>8, <2>9, <2>10 DEF TypeOK, Ended
<1>2. Stages /\ Notices /\ LineUnderWay /\ Exchange /\ MessagesUnderWay /\ Received /\ Tries
  BY DEF Stages, Notices, LineUnderWay, Exchange, MessagesUnderWay, Received, Tries, Over, Ended,
         Threaded
<1> QED BY <1>1, <1>2 DEF IInv

(* Every step keeps it.                                                    *)
LEMMA Step == IInv /\ [Next]_vars => IInv'
<1> SUFFICES ASSUME IInv, [Next]_vars PROVE IInv' OBVIOUS
<1>1. CASE Actions /\ UNCHANGED pair
  <2>1. TypeOK' BY <1>1, MainType, ThreadsType, NetType DEF Actions
  <2> QED BY <1>1, <2>1, StagesStep, NoticesStep, LineStep, ExchangeStep, MessagesStep, ReceivedStep,
             TriesStep DEF IInv
<1>2. CASE UNCHANGED vars
  BY <1>2 DEF IInv, vars, pair, mainVars, netVars, sendVars, readVars, TypeOK, Stages,
              Notices, LineUnderWay, Exchange, MessagesUnderWay, Received, Tries, Relayed,
              Rising, Before, Threaded, Over
<1> QED BY <1>1, <1>2 DEF Next, Finished, Actions, NetSteps, Server

(* It holds in every state.                                                *)
LEMMA Invariance == Spec => []IInv
BY Starts, Step, PTL DEF Spec

(* Every variable keeps its type; what has arrived is no more than what is *)
(* under way, and no loop runs beyond its bound                            *)
(* (openssl_tls_non_blocking_client.cpp, l.120-186).                       *)
THEOREM TypeCorrect == Spec => []TypeOK
<1>1. IInv => TypeOK BY DEF IInv
<1> QED BY <1>1, Invariance, PTL

(* main prints for each line its own echo, and nothing only after the      *)
(* connection was lost (l.254-292); the reading thread receives the        *)
(* messages in order and none twice (l.147-186), however the two threads'  *)
(* calls interleave.                                                       *)
THEOREM AnswersAndEchoes == Spec => []EchoesInOrder
<1>1. IInv => EchoesInOrder BY DEF IInv, Exchange, Received, EchoesInOrder
<1> QED BY <1>1, Invariance, PTL

(* As long as no thread has looked at the result of the other's call and   *)
(* the connection holds, no message is missed (l.154-185), for every       *)
(* number of parts a record comes in that is below the number of tries.    *)
THEOREM NoneMissed == Spec => []AllReceived
<1>1. IInv => AllReceived BY DEF IInv, Stages, Tries, AllReceived
<1> QED BY <1>1, Invariance, PTL
=============================================================================
