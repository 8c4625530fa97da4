----------------------------- MODULE AmqpProofs -----------------------------
(***************************************************************************)
(* Proofs about Amqp, for any set of programs that the users start, any    *)
(* number of terminals and runs, and any number of messages.               *)
(*                                                                         *)
(* The argument: the messages of one run are typed in one process and pass *)
(* through its stream, the queue and the streams of the readers, so that   *)
(* those of a run that are further on were typed earlier (ByRun).  From    *)
(* this follow the order of what is printed, and that a message which has  *)
(* been printed is nowhere else (Unread).  A publisher that was given a    *)
(* queue types only when the queue is bound (Declared); so a message of    *)
(* such a publisher is in its stream or out of danger (Routed).            *)
(***************************************************************************)
EXTENDS Amqp, SequenceTheorems, TLAPS

(* Two messages of one run are in the order in which they were typed.      *)
Prior(a, m, n) == a[m].run = a[n].run => m < n
Sorted(a, s) == \A i, j \in 1 .. Len(s) : i < j => Prior(a, s[i], s[j])
Ahead(a, s, t) == \A i \in 1 .. Len(s), j \in 1 .. Len(t) : Prior(a, s[i], t[j])

-----------------------------------------------------------------------------
(* The inductive invariant                                                 *)

Process == [at : Labels, prog : Programs, named : BOOLEAN, run : 1..MaxRuns,
            left : Nat, contended : BOOLEAN, shown : Seq(Typed)]

Record == [run : 1..MaxRuns, named : BOOLEAN, persistent : BOOLEAN, stored : BOOLEAN]

(* The types, of the history too; a program that has ended leaves nothing. *)
StateOK ==
    /\ exchange \in {"none", "auto", "transient", "durable"}
    /\ queue \in {"none", "transient", "durable"}
    /\ bound \in BOOLEAN /\ restarted \in BOOLEAN
    /\ proc \in [Slots -> Process \cup {Gone}]
    /\ author \in Seq(Record)
    /\ messages \in Seq(Typed)
    /\ out \in [Slots -> Seq(Typed)] /\ in \in [Slots -> Seq(Typed)]
    /\ runs \in 0..MaxRuns
    /\ read \subseteq Typed /\ killed \subseteq Typed /\ kept \subseteq Typed

(* Messages are on their way only to a program that reads.                 *)
Receiving == \A s \in Slots : in[s] # <<>> =>
    proc[s].at \in {"getting", "consuming", "draining"}

(* Every program that runs is a run of its own, and the messages of its    *)
(* run are in no other terminal's stream.                                  *)
RunsApart ==
    /\ \A m \in Typed : author[m].run <= runs
    /\ \A s \in Running : proc[s].run <= runs
    /\ \A s, t \in Running : s # t => proc[s].run # proc[t].run
    /\ \A s \in Running, t \in Slots : s # t =>
         \A k \in 1 .. Len(out[t]) : author[out[t][k]].run # proc[s].run

(* Printed, on the way to a reader, in the queue, on the way to the queue. *)
ByRun ==
    /\ Sorted(author, messages)
    /\ \A s \in Slots :
         /\ Sorted(author, out[s]) /\ Sorted(author, in[s])
         /\ Ahead(author, in[s], messages) /\ Ahead(author, messages, out[s])
         /\ \A t \in Slots : Ahead(author, in[s], out[t])
         /\ \A t \in Slots : s # t => Ahead(author, out[s], out[t])
    /\ \A s \in Running :
         /\ Sorted(author, proc[s].shown) /\ Ahead(author, proc[s].shown, in[s])
         /\ Ahead(author, proc[s].shown, messages)
         /\ \A t \in Slots : Ahead(author, proc[s].shown, out[t])

(* What is under way has not been printed and is not on its way to two     *)
(* readers.                                                                *)
Unread ==
    /\ \A k \in 1 .. Len(messages) : messages[k] \notin read
    /\ \A s \in Slots :
         /\ \A k \in 1 .. Len(out[s]) : out[s][k] \notin read
         /\ \A k \in 1 .. Len(in[s]) : in[s][k] \notin read
         /\ \A t \in Slots : s # t =>
              \A i \in 1 .. Len(in[s]), j \in 1 .. Len(in[t]) : in[s][i] # in[t][j]

(* Before the broker restarts, who types into a queue of its own has bound *)
(* it, and it is as its program declares it.                               *)
Declared == ~restarted =>
    \A s \in Running :
       /\ proc[s].at \notin {"deaf", "spinning"}
       /\ proc[s].at = "bind" /\ Prog(s).queue # "none" => queue = Prog(s).queue
       /\ proc[s].at = "typing" /\ proc[s].named =>
             bound /\ (Prog(s).queue # "none" => queue = Prog(s).queue)

(* The broker cannot drop it any more, or it went down with a process.     *)
Safe(m) == m \in ToSet(messages) \cup read \cup killed \/ \E s \in Slots : m \in ToSet(in[s])

Routed ==
    /\ ~restarted => \A m \in Typed :
         /\ author[m].named => bound /\ (Safe(m) \/ \E s \in Slots : m \in ToSet(out[s]))
         /\ author[m].stored => queue = "durable" /\ author[m].persistent
    /\ ~restarted => kept = {}
    /\ \A m \in kept : author[m].stored => Safe(m)

IInv == StateOK /\ Receiving /\ RunsApart /\ ByRun /\ Unread /\ Declared /\ Routed

-----------------------------------------------------------------------------
(* The programs                                                            *)

(* What all rows of AmqpPrograms have in common.                           *)
Traits(p) ==
    /\ p.role \in {"publish", "get", "consume", "check"}
    /\ p.library \in {"c", "cpp", "async"}
    /\ p.exchange \in {"none", "auto", "transient", "durable"}
    /\ p.queue \in {"none", "transient", "durable"}
    /\ p.binds \in BOOLEAN /\ p.optional \in BOOLEAN /\ p.persistent \in BOOLEAN
    /\ p.role = "publish" => p.binds
    /\ p.role = "publish" /\ p.exchange = "none" => ~p.optional
    /\ p.role # "publish" => p.exchange = "none" /\ ~p.optional /\ p.queue # "none"

LEMMA PublisherTraits ==
    ASSUME NEW l \in {"c", "cpp", "async"}, NEW e \in {"none", "auto", "transient", "durable"},
           NEW q \in {"none", "transient", "durable"}, NEW o \in BOOLEAN, NEW r \in BOOLEAN,
           e = "none" => ~o
    PROVE  Traits(Publisher(l, e, q, o, r))
BY DEF Traits, Publisher

LEMMA ReaderTraits ==
    ASSUME NEW k \in {"get", "consume", "check"}, NEW l \in {"c", "cpp", "async"},
           NEW q \in {"transient", "durable"}, NEW b \in BOOLEAN
    PROVE  Traits(Reader(k, l, q, b))
BY DEF Traits, Reader

LEMMA ProgramTraits == ASSUME NEW p \in Programs PROVE Traits(p)
<1>1. /\ Traits(Publish109) /\ Traits(DirectPublish110) /\ Traits(FanoutPublish110)
      /\ Traits(TopicPublish110) /\ Traits(HeadersPublish113) /\ Traits(Publish111)
      /\ Traits(Publish114) /\ Traits(Publish166) /\ Traits(Publish167)
      /\ Traits(DirectPublish168) /\ Traits(DirectPublish169) /\ Traits(Publish170)
      /\ Traits(Publish173)
  BY PublisherTraits DEF Publish109, DirectPublish110, FanoutPublish110, TopicPublish110,
     HeadersPublish113, Publish111, Publish114, Publish166, Publish167,
     DirectPublish168, DirectPublish169, Publish170, Publish173
<1>2. /\ Traits(Get109) /\ Traits(ReadQueue110) /\ Traits(ReadQueue113) /\ Traits(Get111)
      /\ Traits(Get114) /\ Traits(Get166) /\ Traits(Get167) /\ Traits(Get168) /\ Traits(Get169)
      /\ Traits(Get172) /\ Traits(Get173) /\ Traits(Consume109) /\ Traits(Consume111)
      /\ Traits(Consume114) /\ Traits(Consume171) /\ Traits(Consume173) /\ Traits(Check166)
      /\ Traits(Check167) /\ Traits(Check171) /\ Traits(Check173)
  BY ReaderTraits DEF Get109, ReadQueue110, ReadQueue113, Get111, Get114, Get166, Get167,
     Get168, Get169, Get172, Get173, Consume109, Consume111, Consume114, Consume171, Consume173,
     Check166, Check167, Check171, Check173
<1> QED BY <1>1, <1>2 DEF Programs

-----------------------------------------------------------------------------
(* The processes                                                           *)

LEMMA RunningSlots ==
    ASSUME StateOK, NEW s \in Slots
    PROVE  /\ s \in Running <=> proc[s] \in Process
           /\ s \notin Running <=> proc[s] = Gone
           /\ Gone.at = "ended" /\ "ended" \notin Labels /\ Gone \notin Process
           /\ s \in Running <=> proc[s].at # "ended"
           /\ s \in Running => Traits(Prog(s)) /\ proc[s].named \in BOOLEAN
BY ProgramTraits DEF StateOK, Running, Process, Gone, Labels, Prog

(* A process that goes on keeps all but its label.                         *)
LEMMA Going ==
    ASSUME StateOK, NEW s \in Running, NEW l \in Labels \cup {"ended"}
    PROVE  /\ Goes(s, l) \in Process \cup {Gone}
           /\ l = "ended" => Goes(s, l) = Gone
           /\ l # "ended" => /\ Goes(s, l) \in Process /\ Goes(s, l).at = l
                             /\ Goes(s, l).prog = proc[s].prog /\ Goes(s, l).named = proc[s].named
                             /\ Goes(s, l).run = proc[s].run /\ Goes(s, l).shown = proc[s].shown
<1>1. s \in Slots /\ proc[s] \in Process BY RunningSlots DEF Running
<1>2. CASE l = "ended" BY <1>2 DEF Goes
<1>3. CASE l # "ended"
  <2>1. Goes(s, l) = [proc[s] EXCEPT !.at = l] /\ l \in Labels BY <1>3 DEF Goes
  <2> QED BY <1>1, <1>3, <2>1 DEF Process
<1> QED BY <1>2, <1>3

(* A process goes on as it was but for its label and what it counts.       *)
Quiet(t) ==
    \/ proc'[t] = Gone
    \/ /\ proc[t] \in Process /\ proc'[t] \in Process
       /\ proc'[t].prog = proc[t].prog /\ proc'[t].named = proc[t].named
       /\ proc'[t].run = proc[t].run /\ proc'[t].shown = proc[t].shown

LEMMA OneMoves ==
    ASSUME StateOK, NEW s \in Slots, NEW x, proc' = [proc EXCEPT ![s] = x]
    PROVE  /\ proc'[s] = x /\ DOMAIN proc' = Slots
           /\ \A t \in Slots : t # s => proc'[t] = proc[t] /\ Quiet(t)
BY DEF StateOK, Quiet

Steady == proc' \in [Slots -> Process \cup {Gone}] /\ \A t \in Slots : Quiet(t)

(* What a step makes of a process that goes on by itself.                  *)
LEMMA Moved ==
    ASSUME StateOK, NEW s \in Running, NEW x \in Process \cup {Gone},
           proc' = [proc EXCEPT ![s] = x],
           x # Gone => x.prog = proc[s].prog /\ x.named = proc[s].named
                       /\ x.run = proc[s].run /\ x.shown = proc[s].shown
    PROVE  Steady
<1>1. s \in Slots /\ proc[s] \in Process BY RunningSlots DEF Running
<1>2. Quiet(s) BY <1>1, OneMoves DEF Quiet
<1>3. \A t \in Slots : Quiet(t) BY <1>1, <1>2, OneMoves
<1>4. proc' \in [Slots -> Process \cup {Gone}] BY DEF StateOK
<1> QED BY <1>3, <1>4 DEF Steady

(* Goto, in a process that runs.                                           *)
LEMMA GoesOn ==
    ASSUME StateOK, NEW s \in Running, NEW l \in Labels \cup {"ended"}, Goto(s, l)
    PROVE  /\ Steady
           /\ proc'[s] = IF l = "ended" THEN Gone ELSE [proc[s] EXCEPT !.at = l]
           /\ l # "ended" => proc'[s].at = l
           /\ \A t \in Slots : t # s => proc'[t] = proc[t]
<1>1. s \in Slots BY DEF Running
<1>2. Goes(s, l) \in Process \cup {Gone} BY Going
<1>3. l = "ended" => Goes(s, l) = Gone BY Going
<1>4. Goes(s, l) # Gone => /\ Goes(s, l).prog = proc[s].prog /\ Goes(s, l).named = proc[s].named
                           /\ Goes(s, l).run = proc[s].run /\ Goes(s, l).shown = proc[s].shown
  BY Going
<1>5. Steady BY <1>2, <1>4, Moved DEF Goto
<1>6. proc'[s] = Goes(s, l) /\ \A t \in Slots : t # s => proc'[t] = proc[t]
  BY <1>1, OneMoves DEF Goto
<1>7. l # "ended" => Goes(s, l).at = l BY Going
<1> QED BY <1>5, <1>6, <1>7 DEF Goes

-----------------------------------------------------------------------------
(* Each call of a program                                                  *)

(* A publisher with a queue goes on to declare it, one without to typing.  *)
LEMMA DeclaringExchange ==
    ASSUME StateOK, NEW s \in Slots, DeclareExchange(s)
    PROVE  /\ s \in Running /\ Steady /\ \A t \in Slots : t # s => proc'[t] = proc[t]
           /\ \/ proc'[s] = Gone
              \/ proc'[s].at = "queue"
              \/ proc'[s].at = "typing" /\ ~proc[s].named
           /\ exchange' \in {"none", "auto", "transient", "durable"}
<1>1. s \in Running /\ Traits(Prog(s)) BY RunningSlots DEF DeclareExchange
<1>2. {"queue", "typing"} \subseteq Labels BY DEF Labels
<1>3. CASE Agrees(exchange, Prog(s).exchange)
  <2>1. Goto(s, IF proc[s].named THEN "queue" ELSE "typing") /\ exchange' = Prog(s).exchange
    BY <1>3 DEF DeclareExchange
  <2>2. CASE proc[s].named BY <1>1, <1>2, <2>1, <2>2, GoesOn DEF Traits
  <2>3. CASE ~proc[s].named BY <1>1, <1>2, <2>1, <2>3, GoesOn DEF Traits
  <2> QED BY <2>2, <2>3
<1>4. CASE ~Agrees(exchange, Prog(s).exchange)
  <2>1. Goto(s, "ended") /\ UNCHANGED exchange BY <1>4 DEF DeclareExchange
  <2> QED BY <1>1, <2>1, GoesOn DEF StateOK
<1> QED BY <1>3, <1>4

(* Who goes on to bind has the queue that it declared.                     *)
LEMMA DeclaringQueue ==
    ASSUME StateOK, NEW s \in Slots, DeclareQueue(s)
    PROVE  /\ s \in Running /\ Steady /\ \A t \in Slots : t # s => proc'[t] = proc[t]
           /\ \/ proc'[s] = Gone
              \/ proc'[s].at \in {"stuck", "getting", "consuming", "draining"}
              \/ proc'[s].at = "bind" /\ queue' = Prog(s).queue
           /\ queue' \in {"none", "transient", "durable"} /\ (queue # "none" => queue' = queue)
<1>1. s \in Running /\ s \in Slots /\ Traits(Prog(s)) /\ proc[s] \in Process
  BY RunningSlots DEF DeclareQueue
<1>3. CASE Agrees(queue, Prog(s).queue)
  <2> DEFINE next == AfterQueue(Prog(s), Len(messages))
             x == IF next = "ended" THEN Gone
                  ELSE [proc[s] EXCEPT !.at = next, !.left = Len(messages)]
  <2>1. queue' = Prog(s).queue /\ proc' = [proc EXCEPT ![s] = x]
    BY <1>1, <1>3 DEF DeclareQueue, StateOK
  <2>2. next \in {"bind", "getting", "ended", "consuming", "draining"}
    BY <1>1 DEF AfterQueue, Traits
  <2>3. Len(messages) \in Nat BY DEF StateOK
  <2> HIDE DEF next
  <2>4. x = Gone \/ (x \in Process /\ x.at = next /\ x.prog = proc[s].prog
           /\ x.named = proc[s].named /\ x.run = proc[s].run /\ x.shown = proc[s].shown)
    BY <1>1, <2>2, <2>3 DEF Process, Labels
  <2>5. x = Gone \/ next # "ended" OBVIOUS
  <2> HIDE DEF x
  <2>6. Steady BY <1>1, <2>1, <2>4, Moved
  <2>7. proc'[s] = x /\ \A t \in Slots : t # s => proc'[t] = proc[t] BY <2>1, OneMoves
  <2>8. queue' \in {"none", "transient", "durable"} /\ (queue # "none" => queue' = queue)
    BY <1>1, <1>3, <2>1 DEF Agrees, Traits
  <2> QED BY <1>1, <2>1, <2>2, <2>4, <2>5, <2>6, <2>7, <2>8
<1>4. CASE ~Agrees(queue, Prog(s).queue)
  <2>1. Goto(s, AfterConflict(Prog(s))) /\ UNCHANGED queue BY <1>4 DEF DeclareQueue
  <2>2. AfterConflict(Prog(s)) \in {"stuck", "ended"} /\ "stuck" \in Labels
    BY DEF AfterConflict, Labels
  <2> QED BY <1>1, <2>1, <2>2, GoesOn DEF StateOK
<1> QED BY <1>3, <1>4

(* Who types after the bind has bound the queue; it is never unbound.      *)
LEMMA Binding ==
    ASSUME StateOK, NEW s \in Slots, Bind(s)
    PROVE  /\ s \in Running /\ Steady /\ \A t \in Slots : t # s => proc'[t] = proc[t]
           /\ \/ proc'[s] = Gone
              \/ proc'[s].at \in {"stuck", "consuming"}
              \/ proc'[s].at = "typing" /\ bound'
           /\ bound' \in BOOLEAN /\ (bound => bound')
<1>1. s \in Running /\ Traits(Prog(s)) BY RunningSlots DEF Bind
<1>2. {"stuck", "consuming", "typing"} \subseteq Labels BY DEF Labels
<1>3. CASE exchange # "none" /\ queue # "none"
  <2>1. bound' = TRUE /\ Goto(s, AfterBind(Prog(s))) BY <1>3 DEF Bind
  <2>2. AfterBind(Prog(s)) \in {"typing", "consuming"} BY DEF AfterBind
  <2> QED BY <1>1, <1>2, <2>1, <2>2, GoesOn
<1>4. CASE ~(exchange # "none" /\ queue # "none")
  <2>1. UNCHANGED bound /\ Goto(s, IF Prog(s).library = "async" THEN "stuck" ELSE "ended")
    BY <1>4 DEF Bind
  <2>2. CASE Prog(s).library = "async" BY <1>1, <1>2, <2>1, <2>2, GoesOn DEF StateOK
  <2>3. CASE Prog(s).library # "async" BY <1>1, <1>2, <2>1, <2>3, GoesOn DEF StateOK
  <2> QED BY <2>2, <2>3
<1> QED BY <1>3, <1>4

LEMMA Ending ==
    ASSUME StateOK, NEW s \in Slots, End(s) \/ Closed(s) \/ GetEnds(s) \/ Drained(s)
    PROVE  /\ s \in Running /\ Steady /\ \A t \in Slots : t # s => proc'[t] = proc[t]
           /\ \/ proc'[s] = Gone /\ proc[s].at # "typing" /\ proc[s].at # "deaf"
              \/ proc'[s].at = "closing" /\ proc[s].at \in {"typing", "deaf"}
<1>1. s \in Running BY RunningSlots DEF End, Closed, GetEnds, Drained
<1>2. "closing" \in Labels BY DEF Labels
<1>3. CASE End(s)
  <2>1. Goto(s, "closing") /\ proc[s].at \in {"typing", "deaf"} BY <1>3 DEF End
  <2>2. Goto(s, "closing") BY <2>1
  <2>3. "closing" \in Labels \cup {"ended"} /\ "closing" # "ended" BY <1>2
  <2>4. Steady /\ proc'[s].at = "closing" /\ \A t \in Slots : t # s => proc'[t] = proc[t]
    BY ONLY StateOK, <1>1, <2>2, <2>3, GoesOn
  <2> QED BY <1>1, <2>1, <2>4
<1>4. CASE Closed(s) \/ GetEnds(s) \/ Drained(s)
  <2>1. Goto(s, "ended") /\ proc[s].at \in {"closing", "getting", "draining"}
    BY <1>4 DEF Closed, GetEnds, Drained
  <2> QED BY <1>1, <2>1, GoesOn
<1> QED BY <1>3, <1>4

(* A getter that asked counts down.                                        *)
LEMMA Counting ==
    ASSUME StateOK, NEW s \in Running
    PROVE  /\ OneLess(s) \in Process /\ OneLess(s).at = proc[s].at
           /\ OneLess(s).prog = proc[s].prog /\ OneLess(s).named = proc[s].named
           /\ OneLess(s).run = proc[s].run /\ OneLess(s).shown = proc[s].shown
<1>1. s \in Slots /\ proc[s] \in Process BY RunningSlots DEF Running
<1>2. proc[s].left \in Nat BY <1>1 DEF Process
<1> DEFINE n == IF proc[s].left > 0 THEN proc[s].left - 1 ELSE 0
<1>3. n \in Nat BY <1>2
<1>4. OneLess(s) = [proc[s] EXCEPT !.left = n] BY <1>1 DEF OneLess, Process
<1> HIDE DEF n
<1> QED BY <1>1, <1>3, <1>4 DEF Process

(* Another program took a message: only that is noted.                     *)
LEMMA Contending ==
    ASSUME StateOK, NEW t \in Slots
    PROVE  \/ proc[t] = Gone /\ Contend(t) = Gone
           \/ /\ proc[t] \in Process /\ Contend(t) \in Process /\ Contend(t).at = proc[t].at
              /\ Contend(t).prog = proc[t].prog /\ Contend(t).named = proc[t].named
              /\ Contend(t).run = proc[t].run /\ Contend(t).shown = proc[t].shown
<1>1. CASE proc[t] = Gone BY <1>1 DEF Contend, Gone
<1>2. CASE proc[t] \in Process BY <1>2 DEF Contend, Process
<1> QED BY <1>1, <1>2 DEF StateOK

(* A message is handed to a program that reads; nobody moves.              *)
LEMMA Asking ==
    ASSUME StateOK, NEW s \in Slots, Get(s) \/ Deliver(s)
    PROVE  /\ s \in Running /\ Steady /\ Hand(s)
           /\ proc[s].at \in {"getting", "consuming", "draining"}
           /\ \A t \in Slots : proc'[t].at = proc[t].at
<1>1. s \in Running /\ Hand(s) /\ proc[s].at \in {"getting", "consuming", "draining"}
  BY RunningSlots DEF Get, Deliver
<1>2. proc[s] \in Process BY <1>1, RunningSlots
<1>3. ASSUME NEW t \in Slots
      PROVE  proc'[t].at = proc[t].at /\ Quiet(t) /\ proc'[t] \in Process \cup {Gone}
  <2>1. proc'[t] \in {OneLess(s), Contend(t), proc[t]} /\ (proc'[t] = OneLess(s) => t = s \/ proc'[t] = Contend(t))
    BY DEF Get, Deliver
  <2>2. CASE t = s /\ proc'[t] = OneLess(s) BY <1>1, <1>2, <2>2, Counting DEF Quiet
  <2>3. CASE proc'[t] = Contend(t) BY <2>3, Contending DEF Quiet
  <2>4. CASE proc'[t] = proc[t] BY <2>4 DEF Quiet, StateOK
  <2> QED BY <2>1, <2>2, <2>3, <2>4
<1>4. DOMAIN proc' = Slots /\ proc' = [t \in Slots |-> proc'[t]]
  <2>1. CASE Get(s) BY <2>1 DEF Get
  <2>2. CASE Deliver(s) BY <2>2 DEF Deliver
  <2> QED BY <2>1, <2>2
<1>5. Steady BY <1>3, <1>4 DEF Steady
<1> QED BY <1>1, <1>3, <1>5

LEMMA FindingNone ==
    ASSUME StateOK, NEW s \in Slots, GetEmpty(s)
    PROVE  /\ s \in Running /\ Steady /\ \A t \in Slots : t # s => proc'[t] = proc[t]
           /\ proc'[s] = Gone \/ proc'[s].at \in {"stuck", "getting"}
<1>1. s \in Running /\ Traits(Prog(s)) BY RunningSlots DEF GetEmpty
<1> DEFINE x == IF AfterEmpty(Prog(s)) = "ended" THEN Gone
                ELSE [OneLess(s) EXCEPT !.at = AfterEmpty(Prog(s))]
<1>2. AfterEmpty(Prog(s)) \in {"stuck", "ended", "getting"} BY <1>1 DEF AfterEmpty, Traits
<1>3. OneLess(s) \in Process BY <1>1, Counting
<1>4. x = Gone \/ (x \in Process /\ x.at \in {"stuck", "getting"} /\ x.prog = OneLess(s).prog
        /\ x.named = OneLess(s).named /\ x.run = OneLess(s).run /\ x.shown = OneLess(s).shown)
  BY <1>2, <1>3 DEF Process, Labels
<1>5. proc' = [proc EXCEPT ![s] = x] BY DEF GetEmpty
<1> HIDE DEF x
<1>6. Steady BY <1>1, <1>4, <1>5, Counting, Moved
<1>7. proc'[s] = x /\ \A t \in Slots : t # s => proc'[t] = proc[t] BY <1>5, OneMoves
<1> QED BY <1>1, <1>4, <1>6, <1>7

(* What a killed process held is lost with it, and counted.                *)
LEMMA Killing ==
    ASSUME StateOK, NEW s \in Slots, Kill(s)
    PROVE  /\ s \in Running /\ Steady /\ \A t \in Slots : t # s => proc'[t] = proc[t]
           /\ proc'[s] = Gone /\ in' = [in EXCEPT ![s] = <<>>]
           /\ killed \cup ToSet(in[s]) \subseteq killed'
           /\ killed' \subseteq killed \cup ToSet(in[s]) \cup ToSet(out[s])
           /\ \/ out' = out
              \/ out' = [out EXCEPT ![s] = <<>>] /\ ToSet(out[s]) \subseteq killed'
<1>1. s \in Running /\ Goto(s, "ended") /\ in' = [in EXCEPT ![s] = <<>>] BY DEF Kill
<1>2. PICK rest \in {out[s], <<>>} :
         /\ out' = [out EXCEPT ![s] = rest]
         /\ killed' = killed \cup ToSet(in[s]) \cup (ToSet(out[s]) \ ToSet(rest))
  BY DEF Kill
<1>3. CASE rest = out[s]
  <2>1. out' = out BY <1>2, <1>3 DEF StateOK
  <2> QED BY <1>1, <1>2, <2>1, GoesOn
<1>4. CASE rest = <<>>
  <2>1. ToSet(<<>>) = {} BY DEF ToSet
  <2> QED BY <1>1, <1>2, <1>4, <2>1, GoesOn
<1> QED BY <1>2, <1>3, <1>4

(* What a consumer prints was on its way to it.                            *)
LEMMA Showing ==
    ASSUME StateOK, Receiving, NEW s \in Slots, Show(s)
    PROVE  /\ s \in Running /\ in[s] # <<>> /\ Head(in[s]) \in Typed
           /\ in' = [in EXCEPT ![s] = Tail(@)] /\ read' = read \cup {Head(in[s])}
           /\ \A t \in Slots : t # s => proc'[t] = proc[t]
           /\ proc' \in [Slots -> Process \cup {Gone}] /\ proc'[s] \in Process
           /\ proc'[s].shown = Append(proc[s].shown, Head(in[s]))
           /\ proc'[s].prog = proc[s].prog /\ proc'[s].named = proc[s].named
           /\ proc'[s].run = proc[s].run
           /\ proc'[s].at \in {proc[s].at, "draining"}
<1>1. in[s] # <<>> /\ in' = [in EXCEPT ![s] = Tail(@)] BY DEF Show
<1>2. s \in Running /\ proc[s] \in Process BY <1>1, RunningSlots DEF Receiving
<1>3. Head(in[s]) \in Typed BY <1>1 DEF StateOK
<1>4. PICK l \in {proc[s].at, "draining"} : Printed(s, Head(in[s]), l) BY DEF Show
<1> DEFINE x == [proc[s] EXCEPT !.shown = Append(@, Head(in[s])), !.at = l]
<1>5. proc' = [proc EXCEPT ![s] = x] /\ read' = read \cup {Head(in[s])}
  BY <1>2, <1>4 DEF Printed, StateOK
<1>6. l \in Labels BY <1>2, <1>4 DEF Process, Labels
<1>7. Append(proc[s].shown, Head(in[s])) \in Seq(Typed) BY <1>2, <1>3 DEF Process
<1>8. /\ x \in Process /\ x.shown = Append(proc[s].shown, Head(in[s])) /\ x.at = l
      /\ x.prog = proc[s].prog /\ x.named = proc[s].named /\ x.run = proc[s].run
  BY <1>2, <1>6, <1>7 DEF Process
<1> HIDE DEF x
<1>9. proc'[s] = x /\ \A t \in Slots : t # s => proc'[t] = proc[t] BY <1>5, OneMoves
<1>10. proc' \in [Slots -> Process \cup {Gone}] BY <1>5, <1>8 DEF StateOK
<1> QED BY <1>1, <1>2, <1>3, <1>4, <1>5, <1>8, <1>9, <1>10

(* A program that starts is a new run, and has printed nothing.            *)
LEMMA Starting ==
    ASSUME StateOK, NEW s \in Slots, Start(s)
    PROVE  /\ proc[s] = Gone /\ runs' = runs + 1 /\ runs < MaxRuns
           /\ \A t \in Slots : t # s => proc'[t] = proc[t]
           /\ proc' \in [Slots -> Process \cup {Gone}] /\ proc'[s] \in Process
           /\ proc'[s].shown = <<>> /\ proc'[s].run = runs + 1
           /\ proc'[s].at \in {"exchange", "queue", "bind"}
           /\ proc'[s].at = "bind" => proc'[s].prog.queue = "none"
<1>1. proc[s] = Gone /\ runs' = runs + 1 /\ runs < MaxRuns
  <2>1. s \in 1..s BY DEF Slots
  <2> QED BY <2>1 DEF Start
<1>2. PICK p \in Offered, q \in BOOLEAN : proc' = [proc EXCEPT ![s] = Begun(p, q, FirstCall(p))]
  BY DEF Start
<1> DEFINE x == Begun(p, q, FirstCall(p))
<1>3. p \in Programs BY OfferedAssumption
<1>4. FirstCall(p) \in {"exchange", "queue", "bind"}
      /\ (FirstCall(p) = "bind" => p.queue = "none")
  BY DEF FirstCall
<1>5. runs + 1 \in 1..MaxRuns BY <1>1, SizeAssumption DEF StateOK
<1>6. /\ x \in Process /\ x.at = FirstCall(p) /\ x.shown = <<>> /\ x.run = runs + 1
      /\ x.prog = p
  BY <1>3, <1>4, <1>5 DEF Begun, Process, Labels
<1> HIDE DEF x
<1>7. proc'[s] = x /\ \A t \in Slots : t # s => proc'[t] = proc[t] BY <1>2, OneMoves DEF x
<1>8. proc' \in [Slots -> Process \cup {Gone}] BY <1>2, <1>6 DEF StateOK, x
<1> QED BY <1>1, <1>4, <1>6, <1>7, <1>8

(* What survives in a queue is a part of it, in the same order.            *)
LEMMA PartOfQueue ==
    ASSUME StateOK, NEW r \in Persistent(messages)
    PROVE  /\ r \in Seq(Typed)
           /\ \E f \in [1..Len(r) -> 1..Len(messages)] :
                /\ \A i \in 1..Len(r) : r[i] = messages[f[i]]
                /\ \A i, j \in 1..Len(r) : i < j => f[i] < f[j]
           /\ \A m \in ToSet(messages) : author[m].persistent => m \in ToSet(r)
<1>1. messages \in Seq(Typed) /\ Len(messages) \in Nat /\ DOMAIN messages = 1..Len(messages)
  BY DEF StateOK
<1>0. PICK n \in 0..Len(messages) : \E f \in [1..n -> 1..Len(messages)] :
        /\ r = [i \in DOMAIN f |-> messages[f[i]]]
        /\ \A i, j \in DOMAIN f : i < j => f[i] < f[j]
        /\ ToSet(f) = {k \in 1..Len(messages) : author[messages[k]].persistent}
  <2>1. PICK at \in UNION {[1..n -> 1..Len(messages)] : n \in 0..Len(messages)} :
          /\ r = [i \in DOMAIN at |-> messages[at[i]]]
          /\ \A i, j \in DOMAIN at : i < j => at[i] < at[j]
          /\ ToSet(at) = {k \in 1..Len(messages) : author[messages[k]].persistent}
    BY <1>1, Zenon DEF Persistent
  <2>2. PICK n \in 0..Len(messages) : at \in [1..n -> 1..Len(messages)] OBVIOUS
  <2> QED BY <2>1, <2>2
<1>2. PICK f \in [1..n -> 1..Len(messages)] :
        /\ r = [i \in DOMAIN f |-> messages[f[i]]]
        /\ \A i, j \in DOMAIN f : i < j => f[i] < f[j]
        /\ ToSet(f) = {k \in 1..Len(messages) : author[messages[k]].persistent}
  BY <1>0
<1>3. DOMAIN f = 1..n /\ n \in Nat BY <1>2
<1>4. r \in [1..n -> Typed] BY <1>1, <1>2, <1>3
<1>5. r \in Seq(Typed) /\ Len(r) = n BY <1>3, <1>4, SeqDef
<1>6. \A i \in 1..Len(r) : r[i] = messages[f[i]] BY <1>2, <1>3, <1>5
<1>7. \A i, j \in 1..Len(r) : i < j => f[i] < f[j] BY <1>2, <1>3, <1>5
<1>8. ASSUME NEW m \in ToSet(messages), author[m].persistent PROVE m \in ToSet(r)
  <2>1. PICK k \in 1..Len(messages) : m = messages[k] BY <1>1 DEF ToSet
  <2>2. k \in ToSet(f) BY <1>2, <1>8, <2>1
  <2>3. PICK i \in 1..n : k = f[i] BY <1>3, <2>2 DEF ToSet
  <2>4. r[i] = m /\ i \in DOMAIN r BY <1>2, <1>3, <2>1, <2>3
  <2> QED BY <2>4 DEF ToSet
<1> QED BY <1>5, <1>6, <1>7, <1>8

(* A restart empties all streams; of a durable queue a part survives.      *)
LEMMA Restarting ==
    ASSUME StateOK, Restart
    PROVE  /\ Steady /\ ~restarted /\ restarted'
           /\ out' = [s \in Slots |-> <<>>] /\ in' = [s \in Slots |-> <<>>]
           /\ exchange' \in {"none", "auto", "transient", "durable"}
           /\ queue' \in {"none", "transient", "durable"} /\ bound' \in BOOLEAN
           /\ messages' = <<>> \/ messages' \in Persistent(messages)
           /\ queue = "durable" => messages' \in Persistent(messages)
           /\ kept' = ToSet(messages)
<1>1. ASSUME NEW t \in Slots PROVE Goes(t, AfterLoss(t)) \in Process \cup {Gone}
        /\ (Goes(t, AfterLoss(t)) = Gone \/
             /\ proc[t] \in Process /\ Goes(t, AfterLoss(t)) \in Process
             /\ Goes(t, AfterLoss(t)).prog = proc[t].prog /\ Goes(t, AfterLoss(t)).named = proc[t].named
             /\ Goes(t, AfterLoss(t)).run = proc[t].run /\ Goes(t, AfterLoss(t)).shown = proc[t].shown)
  <2>1. CASE t \in Running
    <3>1. AfterLoss(t) \in Labels \cup {"ended"}
      BY <2>1, RunningSlots DEF AfterLoss, Labels, Process
    <3>2. proc[t] \in Process BY <2>1, RunningSlots
    <3> QED BY <2>1, <3>1, <3>2, Going
  <2>2. CASE t \notin Running
    <3>1. proc[t].at = "ended" BY <2>2, RunningSlots
    <3>2. AfterLoss(t) = "ended" BY <3>1 DEF AfterLoss
    <3> QED BY <3>2 DEF Goes
  <2> QED BY <2>1, <2>2
<1>2. proc' = [t \in Slots |-> Goes(t, AfterLoss(t))] BY DEF Restart
<1>3. Steady BY <1>1, <1>2 DEF Steady, Quiet
<1>4. queue' = IF queue = "durable" THEN queue ELSE "none" BY DEF Restart
<1>5. queue' \in {"none", "transient", "durable"} /\ (queue = "durable" => queue' # "none")
  BY <1>4
<1>6. exchange' \in {"none", "auto", "transient", "durable"}
  <2>1. CASE exchange = "auto" BY <2>1 DEF Restart
  <2>2. CASE exchange = "transient" BY <2>2 DEF Restart
  <2>3. CASE exchange \in {"none", "durable"} BY <2>3 DEF Restart
  <2> QED BY <2>1, <2>2, <2>3 DEF StateOK
<1>7. bound' \in BOOLEAN BY DEF Restart
<1>8. IF queue' = "none" THEN messages' = <<>> ELSE messages' \in Persistent(messages)
  BY DEF Restart
<1>9. ~restarted /\ restarted' /\ out' = [s \in Slots |-> <<>>] /\ in' = [s \in Slots |-> <<>>]
      /\ kept' = ToSet(messages)
  BY DEF Restart
<1> QED BY <1>3, <1>5, <1>6, <1>7, <1>8, <1>9

-----------------------------------------------------------------------------
(* A message that is typed is a new one of this run.                       *)
LEMMA Typing ==
    ASSUME StateOK, NEW s \in Slots, Publish(s)
    PROVE  /\ s \in Running /\ UNCHANGED <<brokerVars, restarted, runs, killed, kept, in, read, proc>>
           /\ proc[s].at \in {"typing", "deaf"}
           /\ Len(author) \in Nat /\ Typed = 1..Len(author) /\ Typed' = 1..Len(author) + 1
           /\ author' \in Seq(Record) /\ \A m \in Typed : author'[m] = author[m]
           /\ author'[Len(author) + 1].run = proc[s].run
           /\ author'[Len(author) + 1].named = proc[s].named
           /\ author'[Len(author) + 1].stored =>
                 proc[s].named /\ Prog(s).queue = "durable" /\ author'[Len(author) + 1].persistent
           /\ \/ proc[s].at = "deaf" /\ out' = out
              \/ proc[s].at = "typing" /\ out' = [out EXCEPT ![s] = Append(@, Len(author) + 1)]
<1>1. s \in Running /\ UNCHANGED <<brokerVars, restarted, runs, killed, kept, in, read, proc>>
      /\ proc[s].at \in {"typing", "deaf"}
  BY RunningSlots DEF Publish
<1> DEFINE r == [run |-> proc[s].run, named |-> proc[s].named, persistent |-> Prog(s).persistent,
                 stored |-> proc[s].named /\ Prog(s).persistent /\ Prog(s).queue = "durable"]
<1>2. author' = Append(author, r) BY DEF Publish
<1>3. r \in Record
  <2>1. proc[s] \in Process /\ Traits(Prog(s)) BY <1>1, RunningSlots
  <2>2. proc[s].run \in 1..MaxRuns /\ proc[s].named \in BOOLEAN BY <2>1 DEF Process
  <2>3. Prog(s).persistent \in BOOLEAN BY <2>1 DEF Traits
  <2> QED BY <2>2, <2>3 DEF Record
<1>4. author \in Seq(Record) BY DEF StateOK
<1>5. r.stored => proc[s].named /\ Prog(s).queue = "durable" /\ r.persistent OBVIOUS
<1>6. r.run = proc[s].run /\ r.named = proc[s].named OBVIOUS
<1> HIDE DEF r
<1>7. /\ Len(author) \in Nat /\ DOMAIN author = 1..Len(author)
      /\ Len(author') = Len(author) + 1 /\ DOMAIN author' = 1..Len(author) + 1
      /\ author' \in Seq(Record) /\ author'[Len(author) + 1] = r
      /\ \A m \in 1..Len(author) : author'[m] = author[m]
  BY <1>2, <1>3, <1>4
<1>8. out' = IF proc[s].at = "deaf" THEN out ELSE [out EXCEPT ![s] = Append(@, Len(author) + 1)]
  BY <1>7 DEF Publish
<1>9. \/ proc[s].at = "deaf" /\ out' = out
      \/ proc[s].at = "typing" /\ out' = [out EXCEPT ![s] = Append(@, Len(author) + 1)]
  BY <1>1, <1>8
<1> QED BY <1>1, <1>5, <1>6, <1>7, <1>9 DEF Typed

-----------------------------------------------------------------------------
(* Types                                                                   *)

LEMMA Streams ==
    ASSUME StateOK, NEW s \in Slots
    PROVE  /\ \A q \in {messages, out[s], in[s]} :
                /\ q \in Seq(Typed) /\ Len(q) \in Nat
                /\ q # <<>> => Head(q) \in Typed /\ Tail(q) \in Seq(Typed)
           /\ \A q \in {messages, in[s]}, m \in Typed : Append(q, m) \in Seq(Typed)
BY DEF StateOK

(* The first message of the queue becomes the last one of a stream.        *)
LEMMA Handing ==
    ASSUME StateOK, NEW s \in Slots, Hand(s)
    PROVE  /\ messages # <<>> /\ Head(messages) \in Typed
           /\ messages' = Tail(messages) /\ in' = [in EXCEPT ![s] = Append(@, Head(messages))]
           /\ messages' \in Seq(Typed) /\ in' \in [Slots -> Seq(Typed)]
           /\ UNCHANGED <<exchange, queue, bound, restarted, runs, author, killed, kept, out, read>>
<1>1. messages # <<>> /\ messages' = Tail(messages)
      /\ in' = [in EXCEPT ![s] = Append(@, Head(messages))]
      /\ UNCHANGED <<exchange, queue, bound, restarted, runs, author, killed, kept, out, read>>
  BY DEF Hand, Sent, historyVars
<1>2. Head(messages) \in Typed /\ Tail(messages) \in Seq(Typed)
      /\ Append(in[s], Head(messages)) \in Seq(Typed)
  BY <1>1, Streams
<1> QED BY <1>1, <1>2 DEF StateOK

LEMMA StateFrame ==
    ASSUME StateOK, UNCHANGED author,
           exchange' \in {"none", "auto", "transient", "durable"},
           queue' \in {"none", "transient", "durable"},
           bound' \in BOOLEAN, restarted' \in BOOLEAN, proc' \in [Slots -> Process \cup {Gone}],
           messages' \in Seq(Typed), out' \in [Slots -> Seq(Typed)], in' \in [Slots -> Seq(Typed)],
           runs' \in 0..MaxRuns, read' \subseteq Typed, killed' \subseteq Typed, kept' \subseteq Typed
    PROVE  StateOK'
<1>1. Typed' = Typed /\ Process' = Process BY DEF Typed, Process
<1> QED BY <1>1 DEF StateOK

(* A step of a program, its user, or the broker for it.                    *)
SlotStep(s) == Step(s) \/ Start(s) \/ Publish(s) \/ End(s) \/ Kill(s) \/ Route(s) \/ Deliver(s)

LEMMA StateStep ==
    ASSUME StateOK, Receiving, (\E s \in Slots : SlotStep(s)) \/ Restart PROVE StateOK'
<1> USE DEF brokerVars, historyVars, streamVars
<1>1. ASSUME NEW s \in Slots, SlotStep(s) PROVE StateOK'
  <2> USE SizeAssumption
  <2>0. /\ exchange \in {"none", "auto", "transient", "durable"}
        /\ queue \in {"none", "transient", "durable"}
        /\ bound \in BOOLEAN /\ restarted \in BOOLEAN
        /\ proc \in [Slots -> Process \cup {Gone}]
        /\ messages \in Seq(Typed) /\ out \in [Slots -> Seq(Typed)] /\ in \in [Slots -> Seq(Typed)]
        /\ runs \in 0..MaxRuns
        /\ read \subseteq Typed /\ killed \subseteq Typed /\ kept \subseteq Typed
    BY DEF StateOK
  <2>1. CASE DeclareExchange(s)
    <3>1. UNCHANGED <<queue, bound, messages, historyVars, streamVars>> BY <2>1 DEF DeclareExchange
    <3> QED BY <2>0, <2>1, <3>1, DeclaringExchange, StateFrame DEF Steady
  <2>2. CASE DeclareQueue(s)
    <3>1. UNCHANGED <<exchange, bound, messages, historyVars, streamVars>> BY <2>2 DEF DeclareQueue
    <3> QED BY <2>0, <2>2, <3>1, DeclaringQueue, StateFrame DEF Steady
  <2>3. CASE Bind(s)
    <3>1. UNCHANGED <<exchange, queue, messages, historyVars, streamVars>> BY <2>3 DEF Bind
    <3> QED BY <2>0, <2>3, <3>1, Binding, StateFrame DEF Steady
  <2>4. CASE End(s) \/ Closed(s) \/ GetEnds(s) \/ Drained(s)
    <3>1. UNCHANGED <<brokerVars, historyVars, streamVars>>
      BY <2>4 DEF End, Closed, GetEnds, Drained
    <3> QED BY <2>0, <2>4, <3>1, Ending, StateFrame DEF Steady
  <2>5. CASE Get(s) \/ Deliver(s) BY <2>0, <2>5, Asking, Handing, StateFrame DEF Steady
  <2>6. CASE GetEmpty(s)
    <3>1. UNCHANGED <<brokerVars, historyVars, streamVars>> BY <2>6 DEF GetEmpty
    <3> QED BY <2>0, <2>6, <3>1, FindingNone, StateFrame DEF Steady
  <2>7. CASE Show(s)
    <3>1. UNCHANGED <<brokerVars, historyVars, out>> BY <2>7 DEF Show
    <3>2. Tail(in[s]) \in Seq(Typed) BY <2>7, Showing, Streams
    <3>3. in' \in [Slots -> Seq(Typed)] BY <2>0, <2>7, <3>2, Showing
    <3>4. read' \subseteq Typed
      <4>1. read' = read \cup {Head(in[s])} /\ Head(in[s]) \in Typed BY <2>7, Showing
      <4> QED BY <2>0, <4>1
    <3> QED BY <2>0, <2>7, <3>1, <3>3, <3>4, Showing, StateFrame
  <2>8. CASE Start(s)
    <3>1. UNCHANGED <<brokerVars, restarted, author, killed, kept, streamVars>> BY <2>8 DEF Start
    <3>2. runs' \in 0..MaxRuns BY <2>0, <2>8, Starting
    <3> QED BY <2>0, <2>8, <3>1, <3>2, Starting, StateFrame
  <2>9. CASE Publish(s)
    <3>1. Typed \subseteq Typed' BY <2>9, Typing
    <3>2. Process \subseteq Process'
      <4>1. Seq(Typed) \subseteq Seq(Typed') BY <3>1, SeqMonotonic
      <4> QED BY <4>1 DEF Process
    <3>3. UNCHANGED <<brokerVars, restarted, runs, killed, kept, in, read, proc>>
          /\ author' \in Seq(Record)
      BY <2>9, Typing
    <3>4. messages \in Seq(Typed') /\ \A t \in Slots : out[t] \in Seq(Typed') /\ in[t] \in Seq(Typed')
      BY <2>0, <3>1, SeqMonotonic
    <3>5. Len(author) + 1 \in Typed' BY <2>9, Typing
    <3>6. out' \in [Slots -> Seq(Typed')]
      <4>1. Append(out[s], Len(author) + 1) \in Seq(Typed') BY <3>4, <3>5
      <4>2. out \in [Slots -> Seq(Typed')] BY <2>0, <3>4
      <4>3. out' = out \/ out' = [out EXCEPT ![s] = Append(@, Len(author) + 1)]
        BY <2>9, Typing
      <4> QED BY <4>1, <4>2, <4>3
    <3>7. in' \in [Slots -> Seq(Typed')] BY <2>0, <3>3, <3>4
    <3>8. proc' \in [Slots -> Process' \cup {Gone}] BY <2>0, <3>2, <3>3
    <3>9. read' \subseteq Typed' /\ killed' \subseteq Typed' /\ kept' \subseteq Typed'
      BY <2>0, <3>1, <3>3
    <3> QED BY <2>0, <3>3, <3>4, <3>6, <3>7, <3>8, <3>9 DEF StateOK
  <2>10. CASE Kill(s)
    <3>1. UNCHANGED <<brokerVars, restarted, runs, author, kept, read>> BY <2>10 DEF Kill
    <3>2. ToSet(in[s]) \subseteq Typed /\ ToSet(out[s]) \subseteq Typed BY <2>0 DEF ToSet
    <3>3. killed' \subseteq Typed BY <2>0, <2>10, <3>2, Killing
    <3>4. in' \in [Slots -> Seq(Typed)] /\ out' \in [Slots -> Seq(Typed)]
      <4>1. in' = [in EXCEPT ![s] = <<>>] /\ (out' = out \/ out' = [out EXCEPT ![s] = <<>>])
        BY <2>10, Killing
      <4>2. <<>> \in Seq(Typed) OBVIOUS
      <4> QED BY <2>0, <4>1, <4>2
    <3> QED BY <2>0, <2>10, <3>1, <3>3, <3>4, Killing, StateFrame DEF Steady
  <2>11. CASE Route(s)
    <3>1. UNCHANGED <<exchange, queue, bound, historyVars, in, read, proc>>
          /\ out[s] # <<>> /\ out' = [out EXCEPT ![s] = Tail(@)]
          /\ messages' \in {messages, Append(messages, Head(out[s]))}
      BY <2>11 DEF Route
    <3>2. Head(out[s]) \in Typed /\ Tail(out[s]) \in Seq(Typed) BY <3>1, Streams
    <3>3. messages' \in Seq(Typed) BY <3>1, <3>2, Streams
    <3>4. out' \in [Slots -> Seq(Typed)] BY <2>0, <3>1, <3>2
    <3> QED BY <2>0, <3>1, <3>3, <3>4, StateFrame
  <2> QED BY <1>1, <2>1, <2>2, <2>3, <2>4, <2>5, <2>6, <2>7, <2>8, <2>9, <2>10, <2>11 DEF SlotStep,
      Step
<1>2. CASE Restart
  <2>1. UNCHANGED <<runs, author, killed, read>> BY <1>2 DEF Restart
  <2>2. messages' \in Seq(Typed)
    <3>1. messages' = <<>> \/ messages' \in Persistent(messages) BY <1>2, Restarting
    <3>2. CASE messages' = <<>> BY <3>2
    <3>3. CASE messages' \in Persistent(messages) BY <3>3, PartOfQueue
    <3> QED BY <3>1, <3>2, <3>3
  <2>3. ToSet(messages) \subseteq Typed BY DEF StateOK, ToSet
  <2>4. out' \in [Slots -> Seq(Typed)] /\ in' \in [Slots -> Seq(Typed)]
    <3>1. out' = [s \in Slots |-> <<>>] /\ in' = [s \in Slots |-> <<>>] BY <1>2, Restarting
    <3> QED BY <3>1
  <2>5. restarted' \in BOOLEAN BY <1>2 DEF Restart
  <2>6. runs \in 0..MaxRuns /\ read \subseteq Typed /\ killed \subseteq Typed BY DEF StateOK
  <2> QED BY <1>2, <2>1, <2>2, <2>3, <2>4, <2>5, <2>6, Restarting, StateFrame DEF Steady
<1> QED BY <1>1, <1>2

-----------------------------------------------------------------------------
(* Who reads, and who types                                                *)

LEMMA ReceivingStep ==
    ASSUME StateOK, Receiving, (\E s \in Slots : SlotStep(s)) \/ Restart PROVE Receiving'
<1> USE DEF brokerVars, historyVars, streamVars
<1>1. ASSUME NEW s \in Slots, SlotStep(s) PROVE Receiving'
  <2>i. in \in [Slots -> Seq(Typed)] BY DEF StateOK
  <2>r. \A t \in Slots : in[t] # <<>> => proc[t].at \in {"getting", "consuming", "draining"}
    BY DEF Receiving
  <2>f. ASSUME UNCHANGED in, in[s] = <<>>, \A t \in Slots : t # s => proc'[t] = proc[t] PROVE Receiving'
    BY <2>r, <2>f DEF Receiving
  <2>1. CASE DeclareExchange(s)
    <3>1. UNCHANGED in /\ in[s] = <<>> BY <2>1, <2>r DEF DeclareExchange
    <3> QED BY <2>1, <2>f, <3>1, DeclaringExchange
  <2>2. CASE DeclareQueue(s)
    <3>1. UNCHANGED in /\ in[s] = <<>> BY <2>2, <2>r DEF DeclareQueue
    <3> QED BY <2>2, <2>f, <3>1, DeclaringQueue
  <2>3. CASE Bind(s)
    <3>1. UNCHANGED in /\ in[s] = <<>> BY <2>3, <2>r DEF Bind
    <3> QED BY <2>3, <2>f, <3>1, Binding
  <2>4. CASE End(s) \/ Closed(s) \/ GetEnds(s) \/ Drained(s)
    <3>1. UNCHANGED in /\ in[s] = <<>> BY <2>4, <2>r DEF End, Closed, GetEnds, Drained
    <3> QED BY <2>4, <2>f, <3>1, Ending
  <2>5. CASE Get(s) \/ Deliver(s)
    <3>1. in' = [in EXCEPT ![s] = Append(@, Head(messages))]
          /\ proc[s].at \in {"getting", "consuming", "draining"}
          /\ \A t \in Slots : proc'[t].at = proc[t].at
      BY <2>5, Asking, Handing
    <3>2. \A t \in Slots : t # s => in'[t] = in[t] BY <2>i, <3>1
    <3> QED BY <2>r, <3>1, <3>2 DEF Receiving
  <2>6. CASE GetEmpty(s)
    <3>1. UNCHANGED in /\ in[s] = <<>> BY <2>6 DEF GetEmpty
    <3> QED BY <2>6, <2>f, <3>1, FindingNone
  <2>7. CASE Show(s)
    <3>1. /\ in[s] # <<>> /\ \A t \in Slots : t # s => proc'[t] = proc[t]
          /\ proc'[s].at \in {proc[s].at, "draining"} /\ in' = [in EXCEPT ![s] = Tail(@)]
      BY <2>7, Showing
    <3>2. \A t \in Slots : t # s => in'[t] = in[t] BY <2>i, <3>1
    <3> QED BY <2>r, <3>1, <3>2 DEF Receiving
  <2>8. CASE Start(s)
    <3>1. UNCHANGED in /\ proc[s] = Gone BY <2>8, Starting DEF Start
    <3>2. in[s] = <<>> BY <2>r, <3>1 DEF Gone
    <3> QED BY <2>8, <2>f, <3>1, <3>2, Starting
  <2>9. CASE Publish(s) \/ Route(s)
    <3>1. UNCHANGED <<in, proc>> BY <2>9 DEF Publish, Route
    <3> QED BY <2>r, <3>1 DEF Receiving
  <2>10. CASE Kill(s)
    <3>1. in' = [in EXCEPT ![s] = <<>>] /\ \A t \in Slots : t # s => proc'[t] = proc[t]
      BY <2>10, Killing
    <3>2. in'[s] = <<>> /\ \A t \in Slots : t # s => in'[t] = in[t] BY <2>i, <3>1
    <3> QED BY <2>r, <3>1, <3>2 DEF Receiving
  <2> QED BY <1>1, <2>1, <2>2, <2>3, <2>4, <2>5, <2>6, <2>7, <2>8, <2>9, <2>10 DEF SlotStep, Step
<1>2. CASE Restart
  <2>1. \A t \in Slots : in'[t] = <<>> BY <1>2, Restarting
  <2> QED BY <2>1 DEF Receiving
<1> QED BY <1>1, <1>2

LEMMA DeclaredStep ==
    ASSUME StateOK, Declared, Receiving, (\E s \in Slots : SlotStep(s)) \/ Restart PROVE Declared'
<1> USE DEF brokerVars, historyVars, streamVars
<1>2. CASE Restart
  <2>1. restarted' BY <1>2, Restarting
  <2> QED BY <2>1 DEF Declared
<1>1. ASSUME NEW s \in Slots, SlotStep(s), ~restarted PROVE Declared'
  <2> DEFINE Right(p, q, b) ==
               /\ p.at \notin {"deaf", "spinning"}
               /\ p.at = "bind" /\ p.prog.queue # "none" => q = p.prog.queue
               /\ p.at = "typing" /\ p.named => b /\ (p.prog.queue # "none" => q = p.prog.queue)
  <2>d. \A t \in Slots : proc[t] # Gone => Right(proc[t], queue, bound)
    BY <1>1, RunningSlots DEF Declared, Prog
  <2>p. ASSUME \A t \in Slots : proc'[t] # Gone => Right(proc'[t], queue', bound') PROVE Declared'
    BY <2>p DEF Declared, Prog, Running, Gone
  <2>f. ASSUME \A t \in Slots : t # s => proc'[t] = proc[t],
               proc'[s] # Gone => Right(proc'[s], queue', bound'),
               queue # "none" => queue' = queue, bound => bound'
        PROVE  Declared'
    <3>1. \A t \in Slots : t # s /\ proc'[t] # Gone => Right(proc'[t], queue', bound')
      BY <2>d, <2>f
    <3> QED BY <2>f, <2>p, <3>1
  <2> HIDE DEF Right
  <2>1. CASE DeclareExchange(s)
    <3>1. UNCHANGED <<queue, bound>> BY <2>1 DEF DeclareExchange
    <3>2. proc'[s] # Gone => Right(proc'[s], queue', bound')
      <4>1. Steady BY <2>1, DeclaringExchange
      <4>2. proc'[s] # Gone => proc'[s].named = proc[s].named BY <4>1 DEF Steady, Quiet
      <4> QED BY <2>1, <4>2, DeclaringExchange DEF Right
    <3> QED BY <2>1, <2>f, <3>1, <3>2, DeclaringExchange
  <2>2. CASE DeclareQueue(s)
    <3>1. UNCHANGED bound BY <2>2 DEF DeclareQueue
    <3>2. proc'[s] # Gone => Right(proc'[s], queue', bound')
      <4>1. Steady BY <2>2, DeclaringQueue
      <4>2. proc'[s] # Gone => proc'[s].prog = proc[s].prog BY <4>1 DEF Steady, Quiet
      <4> QED BY <2>2, <4>2, DeclaringQueue DEF Right, Prog
    <3> QED BY <2>2, <2>f, <3>1, <3>2, DeclaringQueue
  <2>3. CASE Bind(s)
    <3>1. UNCHANGED queue BY <2>3 DEF Bind
    <3>2. proc'[s] # Gone => Right(proc'[s], queue', bound')
      <4>1. Steady BY <2>3, Binding
      <4>2. proc'[s] # Gone => proc'[s].prog = proc[s].prog BY <4>1 DEF Steady, Quiet
      <4>3. proc[s].prog.queue # "none" => queue = proc[s].prog.queue
        <5>1. proc[s].at = "bind" /\ proc[s] # Gone BY <2>3 DEF Bind, Gone
        <5> QED BY <2>d, <5>1 DEF Right
      <4> QED BY <2>3, <3>1, <4>2, <4>3, Binding DEF Right
    <3> QED BY <2>3, <2>f, <3>1, <3>2, Binding
  <2>4. CASE End(s) \/ Closed(s) \/ GetEnds(s) \/ Drained(s)
    <3>1. UNCHANGED <<queue, bound>> BY <2>4 DEF End, Closed, GetEnds, Drained
    <3>2. proc'[s] # Gone => Right(proc'[s], queue', bound') BY <2>4, Ending DEF Right
    <3> QED BY <2>4, <2>f, <3>1, <3>2, Ending
  <2>5. CASE Get(s) \/ Deliver(s)
    <3>1. UNCHANGED <<queue, bound>> /\ Steady /\ \A t \in Slots : proc'[t].at = proc[t].at
      BY <2>5, Asking, Handing
    <3>2. \A t \in Slots : proc'[t] # Gone => Right(proc'[t], queue', bound')
      BY <2>d, <3>1, RunningSlots DEF Steady, Quiet, Right
    <3> QED BY <2>p, <3>2
  <2>6. CASE GetEmpty(s)
    <3>1. UNCHANGED <<queue, bound>> BY <2>6 DEF GetEmpty
    <3>2. proc'[s] # Gone => Right(proc'[s], queue', bound') BY <2>6, FindingNone DEF Right
    <3> QED BY <2>6, <2>f, <3>1, <3>2, FindingNone
  <2>7. CASE Show(s)
    <3>1. UNCHANGED <<queue, bound>> BY <2>7 DEF Show
    <3>2. proc[s].at \in {"getting", "consuming", "draining"} BY <2>7, Showing DEF Receiving
    <3>3. proc'[s] # Gone => Right(proc'[s], queue', bound') BY <2>7, <3>2, Showing DEF Right
    <3> QED BY <2>7, <2>f, <3>1, <3>3, Showing
  <2>8. CASE Start(s)
    <3>1. UNCHANGED <<queue, bound>> BY <2>8 DEF Start
    <3>2. proc'[s] # Gone => Right(proc'[s], queue', bound') BY <2>8, Starting DEF Right
    <3> QED BY <2>8, <2>f, <3>1, <3>2, Starting
  <2>9. CASE Publish(s) \/ Route(s)
    <3>1. UNCHANGED <<queue, bound, proc>> BY <2>9 DEF Publish, Route
    <3> QED BY <2>d, <2>p, <3>1
  <2>10. CASE Kill(s)
    <3>1. UNCHANGED <<queue, bound>> BY <2>10 DEF Kill
    <3> QED BY <2>10, <2>f, <3>1, Killing
  <2> QED BY <1>1, <2>1, <2>2, <2>3, <2>4, <2>5, <2>6, <2>7, <2>8, <2>9, <2>10 DEF SlotStep, Step
<1>3. ASSUME NEW s \in Slots, SlotStep(s), restarted PROVE Declared'
  <2>1. restarted'
    BY <1>3 DEF SlotStep, Step, DeclareExchange, DeclareQueue, Bind, End, Closed, Get,
                GetEmpty, GetEnds, Show, Drained, Start, Publish, Kill, Route, Deliver,
                Hand
  <2> QED BY <2>1 DEF Declared
<1> QED BY <1>1, <1>2, <1>3

-----------------------------------------------------------------------------
(* Streams in the order of the runs                                        *)

(* The first message of a stream is taken.                                 *)
LEMMA TakenByRun ==
    ASSUME NEW a, NEW S, NEW s \in Seq(S), s # <<>>
    PROVE  /\ Sorted(a, s) => Sorted(a, Tail(s)) /\ Ahead(a, <<Head(s)>>, Tail(s))
           /\ \A t \in Seq(S) : Ahead(a, s, t) => Ahead(a, Tail(s), t) /\ Ahead(a, <<Head(s)>>, t)
           /\ \A t \in Seq(S) : Ahead(a, t, s) => Ahead(a, t, Tail(s)) /\ Ahead(a, t, <<Head(s)>>)
<1>1. /\ Len(s) \in Nat \ {0} /\ Len(Tail(s)) = Len(s) - 1
      /\ \A k \in 1 .. Len(s) - 1 : Tail(s)[k] = s[k + 1]
      /\ Head(s) = s[1]
  OBVIOUS
<1>2. Len(<<Head(s)>>) = 1 /\ <<Head(s)>>[1] = s[1] BY <1>1
<1>3. 1 \in 1 .. Len(s) BY <1>1
<1>4. Sorted(a, s) => Sorted(a, Tail(s)) BY <1>1 DEF Sorted
<1>5. Sorted(a, s) => Ahead(a, <<Head(s)>>, Tail(s)) BY <1>1, <1>2 DEF Sorted, Ahead
<1>6. ASSUME NEW t \in Seq(S), Ahead(a, s, t)
      PROVE  Ahead(a, Tail(s), t) /\ Ahead(a, <<Head(s)>>, t)
  BY <1>1, <1>2, <1>3, <1>6 DEF Ahead
<1>7. ASSUME NEW t \in Seq(S), Ahead(a, t, s)
      PROVE  Ahead(a, t, Tail(s)) /\ Ahead(a, t, <<Head(s)>>)
  BY <1>1, <1>2, <1>3, <1>7 DEF Ahead
<1> QED BY <1>4, <1>5, <1>6, <1>7

(* A message is added to a stream.                                         *)
LEMMA AddedByRun ==
    ASSUME NEW a, NEW S, NEW s \in Seq(S), NEW m \in S
    PROVE  /\ Sorted(a, s) /\ Ahead(a, s, <<m>>) => Sorted(a, Append(s, m))
           /\ \A t \in Seq(S) : Ahead(a, s, t) /\ Ahead(a, <<m>>, t) => Ahead(a, Append(s, m), t)
           /\ \A t \in Seq(S) : Ahead(a, t, s) /\ Ahead(a, t, <<m>>) => Ahead(a, t, Append(s, m))
<1>1. /\ Len(s) \in Nat /\ Len(Append(s, m)) = Len(s) + 1
      /\ \A k \in 1 .. Len(s) : Append(s, m)[k] = s[k]
      /\ Append(s, m)[Len(s) + 1] = m
  OBVIOUS
<1>2. Len(<<m>>) = 1 /\ <<m>>[1] = m OBVIOUS
<1>3. Sorted(a, s) /\ Ahead(a, s, <<m>>) => Sorted(a, Append(s, m))
  <2> SUFFICES ASSUME Sorted(a, s), Ahead(a, s, <<m>>),
                      NEW i \in 1 .. Len(s) + 1, NEW j \in 1 .. Len(s) + 1, i < j
               PROVE  Prior(a, Append(s, m)[i], Append(s, m)[j])
    BY <1>1 DEF Sorted
  <2>1. i \in 1 .. Len(s) BY <1>1
  <2>2. CASE j = Len(s) + 1 BY <1>1, <1>2, <2>1, <2>2 DEF Ahead
  <2>3. CASE j \in 1 .. Len(s) BY <1>1, <2>1, <2>3 DEF Sorted
  <2> QED BY <1>1, <2>2, <2>3
<1>5. ASSUME NEW t \in Seq(S), Ahead(a, s, t), Ahead(a, <<m>>, t) PROVE Ahead(a, Append(s, m), t)
  BY <1>1, <1>2, <1>5 DEF Ahead
<1>6. ASSUME NEW t \in Seq(S), Ahead(a, t, s), Ahead(a, t, <<m>>) PROVE Ahead(a, t, Append(s, m))
  BY <1>1, <1>2, <1>6 DEF Ahead
<1> QED BY <1>3, <1>5, <1>6

LEMMA NoneByRun ==
    ASSUME NEW a
    PROVE  Sorted(a, <<>>) /\ \A t : Ahead(a, <<>>, t) /\ Ahead(a, t, <<>>)
BY DEF Sorted, Ahead

(* Part of a stream, in its order.                                         *)
LEMMA PartByRun ==
    ASSUME NEW a, NEW S, NEW q \in Seq(S), NEW r \in Seq(S),
           NEW f \in [1..Len(r) -> 1..Len(q)],
           \A i \in 1..Len(r) : r[i] = q[f[i]],
           \A i, j \in 1..Len(r) : i < j => f[i] < f[j]
    PROVE  /\ Sorted(a, q) => Sorted(a, r)
           /\ \A t \in Seq(S) : Ahead(a, t, q) => Ahead(a, t, r)
BY DEF Sorted, Ahead

(* Of streams in this order, none holds a message of the other.            *)
LEMMA ApartByRun ==
    ASSUME NEW a, NEW S, S \subseteq Nat, NEW s \in Seq(S), NEW t \in Seq(S), Ahead(a, s, t)
    PROVE  \A i \in 1..Len(s), j \in 1..Len(t) : s[i] # t[j]
<1> SUFFICES ASSUME NEW i \in 1..Len(s), NEW j \in 1..Len(t), s[i] = t[j] PROVE FALSE
  OBVIOUS
<1>1. s \in Seq(Nat) /\ t \in Seq(Nat) BY SeqMonotonic
<1>2. s[i] \in Nat BY <1>1
<1>3. Prior(a, s[i], t[j]) BY DEF Ahead
<1> QED BY <1>2, <1>3 DEF Prior

(* A stream in this order holds no message twice.                          *)
LEMMA OnceByRun ==
    ASSUME NEW a, NEW S, S \subseteq Nat, NEW s \in Seq(S), Sorted(a, s)
    PROVE  \A i, j \in 1..Len(s) : i # j => s[i] # s[j]
<1> SUFFICES ASSUME NEW i \in 1..Len(s), NEW j \in 1..Len(s), i # j, s[i] = s[j] PROVE FALSE
  OBVIOUS
<1>0. s \in Seq(Nat) BY SeqMonotonic
<1>1. s[i] \in Nat BY <1>0
<1>2. CASE i < j BY <1>1, <1>2 DEF Sorted, Prior
<1>3. CASE j < i BY <1>1, <1>3 DEF Sorted, Prior
<1> QED BY <1>2, <1>3

(* The order stays when a new message has been typed.                      *)
LEMMA TypedByRun ==
    ASSUME NEW a, NEW b, NEW S, \A m \in S : b[m] = a[m]
    PROVE  /\ \A s \in Seq(S) : Sorted(a, s) => Sorted(b, s)
           /\ \A s \in Seq(S), t \in Seq(S) : Ahead(a, s, t) => Ahead(b, s, t)
<1>1. \A s \in Seq(S) : \A i \in 1..Len(s) : s[i] \in S OBVIOUS
<1> QED BY <1>1 DEF Sorted, Ahead, Prior

-----------------------------------------------------------------------------
(* The steps by their effect on the messages                               *)

(* Calls that move no message.                                             *)
Call(s) == \/ DeclareExchange(s) \/ DeclareQueue(s) \/ Bind(s) \/ GetEmpty(s)
           \/ End(s) \/ Closed(s) \/ GetEnds(s) \/ Drained(s)

LEMMA Calling ==
    ASSUME StateOK, NEW s \in Slots, Call(s)
    PROVE  /\ Steady
           /\ UNCHANGED <<messages, author, out, in, read, killed, kept, runs, restarted>>
           /\ bound => bound'
           /\ queue # "none" => queue' = queue
<1> USE DEF brokerVars, historyVars, streamVars
<1>1. CASE DeclareExchange(s) BY <1>1, DeclaringExchange DEF DeclareExchange
<1>2. CASE DeclareQueue(s) BY <1>2, DeclaringQueue DEF DeclareQueue
<1>3. CASE Bind(s) BY <1>3, Binding DEF Bind
<1>4. CASE GetEmpty(s) BY <1>4, FindingNone DEF GetEmpty
<1>5. CASE End(s) \/ Closed(s) \/ GetEnds(s) \/ Drained(s)
  BY <1>5, Ending DEF End, Closed, GetEnds, Drained
<1> QED BY <1>1, <1>2, <1>3, <1>4, <1>5 DEF Call

LEMMA Routing ==
    ASSUME StateOK, NEW s \in Slots, Route(s)
    PROVE  /\ UNCHANGED <<exchange, queue, bound, restarted, runs, author, killed, kept, in, read, proc>>
           /\ out[s] # <<>> /\ Head(out[s]) \in Typed /\ out' = [out EXCEPT ![s] = Tail(@)]
           /\ messages' \in {messages, Append(messages, Head(out[s]))}
           /\ bound => messages' = Append(messages, Head(out[s]))
BY Streams DEF Route, historyVars

LEMMA SlotSteps ==
    ASSUME NEW s, SlotStep(s)
    PROVE  \/ Call(s) \/ Get(s) \/ Deliver(s) \/ Show(s) \/ Start(s) \/ Publish(s)
           \/ Kill(s) \/ Route(s)
BY DEF SlotStep, Step, Call

-----------------------------------------------------------------------------
(* One run, one process                                                    *)

LEMMA RunsFrame ==
    ASSUME StateOK, RunsApart, UNCHANGED <<author, runs>>,
           \A t \in Slots : \/ proc'[t] = Gone
                            \/ proc[t] \in Process /\ proc'[t].run = proc[t].run,
           \A t \in Slots : \A k \in 1 .. Len(out'[t]) : \E j \in 1 .. Len(out[t]) :
              out'[t][k] = out[t][j]
    PROVE  RunsApart'
<1>1. \A t \in Slots : proc'[t].at # "ended" => t \in Running /\ proc'[t].run = proc[t].run
  BY RunningSlots DEF Gone
<1>2. Typed' = Typed BY DEF Typed
<1>3. \A t \in Running' : t \in Slots /\ t \in Running /\ proc'[t].run = proc[t].run
  BY <1>1 DEF Running
<1>4. ASSUME NEW t \in Running', NEW u \in Slots, t # u, NEW k \in 1 .. Len(out'[u])
      PROVE  author[out'[u][k]].run # proc'[t].run
  <2>1. PICK j \in 1 .. Len(out[u]) : out'[u][k] = out[u][j] OBVIOUS
  <2> QED BY <1>3, <1>4, <2>1 DEF RunsApart
<1> QED BY <1>2, <1>3, <1>4 DEF RunsApart

LEMMA RunsStep ==
    ASSUME StateOK, Receiving, RunsApart, (\E s \in Slots : SlotStep(s)) \/ Restart
    PROVE  RunsApart'
<1>0. /\ out \in [Slots -> Seq(Typed)] /\ proc \in [Slots -> Process \cup {Gone}]
      /\ runs \in 0..MaxRuns
  BY DEF StateOK
<1>s. Steady => \A t \in Slots : \/ proc'[t] = Gone
                                 \/ proc[t] \in Process /\ proc'[t].run = proc[t].run
  BY DEF Steady, Quiet
<1>u. UNCHANGED out => \A t \in Slots : \A k \in 1 .. Len(out'[t]) : \E j \in 1 .. Len(out[t]) :
         out'[t][k] = out[t][j]
  OBVIOUS
<1>1. ASSUME NEW s \in Slots, SlotStep(s) PROVE RunsApart'
  <2>1. CASE Call(s) BY <2>1, <1>s, <1>u, Calling, RunsFrame
  <2>2. CASE Get(s) \/ Deliver(s) BY <2>2, <1>s, <1>u, Asking, Handing, RunsFrame
  <2>3. CASE Show(s)
    <3>1. UNCHANGED <<author, runs, out>> BY <2>3 DEF Show, historyVars, brokerVars
    <3>2. \A t \in Slots : proc'[t] = Gone \/ (proc[t] \in Process /\ proc'[t].run = proc[t].run)
      <4>1. proc[s] \in Process BY <2>3, Showing, RunningSlots
      <4> QED BY <1>0, <2>3, <4>1, Showing
    <3> QED BY <1>u, <3>1, <3>2, RunsFrame
  <2>4. CASE Start(s)
    <3>1. UNCHANGED <<author, out>> BY <2>4 DEF Start, brokerVars, streamVars
    <3>2. \A t \in Slots : t # s /\ proc'[t].at # "ended" => t \in Running /\ proc'[t] = proc[t]
      BY <2>4, Starting, RunningSlots
    <3>3. \A t \in Running' : t \in Slots /\ (t # s => t \in Running /\ proc'[t] = proc[t])
      BY <3>2 DEF Running
    <3>4. runs' = runs + 1 /\ proc'[s].run = runs + 1 BY <2>4, Starting
    <3>5. \A m \in Typed : author[m].run \in 1..MaxRuns /\ author[m].run <= runs
      <4>1. \A m \in Typed : author[m] \in Record BY DEF StateOK, Typed
      <4> QED BY <4>1 DEF Record, RunsApart
    <3>6. \A t \in Running : proc[t].run \in 1..MaxRuns /\ proc[t].run <= runs
      BY RunningSlots DEF RunsApart, Process, Running
    <3>7. \A u \in Slots : \A k \in 1..Len(out[u]) : out[u][k] \in Typed BY <1>0
    <3>8. Typed' = Typed BY <3>1 DEF Typed
    <3>9. \A m \in Typed' : author'[m].run <= runs' BY <1>0, <3>1, <3>4, <3>5, <3>8
    <3>10. \A t \in Running' : proc'[t].run <= runs' BY <1>0, <3>3, <3>4, <3>6
    <3>11. \A t, u \in Running' : t # u => proc'[t].run # proc'[u].run
      BY <1>0, <3>3, <3>4, <3>6 DEF RunsApart
    <3>12. ASSUME NEW t \in Running', NEW u \in Slots, t # u, NEW k \in 1 .. Len(out'[u])
           PROVE  author'[out'[u][k]].run # proc'[t].run
      <4>1. CASE t = s BY <1>0, <3>1, <3>4, <3>5, <3>7, <4>1
      <4>2. CASE t # s BY <3>1, <3>3, <3>12, <4>2 DEF RunsApart
      <4> QED BY <4>1, <4>2
    <3> QED BY <3>9, <3>10, <3>11, <3>12 DEF RunsApart
  <2>5. CASE Publish(s)
    <3> DEFINE n == Len(author) + 1
    <3>1. /\ UNCHANGED <<proc, runs>> /\ n \notin Typed /\ Typed' = Typed \cup {n}
          /\ \A m \in Typed : author'[m] = author[m]
          /\ author'[n].run = proc[s].run /\ s \in Running
          /\ out' \in {out, [out EXCEPT ![s] = Append(@, n)]}
      BY <2>5, Typing
    <3> HIDE DEF n
    <3>2. Running' = Running BY <3>1 DEF Running
    <3>3. \A m \in Typed' : author'[m].run <= runs' BY <3>1 DEF RunsApart
    <3>4. ASSUME NEW t \in Running, NEW u \in Slots, t # u, NEW k \in 1 .. Len(out'[u])
          PROVE  author'[out'[u][k]].run # proc[t].run
      <4>1. \/ k \in 1 .. Len(out[u]) /\ out'[u][k] = out[u][k]
            \/ u = s /\ out'[u][k] = n
        <5>1. CASE u = s /\ out' # out
          <6>1. out'[u] = Append(out[u], n) /\ out[u] \in Seq(Typed) BY <1>0, <3>1, <5>1
          <6> QED BY <5>1, <6>1
        <5>2. CASE u # s \/ out' = out
          <6>1. out'[u] = out[u] BY <1>0, <3>1, <5>2
          <6> QED BY <6>1
        <5> QED BY <5>1, <5>2
      <4>2. CASE k \in 1 .. Len(out[u]) /\ out'[u][k] = out[u][k]
        <5>1. out[u][k] \in Typed BY <1>0, <4>2
        <5> QED BY <3>1, <3>4, <4>2, <5>1 DEF RunsApart
      <4>3. CASE u = s /\ out'[u][k] = n BY <3>1, <3>4, <4>3 DEF RunsApart
      <4> QED BY <4>1, <4>2, <4>3
    <3> QED BY <3>1, <3>2, <3>3, <3>4 DEF RunsApart
  <2>6. CASE Kill(s)
    <3>1. UNCHANGED <<author, runs>> BY <2>6 DEF Kill
    <3>2. \A t \in Slots : out'[t] = out[t] \/ out'[t] = <<>> BY <1>0, <2>6, Killing
    <3>3. \A t \in Slots : \A k \in 1 .. Len(out'[t]) : \E j \in 1 .. Len(out[t]) :
             out'[t][k] = out[t][j]
      BY <3>2
    <3> QED BY <1>s, <2>6, <3>1, <3>3, Killing, RunsFrame
  <2>7. CASE Route(s)
    <3>1. UNCHANGED <<author, runs, proc>> BY <2>7, Routing
    <3>2. \A t \in Slots : \A k \in 1 .. Len(out'[t]) : \E j \in 1 .. Len(out[t]) :
             out'[t][k] = out[t][j]
      <4> SUFFICES ASSUME NEW t \in Slots, NEW k \in 1 .. Len(out'[t])
                   PROVE  \E j \in 1 .. Len(out[t]) : out'[t][k] = out[t][j]
        OBVIOUS
      <4>1. CASE t = s
        <5>1. out'[t] = Tail(out[t]) /\ out[t] # <<>> /\ out[t] \in Seq(Typed)
          BY <1>0, <2>7, <4>1, Routing
        <5>2. k + 1 \in 1 .. Len(out[t]) /\ out'[t][k] = out[t][k + 1] BY <5>1
        <5> QED BY <5>2
      <4>2. CASE t # s BY <1>0, <2>7, <4>2, Routing
      <4> QED BY <4>1, <4>2
    <3>3. \A t \in Slots : proc'[t] = Gone \/ (proc[t] \in Process /\ proc'[t].run = proc[t].run)
      BY <1>0, <3>1
    <3> QED BY <3>1, <3>2, <3>3, RunsFrame
  <2> QED BY <1>1, <2>1, <2>2, <2>3, <2>4, <2>5, <2>6, <2>7, SlotSteps
<1>2. CASE Restart
  <2>1. UNCHANGED <<author, runs>> BY <1>2 DEF Restart
  <2>2. \A t \in Slots : Len(out'[t]) = 0 BY <1>2, Restarting
  <2>3. \A t \in Slots : \A k \in 1 .. Len(out'[t]) : \E j \in 1 .. Len(out[t]) :
             out'[t][k] = out[t][j]
    BY <2>2
  <2> QED BY <1>s, <1>2, <2>1, <2>3, Restarting, RunsFrame
<1> QED BY <1>1, <1>2

-----------------------------------------------------------------------------
(* The order of the messages of a run                                      *)

LEMMA ShownBefore ==
    ASSUME StateOK, Steady
    PROVE  \A t \in Running' : t \in Running /\ proc'[t].shown = proc[t].shown
<1>1. \A t \in Slots : proc'[t].at # "ended" => t \in Running /\ proc'[t].shown = proc[t].shown
  BY RunningSlots DEF Gone, Steady, Quiet
<1> QED BY <1>1 DEF Running

LEMMA ShownSeq == ASSUME StateOK, NEW t \in Running PROVE t \in Slots /\ proc[t].shown \in Seq(Typed)
<1>1. t \in Slots /\ proc[t] \in Process BY RunningSlots DEF Running
<1> QED BY <1>1 DEF Process

LEMMA HandByRun ==
    ASSUME StateOK, ByRun, NEW s \in Slots, Hand(s), Steady PROVE ByRun'
<1> DEFINE h == Head(messages)
<1>0. /\ messages \in Seq(Typed) /\ \A t \in Slots : out[t] \in Seq(Typed) /\ in[t] \in Seq(Typed)
      /\ in \in [Slots -> Seq(Typed)]
  BY DEF StateOK
<1>1. /\ messages # <<>> /\ h \in Typed /\ messages' = Tail(messages) /\ UNCHANGED <<out, author>>
      /\ in'[s] = Append(in[s], h) /\ \A t \in Slots : t # s => in'[t] = in[t]
  BY <1>0, Handing
<1> HIDE DEF h
<1>2. Tail(messages) \in Seq(Typed) BY <1>0, <1>1
<1>3. /\ Sorted(author, Tail(messages)) /\ Ahead(author, <<h>>, Tail(messages))
      /\ \A t \in Slots :
           /\ Ahead(author, in[t], Tail(messages)) /\ Ahead(author, in[t], <<h>>)
           /\ Ahead(author, Tail(messages), out[t]) /\ Ahead(author, <<h>>, out[t])
  BY <1>0, <1>1, TakenByRun DEF ByRun, h
<1>4. Sorted(author, in'[s]) /\ Ahead(author, in'[s], Tail(messages))
  BY <1>0, <1>1, <1>2, <1>3, AddedByRun DEF ByRun
<1>5. \A t \in Slots : Ahead(author, in'[s], out[t]) BY <1>0, <1>1, <1>3, AddedByRun DEF ByRun
<1>6. \A t \in Running' : t \in Running /\ proc'[t].shown = proc[t].shown BY ShownBefore
<1>7. ASSUME NEW t \in Running
      PROVE  Ahead(author, proc[t].shown, in'[t]) /\ Ahead(author, proc[t].shown, Tail(messages))
  <2>1. t \in Slots /\ proc[t].shown \in Seq(Typed) BY ShownSeq
  <2>2. Ahead(author, proc[t].shown, messages) /\ Ahead(author, proc[t].shown, in[t]) BY DEF ByRun
  <2>3. Ahead(author, proc[t].shown, <<h>>) /\ Ahead(author, proc[t].shown, Tail(messages))
    BY <1>0, <1>1, <2>1, <2>2, TakenByRun DEF h
  <2>4. Ahead(author, proc[t].shown, Append(in[t], h)) BY <1>0, <1>1, <2>1, <2>2, <2>3, AddedByRun
  <2> QED BY <1>1, <2>1, <2>2, <2>3, <2>4
<1>8. /\ Sorted(author', messages')
      /\ \A t \in Slots :
         /\ Sorted(author', out'[t]) /\ Sorted(author', in'[t])
         /\ Ahead(author', in'[t], messages') /\ Ahead(author', messages', out'[t])
         /\ \A u \in Slots : Ahead(author', in'[t], out'[u])
         /\ \A u \in Slots : t # u => Ahead(author', out'[t], out'[u])
  BY <1>1, <1>3, <1>4, <1>5 DEF ByRun
<1>9. \A t \in Running' :
         /\ Sorted(author', proc'[t].shown) /\ Ahead(author', proc'[t].shown, in'[t])
         /\ Ahead(author', proc'[t].shown, messages')
         /\ \A u \in Slots : Ahead(author', proc'[t].shown, out'[u])
  BY <1>1, <1>6, <1>7 DEF ByRun
<1> QED BY <1>8, <1>9 DEF ByRun

LEMMA RouteByRun ==
    ASSUME StateOK, ByRun, NEW s \in Slots, Route(s) PROVE ByRun'
<1> DEFINE h == Head(out[s])
<1>0. /\ messages \in Seq(Typed) /\ \A t \in Slots : out[t] \in Seq(Typed) /\ in[t] \in Seq(Typed)
      /\ out \in [Slots -> Seq(Typed)]
  BY DEF StateOK
<1>1. /\ out[s] # <<>> /\ h \in Typed /\ messages' \in {messages, Append(messages, h)}
      /\ UNCHANGED <<in, author, proc>>
      /\ out'[s] = Tail(out[s]) /\ \A t \in Slots : t # s => out'[t] = out[t]
  BY <1>0, Routing
<1> HIDE DEF h
<1>2. Tail(out[s]) \in Seq(Typed) /\ Append(messages, h) \in Seq(Typed) BY <1>0, <1>1
<1>3. /\ Sorted(author, Tail(out[s])) /\ Ahead(author, <<h>>, Tail(out[s]))
      /\ Ahead(author, messages, <<h>>) /\ Ahead(author, messages, Tail(out[s]))
      /\ \A t \in Slots :
           /\ Ahead(author, in[t], Tail(out[s])) /\ Ahead(author, in[t], <<h>>)
           /\ t # s => /\ Ahead(author, Tail(out[s]), out[t]) /\ Ahead(author, <<h>>, out[t])
                       /\ Ahead(author, out[t], Tail(out[s]))
  BY <1>0, <1>1, TakenByRun DEF ByRun, h
<1>4. Sorted(author, messages') /\ \A t \in Slots : Ahead(author, in[t], messages')
  BY <1>0, <1>1, <1>2, <1>3, AddedByRun DEF ByRun
<1>5. \A t \in Slots : Ahead(author, messages', out'[t])
  <2> TAKE t \in Slots
  <2>1. CASE t = s BY <1>0, <1>1, <1>2, <1>3, <2>1, AddedByRun
  <2>2. CASE t # s BY <1>0, <1>1, <1>3, <2>2, AddedByRun DEF ByRun
  <2> QED BY <2>1, <2>2
<1>6. ASSUME NEW t \in Running
      PROVE  /\ Ahead(author, proc[t].shown, messages')
             /\ \A u \in Slots : Ahead(author, proc[t].shown, out'[u])
  <2>1. t \in Slots /\ proc[t].shown \in Seq(Typed) BY ShownSeq
  <2>2. Ahead(author, proc[t].shown, messages) /\ \A u \in Slots : Ahead(author, proc[t].shown, out[u])
    BY DEF ByRun
  <2>3. Ahead(author, proc[t].shown, <<h>>) /\ Ahead(author, proc[t].shown, Tail(out[s]))
    BY <1>0, <1>1, <2>1, <2>2, TakenByRun DEF h
  <2>4. Ahead(author, proc[t].shown, Append(messages, h)) BY <1>0, <1>1, <2>1, <2>2, <2>3, AddedByRun
  <2> QED BY <1>1, <2>2, <2>3, <2>4
<1>7. Running' = Running BY <1>1 DEF Running
<1>8. /\ Sorted(author', messages')
      /\ \A t \in Slots :
         /\ Sorted(author', out'[t]) /\ Sorted(author', in'[t])
         /\ Ahead(author', in'[t], messages') /\ Ahead(author', messages', out'[t])
         /\ \A u \in Slots : Ahead(author', in'[t], out'[u])
         /\ \A u \in Slots : t # u => Ahead(author', out'[t], out'[u])
  BY <1>1, <1>3, <1>4, <1>5 DEF ByRun
<1>9. \A t \in Running' :
         /\ Sorted(author', proc'[t].shown) /\ Ahead(author', proc'[t].shown, in'[t])
         /\ Ahead(author', proc'[t].shown, messages')
         /\ \A u \in Slots : Ahead(author', proc'[t].shown, out'[u])
  BY <1>1, <1>6, <1>7 DEF ByRun
<1> QED BY <1>8, <1>9 DEF ByRun

LEMMA ShowByRun ==
    ASSUME StateOK, Receiving, ByRun, NEW s \in Slots, Show(s) PROVE ByRun'
<1> DEFINE h == Head(in[s])
<1>0. /\ messages \in Seq(Typed) /\ \A t \in Slots : out[t] \in Seq(Typed) /\ in[t] \in Seq(Typed)
      /\ in \in [Slots -> Seq(Typed)]
  BY DEF StateOK
<1>1. /\ in[s] # <<>> /\ h \in Typed /\ UNCHANGED <<messages, out, author>>
      /\ in'[s] = Tail(in[s]) /\ \A t \in Slots : t # s => in'[t] = in[t]
      /\ s \in Running /\ proc'[s].shown = Append(proc[s].shown, h)
      /\ \A t \in Slots : t # s => proc'[t] = proc[t]
  BY <1>0, Showing DEF Show, brokerVars, historyVars
<1> HIDE DEF h
<1>2. Tail(in[s]) \in Seq(Typed) /\ proc[s].shown \in Seq(Typed) BY <1>0, <1>1, ShownSeq
<1>3. /\ Sorted(author, Tail(in[s])) /\ Ahead(author, <<h>>, Tail(in[s]))
      /\ Ahead(author, Tail(in[s]), messages) /\ Ahead(author, <<h>>, messages)
      /\ \A t \in Slots : Ahead(author, Tail(in[s]), out[t]) /\ Ahead(author, <<h>>, out[t])
      /\ Ahead(author, proc[s].shown, <<h>>) /\ Ahead(author, proc[s].shown, Tail(in[s]))
  BY <1>0, <1>1, <1>2, TakenByRun DEF ByRun, h
<1>4. /\ Sorted(author, proc'[s].shown) /\ Ahead(author, proc'[s].shown, in'[s])
      /\ Ahead(author, proc'[s].shown, messages)
      /\ \A t \in Slots : Ahead(author, proc'[s].shown, out[t])
  BY <1>0, <1>1, <1>2, <1>3, AddedByRun DEF ByRun
<1>6. \A t \in Running' : t \in Slots /\ (t # s => t \in Running /\ proc'[t] = proc[t])
  BY <1>1 DEF Running
<1>8. /\ Sorted(author', messages')
      /\ \A t \in Slots :
         /\ Sorted(author', out'[t]) /\ Sorted(author', in'[t])
         /\ Ahead(author', in'[t], messages') /\ Ahead(author', messages', out'[t])
         /\ \A u \in Slots : Ahead(author', in'[t], out'[u])
         /\ \A u \in Slots : t # u => Ahead(author', out'[t], out'[u])
  BY <1>1, <1>3 DEF ByRun
<1>9. \A t \in Running' :
         /\ Sorted(author', proc'[t].shown) /\ Ahead(author', proc'[t].shown, in'[t])
         /\ Ahead(author', proc'[t].shown, messages')
         /\ \A u \in Slots : Ahead(author', proc'[t].shown, out'[u])
  BY <1>1, <1>4, <1>6 DEF ByRun
<1> QED BY <1>8, <1>9 DEF ByRun

LEMMA PublishByRun ==
    ASSUME StateOK, RunsApart, ByRun, NEW s \in Slots, Publish(s) PROVE ByRun'
<1> DEFINE n == Len(author) + 1
<1>0. /\ messages \in Seq(Typed) /\ \A t \in Slots : out[t] \in Seq(Typed) /\ in[t] \in Seq(Typed)
      /\ out \in [Slots -> Seq(Typed)]
  BY DEF StateOK
<1>1. /\ UNCHANGED <<messages, in, proc>> /\ s \in Running
      /\ n \in Nat /\ \A m \in Typed : m \in Nat /\ m < n /\ author'[m] = author[m]
      /\ author'[n].run = proc[s].run /\ n \in Typed' /\ Typed \subseteq Typed'
      /\ out' \in {out, [out EXCEPT ![s] = Append(@, n)]}
  <2>1. /\ UNCHANGED <<messages, in, proc>> /\ s \in Running
        /\ author'[n].run = proc[s].run /\ \A m \in Typed : author'[m] = author[m]
        /\ out' \in {out, [out EXCEPT ![s] = Append(@, n)]}
    BY Typing DEF brokerVars
  <2>2. Len(author) \in Nat /\ Typed = 1..Len(author) /\ Typed' = 1..Len(author) + 1
    BY Typing
  <2>3. n \in Nat /\ n \in Typed' /\ Typed \subseteq Typed' /\ \A m \in Typed : m \in Nat /\ m < n
    BY <2>2
  <2> QED BY <2>1, <2>3
<1> HIDE DEF n
<1>2. /\ \A q \in Seq(Typed) : Sorted(author, q) => Sorted(author', q)
      /\ \A q \in Seq(Typed), r \in Seq(Typed) : Ahead(author, q, r) => Ahead(author', q, r)
  BY <1>1, TypedByRun
<1>3. Len(<<n>>) = 1 /\ <<n>>[1] = n OBVIOUS
<1>4. \A q \in Seq(Typed) : Ahead(author', q, <<n>>)
  <2> TAKE q \in Seq(Typed)
  <2>1. \A i \in 1..Len(q) : q[i] \in Typed OBVIOUS
  <2>2. ASSUME NEW i \in 1..Len(q), NEW j \in 1..Len(<<n>>) PROVE q[i] < <<n>>[j]
    <3>1. j = 1 BY <1>3
    <3>2. <<n>>[j] = n BY <1>3, <3>1
    <3> QED BY <1>1, <2>1, <3>2
  <2> QED BY <2>2 DEF Ahead, Prior
<1>5. ASSUME NEW t \in Slots, t # s PROVE Ahead(author', <<n>>, out[t])
  <2>1. \A j \in 1..Len(out[t]) : out[t][j] \in Typed BY <1>0
  <2>2. \A j \in 1..Len(out[t]) : author'[out[t][j]].run # author'[n].run
    <3> TAKE j \in 1..Len(out[t])
    <3>1. author[out[t][j]].run # proc[s].run BY <1>1, <1>5 DEF RunsApart
    <3> QED BY <1>1, <2>1, <3>1
  <2> QED BY <1>3, <2>2 DEF Ahead, Prior
<1>6. /\ \A t \in Slots : out[t] \in Seq(Typed') /\ in[t] \in Seq(Typed')
      /\ messages \in Seq(Typed') /\ \A t \in Running : proc[t].shown \in Seq(Typed')
  BY <1>0, <1>1, SeqMonotonic, ShownSeq
<1>o. \A t \in Slots : out'[t] = out[t] \/ (t = s /\ out'[t] = Append(out[s], n))
  <2> DEFINE longer == Append(out[s], n)
  <2>1. out' = out \/ out' = [out EXCEPT ![s] = longer] BY <1>1
  <2> HIDE DEF longer
  <2>2. \A t \in Slots : out'[t] = out[t] \/ (t = s /\ out'[t] = longer) BY <1>0, <2>1
  <2> QED BY <2>2 DEF longer
<1>7. ASSUME NEW t \in Slots
      PROVE  /\ Sorted(author', out'[t]) /\ Sorted(author', in[t])
             /\ Ahead(author', in[t], messages) /\ Ahead(author', messages, out'[t])
             /\ \A u \in Slots : Ahead(author', in[u], out'[t])
  <2>1. /\ Sorted(author', out[t]) /\ Sorted(author', in[t])
        /\ Ahead(author', in[t], messages) /\ Ahead(author', messages, out[t])
        /\ \A u \in Slots : Ahead(author', in[u], out[t])
    BY <1>0, <1>2 DEF ByRun
  <2>2. CASE out'[t] = out[t] BY <2>1, <2>2
  <2>3. CASE t = s /\ out'[t] = Append(out[t], n)
    <3>1. Sorted(author', Append(out[t], n)) BY <1>0, <1>1, <1>4, <1>6, <2>1, AddedByRun
    <3>2. Ahead(author', messages, Append(out[t], n)) BY <1>0, <1>1, <1>4, <1>6, <2>1, AddedByRun
    <3>3. \A u \in Slots : Ahead(author', in[u], Append(out[t], n))
      BY <1>0, <1>1, <1>4, <1>6, <2>1, AddedByRun
    <3> QED BY <2>1, <2>3, <3>1, <3>2, <3>3
  <2> QED BY <1>o, <2>2, <2>3
<1>8. ASSUME NEW t \in Slots, NEW u \in Slots, t # u PROVE Ahead(author', out'[t], out'[u])
  <2>1. Ahead(author', out[t], out[u]) BY <1>0, <1>2, <1>8 DEF ByRun
  <2>2. CASE out'[t] = out[t] /\ out'[u] = out[u] BY <2>1, <2>2
  <2>3. CASE t = s /\ out'[t] = Append(out[s], n)
    <3>1. out'[u] = out[u] BY <1>8, <1>o, <2>3
    <3>2. Ahead(author', <<n>>, out[u]) BY <1>5, <1>8, <2>3
    <3>3. Ahead(author', Append(out[t], n), out[u])
      BY <1>1, <1>6, <2>1, <2>3, <3>2, AddedByRun
    <3> QED BY <2>3, <3>1, <3>3
  <2>4. CASE u = s /\ out'[u] = Append(out[s], n)
    <3>1. out'[t] = out[t] BY <1>8, <1>o, <2>4
    <3>2. Ahead(author', out[t], <<n>>) BY <1>0, <1>4
    <3>3. Ahead(author', out[t], Append(out[u], n))
      BY <1>1, <1>6, <2>1, <2>4, <3>2, AddedByRun
    <3> QED BY <2>4, <3>1, <3>3
  <2> QED BY <1>o, <2>2, <2>3, <2>4
<1>9. ASSUME NEW t \in Running
      PROVE  /\ Sorted(author', proc[t].shown) /\ Ahead(author', proc[t].shown, in[t])
             /\ Ahead(author', proc[t].shown, messages)
             /\ \A u \in Slots : Ahead(author', proc[t].shown, out'[u])
  <2>1. t \in Slots /\ proc[t].shown \in Seq(Typed) BY ShownSeq
  <2>2. /\ Sorted(author', proc[t].shown) /\ Ahead(author', proc[t].shown, in[t])
        /\ Ahead(author', proc[t].shown, messages)
        /\ \A u \in Slots : Ahead(author', proc[t].shown, out[u])
    BY <1>0, <1>2, <2>1 DEF ByRun
  <2>3. Ahead(author', proc[t].shown, Append(out[s], n))
    BY <1>1, <1>4, <1>6, <2>1, <2>2, AddedByRun
  <2> QED BY <1>o, <2>2, <2>3
<1>10. Running' = Running BY <1>1 DEF Running
<1>11. Sorted(author', messages) BY <1>0, <1>2 DEF ByRun
<1> QED BY <1>1, <1>7, <1>8, <1>9, <1>10, <1>11 DEF ByRun

LEMMA RestartByRun == ASSUME StateOK, ByRun, Restart PROVE ByRun'
<1>1. /\ UNCHANGED author /\ \A t \in Slots : out'[t] = <<>> /\ in'[t] = <<>>
  BY Restarting DEF Restart
<1>2. messages \in Seq(Typed) BY DEF StateOK
<1>3. /\ Sorted(author, messages')
      /\ \A q \in Seq(Typed) : Ahead(author, q, messages) => Ahead(author, q, messages')
  <2>1. CASE messages' = <<>> BY <2>1, NoneByRun
  <2>2. CASE messages' \in Persistent(messages)
    <3>1. PICK f \in [1..Len(messages') -> 1..Len(messages)] :
            /\ \A i \in 1..Len(messages') : messages'[i] = messages[f[i]]
            /\ \A i, j \in 1..Len(messages') : i < j => f[i] < f[j]
      BY <2>2, PartOfQueue
    <3>2. messages' \in Seq(Typed) BY <2>2, PartOfQueue
    <3> QED BY <1>2, <3>1, <3>2, PartByRun DEF ByRun
  <2> QED BY <2>1, <2>2, Restarting
<1>4. \A t \in Running' : t \in Running /\ proc'[t].shown = proc[t].shown
  BY Restarting, ShownBefore
<1>5. \A t \in Running : Ahead(author, proc[t].shown, messages') BY <1>3, ShownSeq DEF ByRun
<1>6. /\ Sorted(author, <<>>)
      /\ \A q : Ahead(author, <<>>, q) /\ Ahead(author, q, <<>>)
  BY NoneByRun
<1>7. /\ Sorted(author', messages')
      /\ \A t \in Slots :
         /\ Sorted(author', out'[t]) /\ Sorted(author', in'[t])
         /\ Ahead(author', in'[t], messages') /\ Ahead(author', messages', out'[t])
         /\ \A u \in Slots : Ahead(author', in'[t], out'[u])
         /\ \A u \in Slots : t # u => Ahead(author', out'[t], out'[u])
  BY <1>1, <1>3, <1>6
<1>8. \A t \in Running' :
         /\ t \in Slots /\ Sorted(author', proc'[t].shown) /\ Ahead(author', proc'[t].shown, in'[t])
         /\ Ahead(author', proc'[t].shown, messages')
         /\ \A u \in Slots : Ahead(author', proc'[t].shown, out'[u])
  BY <1>1, <1>4, <1>5, <1>6 DEF ByRun, Running
<1> QED BY <1>7, <1>8 DEF ByRun

LEMMA ByRunStep ==
    ASSUME StateOK, Receiving, RunsApart, ByRun, (\E s \in Slots : SlotStep(s)) \/ Restart
    PROVE  ByRun'
<1>1. ASSUME NEW s \in Slots, SlotStep(s) PROVE ByRun'
  <2>1. CASE Call(s)
    <3>1. UNCHANGED <<messages, author, out, in>> /\ Steady BY <2>1, Calling
    <3>2. \A t \in Running' : t \in Running /\ proc'[t].shown = proc[t].shown BY <3>1, ShownBefore
    <3> QED BY <3>1, <3>2 DEF ByRun
  <2>2. CASE Get(s) \/ Deliver(s) BY <2>2, Asking, HandByRun
  <2>3. CASE Show(s) BY <2>3, ShowByRun
  <2>4. CASE Start(s)
    <3>1. UNCHANGED <<messages, author, out, in>> BY <2>4 DEF Start, brokerVars, streamVars
    <3>2. \A t \in Slots : t # s => proc'[t] = proc[t] BY <2>4, Starting
    <3>3. \A t \in Running' : t \in Slots /\ (t # s => t \in Running /\ proc'[t] = proc[t])
      BY <3>2 DEF Running
    <3>4. proc'[s].shown = <<>> BY <2>4, Starting
    <3> QED BY <3>1, <3>3, <3>4, NoneByRun DEF ByRun
  <2>5. CASE Publish(s) BY <2>5, PublishByRun
  <2>6. CASE Kill(s)
    <3>1. UNCHANGED <<messages, author>> BY <2>6 DEF Kill, brokerVars
    <3>2. out \in [Slots -> Seq(Typed)] /\ in \in [Slots -> Seq(Typed)] BY DEF StateOK
    <3>3. \A t \in Slots : /\ out'[t] = out[t] \/ out'[t] = <<>>
                           /\ in'[t] = in[t] \/ in'[t] = <<>>
      BY <2>6, <3>2, Killing
    <3>4. \A t \in Running' : t \in Running /\ proc'[t].shown = proc[t].shown
      BY <2>6, Killing, ShownBefore
    <3>5. /\ Sorted(author, <<>>)
          /\ \A q : Ahead(author, <<>>, q) /\ Ahead(author, q, <<>>)
      BY NoneByRun
    <3>6. /\ Sorted(author', messages')
          /\ \A t \in Slots :
             /\ Sorted(author', out'[t]) /\ Sorted(author', in'[t])
             /\ Ahead(author', in'[t], messages') /\ Ahead(author', messages', out'[t])
             /\ \A u \in Slots : Ahead(author', in'[t], out'[u])
             /\ \A u \in Slots : t # u => Ahead(author', out'[t], out'[u])
      BY <3>1, <3>3, <3>5 DEF ByRun
    <3>7. \A t \in Running' :
             /\ t \in Slots /\ Sorted(author', proc'[t].shown) /\ Ahead(author', proc'[t].shown, in'[t])
             /\ Ahead(author', proc'[t].shown, messages')
             /\ \A u \in Slots : Ahead(author', proc'[t].shown, out'[u])
      BY <3>1, <3>3, <3>4, <3>5 DEF ByRun, Running
    <3> QED BY <3>6, <3>7 DEF ByRun
  <2>7. CASE Route(s) BY <2>7, RouteByRun
  <2> QED BY <1>1, <2>1, <2>2, <2>3, <2>4, <2>5, <2>6, <2>7, SlotSteps
<1> QED BY <1>1, RestartByRun

-----------------------------------------------------------------------------
(* What has been printed                                                   *)

(* The first message on its way to a reader is nowhere else.               *)
LEMMA HeadUnread ==
    ASSUME StateOK, ByRun, Unread, NEW s \in Slots, in[s] # <<>>
    PROVE  /\ Head(in[s]) \notin read
           /\ \A k \in 1 .. Len(messages) : messages[k] # Head(in[s])
           /\ \A k \in 1 .. Len(in[s]) - 1 : Tail(in[s])[k] # Head(in[s])
           /\ \A t \in Slots : \A k \in 1 .. Len(out[t]) : out[t][k] # Head(in[s])
           /\ \A t \in Slots : t # s => \A k \in 1 .. Len(in[t]) : in[t][k] # Head(in[s])
<1>0. messages \in Seq(Typed) /\ \A t \in Slots : out[t] \in Seq(Typed) /\ in[t] \in Seq(Typed)
  BY DEF StateOK
<1>1. Typed \subseteq Nat
  <2>1. Typed = 1..Len(author) /\ Len(author) \in Nat BY DEF StateOK, Typed
  <2> QED BY <2>1
<1>2. /\ 1 \in 1..Len(in[s]) /\ Head(in[s]) = in[s][1] /\ Len(in[s]) \in Nat
      /\ \A k \in 1..Len(in[s]) - 1 : k + 1 \in 1..Len(in[s]) /\ Tail(in[s])[k] = in[s][k + 1]
  BY <1>0
<1>3. \A k \in 1 .. Len(messages) : messages[k] # Head(in[s])
  <2>1. Ahead(author, in[s], messages) BY DEF ByRun
  <2>2. \A i \in 1..Len(in[s]), j \in 1..Len(messages) : in[s][i] # messages[j]
    BY <1>0, <1>1, <2>1, ApartByRun
  <2> QED BY <1>2, <2>2
<1>4. ASSUME NEW t \in Slots PROVE \A k \in 1 .. Len(out[t]) : out[t][k] # Head(in[s])
  <2>1. Ahead(author, in[s], out[t]) BY DEF ByRun
  <2>2. \A i \in 1..Len(in[s]), j \in 1..Len(out[t]) : in[s][i] # out[t][j]
    BY <1>0, <1>1, <2>1, ApartByRun
  <2> QED BY <1>2, <2>2
<1>5. \A k \in 1 .. Len(in[s]) - 1 : Tail(in[s])[k] # Head(in[s])
  <2>1. Sorted(author, in[s]) BY DEF ByRun
  <2>2. \A i, j \in 1..Len(in[s]) : i # j => in[s][i] # in[s][j] BY <1>0, <1>1, <2>1, OnceByRun
  <2> QED BY <1>2, <2>2
<1> QED BY <1>2, <1>3, <1>4, <1>5 DEF Unread

LEMMA UnreadStep ==
    ASSUME StateOK, Receiving, ByRun, Unread, (\E s \in Slots : SlotStep(s)) \/ Restart
    PROVE  Unread'
<1>0. /\ messages \in Seq(Typed) /\ \A t \in Slots : out[t] \in Seq(Typed) /\ in[t] \in Seq(Typed)
      /\ out \in [Slots -> Seq(Typed)] /\ in \in [Slots -> Seq(Typed)] /\ read \subseteq Typed
  BY DEF StateOK
<1>1. ASSUME NEW s \in Slots, SlotStep(s) PROVE Unread'
  <2>1. CASE Call(s)
    <3>1. UNCHANGED <<messages, out, in, read>> BY <2>1, Calling
    <3> QED BY <3>1 DEF Unread
  <2>2. CASE Get(s) \/ Deliver(s)
    <3> DEFINE h == Head(messages)
    <3>1. /\ messages # <<>> /\ messages' = Tail(messages) /\ UNCHANGED <<out, read>>
          /\ in'[s] = Append(in[s], h) /\ \A t \in Slots : t # s => in'[t] = in[t]
      BY <1>0, <2>2, Asking, Handing
    <3>2. /\ 1 \in 1..Len(messages) /\ h = messages[1] /\ Len(messages') = Len(messages) - 1
          /\ \A k \in 1..Len(messages) - 1 : k + 1 \in 1..Len(messages) /\ messages'[k] = messages[k + 1]
      BY <1>0, <3>1
    <3> HIDE DEF h
    <3>3. /\ Len(in'[s]) = Len(in[s]) + 1 /\ Len(in[s]) \in Nat
          /\ \A k \in 1..Len(in[s]) + 1 : in'[s][k] = IF k = Len(in[s]) + 1 THEN h ELSE in[s][k]
      <4>1. h \in Typed BY <1>0, <3>2
      <4> QED BY <1>0, <3>1, <4>1
    <3>4. \A k \in 1..Len(messages') : messages'[k] \notin read BY <3>2 DEF Unread
    <3>5. h \notin read BY <3>2 DEF Unread
    <3>6. \A k \in 1..Len(in'[s]) : in'[s][k] \notin read BY <3>3, <3>5 DEF Unread
    <3>7. ASSUME NEW t \in Slots, t # s PROVE \A k \in 1..Len(in[t]) : in[t][k] # h
      <4>1. Typed \subseteq Nat
        <5>1. Typed = 1..Len(author) /\ Len(author) \in Nat BY DEF StateOK, Typed
        <5> QED BY <5>1
      <4>2. Ahead(author, in[t], messages) BY DEF ByRun
      <4>3. \A i \in 1..Len(in[t]), j \in 1..Len(messages) : in[t][i] # messages[j]
        BY <1>0, <4>1, <4>2, ApartByRun
      <4> QED BY <3>2, <4>3
    <3>8. ASSUME NEW t \in Slots, t # s, NEW i \in 1..Len(in'[s]), NEW j \in 1..Len(in[t])
          PROVE  in'[s][i] # in[t][j]
      <4>1. CASE i = Len(in[s]) + 1 BY <3>3, <3>7, <3>8, <4>1
      <4>2. CASE i \in 1..Len(in[s]) BY <3>3, <3>8, <4>2 DEF Unread
      <4> QED BY <3>3, <4>1, <4>2
    <3>9. ASSUME NEW t \in Slots, NEW u \in Slots, t # u, NEW i \in 1..Len(in'[t]), NEW j \in 1..Len(in'[u])
          PROVE  in'[t][i] # in'[u][j]
      <4>1. CASE t = s BY <3>1, <3>8, <3>9, <4>1
      <4>2. CASE u = s BY <3>1, <3>8, <3>9, <4>2
      <4>3. CASE t # s /\ u # s
        <5>1. in'[t] = in[t] /\ in'[u] = in[u] BY <3>1, <4>3
        <5> QED BY <3>9, <5>1 DEF Unread
      <4> QED BY <4>1, <4>2, <4>3
    <3>10. ASSUME NEW t \in Slots
           PROVE  /\ \A k \in 1..Len(in'[t]) : in'[t][k] \notin read
                  /\ \A k \in 1..Len(out[t]) : out[t][k] \notin read
      <4>1. CASE t = s BY <3>6, <4>1 DEF Unread
      <4>2. CASE t # s BY <3>1, <4>2 DEF Unread
      <4> QED BY <4>1, <4>2
    <3> QED BY <3>1, <3>4, <3>9, <3>10 DEF Unread
  <2>3. CASE Show(s)
    <3> DEFINE h == Head(in[s])
    <3>1. /\ in[s] # <<>> /\ UNCHANGED <<messages, out>> /\ read' = read \cup {h}
          /\ in'[s] = Tail(in[s]) /\ \A t \in Slots : t # s => in'[t] = in[t]
      BY <1>0, <2>3, Showing DEF Show, brokerVars
    <3>2. /\ \A k \in 1 .. Len(messages) : messages[k] # h
          /\ \A k \in 1 .. Len(in[s]) - 1 : Tail(in[s])[k] # h
          /\ \A t \in Slots : \A k \in 1 .. Len(out[t]) : out[t][k] # h
          /\ \A t \in Slots : t # s => \A k \in 1 .. Len(in[t]) : in[t][k] # h
      BY <3>1, HeadUnread
    <3> HIDE DEF h
    <3>3. Len(in'[s]) = Len(in[s]) - 1 /\ \A k \in 1..Len(in'[s]) :
             k + 1 \in 1..Len(in[s]) /\ in'[s][k] = in[s][k + 1]
      BY <1>0, <3>1
    <3>4. ASSUME NEW t \in Slots
          PROVE  /\ \A k \in 1..Len(in'[t]) : in'[t][k] \notin read'
                 /\ \A k \in 1..Len(out[t]) : out[t][k] \notin read'
      <4>1. CASE t = s BY <3>1, <3>2, <3>3, <4>1 DEF Unread
      <4>2. CASE t # s BY <3>1, <3>2, <4>2 DEF Unread
      <4> QED BY <4>1, <4>2
    <3>5. ASSUME NEW t \in Slots, NEW u \in Slots, t # u, NEW i \in 1..Len(in'[t]), NEW j \in 1..Len(in'[u])
          PROVE  in'[t][i] # in'[u][j]
      <4>1. CASE t = s
        <5>1. i + 1 \in 1..Len(in[t]) /\ in'[t][i] = in[t][i + 1] /\ in'[u] = in[u]
          BY <3>1, <3>3, <3>5, <4>1
        <5> QED BY <3>5, <5>1 DEF Unread
      <4>2. CASE u = s
        <5>1. j + 1 \in 1..Len(in[u]) /\ in'[u][j] = in[u][j + 1] /\ in'[t] = in[t]
          BY <3>1, <3>3, <3>5, <4>2
        <5> QED BY <3>5, <5>1 DEF Unread
      <4>3. CASE t # s /\ u # s BY <3>1, <3>5, <4>3 DEF Unread
      <4> QED BY <4>1, <4>2, <4>3
    <3>6. \A k \in 1..Len(messages) : messages[k] \notin read' BY <3>1, <3>2 DEF Unread
    <3> QED BY <3>1, <3>4, <3>5, <3>6 DEF Unread
  <2>4. CASE Start(s)
    <3>1. UNCHANGED <<messages, out, in, read>> BY <2>4 DEF Start, brokerVars, streamVars
    <3> QED BY <3>1 DEF Unread
  <2>5. CASE Publish(s)
    <3> DEFINE n == Len(author) + 1
    <3>1. /\ UNCHANGED <<messages, in, read>> /\ n \notin Typed
          /\ out' \in {out, [out EXCEPT ![s] = Append(@, n)]}
      BY <2>5, Typing DEF brokerVars
    <3> HIDE DEF n
    <3>2. ASSUME NEW t \in Slots PROVE \A k \in 1..Len(out'[t]) : out'[t][k] \notin read
      <4> DEFINE longer == Append(out[s], n)
      <4>1. /\ Len(longer) = Len(out[s]) + 1 /\ Len(out[s]) \in Nat
            /\ \A k \in 1..Len(out[s]) + 1 : longer[k] = IF k = Len(out[s]) + 1 THEN n ELSE out[s][k]
        BY <1>0
      <4>2. out' = out \/ out' = [out EXCEPT ![s] = longer] BY <3>1
      <4> HIDE DEF longer
      <4>3. out'[t] = out[t] \/ (t = s /\ out'[t] = longer) BY <1>0, <4>2
      <4>4. CASE out'[t] = out[t] BY <4>4 DEF Unread
      <4>5. CASE t = s /\ out'[t] = longer
        <5>1. n \notin read BY <1>0, <3>1
        <5> QED BY <4>1, <4>5, <5>1 DEF Unread
      <4> QED BY <4>3, <4>4, <4>5
    <3> QED BY <3>1, <3>2 DEF Unread
  <2>6. CASE Kill(s)
    <3>1. UNCHANGED <<messages, read>> BY <2>6 DEF Kill, brokerVars
    <3>2. \A t \in Slots : /\ out'[t] = out[t] \/ Len(out'[t]) = 0
                           /\ in'[t] = in[t] \/ Len(in'[t]) = 0
      BY <1>0, <2>6, Killing
    <3> QED BY <3>1, <3>2 DEF Unread
  <2>7. CASE Route(s)
    <3>1. /\ UNCHANGED <<in, read>> /\ out[s] # <<>>
          /\ out'[s] = Tail(out[s]) /\ \A t \in Slots : t # s => out'[t] = out[t]
          /\ messages' \in {messages, Append(messages, Head(out[s]))}
      BY <1>0, <2>7, Routing
    <3>2. /\ 1 \in 1..Len(out[s]) /\ Head(out[s]) = out[s][1] /\ Len(Tail(out[s])) = Len(out[s]) - 1
          /\ Head(out[s]) \in Typed
          /\ \A k \in 1..Len(out[s]) - 1 : k + 1 \in 1..Len(out[s]) /\ Tail(out[s])[k] = out[s][k + 1]
      BY <1>0, <3>1
    <3>3. ASSUME NEW t \in Slots PROVE \A k \in 1..Len(out'[t]) : out'[t][k] \notin read
      <4>1. CASE t = s
        <5> TAKE k \in 1..Len(out'[t])
        <5>1. k + 1 \in 1..Len(out[s]) /\ out'[t][k] = out[s][k + 1] BY <3>1, <3>2, <4>1
        <5> QED BY <5>1 DEF Unread
      <4>2. CASE t # s BY <3>1, <4>2 DEF Unread
      <4> QED BY <4>1, <4>2
    <3>4. \A k \in 1..Len(messages') : messages'[k] \notin read
      <4>1. CASE messages' = messages BY <4>1 DEF Unread
      <4>2. CASE messages' = Append(messages, Head(out[s]))
        <5>1. Head(out[s]) \notin read BY <3>2 DEF Unread
        <5>2. /\ Len(messages') = Len(messages) + 1 /\ Len(messages) \in Nat
              /\ \A k \in 1..Len(messages) + 1 :
                   messages'[k] = IF k = Len(messages) + 1 THEN Head(out[s]) ELSE messages[k]
          BY <1>0, <3>2, <4>2
        <5> QED BY <5>1, <5>2 DEF Unread
      <4> QED BY <3>1, <4>1, <4>2
    <3> QED BY <3>1, <3>3, <3>4 DEF Unread
  <2> QED BY <1>1, <2>1, <2>2, <2>3, <2>4, <2>5, <2>6, <2>7, SlotSteps
<1>2. CASE Restart
  <2>1. UNCHANGED read /\ \A t \in Slots : Len(out'[t]) = 0 /\ Len(in'[t]) = 0
    BY <1>2, Restarting DEF Restart
  <2>2. \A k \in 1..Len(messages') : messages'[k] \notin read
    <3>1. CASE messages' = <<>> BY <3>1
    <3>2. CASE messages' \in Persistent(messages)
      <4>1. PICK f \in [1..Len(messages') -> 1..Len(messages)] :
              \A i \in 1..Len(messages') : messages'[i] = messages[f[i]]
        BY <3>2, PartOfQueue
      <4> QED BY <4>1 DEF Unread
    <3> QED BY <1>2, <3>1, <3>2, Restarting
  <2> QED BY <2>1, <2>2 DEF Unread
<1> QED BY <1>1, <1>2

-----------------------------------------------------------------------------
(* Where the messages are                                                  *)

LEMMA Contents ==
    ASSUME StateOK
    PROVE  /\ ToSet(messages) \subseteq Typed
           /\ \A s \in Slots : ToSet(in[s]) \subseteq Typed /\ ToSet(out[s]) \subseteq Typed
BY DEF StateOK, ToSet

(* The messages of a stream of which one is taken, or to which one comes.  *)
LEMMA ContentTaken ==
    ASSUME NEW S, NEW q \in Seq(S), q # <<>>
    PROVE  ToSet(q) \subseteq ToSet(Tail(q)) \cup {Head(q)}
<1> SUFFICES ASSUME NEW m \in ToSet(q), m # Head(q) PROVE m \in ToSet(Tail(q)) OBVIOUS
<1>1. PICK k \in 1..Len(q) : m = q[k] BY DEF ToSet
<1>2. k - 1 \in 1..Len(Tail(q)) /\ Tail(q)[k - 1] = m BY <1>1
<1> QED BY <1>2 DEF ToSet

LEMMA ContentAdded ==
    ASSUME NEW S, NEW q \in Seq(S), NEW m \in S
    PROVE  ToSet(q) \subseteq ToSet(Append(q, m)) /\ m \in ToSet(Append(q, m))
<1>1. \A k \in 1..Len(q) : k \in 1..Len(Append(q, m)) /\ Append(q, m)[k] = q[k] OBVIOUS
<1>2. Len(q) + 1 \in 1..Len(Append(q, m)) /\ Append(q, m)[Len(q) + 1] = m OBVIOUS
<1> QED BY <1>1, <1>2 DEF ToSet

(* A message stays where a restart of the broker cannot lose it.           *)
LEMMA SafeStep ==
    ASSUME StateOK, Receiving, NEW s \in Slots, SlotStep(s), NEW m, Safe(m) PROVE Safe(m)'
<1>0. /\ messages \in Seq(Typed) /\ \A t \in Slots : out[t] \in Seq(Typed) /\ in[t] \in Seq(Typed)
      /\ in \in [Slots -> Seq(Typed)]
  BY DEF StateOK
<1>1. CASE Call(s) \/ Start(s) \/ Publish(s)
  <2>1. CASE Call(s) BY <2>1, Calling DEF Safe
  <2>2. CASE Start(s)
    <3>1. UNCHANGED <<messages, in, read, killed>> BY <2>2 DEF Start, brokerVars, streamVars
    <3> QED BY <3>1 DEF Safe
  <2>3. CASE Publish(s)
    <3>1. UNCHANGED <<messages, in, read, killed>> BY <2>3 DEF Publish, brokerVars
    <3> QED BY <3>1 DEF Safe
  <2> QED BY <1>1, <2>1, <2>2, <2>3
<1>2. CASE Get(s) \/ Deliver(s)
  <2>1. /\ messages # <<>> /\ Head(messages) \in Typed /\ messages' = Tail(messages)
        /\ in'[s] = Append(in[s], Head(messages)) /\ \A t \in Slots : t # s => in'[t] = in[t]
        /\ UNCHANGED <<read, killed>>
    BY <1>0, <1>2, Asking, Handing
  <2>2. ToSet(messages) \subseteq ToSet(messages') \cup {Head(messages)} BY <1>0, <2>1, ContentTaken
  <2>3. ToSet(in[s]) \subseteq ToSet(in'[s]) /\ Head(messages) \in ToSet(in'[s])
    BY <1>0, <2>1, ContentAdded
  <2> QED BY <2>1, <2>2, <2>3 DEF Safe
<1>3. CASE Show(s)
  <2>1. /\ in[s] # <<>> /\ UNCHANGED <<messages, killed>> /\ read' = read \cup {Head(in[s])}
        /\ in'[s] = Tail(in[s]) /\ \A t \in Slots : t # s => in'[t] = in[t]
    BY <1>0, <1>3, Showing DEF Show, brokerVars, historyVars
  <2>2. ToSet(in[s]) \subseteq ToSet(in'[s]) \cup {Head(in[s])} BY <1>0, <2>1, ContentTaken
  <2> QED BY <2>1, <2>2 DEF Safe
<1>4. CASE Kill(s)
  <2>1. /\ UNCHANGED <<messages, read>> /\ \A t \in Slots : t # s => in'[t] = in[t]
        /\ killed \cup ToSet(in[s]) \subseteq killed'
    BY <1>0, <1>4, Killing DEF Kill, brokerVars
  <2> QED BY <2>1 DEF Safe
<1>5. CASE Route(s)
  <2>1. /\ Head(out[s]) \in Typed /\ UNCHANGED <<in, read, killed>>
        /\ messages' \in {messages, Append(messages, Head(out[s]))}
    BY <1>5, Routing
  <2>2. ToSet(messages) \subseteq ToSet(messages') BY <1>0, <2>1, ContentAdded
  <2> QED BY <2>1, <2>2 DEF Safe
<1> QED BY <1>1, <1>2, <1>3, <1>4, <1>5, SlotSteps

(* What a publisher has sent stays on its way, or is safe.                 *)
LEMMA SentStep ==
    ASSUME StateOK, Receiving, NEW s \in Slots, SlotStep(s),
           NEW t \in Slots, NEW m \in ToSet(out[t]), bound
    PROVE  Safe(m)' \/ \E u \in Slots : m \in ToSet(out'[u])
<1>0. messages \in Seq(Typed) /\ out \in [Slots -> Seq(Typed)]
  BY DEF StateOK
<1>1. CASE Call(s) \/ Start(s) \/ Get(s) \/ Deliver(s) \/ Show(s)
  <2>1. UNCHANGED out
    BY <1>1, Calling, Asking, Handing DEF Start, Show, streamVars
  <2> QED BY <2>1
<1>2. CASE Publish(s)
  <2> DEFINE n == Len(author) + 1
  <2>1. out' \in {out, [out EXCEPT ![s] = Append(@, n)]} BY <1>2, Typing
  <2>2. out[s] \in Seq(Typed') /\ n \in Typed'
    <3>1. Typed \subseteq Typed' /\ n \in Typed' BY <1>2, Typing
    <3> QED BY <1>0, <3>1, SeqMonotonic
  <2> HIDE DEF n
  <2>3. ToSet(out[s]) \subseteq ToSet(Append(out[s], n)) BY <2>2, ContentAdded
  <2> DEFINE longer == Append(out[s], n)
  <2>4. out' = out \/ out' = [out EXCEPT ![s] = longer] BY <2>1
  <2> HIDE DEF longer
  <2>5. out'[t] = out[t] \/ (t = s /\ out'[t] = longer) BY <1>0, <2>4
  <2>6. ToSet(out[t]) \subseteq ToSet(out'[t]) BY <2>3, <2>5 DEF longer
  <2> QED BY <2>6
<1>3. CASE Kill(s)
  <2>1. out'[t] = out[t] \/ ToSet(out[t]) \subseteq killed' BY <1>0, <1>3, Killing
  <2> QED BY <2>1 DEF Safe
<1>4. CASE Route(s)
  <2>1. /\ out[s] # <<>> /\ Head(out[s]) \in Typed /\ messages' = Append(messages, Head(out[s]))
        /\ out'[s] = Tail(out[s]) /\ \A u \in Slots : u # s => out'[u] = out[u]
    BY <1>0, <1>4, Routing
  <2>2. ToSet(out[s]) \subseteq ToSet(out'[s]) \cup {Head(out[s])} BY <1>0, <2>1, ContentTaken
  <2>3. Head(out[s]) \in ToSet(messages') BY <1>0, <2>1, ContentAdded
  <2> QED BY <2>1, <2>2, <2>3 DEF Safe
<1> QED BY <1>1, <1>2, <1>3, <1>4, SlotSteps

(* What a program cannot change before the broker restarts.                *)
LEMMA BrokerStep ==
    ASSUME StateOK, Receiving, NEW s \in Slots, SlotStep(s)
    PROVE  /\ UNCHANGED <<kept, restarted>>
           /\ bound => bound'
           /\ queue = "durable" => queue' = queue
           /\ ~Publish(s) => UNCHANGED author
<1> USE DEF brokerVars, historyVars
<1>1. CASE Call(s) BY <1>1, Calling
<1>2. CASE Get(s) \/ Deliver(s) BY <1>2, Asking, Handing
<1>3. CASE Show(s) \/ Start(s) \/ Kill(s) BY <1>3 DEF Show, Start, Kill
<1>4. CASE Publish(s) BY <1>4 DEF Publish
<1>5. CASE Route(s) BY <1>5, Routing
<1> QED BY <1>1, <1>2, <1>3, <1>4, <1>5, SlotSteps

LEMMA RoutedStep ==
    ASSUME StateOK, Receiving, Declared, Routed, (\E s \in Slots : SlotStep(s)) \/ Restart
    PROVE  Routed'
<1>1. ASSUME NEW s \in Slots, SlotStep(s) PROVE Routed'
  <2>1. /\ UNCHANGED <<kept, restarted>>
        /\ bound => bound'
        /\ queue = "durable" => queue' = queue
        /\ ~Publish(s) => UNCHANGED author
    BY <1>1, BrokerStep
  <2>2. \A m \in Typed : author'[m] = author[m] BY <2>1, Typing
  <2>3. \A m \in kept : author'[m].stored => Safe(m)'
    <3> TAKE m \in kept
    <3>1. m \in Typed BY DEF StateOK
    <3>2. author[m].stored => Safe(m) BY DEF Routed
    <3>3. Safe(m) => Safe(m)' BY <1>1, SafeStep
    <3> QED BY <2>2, <3>1, <3>2, <3>3
  <2>4. ASSUME ~restarted, NEW m \in Typed
        PROVE  /\ author'[m].named => bound' /\ (Safe(m)' \/ \E t \in Slots : m \in ToSet(out'[t]))
               /\ author'[m].stored => queue' = "durable" /\ author'[m].persistent
    <3>1. /\ author[m].named => bound /\ (Safe(m) \/ \E t \in Slots : m \in ToSet(out[t]))
          /\ author[m].stored => queue = "durable" /\ author[m].persistent
      BY <2>4 DEF Routed
    <3>2. Safe(m) => Safe(m)' BY <1>1, SafeStep
    <3>3. bound => \A t \in Slots :
             m \in ToSet(out[t]) => Safe(m)' \/ \E u \in Slots : m \in ToSet(out'[u])
      BY <1>1, SentStep
    <3> QED BY <2>1, <2>2, <3>1, <3>2, <3>3
  <2>5. CASE ~Publish(s)
    <3>1. Typed' = Typed BY <2>1, <2>5 DEF Typed
    <3> QED BY <2>1, <2>3, <2>4, <3>1 DEF Routed
  <2>6. CASE Publish(s)
    <3> DEFINE n == Len(author) + 1
    <3>1. /\ Typed' = Typed \cup {n} /\ s \in Running
          /\ proc[s].at \in {"typing", "deaf"}
          /\ author'[n].named = proc[s].named
          /\ author'[n].stored => proc[s].named /\ Prog(s).queue = "durable" /\ author'[n].persistent
          /\ \/ proc[s].at = "deaf"
             \/ proc[s].at = "typing" /\ out' = [out EXCEPT ![s] = Append(@, n)]
          /\ UNCHANGED <<bound, queue>>
      BY <2>6, Typing DEF brokerVars
    <3>2. out[s] \in Seq(Typed') /\ n \in Typed'
      <4>1. out \in [Slots -> Seq(Typed)] BY DEF StateOK
      <4>2. Typed \subseteq Typed' /\ n \in Typed' BY <3>1
      <4> QED BY <4>1, <4>2, SeqMonotonic
    <3> HIDE DEF n
    <3>3. ASSUME ~restarted
          PROVE  /\ author'[n].named => bound /\ \E t \in Slots : n \in ToSet(out'[t])
                 /\ author'[n].stored => queue = "durable" /\ author'[n].persistent
      <4>1. proc[s].at = "typing" /\ out' = [out EXCEPT ![s] = Append(@, n)]
        BY <3>1, <3>3 DEF Declared
      <4>2. proc[s].named => bound /\ (Prog(s).queue # "none" => queue = Prog(s).queue)
        BY <3>1, <3>3, <4>1 DEF Declared
      <4>3. n \in ToSet(out'[s])
        <5>1. out'[s] = Append(out[s], n) BY <4>1 DEF StateOK
        <5> QED BY <3>2, <5>1, ContentAdded
      <4> QED BY <3>1, <4>2, <4>3
    <3> QED BY <2>1, <2>3, <2>4, <3>1, <3>3 DEF Routed
  <2> QED BY <2>5, <2>6
<1>2. CASE Restart
  <2>1. restarted' /\ kept' = ToSet(messages) /\ UNCHANGED author /\ ~restarted
    BY <1>2, Restarting DEF Restart
  <2>2. ASSUME NEW m \in ToSet(messages), author[m].stored PROVE m \in ToSet(messages')
    <3>1. m \in Typed BY Contents
    <3>2. queue = "durable" /\ author[m].persistent BY <2>1, <2>2, <3>1 DEF Routed
    <3>3. messages' \in Persistent(messages) BY <1>2, <3>2, Restarting
    <3> QED BY <2>2, <3>2, <3>3, PartOfQueue
  <2> QED BY <2>1, <2>2 DEF Routed, Safe
<1> QED BY <1>1, <1>2

-----------------------------------------------------------------------------
(* The theorems                                                            *)

LEMMA Starts == ASSUME Init PROVE IInv
<1> USE DEF Init
<1>1. Running = {} /\ Typed = {} BY DEF Running, Typed, Gone
<1>2. StateOK
  <2>1. \A S : <<>> \in Seq(S) OBVIOUS
  <2>2. 0 \in 0..MaxRuns BY SizeAssumption
  <2> QED BY <1>1, <2>1, <2>2 DEF StateOK
<1>3. Len(messages) = 0 /\ \A s \in Slots : Len(out[s]) = 0 /\ Len(in[s]) = 0 OBVIOUS
<1>4. Receiving BY DEF Receiving
<1>5. RunsApart BY <1>1 DEF RunsApart
<1>6. ByRun BY <1>1, NoneByRun DEF ByRun
<1>7. Unread BY <1>3 DEF Unread
<1>8. Declared BY <1>1 DEF Declared
<1>9. Routed BY <1>1 DEF Routed
<1> QED BY <1>2, <1>4, <1>5, <1>6, <1>7, <1>8, <1>9 DEF IInv

LEMMA Steps == ASSUME Next PROVE (\E s \in Slots : SlotStep(s)) \/ Restart
BY DEF Next, SlotStep

LEMMA Stutters == ASSUME IInv, UNCHANGED vars PROVE IInv'
<1> USE DEF vars, brokerVars, historyVars, streamVars
<1>1. StateOK' BY StateFrame DEF IInv, StateOK
<1>2. Receiving' BY DEF IInv, Receiving
<1>3. RunsApart' BY DEF IInv, RunsApart, Running, Typed
<1>4. ByRun' BY DEF IInv, ByRun, Running
<1>5. Unread' BY DEF IInv, Unread
<1>6. Declared' BY DEF IInv, Declared, Running, Prog
<1>7. Routed' BY DEF IInv, Routed, Safe, Typed
<1> QED BY <1>1, <1>2, <1>3, <1>4, <1>5, <1>6, <1>7 DEF IInv

LEMMA Inductive == IInv /\ [Next]_vars => IInv'
<1>1. ASSUME IInv, Next PROVE IInv'
  <2>1. (\E s \in Slots : SlotStep(s)) \/ Restart BY <1>1, Steps
  <2> QED BY <1>1, <2>1, StateStep, ReceivingStep, RunsStep, ByRunStep, UnreadStep, DeclaredStep,
             RoutedStep DEF IInv
<1> QED BY <1>1, Stutters

(* The invariant that all of the following rest on.                        *)
LEMMA Invariance == Spec => []IInv
<1>1. Init => IInv BY Starts
<1> QED BY <1>1, Inductive, PTL DEF Spec

(* Every variable keeps its type: no program takes a message off a count   *)
(* that has run out, or prints what was never typed.                       *)
THEOREM TypeCorrect == Spec => []TypeOK
<1>1. IInv => TypeOK
  <2> SUFFICES ASSUME IInv PROVE TypeOK OBVIOUS
  <2>1. StateOK BY DEF IInv
  <2>2. \A s \in Running : proc[s] \in Process BY <2>1, RunningSlots DEF Running
  <2>3. \A s \in Slots : out[s] \in Seq(Typed) /\ in[s] \in Seq(Typed) BY <2>1 DEF StateOK
  <2> QED BY <2>1, <2>2, <2>3 DEF StateOK, TypeOK, Process, Record
<1> QED BY <1>1, Invariance, PTL

(* However many readers share the queue, are started, killed or see the    *)
(* broker restart: each prints the messages of one run of a publisher in   *)
(* the order in which they were typed (no_ack in all readers, one stream   *)
(* per connection).                                                        *)
THEOREM ReadInOrder == Spec => []InOrder
<1>1. IInv => InOrder
  <2> SUFFICES ASSUME IInv, NEW s \in Running, NEW i \in DOMAIN proc[s].shown,
                      NEW j \in DOMAIN proc[s].shown, i < j,
                      author[proc[s].shown[i]].run = author[proc[s].shown[j]].run
               PROVE  proc[s].shown[i] < proc[s].shown[j]
    BY DEF InOrder
  <2>1. proc[s].shown \in Seq(Typed) BY ShownSeq DEF IInv
  <2>2. Sorted(author, proc[s].shown) BY DEF IInv, ByRun
  <2> QED BY <2>1, <2>2 DEF Sorted, Prior
<1> QED BY <1>1, Invariance, PTL

(* While the broker stays up it drops no message of a publisher that was   *)
(* given a queue: the errors of declare and bind that the publishers do    *)
(* not look at end them or leave them without a prompt.                    *)
THEOREM NoneLost == Spec => []NothingLost
<1>1. IInv => NothingLost
  <2> SUFFICES ASSUME IInv, ~restarted, NEW m \in Typed, author[m].named
               PROVE  m \in Somewhere \cup killed
    BY DEF NothingLost
  <2>1. Safe(m) \/ \E s \in Slots : m \in ToSet(out[s]) BY DEF IInv, Routed
  <2> QED BY <2>1 DEF Safe, Somewhere
<1> QED BY <1>1, Invariance, PTL

(* A persistent message in a durable queue outlives the restart of the     *)
(* broker, whatever other programs declared or bound before.               *)
THEOREM StoredSurvives == Spec => []SurvivesRestart
<1>1. IInv => SurvivesRestart
  <2> SUFFICES ASSUME IInv, NEW m \in kept, author[m].stored PROVE m \in Somewhere \cup killed
    BY DEF SurvivesRestart
  <2>1. Safe(m) BY DEF IInv, Routed
  <2> QED BY <2>1 DEF Safe, Somewhere
<1> QED BY <1>1, Invariance, PTL

(* A step that prints a message prints the head of a stream to a reader.   *)
LEMMA PrintsNew ==
    ASSUME IInv, Next, NEW s \in Running, NEW m \in read, Printed(s, m, proc'[s].at)
    PROVE  FALSE
<1>1. s \in Slots /\ proc[s] \in Process /\ proc[s].shown \in Seq(Typed) /\ proc[s] # Gone
  <2>1. s \in Slots BY DEF Running
  <2> QED BY <2>1, RunningSlots, ShownSeq DEF IInv
<1>2. m \in Typed BY DEF IInv, StateOK
<1>3. proc'[s].shown # proc[s].shown /\ read' = read /\ proc'[s] # Gone
  <2>1. proc'[s] = [proc[s] EXCEPT !.shown = Append(@, m), !.at = proc'[s].at]
    BY <1>1 DEF Printed, IInv, StateOK
  <2>2. proc'[s].shown = Append(proc[s].shown, m) BY <1>1, <2>1 DEF Process
  <2>3. Append(proc[s].shown, m) # proc[s].shown BY <1>1, <1>2
  <2>4. "shown" \in DOMAIN proc'[s] BY <1>1, <2>1 DEF Process
  <2>5. "shown" \notin DOMAIN Gone BY DEF Gone
  <2> QED BY <2>2, <2>3, <2>4, <2>5 DEF Printed
<1>4. ASSUME Steady PROVE FALSE BY <1>1, <1>3, <1>4 DEF Steady, Quiet
<1>5. PICK t \in Slots : SlotStep(t) BY <1>4, Steps, Restarting DEF IInv
<1>6. CASE Call(t) BY <1>4, <1>6, Calling DEF IInv
<1>7. CASE Get(t) \/ Deliver(t) BY <1>4, <1>7, Asking DEF IInv
<1>8. CASE Show(t)
  <2>1. in[t] # <<>> /\ read' = read \cup {Head(in[t])} BY <1>8, Showing DEF IInv
  <2>2. Head(in[t]) \notin read BY <2>1, HeadUnread DEF IInv
  <2> QED BY <1>3, <2>1, <2>2
<1>9. CASE Start(t) BY <1>1, <1>3, <1>9, Starting DEF IInv
<1>10. CASE Publish(t) BY <1>3, <1>10 DEF Publish
<1>11. CASE Kill(t) BY <1>4, <1>11, Killing DEF IInv
<1>12. CASE Route(t) BY <1>3, <1>12 DEF Route
<1> QED BY <1>5, <1>6, <1>7, <1>8, <1>9, <1>10, <1>11, <1>12, SlotSteps

(* No message is printed twice: what a reader prints was never printed.    *)
THEOREM PrintedOnce == Spec => ReadOnce
<1>1. IInv /\ [Next]_vars => [\A s \in Running, m \in read : ~Printed(s, m, proc'[s].at)]_vars
  <2> SUFFICES ASSUME IInv, Next, NEW s \in Running, NEW m \in read, Printed(s, m, proc'[s].at)
               PROVE  FALSE
    OBVIOUS
  <2> QED BY PrintsNew
<1> QED BY <1>1, Invariance, PTL DEF Spec, ReadOnce
=============================================================================
