-------------------------------- MODULE Amqp --------------------------------
(***************************************************************************)
(* The RabbitMQ clients around one queue: a direct exchange, one queue and *)
(* one routing key of a broker, and NumSlots terminals in each of which    *)
(* the user starts one program of AmqpPrograms after another.              *)
(*                                                                         *)
(* A remote call with an answer is one step; published messages and        *)
(* messages on their way to a reader travel in streams of their own, and   *)
(* every other program can act in between.  All readers ask for messages   *)
(* with "no ack": the broker forgets a message when it sends it.           *)
(* Messages are numbered in the order in which they are typed.             *)
(***************************************************************************)
EXTENDS Integers, Sequences, SequencesExt, AmqpPrograms

CONSTANTS Offered,     \* the programs the users start
          NumSlots,    \* terminals
          MaxRuns,     \* bound on the programs started
          MaxMsgs      \* bound on the messages typed

ASSUME OfferedAssumption == Offered \subseteq Programs
ASSUME SizeAssumption == NumSlots \in Nat /\ MaxRuns \in Nat /\ MaxMsgs \in Nat

Slots == 1..NumSlots

VARIABLES
    exchange, queue,   \* none, or how they were declared
    bound,             \* the queue is bound to the exchange
    messages,          \* what is in the queue
    restarted,         \* the broker has been restarted
    proc,              \* the program running in each slot
    out, in,           \* streams from the slot's program and to it
    runs,              \* programs started so far
    author,            \* of each message: its run, and what to expect of it
    read,              \* all messages printed
    killed,            \* messages lost with a process that was killed
    kept               \* messages that were in the queue at the restart

brokerVars == <<exchange, queue, bound, messages>>
historyVars == <<restarted, runs, author, killed, kept>>
streamVars == <<out, in, read>>
vars == <<brokerVars, historyVars, streamVars, proc>>

Typed == DOMAIN author
Running == {s \in Slots : proc[s].at # "ended"}
Labels == {"exchange", "queue", "bind", "typing", "closing", "getting",
           "consuming", "draining", "stuck", "deaf", "spinning"}

(* A running program: where it is, whether it was given a queue, how many  *)
(* messages it will still ask for, whether another reader took one of      *)
(* them, and what it has printed.  A program that has ended leaves nothing.*)
Begun(p, q, label) ==
    [at |-> label, prog |-> p, named |-> q, run |-> runs + 1, left |-> 0,
     contended |-> FALSE, shown |-> <<>>]

Gone == [at |-> "ended"]

(* The exchange may be the broker's own amq.direct, which is durable.      *)
Init ==
    /\ exchange \in {"none", "durable"} /\ queue = "none" /\ bound = FALSE
    /\ messages = <<>> /\ restarted = FALSE /\ runs = 0
    /\ proc = [s \in Slots |-> Gone]
    /\ out = [s \in Slots |-> <<>>] /\ in = [s \in Slots |-> <<>>]
    /\ author = <<>> /\ read = {} /\ killed = {} /\ kept = {}

Goes(s, label) == IF label = "ended" THEN Gone ELSE [proc[s] EXCEPT !.at = label]
Goto(s, label) == proc' = [proc EXCEPT ![s] = Goes(s, label)]
Prog(s) == proc[s].prog

-----------------------------------------------------------------------------
(* Declarations                                                            *)

(* The user starts a program; it connects, logs in and opens a channel.    *)
(* If one of these fails it ends and leaves nothing behind.                *)
FirstCall(p) == IF p.exchange # "none" THEN "exchange"
                ELSE IF p.queue # "none" THEN "queue" ELSE "bind"

Start(s) ==
    /\ runs < MaxRuns /\ out[s] = <<>>
    /\ \A t \in 1..s : proc[t] = Gone <=> t = s
    /\ runs' = runs + 1
    /\ \E p \in Offered, q \in BOOLEAN :
         /\ q \/ p.optional
         /\ proc' = [proc EXCEPT ![s] = Begun(p, q, FirstCall(p))]
    /\ UNCHANGED <<brokerVars, restarted, author, killed, kept, streamVars>>

(* An object that exists can only be declared again the same way.          *)
Agrees(object, kind) == object \in {"none", kind}

(* Every publisher looks at the answer: the error ends it.                 *)
DeclareExchange(s) ==
    /\ proc[s].at = "exchange"
    /\ IF Agrees(exchange, Prog(s).exchange)
       THEN /\ exchange' = Prog(s).exchange
            /\ Goto(s, IF proc[s].named THEN "queue" ELSE "typing")
       ELSE Goto(s, "ended") /\ UNCHANGED exchange
    /\ UNCHANGED <<queue, bound, messages, historyVars, streamVars>>

PublishesAnyway(p) ==    \* mutant of AfterConflict: the error is ignored
    IF p.role = "publish" THEN "typing" ELSE "ended"

(* The error of a queue declaration closes the channel.  The rabbitmq-c    *)
(* publishers do not look at it, and the answer to the bind on the closed  *)
(* channel that they send next never comes.                                *)
AfterConflict(p) ==
    IF p.role = "publish" /\ p.library = "c" THEN "stuck" ELSE "ended"

TypesUnbound(p, count) ==    \* mutant of AfterQueue: no publisher binds
    CASE p.role = "publish" -> "typing"
      [] p.role = "get" -> "getting"
      [] p.role = "check" -> "ended"
      [] p.role = "consume" /\ p.library = "c" -> "consuming"
      [] OTHER -> IF count > 0 THEN "draining" ELSE "ended"

AfterQueue(p, count) ==
    CASE p.binds -> "bind"
      [] p.role = "get" -> "getting"
      [] p.role = "check" -> "ended"
      [] p.role = "consume" /\ p.library = "c" -> "consuming"
      [] OTHER -> IF count > 0 THEN "draining" ELSE "ended"

DeclareQueue(s) ==
    /\ proc[s].at = "queue"
    /\ IF Agrees(queue, Prog(s).queue)
       THEN /\ queue' = Prog(s).queue
            /\ LET next == AfterQueue(Prog(s), Len(messages))
               IN proc' = [proc EXCEPT ![s] =
                    IF next = "ended" THEN Gone
                    ELSE [@ EXCEPT !.at = next, !.left = Len(messages)]]
       ELSE Goto(s, AfterConflict(Prog(s))) /\ UNCHANGED queue
    /\ UNCHANGED <<exchange, bound, messages, historyVars, streamVars>>

AfterBind(p) == IF p.role = "publish" THEN "typing" ELSE "consuming"

(* There may be nothing to bind: amqpcpp throws, and the AMQP-CPP          *)
(* publisher prints the error and stays in its event loop.                 *)
Bind(s) ==
    /\ proc[s].at = "bind"
    /\ IF exchange # "none" /\ queue # "none"
       THEN bound' = TRUE /\ Goto(s, AfterBind(Prog(s)))
       ELSE /\ Goto(s, IF Prog(s).library = "async" THEN "stuck" ELSE "ended")
            /\ UNCHANGED bound
    /\ UNCHANGED <<exchange, queue, messages, historyVars, streamVars>>

-----------------------------------------------------------------------------
(* Publishing                                                              *)

(* The user types a message.  Nobody looks at the result of publishing it: *)
(* after the loss of the connection some publishers read on (AfterLoss).   *)
Publish(s) ==
    /\ proc[s].at \in {"typing", "deaf"} /\ Len(author) < MaxMsgs
    /\ author' = Append(author,
         [run |-> proc[s].run, named |-> proc[s].named, persistent |-> Prog(s).persistent,
          stored |-> proc[s].named /\ Prog(s).persistent /\ Prog(s).queue = "durable"])
    /\ out' = IF proc[s].at = "deaf" THEN out
              ELSE [out EXCEPT ![s] = Append(@, Len(author'))]
    /\ UNCHANGED <<brokerVars, restarted, runs, killed, kept>>
    /\ UNCHANGED <<in, read, proc>>

(* The user types "end": the channel and the connection are closed.        *)
End(s) ==
    /\ proc[s].at \in {"typing", "deaf"}
    /\ Goto(s, "closing")
    /\ UNCHANGED <<brokerVars, historyVars, streamVars>>

Closed(s) ==
    /\ proc[s].at = "closing" /\ out[s] = <<>>
    /\ Goto(s, "ended")
    /\ UNCHANGED <<brokerVars, historyVars, streamVars>>

(* The broker drops a message that no queue is bound for: mandatory is 0.  *)
Route(s) ==
    /\ out[s] # <<>>
    /\ out' = [out EXCEPT ![s] = Tail(@)]
    /\ messages' = IF bound THEN Append(messages, Head(out[s])) ELSE messages
    /\ UNCHANGED <<exchange, queue, bound, historyVars>>
    /\ UNCHANGED <<in, read, proc>>

-----------------------------------------------------------------------------
(* Reading                                                                 *)

SentAgain(q) ==    \* mutant of Sent: never an acknowledgement
    Append(Tail(q), Head(q))

(* no_ack: what the broker has sent is no longer in the queue.             *)
Sent(q) == Tail(q)

Hand(s) ==
    /\ messages # <<>>
    /\ in' = [in EXCEPT ![s] = Append(@, Head(messages))]
    /\ messages' = Sent(messages)
    /\ UNCHANGED <<exchange, queue, bound, historyVars, out, read>>

(* History: which getters another program has taken a message from.        *)
Contend(t) == IF proc[t].at = "getting" THEN [proc[t] EXCEPT !.contended = TRUE]
              ELSE proc[t]

AsksOnceMore(s) ==    \* mutant of Asks: i <= message_count
    Prog(s).library = "cpp" \/ proc[s].left >= 0

(* The rabbitmq-c and the AMQP-CPP getters ask once for every message that *)
(* the declaration counted, the amqpcpp getters until the queue is empty.  *)
Asks(s) == Prog(s).library = "cpp" \/ proc[s].left > 0

OneLessAlways(s) ==    \* mutant of OneLess: the count of an amqpcpp getter runs below 0
    [proc[s] EXCEPT !.left = @ - 1]

OneLess(s) == [proc[s] EXCEPT !.left = IF @ > 0 THEN @ - 1 ELSE 0]

Get(s) ==
    /\ proc[s].at = "getting" /\ in[s] = <<>> /\ Asks(s)
    /\ Hand(s)
    /\ proc' = [t \in Slots |-> IF t = s THEN OneLess(s) ELSE Contend(t)]

(* amqp_read_message() waits for the content that an empty answer does not *)
(* have, amqpcpp reports a count of -1, AMQP-CPP calls onEmpty.            *)
AfterEmpty(p) ==
    CASE p.library = "c" -> "stuck"
      [] p.library = "cpp" -> "ended"
      [] p.library = "async" -> "getting"

GetEmpty(s) ==
    /\ proc[s].at = "getting" /\ in[s] = <<>> /\ Asks(s) /\ messages = <<>>
    /\ proc' = [proc EXCEPT ![s] =
         IF AfterEmpty(Prog(s)) = "ended" THEN Gone
         ELSE [OneLess(s) EXCEPT !.at = AfterEmpty(Prog(s))]]
    /\ UNCHANGED <<brokerVars, historyVars, streamVars>>

GetEnds(s) ==
    /\ proc[s].at = "getting" /\ in[s] = <<>> /\ ~Asks(s)
    /\ Goto(s, "ended")
    /\ UNCHANGED <<brokerVars, historyVars, streamVars>>

(* The broker pushes messages to a consumer.                               *)
Deliver(s) ==
    /\ proc[s].at \in {"consuming", "draining"}
    /\ Hand(s)
    /\ proc' = [t \in Slots |-> IF t = s THEN proc[t] ELSE Contend(t)]

(* print_message(), onMessage(), onReceived().  The message "stop" makes   *)
(* the amqpcpp consumer cancel.                                            *)
Printed(s, m, label) ==
    /\ proc' = [proc EXCEPT ![s].shown = Append(@, m), ![s].at = label]
    /\ read' = read \cup {m}

ShowNewest(s) ==    \* mutant of Show: the newest message first
    /\ in[s] # <<>> /\ Printed(s, Last(in[s]), proc[s].at)
    /\ in' = [in EXCEPT ![s] = Front(@)]
    /\ UNCHANGED <<brokerVars, historyVars, out>>

Show(s) ==
    /\ in[s] # <<>>
    /\ \/ Printed(s, Head(in[s]), proc[s].at)
       \/ /\ proc[s].at = "consuming" /\ Prog(s).library = "cpp"
          /\ Printed(s, Head(in[s]), "draining")
    /\ in' = [in EXCEPT ![s] = Tail(@)]
    /\ UNCHANGED <<brokerVars, historyVars, out>>

(* The AMQP-CPP consumer closes its channel as soon as it is registered:   *)
(* onFinalize of the declaration runs when onSuccess returns.              *)
Drained(s) ==
    /\ proc[s].at = "draining" /\ in[s] = <<>>
    /\ Goto(s, "ended")
    /\ UNCHANGED <<brokerVars, historyVars, streamVars>>

-----------------------------------------------------------------------------
(* Failures                                                                *)

(* A killed reader takes along what it was sent.  What a publisher has     *)
(* written travels on, but AMQP-CPP over TLS still holds its messages.     *)
Kill(s) ==
    /\ s \in Running
    /\ Goto(s, "ended")
    /\ \E rest \in {out[s]} \cup (IF Prog(s).library = "async" THEN {<<>>} ELSE {}) :
         /\ out' = [out EXCEPT ![s] = rest]
         /\ killed' = killed \cup ToSet(in[s]) \cup (ToSet(out[s]) \ ToSet(rest))
    /\ in' = [in EXCEPT ![s] = <<>>]
    /\ UNCHANGED <<brokerVars, restarted, runs, author, kept, read>>

(* After a loss the AMQP-CPP publisher still sits in its reading loop, and *)
(* a rabbitmq-c publisher gets there: it looks at no result except that of *)
(* the exchange's declaration, which the newer ones only print.            *)
ReadsOn(s) ==
    \/ Prog(s).library = "async" /\ proc[s].at = "typing"
    \/ /\ Prog(s).library = "c" /\ proc[s].at # "closing"
       /\ proc[s].at = "exchange" => Prog(s) \in {Publish166, Publish167}

(* What becomes of a program that loses its connection.  run_consumer()    *)
(* tries for ever; an amqpcpp publisher ends at its next message.          *)
AfterLoss(s) ==
    CASE proc[s].at \in {"ended", "deaf", "spinning"} -> proc[s].at
      [] proc[s].at = "consuming" /\ Prog(s).library = "c" -> "spinning"
      [] OTHER -> IF Prog(s).role = "publish" /\ ReadsOn(s) THEN "deaf" ELSE "ended"

(* The persistent messages of a queue, in their order.                     *)
Persistent(q) ==
    {[i \in DOMAIN at |-> q[at[i]]] : at \in
        {f \in UNION {[1..n -> DOMAIN q] : n \in 0..Len(q)} :
            /\ \A i, j \in DOMAIN f : i < j => f[i] < f[j]
            /\ ToSet(f) = {k \in DOMAIN q : author[q[k]].persistent}}}

(* The broker restarts: what is durable survives.                          *)
Restart ==
    /\ ~restarted /\ restarted' = TRUE
    /\ queue' = IF queue = "durable" THEN queue ELSE "none"
    /\ exchange' \in CASE exchange = "auto" -> {"none", "auto"}
                       [] exchange = "transient" -> {"none"}
                       [] OTHER -> {exchange}
    /\ bound' = (bound /\ queue' # "none" /\ exchange' # "none")
    /\ IF queue' = "none" THEN messages' = <<>> ELSE messages' \in Persistent(messages)
    /\ kept' = ToSet(messages)
    /\ out' = [s \in Slots |-> <<>>] /\ in' = [s \in Slots |-> <<>>]
    /\ proc' = [s \in Slots |-> Goes(s, AfterLoss(s))]
    /\ UNCHANGED <<runs, author, killed, read>>

Step(s) == \/ DeclareExchange(s) \/ DeclareQueue(s) \/ Bind(s) \/ Closed(s)
           \/ Get(s) \/ GetEmpty(s) \/ GetEnds(s) \/ Show(s) \/ Drained(s)

Next ==
    \/ \E s \in Slots : Step(s) \/ Start(s) \/ Publish(s) \/ End(s) \/ Kill(s)
    \/ \E s \in Slots : Route(s) \/ Deliver(s)
    \/ Restart

Spec == Init /\ [][Next]_vars

(* Some program that can go on goes on; what the users do, and whom the    *)
(* broker pushes a message to, is not promised.                            *)
FairSpec == Spec /\ WF_vars(\E s \in Slots : Step(s))

-----------------------------------------------------------------------------
(* Properties                                                              *)

(* Type correctness of the whole state.                                    *)
TypeOK ==
    /\ exchange \in {"none", "auto", "transient", "durable"}
    /\ queue \in {"none", "transient", "durable"}
    /\ bound \in BOOLEAN /\ restarted \in BOOLEAN
    /\ \A s \in Running :
         proc[s] \in [at : Labels, prog : Programs, named : BOOLEAN, run : 1..MaxRuns,
                     left : Nat, contended : BOOLEAN, shown : Seq(Typed)]
    /\ author \in Seq([run : 1..MaxRuns, named : BOOLEAN, persistent : BOOLEAN,
                       stored : BOOLEAN])
    /\ messages \in Seq(Typed)
    /\ \A s \in Slots : out[s] \in Seq(Typed) /\ in[s] \in Seq(Typed)

(* No message is printed twice, whatever readers run side by side and one  *)
(* after the other, are killed or see the broker restart: a message that a *)
(* reader prints was never printed before (no_ack in all readers).         *)
ReadOnce ==
    [][\A s \in Running, m \in read : ~Printed(s, m, proc'[s].at)]_vars

(* A reader prints the messages of one run of a publisher in the order in  *)
(* which they were typed, also when other readers take some of them.       *)
InOrder ==
    \A s \in Running : \A i, j \in DOMAIN proc[s].shown :
       /\ i < j
       /\ author[proc[s].shown[i]].run = author[proc[s].shown[j]].run
       => proc[s].shown[i] < proc[s].shown[j]

Somewhere == ToSet(messages) \cup read \cup
             UNION {ToSet(out[s]) \cup ToSet(in[s]) : s \in Slots}

(* While the broker stays up, the message of a publisher that was given a  *)
(* queue is under way, in the queue or printed, unless it went down with a *)
(* killed process: no ignored error of a declaration or a bind lets such a *)
(* publisher send messages that the broker then drops.                     *)
NothingLost ==
    ~restarted => \A m \in Typed : author[m].named => m \in Somewhere \cup killed

(* A message in the queue when the broker restarts is not lost if its      *)
(* publisher declares its queue durable and marks its messages persistent  *)
(* (YH-166 to YH-169): a queue of that name that is not durable ends such  *)
(* a publisher or keeps it from publishing.                                *)
SurvivesRestart ==
    \A m \in kept : author[m].stored => m \in Somewhere \cup killed

(* A getter ends, unless another reader took a message that it had         *)
(* counted: only then can a rabbitmq-c getter wait for ever for content.   *)
GettersEnd ==
    \A s \in Slots : proc[s].at = "getting" ~> (proc[s] = Gone \/ proc[s].contended)
=============================================================================
