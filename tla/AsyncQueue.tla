----------------------------- MODULE AsyncQueue -----------------------------
(***************************************************************************)
(* YH-176/libev_ev_async_c.cpp (and libev_ev_async_cpp.cpp, its wrapper in *)
(* a class): producer threads push one message each to a queue and wake a  *)
(* libev loop with ev_async_send; the loop's callback drains the queue and *)
(* decides whether to stop the loop.                                       *)
(*                                                                         *)
(* The callback takes no lock.  At most MaxThreads = 5 strings are ever    *)
(* pushed, all inside one chunk of the deque, so a push racing a pop has   *)
(* the outcomes of the two orders and no other.                            *)
(***************************************************************************)
EXTENDS Integers, Sequences, FiniteSets

CONSTANTS
    NumThreads,  \* argv[1]
    MaxThreads   \* MAX_THREADS

ASSUME ThreadsAssumption == /\ NumThreads \in Nat \ {0}
                            /\ MaxThreads \in Nat

Threads == 0 .. NumThreads - 1   \* mTD[j].t_id
NoThread == -1                   \* queue_mutex is free

VARIABLES
    data_queue,   \* messages, named by the thread that pushed them
    queue_mutex,  \* the thread that holds it, or NoThread
    prc_pthread,
    tot_pthread,
    sent,         \* async_watcher.sent: set by ev_async_send, one bit only
    mpc,          \* where main is
    joined,       \* j of main's join loop
    tpc,          \* where each thread is
    loaded,       \* prc_pthread as each thread's increment read it
    consumed,     \* what the callback printed, in order
    prompt        \* the machine of this run: TRUE, its loop answers a
                  \* wake-up before the sender's sleep(rd) of a second or
                  \* more ends; FALSE, it may be late

vars == <<data_queue, queue_mutex, prc_pthread, tot_pthread, sent, mpc,
          joined, tpc, loaded, consumed, prompt>>

Init == /\ data_queue = <<>>
        /\ queue_mutex = NoThread
        /\ prc_pthread = 0
        /\ tot_pthread = 0
        /\ sent = FALSE
        /\ mpc = IF NumThreads > MaxThreads THEN "rejected" ELSE "create"
        /\ joined = 0
        /\ tpc = [t \in Threads |-> "none"]
        /\ loaded = [t \in Threads |-> 0]
        /\ consumed = <<>>
        /\ prompt \in BOOLEAN

Goto(t, label) == tpc' = [tpc EXCEPT ![t] = label]

-----------------------------------------------------------------------------
(* main and the callback it runs inside ev_run                             *)

CreateThread ==
    /\ mpc = "create"
    /\ tot_pthread < NumThreads
    /\ Goto(tot_pthread, "sleep")
    /\ tot_pthread' = tot_pthread + 1
    /\ UNCHANGED <<data_queue, queue_mutex, prc_pthread, sent, mpc, joined,
                   loaded, consumed, prompt>>

CreateFails ==   \* pthread_create returned an error: exit(-1)
    /\ mpc = "create"
    /\ tot_pthread < NumThreads
    /\ mpc' = "aborted"
    /\ UNCHANGED <<data_queue, queue_mutex, prc_pthread, tot_pthread, sent,
                   joined, tpc, loaded, consumed, prompt>>

RunLoop ==
    /\ mpc = "create"
    /\ tot_pthread = NumThreads
    /\ mpc' = "run"
    /\ UNCHANGED <<data_queue, queue_mutex, prc_pthread, tot_pthread, sent,
                   joined, tpc, loaded, consumed, prompt>>

Dispatch ==      \* libev clears the bit, then calls async_process_data_cb
    /\ mpc = "run"
    /\ sent
    /\ sent' = FALSE
    /\ mpc' = "drain"
    /\ UNCHANGED <<data_queue, queue_mutex, prc_pthread, tot_pthread, joined,
                   tpc, loaded, consumed, prompt>>

PopBack ==       \* mutant of PopOne: prints back() and pops front()
    /\ mpc = "drain"
    /\ data_queue # <<>>
    /\ consumed' = Append(consumed, data_queue[Len(data_queue)])
    /\ data_queue' = Tail(data_queue)
    /\ UNCHANGED <<queue_mutex, prc_pthread, tot_pthread, sent, mpc, joined,
                   tpc, loaded, prompt>>

PopOne ==        \* one turn of while (!data_queue.empty())
    /\ mpc = "drain"
    /\ data_queue # <<>>
    /\ consumed' = Append(consumed, Head(data_queue))
    /\ data_queue' = Tail(data_queue)
    /\ UNCHANGED <<queue_mutex, prc_pthread, tot_pthread, sent, mpc, joined,
                   tpc, loaded, prompt>>

Drained ==
    /\ mpc = "drain"
    /\ data_queue = <<>>
    /\ mpc' = "check"
    /\ UNCHANGED <<data_queue, queue_mutex, prc_pthread, tot_pthread, sent,
                   joined, tpc, loaded, consumed, prompt>>

LastTwo == prc_pthread >= tot_pthread - 2   \* mutant of LastOne
AllCounted == prc_pthread >= tot_pthread    \* mutant: the comment's condition

LastOne == prc_pthread >= tot_pthread - 1

CheckStop ==
    /\ mpc = "check"
    /\ mpc' = IF LastOne THEN "join" ELSE "run"
    /\ UNCHANGED <<data_queue, queue_mutex, prc_pthread, tot_pthread, sent,
                   joined, tpc, loaded, consumed, prompt>>

Join ==
    /\ mpc = "join"
    /\ joined < NumThreads
    /\ tpc[joined] = "done"
    /\ joined' = joined + 1
    /\ UNCHANGED <<data_queue, queue_mutex, prc_pthread, tot_pthread, sent,
                   mpc, tpc, loaded, consumed, prompt>>

Exit ==
    /\ mpc = "join"
    /\ joined = NumThreads
    /\ mpc' = "exited"
    /\ UNCHANGED <<data_queue, queue_mutex, prc_pthread, tot_pthread, sent,
                   joined, tpc, loaded, consumed, prompt>>

-----------------------------------------------------------------------------
(* pthread_generate_data                                                   *)

Wake(t) ==       \* nanosleep of t_id + rd seconds is over
    /\ tpc[t] = "sleep"
    /\ Goto(t, "lock")
    /\ UNCHANGED <<data_queue, queue_mutex, prc_pthread, tot_pthread, sent,
                   mpc, joined, loaded, consumed, prompt>>

LockSkipped(t) ==   \* mutant of Lock: no lock_guard
    /\ tpc[t] = "lock"
    /\ queue_mutex' = t
    /\ Goto(t, "push")
    /\ UNCHANGED <<data_queue, prc_pthread, tot_pthread, sent, mpc, joined,
                   loaded, consumed, prompt>>

Lock(t) ==
    /\ tpc[t] = "lock"
    /\ queue_mutex = NoThread
    /\ queue_mutex' = t
    /\ Goto(t, "push")
    /\ UNCHANGED <<data_queue, prc_pthread, tot_pthread, sent, mpc, joined,
                   loaded, consumed, prompt>>

Push(t) ==
    /\ tpc[t] = "push"
    /\ data_queue' = Append(data_queue, t)
    /\ Goto(t, "send")
    /\ UNCHANGED <<queue_mutex, prc_pthread, tot_pthread, sent, mpc, joined,
                   loaded, consumed, prompt>>

SendUnlocked(t) ==  \* mutant of AsyncSend: the lock's scope ends here
    /\ tpc[t] = "send"
    /\ sent' = TRUE
    /\ queue_mutex' = NoThread
    /\ Goto(t, "hold")
    /\ UNCHANGED <<data_queue, prc_pthread, tot_pthread, mpc, joined, loaded,
                   consumed, prompt>>

AsyncSend(t) ==
    /\ tpc[t] = "send"
    /\ sent' = TRUE
    /\ Goto(t, "hold")
    /\ UNCHANGED <<data_queue, queue_mutex, prc_pthread, tot_pthread, mpc,
                   joined, loaded, consumed, prompt>>

CallbackOver == /\ mpc \notin {"drain", "check"}
                /\ mpc \in {"create", "run"} => ~sent

SleepOver(t) ==  \* sleep(rd), with queue_mutex held, then prc_pthread is read
    /\ tpc[t] = "hold"
    /\ prompt => CallbackOver
    /\ loaded' = [loaded EXCEPT ![t] = prc_pthread]
    /\ Goto(t, "count")
    /\ UNCHANGED <<data_queue, queue_mutex, prc_pthread, tot_pthread, sent,
                   mpc, joined, consumed, prompt>>

Count(t) ==      \* prc_pthread++ stores
    /\ tpc[t] = "count"
    /\ prc_pthread' = loaded[t] + 1
    /\ Goto(t, "unlock")
    /\ UNCHANGED <<data_queue, queue_mutex, tot_pthread, sent, mpc, joined,
                   loaded, consumed, prompt>>

ExitThread(t) == \* pthread_exit unwinds the lock_guard
    /\ tpc[t] = "unlock"
    /\ queue_mutex' = NoThread
    /\ Goto(t, "done")
    /\ UNCHANGED <<data_queue, prc_pthread, tot_pthread, sent, mpc, joined,
                   loaded, consumed, prompt>>

-----------------------------------------------------------------------------
Main == \/ CreateThread \/ CreateFails \/ RunLoop \/ Dispatch \/ PopOne
        \/ Drained \/ CheckStop \/ Join \/ Exit

Thread(t) == \/ Wake(t) \/ Lock(t) \/ Push(t) \/ AsyncSend(t) \/ SleepOver(t)
             \/ Count(t) \/ ExitThread(t)

SomeThread == mpc # "aborted" /\ \E t \in Threads : Thread(t)

ProcessOver == mpc \in {"exited", "aborted", "rejected"} /\ UNCHANGED vars

Next == Main \/ SomeThread \/ ProcessOver

Spec == Init /\ [][Next]_vars

(* Every thread is scheduled, sleeps end, and libev dispatches a pending   *)
(* watcher; nothing forces pthread_create to fail.                         *)
Fairness == /\ WF_vars(Main /\ mpc' # "aborted")
            /\ \A t \in Threads : WF_vars(mpc # "aborted" /\ Thread(t))

FairSpec == Spec /\ Fairness

-----------------------------------------------------------------------------
(* The values each variable can take: a message is pushed at most once and *)
(* the counters never pass NumThreads.                                     *)
TypeOK ==
    /\ data_queue \in Seq(Threads)
    /\ consumed \in Seq(Threads)
    /\ queue_mutex \in Threads \cup {NoThread}
    /\ prc_pthread \in 0 .. NumThreads
    /\ tot_pthread \in 0 .. NumThreads
    /\ sent \in BOOLEAN
    /\ mpc \in {"create", "run", "drain", "check", "join", "exited", "aborted",
                "rejected"}
    /\ joined \in 0 .. NumThreads
    /\ tpc \in [Threads -> {"none", "sleep", "lock", "push", "send", "hold",
                            "count", "unlock", "done"}]
    /\ loaded \in [Threads -> 0 .. NumThreads]
    /\ prompt \in BOOLEAN

Counted == {t \in Threads : tpc[t] \in {"unlock", "done"}}
Waked == {t \in Threads : tpc[t] \in {"hold", "count", "unlock", "done"}}

(* prc_pthread++ is a load and a store, and still no increment is lost:    *)
(* between two steps of anything, the counter is the number of threads     *)
(* past it (l.104, protected by the lock_guard of l.97).                   *)
PrcExact == prc_pthread = Cardinality(Counted)

(* One bit stands for any number of ev_async_send calls, so a wake-up can  *)
(* be absorbed by a callback that is already under way.  The loop is never *)
(* left asleep for good: when every thread has sent and the loop still     *)
(* runs, the bit is set (l.46 and l.100-104).                              *)
NoLostWakeup == (mpc \in {"create", "run"} /\ Waked = Threads) => sent

(* The loop is stopped only when at most one thread has its count to make  *)
(* (l.46-48), so main's join waits for one thread's sleep at most.         *)
StopIsJustified ==
    mpc \in {"join", "exited"} => Cardinality(Threads \ Counted) <= 1

(* If the loop answers within the second the sender sleeps, then every     *)
(* message was printed when the process ends (l.40-48, l.102).             *)
AllDelivered ==
    (prompt /\ mpc = "exited") =>
        /\ data_queue = <<>>
        /\ \A t \in Threads : \E i \in 1 .. Len(consumed) : consumed[i] = t

(* The process ends, whatever the order of the threads (l.158-177).        *)
Termination == <>(mpc \in {"exited", "aborted", "rejected"})

(* The messages pass through the queue first in, first out, each once.     *)
Fifo == INSTANCE FifoDelivery WITH
            Producers <- Threads,
            idle <- {t \in Threads :
                        tpc[t] \in {"none", "sleep", "lock", "push"}},
            queue <- data_queue,
            delivered <- consumed
FifoSpec == Fifo!Spec
=============================================================================
