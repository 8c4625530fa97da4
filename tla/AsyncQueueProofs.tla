-------------------------- MODULE AsyncQueueProofs --------------------------
(***************************************************************************)
(* Theorems about AsyncQueue, for every number of threads.                 *)
(*                                                                         *)
(* The inductive invariant IInv ties the mutex to the program counters, so *)
(* that the load and the store of prc_pthread++ have nobody between them.  *)
(***************************************************************************)
EXTENDS AsyncQueue, FiniteSetTheorems, SequenceTheorems, TLAPS

Inside == {"push", "send", "hold", "count", "unlock"}

LockHeld == \A t \in Threads : tpc[t] \in Inside <=> queue_mutex = t

LoadFresh == \A t \in Threads : tpc[t] = "count" => loaded[t] = prc_pthread

Created == \A t \in Threads : t >= tot_pthread => tpc[t] = "none"

IInv == TypeOK /\ LockHeld /\ PrcExact /\ LoadFresh /\ Created

(* Threads is finite, and so is every set of threads; a set of all threads *)
(* but one has NumThreads - 1 elements.                                    *)
LEMMA ThreadSets ==
    /\ IsFiniteSet(Threads)
    /\ Cardinality(Threads) = NumThreads
    /\ \A S \in SUBSET Threads : /\ IsFiniteSet(S)
                                 /\ Cardinality(S) \in 0 .. NumThreads
    /\ \A S \in SUBSET Threads : Cardinality(S) = NumThreads => S = Threads
    /\ \A t \in Threads : \A S \in SUBSET Threads :
            Threads \ {t} \subseteq S => Cardinality(S) >= NumThreads - 1
    /\ \A t \in Threads : \A S \in SUBSET Threads :
            /\ t \notin S
            /\ Cardinality(S) >= NumThreads - 1
            => S = Threads \ {t}
<1>1. IsFiniteSet(Threads) /\ Cardinality(Threads) = NumThreads
  BY FS_Interval, ThreadsAssumption DEF Threads
<1>2. \A S \in SUBSET Threads :
          IsFiniteSet(S) /\ Cardinality(S) \in 0 .. NumThreads
  BY <1>1, FS_Subset, FS_CardinalityType
<1>3. \A S \in SUBSET Threads : Cardinality(S) = NumThreads => S = Threads
  BY <1>1, FS_Subset
<1>4. ASSUME NEW t \in Threads
      PROVE  IsFiniteSet(Threads \ {t})
             /\ Cardinality(Threads \ {t}) = NumThreads - 1
  BY <1>1, FS_RemoveElement
<1>5. ASSUME NEW t \in Threads, NEW S \in SUBSET Threads,
             Threads \ {t} \subseteq S
      PROVE  Cardinality(S) >= NumThreads - 1
  <2>1. IsFiniteSet(S) /\ Cardinality(S) \in 0 .. NumThreads
    BY <1>2
  <2>2. Cardinality(Threads \ {t}) <= Cardinality(S)
    BY <1>5, <2>1, FS_Subset
  <2> QED BY <2>1, <2>2, <1>4
<1>6. ASSUME NEW t \in Threads, NEW S \in SUBSET Threads,
             t \notin S, Cardinality(S) >= NumThreads - 1
      PROVE  S = Threads \ {t}
  <2>1. S \in SUBSET (Threads \ {t})
    BY <1>6
  <2>2. Cardinality(S) <= Cardinality(Threads \ {t})
    BY <1>4, <2>1, FS_Subset
  <2>3. Cardinality(S) = Cardinality(Threads \ {t})
    BY <1>2, <1>4, <1>6, <2>2, ThreadsAssumption
  <2> QED BY <1>4, <2>1, <2>3, FS_Subset
<1> QED BY <1>1, <1>2, <1>3, <1>5, <1>6

LEMMA InitIInv == Init => IInv
<1> SUFFICES ASSUME Init PROVE IInv
  OBVIOUS
<1>1. Counted = {}
  BY DEF Init, Counted
<1>2. PrcExact
  BY <1>1, FS_EmptySet DEF Init, PrcExact
<1>3. TypeOK
  <2>1. mpc \in {"create", "rejected"}
    BY DEF Init
  <2>2. <<>> \in Seq(Threads)
    BY EmptySeq
  <2>3. 0 \in 0 .. NumThreads
    BY ThreadsAssumption
  <2> QED BY <2>1, <2>2, <2>3 DEF Init, TypeOK
<1>4. LockHeld /\ LoadFresh /\ Created
  BY ThreadsAssumption DEF Init, LockHeld, LoadFresh, Created, Inside, Threads, NoThread
<1> QED BY <1>2, <1>3, <1>4 DEF IInv

(* The steps of main leave the mutex, the counter and, but for the thread  *)
(* it creates, every thread's place alone.                                 *)
LEMMA MainIInv == IInv /\ Main => IInv'
<1> SUFFICES ASSUME IInv, Main PROVE IInv'
  OBVIOUS
<1> USE DEF IInv
<1>1. CASE CreateThread
  <2>1. tot_pthread \in Threads /\ tpc[tot_pthread] = "none"
    BY <1>1, ThreadsAssumption DEF CreateThread, Created, Threads, TypeOK
  <2>2. TypeOK'
    <3>1. tot_pthread' \in 0 .. NumThreads
      BY <1>1, ThreadsAssumption DEF CreateThread, TypeOK
    <3> QED BY <1>1, <2>1, <3>1 DEF CreateThread, Goto, TypeOK
  <2>3. Counted' = Counted
    BY <1>1, <2>1 DEF CreateThread, Goto, Counted, TypeOK
  <2>4. PrcExact'
    BY <1>1, <2>3 DEF CreateThread, PrcExact
  <2>5. LockHeld' /\ LoadFresh'
    BY <1>1, <2>1 DEF CreateThread, Goto, LockHeld, LoadFresh, Inside, TypeOK
  <2>6. Created'
    BY <1>1, <2>1 DEF CreateThread, Goto, Created, TypeOK, Threads
  <2> QED BY <2>2, <2>4, <2>5, <2>6
<1>2. CASE PopOne
  <2>1. TypeOK'
    <3>1. Head(data_queue) \in Threads /\ Tail(data_queue) \in Seq(Threads)
      BY <1>2, HeadTailProperties DEF PopOne, TypeOK
    <3>2. Append(consumed, Head(data_queue)) \in Seq(Threads)
      BY <3>1, AppendProperties DEF TypeOK
    <3> QED BY <1>2, <3>1, <3>2 DEF PopOne, TypeOK
  <2> QED BY <1>2, <2>1 DEF PopOne, LockHeld, PrcExact, LoadFresh, Created,
                            Counted
<1>3. CASE Join
  <2>1. TypeOK'
    BY <1>3, ThreadsAssumption DEF Join, TypeOK
  <2> QED BY <1>3, <2>1 DEF Join, LockHeld, PrcExact, LoadFresh, Created,
                            Counted
<1>4. CASE CreateFails \/ RunLoop \/ Dispatch \/ Drained \/ CheckStop \/ Exit
  <2>1. TypeOK'
    BY <1>4 DEF CreateFails, RunLoop, Dispatch, Drained, CheckStop, Exit, TypeOK
  <2> QED BY <1>4, <2>1 DEF CreateFails, RunLoop, Dispatch, Drained, CheckStop,
                            Exit, LockHeld, PrcExact, LoadFresh, Created, Counted
<1> QED BY <1>1, <1>2, <1>3, <1>4 DEF Main

(* A thread's steps; only Count moves a thread into Counted, and then the  *)
(* counter it stores is one more than the counter there is.                *)
LEMMA ThreadIInv == \A t \in Threads : IInv /\ Thread(t) => IInv'
<1> SUFFICES ASSUME NEW t \in Threads, IInv, Thread(t) PROVE IInv'
  OBVIOUS
<1> USE DEF IInv
<1>0. t # NoThread /\ t \in Int
  BY ThreadsAssumption DEF Threads, NoThread
<1>1. CASE Wake(t)
  <2>1. TypeOK' /\ LockHeld' /\ LoadFresh' /\ Created'
    BY <1>1 DEF Wake, Goto, TypeOK, LockHeld, LoadFresh, Created, Inside
  <2>2. Counted' = Counted
    BY <1>1 DEF Wake, Goto, Counted, TypeOK
  <2> QED BY <1>1, <2>1, <2>2 DEF Wake, PrcExact
<1>2. CASE Lock(t)
  <2>1. TypeOK' /\ LoadFresh' /\ Created'
    BY <1>2 DEF Lock, Goto, TypeOK, LoadFresh, Created
  <2>2. LockHeld'
    BY <1>0, <1>2 DEF Lock, Goto, TypeOK, LockHeld, Inside, NoThread, Threads
  <2>3. Counted' = Counted
    BY <1>2 DEF Lock, Goto, Counted, TypeOK
  <2> QED BY <1>2, <2>1, <2>2, <2>3 DEF Lock, PrcExact
<1>3. CASE Push(t)
  <2>1. TypeOK'
    <3>1. Append(data_queue, t) \in Seq(Threads)
      BY AppendProperties DEF TypeOK
    <3> QED BY <1>3, <3>1 DEF Push, Goto, TypeOK
  <2>2. LockHeld' /\ LoadFresh' /\ Created'
    BY <1>3 DEF Push, Goto, TypeOK, LockHeld, LoadFresh, Created, Inside
  <2>3. Counted' = Counted
    BY <1>3 DEF Push, Goto, Counted, TypeOK
  <2> QED BY <1>3, <2>1, <2>2, <2>3 DEF Push, PrcExact
<1>4. CASE AsyncSend(t)
  <2>1. TypeOK' /\ LockHeld' /\ LoadFresh' /\ Created'
    BY <1>4 DEF AsyncSend, Goto, TypeOK, LockHeld, LoadFresh, Created, Inside
  <2>2. Counted' = Counted
    BY <1>4 DEF AsyncSend, Goto, Counted, TypeOK
  <2> QED BY <1>4, <2>1, <2>2 DEF AsyncSend, PrcExact
<1>5. CASE SleepOver(t)
  <2>1. TypeOK' /\ LockHeld' /\ LoadFresh' /\ Created'
    BY <1>5 DEF SleepOver, Goto, TypeOK, LockHeld, LoadFresh, Created, Inside
  <2>2. Counted' = Counted
    BY <1>5 DEF SleepOver, Goto, Counted, TypeOK
  <2> QED BY <1>5, <2>1, <2>2 DEF SleepOver, PrcExact
<1>6. CASE Count(t)
  <2>1. Counted' = Counted \cup {t} /\ t \notin Counted
    BY <1>6 DEF Count, Goto, Counted, TypeOK
  <2>2. Counted \in SUBSET Threads /\ Counted' \in SUBSET Threads
    BY DEF Counted
  <2>3. Cardinality(Counted') = Cardinality(Counted) + 1
    BY <2>1, <2>2, ThreadSets, FS_AddElement
  <2>4. prc_pthread' = prc_pthread + 1
    BY <1>6 DEF Count, LoadFresh
  <2>5. PrcExact'
    BY <2>3, <2>4 DEF PrcExact
  <2>6. prc_pthread' \in 0 .. NumThreads
    BY <2>2, <2>3, <2>4, ThreadSets DEF PrcExact
  <2>7. TypeOK'
    BY <1>6, <2>6 DEF Count, Goto, TypeOK
  <2>8. LockHeld' /\ Created'
    BY <1>6 DEF Count, Goto, TypeOK, LockHeld, Created, Inside
  <2>9. LoadFresh'
    BY <1>6 DEF Count, Goto, TypeOK, LockHeld, LoadFresh, Inside
  <2> QED BY <2>5, <2>7, <2>8, <2>9
<1>7. CASE ExitThread(t)
  <2>1. TypeOK' /\ LoadFresh' /\ Created'
    BY <1>7 DEF ExitThread, Goto, TypeOK, LoadFresh, Created
  <2>2. LockHeld'
    BY <1>0, <1>7 DEF ExitThread, Goto, TypeOK, LockHeld, Inside, NoThread, Threads
  <2>3. Counted' = Counted
    BY <1>7 DEF ExitThread, Goto, Counted, TypeOK
  <2> QED BY <1>7, <2>1, <2>2, <2>3 DEF ExitThread, PrcExact
<1> QED BY <1>1, <1>2, <1>3, <1>4, <1>5, <1>6, <1>7 DEF Thread

LEMMA StutterIInv == IInv /\ UNCHANGED vars => IInv'
BY DEF IInv, TypeOK, LockHeld, PrcExact, LoadFresh, Created, Counted, vars

LEMMA NextIInv == IInv /\ [Next]_vars => IInv'
BY MainIInv, ThreadIInv, StutterIInv DEF Next, SomeThread, ProcessOver

(* Every variable keeps to its type and prc_pthread to 0 .. NumThreads.    *)
THEOREM TypeCorrect == Spec => []TypeOK
<1>1. IInv => TypeOK
  BY DEF IInv
<1> QED BY InitIInv, NextIInv, <1>1, PTL DEF Spec

(* prc_pthread++ of l.104 loses no increment: the counter is exactly the   *)
(* number of threads past it, for any number of threads.                   *)
THEOREM CountIsExact == Spec => []PrcExact
<1>1. IInv => PrcExact
  BY DEF IInv
<1> QED BY InitIInv, NextIInv, <1>1, PTL DEF Spec
-----------------------------------------------------------------------------
(* A thread that is past its send and has not counted itself is inside the *)
(* lock, so there is at most one: when all have sent, LastOne holds.       *)
LEMMA AllSentIsLast == IInv /\ Waked = Threads => LastOne
<1> SUFFICES ASSUME IInv, Waked = Threads PROVE LastOne
  OBVIOUS
<1>1. \A t \in Threads \ Counted : queue_mutex = t
  BY DEF IInv, LockHeld, Waked, Counted, Inside
<1>2. Counted \in SUBSET Threads /\ Cardinality(Threads) = NumThreads
  BY ThreadSets DEF Counted
<1>3. prc_pthread >= NumThreads - 1
  <2>1. CASE Counted = Threads
    BY <1>2, <2>1, ThreadsAssumption DEF IInv, PrcExact
  <2>2. CASE Counted # Threads
    <3>1. PICK t \in Threads : t \notin Counted
      BY <1>2, <2>2
    <3>2. Threads \ {t} \subseteq Counted
      BY <1>1, <3>1
    <3> QED BY <1>2, <3>1, <3>2, ThreadSets DEF IInv, PrcExact
  <2> QED BY <2>1, <2>2
<1> QED BY <1>3, ThreadsAssumption DEF IInv, TypeOK, LastOne

(* The wake-up bit is one bit and a callback clears it, yet the loop never *)
(* sleeps with every send behind it (l.46, l.97-104): the send of the last *)
(* thread comes after the increments of all the others.                    *)
THEOREM WakeupPending == Spec => []NoLostWakeup
<1>1. Init => NoLostWakeup
  <2> SUFFICES ASSUME Init PROVE Waked # Threads
    BY DEF NoLostWakeup
  <2>1. 0 \in Threads /\ tpc[0] = "none"
    BY ThreadsAssumption DEF Init, Threads
  <2> QED BY <2>1 DEF Waked
<1>2. IInv /\ NoLostWakeup /\ [Next]_vars => NoLostWakeup'
  <2> SUFFICES ASSUME IInv, NoLostWakeup, [Next]_vars,
                      mpc' \in {"create", "run"}, Waked' = Threads
               PROVE  sent'
    BY DEF NoLostWakeup
  <2> USE DEF IInv
  <2>1. CASE CreateThread
    <3>1. tot_pthread \in Threads
      BY <2>1, ThreadsAssumption DEF CreateThread, TypeOK, Threads
    <3> QED BY <2>1, <3>1 DEF CreateThread, Goto, Waked, TypeOK
  <2>2. CASE CheckStop
    <3>1. Waked = Threads /\ ~ LastOne
      BY <2>2 DEF CheckStop, Waked
    <3> QED BY <3>1, AllSentIsLast
  <2>3. CASE RunLoop \/ Join \/ UNCHANGED vars
    BY <2>3 DEF RunLoop, Join, vars, Waked, NoLostWakeup
  <2>4. CASE CreateFails \/ Dispatch \/ PopOne \/ Drained \/ Exit
    BY <2>4 DEF CreateFails, Dispatch, PopOne, Drained, Exit
  <2>5. ASSUME NEW t \in Threads, AsyncSend(t) PROVE sent'
    BY <2>5 DEF AsyncSend
  <2>6. ASSUME NEW t \in Threads,
               \/ Wake(t) \/ Lock(t) \/ Push(t)
               \/ SleepOver(t) \/ Count(t) \/ ExitThread(t)
        PROVE  sent'
    <3>1. Waked' = Waked
      BY <2>6 DEF Wake, Lock, Push, SleepOver, Count, ExitThread, Goto, Waked, TypeOK
    <3>2. sent' = sent /\ mpc' = mpc
      BY <2>6 DEF Wake, Lock, Push, SleepOver, Count, ExitThread
    <3> QED BY <3>1, <3>2 DEF NoLostWakeup
  <2> QED BY <2>1, <2>2, <2>3, <2>4, <2>5, <2>6
         DEF Next, Main, SomeThread, Thread, ProcessOver
<1> QED BY InitIInv, NextIInv, <1>1, <1>2, PTL DEF Spec

-----------------------------------------------------------------------------
LoopStarted == mpc \in {"run", "drain", "check", "join", "exited"} =>
                   tot_pthread = NumThreads

LEMMA StartedInv ==
    /\ Init => LoopStarted
    /\ TypeOK /\ LoopStarted /\ [Next]_vars => LoopStarted'
<1>1. Init => LoopStarted
  BY DEF Init, LoopStarted
<1>2. TypeOK /\ LoopStarted /\ [Next]_vars => LoopStarted'
  <2> SUFFICES ASSUME TypeOK, LoopStarted, [Next]_vars PROVE LoopStarted'
    OBVIOUS
  <2>1. CASE Main
    BY <2>1 DEF Main, CreateThread, CreateFails, RunLoop, Dispatch, PopOne,
                Drained, CheckStop, Join, Exit, LoopStarted
  <2>2. ASSUME NEW t \in Threads, Thread(t) PROVE LoopStarted'
    BY <2>2 DEF Thread, Wake, Lock, Push, AsyncSend, SleepOver, Count,
                ExitThread, LoopStarted
  <2>3. CASE UNCHANGED vars
    BY <2>3 DEF vars, LoopStarted
  <2> QED BY <2>1, <2>2, <2>3 DEF Next, SomeThread, ProcessOver
<1> QED BY <1>1, <1>2

(* main's pthread_join has at most one thread's sleep to wait for: the     *)
(* loop is stopped (l.46-48) when all threads but one are counted.         *)
THEOREM StopJustified == Spec => []StopIsJustified
<1> DEFINE AllButOne == mpc \in {"join", "exited"} => prc_pthread >= NumThreads - 1
<1>1. Init => AllButOne
  BY DEF Init
<1>2. IInv /\ LoopStarted /\ AllButOne /\ [Next]_vars => AllButOne'
  <2> SUFFICES ASSUME IInv, LoopStarted, AllButOne, [Next]_vars,
                      mpc' \in {"join", "exited"}
               PROVE  prc_pthread' >= NumThreads - 1
    OBVIOUS
  <2> USE DEF IInv, TypeOK
  <2>1. CASE CheckStop
    BY <2>1, ThreadsAssumption DEF CheckStop, LastOne, LoopStarted
  <2>2. CASE Main /\ ~CheckStop
    BY <2>2 DEF Main, CreateThread, CreateFails, RunLoop, Dispatch, PopOne,
                Drained, Join, Exit
  <2>3. ASSUME NEW t \in Threads, Thread(t)
        PROVE  prc_pthread' >= prc_pthread /\ mpc' = mpc
    BY <2>3 DEF Thread, Wake, Lock, Push, AsyncSend, SleepOver, Count,
                ExitThread, LoadFresh
  <2>4. prc_pthread' \in 0 .. NumThreads
    BY NextIInv
  <2>5. CASE UNCHANGED vars
    BY <2>5 DEF vars
  <2>6. CASE \E t \in Threads : Thread(t)
    BY <2>3, <2>4, <2>6, ThreadsAssumption
  <2> QED BY <2>1, <2>2, <2>5, <2>6 DEF Next, SomeThread, ProcessOver
<1>3. IInv /\ AllButOne => StopIsJustified
  <2> SUFFICES ASSUME IInv, prc_pthread >= NumThreads - 1
               PROVE  Cardinality(Threads \ Counted) <= 1
    BY DEF StopIsJustified
  <2>1. Counted \in SUBSET Threads /\ Cardinality(Counted) >= NumThreads - 1
    BY DEF IInv, PrcExact, Counted
  <2>2. CASE Counted = Threads
    BY <2>2, FS_EmptySet
  <2>3. CASE Counted # Threads
    <3>1. PICK t \in Threads : t \notin Counted
      BY <2>1, <2>3
    <3>2. Threads \ Counted = {t}
      BY <2>1, <3>1, ThreadSets
    <3> QED BY <3>2, FS_Singleton
  <2> QED BY <2>2, <2>3
<1>4. IInv => TypeOK
  BY DEF IInv
<1> QED BY InitIInv, NextIInv, StartedInv, <1>1, <1>2, <1>3, <1>4, PTL DEF Spec

-----------------------------------------------------------------------------
(* The threads, the mutex and the loop implement FifoDelivery: only Push   *)
(* and PopOne are visible to it, every other step is a stutter.            *)
THEOREM ImplementsFifo == Spec => FifoSpec
<1> DEFINE Waiting == {t \in Threads : tpc[t] \in {"none", "sleep", "lock", "push"}}
<1>1. Init => Fifo!Init
  BY DEF Init, Fifo!Init
<1>2. TypeOK /\ Created /\ [Next]_vars => [Fifo!Next]_(Fifo!fifoVars)
  <2> SUFFICES ASSUME TypeOK, Created, [Next]_vars
               PROVE  Fifo!Next \/ UNCHANGED <<Waiting, data_queue, consumed>>
    BY DEF Fifo!fifoVars
  <2>1. CASE PopOne
    <3>1. Waiting' = Waiting
      BY <2>1 DEF PopOne
    <3> QED BY <2>1, <3>1 DEF PopOne, Fifo!Next, Fifo!Take
  <2>2. CASE CreateThread
    <3>1. tot_pthread \in Threads /\ tpc[tot_pthread] = "none"
      BY <2>2, ThreadsAssumption DEF CreateThread, Created, Threads, TypeOK
    <3>2. Waiting' = Waiting
      BY <2>2, <3>1 DEF CreateThread, Goto, TypeOK
    <3> QED BY <2>2, <3>2 DEF CreateThread
  <2>3. CASE Main /\ ~PopOne /\ ~CreateThread
    BY <2>3 DEF Main, CreateFails, RunLoop, Dispatch, Drained, CheckStop, Join, Exit
  <2>4. ASSUME NEW t \in Threads, Push(t) PROVE Fifo!Produce(t)
    <3>1. Waiting' = Waiting \ {t} /\ t \in Waiting
      BY <2>4 DEF Push, Goto, TypeOK
    <3> QED BY <2>4, <3>1 DEF Push, Fifo!Produce
  <2>5. ASSUME NEW t \in Threads,
               \/ Wake(t) \/ Lock(t) \/ AsyncSend(t)
               \/ SleepOver(t) \/ Count(t) \/ ExitThread(t)
        PROVE  UNCHANGED <<Waiting, data_queue, consumed>>
    <3>1. Waiting' = Waiting
      BY <2>5 DEF Wake, Lock, AsyncSend, SleepOver, Count, ExitThread, Goto, TypeOK
    <3> QED BY <2>5, <3>1 DEF Wake, Lock, AsyncSend, SleepOver, Count, ExitThread
  <2>6. CASE UNCHANGED vars
    BY <2>6 DEF vars
  <2> QED BY <2>1, <2>2, <2>3, <2>4, <2>5, <2>6
         DEF Next, SomeThread, Thread, ProcessOver, Fifo!Next
<1>3. IInv => TypeOK /\ Created
  BY DEF IInv
<1> QED BY InitIInv, NextIInv, <1>1, <1>2, <1>3, PTL DEF Spec, FifoSpec, Fifo!Spec

-----------------------------------------------------------------------------
(* Delivery, under the assumption that the loop is prompt.  A pushed       *)
(* message is queued or printed; while the loop runs, a queued message has *)
(* its wake-up on the way; and the thread whose wake-up is on the way or   *)
(* being answered is asleep inside the lock, so nobody else pushes.        *)
Pushed == {t \in Threads : tpc[t] \in {"send", "hold", "count", "unlock", "done"}}

Elems(s) == {s[i] : i \in 1 .. Len(s)}

Kept == Pushed \subseteq Elems(data_queue) \cup Elems(consumed)

Answering ==
    /\ mpc \in {"create", "run"} /\ data_queue # <<>> =>
           sent \/ \E t \in Threads : tpc[t] = "send"
    /\ mpc \in {"create", "run"} /\ sent => \E t \in Threads : tpc[t] = "hold"
    /\ mpc \in {"drain", "check"} => \E t \in Threads : tpc[t] = "hold"
    /\ mpc = "check" => data_queue = <<>>
    /\ mpc \in {"join", "exited"} => data_queue = <<>> /\ Pushed = Threads

LEMMA ElemsOf ==
    ASSUME NEW s \in Seq(Threads), NEW t \in Threads
    PROVE  /\ Elems(Append(s, t)) = Elems(s) \cup {t}
           /\ s # <<>> => Elems(s) = {Head(s)} \cup Elems(Tail(s))
<1>1. Elems(Append(s, t)) = Elems(s) \cup {t}
  <2>1. Len(Append(s, t)) = Len(s) + 1 /\ Len(s) \in Nat
    BY AppendProperties, LenProperties
  <2>2. /\ \A i \in 1 .. Len(s) : Append(s, t)[i] = s[i]
        /\ Append(s, t)[Len(s) + 1] = t
    BY AppendProperties
  <2>3. ASSUME NEW x \in Elems(Append(s, t)) PROVE x \in Elems(s) \cup {t}
    BY <2>1, <2>2 DEF Elems
  <2>4. ASSUME NEW x \in Elems(s) PROVE x \in Elems(Append(s, t))
    BY <2>1, <2>2 DEF Elems
  <2>5. t \in Elems(Append(s, t))
    BY <2>1, <2>2 DEF Elems
  <2> QED BY <2>3, <2>4, <2>5
<1>2. ASSUME s # <<>> PROVE Elems(s) = {Head(s)} \cup Elems(Tail(s))
  <2>1. /\ Len(s) \in Nat \ {0} /\ Len(Tail(s)) = Len(s) - 1
        /\ \A i \in 1 .. Len(Tail(s)) : Tail(s)[i] = s[i + 1]
    BY <1>2, HeadTailProperties, EmptySeq
  <2>2. Head(s) = s[1]
    BY <1>2
  <2>3. ASSUME NEW x \in Elems(s) PROVE x \in {Head(s)} \cup Elems(Tail(s))
    <3>1. PICK i \in 1 .. Len(s) : x = s[i]
      BY <2>3 DEF Elems
    <3>2. CASE i = 1
      BY <3>1, <3>2, <2>2
    <3>3. CASE i # 1
      <4>1. i - 1 \in 1 .. Len(Tail(s)) /\ Tail(s)[i - 1] = x
        BY <2>1, <3>1, <3>3
      <4> QED BY <4>1 DEF Elems
    <3> QED BY <3>2, <3>3
  <2>4. ASSUME NEW x \in Elems(Tail(s)) PROVE x \in Elems(s)
    <3>1. PICK i \in 1 .. Len(Tail(s)) : x = Tail(s)[i]
      BY <2>4 DEF Elems
    <3>2. i + 1 \in 1 .. Len(s) /\ s[i + 1] = x
      BY <2>1, <3>1
    <3> QED BY <3>2 DEF Elems
  <2>5. Head(s) \in Elems(s)
    BY <2>1, <2>2 DEF Elems
  <2> QED BY <2>3, <2>4, <2>5
<1> QED BY <1>1, <1>2

LEMMA KeptInv ==
    /\ Init => Kept
    /\ IInv /\ Kept /\ [Next]_vars => Kept'
<1>1. Init => Kept
  BY DEF Init, Kept, Pushed
<1>2. IInv /\ Kept /\ [Next]_vars => Kept'
  <2> SUFFICES ASSUME TypeOK, Created, Kept, [Next]_vars PROVE Kept'
    BY DEF IInv
  <2>1. CASE PopOne
    <3>1. Head(data_queue) \in Threads
      BY <2>1, HeadTailProperties DEF PopOne, TypeOK
    <3>2. /\ Elems(data_queue) = {Head(data_queue)} \cup Elems(data_queue')
          /\ Elems(consumed') = Elems(consumed) \cup {Head(data_queue)}
      BY <2>1, <3>1, ElemsOf DEF PopOne, TypeOK
    <3>3. Pushed' = Pushed
      BY <2>1 DEF PopOne, Pushed
    <3> QED BY <3>2, <3>3 DEF Kept
  <2>2. CASE CreateThread
    <3>1. tot_pthread \in Threads
      BY <2>2, ThreadsAssumption DEF CreateThread, Threads, TypeOK
    <3>2. Pushed' \subseteq Pushed
      BY <2>2, <3>1 DEF CreateThread, Goto, TypeOK, Pushed
    <3> QED BY <2>2, <3>2 DEF CreateThread, Kept, Elems
  <2>3. CASE Main /\ ~PopOne /\ ~CreateThread
    BY <2>3 DEF Main, CreateFails, RunLoop, Dispatch, Drained, CheckStop, Join,
                Exit, Kept, Pushed, Elems
  <2>4. ASSUME NEW t \in Threads, Push(t) PROVE Kept'
    <3>1. Elems(data_queue') = Elems(data_queue) \cup {t}
      BY <2>4, ElemsOf DEF Push, TypeOK
    <3>2. Pushed' = Pushed \cup {t} /\ consumed' = consumed
      BY <2>4 DEF Push, Goto, TypeOK, Pushed
    <3> QED BY <3>1, <3>2 DEF Kept
  <2>5. ASSUME NEW t \in Threads,
               \/ Wake(t) \/ Lock(t) \/ AsyncSend(t)
               \/ SleepOver(t) \/ Count(t) \/ ExitThread(t)
        PROVE  Kept'
    <3>1. Pushed' = Pushed
      BY <2>5 DEF Wake, Lock, AsyncSend, SleepOver, Count, ExitThread, Goto,
                  TypeOK, Pushed
    <3>2. UNCHANGED <<data_queue, consumed>>
      BY <2>5 DEF Wake, Lock, AsyncSend, SleepOver, Count, ExitThread
    <3> QED BY <3>1, <3>2 DEF Kept
  <2>6. CASE UNCHANGED vars
    BY <2>6 DEF vars, Kept, Pushed, Elems
  <2> QED BY <2>1, <2>2, <2>3, <2>4, <2>5, <2>6
         DEF Next, SomeThread, Thread, ProcessOver
<1> QED BY <1>1, <1>2

LEMMA AnsweringInv ==
    /\ Init => Answering
    /\ prompt /\ IInv /\ LoopStarted /\ Answering /\ [Next]_vars => Answering'
<1>1. Init => Answering
  BY DEF Init, Answering
<1>2. prompt /\ IInv /\ LoopStarted /\ Answering /\ [Next]_vars => Answering'
  <2> SUFFICES ASSUME prompt, IInv, LoopStarted, Answering, [Next]_vars
               PROVE  Answering'
    OBVIOUS
  <2>t. TypeOK /\ LockHeld /\ Created
    BY DEF IInv
  <2>1. CASE CreateThread
    <3>1. tot_pthread \in Threads /\ tpc[tot_pthread] = "none"
      BY <2>1, <2>t, ThreadsAssumption DEF CreateThread, Created, Threads, TypeOK
    <3> QED BY <2>1, <2>t, <3>1 DEF CreateThread, Goto, Answering, TypeOK
  <2>2. CASE CheckStop
    <3>1. PICK t \in Threads : tpc[t] = "hold"
      BY <2>2 DEF CheckStop, Answering
    <3>2. CASE LastOne
      <4>1. Counted \in SUBSET Threads /\ t \notin Counted
        BY <3>1 DEF Counted
      <4>2. Cardinality(Counted) >= NumThreads - 1
        BY <2>2, <3>2 DEF CheckStop, LastOne, LoopStarted, IInv, PrcExact
      <4>3. Counted = Threads \ {t}
        BY <4>1, <4>2, ThreadSets
      <4>4. Pushed = Threads
        BY <3>1, <4>3 DEF Pushed, Counted
      <4> QED BY <2>2, <3>2, <4>4 DEF CheckStop, Answering, Pushed
    <3>3. CASE ~LastOne
      BY <2>2, <3>1, <3>3 DEF CheckStop, Answering
    <3> QED BY <3>2, <3>3
  <2>3. CASE RunLoop \/ CreateFails \/ Dispatch \/ Drained \/ Join \/ Exit
    <3>1. CASE RunLoop
      BY <3>1 DEF RunLoop, Answering
    <3>2. CASE CreateFails \/ Drained
      BY <3>2 DEF CreateFails, Drained, Answering
    <3>3. CASE Join \/ Exit
      BY <3>3 DEF Join, Exit, Answering, Pushed
    <3>4. CASE Dispatch
      <4>1. PICK t \in Threads : tpc[t] = "hold"
        BY <3>4 DEF Dispatch, Answering
      <4> QED BY <3>4, <4>1 DEF Dispatch, Answering
    <3> QED BY <2>3, <3>1, <3>2, <3>3, <3>4
  <2>4. CASE PopOne
    BY <2>4 DEF PopOne, Answering, Pushed
  <2>5. ASSUME NEW t \in Threads, Wake(t) \/ Lock(t) PROVE Answering'
    <3>1. \A u \in Threads : /\ tpc[u] \in {"send", "hold"} => tpc'[u] = tpc[u]
                             /\ u \in Pushed => u \in Pushed'
      BY <2>5, <2>t DEF Wake, Lock, Goto, TypeOK, Pushed
    <3>2. UNCHANGED <<mpc, data_queue, sent>>
      BY <2>5 DEF Wake, Lock
    <3> QED BY <3>1, <3>2 DEF Answering, Pushed
  <2>6. ASSUME NEW t \in Threads, Push(t) PROVE Answering'
    <3>1. tpc[t] = "push" /\ tpc' = [tpc EXCEPT ![t] = "send"] /\ tpc'[t] = "send"
      BY <2>6, <2>t DEF Push, Goto, TypeOK
    <3>2. \A u \in Threads : tpc[u] # "hold"
      BY <2>t, <3>1 DEF LockHeld, Inside
    <3>3. mpc \notin {"drain", "check", "join", "exited"}
      BY <3>1, <3>2 DEF Answering, Pushed
    <3> QED BY <2>6, <3>1, <3>2, <3>3 DEF Push, Answering
  <2>7. ASSUME NEW t \in Threads, AsyncSend(t) PROVE Answering'
    <3>1. tpc[t] = "send" /\ tpc' = [tpc EXCEPT ![t] = "hold"] /\ tpc'[t] = "hold"
      BY <2>7, <2>t DEF AsyncSend, Goto, TypeOK
    <3>2. Pushed' = Pushed
      BY <2>t, <3>1 DEF Pushed, TypeOK
    <3> QED BY <2>7, <3>1, <3>2 DEF AsyncSend, Answering
  <2>8. ASSUME NEW t \in Threads, SleepOver(t) PROVE Answering'
    <3>1. CallbackOver /\ UNCHANGED <<mpc, data_queue, sent>>
      BY <2>8 DEF SleepOver
    <3>2. Pushed' = Pushed
      BY <2>8, <2>t DEF SleepOver, Goto, Pushed, TypeOK
    <3>3. \A u \in Threads : tpc[u] = "send" => tpc'[u] = "send"
      BY <2>8, <2>t DEF SleepOver, Goto, TypeOK
    <3> QED BY <3>1, <3>2, <3>3 DEF CallbackOver, Answering
  <2>9. ASSUME NEW t \in Threads, Count(t) \/ ExitThread(t) PROVE Answering'
    <3>1. \A u \in Threads : tpc[u] \in {"send", "hold"} => tpc'[u] = tpc[u]
      BY <2>9, <2>t DEF Count, ExitThread, Goto, TypeOK
    <3>2. Pushed' = Pushed
      BY <2>9, <2>t DEF Count, ExitThread, Goto, Pushed, TypeOK
    <3>3. UNCHANGED <<mpc, data_queue, sent>>
      BY <2>9 DEF Count, ExitThread
    <3> QED BY <3>1, <3>2, <3>3 DEF Answering
  <2>10. CASE UNCHANGED vars
    BY <2>10 DEF vars, Answering, Pushed
  <2> QED BY <2>1, <2>2, <2>3, <2>4, <2>5, <2>6, <2>7, <2>8, <2>9, <2>10
         DEF Next, Main, SomeThread, Thread, ProcessOver
<1> QED BY <1>1, <1>2

(* With a prompt loop nothing is lost, for any number of threads: when the *)
(* process has ended every message was printed (l.40-48, l.97-104, l.158). *)
THEOREM PromptDelivery == Spec => []AllDelivered
<1> DEFINE PInv == prompt => Answering
<1>1. Init => PInv
  BY AnsweringInv
<1>2. IInv /\ LoopStarted /\ PInv /\ [Next]_vars => PInv'
  <2> SUFFICES ASSUME IInv, LoopStarted, PInv, [Next]_vars, prompt'
               PROVE  Answering'
    OBVIOUS
  <2>1. ASSUME Main PROVE prompt
    BY <2>1 DEF Main, CreateThread, CreateFails, RunLoop, Dispatch, PopOne,
                Drained, CheckStop, Join, Exit
  <2>2. ASSUME NEW t \in Threads, Thread(t) PROVE prompt
    BY <2>2 DEF Thread, Wake, Lock, Push, AsyncSend, SleepOver, Count, ExitThread
  <2>3. ASSUME UNCHANGED vars PROVE prompt
    BY <2>3 DEF vars
  <2>4. prompt
    BY <2>1, <2>2, <2>3 DEF Next, SomeThread, ProcessOver
  <2> QED BY <2>4, AnsweringInv
<1>3. Kept /\ PInv => AllDelivered
  BY DEF Kept, Answering, Elems, Pushed, AllDelivered
<1>4. IInv => TypeOK
  BY DEF IInv
<1> QED BY InitIInv, NextIInv, StartedInv, KeptInv, <1>1, <1>2, <1>3, <1>4, PTL
       DEF Spec
=============================================================================
