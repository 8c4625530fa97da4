--------------------------- MODULE ShmMutexProofs ---------------------------
(***************************************************************************)
(* Proofs about ShmMutex for any number of creators, openers and objects,  *)
(* with kills and restarts, when openers wait for a creator's prompt.      *)
(*                                                                         *)
(* The argument: until its creator has written the initial message an      *)
(* object is private to it, so that constructing the mutex takes it from   *)
(* nobody; from then on only Acquires locks it and only its owner unlocks. *)
(***************************************************************************)
EXTENDS ShmMutex, TLAPS

Setup == {"truncate", "construct", "first", "initial"}
Working == {"prompt", "locking", "clear", "copy"}

(* p is about to make its object usable.                                   *)
InSetup(p) == p \in Creators /\ pc[p] \in Setup

(* p works with an object that is usable.                                  *)
Uses(p) == pc[p] \in Working \/ (p \in Openers /\ pc[p] \in {"map", "first"})

Labels == {"start", "create", "truncate", "construct", "first", "initial",
           "map", "prompt", "locking", "clear", "copy", "remove", "done"}

Typed == /\ pc \in [Procs -> Labels]
         /\ obj \in [Procs -> 0 .. last] /\ owns \in [Procs -> BOOLEAN]
         /\ name \in 0 .. last /\ last \in 0 .. MaxObjects
         /\ data \in [Objects -> Procs \cup {"blank", "mixed", "initial"}]

HasObject == \A p \in Procs : InSetup(p) \/ Uses(p) => obj[p] \in Objects

Private == \A p, q \in Procs : InSetup(p) /\ p # q => obj[q] # obj[p]

OwnersLock == \A p \in Procs :
    /\ owns[p] => obj[p] \in locked /\ pc[p] \in {"initial", "prompt", "clear", "copy"}
    /\ pc[p] \in {"initial", "clear", "copy"} => owns[p]

FreshIsBlank == /\ \A o \in Objects : o > last => data[o] = "blank"
                /\ \A p \in Procs : InSetup(p) \/ pc[p] = "copy" => data[obj[p]] = "blank"

UsedHasMessage == \A p \in Procs : Uses(p) =>
    /\ obj[p] \notin locked => data[obj[p]] # "blank"
    /\ owns[p] /\ pc[p] = "prompt" => data[obj[p]] # "blank"

IInv == /\ Typed /\ HasObject /\ Private /\ OwnersLock /\ OneOwner
        /\ FreshIsBlank /\ UsedHasMessage /\ NeverMixed

-----------------------------------------------------------------------------
LEMMA Starts == Init => IInv
BY ProcsAssumption, BoundsAssumption
   DEF Init, IInv, Typed, HasObject, Private, OwnersLock, OneOwner, FreshIsBlank,
       UsedHasMessage, NeverMixed, InSetup, Uses, Setup, Working, Labels, None, Objects

LEMMA StepTyped ==
    ASSUME IInv, Next PROVE Typed'
<1> USE BoundsAssumption, ProcsAssumption DEF IInv, Typed, Labels, Goes, None, Procs, Objects
<1>1. ASSUME NEW p \in Creators, Creator(p) PROVE Typed'
  <2>1. CASE Removes(p) BY <2>1 DEF Removes
  <2>2. CASE Creates(p) BY <2>2 DEF Creates
  <2>3. CASE CreateFails(p) BY <2>3 DEF CreateFails
  <2>4. CASE Truncates(p) BY <2>4 DEF Truncates
  <2>5. CASE Constructs(p) BY <2>5 DEF Constructs
  <2>6. CASE WritesInitial(p) BY <2>6 DEF WritesInitial
  <2>7. CASE RemovesAtEnd(p) BY <2>7 DEF RemovesAtEnd
  <2> QED BY <1>1, <2>1, <2>2, <2>3, <2>4, <2>5, <2>6, <2>7 DEF Creator
<1>2. ASSUME NEW p \in Openers, Opener(p) PROVE Typed'
  <2>1. CASE Opens(p) BY <2>1 DEF Opens
  <2>2. CASE OpenFails(p) BY <2>2 DEF OpenFails
  <2>3. CASE Maps(p) BY <2>3 DEF Maps
  <2> QED BY <1>2, <2>1, <2>2, <2>3 DEF Opener
<1>3. ASSUME NEW p \in Procs, Command(p) PROVE Typed'
  <2>1. CASE Lock(p) BY <2>1 DEF Lock
  <2>2. CASE Write(p) BY <2>2 DEF Write
  <2>3. CASE Unlock(p) BY <2>3 DEF Unlock
  <2> QED BY <1>3, <2>1, <2>2, <2>3 DEF Command
<1>4. ASSUME NEW p \in Procs, Runs(p) PROVE Typed'
  <2>1. CASE Clears(p) BY <2>1 DEF Clears
  <2>2. CASE Copies(p) BY <2>2 DEF Copies
  <2>3. CASE Acquires(p) BY <2>3 DEF Acquires
  <2> QED BY <1>4, <2>1, <2>2, <2>3 DEF Runs
<1>5. ASSUME NEW p \in Procs, Leaves(p) \/ Killed(p) \/ Restarts(p) PROVE Typed'
  <2>1. CASE Leaves(p) BY <2>1 DEF Leaves
  <2>2. CASE Killed(p) BY <2>2 DEF Killed
  <2>3. CASE Restarts(p) BY <2>3 DEF Restarts
  <2> QED BY <1>5, <2>1, <2>2, <2>3
<1> QED BY <1>1, <1>2, <1>3, <1>4, <1>5 DEF Next, Spent, vars

Others == /\ HasObject /\ Private /\ OwnersLock /\ OneOwner
          /\ FreshIsBlank /\ UsedHasMessage /\ NeverMixed

LEMMA StepOthers ==
    ASSUME ~EarlyOpen, IInv, Next, Typed' PROVE Others'
<1> USE ProcsAssumption, BoundsAssumption
    DEF IInv, Typed, Labels, Goes, None, Procs, Objects, Others, HasObject, Private, OwnersLock,
        OneOwner, FreshIsBlank, UsedHasMessage, NeverMixed, InSetup, Uses, Setup, Working
<1>1. ASSUME NEW p \in Creators, Creator(p) PROVE Others'
  <2>1. CASE Removes(p) BY <2>1 DEF Removes
  <2>2. CASE Creates(p) BY <2>2 DEF Creates
  <2>3. CASE CreateFails(p) BY <2>3 DEF CreateFails
  <2>4. CASE Truncates(p) BY <2>4 DEF Truncates
  <2>5. CASE Constructs(p) BY <2>5 DEF Constructs
  <2>6. CASE WritesInitial(p) BY <2>6 DEF WritesInitial
  <2>7. CASE RemovesAtEnd(p) BY <2>7 DEF RemovesAtEnd
  <2> QED BY <1>1, <2>1, <2>2, <2>3, <2>4, <2>5, <2>6, <2>7 DEF Creator
<1>2. ASSUME NEW p \in Openers, Opener(p) PROVE Others'
  <2>1. CASE Opens(p) BY <2>1 DEF Opens, Ready
  <2>2. CASE OpenFails(p) BY <2>2 DEF OpenFails
  <2>3. CASE Maps(p) BY <2>3 DEF Maps
  <2> QED BY <1>2, <2>1, <2>2, <2>3 DEF Opener
<1>3. ASSUME NEW p \in Procs, Command(p) PROVE Others'
  <2>1. CASE Lock(p) BY <2>1 DEF Lock
  <2>2. CASE Write(p) BY <2>2 DEF Write
  <2>3. CASE Unlock(p) BY <2>3 DEF Unlock
  <2> QED BY <1>3, <2>1, <2>2, <2>3 DEF Command
<1>4. ASSUME NEW p \in Procs, Runs(p) PROVE Others'
  <2>1. CASE Clears(p) BY <2>1 DEF Clears
  <2>2. CASE Copies(p) BY <2>2 DEF Copies
  <2>3. CASE Acquires(p) BY <2>3 DEF Acquires
  <2> QED BY <1>4, <2>1, <2>2, <2>3 DEF Runs
<1>5. ASSUME NEW p \in Procs, Leaves(p) \/ Killed(p) \/ Restarts(p) PROVE Others'
  <2>1. CASE Leaves(p) BY <2>1 DEF Leaves
  <2>2. CASE Killed(p) BY <2>2 DEF Killed
  <2>3. CASE Restarts(p) BY <2>3 DEF Restarts
  <2> QED BY <1>5, <2>1, <2>2, <2>3
<1> QED BY <1>1, <1>2, <1>3, <1>4, <1>5 DEF Next, Spent, vars

LEMMA Step == ~EarlyOpen /\ IInv /\ [Next]_vars => IInv'
<1>1. ASSUME ~EarlyOpen, IInv, Next PROVE IInv'
  BY <1>1, StepTyped, StepOthers DEF IInv, Others
<1>2. ASSUME IInv, UNCHANGED vars PROVE IInv'
  BY <1>2 DEF vars, IInv, Typed, HasObject, Private, OwnersLock, OneOwner, FreshIsBlank,
     UsedHasMessage, NeverMixed, InSetup, Uses
<1> QED BY <1>1, <1>2

LEMMA Inductive == ASSUME ~EarlyOpen PROVE Spec => []IInv
<1>1. IInv /\ [Next]_vars => IInv' BY Step
<1> QED BY Starts, <1>1, PTL DEF Spec

(* Two processes never own the mutex of one object (README l.1-4), if the  *)
(* openers wait for a creator's prompt.                                    *)
THEOREM MutualExclusion == ASSUME ~EarlyOpen PROVE Spec => []OneOwner
<1>1. IInv => OneOwner BY DEF IInv
<1> QED BY <1>1, Inductive, PTL

(* Every message was written by one process from beginning to end.         *)
THEOREM WholeMessages == ASSUME ~EarlyOpen PROVE Spec => []NeverMixed
<1>1. IInv => NeverMixed BY DEF IInv
<1> QED BY <1>1, Inductive, PTL

(* An owner at its prompt has a message before it, whoever was killed.     *)
THEOREM OwnersReadMessages == ASSUME ~EarlyOpen PROVE Spec => []OwnerReadsMessage
<1>1. IInv => OwnerReadsMessage
  BY DEF IInv, UsedHasMessage, OwnerReadsMessage, Uses, Working
<1> QED BY <1>1, Inductive, PTL

-----------------------------------------------------------------------------
(* With or without openers that wait.                                      *)

(* Whoever constructs or locks a mutex has an object with a size.          *)
HasSize == \A p \in Procs :
    /\ pc[p] = "truncate" => obj[p] \in 1 .. last
    /\ pc[p] \in {"construct", "first", "initial"} \cup Working => obj[p] \in sized

TInv == TypeOK /\ HasSize

LEMMA StepTInv == TInv /\ [Next]_vars => TInv'
<1> SUFFICES ASSUME TInv, [Next]_vars PROVE TInv'
  OBVIOUS
<1> USE BoundsAssumption, ProcsAssumption
    DEF TInv, TypeOK, HasSize, Working, Goes, None, Procs, Objects
<1>1. ASSUME NEW p \in Creators, Creator(p) PROVE TInv'
  <2>1. CASE Removes(p) BY <2>1 DEF Removes
  <2>2. CASE Creates(p) BY <2>2 DEF Creates
  <2>3. CASE CreateFails(p) BY <2>3 DEF CreateFails
  <2>4. CASE Truncates(p) BY <2>4 DEF Truncates
  <2>5. CASE Constructs(p) BY <2>5 DEF Constructs
  <2>6. CASE WritesInitial(p) BY <2>6 DEF WritesInitial
  <2>7. CASE RemovesAtEnd(p) BY <2>7 DEF RemovesAtEnd
  <2> QED BY <1>1, <2>1, <2>2, <2>3, <2>4, <2>5, <2>6, <2>7 DEF Creator
<1>2. ASSUME NEW p \in Openers, Opener(p) PROVE TInv'
  <2>1. CASE Opens(p) BY <2>1 DEF Opens
  <2>2. CASE OpenFails(p) BY <2>2 DEF OpenFails
  <2>3. CASE Maps(p) BY <2>3 DEF Maps
  <2> QED BY <1>2, <2>1, <2>2, <2>3 DEF Opener
<1>3. ASSUME NEW p \in Procs, Command(p) PROVE TInv'
  <2>1. CASE Lock(p) BY <2>1 DEF Lock
  <2>2. CASE Write(p) BY <2>2 DEF Write
  <2>3. CASE Unlock(p) BY <2>3 DEF Unlock
  <2> QED BY <1>3, <2>1, <2>2, <2>3 DEF Command
<1>4. ASSUME NEW p \in Procs, Runs(p) PROVE TInv'
  <2>1. CASE Clears(p) BY <2>1 DEF Clears
  <2>2. CASE Copies(p) BY <2>2 DEF Copies
  <2>3. CASE Acquires(p) BY <2>3 DEF Acquires
  <2> QED BY <1>4, <2>1, <2>2, <2>3 DEF Runs
<1>5. ASSUME NEW p \in Procs, Leaves(p) \/ Killed(p) \/ Restarts(p) PROVE TInv'
  <2>1. CASE Leaves(p) BY <2>1 DEF Leaves
  <2>2. CASE Killed(p) BY <2>2 DEF Killed
  <2>3. CASE Restarts(p) BY <2>3 DEF Restarts
  <2> QED BY <1>5, <2>1, <2>2, <2>3
<1>6. CASE UNCHANGED vars BY <1>6 DEF vars
<1> QED BY <1>1, <1>2, <1>3, <1>4, <1>5, <1>6 DEF Next, Spent

LEMMA TInvInductive == Spec => []TInv
<1>1. Init => TInv
  <2> SUFFICES ASSUME Init PROVE TInv OBVIOUS
  <2>1. TypeOK
    <3>1. pc \in [Procs -> Labels] /\ obj \in [Procs -> 0 .. last] /\ owns \in [Procs -> BOOLEAN]
      BY DEF Init, None, Labels
    <3>2. data \in [Objects -> Procs \cup {"blank", "mixed", "initial"}] BY DEF Init
    <3>3. name \in 0 .. last /\ last \in 0 .. MaxObjects BY BoundsAssumption DEF Init, None
    <3>4. sized \subseteq 1 .. last /\ locked \subseteq sized /\ killed \in BOOLEAN BY DEF Init
    <3> QED BY <3>1, <3>2, <3>3, <3>4 DEF TypeOK, Labels
  <2>2. HasSize BY DEF Init, HasSize, Working
  <2> QED BY <2>1, <2>2 DEF TInv
<1> QED BY <1>1, StepTInv, PTL DEF Spec

(* Every variable keeps its type; only an object with a size has its mutex *)
(* locked.                                                                 *)
THEOREM TypeCorrect == Spec => []TypeOK
<1>1. TInv => TypeOK BY DEF TInv
<1> QED BY <1>1, TInvInductive, PTL

(* What an earlier run left behind never stops a creator that starts       *)
(* again, kills or not (l.32-36).                                          *)
THEOREM RestartsAreNotRefused == Spec => []NeverRefused
<1>1. Init => NeverRefused BY DEF Init, NeverRefused, None, Procs
<1>2. TInv /\ NeverRefused /\ [Next]_vars => NeverRefused'
  <2> SUFFICES ASSUME TInv, NeverRefused, [Next]_vars PROVE NeverRefused'
    OBVIOUS
  <2> USE BoundsAssumption, ProcsAssumption
      DEF TInv, TypeOK, NeverRefused, Goes, None, Procs, Objects
  <2>1. ASSUME NEW p \in Creators, Creator(p) PROVE NeverRefused'
    <3>1. CASE Removes(p) BY <3>1 DEF Removes
    <3>2. CASE Creates(p) BY <3>2 DEF Creates
    <3>3. CASE CreateFails(p) BY <3>3 DEF CreateFails
    <3>4. CASE Truncates(p) BY <3>4 DEF Truncates
    <3>5. CASE Constructs(p) BY <3>5 DEF Constructs
    <3>6. CASE WritesInitial(p) BY <3>6 DEF WritesInitial
    <3>7. CASE RemovesAtEnd(p) BY <3>7 DEF RemovesAtEnd
    <3> QED BY <2>1, <3>1, <3>2, <3>3, <3>4, <3>5, <3>6, <3>7 DEF Creator
  <2>2. ASSUME NEW p \in Openers, Opener(p) PROVE NeverRefused'
    BY <2>2 DEF Opener, Opens, OpenFails, Maps
  <2>3. ASSUME NEW p \in Procs, Command(p) PROVE NeverRefused'
    BY <2>3 DEF Command, Lock, Write, Unlock
  <2>4. ASSUME NEW p \in Procs, Runs(p) PROVE NeverRefused'
    BY <2>4 DEF Runs, Clears, Copies, Acquires
  <2>5. ASSUME NEW p \in Procs, Leaves(p) \/ Killed(p) \/ Restarts(p) PROVE NeverRefused'
    <3>1. CASE Leaves(p) BY <2>5, <3>1 DEF Leaves
    <3>2. CASE Killed(p) BY <2>5, <3>2 DEF Killed
    <3>3. CASE Restarts(p) BY <2>5, <3>3 DEF Restarts
    <3> QED BY <2>5, <3>1, <3>2, <3>3
  <2>6. CASE UNCHANGED vars BY <2>6 DEF vars
  <2> QED BY <2>1, <2>2, <2>3, <2>4, <2>5, <2>6 DEF Next, Spent
<1> QED BY <1>1, <1>2, TInvInductive, PTL DEF Spec
=============================================================================
