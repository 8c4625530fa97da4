------------------------------ MODULE ShmMutex ------------------------------
(***************************************************************************)
(* YH-102: create_shared_memory_object.cpp and open_shared_memory_object   *)
(* .cpp.  Processes that share a message through a named shared memory     *)
(* object, with an interprocess_mutex inside it, each driven by a user.    *)
(*                                                                         *)
(* The name may lead to another object than the one a process has mapped:  *)
(* removing a name leaves the mappings alone.  Writing is two steps, a     *)
(* memset and a memcpy.  Reading only prints and is no action; what it     *)
(* would print is data.                                                    *)
(***************************************************************************)
EXTENDS Naturals

CONSTANTS
    Creators, Openers,
    MaxObjects,  \* bound on objects ever created
    EarlyOpen    \* an opener may start before the creator shows its prompt

Procs == Creators \cup Openers
Objects == 1 .. MaxObjects

ASSUME ProcsAssumption ==
    /\ Creators \cap Openers = {}
    /\ Procs \cap {"blank", "mixed", "initial"} = {}
ASSUME BoundsAssumption == MaxObjects \in Nat /\ EarlyOpen \in BOOLEAN

None == 0

VARIABLES
    pc,      \* where each process is
    obj,     \* the object it has mapped, or None
    owns,    \* its scoped_lock says it owns the mutex
    name,    \* the object "MySharedMemory" leads to, or None
    last,    \* number of objects created so far
    sized,   \* objects whose size is set
    locked,  \* objects whose mutex is locked
    data,    \* blank, mixed, initial, or the process that wrote it
    killed   \* history: a process has been killed

vars == <<pc, obj, owns, name, last, sized, locked, data, killed>>

Init == /\ pc = [p \in Procs |-> "start"]
        /\ obj = [p \in Procs |-> None]
        /\ owns = [p \in Procs |-> FALSE]
        /\ name = None /\ last = 0
        /\ sized = {} /\ locked = {}
        /\ data = [o \in Objects |-> "blank"]
        /\ killed = FALSE

Goes(p, to) == pc' = [pc EXCEPT ![p] = to]

-----------------------------------------------------------------------------
(* create_shared_memory_object: from the start to the initial message      *)

RemovesNothing(p) == \* mutant of Removes: no shm_remove before create_only
    /\ pc[p] = "start"
    /\ Goes(p, "create")
    /\ UNCHANGED <<obj, owns, name, last, sized, locked, data, killed>>

Removes(p) ==        \* shm_remove()
    /\ pc[p] = "start"
    /\ name' = None
    /\ Goes(p, "create")
    /\ UNCHANGED <<obj, owns, last, sized, locked, data, killed>>

Creates(p) ==        \* create_only
    /\ pc[p] = "create" /\ name = None /\ last < MaxObjects
    /\ last' = last + 1
    /\ name' = last'
    /\ obj' = [obj EXCEPT ![p] = last']
    /\ Goes(p, "truncate")
    /\ UNCHANGED <<owns, sized, locked, data, killed>>

CreateFails(p) ==    \* throws; ~shm_remove() runs all the same
    /\ pc[p] = "create" /\ name # None
    /\ name' = None
    /\ Goes(p, "done")
    /\ UNCHANGED <<obj, owns, last, sized, locked, data, killed>>

Truncates(p) ==
    /\ pc[p] = "truncate"
    /\ sized' = sized \cup {obj[p]}
    /\ Goes(p, "construct")
    /\ UNCHANGED <<obj, owns, name, last, locked, data, killed>>

Constructs(p) ==     \* new (addr) shared_memory_message: the mutex is reset
    /\ pc[p] = "construct"
    /\ locked' = locked \ {obj[p]}
    /\ Goes(p, "first")
    /\ UNCHANGED <<obj, owns, name, last, sized, data, killed>>

WritesInitial(p) ==  \* memcpy over what is there, unlock
    /\ pc[p] = "initial"
    /\ data' = [data EXCEPT ![obj[p]] = IF @ = "blank" THEN "initial" ELSE "mixed"]
    /\ owns' = [owns EXCEPT ![p] = FALSE]
    /\ locked' = locked \ {obj[p]}
    /\ Goes(p, "prompt")
    /\ UNCHANGED <<obj, name, last, sized, killed>>

-----------------------------------------------------------------------------
(* open_shared_memory_object                                               *)

Ready(o) == \E p \in Creators : obj[p] = o /\ pc[p] \in {"prompt", "locking", "clear", "copy"}

Opens(p) ==
    /\ pc[p] = "start" /\ name # None
    /\ EarlyOpen \/ Ready(name)
    /\ obj' = [obj EXCEPT ![p] = name]
    /\ Goes(p, "map")
    /\ UNCHANGED <<owns, name, last, sized, locked, data, killed>>

OpenFails(p) ==      \* open_only: no such name
    /\ pc[p] = "start" /\ name = None
    /\ Goes(p, "done")
    /\ UNCHANGED <<obj, owns, name, last, sized, locked, data, killed>>

Maps(p) ==           \* an object without a size cannot be mapped: throws
    /\ pc[p] = "map"
    /\ Goes(p, IF obj[p] \in sized THEN "first" ELSE "done")
    /\ UNCHANGED <<obj, owns, name, last, sized, locked, data, killed>>

-----------------------------------------------------------------------------
(* both: scoped_lock and the prompt's commands                             *)

AcquiresAnyway(p) == \* mutant of Acquires: the lock does not wait
    /\ pc[p] \in {"first", "locking"}
    /\ locked' = locked \cup {obj[p]}
    /\ owns' = [owns EXCEPT ![p] = TRUE]
    /\ Goes(p, IF pc[p] = "first" /\ p \in Creators THEN "initial" ELSE "prompt")
    /\ UNCHANGED <<obj, name, last, sized, data, killed>>

Acquires(p) ==       \* scoped_lock lock(data->mutex), lock.lock()
    /\ pc[p] \in {"first", "locking"}
    /\ obj[p] \notin locked
    /\ locked' = locked \cup {obj[p]}
    /\ owns' = [owns EXCEPT ![p] = TRUE]
    /\ Goes(p, IF pc[p] = "first" /\ p \in Creators THEN "initial" ELSE "prompt")
    /\ UNCHANGED <<obj, name, last, sized, data, killed>>

Lock(p) ==
    /\ pc[p] = "prompt" /\ ~owns[p]
    /\ Goes(p, "locking")
    /\ UNCHANGED <<obj, owns, name, last, sized, locked, data, killed>>

WriteAnyway(p) ==    \* mutant of Write: the owner is not asked for
    /\ pc[p] = "prompt"
    /\ Goes(p, "clear")
    /\ UNCHANGED <<obj, owns, name, last, sized, locked, data, killed>>

WritesOver(p) ==     \* mutant of Write: memcpy without memset
    /\ pc[p] = "prompt" /\ owns[p]
    /\ Goes(p, "copy")
    /\ UNCHANGED <<obj, owns, name, last, sized, locked, data, killed>>

Write(p) ==          \* refused without the lock
    /\ pc[p] = "prompt" /\ owns[p]
    /\ Goes(p, "clear")
    /\ UNCHANGED <<obj, owns, name, last, sized, locked, data, killed>>

Clears(p) ==
    /\ pc[p] = "clear"
    /\ data' = [data EXCEPT ![obj[p]] = "blank"]
    /\ Goes(p, "copy")
    /\ UNCHANGED <<obj, owns, name, last, sized, locked, killed>>

CopiesOnAndOn(p) ==  \* mutant of Copies: goes on writing, never asks again
    /\ pc[p] = "copy"
    /\ data' = [data EXCEPT ![obj[p]] = IF @ = "blank" THEN p ELSE "mixed"]
    /\ Goes(p, "clear")
    /\ UNCHANGED <<obj, owns, name, last, sized, locked, killed>>

Copies(p) ==
    /\ pc[p] = "copy"
    /\ data' = [data EXCEPT ![obj[p]] = IF @ = "blank" THEN p ELSE "mixed"]
    /\ Goes(p, "prompt")
    /\ UNCHANGED <<obj, owns, name, last, sized, locked, killed>>

Unlock(p) ==
    /\ pc[p] = "prompt" /\ owns[p]
    /\ owns' = [owns EXCEPT ![p] = FALSE]
    /\ locked' = locked \ {obj[p]}
    /\ UNCHANGED <<pc, obj, name, last, sized, data, killed>>

Leaves(p) ==         \* exit, or an unlock() without the lock, which throws
    /\ pc[p] = "prompt"
    /\ owns' = [owns EXCEPT ![p] = FALSE]
    /\ locked' = IF owns[p] THEN locked \ {obj[p]} ELSE locked
    /\ Goes(p, IF p \in Creators THEN "remove" ELSE "done")
    /\ UNCHANGED <<obj, name, last, sized, data, killed>>

RemovesAtEnd(p) ==   \* ~shm_remove()
    /\ pc[p] = "remove"
    /\ name' = None
    /\ Goes(p, "done")
    /\ UNCHANGED <<obj, owns, last, sized, locked, data, killed>>

-----------------------------------------------------------------------------
Killed(p) ==         \* the mutex stays as it is
    /\ pc[p] \notin {"start", "done"}
    /\ owns' = [owns EXCEPT ![p] = FALSE]
    /\ Goes(p, "done")
    /\ killed' = TRUE
    /\ UNCHANGED <<obj, name, last, sized, locked, data>>

Restarts(p) ==       \* a later run of the program
    /\ pc[p] = "done"
    /\ p \in Creators => last < MaxObjects
    /\ Goes(p, "start")
    /\ obj' = [obj EXCEPT ![p] = None]
    /\ UNCHANGED <<owns, name, last, sized, locked, data, killed>>

Creator(p) == \/ Removes(p) \/ Creates(p) \/ CreateFails(p) \/ Truncates(p)
              \/ Constructs(p) \/ WritesInitial(p) \/ RemovesAtEnd(p)

Opener(p) == Opens(p) \/ OpenFails(p) \/ Maps(p)

Command(p) == Lock(p) \/ Write(p) \/ Unlock(p)

Runs(p) == Clears(p) \/ Copies(p) \/ Acquires(p)

(* No more objects: the bound is reached.                                  *)
Spent == last = MaxObjects /\ (\A p \in Creators : pc[p] = "done") /\ UNCHANGED vars

Next == \/ Spent
        \/ \E p \in Creators : Creator(p)
        \/ \E p \in Openers : Opener(p)
        \/ \E p \in Procs : Command(p) \/ Runs(p) \/ Leaves(p) \/ Killed(p) \/ Restarts(p)

Spec == Init /\ [][Next]_vars

(* The programs run, and every user leaves in the end, however many        *)
(* commands come first.                                                    *)
Fairness == /\ \A p \in Creators : WF_vars(Creator(p))
            /\ \A p \in Openers : WF_vars(Maps(p))
            /\ \A p \in Procs : WF_vars(Runs(p)) /\ SF_vars(Leaves(p))

FairSpec == Spec /\ Fairness

-----------------------------------------------------------------------------
TypeOK ==
    /\ pc \in [Procs -> {"start", "create", "truncate", "construct", "first", "initial",
                         "map", "prompt", "locking", "clear", "copy", "remove", "done"}]
    /\ obj \in [Procs -> 0 .. last] /\ owns \in [Procs -> BOOLEAN]
    /\ name \in 0 .. last /\ last \in 0 .. MaxObjects
    /\ sized \subseteq 1 .. last /\ locked \subseteq sized
    /\ data \in [Objects -> Procs \cup {"blank", "mixed", "initial"}]
    /\ killed \in BOOLEAN

(* README of YH-102, l.1-4: the mutex is there "to prevent if 2 processed  *)
(* write or update at sametime".                                           *)
OneOwner == \A p, q \in Procs :
    p # q /\ owns[p] /\ owns[q] => obj[p] # obj[q]

(* A message is written by one process from beginning to end, the initial  *)
(* one included.                                                           *)
NeverMixed == \A o \in Objects : data[o] # "mixed"

(* The owner of the mutex, at its prompt, reads a message and not the      *)
(* middle of somebody's writing, after a crash of the writer too.          *)
OwnerReadsMessage == \A p \in Procs :
    owns[p] /\ pc[p] = "prompt" => data[obj[p]] # "blank"

(* A creator that starts again recovers whatever an earlier run left       *)
(* behind (l.32-36): create_only meets no object but one that another      *)
(* creator, by now perhaps started again, has made in between.             *)
NeverRefused == \A p \in Creators :
    pc[p] = "create" /\ name # None =>
        \E q \in Creators \ {p} : obj[q] = name \/ pc[q] = "start"

(* The mutex never stays locked: every owner gives it back, and whoever    *)
(* waits can have it, unless a process is killed.  (Which of the waiting   *)
(* processes gets it the mutex does not say.)                              *)
Released == \A o \in Objects : o \in locked ~> o \notin locked \/ killed
=============================================================================
