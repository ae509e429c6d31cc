------------------------------- MODULE NameLocks -------------------------------
(***************************************************************************)
(* ServerManager._lock_for and _locked: a dictionary of lock objects that  *)
(* is filled on demand under one guard, and the lock a write operation     *)
(* holds.  The guard is held for two steps, the look-up of the name and    *)
(* the insertion of a new lock, so nothing here depends on                 *)
(* dict.setdefault being atomic.                                           *)
(***************************************************************************)
EXTENDS FiniteSets

CONSTANTS Threads,   \* the threads of one process
          Names,     \* VM names
          Locks,     \* lock objects that can be allocated
          None       \* no thread, no lock, no name

ASSUME LocksAssumption == None \notin Threads \cup Names \cup Locks

VARIABLES
    guard,   \* the thread that holds _locks_guard, or None
    table,   \* table[n]: the lock that _locks has for n, or None
    owner,   \* owner[l]: the thread that holds the lock object l, or None
    pc,      \* what each thread does next
    want,    \* want[t]: the name t works on, or None
    mine     \* mine[t]: the lock object t got from _lock_for, or None

vars == <<guard, table, owner, pc, want, mine>>

Init == /\ guard = None
        /\ table = [n \in Names |-> None]
        /\ owner = [l \in Locks |-> None]
        /\ pc = [t \in Threads |-> "idle"]
        /\ want = [t \in Threads |-> None]
        /\ mine = [t \in Threads |-> None]

Goto(t, from, to) == pc[t] = from /\ pc' = [pc EXCEPT ![t] = to]

\* A write operation on some name enters _locked.
Call(t) == /\ Goto(t, "idle", "guard")
           /\ \E n \in Names : want' = [want EXCEPT ![t] = n]
           /\ UNCHANGED <<guard, table, owner, mine>>

\* The look-up without its guard: whoever comes walks in.
WalkIn(t) == /\ Goto(t, "guard", "look")
             /\ guard' = t
             /\ UNCHANGED <<table, owner, want, mine>>

TakeGuard(t) == /\ Goto(t, "guard", "look")
                /\ guard = None
                /\ guard' = t
                /\ UNCHANGED <<table, owner, want, mine>>

\* Any lock in the dictionary will do.
LookAnywhere(t) == /\ Goto(t, "look", "unguard")
                   /\ \E n \in Names : /\ table[n] # None
                                       /\ mine' = [mine EXCEPT ![t] = table[n]]
                   /\ UNCHANGED <<guard, table, owner, want>>

\* The name has a lock already.
Look(t) == /\ Goto(t, "look", "unguard")
           /\ table[want[t]] # None
           /\ mine' = [mine EXCEPT ![t] = table[want[t]]]
           /\ UNCHANGED <<guard, table, owner, want>>

\* The name has none: threading.Lock() makes one nobody else knows.
Allocate(t) == /\ Goto(t, "look", "insert")
               /\ table[want[t]] = None
               /\ \E l \in Locks : /\ \A n \in Names : table[n] # l
                                   /\ \A u \in Threads : mine[u] # l
                                   /\ mine' = [mine EXCEPT ![t] = l]
               /\ UNCHANGED <<guard, table, owner, want>>

\* The dictionary remembers the thread instead of its lock.
InsertThread(t) == /\ Goto(t, "insert", "unguard")
                   /\ table' = [table EXCEPT ![want[t]] = t]
                   /\ UNCHANGED <<guard, owner, want, mine>>

Insert(t) == /\ Goto(t, "insert", "unguard")
             /\ table' = [table EXCEPT ![want[t]] = mine[t]]
             /\ UNCHANGED <<guard, owner, want, mine>>

ReleaseGuard(t) == /\ Goto(t, "unguard", "try")
                   /\ guard' = None
                   /\ UNCHANGED <<table, owner, want, mine>>

\* acquire(blocking=False) fails: the wait is logged.
TryFails(t) == /\ Goto(t, "try", "wait")
               /\ owner[mine[t]] # None
               /\ UNCHANGED <<guard, table, owner, want, mine>>

\* acquire(), at once or after having waited.
Acquire(t) == /\ \/ Goto(t, "try", "inside")
                 \/ Goto(t, "wait", "inside")
              /\ owner[mine[t]] = None
              /\ owner' = [owner EXCEPT ![mine[t]] = t]
              /\ UNCHANGED <<guard, table, want, mine>>

\* The block is left without giving the lock back, as after an exception that
\* no finally clause sees.
LeaveLocked(t) == /\ Goto(t, "inside", "idle")
                  /\ want' = [want EXCEPT ![t] = None]
                  /\ mine' = [mine EXCEPT ![t] = None]
                  /\ UNCHANGED <<guard, table, owner>>

\* The block is left, by return or by exception.
Release(t) == /\ Goto(t, "inside", "idle")
              /\ owner' = [owner EXCEPT ![mine[t]] = None]
              /\ want' = [want EXCEPT ![t] = None]
              /\ mine' = [mine EXCEPT ![t] = None]
              /\ UNCHANGED <<guard, table>>

Advance(t) == \/ TakeGuard(t) \/ Look(t) \/ Allocate(t) \/ Insert(t)
              \/ ReleaseGuard(t) \/ TryFails(t) \/ Acquire(t) \/ Release(t)

Next == \E t \in Threads : Call(t) \/ Advance(t)

Spec == Init /\ [][Next]_vars

FairSpec == Spec /\ \A t \in Threads : WF_vars(Advance(t))

--------------------------------------------------------------------------------
(* Properties.                                                             *)

PCs == {"idle", "guard", "look", "insert", "unguard", "try", "wait", "inside"}

\* The type of every variable.
TypeOK == /\ guard \in Threads \cup {None}
          /\ table \in [Names -> Locks \cup {None}]
          /\ owner \in [Locks -> Threads \cup {None}]
          /\ pc \in [Threads -> PCs]
          /\ want \in [Threads -> Names \cup {None}]
          /\ mine \in [Threads -> Locks \cup {None}]

\* Two threads never are in the block of the same name, whatever lock objects
\* they got.
MutualExclusion == \A t, u \in Threads :
    pc[t] = "inside" /\ pc[u] = "inside" /\ want[t] = want[u] => t = u

\* Everybody past _lock_for uses the lock the dictionary has for the name.
OneLockPerName == \A t \in Threads :
    pc[t] \in {"unguard", "try", "wait", "inside"} => mine[t] = table[want[t]]

\* Whoever keeps a thread waiting works on the same name: operations on
\* different servers never block each other.
BlockedBySameName == \A t \in Threads :
    pc[t] \in {"try", "wait"} /\ owner[mine[t]] # None
        => want[owner[mine[t]]] = want[t]

\* While somebody waits for a name the lock does not stay free: it is always
\* given back, and then taken.
WaitedForIsHeld == \A n \in Names :
    (\E t \in Threads : pc[t] = "wait" /\ want[t] = n)
        ~> (\E t \in Threads : pc[t] = "inside" /\ want[t] = n)
================================================================================
