---------------------------- MODULE NameLocksProofs ----------------------------
(***************************************************************************)
(* Proofs about NameLocks for any set of threads, names and lock objects.  *)
(***************************************************************************)
EXTENDS NameLocks, TLAPS

\* Whoever is between the two ends of the guarded block holds the guard.
GuardInv == \A t \in Threads : pc[t] \in {"look", "insert", "unguard"} => guard = t

\* A busy thread works on a name.
WantInv == \A t \in Threads : pc[t] # "idle" => want[t] \in Names

\* A lock is inserted only for a name that still has none.
InsertInv == \A t \in Threads :
    pc[t] = "insert" => table[want[t]] = None /\ mine[t] \in Locks

Past == {"unguard", "try", "wait", "inside"}

MineInv == \A t \in Threads :
    pc[t] \in Past => mine[t] \in Locks /\ mine[t] = table[want[t]]

OwnerInv == \A t \in Threads : pc[t] = "inside" => owner[mine[t]] = t

IInv == TypeOK /\ GuardInv /\ WantInv /\ InsertInv /\ MineInv /\ OwnerInv

\* The inductive invariant holds initially.
LEMMA InitIInv == ASSUME Init PROVE IInv
  BY LocksAssumption DEF Init, IInv, TypeOK, PCs, GuardInv, WantInv, InsertInv, MineInv,
     OwnerInv, Past

\* The inductive invariant is preserved by every step: the guard makes the
\* look-up and the insertion of a lock one step.
LEMMA NextIInv == ASSUME IInv, [Next]_vars PROVE IInv'
<1> USE LocksAssumption DEF IInv, TypeOK, PCs, GuardInv, WantInv, InsertInv, MineInv,
        OwnerInv, Past, Goto
<1>1. ASSUME NEW t \in Threads, Call(t) PROVE IInv'
  BY <1>1 DEF Call
<1>2. ASSUME NEW t \in Threads, TakeGuard(t) PROVE IInv'
  BY <1>2 DEF TakeGuard
<1>3. ASSUME NEW t \in Threads, Look(t) PROVE IInv'
  BY <1>3 DEF Look
<1>4. ASSUME NEW t \in Threads, Allocate(t) PROVE IInv'
  BY <1>4 DEF Allocate
<1>5. ASSUME NEW t \in Threads, Insert(t) PROVE IInv'
  BY <1>5 DEF Insert
<1>6. ASSUME NEW t \in Threads, ReleaseGuard(t) PROVE IInv'
  BY <1>6 DEF ReleaseGuard
<1>7. ASSUME NEW t \in Threads, TryFails(t) PROVE IInv'
  BY <1>7 DEF TryFails
<1>8. ASSUME NEW t \in Threads, Acquire(t) PROVE IInv'
  BY <1>8 DEF Acquire
<1>9. ASSUME NEW t \in Threads, Release(t) PROVE IInv'
  BY <1>9 DEF Release
<1>10. ASSUME UNCHANGED vars PROVE IInv'
  BY <1>10 DEF vars
<1> QED
  BY <1>1, <1>2, <1>3, <1>4, <1>5, <1>6, <1>7, <1>8, <1>9, <1>10 DEF Next, Advance

\* The inductive invariant is an invariant of the lock table.
LEMMA SpecIInv == Spec => []IInv
  BY InitIInv, NextIInv, PTL DEF Spec

\* The inductive invariant excludes two threads in the block of one name: they
\* would have the same lock object, which has one owner.
LEMMA IInvMutualExclusion == ASSUME IInv PROVE MutualExclusion
  BY DEF IInv, MineInv, OwnerInv, MutualExclusion, Past

\* Of one process, at most one thread at a time is in _locked(name), for any
\* number of threads and names.
THEOREM LocksExclude == Spec => []MutualExclusion
  BY SpecIInv, IInvMutualExclusion, PTL

\* Every thread past _lock_for has the lock object the dictionary has for its
\* name, for any number of threads and names.
THEOREM LocksAreShared == Spec => []OneLockPerName
<1>1. ASSUME IInv PROVE OneLockPerName
  BY <1>1 DEF IInv, MineInv, OneLockPerName, Past
<1> QED
  BY SpecIInv, <1>1, PTL

\* Every variable of the lock table has its type.
THEOREM LockTypes == Spec => []TypeOK
<1>1. ASSUME IInv PROVE TypeOK
  BY <1>1 DEF IInv
<1> QED
  BY SpecIInv, <1>1, PTL

--------------------------------------------------------------------------------
(* Operations on different names never wait for each other.                *)

\* A lock is of one name; one about to be inserted is of none yet.
TableInv ==
    /\ \A n, m \in Names : table[n] # None /\ table[n] = table[m] => n = m
    /\ \A t \in Threads : pc[t] = "insert" => \A n \in Names : table[n] # mine[t]

\* The owner of a lock is in the block, with that lock.
HeldInv == \A l \in Locks :
    owner[l] # None => pc[owner[l]] = "inside" /\ mine[owner[l]] = l

\* Both hold initially.
LEMMA InitHeld == ASSUME Init PROVE TableInv /\ HeldInv
  BY DEF Init, TableInv, HeldInv

\* Both are preserved by every step.
LEMMA NextHeld == ASSUME IInv, TableInv, HeldInv, [Next]_vars PROVE TableInv' /\ HeldInv'
<1> USE LocksAssumption DEF IInv, TypeOK, GuardInv, WantInv, InsertInv, MineInv, OwnerInv, Past,
        TableInv, HeldInv, Goto
<1>1. ASSUME NEW t \in Threads, Call(t) PROVE TableInv' /\ HeldInv'
  BY <1>1 DEF Call
<1>2. ASSUME NEW t \in Threads, TakeGuard(t) PROVE TableInv' /\ HeldInv'
  BY <1>2 DEF TakeGuard
<1>3. ASSUME NEW t \in Threads, Look(t) PROVE TableInv' /\ HeldInv'
  BY <1>3 DEF Look
<1>4. ASSUME NEW t \in Threads, Allocate(t) PROVE TableInv' /\ HeldInv'
  BY <1>4 DEF Allocate
<1>5. ASSUME NEW t \in Threads, Insert(t) PROVE TableInv' /\ HeldInv'
  BY <1>5 DEF Insert
<1>6. ASSUME NEW t \in Threads, ReleaseGuard(t) PROVE TableInv' /\ HeldInv'
  BY <1>6 DEF ReleaseGuard
<1>7. ASSUME NEW t \in Threads, TryFails(t) PROVE TableInv' /\ HeldInv'
  BY <1>7 DEF TryFails
<1>8. ASSUME NEW t \in Threads, Acquire(t) PROVE TableInv' /\ HeldInv'
  BY <1>8 DEF Acquire
<1>9. ASSUME NEW t \in Threads, Release(t) PROVE TableInv' /\ HeldInv'
  BY <1>9 DEF Release
<1>10. ASSUME UNCHANGED vars PROVE TableInv' /\ HeldInv'
  BY <1>10 DEF vars
<1> QED
  BY <1>1, <1>2, <1>3, <1>4, <1>5, <1>6, <1>7, <1>8, <1>9, <1>10 DEF Next, Advance

\* Whoever keeps a thread waiting works on the same name.
THEOREM WaitsAreForOneName == Spec => []BlockedBySameName
<1>1. ASSUME IInv, TableInv, HeldInv PROVE BlockedBySameName
  <2>1. ASSUME NEW t \in Threads, pc[t] \in {"try", "wait"}, owner[mine[t]] # None
        PROVE  want[owner[mine[t]]] = want[t]
    <3> DEFINE u == owner[mine[t]]
    <3>1. mine[t] \in Locks /\ mine[t] = table[want[t]] /\ want[t] \in Names
      BY <1>1, <2>1 DEF IInv, MineInv, WantInv, Past
    <3>2. u \in Threads /\ pc[u] = "inside" /\ mine[u] = mine[t]
      BY <1>1, <2>1, <3>1 DEF IInv, TypeOK, HeldInv
    <3>3. mine[u] = table[want[u]] /\ want[u] \in Names
      BY <1>1, <3>2 DEF IInv, MineInv, WantInv, Past
    <3> QED BY <1>1, <3>1, <3>2, <3>3, LocksAssumption DEF TableInv
  <2> QED BY <2>1 DEF BlockedBySameName
<1> QED
  BY SpecIInv, InitHeld, NextHeld, <1>1, PTL DEF Spec
================================================================================
