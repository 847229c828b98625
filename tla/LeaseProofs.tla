---------------------------- MODULE LeaseProofs -----------------------------
(***************************************************************************)
(* Proofs about leases: what the lock manager promises, and what the       *)
(* operations on one board owe to the leases they hold.                    *)
(*                                                                         *)
(* The first part is about LockManager, for any number of calls and        *)
(* resources.  The inductive invariant is LockInv.  Exclusion and          *)
(* TablesAgree alone are not inductive: a late release deletes from the    *)
(* tables what its call believes to hold, so one must know whose leases    *)
(* these are (HeldByOwner), and the work of a call is protected only       *)
(* because what it holds is still in the table unless it expired           *)
(* (HeldInTable).                                                          *)
(*                                                                         *)
(* That calls do not wait in a cycle rests on two more facts: what a call  *)
(* has still to take comes after what it has (OrderInv), and what a        *)
(* sleeping call waits for is held by another one, or a Broadcast is due   *)
(* (Told).  Told is an invariant only of runs in which no context is       *)
(* cancelled and no lease of a caller of Release expires (Patient): the    *)
(* code does not broadcast on the other paths.                             *)
(*                                                                         *)
(* The second part is about BoardChannels, for any operations, plugins,    *)
(* capabilities and number of retries.  The inductive invariant is         *)
(* BoardInv: the leases of two operations are apart, whoever changes a     *)
(* part of the board needs the device for itself, and what an operation    *)
(* has changed stays its own until it releases.                            *)
(***************************************************************************)
EXTENDS LockManager, BoardChannels, SequenceTheorems, FiniteSetTheorems,
        WellFoundedInduction, TLAPS

\* The leases of a call carry its name.
HeldByOwner == \A h \in Thread : \A l \in held[h] : l.holder = h

\* A lease that has not expired stays in the table until its call releases it.
HeldInTable == \A h \in Thread : \A l \in held[h] \ lapsed : l \in byLease

LockInv ==
  /\ TypeOK
  /\ TablesAgree
  /\ Exclusion
  /\ NoOrphanLease
  /\ HeldByOwner
  /\ HeldInTable

\* A lease that is not blocked by a table is compatible with all of it.
LEMMA GrantKeepsExclusion ==
  ASSUME NEW table \in [Resource -> SUBSET Lease], NEW r \in Resource,
         NEW l \in Lease, ~Blocked(table, r, l.mode),
         \A s \in Resource : \A k, j \in table[s] : k # j => ~Conflict(k.mode, j.mode)
  PROVE  LET after == [table EXCEPT ![r] = @ \cup {l}]
         IN \A s \in Resource :
              \A k, j \in after[s] : k # j => ~Conflict(k.mode, j.mode)
  BY DEF Blocked, Conflict

LEMMA InitLockInv == Init => LockInv
  BY DEF Init, LockInv, TypeOK, TablesAgree, Exclusion, NoOrphanLease,
         HeldByOwner, HeldInTable, PC, Mode, Lease

\* Each step of the manager keeps the types.
LEMMA TypeStep == TypeOK /\ [Next]_vars => TypeOK'
  <1> SUFFICES ASSUME TypeOK, [Next]_vars PROVE TypeOK'
    OBVIOUS
  <1> USE DEF TypeOK, PC, Mode, Lease
  <1>1. ASSUME NEW h \in Thread, EnterAcquire(h) PROVE TypeOK'
    <2>1. Head(todo[h]) \in Resource
      BY <1>1 DEF EnterAcquire
    <2> QED
      BY <1>1, <2>1 DEF EnterAcquire, Prune, Without, CheckContext
  <1>2. ASSUME NEW h \in Thread, Wake(h) PROVE TypeOK'
    BY <1>2 DEF Wake, CheckContext
  <1>3. ASSUME NEW h \in Thread, Obtain(h) PROVE TypeOK'
    <2> DEFINE l == NewLease(h, Head(todo[h]), mode[h])
    <2>1. Head(todo[h]) \in Resource /\ l \in Lease
      BY <1>3 DEF Obtain, NewLease
    <2>2. leases' \in [Resource -> SUBSET Lease] /\ byLease' \subseteq Lease
          /\ held' \in [Thread -> SUBSET Lease]
      BY <1>3, <2>1 DEF Obtain, Grant
    <2>3. Tail(todo[h]) \in Seq(Resource)
      <3>1. todo[h] \in Seq(Resource) /\ todo[h] # <<>>
        BY <1>3 DEF Obtain
      <3> QED
        BY <3>1, HeadTailProperties
    <2>4. todo' \in [Thread -> Seq(Resource)] /\ pc' \in [Thread -> PC]
      BY <1>3, <2>3 DEF Obtain
    <2>5. \A g \in Thread :
            pc'[g] \in {"acquire", "checked", "waiting", "woken"} => todo'[g] # <<>>
      BY <1>3, <2>3 DEF Obtain
    <2> QED
      BY <1>3, <2>2, <2>4, <2>5 DEF Obtain
  <1>4. ASSUME NEW h \in Thread, Wait(h) PROVE TypeOK'
    BY <1>4 DEF Wait
  <1>5. ASSUME NEW h \in Thread, Rollback(h) PROVE TypeOK'
    BY <1>5 DEF Rollback, Delete, Without, Forget
  <1>6. ASSUME NEW h \in Thread, ReleaseAll(h) PROVE TypeOK'
    BY <1>6 DEF ReleaseAll, Delete, Without, Forget
  <1>7. ASSUME NEW h \in Thread, BroadcastAfterRelease(h) PROVE TypeOK'
    BY <1>7 DEF BroadcastAfterRelease, Broadcast
  <1>8. ASSUME NEW h \in Thread, NEW l \in held[h], Release(h, l) PROVE TypeOK'
    <2> DEFINE after == [pc EXCEPT ![h] = IF held[h] = {l} THEN "done" ELSE @]
    <2>1. /\ held' \in [Thread -> SUBSET Lease] /\ lapsed' \subseteq Lease
          /\ UNCHANGED <<todo, mode, cancelled, watchers>>
      BY <1>8 DEF Release, Forget
    <2>2. leases' \in [Resource -> SUBSET Lease] /\ byLease' \subseteq Lease
      BY <1>8 DEF Release, Delete, Without
    <2>3. pc' = Broadcast(after) \/ pc' = after
      BY <1>8 DEF Release
    <2>4. /\ pc' \in [Thread -> PC]
          /\ \A g \in Thread :
               pc'[g] \in {"acquire", "checked", "waiting", "woken"} =>
                 pc[g] \in {"acquire", "checked", "waiting", "woken"}
      BY <2>3, <1>8 DEF Broadcast, Release
    <2> QED
      BY <2>1, <2>2, <2>4
  <1>9. ASSUME NEW h \in Thread, NEW r \in Resource, WatcherStep(h, r) PROVE TypeOK'
    BY <1>9 DEF WatcherStep, WatcherBroadcast, WatcherStop, Broadcast
  <1>10. ASSUME NEW c \in AllCalls, CallAcquireAll(c) PROVE TypeOK'
    BY <1>10, CallsAssumption DEF CallAcquireAll
  <1>11. ASSUME NEW h \in Thread, NEW r \in Resource, NEW m \in Mode,
                TryAcquire(h, r, m)
         PROVE  TypeOK'
    <2>1. NewLease(h, r, m) \in Lease
      BY DEF NewLease
    <2>2. Without(lapsed) \in [Resource -> SUBSET Lease] /\ byLease \ lapsed \subseteq Lease
      BY DEF Without
    <2>3. leases' \in [Resource -> SUBSET Lease] /\ byLease' \subseteq Lease
          /\ held' \in [Thread -> SUBSET Lease]
      <3>1. CASE Grant(Without(lapsed), byLease \ lapsed, h, r, m)
        BY <3>1, <2>1, <2>2 DEF Grant
      <3>2. CASE Prune /\ UNCHANGED held
        BY <3>2, <2>2 DEF Prune
      <3> QED
        BY <1>11, <3>1, <3>2 DEF TryAcquire
    <2>4. pc[h] = "idle" /\ UNCHANGED <<todo, mode, lapsed, cancelled, watchers>>
          /\ (pc' = [pc EXCEPT ![h] = "holding"] \/ pc' = [pc EXCEPT ![h] = "done"])
      BY <1>11 DEF TryAcquire
    <2> QED
      BY <2>3, <2>4
  <1>12. ASSUME NEW h \in Thread, NEW l \in held[h], Renew(h, l) PROVE TypeOK'
    BY <1>12 DEF Renew, Delete, Without
  <1>13. ASSUME NEW l \in byLease, Lapse(l) PROVE TypeOK'
    BY <1>13 DEF Lapse
  <1>14. ASSUME NEW h \in Cancellable, CancelContext(h) PROVE TypeOK'
    BY <1>14, CallsAssumption DEF CancelContext
  <1>15. CASE UNCHANGED vars
    BY <1>15 DEF vars
  <1>16. \A l \in TryCalls : l.holder \in Thread /\ l.res \in Resource /\ l.mode \in Mode
    BY CallsAssumption
  <1> QED
    BY <1>1, <1>2, <1>3, <1>4, <1>5, <1>6, <1>7, <1>8, <1>9, <1>10, <1>11,
       <1>12, <1>13, <1>14, <1>15, <1>16 DEF Next, ManagerStep, EndOfWork

\* Each step of the manager keeps the rest of the invariant.  A step either
\* grants a lease (Obtain, TryAcquire), or deletes leases from both tables
\* (Prune, Delete), or leaves the tables alone.
LEMMA GrantStep ==
  ASSUME LockInv, TypeOK',
         NEW gone \in SUBSET lapsed, NEW h \in Thread, NEW r \in Resource,
         NEW m \in Mode,
         ~Blocked(Without(gone), r, m),
         Grant(Without(gone), byLease \ gone, h, r, m),
         UNCHANGED lapsed
  PROVE  LockInv'
  <1> DEFINE l == NewLease(h, r, m)
             table == Without(gone)
  <1>1. l \in Lease /\ l.mode = m /\ l.res = r /\ l.holder = h
    BY DEF NewLease, Lease
  <1>2. table \in [Resource -> SUBSET Lease]
        /\ \A s \in Resource : table[s] = leases[s] \ gone
    BY DEF Without, LockInv, TypeOK
  <1>3. /\ leases' = [table EXCEPT ![r] = @ \cup {l}]
        /\ byLease' = (byLease \ gone) \cup {l}
        /\ held' = [held EXCEPT ![h] = @ \cup {l}]
    BY DEF Grant
  <1>4. Exclusion'
    <2>1. \A s \in Resource : \A k, j \in table[s] : k # j => ~Conflict(k.mode, j.mode)
      BY <1>2 DEF LockInv, Exclusion
    <2> QED
      BY <1>1, <1>2, <1>3, <2>1, GrantKeepsExclusion DEF Exclusion
  <1>5. TablesAgree'
    BY <1>1, <1>2, <1>3 DEF LockInv, TypeOK, TablesAgree, Lease
  <1>6. NoOrphanLease' /\ HeldByOwner' /\ HeldInTable'
    BY <1>1, <1>3 DEF LockInv, TypeOK, NoOrphanLease, HeldByOwner, HeldInTable
  <1> QED
    BY <1>4, <1>5, <1>6 DEF LockInv

LEMMA DeleteStep ==
  ASSUME LockInv, TypeOK', NEW S \in SUBSET Lease,
         leases' = Without(S), byLease' = byLease \ S,
         \/ /\ S \subseteq lapsed
            /\ UNCHANGED <<held, lapsed>>
         \/ \E h \in Thread : S \subseteq held[h] /\ Forget(h, S)
  PROVE  LockInv'
  <1>1. \A s \in Resource : leases'[s] = leases[s] \ S
    BY DEF Without
  <1>2. TablesAgree' /\ Exclusion'
    BY <1>1 DEF LockInv, TypeOK, TablesAgree, Exclusion, Lease
  <1>3. CASE S \subseteq lapsed /\ UNCHANGED <<held, lapsed>>
    BY <1>2, <1>3 DEF LockInv, TypeOK, NoOrphanLease, HeldByOwner, HeldInTable
  <1>4. ASSUME NEW h \in Thread, S \subseteq held[h], Forget(h, S)
        PROVE  LockInv'
    <2>1. \A g \in Thread : held'[g] = IF g = h THEN held[g] \ S ELSE held[g]
      BY <1>4 DEF Forget, LockInv, TypeOK
    <2>2. lapsed' = lapsed \ S
      BY <1>4 DEF Forget
    <2>3. \A g \in Thread \ {h} : held[g] \cap S = {}
      BY <1>4 DEF LockInv, HeldByOwner
    <2>4. NoOrphanLease'
      BY <1>1, <2>1, <2>2 DEF LockInv, TypeOK, NoOrphanLease, Lease
    <2>5. HeldByOwner'
      BY <2>1 DEF LockInv, HeldByOwner
    <2>6. HeldInTable'
      BY <2>1, <2>2, <2>3 DEF LockInv, HeldInTable
    <2> QED
      BY <1>2, <2>4, <2>5, <2>6 DEF LockInv
  <1> QED
    BY <1>3, <1>4

LEMMA LockInvStep == LockInv /\ [Next]_vars => LockInv'
  <1> SUFFICES ASSUME LockInv, [Next]_vars PROVE LockInv'
    OBVIOUS
  <1>1. TypeOK /\ TypeOK'
    BY TypeStep DEF LockInv
  <1>2. ASSUME UNCHANGED <<held, leases, byLease, lapsed>> PROVE LockInv'
    BY <1>1, <1>2 DEF LockInv, TablesAgree, Exclusion, NoOrphanLease, HeldByOwner, HeldInTable
  <1>3. ASSUME NEW h \in Thread, EnterAcquire(h) PROVE LockInv'
    BY <1>1, <1>3, DeleteStep DEF EnterAcquire, Prune, TypeOK
  <1>4. ASSUME NEW h \in Thread, Obtain(h) PROVE LockInv'
    <2>1. Without({}) = leases /\ byLease \ {} = byLease
      BY <1>1 DEF Without, TypeOK
    <2>2. Head(todo[h]) \in Resource /\ mode[h] \in Mode
      BY <1>1, <1>4 DEF Obtain, TypeOK
    <2> QED
      BY <1>1, <1>4, <2>1, <2>2, GrantStep DEF Obtain
  <1>5. ASSUME NEW h \in Thread, Rollback(h) PROVE LockInv'
    BY <1>1, <1>5, DeleteStep DEF Rollback, Delete, TypeOK
  <1>6. ASSUME NEW h \in Thread, ReleaseAll(h) PROVE LockInv'
    BY <1>1, <1>6, DeleteStep DEF ReleaseAll, Delete, TypeOK
  <1>7. ASSUME NEW h \in Thread, NEW l \in held[h], Release(h, l) PROVE LockInv'
    <2>1. l \in Lease /\ Forget(h, {l})
      BY <1>1, <1>7 DEF Release, TypeOK
    <2>2. CASE l \in byLease
      BY <1>1, <1>7, <2>1, <2>2, DeleteStep DEF Release, Delete
    <2>3. CASE l \notin byLease
      <3>1. leases' = Without({l}) /\ byLease' = byLease \ {l}
        BY <1>1, <1>7, <2>3 DEF Release, Without, LockInv, TablesAgree, TypeOK
      <3> QED
        BY <1>1, <2>1, <3>1, DeleteStep
    <2> QED
      BY <2>2, <2>3
  <1>8. ASSUME NEW h \in Thread, NEW r \in Resource, NEW m \in Mode, TryAcquire(h, r, m)
        PROVE  LockInv'
    <2>1. CASE /\ ~Blocked(Without(lapsed), r, m)
               /\ Grant(Without(lapsed), byLease \ lapsed, h, r, m)
      BY <1>1, <1>8, <2>1, GrantStep DEF TryAcquire
    <2>2. CASE Prune /\ UNCHANGED held
      BY <1>1, <1>8, <2>2, DeleteStep DEF TryAcquire, Prune, TypeOK
    <2> QED
      BY <1>8, <2>1, <2>2 DEF TryAcquire
  <1>9. ASSUME NEW h \in Thread, NEW l \in held[h], Renew(h, l) PROVE LockInv'
    BY <1>1, <1>9, DeleteStep DEF Renew, Delete, TypeOK
  <1>10. ASSUME NEW l \in byLease, Lapse(l) PROVE LockInv'
    BY <1>1, <1>10 DEF Lapse, LockInv, TablesAgree, Exclusion, NoOrphanLease,
                       HeldByOwner, HeldInTable
  <1>11. \A l \in TryCalls : l.holder \in Thread /\ l.res \in Resource /\ l.mode \in Mode
    BY CallsAssumption DEF Lease
  <1>12. ASSUME \/ \E h \in Thread : Wake(h) \/ Wait(h) \/ BroadcastAfterRelease(h)
                \/ \E h \in Thread, r \in Resource : WatcherStep(h, r)
                \/ \E c \in AllCalls : CallAcquireAll(c)
                \/ \E h \in Cancellable : CancelContext(h)
                \/ UNCHANGED vars
         PROVE  LockInv'
    BY <1>2, <1>12 DEF Wake, Wait, BroadcastAfterRelease, WatcherStep, WatcherBroadcast,
                       WatcherStop, CallAcquireAll, CancelContext, vars
  <1> QED
    BY <1>3, <1>4, <1>5, <1>6, <1>7, <1>8, <1>9, <1>10, <1>11, <1>12
       DEF Next, ManagerStep, EndOfWork

-----------------------------------------------------------------------------
(* The theorems *)

\* The inductive invariant holds in every reachable state.
THEOREM LockInvariant == Spec => []LockInv
  BY InitLockInv, LockInvStep, PTL DEF Spec

\* Every variable of the lock manager keeps its type.
THEOREM TypeCorrect == Spec => []TypeOK
  <1>1. LockInv => TypeOK
    BY DEF LockInv
  <1> QED
    BY <1>1, LockInvariant, PTL

\* Two leases in the table of one resource are always compatible.
THEOREM ExclusionHolds == Spec => []Exclusion
  <1>1. LockInv => Exclusion
    BY DEF LockInv
  <1> QED
    BY <1>1, LockInvariant, PTL

\* The two tables of the manager never diverge: a lease is in both or in
\* neither, whoever acquires, releases or prunes.
THEOREM TablesHold == Spec => []TablesAgree
  <1>1. LockInv => TablesAgree
    BY DEF LockInv
  <1> QED
    BY <1>1, LockInvariant, PTL

\* A lease is only ever in the table for a call that can still give it back:
\* one that failed has rolled its leases back.
THEOREM NoOrphans == Spec => []NoOrphanLease
  <1>1. LockInv => NoOrphanLease
    BY DEF LockInv
  <1> QED
    BY <1>1, LockInvariant, PTL

\* Two operations work under conflicting leases only after one has expired.
\* A lease that has not expired is still in the table (HeldInTable), where
\* Exclusion holds.
THEOREM WorkExclusionHolds == Spec => []WorkExclusion
  <1>1. ASSUME LockInv PROVE WorkExclusion
    <2> SUFFICES ASSUME NEW h \in Thread, NEW g \in Thread, h # g,
                        NEW l \in held[h] \ lapsed, NEW k \in held[g] \ lapsed,
                        l.res = k.res
                 PROVE  ~Conflict(l.mode, k.mode)
      BY DEF WorkExclusion
    <2>1. l \in byLease /\ k \in byLease
      BY <1>1 DEF LockInv, HeldInTable
    <2>2. l.holder = h /\ k.holder = g
      BY <1>1 DEF LockInv, HeldByOwner
    <2>3. l \in leases[l.res] /\ k \in leases[l.res] /\ l.res \in Resource
      BY <1>1, <2>1 DEF LockInv, TypeOK, TablesAgree, Lease
    <2> QED
      BY <1>1, <2>2, <2>3 DEF LockInv, Exclusion
  <1> QED
    BY <1>1, LockInvariant, PTL

-----------------------------------------------------------------------------
(* Nobody sleeps forgotten, and not all calls sleep *)

\* A number for each resource that grows along the list of every call.
Rank == CHOOSE rank \in [Resource -> 1 .. Cardinality(Resource)] :
          \A c \in AllCalls : Ordered(c.list, rank)

\* There is one (OrderAssumption).
LEMMA RankOrders ==
  /\ Cardinality(Resource) \in Nat
  /\ Rank \in [Resource -> 1 .. Cardinality(Resource)]
  /\ \A c \in AllCalls : Ordered(c.list, Rank)
  <1>1. /\ Rank \in [Resource -> 1 .. Cardinality(Resource)]
        /\ \A c \in AllCalls : Ordered(c.list, Rank)
    BY OrderAssumption DEF Rank
  <1> QED
    BY <1>1, OrderAssumption, FS_CardinalityType

\* What a call has still to take comes after what it has; who has something is
\* under way; only a cancelled call rolls back.
OrderInv ==
  /\ \A h \in Thread : Ordered(todo[h], Rank)
  /\ \A h \in Thread : \A l \in held[h], i \in DOMAIN todo[h] : Rank[l.res] < Rank[todo[h][i]]
  /\ \A h \in Thread : pc[h] \in {"idle", "holding", "broadcast", "done"} => todo[h] = <<>>
  /\ \A h \in Thread : pc[h] \in {"idle", "broadcast", "done"} => held[h] = {}
  /\ \A h \in Thread : pc[h] = "rollback" => h \in cancelled

\* What follows the head of an ordered list comes after it.
LEMMA TailOrdered ==
  ASSUME NEW q \in Seq(Resource), q # <<>>, Ordered(q, Rank)
  PROVE  /\ Ordered(Tail(q), Rank)
         /\ \A i \in DOMAIN Tail(q) :
              Tail(q)[i] \in Resource /\ Rank[Head(q)] < Rank[Tail(q)[i]]
  <1>1. Len(q) \in Nat /\ Len(q) # 0 /\ DOMAIN q = 1 .. Len(q)
    BY EmptySeq
  <1>2. /\ Head(q) = q[1] /\ DOMAIN Tail(q) = 1 .. Len(q) - 1
        /\ \A i \in 1 .. Len(q) - 1 : Tail(q)[i] = q[i + 1]
    BY <1>1, HeadTailProperties
  <1>3. \A i \in 1 .. Len(q) - 1 : i + 1 \in 1 .. Len(q) /\ 1 < i + 1 /\ q[i + 1] \in Resource
    BY <1>1, ElementOfSeq
  <1>4. \A i, j \in 1 .. Len(q) : i < j => Rank[q[i]] < Rank[q[j]]
    BY <1>1 DEF Ordered
  <1>5. ASSUME NEW i \in 1 .. Len(q) - 1, NEW j \in 1 .. Len(q) - 1, i < j
        PROVE  Rank[Tail(q)[i]] < Rank[Tail(q)[j]]
    <2>1. i + 1 \in 1 .. Len(q) /\ j + 1 \in 1 .. Len(q) /\ i + 1 < j + 1
      BY <1>1, <1>5
    <2> QED
      BY <1>2, <1>4, <2>1
  <1>6. ASSUME NEW i \in 1 .. Len(q) - 1 PROVE Rank[Head(q)] < Rank[Tail(q)[i]]
    <2>1. 1 \in 1 .. Len(q)
      BY <1>1
    <2> QED
      BY <1>2, <1>3, <1>4, <2>1
  <1> QED
    BY <1>2, <1>3, <1>5, <1>6 DEF Ordered

\* Every step keeps OrderInv.
LEMMA OrderInvStep == LockInv /\ OrderInv /\ [Next]_vars => OrderInv'
  <1> SUFFICES ASSUME LockInv, OrderInv, [Next]_vars PROVE OrderInv'
    OBVIOUS
  <1> USE DEF OrderInv
  <1>0. TypeOK /\ HeldByOwner
    BY DEF LockInv
  \* Steps that take nothing.
  <1>1. ASSUME todo' = todo, cancelled \subseteq cancelled',
               \A h \in Thread : held'[h] \subseteq held[h],
               \A h \in Thread :
                 \/ pc'[h] = pc[h]
                 \/ pc'[h] \in {"acquire", "checked", "waiting", "woken", "holding"}
                    /\ (pc'[h] = "holding" => todo[h] = <<>>)
                 \/ pc'[h] = "rollback" /\ h \in cancelled
                 \/ pc'[h] \in {"broadcast", "done"} /\ held'[h] = {} /\ todo[h] = <<>>
        PROVE  OrderInv'
    BY <1>1
  <1>2. ASSUME NEW h \in Thread, EnterAcquire(h) \/ Wake(h) \/ Wait(h) PROVE OrderInv'
    BY <1>0, <1>1, <1>2 DEF EnterAcquire, Wake, Wait, CheckContext, TypeOK
  <1>3. ASSUME NEW h \in Thread, Obtain(h) PROVE OrderInv'
    <2> DEFINE r == Head(todo[h])
               l == NewLease(h, r, mode[h])
    <2>1. /\ held' = [held EXCEPT ![h] = @ \cup {l}]
          /\ todo' = [todo EXCEPT ![h] = Tail(@)]
          /\ pc' = [pc EXCEPT ![h] = IF Tail(todo[h]) = <<>> THEN "holding" ELSE "acquire"]
          /\ cancelled' = cancelled /\ pc[h] = "checked"
      BY <1>3 DEF Obtain, Grant
    <2>2. todo[h] \in Seq(Resource) /\ todo[h] # <<>>
      BY <1>0, <2>1 DEF TypeOK
    <2>3. /\ Ordered(Tail(todo[h]), Rank)
          /\ \A i \in DOMAIN Tail(todo[h]) :
               Tail(todo[h])[i] \in Resource /\ Rank[r] < Rank[Tail(todo[h])[i]]
      BY <2>2, TailOrdered
    <2>4. r \in Resource /\ l.res = r
      BY <2>2 DEF NewLease
    <2>5. \A k \in held[h] : Rank[k.res] < Rank[r]
      <3>1. 1 \in DOMAIN todo[h] /\ r = todo[h][1]
        BY <2>2, EmptySeq
      <3> QED
        BY <3>1
    <2>6. ASSUME NEW k \in held'[h], NEW i \in DOMAIN todo'[h]
          PROVE  Rank[k.res] < Rank[todo'[h][i]]
      <3>1. todo'[h] = Tail(todo[h]) /\ (k = l \/ k \in held[h])
        BY <1>0, <2>1 DEF TypeOK
      <3>2. CASE k = l
        BY <2>3, <2>4, <3>1, <3>2
      <3>3. CASE k \in held[h]
        <4>1. Rank[k.res] < Rank[r] /\ Rank[r] < Rank[todo'[h][i]]
          BY <2>3, <2>5, <3>1, <3>3
        <4>2. k.res \in Resource /\ todo'[h][i] \in Resource
          BY <1>0, <2>3, <3>1, <3>3 DEF TypeOK, Lease
        <4>3. Rank[k.res] \in Nat /\ Rank[r] \in Nat /\ Rank[todo'[h][i]] \in Nat
          BY <2>4, <4>2, RankOrders
        <4> QED
          BY <4>1, <4>3
      <3> QED
        BY <3>1, <3>2, <3>3
    <2>7. /\ \A g \in Thread \ {h} : todo'[g] = todo[g] /\ held'[g] = held[g] /\ pc'[g] = pc[g]
          /\ todo'[h] = Tail(todo[h])
          /\ pc'[h] = IF Tail(todo[h]) = <<>> THEN "holding" ELSE "acquire"
      BY <1>0, <2>1 DEF TypeOK
    <2> HIDE DEF l, r
    <2>8. \A g \in Thread : Ordered(todo'[g], Rank)
      BY <2>3, <2>7
    <2>9. \A g \in Thread : \A k \in held'[g], i \in DOMAIN todo'[g] :
            Rank[k.res] < Rank[todo'[g][i]]
      BY <2>6, <2>7
    <2>10. \A g \in Thread :
             pc'[g] \in {"idle", "holding", "broadcast", "done"} => todo'[g] = <<>>
      BY <2>7
    <2>11. \A g \in Thread : pc'[g] \in {"idle", "broadcast", "done"} => held'[g] = {}
      BY <2>7
    <2>12. \A g \in Thread : pc'[g] = "rollback" => g \in cancelled'
      BY <2>1, <2>7
    <2> QED
      BY <2>8, <2>9, <2>10, <2>11, <2>12
  <1>4. ASSUME NEW h \in Thread, Rollback(h) PROVE OrderInv'
    <2>1. /\ held' = [held EXCEPT ![h] = @ \ held[h]] /\ todo' = [todo EXCEPT ![h] = <<>>]
          /\ pc' = [pc EXCEPT ![h] = "done"] /\ cancelled' = cancelled
      BY <1>4 DEF Rollback, Forget
    <2>2. Ordered(<<>>, Rank)
      BY DEF Ordered
    <2> QED
      BY <1>0, <2>1, <2>2 DEF TypeOK
  <1>5. ASSUME NEW h \in Thread, BroadcastAfterRelease(h) PROVE OrderInv'
    BY <1>0, <1>1, <1>5 DEF BroadcastAfterRelease, Broadcast, TypeOK
  <1>6. ASSUME NEW h \in Thread, ReleaseAll(h) PROVE OrderInv'
    <2>1. /\ held' = [held EXCEPT ![h] = @ \ held[h]] /\ todo' = todo
          /\ pc' = [pc EXCEPT ![h] = "broadcast"] /\ cancelled' = cancelled
          /\ pc[h] = "holding"
      BY <1>6 DEF ReleaseAll, Forget
    <2> QED
      BY <1>0, <1>1, <2>1 DEF TypeOK
  <1>7. ASSUME NEW h \in Thread, NEW l \in held[h], Release(h, l) PROVE OrderInv'
    <2> DEFINE after == [pc EXCEPT ![h] = IF held[h] = {l} THEN "done" ELSE @]
    <2>1. /\ held' = [held EXCEPT ![h] = @ \ {l}] /\ todo' = todo
          /\ pc' = Broadcast(after) \/ pc' = after
          /\ cancelled' = cancelled /\ pc[h] = "holding"
      BY <1>7 DEF Release, Forget
    <2>2. \A g \in Thread :
            \/ pc'[g] = pc[g]
            \/ pc'[g] = "woken"
            \/ pc'[g] = "done" /\ held'[g] = {} /\ todo[g] = <<>>
      BY <1>0, <2>1 DEF Broadcast, TypeOK
    <2>3. \A g \in Thread : held'[g] \subseteq held[g]
      BY <1>0, <2>1 DEF TypeOK
    <2> QED
      BY <1>1, <2>1, <2>2, <2>3
  <1>8. ASSUME NEW h \in Thread, NEW r \in Resource, WatcherStep(h, r) PROVE OrderInv'
    BY <1>0, <1>1, <1>8 DEF WatcherStep, WatcherBroadcast, WatcherStop, Broadcast, TypeOK
  <1>9. ASSUME NEW c \in AllCalls, CallAcquireAll(c) PROVE OrderInv'
    <2>1. /\ pc[c.by] = "idle" /\ pc' = [pc EXCEPT ![c.by] = "acquire"]
          /\ todo' = [todo EXCEPT ![c.by] = c.list]
          /\ held' = held /\ cancelled' = cancelled
      BY <1>9 DEF CallAcquireAll
    <2>2. c.by \in Thread /\ held[c.by] = {} /\ Ordered(c.list, Rank)
      BY <2>1, CallsAssumption, RankOrders
    <2> QED
      BY <1>0, <2>1, <2>2 DEF TypeOK
  <1>10. ASSUME NEW k \in TryCalls, TryAcquire(k.holder, k.res, k.mode) PROVE OrderInv'
    <2> DEFINE h == k.holder
    <2>1. /\ pc[h] = "idle" /\ todo' = todo /\ cancelled' = cancelled
          /\ \/ /\ held' = [held EXCEPT ![h] = @ \cup {NewLease(h, k.res, k.mode)}]
                /\ pc' = [pc EXCEPT ![h] = "holding"]
             \/ held' = held /\ pc' = [pc EXCEPT ![h] = "done"]
      BY <1>10 DEF TryAcquire, Grant
    <2>2. h \in Thread /\ todo[h] = <<>> /\ held[h] = {}
      BY <2>1, CallsAssumption DEF Lease
    <2> HIDE DEF h
    <2>3. /\ \A g \in Thread \ {h} : held'[g] = held[g] /\ pc'[g] = pc[g]
          /\ \/ pc'[h] = "holding"
             \/ pc'[h] = "done" /\ held'[h] = {}
      BY <1>0, <2>1, <2>2 DEF TypeOK
    <2>4. \A g \in Thread : \A l \in held'[g], i \in DOMAIN todo'[g] :
            Rank[l.res] < Rank[todo'[g][i]]
      BY <2>1, <2>2, <2>3
    <2> QED
      BY <2>1, <2>2, <2>3, <2>4
  <1>11. ASSUME \/ \E h \in Thread : \E l \in held[h] : Renew(h, l)
                \/ \E l \in byLease : Lapse(l)
                \/ \E h \in Cancellable : CancelContext(h)
                \/ UNCHANGED vars
         PROVE  OrderInv'
    <2>1. UNCHANGED <<pc, todo, held>> /\ cancelled \subseteq cancelled'
      BY <1>11 DEF Renew, Lapse, CancelContext, vars
    <2> QED
      BY <1>1, <2>1
  <1> QED
    BY <1>2, <1>3, <1>4, <1>5, <1>6, <1>7, <1>8, <1>9, <1>10, <1>11
       DEF Next, ManagerStep, EndOfWork

\* In every run a call takes its resources in the global order, also after it
\* slept, and a call that is over holds nothing and asks for nothing.
THEOREM OrderKept == Spec => []OrderInv
  <1>1. Init => OrderInv
    BY DEF Init, OrderInv, Ordered
  <1> QED
    BY <1>1, OrderInvStep, LockInvariant, PTL DEF Spec

\* Somebody will tell h.
Reminder(h) ==
  \E g \in Thread \ {h} :
    \/ pc[g] = "broadcast"
    \/ \E l \in held[g] : l.res = Head(todo[h]) /\ Conflict(l.mode, mode[h])

Told == \A h \in Thread : pc[h] = "waiting" => Reminder(h)

\* A step in a run without cancellation or late Release leaves no sleeper
\* without its reminder: who deletes a lease of the table owes a Broadcast, and
\* a call never waits for itself (OrderInv).
LEMMA ToldStep ==
  ASSUME LockInv, OrderInv, Patient, Patient', Told, [Next]_vars
  PROVE  Told'
  <1>0. TypeOK /\ HeldByOwner /\ HeldInTable /\ TablesAgree /\ NoOrphanLease
    BY DEF LockInv
  \* A call that slept already, when nobody gives anything back.
  <1>1. ASSUME NEW h \in Thread, pc[h] = "waiting", todo'[h] = todo[h], mode'[h] = mode[h],
               \A g \in Thread : held[g] \subseteq held'[g] \/ pc'[g] = "broadcast",
               \A g \in Thread : pc[g] = "broadcast" => pc'[g] = "broadcast"
        PROVE  Reminder(h)'
    BY <1>1 DEF Told, Reminder
  \* Where somebody broadcasts nobody sleeps.
  <1>2. ASSUME NEW f, pc' = Broadcast(f) PROVE Told'
    BY <1>2 DEF Broadcast, Told
  <1>3. ASSUME NEW h \in Thread, EnterAcquire(h) \/ Wake(h) PROVE Told'
    <2>1. /\ UNCHANGED <<todo, mode, held>> /\ pc' = [pc EXCEPT ![h] = "checked"]
          /\ pc[h] \in {"acquire", "woken"}
      BY <1>3 DEF EnterAcquire, Wake, CheckContext, Patient
    <2> QED
      BY <1>0, <1>1, <2>1 DEF TypeOK, Told
  <1>4. ASSUME NEW h \in Thread, Obtain(h) PROVE Told'
    <2>1. /\ mode' = mode /\ pc[h] = "checked"
          /\ \A g \in Thread \ {h} : todo'[g] = todo[g] /\ pc'[g] = pc[g]
          /\ pc'[h] # "waiting"
          /\ \A g \in Thread : held[g] \subseteq held'[g]
      BY <1>0, <1>4 DEF Obtain, Grant, TypeOK
    <2> QED
      BY <1>1, <2>1 DEF Told
  <1>5. ASSUME NEW h \in Thread, Wait(h) PROVE Told'
    <2> DEFINE r == Head(todo[h])
    <2>1. /\ UNCHANGED <<todo, mode, held>> /\ pc' = [pc EXCEPT ![h] = "waiting"]
          /\ pc[h] = "checked" /\ Blocked(leases, r, mode[h])
      BY <1>5 DEF Wait
    <2>2. PICK l \in leases[r] : Conflict(l.mode, mode[h])
      BY <2>1 DEF Blocked
    <2>3. todo[h] \in Seq(Resource) /\ todo[h] # <<>>
      BY <1>0, <2>1 DEF TypeOK
    <2>4. r \in Resource /\ 1 \in DOMAIN todo[h] /\ r = todo[h][1]
      BY <2>3, EmptySeq
    <2> HIDE DEF r
    <2>5. l.res = r /\ l \in byLease
      BY <1>0, <2>2, <2>4 DEF TablesAgree
    <2>6. l \in held[l.holder] /\ l.holder \in Thread
      BY <1>0, <2>5 DEF NoOrphanLease, TypeOK, Lease
    <2>7. l.holder # h
      <3> SUFFICES ASSUME l.holder = h PROVE FALSE
        OBVIOUS
      <3>1. Rank[l.res] < Rank[todo[h][1]]
        BY <2>4, <2>6 DEF OrderInv
      <3>2. Rank[r] \in Nat /\ ~(Rank[r] < Rank[r])
        BY <2>4, RankOrders
      <3> QED
        BY <2>4, <2>5, <3>1, <3>2
    <2>8. Reminder(h)'
      BY <2>1, <2>2, <2>5, <2>6, <2>7 DEF Reminder, r
    <2>9. \A g \in Thread \ {h} : pc'[g] = pc[g]
      BY <1>0, <2>1 DEF TypeOK
    <2> QED
      BY <1>1, <2>1, <2>8, <2>9 DEF Told
  <1>6. ASSUME NEW h \in Thread, Rollback(h) PROVE Told'
    BY <1>6 DEF Rollback, OrderInv, Patient
  <1>7. ASSUME NEW h \in Thread, BroadcastAfterRelease(h) PROVE Told'
    BY <1>2, <1>7 DEF BroadcastAfterRelease
  <1>8. ASSUME NEW h \in Thread, ReleaseAll(h) PROVE Told'
    <2>1. /\ UNCHANGED <<todo, mode>> /\ pc' = [pc EXCEPT ![h] = "broadcast"]
          /\ held' = [held EXCEPT ![h] = @ \ held[h]] /\ pc[h] = "holding"
      BY <1>8 DEF ReleaseAll, Forget
    <2>2. \A g \in Thread \ {h} : pc'[g] = pc[g] /\ held'[g] = held[g]
      BY <1>0, <2>1 DEF TypeOK
    <2>3. pc'[h] = "broadcast"
      BY <1>0, <2>1 DEF TypeOK
    <2> QED
      BY <1>1, <2>1, <2>2, <2>3 DEF Told
  <1>9. ASSUME NEW h \in Thread, NEW l \in held[h], Release(h, l) PROVE Told'
    <2>1. l.holder = h /\ h \in OneByOne
      BY <1>0, <1>9 DEF HeldByOwner, Release
    <2>2. l \notin lapsed
      BY <2>1 DEF Patient
    <2>3. l \in byLease
      BY <1>0, <2>2 DEF HeldInTable
    <2> QED
      BY <1>2, <1>9, <2>3 DEF Release
  <1>10. ASSUME NEW h \in Thread, NEW r \in Resource, WatcherStep(h, r) PROVE Told'
    <2>1. UNCHANGED <<pc, todo, mode, held>>
      BY <1>10 DEF WatcherStep, WatcherStop, WatcherBroadcast, Patient
    <2> QED
      BY <1>1, <2>1 DEF Told
  <1>11. ASSUME NEW c \in AllCalls, CallAcquireAll(c) PROVE Told'
    <2>1. /\ pc[c.by] = "idle" /\ pc' = [pc EXCEPT ![c.by] = "acquire"]
          /\ todo' = [todo EXCEPT ![c.by] = c.list] /\ mode' = [mode EXCEPT ![c.by] = c.mode]
          /\ held' = held
      BY <1>11 DEF CallAcquireAll
    <2>2. /\ \A g \in Thread \ {c.by} : pc'[g] = pc[g] /\ todo'[g] = todo[g] /\ mode'[g] = mode[g]
          /\ c.by \in Thread => pc'[c.by] = "acquire"
      BY <1>0, <2>1 DEF TypeOK
    <2>3. \A g \in Thread : pc[g] = "broadcast" => pc'[g] = "broadcast"
      BY <2>1, <2>2
    <2> QED
      BY <1>1, <2>1, <2>2, <2>3 DEF Told
  <1>12. ASSUME NEW k \in TryCalls, TryAcquire(k.holder, k.res, k.mode) PROVE Told'
    <2>1. /\ pc[k.holder] = "idle" /\ UNCHANGED <<todo, mode>>
          /\ \A g \in Thread \ {k.holder} : pc'[g] = pc[g]
          /\ k.holder \in Thread => pc'[k.holder] \in {"holding", "done"}
          /\ \A g \in Thread : held[g] \subseteq held'[g]
      BY <1>0, <1>12 DEF TryAcquire, Grant, TypeOK
    <2>2. \A g \in Thread : pc[g] = "broadcast" => pc'[g] = "broadcast"
      BY <2>1
    <2> QED
      BY <1>1, <2>1, <2>2 DEF Told
  <1>13. ASSUME \/ \E h \in Thread : \E l \in held[h] : Renew(h, l)
                \/ \E l \in byLease : Lapse(l)
                \/ \E h \in Cancellable : CancelContext(h)
                \/ UNCHANGED vars
         PROVE  Told'
    <2>1. UNCHANGED <<pc, todo, mode, held>>
      BY <1>13 DEF Renew, Lapse, CancelContext, vars
    <2> QED
      BY <1>1, <2>1 DEF Told
  <1> QED
    BY <1>3, <1>4, <1>5, <1>6, <1>7, <1>8, <1>9, <1>10, <1>11, <1>12, <1>13
       DEF Next, ManagerStep, EndOfWork

\* In a run without cancellation or late Release no call sleeps forgotten:
\* whatever the calls, the modes and the moments at which leases expire and are
\* pruned, somebody else holds what it waits for or is about to broadcast.
THEOREM WaitersAreTold == Spec => WaitersWillBeTold
  <1>1. Init => Told
    BY DEF Init, Told
  <1>2. LockInv /\ OrderInv /\ Patient /\ Patient' /\ Told /\ [Next]_vars => Told'
    BY ToldStep
  <1>3. Spec /\ []Patient => []Told
    BY <1>1, <1>2, LockInvariant, OrderKept, PTL DEF Spec
  <1>4. Told <=> \A h \in Thread : pc[h] = "waiting" =>
                   \E g \in Thread \ {h} :
                     \/ pc[g] = "broadcast"
                     \/ \E l \in held[g] : l.res = Head(todo[h]) /\ Conflict(l.mode, mode[h])
    BY DEF Told, Reminder
  <1> QED
    BY <1>3, <1>4, PTL DEF WaitersWillBeTold

\* A nonempty set of numbers up to n has a greatest one.
LEMMA GreatestOf ==
  ASSUME NEW n \in Nat, NEW S, S \subseteq 1 .. n, S # {}
  PROVE  \E m \in S : \A x \in S : x <= m
  <1> DEFINE Less == {p \in Nat \X Nat : p[1] < p[2]}
             T == {n - x : x \in S}
  <1>1. IsWellFoundedOn(Less, Nat)
    BY NatLessThanWellFounded DEF OpToRel
  <1>2. T \subseteq Nat /\ T # {}
    <2>1. \A x \in S : n - x \in Nat
      OBVIOUS
    <2> QED
      BY <2>1
  <1>3. PICK t \in T : \A y \in T : ~(<<y, t>> \in Less)
    BY <1>1, <1>2, WFMin
  <1>4. ASSUME NEW y \in T PROVE t <= y
    <2>1. t \in Nat /\ y \in Nat
      BY <1>2
    <2>2. <<y, t>> \in Nat \X Nat /\ <<y, t>>[1] = y /\ <<y, t>>[2] = t
      BY <2>1
    <2>3. ~(y < t)
      BY <1>3, <2>2
    <2> QED
      BY <2>1, <2>3
  <1>5. PICK m \in S : t = n - m
    OBVIOUS
  <1>6. ASSUME NEW x \in S PROVE x <= m
    <2>1. n - m <= n - x
      BY <1>4, <1>5
    <2>2. x \in 1 .. n /\ m \in 1 .. n
      OBVIOUS
    <2> QED
      BY <2>1, <2>2
  <1> QED
    BY <1>6

\* Of the sleepers take the one that waits for the last resource in the order.
\* Who holds that resource would, if it slept, wait for a later one.
LEMMA SomebodyIsAwake ==
  ASSUME LockInv, OrderInv, Told, NEW w \in Thread, pc[w] = "waiting", Patient
  PROVE  Awake # {}
  <1> SUFFICES ASSUME Awake = {} PROVE FALSE
    OBVIOUS
  <1>0. TypeOK
    BY DEF LockInv
  <1>1. \A h \in Thread : pc[h] \in {"idle", "waiting", "done"}
    BY DEF Awake
  <1> DEFINE Sleeper == {h \in Thread : pc[h] = "waiting"}
             At(h) == Rank[Head(todo[h])]
             S == {At(h) : h \in Sleeper}
  <1>2. \A h \in Sleeper : todo[h] \in Seq(Resource) /\ todo[h] # <<>> /\ Head(todo[h]) \in Resource
    BY <1>0 DEF TypeOK
  <1>3. S \subseteq 1 .. Cardinality(Resource) /\ S # {} /\ Cardinality(Resource) \in Nat
    BY <1>2, RankOrders
  <1>4. PICK m \in S : \A x \in S : x <= m
    BY <1>3, GreatestOf
  <1>5. PICK h \in Sleeper : m = At(h)
    OBVIOUS
  <1>6. PICK g \in Thread \ {h} :
          \/ pc[g] = "broadcast"
          \/ \E l \in held[g] : l.res = Head(todo[h]) /\ Conflict(l.mode, mode[h])
    BY DEF Told, Reminder
  <1>7. g \in Sleeper /\ \E l \in held[g] : l.res = Head(todo[h])
    BY <1>1, <1>6 DEF OrderInv
  <1>8. At(h) < At(g)
    <2>1. 1 \in DOMAIN todo[g] /\ Head(todo[g]) = todo[g][1]
      BY <1>2, <1>7, EmptySeq
    <2> QED
      BY <1>7, <2>1 DEF OrderInv
  <1>9. At(g) \in S /\ At(g) \in Nat /\ At(h) \in Nat
    BY <1>2, <1>7, RankOrders
  <1>10. At(g) <= At(h)
    BY <1>4, <1>5, <1>9
  <1> QED
    BY <1>8, <1>9, <1>10

\* In a run without cancellation or late Release the calls never all sleep: for
\* any number of calls and resources the order of resolveResourceIDs excludes a
\* cycle of waiting calls.
THEOREM DeadlockFree == Spec => NoDeadlock
  <1>1. Init => Told
    BY DEF Init, Told
  <1>2. LockInv /\ OrderInv /\ Patient /\ Patient' /\ Told /\ [Next]_vars => Told'
    BY ToldStep
  <1>3. LockInv /\ OrderInv /\ Patient /\ Told
          => ((\E h \in Thread : pc[h] = "waiting") => Awake # {})
    BY SomebodyIsAwake
  <1> QED
    BY <1>1, <1>2, <1>3, LockInvariant, OrderKept, PTL DEF Spec, NoDeadlock

-----------------------------------------------------------------------------
(* The lock manager implements the lease service *)

\* A granted lease is compatible with all leases in force.
LEMMA GrantRefines ==
  ASSUME LockInv, NEW gone \in SUBSET lapsed,
         NEW h \in Thread, NEW r \in Resource, NEW m \in Mode,
         ~Blocked(Without(gone), r, m),
         Grant(Without(gone), byLease \ gone, h, r, m),
         UNCHANGED lapsed
  PROVE  [Service!Next]_(byLease \ lapsed)
  <1> DEFINE l == NewLease(h, r, m)
             before == byLease \ lapsed
  <1>1. l \in Service!Lease /\ l.mode = m /\ l.res = r /\ l.holder = h
    BY DEF NewLease, Service!Lease, Service!Mode, Mode
  <1>2. before' = IF l \in lapsed THEN before ELSE before \cup {l}
    BY DEF Grant
  <1>3. \A k \in before : Service!Compatible(l, k)
    <2> SUFFICES ASSUME NEW k \in before, k.res = r
                 PROVE  m = "SHARED" /\ k.mode = "SHARED"
      BY <1>1 DEF Service!Compatible
    <2>1. k \in leases[r] \ gone /\ k.mode \in Mode
      BY DEF LockInv, TypeOK, TablesAgree, Lease
    <2>2. ~Conflict(k.mode, m)
      BY <2>1 DEF Blocked, Without
    <2> QED
      BY <2>1, <2>2 DEF Conflict, Mode
  <1>4. CASE l \in lapsed
    BY <1>2, <1>4
  <1>5. CASE l \notin lapsed
    <2>1. Service!Grant(l)
      BY <1>2, <1>3, <1>5 DEF Service!Grant
    <2> QED
      BY <1>1, <2>1 DEF Service!Next
  <1> QED
    BY <1>4, <1>5

\* A call that gives leases back removes only leases of its own.
LEMMA GiveBackRefines ==
  ASSUME LockInv, NEW h \in Thread, NEW S \in SUBSET held[h],
         byLease' = byLease \ S, lapsed' = lapsed \ S
  PROVE  Service!Next
  <1> DEFINE before == byLease \ lapsed
             T == {l \in S : l \in before}
  <1>1. before' = before \ T
    OBVIOUS
  <1>2. T \in SUBSET {l \in before : l.holder = h}
    BY DEF LockInv, HeldByOwner
  <1>3. Service!GiveBack(h)
    BY <1>1, <1>2 DEF Service!GiveBack
  <1> QED
    BY <1>3 DEF Service!Next

\* Each step of the manager is a step of the service or leaves it alone.
LEMMA RefinementStep ==
  LockInv /\ [Next]_vars => [Service!Next]_(byLease \ lapsed)
  <1> SUFFICES ASSUME LockInv, [Next]_vars
               PROVE  [Service!Next]_(byLease \ lapsed)
    OBVIOUS
  <1>1. TypeOK
    BY DEF LockInv
  <1>2. ASSUME NEW h \in Thread, EnterAcquire(h)
        PROVE  UNCHANGED (byLease \ lapsed)
    BY <1>2 DEF EnterAcquire, Prune
  <1>3. ASSUME NEW h \in Thread, Obtain(h)
        PROVE  [Service!Next]_(byLease \ lapsed)
    <2>1. Without({}) = leases /\ byLease \ {} = byLease
      BY <1>1 DEF Without, TypeOK
    <2>2. Head(todo[h]) \in Resource /\ mode[h] \in Mode
      BY <1>1, <1>3 DEF Obtain, TypeOK
    <2> QED
      BY <1>3, <2>1, <2>2, GrantRefines DEF Obtain
  <1>4. ASSUME NEW h \in Thread, Rollback(h) \/ ReleaseAll(h)
        PROVE  Service!Next
    BY <1>4, GiveBackRefines DEF Rollback, ReleaseAll, Delete, Forget
  <1>5. ASSUME NEW h \in Thread, NEW l \in held[h], Release(h, l)
        PROVE  Service!Next
    <2>1. byLease' = byLease \ {l} /\ lapsed' = lapsed \ {l}
      BY <1>5 DEF Release, Delete, Forget
    <2> QED
      BY <2>1, GiveBackRefines
  <1>6. ASSUME NEW h \in Thread, NEW r \in Resource, NEW m \in Mode, TryAcquire(h, r, m)
        PROVE  [Service!Next]_(byLease \ lapsed)
    <2>1. CASE /\ ~Blocked(Without(lapsed), r, m)
               /\ Grant(Without(lapsed), byLease \ lapsed, h, r, m)
      BY <1>6, <2>1, GrantRefines DEF TryAcquire
    <2>2. CASE Prune
      BY <1>6, <2>2 DEF TryAcquire, Prune
    <2> QED
      BY <1>6, <2>1, <2>2 DEF TryAcquire
  <1>7. ASSUME NEW h \in Thread, NEW l \in held[h], Renew(h, l)
        PROVE  UNCHANGED (byLease \ lapsed)
    BY <1>7 DEF Renew, Delete
  <1>8. ASSUME NEW l \in byLease, Lapse(l) PROVE Service!Next
    <2>1. l \in byLease \ lapsed /\ Service!Expire(l)
      BY <1>8 DEF Lapse, Service!Expire
    <2> QED
      BY <2>1 DEF Service!Next
  <1>9. \A l \in TryCalls : l.holder \in Thread /\ l.res \in Resource /\ l.mode \in Mode
    BY CallsAssumption DEF Lease
  <1>10. ASSUME \/ \E h \in Thread : Wake(h) \/ Wait(h) \/ BroadcastAfterRelease(h)
                \/ \E h \in Thread, r \in Resource : WatcherStep(h, r)
                \/ \E c \in AllCalls : CallAcquireAll(c)
                \/ \E h \in Cancellable : CancelContext(h)
                \/ UNCHANGED vars
         PROVE  UNCHANGED (byLease \ lapsed)
    BY <1>10 DEF Wake, Wait, BroadcastAfterRelease, WatcherStep, WatcherBroadcast,
                 WatcherStop, CallAcquireAll, CancelContext, vars
  <1> QED
    BY <1>2, <1>3, <1>4, <1>5, <1>6, <1>7, <1>8, <1>9, <1>10
       DEF Next, ManagerStep, EndOfWork

\* The lock manager implements LeaseService: a lease in force is granted only
\* when compatible with all others, and ends only by its own holder's release
\* or by its own expiry.
THEOREM Refinement == Spec => LeasesServed
  <1>1. Init => Service!Init
    BY DEF Init, Service!Init
  <1> QED
    BY <1>1, LockInvariant, RefinementStep, PTL DEF Spec, LeasesServed, Service!Spec

-----------------------------------------------------------------------------
(* The operations on one board *)

\* No two operations hold a lease of the same resource.
LeasesApart == \A o, q \in Op : o # q => Holds(o) \cap Holds(q) = {}

Underway == {"new", "resolve", "loop", "ask", "guard", "act", "failed", "recover", "bind"}
InLoop == {"loop", "ask", "guard", "act", "readback", "failed", "recover", "bind"}

\* What a success rests on.
Earned(o) == applied[o] = 1 \/ (applied[o] = 0 /\ o \in Flashes /\ Present(o))

\* Until the method of the device has worked, an operation has changed nothing;
\* afterwards it is never tried again, and nobody has touched its part.  Nor has
\* anybody flashed another version while a flash that succeeds has its leases.
RunKept(o) ==
  /\ at[o] \in Underway => applied[o] = 0 /\ outcome[o] = "none"
  /\ at[o] = "readback" => applied[o] = 1 /\ Capability[o] = "flash" /\ outcome[o] = "none"
  /\ at[o] \in {"release", "over"} =>
       IF outcome[o] = "SUCCEEDED" THEN Earned(o)
       ELSE applied[o] = 0 /\ outcome[o] \in {"RESOLVE_FAILED", "RUN_FAILED", "UNKNOWN"}
  /\ at[o] \in {"readback", "release"} /\ applied[o] > 0 /\ ChangesPart(o) =>
       part[Changes[Capability[o]]] = o
  /\ at[o] = "release" /\ outcome[o] = "SUCCEEDED" /\ o \in Flashes => VersionOn = Version[o]
  /\ \A x \in Part : part[x] = o => applied[o] > 0 /\ ChangesPart(o) /\ Changes[Capability[o]] = x
  /\ at[o] \in {"recover", "bind"} => attempt[o] < MaxRetries
  /\ at[o] \in InLoop => via[o] \in Plugin

BoardInv == BoardTypeOK /\ LeasesApart /\ \A o \in Op : RunKept(o)

\* Whoever changes a part of the board needs the device for itself: what the
\* plugins declare, ADB for flash, JTAG for the core and the memory.
LEMMA ChangerNeedsDevice ==
  ASSUME NEW o \in Op, ChangesPart(o)
  PROVE  "device" \in NeedsOf(o)
  <1>1. PICK p \in Plugin : Capability[o] \in DOMAIN Needs[p]
    BY BoardAssumption
  <1>2. p \in {"adb", "uart", "jtag", "mcp"}
    BY <1>1, BoardAssumption DEF Needs
  <1>3. Capability[o] \in {"flash", "halt", "resume", "write"}
    BY DEF ChangesPart, Changes
  <1>4. "device" \in Needs[p][Capability[o]]
    <2>1. CASE p = "adb"
      BY <1>1, <1>3, <2>1 DEF Needs, AdbNeeds
    <2>2. CASE p = "uart"
      BY <1>1, <1>3, <2>2 DEF Needs, UartNeeds
    <2>3. CASE p = "jtag"
      BY <1>1, <1>3, <2>3 DEF Needs, JtagNeeds
    <2>4. CASE p = "mcp"
      BY <1>1, <1>3, <2>4 DEF Needs, McpNeeds
    <2> QED
      BY <1>2, <2>1, <2>2, <2>3, <2>4
  <1> QED
    BY <1>1, <1>4 DEF NeedsOf, Offers

LEMMA ChangedPart ==
  ASSUME NEW o \in Op, ChangesPart(o)
  PROVE  Changes[Capability[o]] \in Part
  <1>1. Capability[o] \in {"flash", "halt", "resume", "write"}
    BY DEF ChangesPart, Changes
  <1>2. /\ Changes["flash"] = "partition" /\ Changes["halt"] = "core"
        /\ Changes["resume"] = "core" /\ Changes["write"] = "memory"
    BY DEF Changes
  <1> QED
    BY <1>1, <1>2 DEF Part

\* What the plugins answer when a method of the device fails.
LEMMA ErrorTyped ==
  ASSUME NEW p \in Plugin, NEW c, NEW offline \in BOOLEAN
  PROVE  InvokeError(p, c, offline) \in Category
  <1>1. p \in {"adb", "uart", "jtag", "mcp"}
    BY BoardAssumption DEF Needs
  <1> QED
    BY <1>1 DEF InvokeError, AdbError, UartError, JtagError, McpError,
       Category

LEMMA FlashChanges ==
  ASSUME NEW o \in Op
  PROVE  o \in Flashes <=> ChangesPart(o) /\ Changes[Capability[o]] = "partition"
  BY DEF Flashes, ChangesPart, Changes

\* What is on the board has come there somehow.
LEMMA BoardExplained ==
  ASSUME BoardInv, NEW o \in Op, VersionOn = Version[o]
  PROVE  Present(o)
  <1>1. CASE part["partition"] = "none"
    BY <1>1 DEF VersionOn, Present
  <1>2. CASE part["partition"] # "none"
    <2> DEFINE q == part["partition"]
    <2>1. q \in Op /\ "partition" \in Part /\ Version[q] = Version[o]
      BY <1>2 DEF BoardInv, BoardTypeOK, Part, VersionOn
    <2>2. applied[q] > 0 /\ q \in Flashes
      BY <2>1, FlashChanges DEF BoardInv, RunKept
    <2> QED
      BY <2>1, <2>2 DEF Present
  <1> QED
    BY <1>1, <1>2

\* A step of one operation that leaves the board as it is, and takes no lease.
LEMMA StepKeepsBoard ==
  ASSUME BoardInv, NEW o \in Op, BoardTypeOK', RunKept(o)',
         UNCHANGED <<part, applied>>,
         \A q \in Op \ {o} : /\ at'[q] = at[q] /\ outcome'[q] = outcome[q]
                             /\ attempt'[q] = attempt[q] /\ via'[q] = via[q],
         at[o] \notin {"new", "over"}
  PROVE  BoardInv'
  <1>0. VersionOn' = VersionOn /\ \A q \in Op : Earned(q)' <=> Earned(q)
    BY DEF VersionOn, Earned, Present
  <1>1. \A q \in Op : RunKept(q)'
    BY <1>0 DEF BoardInv, RunKept
  <1>2. \A q \in Op : Holds(q)' \subseteq Holds(q)
    BY DEF Holds, NeedsOf, Offers
  <1>3. LeasesApart'
    BY <1>2 DEF BoardInv, LeasesApart
  <1> QED
    BY <1>1, <1>3 DEF BoardInv

LEMMA InitBoardInv ==
  BoardInit => BoardInv
  <1> SUFFICES ASSUME BoardInit PROVE BoardInv
    OBVIOUS
  <1>0. 0 \in 0..MaxRetries
    BY BoardAssumption
  <1>1. BoardTypeOK
    BY <1>0 DEF BoardInit, BoardTypeOK, Place
  <1>2. LeasesApart
    BY DEF BoardInit, LeasesApart, Holds
  <1>3. \A o \in Op : RunKept(o)
    BY BoardAssumption DEF BoardInit, RunKept, Underway, InLoop
  <1> QED
    BY <1>1, <1>2, <1>3 DEF BoardInv

-----------------------------------------------------------------------------
(* The steps of an operation *)

LEMMA AcquireBoard ==
  ASSUME BoardInv, NEW o \in Op, Acquire(o)
  PROVE  BoardInv'
  <1>0. /\ at[o] = "new" /\ at' = [at EXCEPT ![o] = "resolve"]
        /\ \A q \in Op \ {o} : Holds(q) \cap NeedsOf(o) = {}
        /\ UNCHANGED <<online, failing, part, applied, ready, via, attempt, category, unknown, outcome>>
    BY DEF Acquire, Goto, deviceVars
  <1>1. BoardTypeOK'
    BY <1>0 DEF BoardInv, BoardTypeOK, Place
  <1>2. \A q \in Op : RunKept(q)'
    BY <1>0 DEF BoardInv, BoardTypeOK, RunKept, Underway, InLoop, Earned, Present, VersionOn
  <1>3. Holds(o)' = NeedsOf(o) /\ \A q \in Op \ {o} : Holds(q)' = Holds(q)
    BY <1>0 DEF BoardInv, BoardTypeOK, Holds, NeedsOf, Offers
  <1>4. LeasesApart'
    BY <1>0, <1>3 DEF BoardInv, LeasesApart
  <1> QED
    BY <1>1, <1>2, <1>4 DEF BoardInv

LEMMA ResolveBoard ==
  ASSUME BoardInv, NEW o \in Op, Resolve(o)
  PROVE  BoardInv'
  <1>0. /\ at[o] = "resolve"
        /\ UNCHANGED <<online, failing, part, applied, ready, attempt, category, unknown>>
        /\ \/ /\ at' = [at EXCEPT ![o] = "release"]
              /\ outcome' = [outcome EXCEPT ![o] = "RESOLVE_FAILED"]
              /\ UNCHANGED via
           \/ \E p \in Plugin : /\ via' = [via EXCEPT ![o] = p]
                                /\ at' = [at EXCEPT ![o] = "loop"]
                                /\ UNCHANGED outcome
    BY DEF Resolve, Goto, Finish, deviceVars
  <1>1. BoardTypeOK'
    BY <1>0 DEF BoardInv, BoardTypeOK, Place, Outcome
  <1>2. RunKept(o)'
    BY <1>0 DEF BoardInv, BoardTypeOK, RunKept, Underway, InLoop
  <1>3. \A q \in Op \ {o} : /\ at'[q] = at[q] /\ outcome'[q] = outcome[q]
                            /\ attempt'[q] = attempt[q] /\ via'[q] = via[q]
    BY <1>0 DEF BoardInv, BoardTypeOK
  <1> QED
    BY <1>0, <1>1, <1>2, <1>3, StepKeepsBoard

LEMMA LoopBoard ==
  ASSUME BoardInv, NEW o \in Op, Loop(o)
  PROVE  BoardInv'
  <1>0. /\ at[o] = "loop"
        /\ UNCHANGED <<online, failing, part, applied, via, attempt, category, unknown>>
        /\ \/ /\ ready' = ready \cup {via[o]}
              /\ \E p \in {"ask", "guard"} : at' = [at EXCEPT ![o] = p]
              /\ UNCHANGED outcome
           \/ /\ at' = [at EXCEPT ![o] = "release"]
              /\ outcome' = [outcome EXCEPT ![o] = "RUN_FAILED"]
              /\ UNCHANGED ready
    BY DEF Loop, InvokeFrom, Goto, Finish, deviceVars
  <1>1. via[o] \in Plugin
    BY <1>0 DEF BoardInv, RunKept, InLoop
  <1>2. BoardTypeOK'
    BY <1>0, <1>1 DEF BoardInv, BoardTypeOK, Place, Outcome
  <1>3. RunKept(o)'
    BY <1>0, <1>1 DEF BoardInv, BoardTypeOK, RunKept, Underway, InLoop
  <1>4. \A q \in Op \ {o} : /\ at'[q] = at[q] /\ outcome'[q] = outcome[q]
                            /\ attempt'[q] = attempt[q] /\ via'[q] = via[q]
    BY <1>0 DEF BoardInv, BoardTypeOK
  <1> QED
    BY <1>0, <1>2, <1>3, <1>4, StepKeepsBoard

LEMMA AskBoard ==
  ASSUME BoardInv, NEW o \in Op, Ask(o) \/ Guard(o)
  PROVE  BoardInv'
  <1>0. /\ at[o] \in {"ask", "guard"}
        /\ UNCHANGED <<online, failing, part, applied, ready, via, attempt, unknown, outcome>>
        /\ \/ \E p \in {"guard", "act"} : at' = [at EXCEPT ![o] = p] /\ UNCHANGED category
           \/ /\ at' = [at EXCEPT ![o] = "failed"]
              /\ \/ category' = [category EXCEPT ![o] = "DEVICE_STATE"]
                 \/ category' = [category EXCEPT ![o] = InvokeError(via[o], Capability[o], ~online)]
    BY DEF Ask, Guard, Goto, Fails, deviceVars
  <1>1. via[o] \in Plugin
    BY <1>0 DEF BoardInv, RunKept, InLoop
  <1>2. InvokeError(via[o], Capability[o], ~online) \in Category /\ "DEVICE_STATE" \in Category
    BY <1>1, ErrorTyped DEF Category
  <1>3. category' \in [Op -> Category \cup {"none"}]
    BY <1>0, <1>2 DEF BoardInv, BoardTypeOK
  <1>4. BoardTypeOK'
    BY <1>0, <1>3 DEF BoardInv, BoardTypeOK, Place
  <1>5. RunKept(o)'
    BY <1>0, <1>1 DEF BoardInv, BoardTypeOK, RunKept, Underway, InLoop
  <1>6. \A q \in Op \ {o} : /\ at'[q] = at[q] /\ outcome'[q] = outcome[q]
                            /\ attempt'[q] = attempt[q] /\ via'[q] = via[q]
    BY <1>0 DEF BoardInv, BoardTypeOK
  <1> QED
    BY <1>0, <1>4, <1>5, <1>6, StepKeepsBoard

\* The method of the device: whoever has changed the same part before, and still
\* answers for it, would hold the device too.
LEMMA ActBoard ==
  ASSUME BoardInv, NEW o \in Op, Act(o)
  PROVE  BoardInv'
  <1>0. /\ at[o] = "act"
        /\ part' = IF ChangesPart(o) THEN [part EXCEPT ![Changes[Capability[o]]] = o] ELSE part
        /\ applied' = [applied EXCEPT ![o] = applied[o] + 1]
        /\ UNCHANGED <<online, failing, ready, via, attempt, category, unknown>>
        /\ \/ /\ Capability[o] = "flash" /\ at' = [at EXCEPT ![o] = "readback"]
              /\ UNCHANGED outcome
           \/ /\ Capability[o] # "flash" /\ at' = [at EXCEPT ![o] = "release"]
              /\ outcome' = [outcome EXCEPT ![o] = "SUCCEEDED"]
    BY DEF Act, Effect, Goto, Finish
  <1>1. applied[o] = 0 /\ outcome[o] = "none" /\ via[o] \in Plugin
    BY <1>0 DEF BoardInv, RunKept, Underway, InLoop
  <1>2. applied' \in [Op -> Nat] /\ applied'[o] = 1 /\ \A q \in Op \ {o} : applied'[q] = applied[q]
    BY <1>0, <1>1 DEF BoardInv, BoardTypeOK
  <1>3. ChangesPart(o) => part'[Changes[Capability[o]]] = o
    BY <1>0, ChangedPart DEF BoardInv, BoardTypeOK
  <1>4. BoardTypeOK'
    <2>1. part' \in [Part -> Op \cup {"none"}]
      BY <1>0 DEF BoardInv, BoardTypeOK
    <2> QED
      BY <1>0, <1>2, <2>1 DEF BoardInv, BoardTypeOK, Place, Outcome
  <1>5. /\ \A q \in Op \ {o} : /\ at'[q] = at[q] /\ outcome'[q] = outcome[q]
                               /\ attempt'[q] = attempt[q] /\ via'[q] = via[q]
        /\ o \in Op /\ at'[o] \in {"readback", "release"}
    BY <1>0 DEF BoardInv, BoardTypeOK
  <1>6. LeasesApart'
    <2>1. \A q \in Op : Holds(q)' = Holds(q)
      BY <1>0, <1>5 DEF Holds, NeedsOf, Offers
    <2> QED
      BY <2>1 DEF BoardInv, LeasesApart
  <1>7. RunKept(o)'
    <2>1. \A x \in Part : part'[x] = o =>
             applied'[o] > 0 /\ ChangesPart(o) /\ Changes[Capability[o]] = x
      BY <1>0, <1>2 DEF BoardInv, BoardTypeOK, RunKept
    <2>2. IF Capability[o] = "flash" THEN at'[o] = "readback" /\ outcome'[o] = "none"
                                     ELSE at'[o] = "release" /\ outcome'[o] = "SUCCEEDED"
      BY <1>0, <1>1 DEF BoardInv, BoardTypeOK
    <2>3. via'[o] \in Plugin
      BY <1>0, <1>1
    <2>4. Earned(o)'
      BY <1>2 DEF Earned
    <2> QED
      BY <1>2, <1>3, <2>1, <2>2, <2>3, <2>4 DEF RunKept, Underway, InLoop, ChangesPart, Flashes
  <1>8. ASSUME NEW q \in Op \ {o} PROVE RunKept(q)'
    <2>1. RunKept(q)
      BY DEF BoardInv
    <2>2. ASSUME at[q] \in {"readback", "release"}, applied[q] > 0, ChangesPart(q)
          PROVE  part'[Changes[Capability[q]]] = q
      <3>1. part[Changes[Capability[q]]] = q
        BY <2>1, <2>2 DEF RunKept
      <3>2. CASE ChangesPart(o)
        <4>1. "device" \in Holds(o) /\ "device" \in Holds(q)
          BY <1>0, <2>2, <3>2, ChangerNeedsDevice DEF Holds
        <4> QED
          BY <4>1 DEF BoardInv, LeasesApart
      <3>3. CASE ~ChangesPart(o)
        BY <1>0, <3>1, <3>3
      <3> QED
        BY <3>2, <3>3
    <2>3. \A x \in Part : part'[x] = q => part[x] = q
      BY <1>0 DEF BoardInv, BoardTypeOK
    <2>4. ASSUME at[q] = "release", outcome[q] = "SUCCEEDED", q \in Flashes
          PROVE  VersionOn' = Version[q]
      <3>1. VersionOn = Version[q]
        BY <2>1, <2>4 DEF RunKept
      <3>2. CASE ChangesPart(o)
        <4>1. ChangesPart(q)
          BY <2>4, FlashChanges
        <4>2. "device" \in Holds(o) /\ "device" \in Holds(q)
          BY <1>0, <2>4, <3>2, <4>1, ChangerNeedsDevice DEF Holds
        <4> QED
          BY <4>2 DEF BoardInv, LeasesApart
      <3>3. CASE ~ChangesPart(o)
        BY <1>0, <3>1, <3>3 DEF VersionOn
      <3> QED
        BY <3>2, <3>3
    <2>5. Present(q) => Present(q)'
      BY <1>1, <1>2 DEF Present, Flashes
    <2>6. Earned(q) => Earned(q)'
      BY <1>2, <2>5 DEF Earned
    <2>7. \A x \in Part : part'[x] = q =>
             applied'[q] > 0 /\ ChangesPart(q) /\ Changes[Capability[q]] = x
      BY <1>2, <2>1, <2>3 DEF RunKept
    <2> QED
      BY <1>2, <1>5, <2>1, <2>2, <2>4, <2>6, <2>7, <1>0 DEF RunKept
  <1> QED
    BY <1>4, <1>6, <1>7, <1>8 DEF BoardInv

LEMMA ReadBackBoard ==
  ASSUME BoardInv, NEW o \in Op, ReadBack(o)
  PROVE  BoardInv'
  <1>1. at[o] = "readback" /\ RunKept(o)
    BY DEF ReadBack, BoardInv
  <1>2. part["partition"] = o /\ VersionOn = Version[o]
    <2>1. part["partition"] = o
      BY <1>1 DEF RunKept, ChangesPart, Changes
    <2> QED
      BY <2>1, BoardAssumption DEF VersionOn
  <1>3. /\ at' = [at EXCEPT ![o] = "release"] /\ outcome' = [outcome EXCEPT ![o] = "SUCCEEDED"]
        /\ UNCHANGED <<online, failing, part, applied, ready, via, attempt, category, unknown>>
    BY <1>2 DEF ReadBack, Goto, Finish, deviceVars
  <1>4. BoardTypeOK'
    BY <1>3 DEF BoardInv, BoardTypeOK, Place, Outcome
  <1>5. RunKept(o)'
    <2>1. VersionOn' = Version[o] /\ Earned(o)'
      BY <1>1, <1>2, <1>3 DEF VersionOn, Earned, RunKept
    <2> QED
      BY <1>1, <1>3, <2>1 DEF BoardInv, BoardTypeOK, RunKept, Underway, InLoop, ChangesPart
  <1>6. \A q \in Op \ {o} : /\ at'[q] = at[q] /\ outcome'[q] = outcome[q]
                            /\ attempt'[q] = attempt[q] /\ via'[q] = via[q]
    BY <1>3 DEF BoardInv, BoardTypeOK
  <1> QED
    BY <1>1, <1>3, <1>4, <1>5, <1>6, StepKeepsBoard

\* After a failure the board has not done it: a flash that succeeds now owes it
\* to whoever put its version there.
LEMMA ObserveBoard ==
  ASSUME BoardInv, NEW o \in Op, Observe(o)
  PROVE  BoardInv'
  <1>1. at[o] = "failed" /\ RunKept(o)
    BY DEF Observe, BoardInv
  <1>2. applied[o] = 0 /\ outcome[o] = "none" /\ via[o] \in Plugin
    BY <1>1 DEF RunKept, Underway, InLoop
  <1>3. /\ UNCHANGED <<online, failing, part, applied, ready, via, attempt, category>>
        /\ unknown' \subseteq Op
        /\ \/ attempt[o] < MaxRetries /\ at' = [at EXCEPT ![o] = "recover"] /\ UNCHANGED outcome
           \/ \E s \in {"UNKNOWN", "RUN_FAILED", "SUCCEEDED"} :
                /\ at' = [at EXCEPT ![o] = "release"] /\ outcome' = [outcome EXCEPT ![o] = s]
                /\ s = "SUCCEEDED" => o \in Flashes /\ VersionOn = Version[o]
    BY <1>2 DEF Observe, Retry, Goto, Finish, deviceVars, BoardInv, BoardTypeOK, Flashes
  <1>4. BoardTypeOK'
    BY <1>3 DEF BoardInv, BoardTypeOK, Place, Outcome
  <1>5. RunKept(o)'
    <2>1. VersionOn' = VersionOn /\ (Present(o) => Present(o)')
      BY <1>3 DEF VersionOn, Present
    <2>2. outcome'[o] = "SUCCEEDED" => Earned(o)' /\ VersionOn' = Version[o]
      BY <1>2, <1>3, <2>1, BoardExplained DEF Earned, BoardInv, BoardTypeOK
    <2> QED
      BY <1>1, <1>2, <1>3, <2>2 DEF BoardInv, BoardTypeOK, RunKept, Underway, InLoop
  <1>6. \A q \in Op \ {o} : /\ at'[q] = at[q] /\ outcome'[q] = outcome[q]
                            /\ attempt'[q] = attempt[q] /\ via'[q] = via[q]
    BY <1>3 DEF BoardInv, BoardTypeOK
  <1> QED
    BY <1>1, <1>3, <1>4, <1>5, <1>6, StepKeepsBoard

\* Recovery: another binding, a power cycle, another channel, or none of these.
LEMMA RecoverBoard ==
  ASSUME BoardInv, NEW o \in Op,
         Reconnect(o) \/ PowerCycle(o) \/ Bind(o) \/ ReResolve(o) \/ GiveUp(o)
  PROVE  BoardInv'
  <1>1. at[o] \in {"recover", "bind"} /\ RunKept(o)
    BY DEF Reconnect, PowerCycle, Bind, ReResolve, GiveUp, BoardInv
  <1>2. applied[o] = 0 /\ outcome[o] = "none" /\ via[o] \in Plugin /\ attempt[o] < MaxRetries
    BY <1>1 DEF RunKept, Underway, InLoop
  <1>3. /\ UNCHANGED <<part, applied, category, unknown>>
        /\ ready' \subseteq Plugin /\ online' \in BOOLEAN /\ failing' \in BOOLEAN
        /\ \/ /\ \E p \in {"bind", "recover"} : at' = [at EXCEPT ![o] = p]
              /\ UNCHANGED <<via, attempt, outcome>>
           \/ /\ at' = [at EXCEPT ![o] = "loop"]
              /\ attempt' = [attempt EXCEPT ![o] = attempt[o] + 1]
              /\ via' = via \/ \E p \in Plugin : via' = [via EXCEPT ![o] = p]
              /\ UNCHANGED outcome
           \/ /\ at' = [at EXCEPT ![o] = "release"]
              /\ \E s \in {"UNKNOWN", "RUN_FAILED"} : outcome' = [outcome EXCEPT ![o] = s]
              /\ UNCHANGED <<via, attempt>>
    <2>1. CASE Reconnect(o)
      BY <2>1 DEF Reconnect, Goto, deviceVars, BoardInv, BoardTypeOK
    <2>2. CASE PowerCycle(o)
      BY <2>2 DEF PowerCycle, Goto, BoardInv, BoardTypeOK
    <2>3. CASE Bind(o)
      BY <1>2, <2>3 DEF Bind, Goto, deviceVars, BoardInv, BoardTypeOK
    <2>4. CASE ReResolve(o)
      BY <2>4 DEF ReResolve, Goto, deviceVars, BoardInv, BoardTypeOK
    <2>5. CASE GiveUp(o)
      BY <2>5 DEF GiveUp, Goto, Finish, deviceVars, BoardInv, BoardTypeOK
    <2> QED
      BY <2>1, <2>2, <2>3, <2>4, <2>5
  <1>4. attempt' \in [Op -> 0..MaxRetries]
    BY <1>2, <1>3, BoardAssumption DEF BoardInv, BoardTypeOK
  <1>5. BoardTypeOK'
    BY <1>3, <1>4 DEF BoardInv, BoardTypeOK, Place, Outcome
  <1>6. RunKept(o)'
    BY <1>1, <1>2, <1>3 DEF BoardInv, BoardTypeOK, RunKept, Underway, InLoop
  <1>7. \A q \in Op \ {o} : /\ at'[q] = at[q] /\ outcome'[q] = outcome[q]
                            /\ attempt'[q] = attempt[q] /\ via'[q] = via[q]
    BY <1>3 DEF BoardInv, BoardTypeOK
  <1> QED
    BY <1>1, <1>3, <1>5, <1>6, <1>7, StepKeepsBoard

LEMMA ReleaseBoard ==
  ASSUME BoardInv, NEW o \in Op, GiveBack(o)
  PROVE  BoardInv'
  <1>0. /\ at[o] = "release" /\ at' = [at EXCEPT ![o] = "over"]
        /\ via' = [via EXCEPT ![o] = "none"] /\ attempt' = [attempt EXCEPT ![o] = 0]
        /\ category' = [category EXCEPT ![o] = "none"] /\ unknown' = unknown \ {o}
        /\ UNCHANGED <<online, failing, part, applied, ready, outcome>>
    BY DEF GiveBack, Goto, deviceVars
  <1>1. BoardTypeOK'
    BY <1>0, BoardAssumption DEF BoardInv, BoardTypeOK, Place
  <1>2. RunKept(o)'
    BY <1>0 DEF BoardInv, BoardTypeOK, RunKept, Underway, InLoop, Earned, Present
  <1>3. \A q \in Op \ {o} : /\ at'[q] = at[q] /\ outcome'[q] = outcome[q]
                            /\ attempt'[q] = attempt[q] /\ via'[q] = via[q]
    BY <1>0 DEF BoardInv, BoardTypeOK
  <1> QED
    BY <1>0, <1>1, <1>2, <1>3, StepKeepsBoard

\* The board goes on and off, channels come and go: no operation moves.
LEMMA SurroundingsBoard ==
  ASSUME BoardInv, Disturb \/ (\E p \in Plugin : Rediscover(p) \/ Lose(p)) \/ UNCHANGED boardVars
  PROVE  BoardInv'
  <1>1. UNCHANGED <<part, applied, at, via, attempt, category, unknown, outcome>>
    BY DEF Disturb, Rediscover, Lose, boardVars, deviceVars
  <1>2. ready' \subseteq Plugin /\ online' \in BOOLEAN /\ failing' \in BOOLEAN
    BY DEF Disturb, SetOnline, SetFailNext, Rediscover, Lose, boardVars,
       deviceVars, BoardInv, BoardTypeOK
  <1>3. BoardTypeOK'
    BY <1>1, <1>2 DEF BoardInv, BoardTypeOK
  <1>4. LeasesApart' /\ \A o \in Op : RunKept(o)'
    BY <1>1 DEF BoardInv, LeasesApart, Holds, NeedsOf, Offers, RunKept, Earned, Present, VersionOn
  <1> QED
    BY <1>3, <1>4 DEF BoardInv

LEMMA NextBoardInv ==
  BoardInv /\ [BoardNext]_boardVars => BoardInv'
  <1> SUFFICES ASSUME BoardInv, [BoardNext]_boardVars PROVE BoardInv'
    OBVIOUS
  <1>1. ASSUME NEW o \in Op, Step(o) PROVE BoardInv'
    BY <1>1, AcquireBoard, ResolveBoard, LoopBoard, AskBoard, ActBoard, ReadBackBoard,
       ObserveBoard, RecoverBoard, ReleaseBoard DEF Step
  <1> QED
    BY <1>1, SurroundingsBoard DEF BoardNext

\* The inductive invariant of the board (fake/device.go, the plugins' Recover
\* and Invoke): leases apart, and no second attempt once the board has worked.
THEOREM BoardInvariant ==
  BoardSpec => []BoardInv
  BY InitBoardInv, NextBoardInv, PTL DEF BoardSpec

\* While an operation holds its leases, nobody changes what it has changed.
THEOREM BoardIsKept ==
  BoardSpec => []LeaseKeepsBoard
  <1>1. BoardInv => LeaseKeepsBoard
    BY DEF BoardInv, RunKept, LeaseKeepsBoard
  <1> QED
    BY <1>1, BoardInvariant, PTL

\* A caller is told what has happened to the board, after any number of
\* attempts through any channels, and a success of a flash is true until the
\* leases are given back (engine.go:369).
THEOREM CallersAreTold ==
  BoardSpec => []AnswersAreTrue
  <1>1. BoardInv => AnswersAreTrue
    <2> SUFFICES ASSUME BoardInv, NEW o \in Op
                 PROVE  /\ outcome[o] = "SUCCEEDED" => Earned(o)
                        /\ outcome[o] = "SUCCEEDED" /\ at[o] = "release" /\ o \in Flashes =>
                             VersionOn = Version[o]
                        /\ outcome[o] \in {"RESOLVE_FAILED", "RUN_FAILED", "UNKNOWN"} => applied[o] = 0
                        /\ outcome[o] # "VERIFY_FAILED"
      BY DEF AnswersAreTrue, Earned
    <2>1. RunKept(o) /\ at[o] \in Place
      BY DEF BoardInv, BoardTypeOK
    <2> QED
      BY <2>1 DEF RunKept, Underway, Place
  <1> QED
    BY <1>1, BoardInvariant, PTL
=============================================================================
