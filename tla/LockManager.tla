---------------------------- MODULE LockManager ----------------------------
(***************************************************************************)
(* The Lock Manager (core/resource/lock_manager.go): SHARED and EXCLUSIVE  *)
(* leases with a time to live over a set of resources, one mutex m.mu and  *)
(* one condition variable m.cond.                                          *)
(*                                                                         *)
(* A thread is one call of AcquireAll (the engine makes one per operation) *)
(* or of TryAcquire, up to the release of what it obtained.  The actions   *)
(* are the critical sections of m.mu, split where something that does not  *)
(* hold the mutex can fall between two statements: the watcher goroutine   *)
(* of Acquire broadcasts without m.mu, so the check of the context and the *)
(* registration in cond.Wait are separate steps.                           *)
(*                                                                         *)
(* Time is abstracted to the set of leases whose ExpiresAt has passed; it  *)
(* grows at any moment.  Renew of a lease that has not expired only        *)
(* postpones that moment and changes nothing else.                         *)
(***************************************************************************)
EXTENDS Naturals, Sequences, FiniteSets

CONSTANTS Thread,       \* the calls
          Resource,     \* the resource IDs
          AllCalls,     \* the calls of AcquireAll there may be ...
          TryCalls,     \* ... and of TryAcquire
          Cancellable,  \* the calls whose ctx may be cancelled or time out
          OneByOne      \* the callers that use Release, not ReleaseAll

Mode  == {"SHARED", "EXCLUSIVE"}
Lease == [holder : Thread, res : Resource, mode : Mode]

\* AcquireAll takes a list of resources; the engine calls it with EXCLUSIVE,
\* never with an empty list, and no plugin lists a resource type twice.
ASSUME CallsAssumption ==
  /\ \A c \in AllCalls :
       /\ c.by \in Thread /\ c.mode \in Mode
       /\ c.list \in Seq(Resource) /\ c.list # <<>>
       /\ \A i, j \in DOMAIN c.list : i # j => c.list[i] # c.list[j]
  /\ TryCalls \subseteq Lease
  /\ Cancellable \subseteq Thread /\ OneByOne \subseteq Thread

\* Every call that takes several resources takes them in one global order
\* (resolveResourceIDs sorts them).
Ordered(q, rank) == \A i, j \in DOMAIN q : i < j => rank[q[i]] < rank[q[j]]

ASSUME OrderAssumption ==
  /\ IsFiniteSet(Resource)
  /\ \E rank \in [Resource -> 1 .. Cardinality(Resource)] :
       \A c \in AllCalls : Ordered(c.list, rank)

VARIABLES
  pc,         \* where each call stands
  todo,       \* the resources the call has still to acquire, in order
  mode,       \* the lock mode of the call
  held,       \* the leases the call was given and has not released
  leases,     \* m.leases: per resource, its leases
  byLease,    \* m.byLease: the leases that can be found by ID
  lapsed,     \* of the leases still in use, those with l.Expired(now)
  cancelled,  \* the calls whose ctx is done
  watchers    \* the live watcher goroutines, as <<call, resource>>

vars == <<pc, todo, mode, held, leases, byLease, lapsed, cancelled, watchers>>

PC == {"idle",       \* before the call
       "acquire",    \* about to lock m.mu at the entry of Acquire
       "checked",    \* holds m.mu, has seen ctx.Err() = nil
       "waiting",    \* in cond.Wait
       "woken",      \* woken by a Broadcast, about to lock m.mu again
       "rollback",   \* Acquire failed, AcquireAll gives back what it has
       "holding",    \* the caller works under its leases
       "broadcast",  \* ReleaseAll has unlocked m.mu, Broadcast still due
       "done"}

TypeOK ==
  /\ pc \in [Thread -> PC]
  /\ todo \in [Thread -> Seq(Resource)]
  /\ mode \in [Thread -> Mode]
  /\ held \in [Thread -> SUBSET Lease]
  /\ leases \in [Resource -> SUBSET Lease]
  /\ byLease \subseteq Lease
  /\ lapsed \subseteq Lease
  /\ cancelled \subseteq Thread
  /\ watchers \subseteq Thread \X Resource
  /\ \A h \in Thread :
       pc[h] \in {"acquire", "checked", "waiting", "woken"} => todo[h] # <<>>

Init ==
  /\ pc = [h \in Thread |-> "idle"]
  /\ todo = [h \in Thread |-> <<>>]
  /\ mode = [h \in Thread |-> "EXCLUSIVE"]
  /\ held = [h \in Thread |-> {}]
  /\ leases = [r \in Resource |-> {}]
  /\ byLease = {}
  /\ lapsed = {}
  /\ cancelled = {}
  /\ watchers = {}

-----------------------------------------------------------------------------
(* Helpers of the manager *)

\* m.mu is held across two steps of the model only between the check of the
\* context and the attempt that follows it.
MuFree == \A h \in Thread : pc[h] # "checked"

Inside(h) == pc[h] \in {"acquire", "checked", "waiting", "woken"}

Conflict(a, b) == a = "EXCLUSIVE" \/ b = "EXCLUSIVE"

\* cond.Broadcast: every call in cond.Wait goes on to lock m.mu again.
Broadcast(f) == [h \in Thread |-> IF f[h] = "waiting" THEN "woken" ELSE f[h]]

\* The tables without the leases of S, deleted by resource, not by ID.
WithoutByResource(S) ==
  [r \in Resource |-> IF \E l \in S : l.res = r THEN {} ELSE leases[r]]

\* The tables once the leases of S are deleted, each by its own ID.
Without(S) == [r \in Resource |-> leases[r] \ S]

NewLease(h, r, m) == [holder |-> h, res |-> r, mode |-> m]

-----------------------------------------------------------------------------
(* The critical sections *)

\* pruneLocked, inlined in the two entry points: expired leases leave both
\* tables, and nobody is told.
Prune ==
  /\ leases' = Without(lapsed)
  /\ byLease' = byLease \ lapsed

\* deletion of the leases of S from both tables (Release, ReleaseAll, Renew)
Delete(S) ==
  /\ leases' = Without(S)
  /\ byLease' = byLease \ S

\* tryAcquireLocked's loop over the leases of r, given the table.
Blocked(table, r, m) == \E l \in table[r] : Conflict(l.mode, m)

\* tryAcquireLocked's success: the lease enters both tables and goes to h.
Grant(table, index, h, r, m) ==
  LET l == NewLease(h, r, m)
  IN  /\ leases' = [table EXCEPT ![r] = @ \cup {l}]
      /\ byLease' = index \cup {l}
      /\ held' = [held EXCEPT ![h] = @ \cup {l}]

\* The caller drops the leases of S: from then on their expiry is nobody's.
Forget(h, S) ==
  /\ held' = [held EXCEPT ![h] = @ \ S]
  /\ lapsed' = lapsed \ S

\* A call whose resources come in no order.
CallAcquireAllUnsorted(c) ==
  /\ pc[c.by] = "idle"
  /\ pc' = [pc EXCEPT ![c.by] = "acquire"]
  /\ \E q \in {c.list, [i \in DOMAIN c.list |-> c.list[Len(c.list) + 1 - i]]} :
       todo' = [todo EXCEPT ![c.by] = q]
  /\ mode' = [mode EXCEPT ![c.by] = c.mode]
  /\ UNCHANGED <<held, leases, byLease, lapsed, cancelled, watchers>>

\* The call of AcquireAll by an operation, or of Acquire for one resource.
CallAcquireAll(c) ==
  /\ pc[c.by] = "idle"
  /\ pc' = [pc EXCEPT ![c.by] = "acquire"]
  /\ todo' = [todo EXCEPT ![c.by] = c.list]
  /\ mode' = [mode EXCEPT ![c.by] = c.mode]
  /\ UNCHANGED <<held, leases, byLease, lapsed, cancelled, watchers>>

\* The head of Acquire's loop: a done context ends the call with its error.
CheckContext(h) ==
  pc' = [pc EXCEPT ![h] = IF h \in cancelled THEN "rollback" ELSE "checked"]

\* Acquire: lock m.mu, prune once, start the watcher, check the context.
EnterAcquire(h) ==
  /\ pc[h] = "acquire"
  /\ MuFree
  /\ Prune
  /\ watchers' = watchers \cup {<<h, Head(todo[h])>>}
  /\ CheckContext(h)
  /\ UNCHANGED <<todo, mode, held, lapsed, cancelled>>

\* cond.Wait returns: lock m.mu, check the context.  There is no prune here.
Wake(h) ==
  /\ pc[h] = "woken"
  /\ MuFree
  /\ CheckContext(h)
  /\ UNCHANGED <<todo, mode, held, leases, byLease, lapsed, cancelled, watchers>>

\* tryAcquireLocked succeeds: Acquire returns, AcquireAll goes to the next
\* resource or returns all its leases.
Obtain(h) ==
  /\ pc[h] = "checked"
  /\ ~Blocked(leases, Head(todo[h]), mode[h])
  /\ Grant(leases, byLease, h, Head(todo[h]), mode[h])
  /\ todo' = [todo EXCEPT ![h] = Tail(@)]
  /\ pc' = [pc EXCEPT ![h] = IF Tail(todo[h]) = <<>> THEN "holding" ELSE "acquire"]
  /\ UNCHANGED <<mode, lapsed, cancelled, watchers>>

\* tryAcquireLocked fails: cond.Wait registers the call and unlocks m.mu.
Wait(h) ==
  /\ pc[h] = "checked"
  /\ Blocked(leases, Head(todo[h]), mode[h])
  /\ pc' = [pc EXCEPT ![h] = "waiting"]
  /\ UNCHANGED <<todo, mode, held, leases, byLease, lapsed, cancelled, watchers>>

\* A rollback that leaves the tables alone.
RollbackLeavingTable(h) ==
  /\ pc[h] = "rollback"
  /\ MuFree
  /\ Forget(h, held[h])
  /\ todo' = [todo EXCEPT ![h] = <<>>]
  /\ pc' = [pc EXCEPT ![h] = "done"]
  /\ UNCHANGED <<mode, leases, byLease, cancelled, watchers>>

\* AcquireAll's error path: releaseAll, and no Broadcast after it.
Rollback(h) ==
  /\ pc[h] = "rollback"
  /\ MuFree
  /\ Delete(held[h])
  /\ Forget(h, held[h])
  /\ todo' = [todo EXCEPT ![h] = <<>>]
  /\ pc' = [pc EXCEPT ![h] = "done"]
  /\ UNCHANGED <<mode, cancelled, watchers>>

\* TryAcquire: prune, then one attempt that never blocks.
TryAcquire(h, r, m) ==
  /\ pc[h] = "idle"
  /\ MuFree
  /\ \/ /\ ~Blocked(Without(lapsed), r, m)
        /\ Grant(Without(lapsed), byLease \ lapsed, h, r, m)
        /\ pc' = [pc EXCEPT ![h] = "holding"]
     \/ /\ Blocked(Without(lapsed), r, m)
        /\ Prune
        /\ pc' = [pc EXCEPT ![h] = "done"]
        /\ UNCHANGED held
  /\ UNCHANGED <<todo, mode, lapsed, cancelled, watchers>>

\* Release(id): an unknown ID (the lease was pruned) is an error and changes
\* nothing; otherwise delete and Broadcast.
Release(h, l) ==
  /\ pc[h] = "holding"
  /\ h \in OneByOne
  /\ l \in held[h]
  /\ MuFree
  /\ Forget(h, {l})
  /\ LET after == [pc EXCEPT ![h] = IF held[h] = {l} THEN "done" ELSE @]
     IN  \/ l \in byLease /\ Delete({l}) /\ pc' = Broadcast(after)
         \/ l \notin byLease /\ pc' = after /\ UNCHANGED <<leases, byLease>>
  /\ UNCHANGED <<todo, mode, cancelled, watchers>>

\* ReleaseAll, first half: releaseAll under m.mu ...
ReleaseAll(h) ==
  /\ pc[h] = "holding"
  /\ h \notin OneByOne
  /\ MuFree
  /\ Delete(held[h])
  /\ Forget(h, held[h])
  /\ pc' = [pc EXCEPT ![h] = "broadcast"]
  /\ UNCHANGED <<todo, mode, cancelled, watchers>>

\* (A release that ends here.)
ReturnWithoutBroadcast(h) ==
  /\ pc[h] = "broadcast"
  /\ pc' = [pc EXCEPT ![h] = "done"]
  /\ UNCHANGED <<todo, mode, held, leases, byLease, lapsed, cancelled, watchers>>

\* ... second half: Broadcast after m.mu is unlocked.
BroadcastAfterRelease(h) ==
  /\ pc[h] = "broadcast"
  /\ pc' = Broadcast([pc EXCEPT ![h] = "done"])
  /\ UNCHANGED <<todo, mode, held, leases, byLease, lapsed, cancelled, watchers>>

\* Renew of a lease that has expired: it is deleted, without a Broadcast.
Renew(h, l) ==
  /\ pc[h] = "holding"
  /\ l \in held[h] \cap byLease \cap lapsed
  /\ MuFree
  /\ Delete({l})
  /\ UNCHANGED <<pc, todo, mode, held, lapsed, cancelled, watchers>>
-----------------------------------------------------------------------------
(* Time, contexts, watchers *)

\* ExpiresAt of a lease in the table passes.
Lapse(l) ==
  /\ l \in byLease \ lapsed
  /\ lapsed' = lapsed \cup {l}
  /\ UNCHANGED <<pc, todo, mode, held, leases, byLease, cancelled, watchers>>

\* The caller's ctx is cancelled or its deadline passes.
CancelContext(h) ==
  /\ h \notin cancelled
  /\ pc[h] # "done"
  /\ cancelled' = cancelled \cup {h}
  /\ UNCHANGED <<pc, todo, mode, held, leases, byLease, lapsed, watchers>>

\* The watcher sees ctx.Done and broadcasts.  It does not take m.mu.  When
\* the call has returned too, its select may still take this branch.
WatcherBroadcast(h, r) ==
  /\ <<h, r>> \in watchers
  /\ h \in cancelled
  /\ watchers' = watchers \ {<<h, r>>}
  /\ pc' = Broadcast(pc)
  /\ UNCHANGED <<todo, mode, held, leases, byLease, lapsed, cancelled>>

\* The watcher sees that its Acquire has returned (close(stop)).
WatcherStop(h, r) ==
  /\ <<h, r>> \in watchers
  /\ ~(Inside(h) /\ Head(todo[h]) = r)
  /\ watchers' = watchers \ {<<h, r>>}
  /\ UNCHANGED <<pc, todo, mode, held, leases, byLease, lapsed, cancelled>>

-----------------------------------------------------------------------------
(* The specification *)

\* What a call inside the manager does by itself ...
ManagerStep(h) ==
  \/ EnterAcquire(h) \/ Wake(h) \/ Obtain(h) \/ Wait(h) \/ Rollback(h)
  \/ BroadcastAfterRelease(h)

\* ... and what its caller does at the end of its work.
EndOfWork(h) ==
  \/ ReleaseAll(h)
  \/ \E l \in held[h] : Release(h, l)

WatcherStep(h, r) == WatcherBroadcast(h, r) \/ WatcherStop(h, r)

Next ==
  \/ \E h \in Thread : ManagerStep(h) \/ EndOfWork(h)
  \/ \E h \in Thread, r \in Resource : WatcherStep(h, r)
  \/ \E c \in AllCalls : CallAcquireAll(c)
  \/ \E l \in TryCalls : TryAcquire(l.holder, l.res, l.mode)
  \/ \E h \in Thread : \E l \in held[h] : Renew(h, l)
  \/ \E l \in byLease : Lapse(l)
  \/ \E h \in Cancellable : CancelContext(h)

Spec == Init /\ [][Next]_vars

\* Goroutines that can run do run ...
ManagerFairness ==
  /\ \A h \in Thread : WF_vars(ManagerStep(h))
  /\ \A h \in Thread, r \in Resource : WF_vars(WatcherStep(h, r))

\* ... and an operation ends: the engine defers ReleaseAll and its plugin
\* calls return.  Nothing is fair about calls, clock, contexts and Renew.
FairSpec == Spec /\ ManagerFairness /\ \A h \in Thread : WF_vars(EndOfWork(h))

\* The same without a bound on the time an operation works.
LongWorkSpec == Spec /\ ManagerFairness

-----------------------------------------------------------------------------
(* Properties *)

\* Two leases on one resource in the lock table are compatible, whatever was
\* granted, rolled back, released late or expired before (tryAcquireLocked,
\* removeLeaseLocked, pruneLocked).
Exclusion ==
  \A r \in Resource : \A l, k \in leases[r] : l # k => ~Conflict(l.mode, k.mode)

\* The per-resource table and the table by ID hold the same leases: every
\* path that deletes from one deletes from the other.
TablesAgree ==
  /\ \A r \in Resource : \A l \in leases[r] : l.res = r /\ l \in byLease
  /\ \A l \in byLease : l \in leases[l.res]

\* A lease in the table belongs to a call that still knows it and will give
\* it back: no path (rollback, timeout, late release) leaks a lease.
NoOrphanLease ==
  \A l \in byLease : l \in held[l.holder]

\* Two operations that work at the same time under conflicting leases on one
\* resource: the lease of one of them has expired.  Within its time to live a
\* lease protects the operation, also against the late release of others.
WorkExclusion ==
  \A h, g \in Thread : h # g =>
    \A l \in held[h] \ lapsed, k \in held[g] \ lapsed :
      l.res = k.res => ~Conflict(l.mode, k.mode)

\* The manager provides the service of LeaseService: the leases in force are
\* those of the table that have not expired.
Service == INSTANCE LeaseService WITH inForce <- byLease \ lapsed
LeasesServed == Service!Spec

\* No context is cancelled, and who gives back with Release does so in time.
Patient == cancelled = {} /\ \A l \in lapsed : l.holder \notin OneByOne

\* Nobody sleeps forgotten: what a call in cond.Wait waits for is held by
\* another call, which will broadcast when it gives it back, or a Broadcast is
\* due already.
WaitersWillBeTold ==
  []Patient =>
    [](\A h \in Thread : pc[h] = "waiting" =>
         \E g \in Thread \ {h} :
           \/ pc[g] = "broadcast"
           \/ \E l \in held[g] : l.res = Head(todo[h]) /\ Conflict(l.mode, mode[h]))

Awake == {h \in Thread : pc[h] \notin {"idle", "waiting", "done"}}

\* Not all calls sleep: the one that waits for the last resource in the global
\* order is waited for by nobody who sleeps.
NoDeadlock ==
  []Patient => []((\E h \in Thread : pc[h] = "waiting") => Awake # {})

\* As long as no context is cancelled, every call of AcquireAll gets all its
\* leases: the engine's global order of the resources excludes deadlock, and
\* no wake-up is lost, also when leases of the engine's operations expire and
\* are pruned meanwhile.  (Release of a lease that was pruned returns an error
\* before its Broadcast, so the callers of Release must not let theirs expire.)
UncancelledCallsSucceed ==
  [](cancelled = {} /\ \A l \in lapsed : l.holder \notin OneByOne) =>
    \A h \in Thread : pc[h] = "acquire" ~> pc[h] = "holding"

\* "A watcher wakes all waiters when the context is cancelled, so Acquire
\* observes cancellation promptly" (lock_manager.go:40-41): a call whose
\* context is done leaves Acquire, however long the holder of the resource works
\* (checked under LongWorkSpec).
CancellationObserved ==
  \A h \in Thread : (h \in cancelled /\ Inside(h)) ~> ~Inside(h)
=============================================================================
