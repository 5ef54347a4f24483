------------------------------- MODULE MceLocks ------------------------------
(***************************************************************************)
(* The two read-write locks that the MCE code takes together: m.lock,      *)
(* which guards the jobs, and mceClusters.lock, which guards the cache of  *)
(* MCE clusters. Every process runs its lock operations in the order in    *)
(* which its function makes them, over and over. The locks are Go's        *)
(* sync.RWMutex: a writer that waits for the readers keeps new readers     *)
(* out, also those that a holder of another lock is waiting to become.     *)
(***************************************************************************)
EXTENDS Naturals, Sequences

Locks == {"jobs", "mce"}   \* m.lock and mceClusters.lock

\* sync holds m.lock and looks at the cache when a ProwJob has ended.
sync == <<<<"Lock", "jobs">>, <<"RLock", "mce">>, <<"RUnlock", "mce">>,
          <<"Unlock", "jobs">>>>

\* mceSync reads the cache, looks for the jobs of stale clusters and replaces
\* the cache.
mceSync == <<<<"RLock", "mce">>, <<"RUnlock", "mce">>,
             <<"RLock", "jobs">>, <<"RUnlock", "jobs">>,
             <<"Lock", "mce">>, <<"Unlock", "mce">>>>

\* ListManagedClusters holds the lock of the cache. GetMceCustomVersion asks the
\* jobs for the version, of a cluster that has no annotation with it.
ListManagedClusters == <<<<"RLock", "mce">>, <<"RLock", "jobs">>,
                         <<"RUnlock", "jobs">>, <<"RUnlock", "mce">>>>

\* updateImageSetList reads the cache and replaces the imagesets. getClusterAuth,
\* which a command calls too, takes the locks in the same order.
updateImageSetList == <<<<"RLock", "mce">>, <<"RUnlock", "mce">>,
                        <<"Lock", "mce">>, <<"Unlock", "mce">>>>

Program == [sync |-> sync, mceSync |-> mceSync, list |-> ListManagedClusters,
            imagesets |-> updateImageSetList]
Processes == DOMAIN Program

\* What a process does not always do: the operation where it begins and the one
\* it goes on with if it has no reason to. sync reads the cache only for a ProwJob
\* that has ended, ListManagedClusters the jobs only for a cluster of own images
\* without the annotation RequestedReleaseDisplayTag.
Optional == {<<"sync", 2, 4>>, <<"list", 2, 4>>}

VARIABLES
    pc,       \* the next operation of a process
    readers,  \* who holds a lock for reading
    writer,   \* who holds a lock for writing, or waits for its readers to go
    locked    \* locks whose writer has them

vars == <<pc, readers, writer, locked>>

TypeOK ==
    /\ \A p \in Processes : pc[p] \in 1..Len(Program[p])
    /\ readers \in [Locks -> SUBSET Processes]
    /\ writer \in [Locks -> Processes \cup {"nobody"}]
    /\ locked \subseteq Locks

Init ==
    /\ pc = [p \in Processes |-> 1]
    /\ readers = [l \in Locks |-> {}]
    /\ writer = [l \in Locks |-> "nobody"]
    /\ locked = {}

At(p, op, l) == Program[p][pc[p]] = <<op, l>>
Continue(p) ==
    LET next == IF pc[p] = Len(Program[p]) THEN 1 ELSE pc[p] + 1
        skipped == {n \in 1..Len(Program[p]) : <<p, next, n>> \in Optional}
    IN \E n \in {next} \cup skipped : pc' = [pc EXCEPT ![p] = n]

\* A reader gets the lock when no writer has it or waits for it.
RLock(p, l) ==
    /\ At(p, "RLock", l) /\ writer[l] = "nobody"
    /\ readers' = [readers EXCEPT ![l] = @ \cup {p}]
    /\ Continue(p)
    /\ UNCHANGED <<writer, locked>>

RUnlock(p, l) ==
    /\ At(p, "RUnlock", l)
    /\ readers' = [readers EXCEPT ![l] = @ \ {p}]
    /\ Continue(p)
    /\ UNCHANGED <<writer, locked>>

\* A writer keeps other writers and new readers out ...
AnnounceWriter(p, l) ==
    /\ At(p, "Lock", l) /\ writer[l] = "nobody"
    /\ writer' = [writer EXCEPT ![l] = p]
    /\ UNCHANGED <<pc, readers, locked>>

\* ... and has the lock when the last reader is gone.
Lock(p, l) ==
    /\ At(p, "Lock", l) /\ writer[l] = p /\ readers[l] = {}
    /\ locked' = locked \cup {l}
    /\ Continue(p)
    /\ UNCHANGED <<readers, writer>>

Unlock(p, l) ==
    /\ At(p, "Unlock", l)
    /\ writer' = [writer EXCEPT ![l] = "nobody"]
    /\ locked' = locked \ {l}
    /\ Continue(p)
    /\ UNCHANGED readers

Step(p) == \E l \in Locks : \/ RLock(p, l) \/ RUnlock(p, l)
                            \/ AnnounceWriter(p, l) \/ Lock(p, l) \/ Unlock(p, l)

Next == \E p \in Processes : Step(p)

\* Go starts a process that waits for a lock in its turn.
Spec == Init /\ [][Next]_vars /\ \A p \in Processes : SF_vars(Step(p))

\* mceSync ends: it is never kept waiting for ever by a holder of m.lock.
MceSyncEnds == []<>(pc["mceSync"] = 1)

=============================================================================
