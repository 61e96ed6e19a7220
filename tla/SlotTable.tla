------------------------------- MODULE SlotTable -------------------------------
(***************************************************************************)
(* The table of backend entries in shared memory (src/shared_memory.c) and *)
(* the lock that is meant to guard it, entry_search_lock.                  *)
(*                                                                         *)
(* Only the ownership field of an entry, backend_pid, is modelled here;    *)
(* its contents are the subject of QueryHooks.  A process is any sequence  *)
(* of the calls the hooks make: look an entry up (and claim a free one),   *)
(* release it from ExecutorEnd, from the abort callback or from the exit   *)
(* callback, poll the table, sweep it for orphans.  A scan advances one    *)
(* entry per step, and a read is never merged with the write it decides,   *)
(* so every interleaving of two scans is a behaviour.  A step that ends a  *)
(* critical section also drops the lock.                                   *)
(*                                                                         *)
(* A "variant" is a plausible mistake in the definition after it.  No      *)
(* specification uses one: they show which properties would notice.        *)
(***************************************************************************)
EXTENDS Integers

CONSTANTS
    Backends,            \* the pids of the regular backends
    Exporter,            \* the background worker that serves /metrics
    NoPid,               \* a backend_pid of 0: the entry is free
    MaxTrackedQueries    \* PWH_GUC_MAX_TRACKED_QUERIES

ASSUME SlotTableAssumption ==
    /\ MaxTrackedQueries \in Nat \ {0}
    /\ Exporter \notin Backends
    /\ NoPid \notin Backends \cup {Exporter}

Procs  == Backends \cup {Exporter}
Slots  == 0 .. MaxTrackedQueries - 1
NoSlot == -1             \* free_slot_idx == -1U, and a NULL entry pointer

VARIABLES
    backend_pid,         \* the owner of each entry
    readers,             \* holders of entry_search_lock in LW_SHARED
    writer,              \* its holder in LW_EXCLUSIVE, or NoPid
    pc,                  \* where each process is
    i,                   \* the index of its scan
    free_slot_idx,       \* the first free entry its lookup has seen
    should_create,       \* whether its lookup may claim an entry
    be,                  \* the entry pointer its hook holds
    registered,          \* the exit callback is registered
    overwritten          \* history: a claim has hit an entry that was taken

table == <<backend_pid, overwritten>>
lock  == <<readers, writer>>
local == <<i, free_slot_idx, should_create, be>>
vars  == <<table, lock, pc, local, registered>>

ExclusiveAt  == {"end", "catch", "exit"}
SharedAt     == {"lookup", "abort", "abort_release", "poll", "cleanup", "orphan"}
WaitingAt    == {"end_lock", "catch_lock", "exit_lock"}
BackendSteps == {"idle", "lookup", "fill", "abort", "abort_release", "poll",
                 "gone", "dead"} \cup ExclusiveAt \cup WaitingAt
ExporterSteps == {"idle", "cleanup", "orphan", "poll", "gone", "dead"}

(* check_if_process_exists: kill(pid, 0) does not fail with ESRCH. *)
Exists(p) == pc[p] \notin {"gone", "dead"}
Active(s) == backend_pid[s] # NoPid

TypeOK ==
    /\ backend_pid \in [Slots -> Backends \cup {NoPid}]
    /\ readers \in SUBSET Procs
    /\ writer \in Backends \cup {NoPid}
    /\ pc \in [Procs -> BackendSteps \cup ExporterSteps]
    /\ \A p \in Backends : pc[p] \in BackendSteps
    /\ pc[Exporter] \in ExporterSteps
    /\ i \in [Procs -> 0 .. MaxTrackedQueries]
    /\ free_slot_idx \in [Backends -> Slots \cup {NoSlot}]
    /\ should_create \in [Backends -> BOOLEAN]
    /\ be \in [Backends -> Slots \cup {NoSlot}]
    /\ registered \in [Backends -> BOOLEAN]
    /\ overwritten \in BOOLEAN

(* pwh_shared_memory_startup_hook: a table that was not found is zeroed. *)
Init ==
    /\ backend_pid = [s \in Slots |-> NoPid]
    /\ readers = {}
    /\ writer = NoPid
    /\ pc = [p \in Procs |-> "idle"]
    /\ i = [p \in Procs |-> 0]
    /\ free_slot_idx = [p \in Backends |-> NoSlot]
    /\ should_create = [p \in Backends |-> FALSE]
    /\ be = [p \in Backends |-> NoSlot]
    /\ registered = [p \in Backends |-> FALSE]
    /\ overwritten = FALSE

-----------------------------------------------------------------------------
(* The lightweight lock: any number of LW_SHARED holders or one            *)
(* LW_EXCLUSIVE holder.  A queued exclusive request does not hold back a   *)
(* later shared one.                                                       *)

AcquireShared(p)    == writer = NoPid /\ readers' = readers \cup {p} /\ UNCHANGED writer
ReleaseShared(p)    == readers' = readers \ {p} /\ UNCHANGED writer
(* Variant: readers are not waited for.                                    *)
AcquireExclusiveBarging(p) == writer = NoPid /\ writer' = p /\ UNCHANGED readers
AcquireExclusive(p) == writer = NoPid /\ readers = {} /\ writer' = p /\ UNCHANGED readers
ReleaseExclusive(p) == writer' = NoPid /\ UNCHANGED readers

Goto(p, step) == pc' = [pc EXCEPT ![p] = step]

(* pwh_release_backend_entry_unlocked *)
Free(s) == backend_pid' = [backend_pid EXCEPT ![s] = NoPid] /\ UNCHANGED overwritten

-----------------------------------------------------------------------------
(* pwh_get_or_create_my_backend_entry_impl *)

LookupStart(p, create) ==
    /\ pc[p] = "idle"
    /\ registered[p]
    /\ AcquireShared(p)
    /\ Goto(p, "lookup")
    /\ i' = [i EXCEPT ![p] = 0]
    /\ free_slot_idx' = [free_slot_idx EXCEPT ![p] = NoSlot]
    /\ should_create' = [should_create EXCEPT ![p] = create]
    /\ UNCHANGED <<table, be, registered>>

(* Variant: the index is advanced before it is remembered as free.         *)
LookupStepAdvancesFirst(p) ==
    /\ pc[p] = "lookup"
    /\ i[p] < MaxTrackedQueries
    /\ backend_pid[i[p]] # p
    /\ i' = [i EXCEPT ![p] = @ + 1]
    /\ free_slot_idx' = IF free_slot_idx[p] = NoSlot /\ ~Active(i[p])
                        THEN [free_slot_idx EXCEPT ![p] = i[p] + 1]
                        ELSE free_slot_idx
    /\ UNCHANGED <<table, lock, pc, should_create, be, registered>>

LookupStep(p) ==
    /\ pc[p] = "lookup"
    /\ i[p] < MaxTrackedQueries
    /\ backend_pid[i[p]] # p
    /\ free_slot_idx' = IF free_slot_idx[p] = NoSlot /\ ~Active(i[p])
                        THEN [free_slot_idx EXCEPT ![p] = i[p]]
                        ELSE free_slot_idx
    /\ i' = [i EXCEPT ![p] = @ + 1]
    /\ UNCHANGED <<table, lock, pc, should_create, be, registered>>

(* The lookup returns entry s, or NULL: ExecutorStart goes on to fill the  *)
(* entry in, or to log that there is none; ExecutorEnd takes the lock      *)
(* exclusively, or is done.                                                *)
LookupReturn(p, s) ==
    /\ ReleaseShared(p)
    /\ be' = [be EXCEPT ![p] = s]
    /\ Goto(p, IF should_create[p] THEN "fill"
               ELSE IF s # NoSlot THEN "end_lock" ELSE "idle")
    /\ i' = [i EXCEPT ![p] = 0]
    /\ free_slot_idx' = [free_slot_idx EXCEPT ![p] = NoSlot]
    /\ should_create' = [should_create EXCEPT ![p] = FALSE]
    /\ UNCHANGED registered

LookupFound(p) ==
    /\ pc[p] = "lookup"
    /\ i[p] < MaxTrackedQueries
    /\ backend_pid[i[p]] = p
    /\ LookupReturn(p, i[p])
    /\ UNCHANGED table

MayClaim(p) == should_create[p] /\ free_slot_idx[p] # NoSlot

(* Variant: the claim does not wait for the end of the scan.               *)
LookupClaimEarly(p) ==
    /\ pc[p] = "lookup"
    /\ MayClaim(p)
    /\ backend_pid' = [backend_pid EXCEPT ![free_slot_idx[p]] = p]
    /\ overwritten' = (overwritten \/ Active(free_slot_idx[p]))
    /\ LookupReturn(p, free_slot_idx[p])

LookupClaim(p) ==
    /\ pc[p] = "lookup"
    /\ i[p] = MaxTrackedQueries
    /\ MayClaim(p)
    /\ backend_pid' = [backend_pid EXCEPT ![free_slot_idx[p]] = p]
    /\ overwritten' = (overwritten \/ Active(free_slot_idx[p]))
    /\ LookupReturn(p, free_slot_idx[p])

LookupMiss(p) ==
    /\ pc[p] = "lookup"
    /\ i[p] = MaxTrackedQueries
    /\ ~MayClaim(p)
    /\ LookupReturn(p, NoSlot)
    /\ UNCHANGED table

(* The signal handler interrupts the scan and raises an error, which jumps *)
(* out of it with the lock still held.  PG_CATCH of query_start_hook does  *)
(* not let go of it: backend_exit_callback goes on to ask for the same lock*)
(* in LW_EXCLUSIVE.  PG_CATCH of query_end_hook does.                      *)
LookupError(p) ==
    /\ pc[p] = "lookup"
    /\ IF should_create[p]
       THEN Goto(p, "catch_lock") /\ UNCHANGED lock
       ELSE Goto(p, "idle") /\ ReleaseShared(p)
    /\ i' = [i EXCEPT ![p] = 0]
    /\ free_slot_idx' = [free_slot_idx EXCEPT ![p] = NoSlot]
    /\ should_create' = [should_create EXCEPT ![p] = FALSE]
    /\ UNCHANGED <<table, be, registered>>

-----------------------------------------------------------------------------
(* The hooks, as far as they touch the table. *)

(* initialize_state_once_per_backend *)
Register(p) ==
    /\ pc[p] = "idle"
    /\ registered' = [registered EXCEPT ![p] = TRUE]
    /\ UNCHANGED <<table, lock, pc, local>>

(* query_start_hook has filled the entry in, or an error took it to        *)
(* PG_CATCH: while it fills the entry in, or, in the signal handler, before*)
(* it looks for one.                                                       *)
FillDone(p) ==
    /\ pc[p] = "fill"
    /\ Goto(p, "idle")
    /\ be' = [be EXCEPT ![p] = NoSlot]
    /\ UNCHANGED <<table, lock, i, free_slot_idx, should_create, registered>>

FillError(p) ==
    /\ pc[p] \in {"idle", "fill"}
    /\ registered[p]
    /\ Goto(p, "catch_lock")
    /\ be' = [be EXCEPT ![p] = NoSlot]
    /\ UNCHANGED <<table, lock, i, free_slot_idx, should_create, registered>>

LockExclusive(p, from, to) ==
    /\ pc[p] = from
    /\ AcquireExclusive(p)
    /\ Goto(p, to)
    /\ UNCHANGED <<table, local, registered>>

(* query_end_hook, with the lock held: the entry is released if it is      *)
(* still active, whoever owns it by now; an error while collecting skips   *)
(* the release.                                                            *)
EndLock(p) == LockExclusive(p, "end_lock", "end")

(* An error in the signal handler just before that: PG_CATCH releases a    *)
(* lock that is not held, which is an error of its own.                    *)
EndLockError(p) ==
    /\ pc[p] = "end_lock"
    /\ Goto(p, "idle")
    /\ be' = [be EXCEPT ![p] = NoSlot]
    /\ UNCHANGED <<table, lock, i, free_slot_idx, should_create, registered>>

EndUnlock(p) ==
    /\ pc[p] = "end"
    /\ ReleaseExclusive(p)
    /\ Goto(p, "idle")
    /\ be' = [be EXCEPT ![p] = NoSlot]
    /\ UNCHANGED <<i, free_slot_idx, should_create, registered>>

EndRelease(p)  == EndUnlock(p) /\ Active(be[p]) /\ Free(be[p])
EndInactive(p) == EndUnlock(p) /\ ~Active(be[p]) /\ UNCHANGED table
EndError(p)    == EndUnlock(p) /\ Active(be[p]) /\ UNCHANGED table

(* backend_exit_callback releases the first entry that holds its pid.      *)
(* Variant: any active entry is taken for the process' own.                *)
FirstOfAnyone(p, s) == Active(s) /\ \A r \in Slots : r < s => ~Active(r)
FirstOf(p, s) == backend_pid[s] = p /\ \A r \in Slots : r < s => backend_pid[r] # p

FreeFirstOf(p) ==
    \/ \E s \in Slots : FirstOf(p, s) /\ Free(s)
    \/ (\A s \in Slots : backend_pid[s] # p) /\ UNCHANGED table

ExitCallback(p, from, to) ==
    /\ pc[p] = from
    /\ FreeFirstOf(p)
    /\ ReleaseExclusive(p)
    /\ Goto(p, to)
    /\ UNCHANGED <<local, registered>>

CatchLock(p)    == LockExclusive(p, "catch_lock", "catch")
CatchRelease(p) == ExitCallback(p, "catch", "idle")
ExitLock(p)     == LockExclusive(p, "exit_lock", "exit")
ExitRelease(p)  == ExitCallback(p, "exit", "gone")

(* The process exits, through its callback if it registered one.  Being    *)
(* terminated while it fills an entry in is an exit too; a holder of the   *)
(* lock holds interrupts off until it lets go.                             *)
(* Variant: the exit callback is not registered.                           *)
ExitStartNoCallback(p) ==
    /\ pc[p] \in {"idle", "fill"}
    /\ Goto(p, "gone")
    /\ be' = [be EXCEPT ![p] = NoSlot]
    /\ UNCHANGED <<table, lock, i, free_slot_idx, should_create, registered>>

ExitStart(p) ==
    /\ pc[p] \in {"idle", "fill"}
    /\ Goto(p, IF registered[p] THEN "exit_lock" ELSE "gone")
    /\ be' = [be EXCEPT ![p] = NoSlot]
    /\ UNCHANGED <<table, lock, i, free_slot_idx, should_create, registered>>

(* query_cleanup_callback, pwh_release_my_backend_entry: the scan and the  *)
(* release hold the lock in LW_SHARED only.                                *)
AbortStart(p) ==
    /\ pc[p] = "idle"
    /\ registered[p]
    /\ AcquireShared(p)
    /\ Goto(p, "abort")
    /\ i' = [i EXCEPT ![p] = 0]
    /\ UNCHANGED <<table, free_slot_idx, should_create, be, registered>>

AbortStep(p) ==
    /\ pc[p] = "abort"
    /\ i[p] < MaxTrackedQueries
    /\ IF backend_pid[i[p]] = p
       THEN Goto(p, "abort_release") /\ UNCHANGED i
       ELSE i' = [i EXCEPT ![p] = @ + 1] /\ UNCHANGED pc
    /\ UNCHANGED <<table, lock, free_slot_idx, should_create, be, registered>>

AbortReturn(p) ==
    /\ ReleaseShared(p)
    /\ Goto(p, "idle")
    /\ i' = [i EXCEPT ![p] = 0]
    /\ UNCHANGED <<free_slot_idx, should_create, be, registered>>

AbortRelease(p) == pc[p] = "abort_release" /\ Free(i[p]) /\ AbortReturn(p)

(* Variant: the lock is let go only where an entry is released.            *)
AbortMissKeepsLock(p) ==
    /\ pc[p] = "abort"
    /\ i[p] = MaxTrackedQueries
    /\ Goto(p, "idle")
    /\ i' = [i EXCEPT ![p] = 0]
    /\ UNCHANGED <<table, lock, free_slot_idx, should_create, be, registered>>

AbortMiss(p) ==
    /\ pc[p] = "abort"
    /\ i[p] = MaxTrackedQueries
    /\ AbortReturn(p)
    /\ UNCHANGED table

(* v1_status_f holds the lock in LW_SHARED while it signals and sleeps.    *)
PollStart(p) ==
    /\ pc[p] = "idle"
    /\ AcquireShared(p)
    /\ Goto(p, "poll")
    /\ UNCHANGED <<table, local, registered>>

PollEnd(p) ==
    /\ pc[p] = "poll"
    /\ ReleaseShared(p)
    /\ Goto(p, "idle")
    /\ UNCHANGED <<table, local, registered>>

-----------------------------------------------------------------------------
(* metrics_handler in the exporter: sweep the table for entries of         *)
(* processes that no longer exist (pwh_cleanup_orphaned_slots), then       *)
(* signal, sleep and format, all under one LW_SHARED hold.                 *)

ScrapeStart ==
    /\ pc[Exporter] = "idle"
    /\ AcquireShared(Exporter)
    /\ Goto(Exporter, "cleanup")
    /\ i' = [i EXCEPT ![Exporter] = 0]
    /\ UNCHANGED <<table, free_slot_idx, should_create, be, registered>>

(* Variant: the test of the process is left out.                           *)
IsOrphanIfActive(s) == Active(s)
IsOrphan(s) == Active(s) /\ ~Exists(backend_pid[s])

CleanupStep ==
    /\ pc[Exporter] = "cleanup"
    /\ i[Exporter] < MaxTrackedQueries
    /\ IF IsOrphan(i[Exporter])
       THEN Goto(Exporter, "orphan") /\ UNCHANGED i
       ELSE i' = [i EXCEPT ![Exporter] = @ + 1] /\ UNCHANGED pc
    /\ UNCHANGED <<table, lock, free_slot_idx, should_create, be, registered>>

(* Variant: the entry is stepped over twice.                               *)
CleanupReleaseSkips ==
    /\ pc[Exporter] = "orphan"
    /\ Free(i[Exporter])
    /\ Goto(Exporter, "cleanup")
    /\ i' = [i EXCEPT ![Exporter] = @ + 2]
    /\ UNCHANGED <<lock, free_slot_idx, should_create, be, registered>>

CleanupRelease ==
    /\ pc[Exporter] = "orphan"
    /\ Free(i[Exporter])
    /\ Goto(Exporter, "cleanup")
    /\ i' = [i EXCEPT ![Exporter] = @ + 1]
    /\ UNCHANGED <<lock, free_slot_idx, should_create, be, registered>>

CleanupDone ==
    /\ pc[Exporter] = "cleanup"
    /\ i[Exporter] = MaxTrackedQueries
    /\ Goto(Exporter, "poll")
    /\ i' = [i EXCEPT ![Exporter] = 0]
    /\ UNCHANGED <<table, lock, free_slot_idx, should_create, be, registered>>

ScrapeEnd == PollEnd(Exporter)

(* handle_sigterm: proc_exit(0) wherever the exporter is, which lets go of *)
(* its locks; the postmaster does not start a worker that exits with 0     *)
(* again.                                                                  *)
HandleSigterm ==
    /\ Exists(Exporter)
    /\ ReleaseShared(Exporter)
    /\ Goto(Exporter, "gone")
    /\ i' = [i EXCEPT ![Exporter] = 0]
    /\ UNCHANGED <<table, free_slot_idx, should_create, be, registered>>

-----------------------------------------------------------------------------
(* Processes come and go.  A killed process keeps its locks and its entry  *)
(* until the postmaster notices, restarts every process and zeroes the     *)
(* table; a new backend may get the pid of one that left.                  *)

Die(p) ==
    /\ Exists(p)
    /\ Goto(p, "dead")
    /\ UNCHANGED <<table, lock, local, registered>>

Restart ==
    /\ \E p \in Procs : pc[p] = "dead"
    /\ backend_pid' = [s \in Slots |-> NoPid]
    /\ readers' = {}
    /\ writer' = NoPid
    /\ pc' = [p \in Procs |-> "idle"]
    /\ i' = [p \in Procs |-> 0]
    /\ free_slot_idx' = [p \in Backends |-> NoSlot]
    /\ should_create' = [p \in Backends |-> FALSE]
    /\ be' = [p \in Backends |-> NoSlot]
    /\ registered' = [p \in Backends |-> FALSE]
    /\ overwritten' = FALSE

Connect(p) ==
    /\ pc[p] = "gone"
    /\ Goto(p, "idle")
    /\ registered' = [registered EXCEPT ![p] = FALSE]
    /\ UNCHANGED <<table, lock, local>>

-----------------------------------------------------------------------------
LookupNext(p) ==
    \/ \E create \in BOOLEAN : LookupStart(p, create)
    \/ LookupStep(p) \/ LookupFound(p) \/ LookupClaim(p) \/ LookupMiss(p)
    \/ LookupError(p)

HookNext(p) ==
    \/ Register(p) \/ FillDone(p) \/ FillError(p)
    \/ EndLock(p) \/ EndLockError(p)
    \/ EndRelease(p) \/ EndInactive(p) \/ EndError(p)
    \/ CatchLock(p) \/ CatchRelease(p)

AbortNext(p) == AbortStart(p) \/ AbortStep(p) \/ AbortRelease(p) \/ AbortMiss(p)
PollNext(p)  == PollStart(p) \/ PollEnd(p)
ExitNext(p)  == ExitStart(p) \/ ExitLock(p) \/ ExitRelease(p) \/ Connect(p)

BackendNext(p) ==
    LookupNext(p) \/ HookNext(p) \/ AbortNext(p) \/ PollNext(p) \/ ExitNext(p)

ExporterNext ==
    \/ ScrapeStart \/ CleanupStep \/ CleanupRelease \/ CleanupDone \/ ScrapeEnd
    \/ HandleSigterm

Next ==
    \/ \E p \in Backends : BackendNext(p)
    \/ ExporterNext
    \/ \E p \in Procs : Die(p)
    \/ Restart

Spec == Init /\ [][Next]_vars

(* A process inside a hook goes on, and the postmaster notices a death.    *)
(* Nothing obliges a process to enter a hook, to wait for the lock with    *)
(* success, or to be terminated.                                           *)
Proceed(p) ==
    \/ LookupStep(p) \/ LookupFound(p) \/ LookupClaim(p) \/ LookupMiss(p)
    \/ FillDone(p) \/ EndRelease(p) \/ EndInactive(p) \/ CatchRelease(p)
    \/ AbortStep(p) \/ AbortRelease(p) \/ AbortMiss(p)
    \/ PollEnd(p) \/ ExitRelease(p)

ExporterProceeds == CleanupStep \/ CleanupRelease \/ CleanupDone \/ ScrapeEnd

Fairness ==
    /\ \A p \in Backends : WF_vars(Proceed(p))
    /\ WF_vars(ExporterProceeds)
    /\ WF_vars(Restart)

FairSpec == Spec /\ Fairness

-----------------------------------------------------------------------------
(* A holder of entry_search_lock in LW_EXCLUSIVE is alone: nobody scans    *)
(* the table, and nobody releases an entry, while it does (the collection  *)
(* and release of query_end_hook, backend_exit_callback).                  *)
ExclusiveIsAlone ==
    \A p \in Backends, q \in Procs :
        pc[p] \in ExclusiveAt /\ q # p => pc[q] \notin ExclusiveAt \cup SharedAt

(* However claims interleave, and even after one has overwritten another,  *)
(* a backend never owns two entries: the exit callback and the abort       *)
(* callback, which stop at the first entry with their pid, miss none.      *)
OneSlotPerBackend ==
    \A s, t \in Slots : Active(s) /\ backend_pid[s] = backend_pid[t] => s = t

(* A process that exited through its callback left no entry behind, so     *)
(* the next process with its pid starts with none.                         *)
GoneOwnsNothing ==
    \A p \in Backends : pc[p] = "gone" => \A s \in Slots : backend_pid[s] # p

(* Unless a claim has overwritten another, the entry a hook has looked up  *)
(* is its own until it is done with it, though the lock was let go in      *)
(* between; so is the entry an abort is about to release; and the one the  *)
(* exporter is about to release belongs to a process that is gone.         *)
HoldsEntry(p) == \/ pc[p] = "fill" /\ be[p] # NoSlot
                 \/ pc[p] \in {"end_lock", "end"}

FillsOwnEntry ==
    \A p \in Backends : HoldsEntry(p) => backend_pid[be[p]] = p
AbortReleasesOwnEntry ==
    \A p \in Backends : pc[p] = "abort_release" => backend_pid[i[p]] = p
SweepReleasesOrphan ==
    pc[Exporter] = "orphan" => IsOrphan(i[Exporter])

EntryIsOwned ==
    ~overwritten => FillsOwnEntry /\ AbortReleasesOwnEntry /\ SweepReleasesOrphan

(* Unless a claim has overwritten another, the only way a live backend     *)
(* loses its entry is by its own release, or in a restart.                 *)
ReleasesAt == {"end", "catch", "exit", "abort_release"}
Loses(p)   == \E s \in Slots : backend_pid[s] = p /\ backend_pid'[s] # p

OnlyOwnerReleasesStep ==
    \A p \in Backends :
        Exists(p) /\ Loses(p) /\ ~overwritten' =>
            Restart \/ (pc[p] \in ReleasesAt /\ pc'[p] # pc[p])
OnlyOwnerReleases == [][OnlyOwnerReleasesStep]_vars

(* What makes the properties above inductive.                              *)
LockIsHeld ==
    /\ \A p \in Procs : pc[p] \in SharedAt => p \in readers
    /\ \A p \in Backends : pc[p] \in ExclusiveAt => writer = p
    /\ writer # NoPid => readers = {}

PointersInRange ==
    /\ \A p \in Backends : pc[p] \in {"end_lock", "end"} => be[p] \in Slots
    /\ \A p \in Backends : pc[p] = "abort_release" => i[p] \in Slots
    /\ pc[Exporter] = "orphan" => i[Exporter] \in Slots

(* A lookup has not passed an entry with its own pid.                      *)
ScanFoundNone ==
    \A p \in Backends : pc[p] = "lookup" =>
        registered[p] /\ \A s \in Slots : s < i[p] => backend_pid[s] # p

UnregisteredOwnsNothing ==
    \A p \in Backends : ~registered[p] => \A s \in Slots : backend_pid[s] # p

(* Every holder of the lock lets it go, after being killed and after an    *)
(* error too, with one exception: a start hook that an error in the signal *)
(* handler takes out of its lookup waits for itself (NeverWaitsForItself). *)
Trapped(p) == pc[p] = "catch_lock" /\ p \in readers

HoldersLetGo ==
    /\ \A p \in Procs : (p \in readers) ~> (p \notin readers \/ Trapped(p))
    /\ \A p \in Backends : (writer = p) ~> (writer # p)

(* All of this together: the scans, the lock, the callbacks and the sweep   *)
(* implement an allocator that hands out one entry per process and gets it *)
(* back however the process ends.                                          *)
Life(step) == IF step = "gone" THEN "left" ELSE IF step = "dead" THEN "killed" ELSE "present"
life       == [p \in Procs |-> Life(pc[p])]

Allocator == INSTANCE EntryAllocator
    WITH Processes <- Procs, Entries <- Slots, NoOwner <- NoPid,
         owner <- backend_pid, contested <- overwritten

ImplementsAllocator == Allocator!Spec

(* "Each slot holds one backend's metrics" (README.md): two backends never *)
(* fill in the same entry.                                                 *)
OneBackendPerSlot ==
    \A p, q \in Backends :
        HoldsEntry(p) /\ HoldsEntry(q) /\ p # q => be[p] # be[q]
=============================================================================
