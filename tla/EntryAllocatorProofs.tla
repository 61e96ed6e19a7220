--------------------------- MODULE EntryAllocatorProofs ---------------------------
(***************************************************************************)
(* SlotTable implements EntryAllocator, for any set of backends and any    *)
(* number of entries.                                                      *)
(***************************************************************************)
EXTENDS SlotTableProofs

USE DEF Procs, Slots, NoSlot, Allocator!vars

(* A step that changes neither the table nor whether a process exists is   *)
(* none of the allocator's.                                                *)
LEMMA SameLife ==
    ASSUME TypeOK, TypeOK', NEW p \in Procs, NEW step, pc' = [pc EXCEPT ![p] = step],
           Life(step) = Life(pc[p])
    PROVE  life' = life
BY DEF life, TypeOK

LEMMA LifeChanges ==
    ASSUME TypeOK, NEW p \in Procs, NEW step, pc' = [pc EXCEPT ![p] = step]
    PROVE  life' = [life EXCEPT ![p] = Life(step)]
BY DEF life, TypeOK

(* A release is by the owner, or the table is contested.                   *)
LEMMA ReleaseIsAllowed ==
    ASSUME OwnershipInv, NEW p \in Backends, NEW s \in Slots, Free(s), life' = life,
           Life(pc[p]) = "present", ~overwritten => backend_pid[s] = p
    PROVE  Allocator!Next
<1>1. Allocator!Disown(s)
  BY DEF Free, Allocator!Disown
<1>2. CASE overwritten
  BY <1>1, <1>2 DEF Allocator!Usurp, Allocator!Next
<1>3. CASE ~overwritten
  <2>1. life[p] = "present"
    BY DEF life
  <2>2. Allocator!Release(p, s)
    BY <1>1, <1>3, <2>1 DEF Allocator!Release
  <2>. QED  BY <2>2 DEF Allocator!Next
<1>. QED  BY <1>2, <1>3

(* The end of a lookup with a claim takes an entry for a process that owns *)
(* none: the scan has been through all of them.                            *)
LEMMA ClaimTakes ==
    ASSUME OwnershipInv, OwnershipInv', NEW p \in Backends, LookupClaim(p)
    PROVE  Allocator!Next
<1>. USE SlotTableAssumption DEF OwnershipInv, TypeOK
<1>1. free_slot_idx[p] \in Slots
  BY DEF LookupClaim, MayClaim
<1>2. Allocator!OwnsNone(p)
  BY DEF LookupClaim, ScanFoundNone, Allocator!OwnsNone
<1>3. pc[p] = "lookup" /\ \E step \in {"fill", "end_lock", "idle"} : pc' = [pc EXCEPT ![p] = step]
  BY DEF LookupClaim, LookupReturn, Goto
<1>4. life' = life
  BY <1>3, SameLife DEF Life
<1>5. life[p] = "present"
  BY <1>3 DEF life, Life
<1>6. Allocator!Take(p, free_slot_idx[p])
  BY <1>1, <1>2, <1>4, <1>5 DEF LookupClaim, Allocator!Take, Active
<1>. QED  BY <1>1, <1>6 DEF Allocator!Next

(* The steps of a lookup, a hook or a callback that leave the table alone. *)
LEMMA QuietStep ==
    ASSUME TypeOK, TypeOK', UNCHANGED table, NEW p \in Procs,
           \/ pc' = pc
           \/ \E step \in BackendSteps \cup ExporterSteps :
                 pc' = [pc EXCEPT ![p] = step] /\ Life(step) = Life(pc[p])
    PROVE  UNCHANGED Allocator!vars
<1>1. life' = life
  <2>1. CASE pc' = pc
    BY <2>1 DEF life
  <2>2. CASE pc' # pc
    BY <2>2, SameLife
  <2>. QED  BY <2>1, <2>2
<1>. QED  BY <1>1 DEF table

LEMMA BackendImplements ==
    ASSUME OwnershipInv, OwnershipInv', NEW p \in Backends
    PROVE  BackendNext(p) => [Allocator!Next]_(Allocator!vars)
<1>. USE SlotTableAssumption DEF OwnershipInv, TypeOK
<1>. DEFINE Here(steps) == pc[p] \in steps
            To(steps)   == \E step \in steps : pc' = [pc EXCEPT ![p] = step]
<1>1. ASSUME LookupNext(p) PROVE [Allocator!Next]_(Allocator!vars)
  <2>1. CASE LookupClaim(p)
    BY <2>1, ClaimTakes
  <2>2. CASE ~LookupClaim(p)
    <3>1. UNCHANGED table /\ pc[p] \in {"idle", "lookup"}
          /\ (pc' = pc \/ To({"lookup", "fill", "end_lock", "catch_lock", "idle"}))
      BY <1>1, <2>2
      DEF LookupNext, LookupStart, LookupStep, LookupFound, LookupMiss, LookupError,
          LookupReturn, Goto
    <3>. QED  BY <3>1, QuietStep DEF Life, BackendSteps, ExclusiveAt, WaitingAt
  <2>. QED  BY <2>1, <2>2
<1>2. ASSUME HookNext(p) PROVE [Allocator!Next]_(Allocator!vars)
  <2>1. CASE EndRelease(p)
    <3>1. Free(be[p]) /\ pc[p] = "end" /\ pc' = [pc EXCEPT ![p] = "idle"] /\ be[p] \in Slots
      BY <2>1 DEF EndRelease, EndUnlock, Goto, PointersInRange
    <3>2. ~overwritten => backend_pid[be[p]] = p
      BY <3>1 DEF EntryIsOwned, FillsOwnEntry, HoldsEntry
    <3>. QED  BY <3>1, <3>2, SameLife, ReleaseIsAllowed DEF Life
  <2>2. CASE CatchRelease(p)
    <3>1. FreeFirstOf(p) /\ pc[p] = "catch" /\ pc' = [pc EXCEPT ![p] = "idle"]
      BY <2>2 DEF CatchRelease, ExitCallback, Goto
    <3>2. life' = life
      BY <3>1, SameLife DEF Life
    <3>3. ASSUME NEW s \in Slots, FirstOf(p, s), Free(s) PROVE Allocator!Next
      BY <3>1, <3>2, <3>3, ReleaseIsAllowed DEF Life, FirstOf
    <3>4. CASE UNCHANGED table
      BY <3>2, <3>4 DEF table
    <3>. QED  BY <3>1, <3>3, <3>4 DEF FreeFirstOf
  <2>3. CASE ~EndRelease(p) /\ ~CatchRelease(p)
    <3>1. UNCHANGED table /\ pc[p] \notin {"gone", "dead"}
          /\ (pc' = pc \/ To({"idle", "catch_lock", "catch", "end"}))
      BY <1>2, <2>3
      DEF HookNext, Register, FillDone, FillError, EndLock, EndLockError, CatchLock,
          LockExclusive, EndInactive, EndError, EndUnlock, Goto
    <3>. QED  BY <3>1, QuietStep DEF Life, BackendSteps, ExclusiveAt, WaitingAt
  <2>. QED  BY <2>1, <2>2, <2>3
<1>3. ASSUME AbortNext(p) PROVE [Allocator!Next]_(Allocator!vars)
  <2>1. CASE AbortRelease(p)
    <3>1. Free(i[p]) /\ pc[p] = "abort_release" /\ pc' = [pc EXCEPT ![p] = "idle"]
          /\ i[p] \in Slots
      BY <2>1 DEF AbortRelease, AbortReturn, Goto, PointersInRange
    <3>2. ~overwritten => backend_pid[i[p]] = p
      BY <3>1 DEF EntryIsOwned, AbortReleasesOwnEntry
    <3>. QED  BY <3>1, <3>2, SameLife, ReleaseIsAllowed DEF Life
  <2>2. CASE ~AbortRelease(p)
    <3>1. UNCHANGED table /\ pc[p] \in {"idle", "abort"}
          /\ (pc' = pc \/ To({"idle", "abort", "abort_release"}))
      BY <1>3, <2>2 DEF AbortNext, AbortStart, AbortStep, AbortMiss, AbortReturn, Goto
    <3>. QED  BY <3>1, QuietStep DEF Life, BackendSteps
  <2>. QED  BY <2>1, <2>2
<1>4. ASSUME PollNext(p) PROVE [Allocator!Next]_(Allocator!vars)
  <2>1. UNCHANGED table /\ pc[p] \in {"idle", "poll"} /\ To({"idle", "poll"})
    BY <1>4 DEF PollNext, PollStart, PollEnd, Goto
  <2>. QED  BY <2>1, QuietStep DEF Life, BackendSteps
<1>5. ASSUME ExitNext(p) PROVE [Allocator!Next]_(Allocator!vars)
  <2>1. CASE ExitStart(p) /\ ~registered[p]
    <3>1. pc[p] \in {"idle", "fill"} /\ pc' = [pc EXCEPT ![p] = "gone"] /\ UNCHANGED table
      BY <2>1 DEF ExitStart, Goto
    <3>2. \A s \in Slots : backend_pid[s] # p
      BY <2>1 DEF UnregisteredOwnsNothing
    <3>3. life[p] = "present" /\ life' = [life EXCEPT ![p] = "left"]
      BY <3>1, LifeChanges DEF life, Life
    <3>4. Allocator!Leave(p)
      BY <3>1, <3>2, <3>3 DEF table, Allocator!Leave
    <3>. QED  BY <3>4 DEF Allocator!Next
  <2>2. CASE ExitStart(p) /\ registered[p]
    <3>1. pc[p] \in {"idle", "fill"} /\ To({"exit_lock"}) /\ UNCHANGED table
      BY <2>2 DEF ExitStart, Goto
    <3>. QED  BY <3>1, QuietStep DEF Life, BackendSteps, WaitingAt
  <2>3. CASE ExitLock(p)
    <3>1. pc[p] = "exit_lock" /\ To({"exit"}) /\ UNCHANGED table
      BY <2>3 DEF ExitLock, LockExclusive, Goto
    <3>. QED  BY <3>1, QuietStep DEF Life, BackendSteps, ExclusiveAt
  <2>4. CASE ExitRelease(p)
    <3>1. FreeFirstOf(p) /\ pc[p] = "exit" /\ pc' = [pc EXCEPT ![p] = "gone"]
      BY <2>4 DEF ExitRelease, ExitCallback, Goto
    <3>2. life[p] = "present" /\ life' = [life EXCEPT ![p] = "left"]
      BY <3>1, LifeChanges DEF life, Life
    <3>3. ASSUME NEW s \in Slots, FirstOf(p, s), Free(s) PROVE Allocator!Leave(p)
      <4>1. \A t \in Slots : backend_pid[t] = p => t = s
        BY <3>3 DEF FirstOf, OneSlotPerBackend, Active
      <4>2. backend_pid' = [t \in Slots |-> IF backend_pid[t] = p THEN NoPid ELSE backend_pid[t]]
        BY <3>3, <4>1 DEF Free, FirstOf
      <4>. QED  BY <3>2, <3>3, <4>2 DEF Free, Allocator!Leave
    <3>4. ASSUME UNCHANGED table, \A s \in Slots : backend_pid[s] # p PROVE Allocator!Leave(p)
      BY <3>2, <3>4 DEF table, Allocator!Leave
    <3>. QED  BY <3>1, <3>3, <3>4 DEF FreeFirstOf, Allocator!Next
  <2>5. CASE Connect(p)
    <3>1. pc[p] = "gone" /\ pc' = [pc EXCEPT ![p] = "idle"] /\ UNCHANGED table
      BY <2>5 DEF Connect, Goto
    <3>2. Allocator!Arrive(p)
      BY <3>1, LifeChanges DEF life, Life, table, Allocator!Arrive
    <3>. QED  BY <3>2 DEF Allocator!Next
  <2>. QED  BY <1>5, <2>1, <2>2, <2>3, <2>4, <2>5 DEF ExitNext
<1>. QED  BY <1>1, <1>2, <1>3, <1>4, <1>5 DEF BackendNext

-----------------------------------------------------------------------------
LEMMA ExporterImplements ==
    ASSUME OwnershipInv, OwnershipInv'
    PROVE  ExporterNext => [Allocator!Next]_(Allocator!vars)
<1>. USE SlotTableAssumption DEF OwnershipInv, TypeOK
<1>. SUFFICES ASSUME ExporterNext PROVE [Allocator!Next]_(Allocator!vars)
  OBVIOUS
<1>1. CASE CleanupRelease
  <2>. DEFINE s == i[Exporter]
              p == backend_pid[s]
  <2>1. s \in Slots /\ Free(s) /\ pc[Exporter] = "orphan"
        /\ pc' = [pc EXCEPT ![Exporter] = "cleanup"]
    BY <1>1 DEF CleanupRelease, Goto, PointersInRange
  <2>2. life' = life
    BY <2>1, SameLife DEF Life
  <2>3. Allocator!Disown(s)
    BY <2>1, <2>2 DEF Free, Allocator!Disown
  <2>4. CASE overwritten
    BY <2>1, <2>3, <2>4 DEF Allocator!Usurp, Allocator!Next
  <2>5. CASE ~overwritten
    <3>1. p \in Backends /\ ~Exists(p)
      BY <2>1, <2>5 DEF EntryIsOwned, SweepReleasesOrphan, IsOrphan, Active
    <3>2. life[p] = "killed"
      BY <2>1, <3>1 DEF GoneOwnsNothing, Exists, life, Life
    <3>3. Allocator!Reclaim(p, s)
      BY <2>3, <3>2 DEF Allocator!Reclaim
    <3>. QED  BY <2>1, <3>1, <3>3 DEF Allocator!Next
  <2>. QED  BY <2>4, <2>5
<1>2. CASE HandleSigterm
  <2>1. pc[Exporter] \notin {"gone", "dead"} /\ pc' = [pc EXCEPT ![Exporter] = "gone"]
        /\ UNCHANGED table
    BY <1>2 DEF HandleSigterm, Exists, Goto
  <2>2. \A s \in Slots : backend_pid[s] # Exporter
    OBVIOUS
  <2>3. life[Exporter] = "present" /\ life' = [life EXCEPT ![Exporter] = "left"]
    BY <2>1, LifeChanges DEF life, Life
  <2>4. Allocator!Leave(Exporter)
    BY <2>1, <2>2, <2>3 DEF table, Allocator!Leave
  <2>. QED  BY <2>4 DEF Allocator!Next
<1>3. CASE ~CleanupRelease /\ ~HandleSigterm
  <2>1. UNCHANGED table /\ pc[Exporter] \notin {"gone", "dead"}
        /\ (pc' = pc \/ \E step \in {"cleanup", "orphan", "poll", "idle"} :
                           pc' = [pc EXCEPT ![Exporter] = step])
    BY <1>3
    DEF ExporterNext, ScrapeStart, CleanupStep, CleanupDone, ScrapeEnd, PollEnd, Goto
  <2>. QED  BY <2>1, QuietStep DEF Life, ExporterSteps
<1>. QED  BY <1>1, <1>2, <1>3

LEMMA AllocatorStep ==
    OwnershipInv /\ OwnershipInv' /\ [Next]_vars => [Allocator!Next]_(Allocator!vars)
<1>. SUFFICES ASSUME OwnershipInv, OwnershipInv', [Next]_vars
              PROVE  [Allocator!Next]_(Allocator!vars)
  OBVIOUS
<1>1. ASSUME NEW p \in Procs, Die(p) PROVE Allocator!Next
  <2>1. pc[p] \notin {"gone", "dead"} /\ pc' = [pc EXCEPT ![p] = "dead"] /\ UNCHANGED table
    BY <1>1 DEF Die, Exists, Goto
  <2>2. life[p] = "present" /\ life' = [life EXCEPT ![p] = "killed"]
    BY <2>1, LifeChanges DEF life, Life, OwnershipInv
  <2>3. Allocator!Kill(p)
    BY <2>1, <2>2 DEF table, Allocator!Kill
  <2>. QED  BY <2>3 DEF Allocator!Next
<1>2. ASSUME Restart PROVE Allocator!Next
  <2>1. \E p \in Procs : life[p] = "killed"
    BY <1>2 DEF Restart, life, Life
  <2>2. life' = [p \in Procs |-> "present"]
    BY <1>2 DEF Restart, life, Life
  <2>3. Allocator!Restart
    BY <1>2, <2>1, <2>2 DEF Restart, Allocator!Restart
  <2>. QED  BY <2>3 DEF Allocator!Next
<1>3. CASE UNCHANGED vars
  BY <1>3 DEF vars, table, life
<1>. QED  BY <1>1, <1>2, <1>3, BackendImplements, ExporterImplements DEF Next

(* The table hands out one entry per process and gets it back however the  *)
(* process ends, with the one hole that EntryAllocator names.              *)
THEOREM AllocatorIsImplemented == Spec => ImplementsAllocator
<1>1. Init => Allocator!Init
  BY SlotTableAssumption DEF Init, life, Life, Allocator!Init
<1>. QED
  BY <1>1, AllocatorStep, Ownership, PTL DEF Spec, ImplementsAllocator, Allocator!Spec
=============================================================================
