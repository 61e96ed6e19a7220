---------------------------- MODULE SlotTableProofs ----------------------------
(***************************************************************************)
(* Proofs about SlotTable, for any set of backends and any number of       *)
(* entries.                                                                *)
(***************************************************************************)
EXTENDS SlotTable, TLAPS

USE DEF Procs, Slots, NoSlot

LEMMA InitType == Init => TypeOK
<1>. HAVE Init
<1>. USE SlotTableAssumption DEF Init
<1>1. pc \in [Procs -> {"idle"}] /\ i \in [Procs -> 0 .. MaxTrackedQueries]
  OBVIOUS
<1>2. /\ backend_pid \in [Slots -> Backends \cup {NoPid}]
      /\ readers \in SUBSET Procs
      /\ writer \in Backends \cup {NoPid}
  OBVIOUS
<1>3. /\ free_slot_idx \in [Backends -> Slots \cup {NoSlot}]
      /\ should_create \in [Backends -> BOOLEAN]
      /\ be \in [Backends -> Slots \cup {NoSlot}]
      /\ registered \in [Backends -> BOOLEAN]
      /\ overwritten \in BOOLEAN
  OBVIOUS
<1>4. /\ pc \in [Procs -> BackendSteps \cup ExporterSteps]
      /\ \A p \in Backends : pc[p] \in BackendSteps
      /\ pc[Exporter] \in ExporterSteps
  BY <1>1 DEF BackendSteps, ExporterSteps
<1>. QED  BY <1>1, <1>2, <1>3, <1>4 DEF TypeOK

-----------------------------------------------------------------------------
LEMMA LookupType ==
    ASSUME TypeOK, NEW p \in Backends, LookupNext(p)
    PROVE  TypeOK'
<1>. USE SlotTableAssumption DEF TypeOK, BackendSteps, ExporterSteps, ExclusiveAt, WaitingAt,
         table, lock, AcquireShared, ReleaseShared, Goto
<1>1. ASSUME NEW create \in BOOLEAN, LookupStart(p, create) PROVE TypeOK'
  BY <1>1 DEF LookupStart
<1>2. CASE LookupStep(p)
  BY <1>2 DEF LookupStep
<1>3. CASE LookupFound(p)
  BY <1>3 DEF LookupFound, LookupReturn
<1>4. CASE LookupClaim(p)
  BY <1>4 DEF LookupClaim, LookupReturn, MayClaim
<1>5. CASE LookupMiss(p)
  BY <1>5 DEF LookupMiss, LookupReturn
<1>6. CASE LookupError(p)
  <2>1. /\ readers' \in SUBSET Procs /\ writer' = writer
        /\ \E step \in {"catch_lock", "idle"} : pc' = [pc EXCEPT ![p] = step]
    <3>1. CASE should_create[p]
      BY <1>6, <3>1 DEF LookupError
    <3>2. CASE ~should_create[p]
      BY <1>6, <3>2 DEF LookupError
    <3>. QED  BY <3>1, <3>2
  <2>2. /\ pc' \in [Procs -> BackendSteps \cup ExporterSteps]
        /\ \A q \in Backends : pc'[q] \in BackendSteps
        /\ pc'[Exporter] \in ExporterSteps
    BY <2>1
  <2>3. /\ i' = [i EXCEPT ![p] = 0]
        /\ free_slot_idx' = [free_slot_idx EXCEPT ![p] = NoSlot]
        /\ should_create' = [should_create EXCEPT ![p] = FALSE]
        /\ UNCHANGED <<table, be, registered>>
    BY <1>6 DEF LookupError
  <2>4. i' \in [Procs -> 0 .. MaxTrackedQueries]
    BY <2>3
  <2>. QED  BY <2>1, <2>2, <2>3, <2>4
<1>. QED  BY <1>1, <1>2, <1>3, <1>4, <1>5, <1>6 DEF LookupNext

LEMMA HookType ==
    ASSUME TypeOK, NEW p \in Backends
    PROVE  HookNext(p) => TypeOK'
<1>. USE SlotTableAssumption DEF TypeOK, BackendSteps, ExporterSteps, ExclusiveAt, WaitingAt,
         table, lock, local, Goto
<1>1. ASSUME Register(p) PROVE TypeOK'
  BY <1>1 DEF Register
<1>2. ASSUME FillDone(p) PROVE TypeOK'
  BY <1>2 DEF FillDone
<1>3. ASSUME FillError(p) PROVE TypeOK'
  BY <1>3 DEF FillError
<1>4. ASSUME EndLock(p) PROVE TypeOK'
  BY <1>4 DEF EndLock, LockExclusive, AcquireExclusive
<1>5. ASSUME EndRelease(p) PROVE TypeOK'
  BY <1>5 DEF EndRelease, EndUnlock, ReleaseExclusive, Free
<1>6. ASSUME EndInactive(p) PROVE TypeOK'
  BY <1>6 DEF EndInactive, EndUnlock, ReleaseExclusive
<1>7. ASSUME EndError(p) PROVE TypeOK'
  BY <1>7 DEF EndError, EndUnlock, ReleaseExclusive
<1>8. ASSUME CatchLock(p) PROVE TypeOK'
  BY <1>8 DEF CatchLock, LockExclusive, AcquireExclusive
<1>9. ASSUME CatchRelease(p) PROVE TypeOK'
  BY <1>9 DEF CatchRelease, ExitCallback, FreeFirstOf, ReleaseExclusive, Free
<1>10. ASSUME EndLockError(p) PROVE TypeOK'
  BY <1>10 DEF EndLockError
<1>. QED  BY <1>1, <1>2, <1>3, <1>4, <1>5, <1>6, <1>7, <1>8, <1>9, <1>10 DEF HookNext

LEMMA ExitType ==
    ASSUME TypeOK, NEW p \in Backends
    PROVE  ExitNext(p) => TypeOK'
<1>. USE SlotTableAssumption DEF TypeOK, BackendSteps, ExporterSteps, ExclusiveAt, WaitingAt,
         table, lock, local, Goto
<1>1. ASSUME ExitStart(p) PROVE TypeOK'
  BY <1>1 DEF ExitStart
<1>2. ASSUME ExitLock(p) PROVE TypeOK'
  BY <1>2 DEF ExitLock, LockExclusive, AcquireExclusive
<1>3. ASSUME ExitRelease(p) PROVE TypeOK'
  BY <1>3 DEF ExitRelease, ExitCallback, FreeFirstOf, ReleaseExclusive, Free
<1>4. ASSUME Connect(p) PROVE TypeOK'
  BY <1>4 DEF Connect
<1>. QED  BY <1>1, <1>2, <1>3, <1>4 DEF ExitNext

LEMMA AbortType ==
    ASSUME TypeOK, NEW p \in Backends
    PROVE  AbortNext(p) => TypeOK'
<1>. USE SlotTableAssumption DEF TypeOK, BackendSteps, ExporterSteps, ExclusiveAt, WaitingAt,
         table, lock, local, Goto
<1>1. ASSUME AbortStart(p) PROVE TypeOK'
  BY <1>1 DEF AbortStart, AcquireShared
<1>2. ASSUME AbortStep(p) PROVE TypeOK'
  <2>1. CASE backend_pid[i[p]] = p
    BY <1>2, <2>1, ZenonT(30) DEF AbortStep
  <2>2. CASE backend_pid[i[p]] # p
    <3>1. i' = [i EXCEPT ![p] = i[p] + 1] /\ i[p] < MaxTrackedQueries /\ pc' = pc
      BY <1>2, <2>2 DEF AbortStep
    <3>2. i[p] + 1 \in 0 .. MaxTrackedQueries
      BY <3>1
    <3>. QED  BY <1>2, <3>1, <3>2 DEF AbortStep
  <2>. QED  BY <2>1, <2>2
<1>3. ASSUME AbortRelease(p) PROVE TypeOK'
  <2>1. backend_pid' \in [Slots -> Backends \cup {NoPid}]
    BY <1>3 DEF AbortRelease, Free
  <2>2. readers' \in SUBSET Procs /\ i' \in [Procs -> 0 .. MaxTrackedQueries]
    BY <1>3 DEF AbortRelease, AbortReturn, ReleaseShared
  <2>3. /\ pc' \in [Procs -> BackendSteps \cup ExporterSteps]
        /\ \A q \in Backends : pc'[q] \in BackendSteps
        /\ pc'[Exporter] \in ExporterSteps
    BY <1>3 DEF AbortRelease, AbortReturn
  <2>. QED
    BY <1>3, <2>1, <2>2, <2>3 DEF AbortRelease, AbortReturn, ReleaseShared, Free
<1>4. ASSUME AbortMiss(p) PROVE TypeOK'
  BY <1>4 DEF AbortMiss, AbortReturn, ReleaseShared
<1>. QED  BY <1>1, <1>2, <1>3, <1>4 DEF AbortNext

LEMMA PollType ==
    ASSUME TypeOK, NEW p \in Backends
    PROVE  PollNext(p) => TypeOK'
<1>. USE SlotTableAssumption DEF TypeOK, BackendSteps, ExporterSteps, ExclusiveAt, WaitingAt,
         table, lock, local, Goto
<1>1. ASSUME PollStart(p) PROVE TypeOK'
  BY <1>1 DEF PollStart, AcquireShared
<1>2. ASSUME PollEnd(p) PROVE TypeOK'
  BY <1>2 DEF PollEnd, ReleaseShared
<1>. QED  BY <1>1, <1>2 DEF PollNext

LEMMA ExporterType ==
    ASSUME TypeOK, PointersInRange
    PROVE  ExporterNext => TypeOK'
<1>. USE SlotTableAssumption DEF TypeOK, BackendSteps, ExporterSteps, ExclusiveAt, WaitingAt,
         table, lock, local, Goto
<1>1. ASSUME ScrapeStart PROVE TypeOK'
  BY <1>1 DEF ScrapeStart, AcquireShared
<1>2. ASSUME CleanupStep PROVE TypeOK'
  BY <1>2, SMTT(30) DEF CleanupStep
<1>3. ASSUME CleanupRelease PROVE TypeOK'
  <2>1. backend_pid' \in [Slots -> Backends \cup {NoPid}]
    BY <1>3 DEF CleanupRelease, Free
  <2>2. i' \in [Procs -> 0 .. MaxTrackedQueries]
    BY <1>3 DEF CleanupRelease, PointersInRange
  <2>3. /\ pc' \in [Procs -> BackendSteps \cup ExporterSteps]
        /\ \A p \in Backends : pc'[p] \in BackendSteps
        /\ pc'[Exporter] \in ExporterSteps
    BY <1>3 DEF CleanupRelease
  <2>. QED  BY <1>3, <2>1, <2>2, <2>3 DEF CleanupRelease, Free
<1>4. ASSUME CleanupDone PROVE TypeOK'
  BY <1>4 DEF CleanupDone
<1>5. ASSUME ScrapeEnd PROVE TypeOK'
  BY <1>5 DEF ScrapeEnd, PollEnd, ReleaseShared
<1>6. ASSUME HandleSigterm PROVE TypeOK'
  BY <1>6 DEF HandleSigterm, ReleaseShared
<1>. QED  BY <1>1, <1>2, <1>3, <1>4, <1>5, <1>6 DEF ExporterNext

LEMMA CrashType ==
    ASSUME TypeOK, (\E p \in Procs : Die(p)) \/ Restart
    PROVE  TypeOK'
<1>1. CASE \E p \in Procs : Die(p)
  BY <1>1, SlotTableAssumption
     DEF TypeOK, Die, BackendSteps, ExporterSteps, table, lock, local, Goto
<1>2. CASE Restart
  <2>1. Init'
    BY <1>2 DEF Restart, Init
  <2>. QED  BY <2>1, InitType, PTL
<1>. QED  BY <1>1, <1>2

LEMMA TypeStep ==
    ASSUME TypeOK, PointersInRange, [Next]_vars
    PROVE  TypeOK'
<1>1. CASE UNCHANGED vars
  BY <1>1 DEF TypeOK, vars, table, lock, local
<1>2. CASE Next
  BY <1>2, LookupType, HookType, AbortType, PollType, ExitType, ExporterType, CrashType
     DEF Next, BackendNext
<1>. QED  BY <1>1, <1>2

-----------------------------------------------------------------------------
(* A step belongs to one process and leaves the others where they are.     *)
Moves(p) ==
    /\ \A q \in Procs \ {p} : pc'[q] = pc[q] /\ i'[q] = i[q]
    /\ \A q \in Backends \ {p} : be'[q] = be[q] /\ registered'[q] = registered[q]

LEMMA BackendMovesAlone ==
    ASSUME TypeOK, NEW p \in Backends
    PROVE  BackendNext(p) => Moves(p)
<1>. USE DEF TypeOK, table, lock, local, Goto, Moves
<1>1. ASSUME NEW create \in BOOLEAN, LookupStart(p, create) PROVE Moves(p)
  BY <1>1 DEF LookupStart
<1>2. ASSUME LookupStep(p) PROVE Moves(p)
  BY <1>2 DEF LookupStep
<1>3. ASSUME LookupFound(p) PROVE Moves(p)
  BY <1>3 DEF LookupFound, LookupReturn
<1>4. ASSUME LookupClaim(p) PROVE Moves(p)
  BY <1>4 DEF LookupClaim, LookupReturn
<1>5. ASSUME LookupMiss(p) PROVE Moves(p)
  BY <1>5 DEF LookupMiss, LookupReturn
<1>6. ASSUME Register(p) PROVE Moves(p)
  BY <1>6 DEF Register
<1>7. ASSUME FillDone(p) PROVE Moves(p)
  BY <1>7 DEF FillDone
<1>8. ASSUME FillError(p) PROVE Moves(p)
  BY <1>8 DEF FillError
<1>9. ASSUME EndLock(p) PROVE Moves(p)
  BY <1>9 DEF EndLock, LockExclusive
<1>10. ASSUME EndRelease(p) PROVE Moves(p)
  BY <1>10 DEF EndRelease, EndUnlock
<1>11. ASSUME EndInactive(p) PROVE Moves(p)
  BY <1>11 DEF EndInactive, EndUnlock
<1>12. ASSUME EndError(p) PROVE Moves(p)
  BY <1>12 DEF EndError, EndUnlock
<1>13. ASSUME CatchLock(p) PROVE Moves(p)
  BY <1>13 DEF CatchLock, LockExclusive
<1>14. ASSUME CatchRelease(p) PROVE Moves(p)
  BY <1>14 DEF CatchRelease, ExitCallback
<1>15. ASSUME ExitStart(p) PROVE Moves(p)
  BY <1>15 DEF ExitStart
<1>16. ASSUME ExitLock(p) PROVE Moves(p)
  BY <1>16 DEF ExitLock, LockExclusive
<1>17. ASSUME ExitRelease(p) PROVE Moves(p)
  BY <1>17 DEF ExitRelease, ExitCallback
<1>18. ASSUME Connect(p) PROVE Moves(p)
  BY <1>18 DEF Connect
<1>19. ASSUME AbortStart(p) PROVE Moves(p)
  BY <1>19 DEF AbortStart
<1>20. ASSUME AbortStep(p) PROVE Moves(p)
  BY <1>20 DEF AbortStep
<1>21. ASSUME AbortRelease(p) PROVE Moves(p)
  BY <1>21 DEF AbortRelease, AbortReturn
<1>22. ASSUME AbortMiss(p) PROVE Moves(p)
  BY <1>22 DEF AbortMiss, AbortReturn
<1>23. ASSUME PollStart(p) PROVE Moves(p)
  BY <1>23 DEF PollStart
<1>24. ASSUME PollEnd(p) PROVE Moves(p)
  BY <1>24 DEF PollEnd
<1>25. ASSUME LookupError(p) PROVE Moves(p)
  BY <1>25 DEF LookupError
<1>26. ASSUME EndLockError(p) PROVE Moves(p)
  BY <1>26 DEF EndLockError
<1>. QED
  BY <1>1, <1>2, <1>3, <1>4, <1>5, <1>6, <1>7, <1>8, <1>9,
     <1>10, <1>11, <1>12, <1>13, <1>14, <1>15, <1>16, <1>17, <1>18,
     <1>19, <1>20, <1>21, <1>22, <1>23, <1>24, <1>25, <1>26
     DEF BackendNext, LookupNext, HookNext, AbortNext, PollNext, ExitNext

LEMMA ExporterMoves == TypeOK /\ ExporterNext => Moves(Exporter)
BY SlotTableAssumption
   DEF TypeOK, table, lock, local, Goto, Moves, ExporterNext, ScrapeStart, CleanupStep,
       CleanupRelease, CleanupDone, ScrapeEnd, PollEnd, HandleSigterm

LEMMA DieMoves == ASSUME TypeOK, NEW p \in Procs, Die(p) PROVE Moves(p)
BY DEF TypeOK, table, lock, local, Goto, Moves, Die

(* Who may change the table, and how. *)
Releaser(s) ==
    \/ \E p \in Backends : pc[p] = "end" /\ be[p] = s /\ pc'[p] # pc[p]
    \/ \E p \in Backends : pc[p] \in {"catch", "exit"} /\ backend_pid[s] = p /\ pc'[p] # pc[p]
    \/ \E p \in Backends : pc[p] = "abort_release" /\ i[p] = s /\ pc'[p] # pc[p]
    \/ CleanupRelease /\ i[Exporter] = s

TableChange ==
    \/ UNCHANGED table
    \/ \E s \in Slots : Free(s) /\ Releaser(s)
    \/ \E p \in Backends : LookupClaim(p)
    \/ Restart

LEMMA BackendTable ==
    ASSUME TypeOK, PointersInRange, NEW p \in Backends, BackendNext(p)
    PROVE  TableChange
<1>. USE DEF TableChange, table
<1>1. CASE LookupNext(p)
  BY <1>1 DEF LookupNext, LookupStart, LookupStep, LookupFound, LookupMiss, LookupError
<1>2. CASE HookNext(p)
  <2>1. CASE EndRelease(p)
    BY <2>1 DEF EndRelease, EndUnlock, PointersInRange, Releaser, Goto, TypeOK
  <2>2. CASE CatchRelease(p)
    BY <2>2 DEF CatchRelease, ExitCallback, FreeFirstOf, FirstOf, Releaser, Goto, TypeOK
  <2>. QED
    BY <1>2, <2>1, <2>2
       DEF HookNext, Register, FillDone, FillError, LookupError, EndLockError, EndLock,
           EndInactive, EndError,
           EndUnlock, CatchLock, LockExclusive
<1>3. CASE AbortNext(p)
  <2>1. CASE AbortRelease(p)
    BY <2>1 DEF AbortRelease, AbortReturn, PointersInRange, Releaser, Goto, TypeOK
  <2>. QED
    BY <1>3, <2>1 DEF AbortNext, AbortStart, AbortStep, AbortMiss
<1>4. CASE PollNext(p)
  BY <1>4 DEF PollNext, PollStart, PollEnd
<1>5. CASE ExitNext(p)
  <2>1. CASE ExitRelease(p)
    BY <2>1 DEF ExitRelease, ExitCallback, FreeFirstOf, FirstOf, Releaser, Goto, TypeOK
  <2>. QED
    BY <1>5, <2>1 DEF ExitNext, ExitStart, ExitLock, LockExclusive, Connect
<1>. QED  BY <1>1, <1>2, <1>3, <1>4, <1>5 DEF BackendNext

LEMMA TableStep ==
    ASSUME TypeOK, PointersInRange, [Next]_vars
    PROVE  TableChange
<1>1. CASE ExporterNext
  <2>1. CASE CleanupRelease
    BY <2>1 DEF CleanupRelease, TableChange, Releaser, PointersInRange
  <2>. QED
    BY <1>1, <2>1
       DEF TableChange, ExporterNext, ScrapeStart, CleanupStep, CleanupDone, ScrapeEnd,
           PollEnd, HandleSigterm
<1>2. CASE \E p \in Procs : Die(p)
  BY <1>2 DEF Die, TableChange
<1>. QED
  BY <1>1, <1>2, BackendTable DEF Next, TableChange, vars

(* A pid comes into the table by its own claim only. *)
LEMMA NewOwner ==
    ASSUME TypeOK, PointersInRange, [Next]_vars,
           NEW p \in Backends, NEW s \in Slots, backend_pid'[s] = p, backend_pid[s] # p
    PROVE  LookupClaim(p) /\ s = free_slot_idx[p]
<1>1. TableChange
  BY TableStep
<1>2. ~(UNCHANGED table)
  BY DEF table
<1>3. ASSUME NEW r \in Slots, Free(r) PROVE FALSE
  BY <1>3, SlotTableAssumption DEF Free, TypeOK
<1>4. ~Restart
  BY SlotTableAssumption DEF Restart
<1>5. PICK q \in Backends : LookupClaim(q)
  BY <1>1, <1>2, <1>3, <1>4 DEF TableChange
<1>6. backend_pid' = [backend_pid EXCEPT ![free_slot_idx[q]] = q]
  BY <1>5 DEF LookupClaim
<1>. QED  BY <1>5, <1>6 DEF TypeOK

-----------------------------------------------------------------------------
LEMMA RangeStep ==
    ASSUME TypeOK, PointersInRange, [Next]_vars
    PROVE  PointersInRange'
<1>. SUFFICES ASSUME Next PROVE PointersInRange'
  BY DEF PointersInRange, vars, local
<1>1. ASSUME NEW p \in Backends, BackendNext(p) PROVE PointersInRange'
  <2>. USE DEF TypeOK, PointersInRange, Goto
  <2>1. Moves(p)
    BY <1>1, BackendMovesAlone
  <2>2. pc'[p] \in {"end_lock", "end"} => be'[p] \in Slots
    <3>1. CASE LookupNext(p)
      <4>1. ASSUME NEW s \in Slots \cup {NoSlot}, LookupReturn(p, s)
            PROVE  pc'[p] \in {"end_lock", "end"} => be'[p] \in Slots
        <5>1. be'[p] = s
          BY <4>1 DEF LookupReturn
        <5>2. pc'[p] = IF should_create[p] THEN "fill"
                       ELSE IF s # NoSlot THEN "end_lock" ELSE "idle"
          BY <4>1 DEF LookupReturn
        <5>. QED  BY <5>1, <5>2
      <4>2. CASE LookupFound(p)
        <5>1. i[p] \in Slots
          BY <4>2, SlotTableAssumption DEF LookupFound
        <5>. QED  BY <4>1, <4>2, <5>1 DEF LookupFound
      <4>3. CASE LookupClaim(p)
        BY <4>1, <4>3 DEF LookupClaim, MayClaim
      <4>4. CASE LookupMiss(p)
        BY <4>1, <4>4 DEF LookupMiss
      <4>. QED
        BY <3>1, <4>2, <4>3, <4>4 DEF LookupNext, LookupStart, LookupStep, LookupError
    <3>2. CASE HookNext(p)
      BY <3>2 DEF HookNext, Register, FillDone, FillError, LookupError, EndLockError, EndLock,
                  EndRelease, EndInactive,
                  EndError, EndUnlock, CatchLock, LockExclusive, CatchRelease, ExitCallback, local
    <3>3. CASE AbortNext(p) \/ PollNext(p)
      BY <3>3 DEF AbortNext, AbortStart, AbortStep, AbortRelease, AbortMiss, AbortReturn,
                  PollNext, PollStart, PollEnd
    <3>4. CASE ExitNext(p)
      BY <3>4 DEF ExitNext, ExitStart, ExitLock, LockExclusive, ExitRelease, ExitCallback, Connect
    <3>. QED  BY <1>1, <3>1, <3>2, <3>3, <3>4 DEF BackendNext
  <2>3. pc'[p] = "abort_release" => i'[p] \in Slots
    <3>1. CASE LookupNext(p)
      BY <3>1 DEF LookupNext, LookupStart, LookupStep, LookupFound, LookupClaim, LookupMiss,
                  LookupError, LookupReturn
    <3>2. CASE HookNext(p)
      BY <3>2 DEF HookNext, Register, FillDone, FillError, LookupError, EndLockError, EndLock,
                  EndRelease, EndInactive,
                  EndError, EndUnlock, CatchLock, LockExclusive, CatchRelease, ExitCallback, local
    <3>3. CASE AbortStep(p)
      <4>1. CASE backend_pid[i[p]] = p
        BY <3>3, <4>1, SlotTableAssumption DEF AbortStep
      <4>2. CASE backend_pid[i[p]] # p
        BY <3>3, <4>2 DEF AbortStep
      <4>. QED  BY <4>1, <4>2
    <3>4. CASE (AbortNext(p) /\ ~AbortStep(p)) \/ PollNext(p)
      BY <3>4 DEF AbortNext, AbortStart, AbortRelease, AbortMiss, AbortReturn,
                  PollNext, PollStart, PollEnd
    <3>5. CASE ExitNext(p)
      BY <3>5 DEF ExitNext, ExitStart, ExitLock, LockExclusive, ExitRelease, ExitCallback, Connect
    <3>. QED  BY <1>1, <3>1, <3>2, <3>3, <3>4, <3>5 DEF BackendNext
  <2>. QED  BY <2>1, <2>2, <2>3, SlotTableAssumption DEF Moves
<1>2. ASSUME ExporterNext PROVE PointersInRange'
  BY <1>2, ExporterMoves, SlotTableAssumption
     DEF PointersInRange, TypeOK, Moves, Goto, ExporterNext, ScrapeStart, CleanupStep,
         CleanupRelease, CleanupDone, ScrapeEnd, PollEnd, HandleSigterm
<1>3. ASSUME NEW p \in Procs, Die(p) PROVE PointersInRange'
  BY <1>3, DieMoves DEF PointersInRange, TypeOK, Moves, Goto, Die, local
<1>4. ASSUME Restart PROVE PointersInRange'
  BY <1>4 DEF PointersInRange, Restart
<1>. QED  BY <1>1, <1>2, <1>3, <1>4 DEF Next

(* Every variable keeps its type, for any set of backends and entries.     *)
THEOREM TypeCorrect == Spec => []TypeOK
<1>1. Init => PointersInRange
  BY SlotTableAssumption DEF Init, PointersInRange
<1>2. TypeOK /\ PointersInRange /\ [Next]_vars => TypeOK' /\ PointersInRange'
  BY TypeStep, RangeStep
<1>. QED  BY <1>1, <1>2, InitType, PTL DEF Spec

-----------------------------------------------------------------------------
LEMMA ScanStep ==
    ASSUME TypeOK, PointersInRange, ScanFoundNone, [Next]_vars
    PROVE  ScanFoundNone'
<1>. SUFFICES ASSUME NEW p \in Backends, pc'[p] = "lookup"
              PROVE  registered'[p] /\ \A s \in Slots : s < i'[p] => backend_pid'[s] # p
  BY DEF ScanFoundNone
<1>1. ~Restart
  BY DEF Restart
<1>2. ~LookupClaim(p)
  BY DEF LookupClaim, LookupReturn, Goto, TypeOK
<1>3. ASSUME NEW s \in Slots, backend_pid'[s] = p PROVE backend_pid[s] = p
  BY <1>2, <1>3, NewOwner
<1>4. CASE BackendNext(p)
  <2>1. ASSUME NEW create \in BOOLEAN, LookupStart(p, create)
        PROVE  registered'[p] /\ i'[p] = 0
    BY <2>1 DEF LookupStart, TypeOK
  <2>2. CASE LookupStep(p)
    <3>1. i'[p] = i[p] + 1 /\ i[p] \in Nat /\ backend_pid[i[p]] # p
      BY <2>2 DEF LookupStep, TypeOK
    <3>2. registered'[p] /\ \A s \in Slots : s < i[p] => backend_pid[s] # p
      BY <2>2 DEF LookupStep, ScanFoundNone
    <3>3. ASSUME NEW s \in Slots, s < i[p] + 1 PROVE s < i[p] \/ s = i[p]
      BY <3>1, <3>3, SlotTableAssumption
    <3>. QED  BY <1>3, <3>1, <3>2, <3>3
  <2>3. CASE ~(\E create \in BOOLEAN : LookupStart(p, create)) /\ ~LookupStep(p)
    <3>1. pc'[p] # "lookup"
      BY <1>4, <2>3
         DEF TypeOK, Goto, BackendNext, LookupNext, LookupFound, LookupClaim, LookupMiss,
             LookupReturn, HookNext, Register, FillDone, FillError, LookupError, EndLockError,
             EndLock, EndRelease,
             EndInactive, EndError, EndUnlock, CatchLock, LockExclusive, CatchRelease,
             ExitCallback, AbortNext, AbortStart, AbortStep, AbortRelease, AbortMiss,
             AbortReturn, PollNext, PollStart, PollEnd, ExitNext, ExitStart, ExitLock,
             ExitRelease, Connect
    <3>. QED  BY <3>1
  <2>4. (\A s \in Slots : ~(s < 0))
    BY SlotTableAssumption
  <2>. QED  BY <2>1, <2>2, <2>3, <2>4
<1>5. CASE ~BackendNext(p)
  <2>1. pc'[p] = pc[p] /\ i'[p] = i[p] /\ registered'[p] = registered[p]
    <3>1. ASSUME NEW q \in Procs, q # p, Moves(q)
          PROVE  pc'[p] = pc[p] /\ i'[p] = i[p] /\ registered'[p] = registered[p]
      BY <3>1 DEF Moves
    <3>2. ~Die(p)
      BY DEF Die, Goto, TypeOK
    <3>. QED
      BY <1>1, <1>5, <3>1, <3>2, BackendMovesAlone, ExporterMoves, DieMoves, SlotTableAssumption
         DEF Next, vars, local
  <2>. QED  BY <1>3, <2>1 DEF ScanFoundNone
<1>. QED  BY <1>4, <1>5

LEMMA OneSlotStep ==
    ASSUME TypeOK, PointersInRange, ScanFoundNone, OneSlotPerBackend, [Next]_vars
    PROVE  OneSlotPerBackend'
<1>. SUFFICES ASSUME NEW s \in Slots, NEW t \in Slots,
                     backend_pid'[s] # NoPid, backend_pid'[s] = backend_pid'[t]
              PROVE  s = t
  BY DEF OneSlotPerBackend, Active
<1>. DEFINE p == backend_pid'[s]
<1>1. p \in Backends
  BY TypeStep, ZenonT(30) DEF TypeOK
<1>2. ASSUME LookupClaim(p) PROVE \A r \in Slots : backend_pid[r] # p
  BY <1>1, <1>2, SlotTableAssumption DEF ScanFoundNone, LookupClaim
<1>3. CASE LookupClaim(p)
  BY <1>1, <1>2, <1>3, NewOwner
<1>4. CASE ~LookupClaim(p)
  <2>1. backend_pid[s] = p /\ backend_pid[t] = p
    BY <1>1, <1>4, NewOwner
  <2>. QED  BY <1>1, <2>1, SlotTableAssumption DEF OneSlotPerBackend, Active
<1>. QED  BY <1>3, <1>4

LEMMA LookupRegistered ==
    ASSUME TypeOK, ScanFoundNone, NEW p \in Backends, LookupClaim(p)
    PROVE  registered'[p] /\ pc'[p] # "gone"
BY DEF TypeOK, ScanFoundNone, LookupClaim, LookupReturn, Goto

LEMMA UnregisteredStep ==
    ASSUME TypeOK, PointersInRange, ScanFoundNone, UnregisteredOwnsNothing,
           OneSlotPerBackend, GoneOwnsNothing, [Next]_vars
    PROVE  UnregisteredOwnsNothing' /\ GoneOwnsNothing'
<1>. SUFFICES ASSUME NEW p \in Backends, NEW s \in Slots, backend_pid'[s] = p
              PROVE  registered'[p] /\ pc'[p] # "gone"
  BY SlotTableAssumption, TypeStep DEF UnregisteredOwnsNothing, GoneOwnsNothing, TypeOK
<1>1. CASE LookupClaim(p)
  BY <1>1, LookupRegistered
<1>2. CASE ~LookupClaim(p)
  <2>1. backend_pid[s] = p
    BY <1>2, NewOwner
  <2>2. registered[p] /\ pc[p] # "gone"
    BY <2>1 DEF UnregisteredOwnsNothing, GoneOwnsNothing
  <2>3. ~Restart
    BY SlotTableAssumption DEF Restart
  <2>4. ASSUME NEW q \in Procs, q # p, Moves(q)
        PROVE  registered'[p] = registered[p] /\ pc'[p] = pc[p]
    BY <2>4 DEF Moves
  <2>5. ~ExitRelease(p)
    <3>1. ASSUME FreeFirstOf(p) PROVE FALSE
      <4>1. PICK r \in Slots : backend_pid[r] = p /\ Free(r)
        BY <2>1, <3>1 DEF FreeFirstOf, FirstOf
      <4>2. r = s
        BY <2>1, <4>1, SlotTableAssumption DEF OneSlotPerBackend, Active
      <4>. QED  BY <4>1, <4>2, SlotTableAssumption DEF Free, TypeOK
    <3>. QED  BY <3>1 DEF ExitRelease, ExitCallback
  <2>6. CASE BackendNext(p)
    BY <2>2, <2>5, <2>6
       DEF TypeOK, Goto, BackendNext, LookupNext, LookupStart, LookupStep, LookupFound,
           LookupClaim, LookupMiss, LookupReturn, HookNext, Register, FillDone, FillError,
           LookupError, EndLockError, EndLock, EndRelease, EndInactive, EndError, EndUnlock,
           CatchLock, LockExclusive,
           CatchRelease, ExitCallback, AbortNext, AbortStart, AbortStep, AbortRelease,
           AbortMiss, AbortReturn, PollNext, PollStart, PollEnd, ExitNext, ExitStart,
           ExitLock, Connect
  <2>7. CASE Die(p)
    BY <2>2, <2>7 DEF Die, Goto, TypeOK
  <2>8. CASE ~BackendNext(p) /\ ~Die(p)
    BY <2>2, <2>3, <2>4, <2>8, BackendMovesAlone, ExporterMoves, DieMoves, SlotTableAssumption
       DEF Next, vars
  <2>. QED  BY <2>6, <2>7, <2>8
<1>. QED  BY <1>1, <1>2

-----------------------------------------------------------------------------
(* An entry that is not overwritten and not wiped is let go by its owner.  *)
LEMMA OwnerKeeps ==
    ASSUME TypeOK, PointersInRange, EntryIsOwned, [Next]_vars, ~overwritten', ~Restart,
           NEW p \in Backends, NEW s \in Slots, backend_pid[s] = p, backend_pid'[s] # p
    PROVE  \/ pc[p] \in ReleasesAt /\ pc'[p] # pc[p]
           \/ ~Exists(p) /\ CleanupRelease
<1>1. TableChange
  BY TableStep
<1>2. ~(UNCHANGED table)
  BY DEF table
<1>3. ~overwritten
  BY <1>1 DEF TableChange, table, Free, LookupClaim
<1>4. ASSUME NEW q \in Backends, LookupClaim(q) PROVE FALSE
  <2>1. ~Active(free_slot_idx[q]) /\ backend_pid' = [backend_pid EXCEPT ![free_slot_idx[q]] = q]
    BY <1>4 DEF LookupClaim
  <2>. QED  BY <2>1, SlotTableAssumption DEF Active, TypeOK
<1>5. PICK r \in Slots : Free(r) /\ Releaser(r)
  BY <1>1, <1>2, <1>4 DEF TableChange
<1>6. r = s
  BY <1>5 DEF Free, TypeOK
<1>7. CASE \E q \in Backends : pc[q] = "end" /\ be[q] = s /\ pc'[q] # pc[q]
  BY <1>3, <1>7 DEF EntryIsOwned, FillsOwnEntry, HoldsEntry, ReleasesAt
<1>8. CASE \E q \in Backends : pc[q] \in {"catch", "exit"} /\ backend_pid[s] = q /\ pc'[q] # pc[q]
  BY <1>8 DEF ReleasesAt
<1>9. CASE \E q \in Backends : pc[q] = "abort_release" /\ i[q] = s /\ pc'[q] # pc[q]
  BY <1>3, <1>9 DEF EntryIsOwned, AbortReleasesOwnEntry, ReleasesAt
<1>10. CASE CleanupRelease /\ i[Exporter] = s
  BY <1>3, <1>10 DEF CleanupRelease, EntryIsOwned, SweepReleasesOrphan, IsOrphan
<1>. QED  BY <1>5, <1>6, <1>7, <1>8, <1>9, <1>10 DEF Releaser

LEMMA OwnedStep ==
    ASSUME TypeOK, PointersInRange, GoneOwnsNothing, EntryIsOwned, [Next]_vars
    PROVE  EntryIsOwned'
<1>. SUFFICES ASSUME ~overwritten'
              PROVE  FillsOwnEntry' /\ AbortReleasesOwnEntry' /\ SweepReleasesOrphan'
  BY DEF EntryIsOwned
<1>1. CASE Restart
  BY <1>1 DEF Restart, FillsOwnEntry, HoldsEntry, AbortReleasesOwnEntry, SweepReleasesOrphan
<1>2. CASE ~Restart
  <2>1. ~overwritten
    BY <1>2, TableStep DEF TableChange, table, Free, LookupClaim
  <2>2. ASSUME NEW p \in Backends, NEW q \in Procs, q # p, Moves(q)
        PROVE  pc'[p] = pc[p] /\ be'[p] = be[p] /\ i'[p] = i[p]
    BY <2>2 DEF Moves
  <2>3. ASSUME NEW p \in Backends, ~BackendNext(p), ~Die(p)
        PROVE  pc'[p] = pc[p] /\ be'[p] = be[p] /\ i'[p] = i[p]
    BY <1>2, <2>2, <2>3, BackendMovesAlone, ExporterMoves, DieMoves, SlotTableAssumption
       DEF Next, vars, local
  <2>4. ASSUME NEW p \in Backends, NEW s \in Slots, backend_pid[s] = p, pc'[p] = pc[p], Exists(p)
        PROVE  backend_pid'[s] = p
    BY <1>2, <2>4, OwnerKeeps
  <2>5. FillsOwnEntry'
    <3>. SUFFICES ASSUME NEW p \in Backends, HoldsEntry(p)' PROVE backend_pid'[be'[p]] = p
      BY DEF FillsOwnEntry
    <3>1. CASE LookupFound(p)
      BY <3>1 DEF LookupFound, LookupReturn, TypeOK, table
    <3>2. CASE LookupClaim(p)
      BY <3>2 DEF LookupClaim, LookupReturn, MayClaim, TypeOK
    <3>3. CASE BackendNext(p) /\ ~LookupFound(p) /\ ~LookupClaim(p)
      <4>1. /\ HoldsEntry(p) /\ be'[p] = be[p]
            /\ \/ pc'[p] = pc[p]
               \/ EndLock(p)
        BY <3>3
           DEF TypeOK, HoldsEntry, Goto, BackendNext, LookupNext, LookupStart, LookupStep,
               LookupMiss, LookupReturn, HookNext, Register, FillDone, FillError, LookupError,
               EndLockError, EndLock,
               EndRelease, EndInactive, EndError, EndUnlock, CatchLock, LockExclusive,
               CatchRelease, ExitCallback, AbortNext, AbortStart, AbortStep, AbortRelease,
               AbortMiss, AbortReturn, PollNext, PollStart, PollEnd, ExitNext, ExitStart,
               ExitLock, ExitRelease, Connect, local
      <4>2. backend_pid[be[p]] = p /\ be[p] \in Slots
        BY <2>1, <4>1 DEF EntryIsOwned, FillsOwnEntry, HoldsEntry, TypeOK, PointersInRange
      <4>3. CASE EndLock(p)
        BY <4>1, <4>2, <4>3 DEF EndLock, LockExclusive, table
      <4>4. CASE pc'[p] = pc[p]
        BY <2>4, <4>1, <4>2, <4>4 DEF Exists, HoldsEntry
      <4>. QED  BY <4>1, <4>3, <4>4
    <3>4. CASE Die(p)
      BY <3>4 DEF Die, Goto, HoldsEntry, TypeOK
    <3>5. CASE ~BackendNext(p) /\ ~Die(p)
      <4>1. pc'[p] = pc[p] /\ be'[p] = be[p]
        BY <2>3, <3>5
      <4>2. HoldsEntry(p) /\ backend_pid[be[p]] = p /\ be[p] \in Slots
        BY <2>1, <4>1 DEF EntryIsOwned, FillsOwnEntry, HoldsEntry, TypeOK, PointersInRange
      <4>. QED  BY <2>4, <4>1, <4>2 DEF Exists, HoldsEntry
    <3>. QED  BY <3>1, <3>2, <3>3, <3>4, <3>5
  <2>6. AbortReleasesOwnEntry'
    <3>. SUFFICES ASSUME NEW p \in Backends,
    pc'[p] = "abort_release" PROVE backend_pid'[i'[p]] = p
      BY DEF AbortReleasesOwnEntry
    <3>1. CASE BackendNext(p)
      <4>1. AbortStep(p)
        BY <3>1
           DEF TypeOK, Goto, BackendNext, LookupNext, LookupStart, LookupStep, LookupFound,
               LookupClaim, LookupMiss, LookupReturn, HookNext, Register, FillDone, FillError,
               LookupError, EndLockError, EndLock, EndRelease, EndInactive, EndError, EndUnlock,
               CatchLock, LockExclusive,
               CatchRelease, ExitCallback, AbortNext, AbortStart, AbortRelease,
               AbortMiss, AbortReturn, PollNext, PollStart, PollEnd, ExitNext, ExitStart,
               ExitLock, ExitRelease, Connect
      <4>. QED  BY <4>1 DEF AbortStep, TypeOK, table
    <3>2. CASE Die(p)
      BY <3>2 DEF Die, Goto, TypeOK
    <3>3. CASE ~BackendNext(p) /\ ~Die(p)
      <4>1. pc'[p] = pc[p] /\ i'[p] = i[p]
        BY <2>3, <3>3
      <4>2. backend_pid[i[p]] = p /\ i[p] \in Slots
        BY <2>1, <4>1 DEF EntryIsOwned, AbortReleasesOwnEntry, PointersInRange
      <4>. QED  BY <2>4, <4>1, <4>2 DEF Exists
    <3>. QED  BY <3>1, <3>2, <3>3
  <2>7. SweepReleasesOrphan'
    <3>. SUFFICES ASSUME pc'[Exporter] = "orphan"
                  PROVE  IsOrphan(i[Exporter])' /\ i'[Exporter] = i[Exporter]
      BY DEF SweepReleasesOrphan, IsOrphan, Active, Exists
    <3>1. CASE ExporterNext
      BY <3>1, SlotTableAssumption
         DEF TypeOK, ExporterNext, ScrapeStart, CleanupStep, CleanupRelease, CleanupDone,
             ScrapeEnd, PollEnd, HandleSigterm, Goto, IsOrphan, Active, Exists, table
    <3>2. CASE ~ExporterNext
      <4>1. ASSUME NEW q \in Procs, q # Exporter, Moves(q)
            PROVE  pc'[Exporter] = pc[Exporter] /\ i'[Exporter] = i[Exporter]
        BY <4>1 DEF Moves
      <4>2. ~Die(Exporter)
        BY DEF Die, Goto, TypeOK
      <4>3. pc'[Exporter] = pc[Exporter] /\ i'[Exporter] = i[Exporter]
        BY <1>2, <3>2, <4>1, <4>2, BackendMovesAlone, DieMoves, SlotTableAssumption DEF Next,
               vars, local
      <4>. DEFINE s == i[Exporter]
                  q == backend_pid[s]
      <4>4. s \in Slots /\ q \in Backends /\ ~Exists(q)
        BY <2>1, <4>3 DEF EntryIsOwned, SweepReleasesOrphan, PointersInRange, IsOrphan, Active,
                          TypeOK
      <4>5. pc[q] = "dead"
        BY <4>4 DEF GoneOwnsNothing, Exists
      <4>6. ~BackendNext(q) /\ ~Die(q)
        BY <4>5
           DEF BackendNext, LookupNext, LookupStart, LookupStep, LookupFound,
               LookupClaim, LookupMiss, HookNext, Register, FillDone, FillError,
               LookupError, EndLockError, EndLock, EndRelease, EndInactive, EndError, EndUnlock,
               CatchLock, LockExclusive,
               CatchRelease, ExitCallback, AbortNext, AbortStart, AbortStep, AbortRelease,
               AbortMiss, PollNext, PollStart, PollEnd, ExitNext, ExitStart,
               ExitLock, ExitRelease, Connect, Die, Exists
      <4>7. pc'[q] = "dead"
        BY <2>3, <4>4, <4>5, <4>6
      <4>8. CASE backend_pid'[s] = q
        BY <4>3, <4>4, <4>7, <4>8, SlotTableAssumption DEF IsOrphan, Active, Exists
      <4>9. CASE backend_pid'[s] # q
        <5>1. ~CleanupRelease
          BY <3>2 DEF ExporterNext
        <5>2. ASSUME NEW r \in Slots, Free(r), Releaser(r) PROVE FALSE
          <6>1. r = s
            BY <4>4, <4>9, <5>2 DEF Free, TypeOK
          <6>. QED
            BY <2>1, <4>5, <5>1, <5>2, <6>1
               DEF Releaser, EntryIsOwned, FillsOwnEntry, HoldsEntry, AbortReleasesOwnEntry
        <5>3. ASSUME NEW r \in Backends, LookupClaim(r) PROVE FALSE
          <6>1. /\ ~Active(free_slot_idx[r])
                /\ backend_pid' = [backend_pid EXCEPT ![free_slot_idx[r]] = r]
            BY <5>3 DEF LookupClaim
          <6>. QED  BY <4>4, <4>9, <6>1, SlotTableAssumption DEF Active, TypeOK
        <5>. QED  BY <1>2, <4>9, <5>2, <5>3, TableStep DEF TableChange, table
      <4>. QED  BY <4>8, <4>9
    <3>. QED  BY <3>1, <3>2
  <2>. QED  BY <2>5, <2>6, <2>7
<1>. QED  BY <1>1, <1>2

-----------------------------------------------------------------------------
(* The invariant the safety properties follow from.  LockIsHeld is left    *)
(* out: that claims and releases exclude each other plays no part here,    *)
(* since most of them only hold the lock in LW_SHARED.                     *)
OwnershipInv ==
    /\ TypeOK
    /\ PointersInRange
    /\ ScanFoundNone
    /\ UnregisteredOwnsNothing
    /\ OneSlotPerBackend
    /\ GoneOwnsNothing
    /\ EntryIsOwned

LEMMA InitOwnership == Init => OwnershipInv
BY InitType, SlotTableAssumption
   DEF Init, OwnershipInv, PointersInRange, ScanFoundNone, UnregisteredOwnsNothing,
       OneSlotPerBackend, GoneOwnsNothing, EntryIsOwned, FillsOwnEntry, HoldsEntry,
       AbortReleasesOwnEntry, SweepReleasesOrphan, Active

LEMMA OwnershipStep == OwnershipInv /\ [Next]_vars => OwnershipInv'
BY TypeStep, RangeStep, ScanStep, UnregisteredStep, OneSlotStep, OwnedStep DEF OwnershipInv

LEMMA Ownership == Spec => []OwnershipInv
BY InitOwnership, OwnershipStep, PTL DEF Spec

(* A backend never owns two entries. *)
THEOREM OneSlotPerBackendHolds == Spec => []OneSlotPerBackend
<1>1. OwnershipInv => OneSlotPerBackend
  BY DEF OwnershipInv
<1>. QED  BY <1>1, Ownership, PTL

(* A process that exited left no entry behind. *)
THEOREM GoneOwnsNothingHolds == Spec => []GoneOwnsNothing
<1>1. OwnershipInv => GoneOwnsNothing
  BY DEF OwnershipInv
<1>. QED  BY <1>1, Ownership, PTL

(* Until a claim overwrites another, a hook works on its own entry. *)
THEOREM EntryIsOwnedHolds == Spec => []EntryIsOwned
<1>1. OwnershipInv => EntryIsOwned
  BY DEF OwnershipInv
<1>. QED  BY <1>1, Ownership, PTL

(* Until a claim overwrites another, only its owner takes an entry away    *)
(* from a live backend.                                                    *)
THEOREM OnlyOwnerReleasesHolds == Spec => OnlyOwnerReleases
<1>1. OwnershipInv /\ [Next]_vars => OnlyOwnerReleasesStep
  BY OwnerKeeps DEF OwnershipInv, OnlyOwnerReleasesStep, Loses
<1>2. OwnershipInv /\ [Next]_vars => [OnlyOwnerReleasesStep]_vars
  BY <1>1
<1>. QED  BY <1>2, Ownership, PTL DEF Spec, OnlyOwnerReleases

-----------------------------------------------------------------------------
(* The lock. *)
LEMMA LockStep ==
    ASSUME TypeOK, PointersInRange, LockIsHeld, [Next]_vars
    PROVE  LockIsHeld'
<1>. USE SlotTableAssumption DEF TypeOK, LockIsHeld, ExclusiveAt, SharedAt, Goto
<1>1. ASSUME NEW p \in Backends, BackendNext(p) PROVE LockIsHeld'
  <2>. USE DEF AcquireShared, ReleaseShared, AcquireExclusive, ReleaseExclusive, lock
  <2>1. ASSUME NEW create \in BOOLEAN, LookupStart(p, create) PROVE LockIsHeld'
    BY <2>1 DEF LookupStart
  <2>2. CASE LookupStep(p)
    BY <2>2 DEF LookupStep
  <2>3. CASE LookupFound(p) \/ LookupClaim(p) \/ LookupMiss(p)
    <3>1. /\ readers' = readers \ {p} /\ writer' = writer
          /\ \E step \in {"fill", "end_lock", "idle"} : pc' = [pc EXCEPT ![p] = step]
      BY <2>3 DEF LookupFound, LookupClaim, LookupMiss, LookupReturn
    <3>. QED  BY <3>1
  <2>4. CASE Register(p) \/ FillDone(p) \/ FillError(p) \/ EndLockError(p)
    BY <2>4 DEF Register, FillDone, FillError, EndLockError
  <2>12. CASE LookupError(p)
    <3>1. CASE should_create[p]
      BY <2>12, <3>1 DEF LookupError
    <3>2. CASE ~should_create[p]
      BY <2>12, <3>2 DEF LookupError
    <3>. QED  BY <3>1, <3>2
  <2>5. CASE EndLock(p) \/ CatchLock(p) \/ ExitLock(p)
    BY <2>5 DEF EndLock, CatchLock, ExitLock, LockExclusive, WaitingAt
  <2>6. CASE EndRelease(p) \/ EndInactive(p) \/ EndError(p)
    BY <2>6, ZenonT(30) DEF EndRelease, EndInactive, EndError, EndUnlock
  <2>7. CASE CatchRelease(p) \/ ExitRelease(p)
    BY <2>7, ZenonT(30) DEF CatchRelease, ExitRelease, ExitCallback
  <2>8. CASE AbortStart(p) \/ AbortStep(p)
    BY <2>8 DEF AbortStart, AbortStep
  <2>9. CASE AbortRelease(p) \/ AbortMiss(p)
    BY <2>9 DEF AbortRelease, AbortMiss, AbortReturn
  <2>10. CASE PollStart(p) \/ PollEnd(p)
    BY <2>10 DEF PollStart, PollEnd
  <2>11. CASE ExitStart(p) \/ Connect(p)
    BY <2>11 DEF ExitStart, Connect
  <2>. QED
    BY <1>1, <2>1, <2>2, <2>3, <2>4, <2>5, <2>6, <2>7, <2>8, <2>9, <2>10, <2>11, <2>12
       DEF BackendNext, LookupNext, HookNext, AbortNext, PollNext, ExitNext
<1>2. ASSUME ExporterNext PROVE LockIsHeld'
  BY <1>2
     DEF ExporterNext, ScrapeStart, CleanupStep, CleanupRelease, CleanupDone, ScrapeEnd,
         PollEnd, HandleSigterm, AcquireShared, ReleaseShared, lock
<1>3. ASSUME NEW p \in Procs, Die(p) PROVE LockIsHeld'
  BY <1>3 DEF Die, lock
<1>4. ASSUME Restart PROVE LockIsHeld'
  BY <1>4 DEF Restart
<1>5. CASE UNCHANGED vars
  BY <1>5 DEF vars, lock
<1>. QED  BY <1>1, <1>2, <1>3, <1>4, <1>5 DEF Next

(* Whoever collects and releases under LW_EXCLUSIVE does so alone. *)
THEOREM ExclusiveIsAloneHolds == Spec => []ExclusiveIsAlone
<1>1. Init => LockIsHeld
  BY SlotTableAssumption DEF Init, LockIsHeld, SharedAt, ExclusiveAt
<1>2. OwnershipInv /\ LockIsHeld /\ [Next]_vars => LockIsHeld'
  BY LockStep DEF OwnershipInv
<1>3. LockIsHeld /\ TypeOK => ExclusiveIsAlone
  BY SlotTableAssumption
     DEF LockIsHeld, ExclusiveIsAlone, TypeOK, ExporterSteps, ExclusiveAt, SharedAt
<1>4. OwnershipInv => TypeOK
  BY DEF OwnershipInv
<1>. QED  BY <1>1, <1>2, <1>3, <1>4, Ownership, PTL DEF Spec
=============================================================================
