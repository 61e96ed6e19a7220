---------------------------- MODULE QueryHooksProofs ----------------------------
(***************************************************************************)
(* Proofs about QueryHooks, for any backends, queries, entries and events. *)
(* Every step of the hooks is a step of SlotTable or leaves the table      *)
(* alone, so what SlotTableProofs shows of the table holds here too; what  *)
(* an entry and CURRENT_QUERY_DESC say is added to it.                     *)
(***************************************************************************)
EXTENDS QueryHooks, SlotTableProofs

USE DEF Procs, Slots, NoSlot

(* The steps of the hooks one by one, as the proofs below go through them. *)
LEMMA StartIsTableStep ==
    ASSUME NEW p \in Backends, StartNext(p) \/ EndNext(p) PROVE [Next]_vars
<1>1. CASE StartNext(p)
  BY <1>1
  DEF StartNext, StartHook, InitializeState, InitializeFails, StartLookup, Lookup,
      FillTopology, FillMeta, StartDone, StartExhausted, StartCatchLock, StartCatch,
      Next, BackendNext, LookupNext, HookNext, ExitNext
<1>2. CASE EndNext(p)
  BY <1>2
  DEF EndNext, EndHook, EndLookup, EndHookLock, EndCollect, EndDone,
      Next, BackendNext, LookupNext, HookNext
<1>. QED  BY <1>1, <1>2

LEMMA OtherIsTableStep ==
    ASSUME NEW p \in Backends,
           HookAbortNext(p) \/ SignalNext(p) \/ LeaveNext(p) \/ EventNext(p)
    PROVE  [Next]_vars
<1>1. CASE HookAbortNext(p)
  BY <1>1
  DEF HookAbortNext, AbortTransaction, query_cleanup_callback, AbortScan,
      Next, BackendNext, AbortNext
<1>2. CASE SignalNext(p)
  BY <1>2
  DEF SignalNext, Poll, RequestMetrics, HandlerScan, HandlerCollect, Next, BackendNext
<1>3. CASE LeaveNext(p)
  BY <1>3
  DEF LeaveNext, ExitBackend, BackendGone, NewBackend, Next, BackendNext, ExitNext
<1>4. CASE EventNext(p)
  BY <1>4
  DEF EventNext, StartError, EndFails, AbortSubTransaction, Reload, HandlerFails,
      HandlerFailsStart, HandlerFailsEnd, HandlerFailsQuery, Next, BackendNext, HookNext,
      LookupNext, PollNext
<1>. QED  BY <1>1, <1>2, <1>3, <1>4

LEMMA TableStepOfHooks == [HooksNext]_allVars => [Next]_vars
BY StartIsTableStep, OtherIsTableStep DEF HooksNext, allVars

(* The hooks are processes of SlotTable: no order of starts, ends, aborts, *)
(* signals and errors does to the table what SlotTable does not allow.     *)
THEOREM HooksFollowSlotTable == HooksSpec => Spec
<1>1. HooksInit => Init
  BY DEF HooksInit
<1>. QED  BY <1>1, TableStepOfHooks, PTL DEF HooksSpec, Spec

COROLLARY HooksOwnership == HooksSpec => []OwnershipInv
BY HooksFollowSlotTable, Ownership, PTL

-----------------------------------------------------------------------------
(* Where a backend is in a hook and where it is in the table go together.  *)
LeavingAt == {"catch_lock", "catch", "exit_lock", "exit"}
PlaceOf(p) ==
    /\ hook[p] \in {"end", "abort"} => pc[p] = "idle"
    /\ hook[p] = "start" => pc[p] \in {"idle", "catch_lock", "catch"}
    /\ hook[p] = "walk" => pc[p] \in {"lookup", "fill"} \cup LeavingAt
    /\ hook[p] \in {"meta", "set"} => pc[p] \in {"fill"} \cup LeavingAt
    /\ hook[p] = "ending" => pc[p] \in {"lookup", "end_lock", "end", "idle"}
    /\ hook[p] = "none" => pc[p] \in {"idle", "abort", "abort_release", "poll",
                                      "exit_lock", "exit", "gone"}
    /\ pc[p] = "lookup" => (should_create[p] <=> hook[p] = "walk")
    /\ pc[p] = "fill" /\ hook[p] # "walk" => be[p] # NoSlot
    /\ hook[p] \in Filling => initialized[p]
    /\ hook[p] \notin {"none", "abort"} => cur[p] \in open[p]
    /\ initialized[p] => registered[p]
    /\ handling[p] # NoSlot => pc[p] # "gone" /\ CURRENT_QUERY_DESC[p] # NoQuery

Placed == \A p \in Backends : PlaceOf(p)

(* A type step of the hooks, given that of the table.                      *)
LEMMA ContentWritten ==
    ASSUME HooksTypeOK, NEW s \in Slots, NEW w \in Written
    PROVE  /\ [content EXCEPT ![s].values = w] \in [Slots -> Contents]
           /\ [content EXCEPT ![s].meta = w] \in [Slots -> Contents]
           /\ \A d \in Queries \cup {NoQuery} :
                 [content EXCEPT ![s].topology = w, ![s].values = NoQuery, ![s].followed = d]
                    \in [Slots -> Contents]
<1>1. content[s] \in Contents /\ NoQuery \in Written
  BY DEF HooksTypeOK, Written
<1>2. /\ [content[s] EXCEPT !.values = w] \in Contents
      /\ [content[s] EXCEPT !.meta = w] \in Contents
      /\ \A d \in Queries \cup {NoQuery} :
            [content[s] EXCEPT !.topology = w, !.values = NoQuery, !.followed = d] \in Contents
  BY <1>1 DEF Contents
<1>. QED  BY <1>2 DEF HooksTypeOK

LEMMA StartTyped ==
    ASSUME HooksTypeOK, TypeOK', Placed, NEW p \in Backends, StartNext(p), UNCHANGED raised
    PROVE  HooksTypeOK'
<1>. USE DEF HooksTypeOK, setup, HookGoto, LeaveHook, HookSteps, pwh_set_current_query_desc
<1>1. ASSUME NEW q \in Queries, StartHook(p, q) PROVE HooksTypeOK'
  <2>1. CASE enabled[p] /\ q \in Tracked
    BY <1>1, <2>1, ZenonT(30) DEF StartHook
  <2>2. CASE ~(enabled[p] /\ q \in Tracked)
    BY <1>1, <2>2 DEF StartHook
  <2>. QED  BY <2>1, <2>2
<1>2. CASE InitializeState(p)
  <2>1. exit_callbacks' \in [Backends -> 0 .. MaxExitCallbacks]
    BY <1>2, QueryHooksAssumption DEF InitializeState
  <2>. QED  BY <1>2, <2>1 DEF InitializeState
<1>7. CASE InitializeFails(p)
  BY <1>7 DEF InitializeFails
<1>3. CASE StartLookup(p) \/ Lookup(p) \/ StartCatchLock(p)
  BY <1>3 DEF StartLookup, Lookup, StartCatchLock, hookVars
<1>4. CASE FillTopology(p) \/ FillMeta(p)
  <2>1. be[p] \in Slots /\ <<p, cur[p]>> \in Written
    BY <1>4 DEF FillTopology, FillMeta, Placed, PlaceOf, TypeOK, Written
  <2>2. content' \in [Slots -> Contents]
    <3>1. CASE FillTopology(p)
      BY <2>1, <3>1, ContentWritten DEF FillTopology
    <3>2. CASE FillMeta(p)
      BY <2>1, <3>2, ContentWritten DEF FillMeta
    <3>. QED  BY <1>4, <3>1, <3>2
  <2>. QED  BY <1>4, <2>2 DEF FillTopology, FillMeta
<1>5. CASE StartDone(p)
  <2>1. cur[p] \in Queries
    BY <1>5 DEF StartDone, Placed, PlaceOf
  <2>. QED  BY <1>5, <2>1 DEF StartDone
<1>6. CASE StartExhausted(p) \/ StartCatch(p)
  BY <1>6 DEF StartExhausted, StartCatch
<1>. QED  BY <1>1, <1>2, <1>3, <1>4, <1>5, <1>6, <1>7 DEF StartNext

LEMMA EndTyped ==
    ASSUME HooksTypeOK, TypeOK', PointersInRange, Placed, NEW p \in Backends, EndNext(p),
           UNCHANGED raised
    PROVE  HooksTypeOK'
<1>. USE DEF HooksTypeOK, setup, HookGoto, LeaveHook, HookSteps, Close, pwh_set_current_query_desc
<1>1. ASSUME NEW q \in Queries, EndHook(p, q) PROVE HooksTypeOK'
  <2>1. CASE enabled[p] /\ initialized[p]
    BY <1>1, <2>1 DEF EndHook
  <2>2. CASE ~(enabled[p] /\ initialized[p])
    <3>1. /\ open' = [open EXCEPT ![p] = open[p] \ {q}]
          /\ shown' = [shown EXCEPT ![p] = shown[p] \ {q}]
      BY <1>1, <2>2 DEF EndHook
    <3>. QED  BY <1>1, <2>2, <3>1 DEF EndHook
  <2>. QED  BY <2>1, <2>2
<1>2. CASE EndLookup(p) \/ EndHookLock(p)
  BY <1>2 DEF EndLookup, EndHookLock, hookVars
<1>3. CASE EndCollect(p)
  <2>1. be[p] \in Slots /\ <<p, cur[p]>> \in Written
    BY <1>3 DEF EndCollect, EndRelease, EndInactive, EndUnlock, PointersInRange, Written,
                Placed, PlaceOf
  <2>2. content' \in [Slots -> Contents]
    <3>1. content' = content \/ content' = [content EXCEPT ![be[p]].values = <<p, cur[p]>>]
      BY <1>3, Zenon DEF EndCollect, Collect
    <3>2. [content EXCEPT ![be[p]].values = <<p, cur[p]>>] \in [Slots -> Contents]
      BY <2>1, ContentWritten
    <3>. QED  BY <3>1, <3>2
  <2>. QED  BY <1>3, <2>2 DEF EndCollect
<1>4. CASE EndDone(p)
  BY <1>4 DEF EndDone
<1>. QED  BY <1>1, <1>2, <1>3, <1>4 DEF EndNext

LEMMA SignalTyped ==
    ASSUME HooksTypeOK, TypeOK', Placed, NEW p \in Backends, SignalNext(p), UNCHANGED raised
    PROVE  HooksTypeOK'
<1>. USE DEF HooksTypeOK, setup
<1>1. CASE Poll(p) \/ RequestMetrics(p)
  BY <1>1 DEF Poll, RequestMetrics, hookVars
<1>2. CASE HandlerScan(p)
  <2>1. handling' \in [Backends -> Slots \cup {NoSlot}]
    BY <1>2 DEF HandlerScan
  <2>. QED  BY <1>2, <2>1 DEF HandlerScan
<1>3. CASE HandlerCollect(p)
  <2>1. handling[p] \in Slots /\ <<p, CURRENT_QUERY_DESC[p]>> \in Written
    BY <1>3 DEF HandlerCollect, Running, Placed, PlaceOf, Written
  <2>2. content' \in [Slots -> Contents]
    BY <1>3, <2>1, ContentWritten DEF HandlerCollect, Collect
  <2>. QED  BY <1>3, <2>2 DEF HandlerCollect
<1>. QED  BY <1>1, <1>2, <1>3 DEF SignalNext

(* A collection that an error stops half-way.                              *)
LEMMA CollectedSome ==
    ASSUME HooksTypeOK, NEW p \in Backends, NEW s \in Slots, NEW q \in Queries,
           CollectSome(p, s, q)
    PROVE  content' \in [Slots -> Contents]
<1>1. <<p, q>> \in Written
  BY DEF Written
<1>2. [content EXCEPT ![s].values = <<p, q>>] \in [Slots -> Contents]
  BY <1>1, ContentWritten
<1>3. content' = content \/ content' = [content EXCEPT ![s].values = <<p, q>>]
  BY Zenon DEF CollectSome, Collect
<1>. QED  BY <1>2, <1>3 DEF HooksTypeOK

LEMMA HandlerFailsTyped ==
    ASSUME HooksTypeOK, TypeOK', Placed, NEW p \in Backends, HandlerFails(p)
    PROVE  raised' \subseteq Events => HooksTypeOK'
<1>. USE DEF HooksTypeOK, HookSteps, HookGoto, setup, pwh_set_current_query_desc
<1>1. HandlerJumps(p)
  BY DEF HandlerFails, HandlerFailsStart, HandlerFailsEnd, HandlerFailsQuery
<1>2. handling[p] \in Slots /\ CURRENT_QUERY_DESC[p] \in Queries
  BY <1>1 DEF HandlerJumps, Running, Placed, PlaceOf
<1>3. /\ content' \in [Slots -> Contents]
      /\ handling' \in [Backends -> Slots \cup {NoSlot}]
      /\ UNCHANGED <<enabled, setup, pending>>
  BY <1>1, <1>2, CollectedSome DEF HandlerJumps
<1>4. CASE HandlerFailsStart(p) \/ HandlerFailsEnd(p)
  BY <1>3, <1>4 DEF HandlerFailsStart, HandlerFailsEnd
<1>5. CASE HandlerFailsQuery(p)
  <2>1. PICK left \in SUBSET (open[p] \ {cur[p]}) :
           /\ open' = [open EXCEPT ![p] = left]
           /\ shown' = [shown EXCEPT ![p] = shown[p] \cap left]
           /\ HookGoto(p, "abort") \/ HookGoto(p, "none")
    BY <1>5 DEF HandlerFailsQuery
  <2>2. open' \in [Backends -> SUBSET Queries] /\ shown' \in [Backends -> SUBSET Queries]
    BY <2>1
  <2>3. hook' \in [Backends -> HookSteps]
    BY <2>1
  <2>4. /\ CURRENT_QUERY_DESC' \in [Backends -> Queries \cup {NoQuery}]
        /\ cur' \in [Backends -> Queries \cup {NoQuery}]
    BY <1>5 DEF HandlerFailsQuery
  <2>. QED  BY <1>3, <2>2, <2>3, <2>4
<1>. QED  BY <1>4, <1>5 DEF HandlerFails

LEMMA OtherTyped ==
    ASSUME HooksTypeOK, TypeOK', PointersInRange, Placed, NEW p \in Backends,
           \/ (HookAbortNext(p) \/ LeaveNext(p)) /\ UNCHANGED raised
           \/ EventNext(p)
    PROVE  HooksTypeOK'
<1>. USE QueryHooksAssumption DEF HooksTypeOK, setup, HookGoto, HookSteps,
                                  pwh_set_current_query_desc
<1>1. CASE HookAbortNext(p) /\ UNCHANGED raised
  BY <1>1, ZenonT(30) DEF HookAbortNext, AbortTransaction, query_cleanup_callback, AbortScan,
                          hookVars
<1>2. CASE LeaveNext(p) /\ UNCHANGED raised
  <2>1. CASE ExitBackend(p)
    BY <1>2, <2>1 DEF ExitBackend, hookVars
  <2>2. CASE Forget(p)
    <3>1. /\ hook' \in [Backends -> HookSteps]
          /\ cur' \in [Backends -> Queries \cup {NoQuery}]
          /\ open' \in [Backends -> SUBSET Queries]
          /\ shown' \in [Backends -> SUBSET Queries]
          /\ CURRENT_QUERY_DESC' \in [Backends -> Queries \cup {NoQuery}]
          /\ initialized' \in [Backends -> BOOLEAN]
          /\ pending' \in [Backends -> BOOLEAN]
          /\ UNCHANGED <<handling, enabled, content>>
      BY <2>2 DEF Forget
    <3>2. exit_callbacks' \in [Backends -> 0 .. MaxExitCallbacks]
      BY <2>2 DEF Forget
    <3>. QED  BY <1>2, <3>1, <3>2
  <2>. QED  BY <1>2, <2>1, <2>2 DEF LeaveNext, BackendGone, NewBackend
<1>3. CASE EventNext(p)
  <2>1. raised' \subseteq Events
    BY <1>3 DEF EventNext, Raise
  <2>2. CASE StartError(p)
    BY <2>1, <2>2 DEF StartError
  <2>5. CASE EndFails(p)
    <3>1. be[p] \in Slots /\ cur[p] \in Queries
      BY <2>5 DEF EndFails, EndError, EndUnlock, PointersInRange, Placed, PlaceOf
    <3>2. content' \in [Slots -> Contents]
      BY <2>5, <3>1, CollectedSome DEF EndFails
    <3>. QED  BY <2>1, <2>5, <3>2 DEF EndFails
  <2>6. CASE HandlerFails(p)
    BY <2>1, <2>6, HandlerFailsTyped
  <2>3. CASE AbortSubTransaction(p)
    BY <2>1, <2>3 DEF AbortSubTransaction
  <2>4. CASE Reload(p)
    <3>1. enabled' \in [Backends -> BOOLEAN]
      BY <2>4, Zenon DEF Reload
    <3>. QED  BY <2>1, <2>4, <3>1 DEF Reload
  <2>. QED  BY <1>3, <2>2, <2>3, <2>4, <2>5, <2>6 DEF EventNext
<1>. QED  BY <1>1, <1>2, <1>3

-----------------------------------------------------------------------------
(* A step belongs to one backend and leaves the others where they are.     *)
HookStep(p) ==
    StartNext(p) \/ EndNext(p) \/ HookAbortNext(p) \/ SignalNext(p) \/ LeaveNext(p) \/ EventNext(p)

TableStays(q) ==
    /\ pc'[q] = pc[q] /\ i'[q] = i[q]
    /\ q \in Backends => /\ be'[q] = be[q] /\ registered'[q] = registered[q]
                         /\ should_create'[q] = should_create[q]
HookStays(q) ==
    /\ hook'[q] = hook[q] /\ cur'[q] = cur[q] /\ open'[q] = open[q]
    /\ CURRENT_QUERY_DESC'[q] = CURRENT_QUERY_DESC[q]
    /\ enabled'[q] = enabled[q] /\ initialized'[q] = initialized[q]
    /\ exit_callbacks'[q] = exit_callbacks[q] /\ handling'[q] = handling[q]
    /\ shown'[q] = shown[q]

LEMMA TableStaysElsewhere ==
    ASSUME TypeOK, NEW p \in Backends, HookStep(p), NEW q \in Procs, q # p
    PROVE  TableStays(q)
<1>. USE DEF TypeOK, TableStays, Goto, vars, table, local
<1>1. CASE StartNext(p)
  <2>1. ASSUME NEW create \in BOOLEAN, LookupStart(p, create) PROVE TableStays(q)
    BY <2>1 DEF LookupStart
  <2>2. CASE Lookup(p)
    BY <2>2 DEF Lookup, LookupStep, LookupFound, LookupClaim, LookupMiss, LookupReturn
  <2>3. CASE Register(p) \/ ExitStart(p) \/ FillDone(p) \/ CatchLock(p) \/ CatchRelease(p)
    BY <2>3 DEF Register, ExitStart, FillDone, CatchLock, LockExclusive, CatchRelease,
                ExitCallback
  <2>4. CASE UNCHANGED vars
    BY <2>4
  <2>. QED
    BY <1>1, <2>1, <2>2, <2>3, <2>4
    DEF StartNext, StartHook, InitializeState, InitializeFails, StartLookup, FillTopology,
        FillMeta, StartDone, StartExhausted, StartCatchLock, StartCatch
<1>2. CASE EndNext(p)
  <2>1. ASSUME NEW create \in BOOLEAN, LookupStart(p, create) PROVE TableStays(q)
    BY <2>1 DEF LookupStart
  <2>2. CASE EndLock(p) \/ EndRelease(p) \/ EndInactive(p)
    BY <2>2 DEF EndLock, LockExclusive, EndRelease, EndInactive, EndUnlock
  <2>3. CASE UNCHANGED vars
    BY <2>3
  <2>. QED
    BY <1>2, <2>1, <2>2, <2>3 DEF EndNext, EndHook, EndLookup, EndHookLock, EndCollect, EndDone
<1>3. CASE HookAbortNext(p)
  <2>1. CASE UNCHANGED vars
    BY <2>1
  <2>2. CASE AbortStart(p) \/ AbortStep(p) \/ AbortRelease(p) \/ AbortMiss(p)
    BY <2>2 DEF AbortStart, AbortStep, AbortRelease, AbortMiss, AbortReturn
  <2>. QED
    BY <1>3, <2>1, <2>2 DEF HookAbortNext, AbortTransaction, query_cleanup_callback, AbortScan
<1>4. CASE SignalNext(p)
  BY <1>4 DEF SignalNext, Poll, PollNext, PollStart, PollEnd, RequestMetrics, HandlerScan,
              HandlerCollect
<1>5. CASE LeaveNext(p)
  <2>1. CASE ExitStart(p) \/ ExitLock(p) \/ ExitRelease(p) \/ Connect(p)
    BY <2>1 DEF ExitStart, ExitLock, LockExclusive, ExitRelease, ExitCallback, Connect
  <2>. QED  BY <1>5, <2>1 DEF LeaveNext, ExitBackend, BackendGone, NewBackend
<1>6. CASE EventNext(p)
  <2>1. CASE HandlerFails(p)
    BY <2>1
    DEF HandlerFails, HandlerFailsStart, HandlerFailsEnd, HandlerFailsQuery, FillError,
        LookupError, EndInactive, EndError, EndUnlock, PollEnd, EndLockError
  <2>2. CASE ~HandlerFails(p)
    BY <1>6, <2>2
    DEF EventNext, StartError, FillError, EndFails, EndError, EndUnlock, AbortSubTransaction,
        Reload
  <2>. QED  BY <2>1, <2>2
<1>. QED  BY <1>1, <1>2, <1>3, <1>4, <1>5, <1>6 DEF HookStep

LEMMA HookStaysElsewhere ==
    ASSUME HooksTypeOK, NEW p \in Backends, HookStep(p), NEW q \in Backends, q # p
    PROVE  HookStays(q)
<1>. USE DEF HooksTypeOK, HookStays, HookGoto, LeaveHook, pwh_set_current_query_desc, setup,
             hookVars
<1>1. CASE StartNext(p)
  BY <1>1, ZenonT(30)
  DEF StartNext, StartHook, InitializeState, InitializeFails, StartLookup, Lookup, FillTopology,
      FillMeta, StartDone, StartExhausted, StartCatchLock, StartCatch
<1>2. CASE EndNext(p)
  BY <1>2 DEF EndNext, EndHook, EndLookup, EndHookLock, EndCollect, EndDone, Close
<1>3. CASE HookAbortNext(p)
  BY <1>3 DEF HookAbortNext, AbortTransaction, query_cleanup_callback, AbortScan
<1>4. CASE SignalNext(p)
  BY <1>4 DEF SignalNext, Poll, RequestMetrics, HandlerScan, HandlerCollect
<1>5. CASE LeaveNext(p)
  BY <1>5 DEF LeaveNext, ExitBackend, BackendGone, NewBackend, Forget
<1>6. CASE EventNext(p)
  <2>1. CASE HandlerFails(p)
    BY <2>1
    DEF HandlerFails, HandlerFailsStart, HandlerFailsEnd, HandlerFailsQuery, HandlerJumps
  <2>2. CASE ~HandlerFails(p)
    BY <1>6, <2>2 DEF EventNext, StartError, EndFails, AbortSubTransaction, Reload
  <2>. QED  BY <2>1, <2>2
<1>. QED  BY <1>1, <1>2, <1>3, <1>4, <1>5, <1>6 DEF HookStep

-----------------------------------------------------------------------------
LEMMA StartPlaced ==
    ASSUME HooksTypeOK, ScanFoundNone, PointersInRange, NEW p \in Backends, PlaceOf(p),
    StartNext(p)
    PROVE  PlaceOf(p)'
<1>. USE DEF HooksTypeOK, TypeOK, HookSteps, Filling, LeavingAt, PlaceOf, Goto, HookGoto,
             LeaveHook,
         Running, Ready, pwh_set_current_query_desc
<1>1. CASE \E q \in Queries : StartHook(p, q)
  BY <1>1 DEF StartHook, vars, setup, local
<1>2. CASE InitializeState(p)
  BY <1>2 DEF InitializeState, Register, local
<1>3. CASE InitializeFails(p)
  BY <1>3 DEF InitializeFails, ExitStart, setup
<1>4. CASE StartLookup(p)
  BY <1>4 DEF StartLookup, LookupStart, setup
<1>5. CASE Lookup(p)
  BY <1>5
  DEF Lookup, LookupStep, LookupFound, LookupClaim, LookupMiss, LookupReturn, MayClaim,
      ScanFoundNone, hookVars, setup
<1>6. CASE FillTopology(p) \/ FillMeta(p)
  BY <1>6 DEF FillTopology, FillMeta, vars, setup, local
<1>7. CASE StartDone(p) \/ StartExhausted(p)
  BY <1>7 DEF StartDone, StartExhausted, FillDone, setup
<1>8. CASE StartCatchLock(p)
  BY <1>8 DEF StartCatchLock, CatchLock, LockExclusive, local, hookVars, setup
<1>9. CASE StartCatch(p)
  BY <1>9 DEF StartCatch, CatchRelease, ExitCallback, local
<1>. QED  BY <1>1, <1>2, <1>3, <1>4, <1>5, <1>6, <1>7, <1>8, <1>9 DEF StartNext

LEMMA EndPlaced ==
    ASSUME HooksTypeOK, NEW p \in Backends, PlaceOf(p), EndNext(p)
    PROVE  PlaceOf(p)'
<1>. USE DEF HooksTypeOK, TypeOK, HookSteps, Filling, LeavingAt, PlaceOf, Goto, HookGoto,
             LeaveHook,
         Running, Ready, Close, pwh_set_current_query_desc
<1>1. CASE \E q \in Queries : EndHook(p, q)
  BY <1>1 DEF EndHook, vars, setup, local
<1>2. CASE EndLookup(p)
  BY <1>2 DEF EndLookup, LookupStart, setup
<1>3. CASE EndHookLock(p)
  BY <1>3 DEF EndHookLock, EndLock, LockExclusive, local, hookVars, setup
<1>4. CASE EndCollect(p)
  BY <1>4 DEF EndCollect, EndRelease, EndInactive, EndUnlock, setup
<1>5. CASE EndDone(p)
  BY <1>5 DEF EndDone, vars, setup, local
<1>. QED  BY <1>1, <1>2, <1>3, <1>4, <1>5 DEF EndNext

LEMMA HandlerFailsPlaced ==
    ASSUME HooksTypeOK, NEW p \in Backends, PlaceOf(p), HandlerFails(p)
    PROVE  PlaceOf(p)'
<1>. USE DEF HooksTypeOK, TypeOK, HookSteps, Filling, LeavingAt, PlaceOf, Goto, HookGoto,
         Running, setup, local, pwh_set_current_query_desc
<1>1. handling'[p] = NoSlot /\ initialized' = initialized
  BY DEF HandlerFails, HandlerFailsStart, HandlerFailsEnd, HandlerFailsQuery, HandlerJumps
<1>2. CASE HandlerFailsStart(p)
  <2>1. pc'[p] = "catch_lock" /\ registered' = registered
    BY <1>2 DEF HandlerFailsStart, FillError, LookupError
  <2>. QED  BY <1>1, <1>2, <2>1 DEF HandlerFailsStart
<1>3. CASE HandlerFailsEnd(p)
  <2>1. pc'[p] = "idle" /\ registered' = registered
    BY <1>3 DEF HandlerFailsEnd, LookupError, EndInactive, EndError, EndUnlock
  <2>. QED  BY <1>1, <1>3, <2>1 DEF HandlerFailsEnd
<1>4. CASE HandlerFailsQuery(p)
  <2>1. pc'[p] = "idle" /\ registered' = registered
    BY <1>4 DEF HandlerFailsQuery, PollEnd, EndLockError, vars
  <2>2. hook'[p] \in {"abort", "none"}
    BY <1>4 DEF HandlerFailsQuery
  <2>. QED  BY <1>1, <2>1, <2>2
<1>. QED  BY <1>2, <1>3, <1>4 DEF HandlerFails

LEMMA OtherPlaced ==
    ASSUME HooksTypeOK, NEW p \in Backends, PlaceOf(p),
           HookAbortNext(p) \/ SignalNext(p) \/ LeaveNext(p) \/ EventNext(p)
    PROVE  PlaceOf(p)'
<1>. USE DEF HooksTypeOK, TypeOK, HookSteps, Filling, LeavingAt, PlaceOf, Goto, HookGoto,
         Running, Ready, pwh_set_current_query_desc
<1>1. CASE HookAbortNext(p)
  <2>1. CASE AbortTransaction(p)
    BY <2>1 DEF AbortTransaction, vars, setup, local
  <2>2. CASE query_cleanup_callback(p)
    BY <2>2 DEF query_cleanup_callback, AbortStart, vars, setup, local
  <2>3. CASE AbortScan(p)
    BY <2>3 DEF AbortScan, AbortStep, AbortRelease, AbortMiss, AbortReturn, hookVars, setup
  <2>. QED  BY <1>1, <2>1, <2>2, <2>3 DEF HookAbortNext
<1>2. CASE SignalNext(p)
  <2>1. CASE Poll(p)
    BY <2>1 DEF Poll, PollNext, PollStart, PollEnd, hookVars, setup, local
  <2>2. CASE RequestMetrics(p) \/ HandlerCollect(p)
    BY <2>2 DEF RequestMetrics, HandlerCollect, vars, setup, local
  <2>3. CASE HandlerScan(p)
    BY <2>3 DEF HandlerScan, Exists, vars, setup, local
  <2>. QED  BY <1>2, <2>1, <2>2, <2>3 DEF SignalNext
<1>3. CASE LeaveNext(p)
  <2>1. CASE ExitBackend(p)
    BY <2>1 DEF ExitBackend, ExitStart, ExitLock, LockExclusive, local, hookVars, setup
  <2>2. CASE BackendGone(p)
    BY <2>2 DEF BackendGone, Forget, ExitRelease, ExitCallback, local
  <2>3. CASE NewBackend(p)
    BY <2>3 DEF NewBackend, Forget, Connect, local
  <2>. QED  BY <1>3, <2>1, <2>2, <2>3 DEF LeaveNext
<1>4. CASE EventNext(p)
  <2>1. CASE StartError(p)
    BY <2>1 DEF StartError, FillError, setup
  <2>2. CASE EndFails(p)
    BY <2>2 DEF EndFails, EndError, EndUnlock, setup
  <2>3. CASE AbortSubTransaction(p)
    BY <2>3 DEF AbortSubTransaction, vars, setup, local
  <2>4. CASE Reload(p)
    BY <2>4 DEF Reload, vars, setup, local
  <2>5. CASE HandlerFails(p)
    BY <2>5, HandlerFailsPlaced
  <2>. QED  BY <1>4, <2>1, <2>2, <2>3, <2>4, <2>5 DEF EventNext
<1>. QED  BY <1>1, <1>2, <1>3, <1>4

LEMMA PlacedStep ==
    ASSUME HooksTypeOK, ScanFoundNone, PointersInRange, Placed, [HooksNext]_allVars
    PROVE  Placed'
<1>1. ASSUME NEW p \in Backends, HookStep(p) PROVE Placed'
  <2>. SUFFICES ASSUME NEW q \in Backends PROVE PlaceOf(q)'
    BY DEF Placed
  <2>1. CASE q = p
    BY <1>1, <2>1, StartPlaced, EndPlaced, OtherPlaced DEF HookStep, Placed
  <2>2. CASE q # p
    <3>1. TableStays(q) /\ HookStays(q)
      BY <1>1, <2>2, TableStaysElsewhere, HookStaysElsewhere DEF HooksTypeOK
    <3>. QED  BY <3>1 DEF Placed, PlaceOf, TableStays, HookStays
  <2>. QED  BY <2>1, <2>2
<1>2. CASE UNCHANGED allVars
  BY <1>2 DEF allVars, hookVars, vars, setup, local, Placed, PlaceOf
<1>. QED  BY <1>1, <1>2 DEF HooksNext, HookStep

LEMMA HooksTypeStep ==
    ASSUME HooksTypeOK, OwnershipInv, Placed, [HooksNext]_allVars
    PROVE  HooksTypeOK'
<1>1. TypeOK'
  BY OwnershipStep, TableStepOfHooks DEF OwnershipInv
<1>2. CASE UNCHANGED allVars
  BY <1>1, <1>2 DEF HooksTypeOK, allVars, hookVars, setup
<1>. QED
  BY <1>1, <1>2, StartTyped, EndTyped, SignalTyped, OtherTyped DEF HooksNext, OwnershipInv

LEMMA InitPlaced == HooksInit => HooksTypeOK /\ Placed
BY InitType, QueryHooksAssumption, SlotTableAssumption
DEF HooksInit, HooksTypeOK, HookSteps, Contents, Blank, Written, Placed, PlaceOf, Init, Filling

LEMMA HooksTyped == HooksSpec => [](HooksTypeOK /\ Placed)
<1>1. HooksTypeOK /\ Placed /\ OwnershipInv /\ [HooksNext]_allVars => HooksTypeOK' /\ Placed'
  BY HooksTypeStep, PlacedStep DEF OwnershipInv
<1>. QED  BY <1>1, InitPlaced, HooksOwnership, PTL DEF HooksSpec

(* Every variable of the hooks keeps its type. *)
THEOREM HooksTypeCorrect == HooksSpec => []HooksTypeOK
BY HooksTyped, PTL

-----------------------------------------------------------------------------
(* The table under the hooks.  Nobody is killed here, so nothing restarts. *)
LEMMA HooksNeverRestart ==
    ASSUME HooksTypeOK, Placed, NEW p \in Backends, HookStep(p)
    PROVE  ~Restart
<1>1. \A q \in Backends : pc[q] # "dead"
  BY DEF Placed, PlaceOf, HooksTypeOK, HookSteps, LeavingAt
<1>2. TableStays(Exporter)
  BY TableStaysElsewhere, SlotTableAssumption DEF HooksTypeOK
<1>. QED  BY <1>1, <1>2 DEF TableStays, Restart

LEMMA OverwrittenStays ==
    ASSUME HooksTypeOK, OwnershipInv, Placed, NEW p \in Backends, HookStep(p), ~overwritten'
    PROVE  ~overwritten
<1>1. [Next]_vars
  BY StartIsTableStep, OtherIsTableStep DEF HookStep
<1>2. TableChange
  BY <1>1, TableStep DEF OwnershipInv
<1>. QED  BY <1>2, HooksNeverRestart DEF TableChange, table, Free, LookupClaim

(* An entry comes to a backend by its own claim, and without overwriting   *)
(* it leaves it by its own release.                                        *)
LEMMA OwnedBefore ==
    ASSUME HooksTypeOK, OwnershipInv, NEW p \in Backends, HookStep(p),
           NEW q \in Backends, NEW s \in Slots, Owns(q, s)'
    PROVE  Owns(q, s) \/ (q = p /\ LookupClaim(p))
<1>1. [Next]_vars
  BY StartIsTableStep, OtherIsTableStep DEF HookStep
<1>2. CASE LookupClaim(q) /\ q # p
  <2>1. pc'[q] = pc[q]
    BY <1>2, TableStaysElsewhere DEF HooksTypeOK, TableStays
  <2>2. pc[q] = "lookup" /\ pc'[q] # "lookup"
    BY <1>2 DEF LookupClaim, LookupReturn, Goto, HooksTypeOK, TypeOK
  <2>. QED  BY <2>1, <2>2
<1>. QED  BY <1>1, <1>2, NewOwner DEF OwnershipInv, Owns

LEMMA OwnedAfter ==
    ASSUME HooksTypeOK, OwnershipInv, Placed, NEW p \in Backends, HookStep(p), ~overwritten',
           NEW q \in Backends, NEW s \in Slots, Owns(q, s), q = p => pc[p] \notin ReleasesAt
    PROVE  Owns(q, s)'
<1>1. [Next]_vars
  BY StartIsTableStep, OtherIsTableStep DEF HookStep
<1>2. Exists(q)
  BY DEF Exists, Placed, PlaceOf, HooksTypeOK, HookSteps, LeavingAt, OwnershipInv,
         GoneOwnsNothing,
         Owns
<1>3. ~(pc[q] \in ReleasesAt /\ pc'[q] # pc[q])
  BY TableStaysElsewhere DEF HooksTypeOK, TableStays
<1>. QED  BY <1>1, <1>2, <1>3, HooksNeverRestart, OwnerKeeps DEF OwnershipInv, Owns

(* The entry a hook or an abort is at is the only one it can own.          *)
EntryInHand(p) ==
    \A s \in Slots : Owns(p, s) =>
        /\ pc[p] \in {"fill", "end_lock", "end"} => s = be[p]
        /\ pc[p] = "abort" => i[p] <= s
        /\ pc[p] = "abort_release" => i[p] = s

InHand == \A p \in Backends : EntryInHand(p)

Looks(p) == LookupStep(p) \/ LookupFound(p) \/ LookupClaim(p) \/ LookupMiss(p)

LEMMA LookupInHand ==
    ASSUME HooksTypeOK, OwnershipInv, OwnershipInv', NEW p \in Backends, Looks(p)
    PROVE  EntryInHand(p)'
<1>. USE DEF Owns, EntryInHand, HooksTypeOK, TypeOK, Goto
<1>1. CASE LookupStep(p)
  BY <1>1 DEF LookupStep
<1>2. ASSUME NEW r \in Slots, LookupReturn(p, r), backend_pid'[r] = p PROVE EntryInHand(p)'
  BY <1>2, SlotTableAssumption DEF LookupReturn, OwnershipInv, OneSlotPerBackend, Active
<1>3. CASE LookupFound(p)
  <2>1. i[p] \in Slots /\ backend_pid'[i[p]] = p
    BY <1>3, SlotTableAssumption DEF LookupFound, table
  <2>. QED  BY <1>2, <1>3, <2>1 DEF LookupFound
<1>4. CASE LookupClaim(p)
  <2>1. free_slot_idx[p] \in Slots /\ backend_pid'[free_slot_idx[p]] = p
    BY <1>4 DEF LookupClaim, MayClaim
  <2>. QED  BY <1>2, <1>4, <2>1 DEF LookupClaim
<1>5. CASE LookupMiss(p)
  <2>1. \A s \in Slots : backend_pid'[s] # p
    BY <1>5 DEF LookupMiss, OwnershipInv, ScanFoundNone, table
  <2>. QED  BY <2>1
<1>. QED  BY <1>1, <1>3, <1>4, <1>5 DEF Looks

LEMMA InHandStep ==
    ASSUME HooksTypeOK, OwnershipInv, OwnershipInv', Placed, InHand, [HooksNext]_allVars
    PROVE  InHand'
<1>. USE DEF HooksTypeOK, TypeOK
<1>1. ASSUME NEW p \in Backends, HookStep(p), NEW q \in Backends PROVE EntryInHand(q)'
  <2>1. CASE q # p
    <3>1. TableStays(q)
      BY <1>1, <2>1, TableStaysElsewhere
    <3>. QED
      BY <1>1, <2>1, <3>1, OwnedBefore DEF InHand, EntryInHand, TableStays, Owns
  <2>2. CASE q = p /\ Looks(p)
    BY <2>2, LookupInHand
  <2>3. CASE q = p /\ AbortStep(p)
    BY <2>3, SlotTableAssumption
    DEF AbortStep, Goto, table, InHand, EntryInHand, Owns, OwnershipInv, OneSlotPerBackend, Active
  <2>4. CASE q = p /\ AbortStart(p)
    BY <2>4 DEF AbortStart, Goto, EntryInHand, Owns
  <2>5. CASE q = p /\ ~Looks(p) /\ ~AbortStep(p) /\ ~AbortStart(p)
    <3>1. \A s \in Slots : Owns(p, s)' => Owns(p, s)
      BY <1>1, <2>5, OwnedBefore DEF Looks
    <3>2. \/ pc'[p] \notin {"fill", "end_lock", "end", "abort", "abort_release"}
          \/ pc'[p] = pc[p] /\ be'[p] = be[p] /\ i'[p] = i[p]
          \/ pc[p] = "end_lock" /\ pc'[p] = "end" /\ be'[p] = be[p]
      <4>1. CASE StartNext(p)
        BY <2>5, <4>1
        DEF StartNext, StartHook, InitializeState, InitializeFails, StartLookup, Lookup, Looks,
            FillTopology, FillMeta, StartDone, StartExhausted, StartCatchLock, StartCatch,
            Register, ExitStart, LookupStart, FillDone, CatchLock, LockExclusive, CatchRelease,
            ExitCallback, Goto, vars, local
      <4>2. CASE EndNext(p)
        BY <2>5, <4>2
        DEF EndNext, EndHook, EndLookup, EndHookLock, EndCollect, EndDone, LookupStart, EndLock,
            LockExclusive, EndRelease, EndInactive, EndUnlock, Goto, vars, local
      <4>3. CASE HookAbortNext(p)
        BY <2>5, <4>3
        DEF HookAbortNext, AbortTransaction, query_cleanup_callback, AbortScan, AbortRelease,
            AbortMiss, AbortReturn, Goto, vars, local
      <4>4. CASE SignalNext(p)
        BY <2>5, <4>4
        DEF SignalNext, Poll, PollNext, PollStart, PollEnd, RequestMetrics, HandlerScan,
            HandlerCollect, Goto, vars, local
      <4>5. CASE LeaveNext(p)
        BY <2>5, <4>5
        DEF LeaveNext, ExitBackend, BackendGone, NewBackend, ExitStart, ExitLock, LockExclusive,
            ExitRelease, ExitCallback, Connect, Goto
      <4>7. CASE HandlerFails(p)
        BY <2>5, <4>7
        DEF HandlerFails, HandlerFailsStart, HandlerFailsEnd, HandlerFailsQuery, FillError,
            LookupError, EndInactive, EndError, EndUnlock, PollEnd, EndLockError, Goto, vars,
            local
      <4>6. CASE EventNext(p) /\ ~HandlerFails(p)
        BY <2>5, <4>6
        DEF EventNext, StartError, FillError, EndFails, EndError, EndUnlock, AbortSubTransaction,
            Reload, Goto, vars, local
      <4>. QED  BY <1>1, <2>5, <4>1, <4>2, <4>3, <4>4, <4>5, <4>6, <4>7 DEF HookStep
    <3>. QED  BY <2>5, <3>1, <3>2 DEF InHand, EntryInHand
  <2>. QED  BY <2>1, <2>2, <2>3, <2>4, <2>5
<1>2. CASE UNCHANGED allVars
  BY <1>2 DEF allVars, vars, table, local, InHand, EntryInHand, Owns
<1>. QED  BY <1>1, <1>2 DEF HooksNext, HookStep, InHand

-----------------------------------------------------------------------------
(* What an entry says, while its owner fills it in and afterwards.         *)
ContentOf(p, s) ==
    /\ hook[p] \notin Filling =>
          content[s].topology = content[s].meta /\ content[s].topology # NoQuery
    /\ pc[p] = "fill" /\ hook[p] = "meta" => content[s].topology = <<p, cur[p]>>
    /\ pc[p] = "fill" /\ hook[p] = "set" =>
          content[s].topology = <<p, cur[p]>> /\ content[s].meta = <<p, cur[p]>>

Described ==
    ~overwritten => \A p \in Backends, s \in Slots : Owns(p, s) => ContentOf(p, s)

SaysTheSame(s) ==
    /\ content'[s].topology = content[s].topology
    /\ content'[s].meta = content[s].meta
    /\ content'[s].followed = content[s].followed

(* The steps that collect into an entry, and which entry that is.          *)
Collects(p) == EndCollect(p) \/ EndFails(p) \/ HandlerCollect(p) \/ HandlerFails(p)
Target(p)   == IF Running(p) THEN be[p] ELSE handling[p]

(* The steps that write to an entry.                                       *)
LEMMA WritesNothing ==
    ASSUME NEW p \in Backends, HookStep(p), ~Collects(p), ~FillTopology(p), ~FillMeta(p)
    PROVE  content' = content
BY Zenon
DEF Collects, HookStep, StartNext, StartHook, InitializeState, InitializeFails, StartLookup,
    Lookup,
    StartDone, StartExhausted, StartCatchLock, StartCatch, EndNext, EndHook, EndLookup,
    EndHookLock, EndDone, HookAbortNext, AbortTransaction, query_cleanup_callback, AbortScan,
    SignalNext, Poll, RequestMetrics, HandlerScan, LeaveNext, ExitBackend, BackendGone,
    NewBackend, Forget, EventNext, StartError, AbortSubTransaction, Reload, hookVars

LEMMA WhatIsCollected ==
    ASSUME NEW p \in Backends, Collects(p)
    PROVE  content' = content \/ \E w : content' = [content EXCEPT ![Target(p)].values = w]
BY Zenon
DEF Collects, Target, Collect, CollectSome, EndCollect, EndFails, HandlerCollect, HandlerFails,
    HandlerFailsStart, HandlerFailsEnd, HandlerFailsQuery, HandlerJumps

(* Only the two steps that fill an entry in change what it describes, and  *)
(* only the entry in the hand of their hook.                               *)
LEMMA WhoDescribes ==
    ASSUME HooksTypeOK, PointersInRange, NEW p \in Backends, HookStep(p), NEW s \in Slots
    PROVE  SaysTheSame(s) \/ (s = be[p] /\ (FillTopology(p) \/ FillMeta(p)))
<1>. USE DEF SaysTheSame, HooksTypeOK, Contents
<1>1. CASE content' = content
  BY <1>1
<1>2. CASE Collects(p)
  <2>1. ASSUME NEW r, NEW w, content' = [content EXCEPT ![r].values = w]
        PROVE  SaysTheSame(s)
    BY <2>1
  <2>. QED  BY <1>1, <1>2, <2>1, WhatIsCollected
<1>3. CASE (FillTopology(p) \/ FillMeta(p)) /\ s # be[p]
  BY <1>3 DEF FillTopology, FillMeta
<1>4. CASE ~Collects(p) /\ ~FillTopology(p) /\ ~FillMeta(p)
  BY <1>1, <1>4, WritesNothing
<1>. QED  BY <1>2, <1>3, <1>4

LEMMA FillDescribes ==
    ASSUME HooksTypeOK, Placed, InHand, Described, ~overwritten, NEW p \in Backends,
    NEW s \in Slots,
           Owns(p, s), FillTopology(p) \/ FillMeta(p)
    PROVE  ContentOf(p, s)'
<1>1. s = be[p] /\ p \in Backends /\ content[s] \in Contents
  BY DEF FillTopology, FillMeta, InHand, EntryInHand, HooksTypeOK
<1>2. CASE FillTopology(p)
  BY <1>1, <1>2 DEF FillTopology, ContentOf, HookGoto, HooksTypeOK, Contents, Filling
<1>3. CASE FillMeta(p)
  BY <1>1, <1>3 DEF FillMeta, ContentOf, Described, HookGoto, HooksTypeOK, Contents, Filling, vars
<1>. QED  BY <1>2, <1>3

(* Apart from the steps named here, a backend that is outside of the walk  *)
(* and the text after a step was outside before it, or is where it was.    *)
LEMMA SettledBefore ==
    ASSUME HooksTypeOK, Placed, NEW p \in Backends, HookStep(p), ~FillTopology(p), ~FillMeta(p),
           ~StartDone(p), ~StartExhausted(p), ~StartCatch(p), ~BackendGone(p), ~NewBackend(p)
    PROVE  \/ hook[p] \notin Filling /\ hook'[p] \notin {"meta", "set"}
           \/ /\ hook'[p] = hook[p] /\ cur'[p] = cur[p]
              /\ hook[p] = "walk" \/ pc'[p] # "fill" \/ pc[p] = "fill"
<1>. USE DEF HooksTypeOK, TypeOK, Filling, HookSteps
<1>. USE DEF hookVars, vars, local, Goto, HookGoto, LeaveHook, Ready
<1>1. CASE StartNext(p)
  <2>1. CASE Lookup(p)
    BY <2>1
    DEF Lookup, LookupStep, LookupFound, LookupClaim, LookupMiss, LookupReturn, Placed, PlaceOf
  <2>2. CASE ~Lookup(p)
    BY <1>1, <2>2, ZenonT(30)
    DEF StartNext, StartHook, InitializeState, InitializeFails, StartLookup, StartCatchLock,
        CatchLock, LockExclusive, Register
  <2>. QED  BY <2>1, <2>2
<1>2. CASE EndNext(p)
  BY <1>2
  DEF EndNext, EndHook, EndLookup, EndHookLock, EndCollect, EndDone, EndLock, LockExclusive,
      EndRelease, EndInactive, EndUnlock
<1>3. CASE HookAbortNext(p)
  BY <1>3
  DEF HookAbortNext, AbortTransaction, query_cleanup_callback, AbortScan, AbortStep,
      AbortRelease, AbortMiss, AbortReturn
<1>4. CASE SignalNext(p)
  BY <1>4
  DEF SignalNext, Poll, PollNext, PollStart, PollEnd, RequestMetrics, HandlerScan, HandlerCollect
<1>5. CASE LeaveNext(p)
  BY <1>5 DEF LeaveNext, ExitBackend, ExitStart, ExitLock, LockExclusive
<1>6. CASE EventNext(p) /\ ~HandlerFails(p)
  BY <1>6
  DEF EventNext, StartError, FillError, EndFails, EndError, EndUnlock, AbortSubTransaction,
      Reload
<1>7. CASE HandlerFails(p)
  <2>1. CASE HandlerFailsStart(p)
    BY <2>1 DEF HandlerFailsStart, FillError, LookupError, Placed, PlaceOf
  <2>2. CASE HandlerFailsEnd(p)
    BY <2>2 DEF HandlerFailsEnd
  <2>3. CASE HandlerFailsQuery(p)
    BY <2>3 DEF HandlerFailsQuery
  <2>. QED  BY <1>7, <2>1, <2>2, <2>3 DEF HandlerFails
<1>. QED  BY <1>1, <1>2, <1>3, <1>4, <1>5, <1>6, <1>7 DEF HookStep

(* A start that found no entry, and one that failed, leave none behind.    *)
LEMMA LeavesOwnNothing ==
    ASSUME HooksTypeOK, OwnershipInv, InHand, NEW p \in Backends, NEW s \in Slots,
           StartExhausted(p) \/ StartCatch(p)
    PROVE  ~Owns(p, s)'
<1>. USE DEF HooksTypeOK, TypeOK
<1>1. CASE StartExhausted(p)
  BY <1>1 DEF StartExhausted, FillDone, InHand, EntryInHand, Owns, table
<1>2. CASE StartCatch(p)
  <2>1. FreeFirstOf(p)
    BY <1>2 DEF StartCatch, CatchRelease, ExitCallback
  <2>2. CASE \E r \in Slots : FirstOf(p, r) /\ Free(r)
    <3>1. PICK r \in Slots : backend_pid[r] = p /\ backend_pid' = [backend_pid EXCEPT ![r] = NoPid]
      BY <2>2 DEF FirstOf, Free
    <3>2. Active(r) /\ p # NoPid
      BY <3>1, SlotTableAssumption DEF Active
    <3>3. backend_pid[s] = p => s = r
      BY <3>1, <3>2 DEF OwnershipInv, OneSlotPerBackend
    <3>. QED  BY <3>1, <3>2, <3>3 DEF Owns
  <2>3. CASE (\A r \in Slots : backend_pid[r] # p) /\ UNCHANGED table
    BY <2>3 DEF Owns, table
  <2>. QED  BY <2>1, <2>2, <2>3 DEF FreeFirstOf
<1>. QED  BY <1>1, <1>2

(* A backend that leaves, and one that comes, own nothing.                 *)
LEMMA GoneIsBare ==
    ASSUME HooksTypeOK, OwnershipInv, OwnershipInv', NEW p \in Backends, NEW s \in Slots,
           BackendGone(p) \/ NewBackend(p)
    PROVE  ~Owns(p, s)'
BY DEF BackendGone, NewBackend, ExitRelease, ExitCallback, Connect, Goto, Owns, OwnershipInv,
       GoneOwnsNothing, HooksTypeOK, TypeOK, table

(* A step of p that leaves the description alone, and finds the entry its. *)
LEMMA KeepsDescribed ==
    ASSUME HooksTypeOK, OwnershipInv, OwnershipInv', Placed, InHand, ~overwritten,
           NEW p \in Backends, NEW s \in Slots, HookStep(p), SaysTheSame(s),
           Owns(p, s), Owns(p, s)', ContentOf(p, s), ~FillTopology(p), ~FillMeta(p)
    PROVE  ContentOf(p, s)'
<1>. USE DEF HooksTypeOK, TypeOK, SaysTheSame, Filling, HookSteps
<1>1. ASSUME hook[p] \notin Filling, hook'[p] \notin {"meta", "set"} PROVE ContentOf(p, s)'
  BY <1>1 DEF ContentOf
<1>2. CASE StartDone(p)
  <2>1. hook[p] = "set" /\ pc[p] = "fill" /\ hook'[p] = "none" /\ cur[p] \in Queries
    BY <1>2 DEF StartDone, FillDone, LeaveHook, HookGoto, Placed, PlaceOf
  <2>2. <<p, cur[p]>> # NoQuery
    BY <2>1, QueryHooksAssumption
  <2>. QED  BY <2>1, <2>2 DEF ContentOf
<1>3. CASE StartExhausted(p) \/ StartCatch(p)
  BY <1>3, LeavesOwnNothing
<1>5. CASE BackendGone(p) \/ NewBackend(p)
  BY <1>5, GoneIsBare
<1>6. ASSUME hook'[p] = hook[p], cur'[p] = cur[p],
             hook[p] = "walk" \/ pc'[p] # "fill" \/ pc[p] = "fill"
      PROVE  ContentOf(p, s)'
  BY <1>6 DEF ContentOf
<1>7. CASE /\ ~StartDone(p) /\ ~StartExhausted(p) /\ ~StartCatch(p)
           /\ ~BackendGone(p) /\ ~NewBackend(p)
  BY <1>1, <1>6, <1>7, SettledBefore
<1>. QED  BY <1>2, <1>3, <1>5, <1>7

(* A claim is made in the walk of query_start_hook.                        *)
LEMMA ClaimInWalk ==
    ASSUME HooksTypeOK, Placed, NEW p \in Backends, HookStep(p), LookupClaim(p)
    PROVE  /\ hook[p] = "walk" /\ pc[p] = "lookup" /\ pc'[p] = "fill" /\ cur[p] \in open[p]
           /\ hook' = hook /\ open' = open
<1>1. hook[p] = "walk" /\ pc[p] = "lookup" /\ pc'[p] = "fill" /\ cur[p] \in open[p]
  BY DEF LookupClaim, MayClaim, LookupReturn, Goto, Placed, PlaceOf, HooksTypeOK, TypeOK
<1>2. ASSUME HandlerFails(p) PROVE hook' = hook /\ open' = open
  BY <1>1, <1>2
  DEF HandlerFails, HandlerFailsStart, HandlerFailsEnd, HandlerFailsQuery, PollEnd, EndLockError,
      vars
<1>3. hook' = hook /\ open' = open
  BY <1>1, <1>2
  DEF HookStep, StartNext, StartHook, InitializeState, InitializeFails, StartLookup, Lookup,
      FillTopology, FillMeta, StartDone, StartExhausted, StartCatchLock, StartCatch, FillDone,
      CatchRelease, ExitCallback, Ready, EndNext, EndHook, EndLookup, EndHookLock, EndCollect,
      EndDone, HookAbortNext, AbortTransaction, query_cleanup_callback, AbortScan,
      SignalNext, Poll, RequestMetrics, HandlerScan, HandlerCollect,
      LeaveNext, ExitBackend, BackendGone, ExitRelease, NewBackend, Connect,
      EventNext, StartError, EndFails, AbortSubTransaction, Reload, hookVars
<1>. QED  BY <1>1, <1>3

LEMMA DescribedStep ==
    ASSUME HooksTypeOK, OwnershipInv, OwnershipInv', Placed, InHand, Described,
           [HooksNext]_allVars
    PROVE  Described'
<1>1. ASSUME NEW p \in Backends, HookStep(p), ~overwritten', NEW q \in Backends, NEW s \in Slots,
             Owns(q, s)'
      PROVE  ContentOf(q, s)'
  <2>1. ~overwritten
    BY <1>1, OverwrittenStays
  <2>2. Owns(q, s) => ContentOf(q, s)
    BY <2>1 DEF Described
  <2>3. CASE q = p /\ LookupClaim(p)
    <3>1. hook'[p] = "walk"
      BY <1>1, <2>3, ClaimInWalk
    <3>. QED  BY <2>3, <3>1 DEF ContentOf, Filling
  <2>4. CASE Owns(q, s) /\ q # p
    <3>1. s # be[p] \/ ~(FillTopology(p) \/ FillMeta(p))
      <4>1. FillTopology(p) \/ FillMeta(p) => HoldsEntry(p)
        BY DEF FillTopology, FillMeta, HoldsEntry, Placed, PlaceOf, HooksTypeOK
      <4>. QED  BY <2>1, <2>4, <4>1 DEF Owns, OwnershipInv, EntryIsOwned, FillsOwnEntry
    <3>2. SaysTheSame(s)
      BY <1>1, <3>1, WhoDescribes DEF OwnershipInv
    <3>3. TableStays(q) /\ HookStays(q)
      BY <1>1, <2>4, TableStaysElsewhere, HookStaysElsewhere DEF HooksTypeOK
    <3>. QED  BY <2>2, <2>4, <3>2, <3>3 DEF ContentOf, SaysTheSame, TableStays, HookStays
  <2>5. CASE Owns(q, s) /\ q = p
    <3>1. CASE FillTopology(p) \/ FillMeta(p)
      BY <2>1, <2>5, <3>1, FillDescribes
    <3>2. CASE ~FillTopology(p) /\ ~FillMeta(p)
      <4>1. SaysTheSame(s)
        BY <1>1, <3>2, WhoDescribes DEF OwnershipInv
      <4>. QED  BY <1>1, <2>1, <2>2, <2>5, <3>2, <4>1, KeepsDescribed
    <3>. QED  BY <3>1, <3>2
  <2>. QED  BY <1>1, <2>3, <2>4, <2>5, OwnedBefore
<1>2. CASE UNCHANGED allVars
  BY <1>2 DEF allVars, hookVars, vars, table, Described, ContentOf, Owns
<1>. QED  BY <1>1, <1>2 DEF HooksNext, HookStep, Described

LEMMA HooksDescribed == HooksSpec => [](InHand /\ Described)
<1>1. HooksInit => InHand /\ Described
  BY SlotTableAssumption DEF HooksInit, Init, InHand, EntryInHand, Described, Owns
<1>2. /\ HooksTypeOK /\ Placed /\ OwnershipInv /\ OwnershipInv' /\ InHand /\ Described
      /\ [HooksNext]_allVars
      => InHand' /\ Described'
  BY InHandStep, DescribedStep
<1>. QED  BY <1>1, <1>2, HooksTyped, HooksOwnership, PTL DEF HooksSpec

(* An entry never lists the nodes of one query under the text of another.  *)
THEOREM EntryDescribesOneQueryHolds == HooksSpec => []EntryDescribesOneQuery
<1>1. Described => EntryDescribesOneQuery
  BY DEF Described, ContentOf, EntryDescribesOneQuery
<1>. QED  BY <1>1, HooksDescribed, PTL

-----------------------------------------------------------------------------
(* What errors and reloads have not disturbed.                             *)
SetUpOf(p) ==
    /\ "reload" \notin raised => enabled[p]
    /\ raised \subseteq {"reload", "subabort"} =>
          /\ pc[p] \notin {"catch_lock", "catch"}
          /\ pc[p] # "gone" /\ registered[p] => initialized[p]
          /\ exit_callbacks[p] = IF initialized[p] THEN 1 ELSE 0

SetUp == \A p \in Backends : SetUpOf(p)

LEMMA OwnSetUp ==
    ASSUME HooksTypeOK, Placed, NEW p \in Backends, SetUpOf(p), HookStep(p),
           UNCHANGED raised \/ EventNext(p)
    PROVE  SetUpOf(p)'
<1>. USE DEF HooksTypeOK, TypeOK, SetUpOf, Goto, setup, hookVars, vars, local
<1>1. CASE StartNext(p) /\ UNCHANGED raised
  <2>1. CASE InitializeState(p)
    BY <1>1, <2>1 DEF InitializeState, Register
  <2>2. CASE InitializeFails(p)
    BY <1>1, <2>2 DEF InitializeFails, ExitStart
  <2>3. CASE StartCatchLock(p) \/ StartCatch(p)
    BY <1>1, <2>3 DEF StartCatchLock, StartCatch, CatchLock, LockExclusive, CatchRelease,
                      ExitCallback
  <2>4. CASE Lookup(p)
    BY <1>1, <2>4 DEF Lookup, LookupStep, LookupFound, LookupClaim, LookupMiss, LookupReturn
  <2>5. CASE /\ ~InitializeState(p) /\ ~InitializeFails(p) /\ ~StartCatchLock(p)
             /\ ~StartCatch(p) /\ ~Lookup(p)
    BY <1>1, <2>5
    DEF StartNext, StartHook, StartLookup, LookupStart, FillTopology, FillMeta, StartDone,
        StartExhausted, FillDone
  <2>. QED  BY <2>1, <2>2, <2>3, <2>4, <2>5
<1>2. CASE EndNext(p) /\ UNCHANGED raised
  BY <1>2
  DEF EndNext, EndHook, EndLookup, LookupStart, EndHookLock, EndLock, LockExclusive, EndCollect,
      EndRelease, EndInactive, EndUnlock, EndDone
<1>3. CASE HookAbortNext(p) /\ UNCHANGED raised
  BY <1>3
  DEF HookAbortNext, AbortTransaction, query_cleanup_callback, AbortScan, AbortStart, AbortStep,
      AbortRelease, AbortMiss, AbortReturn
<1>4. CASE SignalNext(p) /\ UNCHANGED raised
  BY <1>4
  DEF SignalNext, Poll, PollNext, PollStart, PollEnd, RequestMetrics, HandlerScan, HandlerCollect
<1>5. CASE LeaveNext(p) /\ UNCHANGED raised
  BY <1>5
  DEF LeaveNext, ExitBackend, ExitStart, ExitLock, LockExclusive, BackendGone, ExitRelease,
      ExitCallback, NewBackend, Connect, Forget
<1>6. CASE EventNext(p)
  <2>1. CASE (StartError(p) \/ EndFails(p)) /\ Raise("walk_error")
    <3>1. enabled' = enabled /\ ~(raised' \subseteq {"reload", "subabort"})
          /\ ("reload" \in raised => "reload" \in raised')
      BY <2>1 DEF StartError, EndFails, Raise
    <3>. QED  BY <3>1
  <2>2. CASE AbortSubTransaction(p) /\ Raise("subabort")
    BY <2>2 DEF AbortSubTransaction, Raise
  <2>3. CASE Reload(p) /\ Raise("reload")
    BY <2>3 DEF Reload, Raise
  <2>4. CASE HandlerFails(p) /\ Raise("handler_error")
    <3>1. enabled' = enabled /\ ~(raised' \subseteq {"reload", "subabort"})
          /\ ("reload" \in raised => "reload" \in raised')
      BY <2>4 DEF HandlerFails, HandlerFailsStart, HandlerFailsEnd, HandlerFailsQuery,
                  HandlerJumps, Raise
    <3>. QED  BY <3>1
  <2>. QED  BY <1>6, <2>1, <2>2, <2>3, <2>4 DEF EventNext
<1>7. UNCHANGED raised => StartNext(p) \/ EndNext(p) \/ HookAbortNext(p) \/ SignalNext(p)
                          \/ LeaveNext(p) \/ EventNext(p)
  BY DEF HookStep
<1>. QED  BY <1>1, <1>2, <1>3, <1>4, <1>5, <1>6, <1>7

(* A step is that of a hook or of the environment, which raises an event.  *)
LEMMA RaisedGrows ==
    ASSUME [HooksNext]_allVars
    PROVE  /\ raised \subseteq raised'
           /\ \/ UNCHANGED allVars
              \/ \E p \in Backends :
                     HookStep(p) /\ (UNCHANGED raised \/ EventNext(p))
BY DEF HooksNext, allVars, HookStep, EventNext, Raise

LEMMA SetUpStep ==
    ASSUME HooksTypeOK, Placed, SetUp, [HooksNext]_allVars
    PROVE  SetUp'
<1>1. ASSUME NEW p \in Backends, HookStep(p), UNCHANGED raised \/ EventNext(p),
             NEW q \in Backends
      PROVE  SetUpOf(q)'
  <2>1. CASE q = p
    BY <1>1, <2>1, OwnSetUp DEF SetUp
  <2>2. CASE q # p
    <3>1. TableStays(q) /\ HookStays(q) /\ raised \subseteq raised'
      BY <1>1, <2>2, TableStaysElsewhere, HookStaysElsewhere, RaisedGrows DEF HooksTypeOK
    <3>. QED  BY <3>1 DEF SetUp, SetUpOf, TableStays, HookStays
  <2>. QED  BY <2>1, <2>2
<1>2. CASE UNCHANGED allVars
  BY <1>2 DEF allVars, hookVars, vars, setup, SetUp, SetUpOf
<1>. QED  BY <1>1, <1>2, RaisedGrows DEF SetUp

LEMMA HooksSetUp == HooksSpec => []SetUp
<1>1. HooksInit => SetUp
  BY SlotTableAssumption DEF HooksInit, Init, SetUp, SetUpOf
<1>. QED  BY <1>1, SetUpStep, HooksTyped, PTL DEF HooksSpec

(* Only errors that were caught register the callbacks again. *)
THEOREM RegistersOnceHolds == HooksSpec => []RegistersOnce
<1>1. SetUp => RegistersOnce
  <2>. SUFFICES ASSUME SetUp, raised \subseteq {"reload", "subabort"}, NEW p \in Backends
                PROVE  exit_callbacks[p] <= 1
    BY DEF RegistersOnce
  <2>1. exit_callbacks[p] = IF initialized[p] THEN 1 ELSE 0
    BY DEF SetUp, SetUpOf
  <2>. QED  BY <2>1
<1>. QED  BY <1>1, HooksSetUp, PTL

-----------------------------------------------------------------------------
(* CURRENT_QUERY_DESC is only set while its backend owns an entry, so the  *)
(* end of the query it points at finds the entry and clears it; and it is  *)
(* cleared before anything else gives the entry back.                      *)
DescSafe(p) ==
    /\ initialized[p]
    /\ hook[p] = "abort" \/ CURRENT_QUERY_DESC[p] \in open[p]
    /\ pc[p] \notin {"catch_lock", "catch", "abort", "abort_release"}
    /\ ~(hook[p] = "ending" /\ pc[p] = "idle")
DescOf(p) ==
    CURRENT_QUERY_DESC[p] # NoQuery => DescSafe(p) /\ \E s \in Slots : Owns(p, s)

Followed ==
    ~overwritten /\ raised \subseteq {"walk_error"} => \A p \in Backends : DescOf(p)

LEMMA DescStays ==
    ASSUME HooksTypeOK, OwnershipInv, Placed, SetUp, NEW p \in Backends, DescOf(p), HookStep(p),
           CURRENT_QUERY_DESC[p] # NoQuery, raised \subseteq raised',
           raised' \subseteq {"walk_error"}, ~StartDone(p)
    PROVE  \/ CURRENT_QUERY_DESC'[p] = NoQuery
           \/ DescSafe(p)' /\ (pc[p] \notin ReleasesAt \/ UNCHANGED table)
<1>. USE DEF HooksTypeOK, TypeOK, Goto, HookGoto, LeaveHook, setup, hookVars, vars, local,
         pwh_set_current_query_desc, DescOf, DescSafe, ReleasesAt, Ready
<1>. DEFINE Goal == \/ CURRENT_QUERY_DESC'[p] = NoQuery
                    \/ DescSafe(p)' /\ (pc[p] \notin ReleasesAt \/ UNCHANGED table)
<1>1. CASE StartNext(p)
  <2>1. CASE Lookup(p)
    <3>1. CASE LookupMiss(p)
      BY <3>1 DEF LookupMiss, OwnershipInv, ScanFoundNone, Owns
    <3>2. CASE ~LookupMiss(p)
      BY <2>1, <3>2
      DEF Lookup, LookupStep, LookupFound, LookupClaim, LookupReturn, MayClaim
    <3>. QED  BY <3>1, <3>2
  <2>2. CASE InitializeState(p) \/ InitializeFails(p)
    BY <2>2 DEF InitializeState, InitializeFails
  <2>3. CASE StartCatchLock(p) \/ StartCatch(p)
    BY <2>3 DEF StartCatchLock, StartCatch, CatchLock, LockExclusive, CatchRelease, ExitCallback
  <2>4. CASE StartLookup(p)
    BY <2>4 DEF StartLookup, LookupStart
  <2>5. ASSUME NEW q \in Queries, StartHook(p, q) PROVE Goal
    BY <2>5 DEF StartHook
  <2>6. CASE FillTopology(p) \/ FillMeta(p) \/ StartExhausted(p)
    BY <2>6 DEF FillTopology, FillMeta, StartExhausted, FillDone
  <2>. QED  BY <1>1, <2>1, <2>2, <2>3, <2>4, <2>5, <2>6 DEF StartNext
<1>2. CASE EndNext(p)
  <2>1. ASSUME NEW q \in Queries, EndHook(p, q) PROVE Goal
    BY <2>1 DEF EndHook, SetUp, SetUpOf
  <2>2. CASE EndLookup(p)
    BY <2>2 DEF EndLookup, LookupStart
  <2>3. CASE EndHookLock(p)
    BY <2>3 DEF EndHookLock, EndLock, LockExclusive
  <2>4. CASE EndCollect(p)
    BY <2>4 DEF EndCollect
  <2>5. CASE EndDone(p)
    BY <2>5 DEF EndDone
  <2>. QED  BY <1>2, <2>1, <2>2, <2>3, <2>4, <2>5 DEF EndNext
<1>3. CASE HookAbortNext(p)
  <2>1. CASE AbortTransaction(p)
    BY <2>1 DEF AbortTransaction
  <2>2. CASE query_cleanup_callback(p)
    BY <2>2 DEF query_cleanup_callback, Placed, PlaceOf
  <2>3. CASE AbortScan(p)
    BY <2>3 DEF AbortScan, AbortStep, AbortRelease, AbortMiss
  <2>. QED  BY <1>3, <2>1, <2>2, <2>3 DEF HookAbortNext
<1>4. CASE SignalNext(p)
  <2>1. CASE Poll(p)
    BY <2>1 DEF Poll, PollNext, PollStart, PollEnd
  <2>. QED  BY <1>4, <2>1 DEF SignalNext, RequestMetrics, HandlerScan, HandlerCollect
<1>5. CASE LeaveNext(p)
  <2>1. CASE ExitBackend(p)
    BY <2>1 DEF ExitBackend, ExitStart, ExitLock, LockExclusive
  <2>2. CASE Forget(p)
    BY <2>2 DEF Forget
  <2>. QED  BY <1>5, <2>1, <2>2 DEF LeaveNext, BackendGone, NewBackend
<1>6. CASE EventNext(p)
  BY <1>6 DEF EventNext, Raise, StartError, EndFails
<1>. QED  BY <1>1, <1>2, <1>3, <1>4, <1>5, <1>6 DEF HookStep

(* Only the end of query_start_hook points the descriptor at a query.      *)
LEMMA DescIsKept ==
    ASSUME HooksTypeOK, NEW p \in Backends, HookStep(p), ~StartDone(p)
    PROVE  CURRENT_QUERY_DESC'[p] \in {CURRENT_QUERY_DESC[p], NoQuery}
BY DEF HooksTypeOK, HookStep, StartNext, StartHook, InitializeState, InitializeFails, StartLookup,
       Lookup, FillTopology, FillMeta, StartExhausted, StartCatchLock, StartCatch,
       EndNext, EndHook, EndLookup, EndHookLock, EndCollect, EndDone, HookAbortNext,
       AbortTransaction, query_cleanup_callback, AbortScan, SignalNext, Poll, RequestMetrics,
       HandlerScan, HandlerCollect, LeaveNext, ExitBackend, BackendGone, NewBackend, Forget,
       EventNext, StartError, EndFails, AbortSubTransaction, Reload, hookVars,
       HandlerFails, HandlerFailsStart, HandlerFailsEnd, HandlerFailsQuery, HandlerJumps,
       pwh_set_current_query_desc

(* The entry that a start has filled in is still its own.                  *)
LEMMA StartDoneOwns ==
    ASSUME HooksTypeOK, OwnershipInv, Placed, ~overwritten, NEW p \in Backends, StartDone(p)
    PROVE  \E s \in Slots : Owns(p, s)'
<1>1. hook[p] = "set" /\ pc[p] = "fill" /\ be[p] \in Slots
  BY DEF StartDone, FillDone, Placed, PlaceOf, HooksTypeOK, TypeOK, Filling
<1>2. backend_pid[be[p]] = p
  BY <1>1 DEF HoldsEntry, OwnershipInv, EntryIsOwned, FillsOwnEntry
<1>3. backend_pid' = backend_pid
  BY DEF StartDone, FillDone, table
<1>. QED  BY <1>1, <1>2, <1>3 DEF Owns

LEMMA FollowedStep ==
    ASSUME HooksTypeOK, OwnershipInv, Placed, SetUp, Followed, [HooksNext]_allVars
    PROVE  Followed'
<1>. USE DEF HooksTypeOK
<1>1. ASSUME NEW p \in Backends, HookStep(p), ~overwritten', raised' \subseteq {"walk_error"},
             NEW q \in Backends, CURRENT_QUERY_DESC'[q] # NoQuery
      PROVE  DescSafe(q)' /\ \E s \in Slots : Owns(q, s)'
  <2>1. raised \subseteq raised' /\ ~overwritten /\ DescOf(q)
    BY <1>1, RaisedGrows, OverwrittenStays DEF Followed
  <2>2. CASE q # p
    <3>1. TableStays(q) /\ HookStays(q)
      BY <1>1, <2>2, TableStaysElsewhere, HookStaysElsewhere
    <3>. QED  BY <1>1, <2>1, <2>2, <3>1, OwnedAfter DEF DescOf, DescSafe, TableStays, HookStays
  <2>3. CASE q = p /\ StartDone(p)
    <3>1. /\ hook[p] = "set" /\ pc[p] = "fill" /\ be[p] \in Slots
          /\ cur[p] \in open[p] /\ initialized[p]
      BY <2>3 DEF StartDone, FillDone, Placed, PlaceOf, TypeOK, Filling
    <3>2. \E s \in Slots : Owns(p, s)'
      BY <2>1, <2>3, StartDoneOwns
    <3>3. DescSafe(p)'
      BY <2>3, <3>1
      DEF StartDone, FillDone, DescSafe, Goto, LeaveHook, HookGoto, setup, TypeOK,
          pwh_set_current_query_desc
    <3>. QED  BY <2>3, <3>2, <3>3
  <2>4. CASE q = p /\ ~StartDone(p)
    <3>1. CURRENT_QUERY_DESC[p] # NoQuery
      BY <1>1, <2>4, DescIsKept
    <3>2. DescSafe(p)' /\ (pc[p] \notin ReleasesAt \/ UNCHANGED table)
      BY <1>1, <2>1, <2>4, <3>1, DescStays
    <3>3. PICK s \in Slots : Owns(p, s)
      BY <2>1, <2>4, <3>1 DEF DescOf
    <3>4. Owns(p, s)'
      BY <1>1, <3>2, <3>3, OwnedAfter DEF table, Owns
    <3>. QED  BY <2>4, <3>2, <3>4
  <2>. QED  BY <2>2, <2>3, <2>4
<1>2. CASE UNCHANGED allVars
  BY <1>2
  DEF allVars, hookVars, vars, table, setup, Followed, DescOf, DescSafe, Owns
<1>. QED  BY <1>1, <1>2, RaisedGrows DEF Followed, DescOf

LEMMA HooksFollowed == HooksSpec => []Followed
<1>1. HooksInit => Followed
  BY DEF HooksInit, Followed, DescOf
<1>. QED
  BY <1>1, FollowedStep, HooksTyped, HooksOwnership, HooksSetUp, PTL DEF HooksSpec

(* The signal handler follows a descriptor of an open query, also after an *)
(* error in a walk.                                                        *)
THEOREM QueryDescSurvivesErrorsHolds == HooksSpec => []QueryDescSurvivesErrors
<1>1. Followed => QueryDescSurvivesErrors
  BY DEF Followed, DescOf, DescSafe, QueryDescSurvivesErrors, QueryDescIsLive
<1>. QED  BY <1>1, HooksFollowed, PTL

-----------------------------------------------------------------------------
(* As long as nothing unusual happens, the owner of an entry has a query   *)
(* open, or is in the abort that gives the entry back.                     *)
HeldWell(p) ==
    /\ open[p] # {} \/ hook[p] = "abort" \/ pc[p] \in {"abort", "abort_release"}
    /\ ~(hook[p] = "ending" /\ pc[p] = "idle")

Held == raised = {} => \A p \in Backends, s \in Slots : Owns(p, s) => HeldWell(p)

LEMMA HeldAfter ==
    ASSUME HooksTypeOK, OwnershipInv, OwnershipInv', Placed, InHand, SetUp, raised = {},
           raised' = {}, NEW p \in Backends, NEW s \in Slots, HookStep(p),
           Owns(p, s), Owns(p, s)', HeldWell(p)
    PROVE  HeldWell(p)'
<1>. USE DEF HooksTypeOK, TypeOK, Goto, HookGoto, LeaveHook, setup, hookVars, vars, local, Ready,
         HeldWell, Owns
<1>1. registered[p] /\ initialized[p] /\ enabled[p] /\ pc[p] \notin {"gone", "catch",
"catch_lock"}
  BY DEF SetUp, SetUpOf, OwnershipInv, UnregisteredOwnsNothing, GoneOwnsNothing
<1>2. CASE StartNext(p)
  <2>1. CASE Lookup(p)
    <3>1. CASE LookupMiss(p)
      BY <3>1 DEF LookupMiss, OwnershipInv, ScanFoundNone
    <3>2. CASE ~LookupMiss(p)
      BY <2>1, <3>2
      DEF Lookup, LookupStep, LookupFound, LookupClaim, LookupReturn, MayClaim, Placed, PlaceOf
    <3>. QED  BY <3>1, <3>2
  <2>2. ASSUME NEW q \in Queries, StartHook(p, q) PROVE HeldWell(p)'
    BY <2>2 DEF StartHook
  <2>3. CASE StartLookup(p)
    BY <2>3 DEF StartLookup, LookupStart
  <2>4. CASE FillTopology(p) \/ FillMeta(p) \/ StartDone(p) \/ StartExhausted(p)
    BY <2>4 DEF FillTopology, FillMeta, StartDone, StartExhausted, FillDone
  <2>. QED
    BY <1>1, <1>2, <2>1, <2>2, <2>3, <2>4
    DEF StartNext, InitializeState, InitializeFails, StartCatchLock, StartCatch, CatchLock,
        LockExclusive, CatchRelease, ExitCallback
<1>3. CASE EndNext(p)
  <2>1. ASSUME NEW q \in Queries, EndHook(p, q) PROVE HeldWell(p)'
    BY <1>1, <2>1 DEF EndHook
  <2>2. CASE EndLookup(p)
    BY <2>2 DEF EndLookup, LookupStart
  <2>3. CASE EndHookLock(p)
    BY <2>3 DEF EndHookLock, EndLock, LockExclusive
  <2>4. CASE EndCollect(p)
    <3>1. s = be[p]
      BY <2>4 DEF EndCollect, EndRelease, EndInactive, EndUnlock, InHand, EntryInHand
    <3>2. backend_pid[s] # NoPid /\ backend_pid'[s] # NoPid
      BY SlotTableAssumption
    <3>. QED  BY <2>4, <3>1, <3>2 DEF EndCollect, EndRelease, EndInactive, Free, Active
  <2>5. CASE EndDone(p)
    BY <2>5 DEF EndDone
  <2>. QED  BY <1>3, <2>1, <2>2, <2>3, <2>4, <2>5 DEF EndNext
<1>4. CASE HookAbortNext(p)
  <2>1. CASE AbortTransaction(p)
    BY <2>1 DEF AbortTransaction
  <2>2. CASE query_cleanup_callback(p)
    BY <1>1, <2>2 DEF query_cleanup_callback, AbortStart
  <2>3. CASE AbortStep(p) /\ UNCHANGED hookVars
    BY <2>3 DEF AbortStep
  <2>4. CASE AbortRelease(p)
    BY <2>4, SlotTableAssumption DEF AbortRelease, Free, InHand, EntryInHand
  <2>5. CASE AbortMiss(p)
    BY <2>5, SMTT(30) DEF AbortMiss, InHand, EntryInHand
  <2>. QED  BY <1>4, <2>1, <2>2, <2>3, <2>4, <2>5 DEF HookAbortNext, AbortScan
<1>5. CASE SignalNext(p)
  BY <1>5
  DEF SignalNext, Poll, PollNext, PollStart, PollEnd, RequestMetrics, HandlerScan, HandlerCollect
<1>6. CASE LeaveNext(p)
  <2>1. CASE ExitBackend(p)
    BY <2>1 DEF ExitBackend, ExitStart, ExitLock, LockExclusive, Placed, PlaceOf
  <2>2. CASE BackendGone(p)
    BY <2>2 DEF BackendGone, ExitRelease, ExitCallback, OwnershipInv, GoneOwnsNothing
  <2>3. CASE NewBackend(p)
    BY <1>1, <2>3 DEF NewBackend, Connect
  <2>. QED  BY <1>6, <2>1, <2>2, <2>3 DEF LeaveNext
<1>7. ~EventNext(p)
  BY DEF EventNext, Raise
<1>. QED  BY <1>2, <1>3, <1>4, <1>5, <1>6, <1>7 DEF HookStep

LEMMA HeldStep ==
    ASSUME HooksTypeOK, OwnershipInv, OwnershipInv', Placed, InHand, SetUp, Held,
           [HooksNext]_allVars
    PROVE  Held'
<1>. USE DEF HooksTypeOK
<1>1. ASSUME NEW p \in Backends, HookStep(p), raised' = {},
             NEW q \in Backends, NEW s \in Slots, Owns(q, s)'
      PROVE  HeldWell(q)'
  <2>1. raised = {} /\ (Owns(q, s) => HeldWell(q))
    BY <1>1, RaisedGrows DEF Held
  <2>2. CASE q = p /\ LookupClaim(p)
    <3>1. cur[p] \in open'[p]
      BY <1>1, <2>2, ClaimInWalk
    <3>2. hook'[p] = "walk"
      BY <1>1, <2>2, ClaimInWalk
    <3>. QED  BY <2>2, <3>1, <3>2 DEF HeldWell
  <2>3. CASE Owns(q, s) /\ q # p
    <3>1. TableStays(q) /\ HookStays(q)
      BY <1>1, <2>3, TableStaysElsewhere, HookStaysElsewhere
    <3>. QED  BY <2>1, <2>3, <3>1 DEF HeldWell, TableStays, HookStays
  <2>4. CASE Owns(q, s) /\ q = p
    BY <1>1, <2>1, <2>4, HeldAfter
  <2>. QED  BY <1>1, <2>2, <2>3, <2>4, OwnedBefore
<1>2. CASE UNCHANGED allVars
  BY <1>2 DEF allVars, hookVars, vars, table, setup, Held, HeldWell, Owns
<1>. QED  BY <1>1, <1>2, RaisedGrows DEF Held

(* Without errors, reloads and subtransaction aborts, a backend outside of *)
(* the hooks only owns an entry while a query is open.                     *)
THEOREM EntryMeansRunningHolds == HooksSpec => []EntryMeansRunning
<1>1. HooksInit => Held
  BY SlotTableAssumption DEF HooksInit, Init, Held, Owns
<1>2. Held => EntryMeansRunning
  BY DEF Held, HeldWell, EntryMeansRunning, Ready
<1>3. (InHand /\ Described) => InHand
  OBVIOUS
<1>. QED
  BY <1>1, <1>2, <1>3, HeldStep, HooksTyped, HooksOwnership, HooksSetUp, HooksDescribed, PTL
  DEF HooksSpec

-----------------------------------------------------------------------------
(* The numbers of an entry.  The signal handler writes to the entry it has *)
(* found and says what the descriptor says, so it matters that both stay   *)
(* as they are while it runs, and what the entry lists meanwhile.          *)
HandlingOwn ==
    ~overwritten => \A p \in Backends : handling[p] # NoSlot => Owns(p, handling[p])

(* Outside of a start, the entry lists the plan of CURRENT_QUERY_DESC.     *)
TellsDesc(p, s) ==
    hook[p] \notin Filling /\ CURRENT_QUERY_DESC[p] # NoQuery =>
        content[s].topology = <<p, CURRENT_QUERY_DESC[p]>>

DescTold ==
    ~overwritten => \A p \in Backends, s \in Slots : Owns(p, s) => TellsDesc(p, s)

LEMMA HandlerAlone ==
    ASSUME HooksTypeOK, Placed, NEW p \in Backends, HookStep(p), handling[p] # NoSlot,
           ~HandlerFails(p)
    PROVE  /\ UNCHANGED <<vars, hook, cur, open, CURRENT_QUERY_DESC, shown>>
           /\ HandlerCollect(p) \/ UNCHANGED <<handling, content>>
<1>1. pc[p] # "gone"
  BY DEF Placed, PlaceOf
<1>. QED
  BY <1>1
  DEF HookStep, StartNext, StartHook, InitializeState, InitializeFails, StartLookup, Lookup,
      FillTopology, FillMeta, StartDone, StartExhausted, StartCatchLock, StartCatch,
      EndNext, EndHook, EndLookup, EndHookLock, EndCollect, EndDone, HookAbortNext,
      AbortTransaction, query_cleanup_callback, AbortScan, SignalNext, Poll, RequestMetrics,
      HandlerScan, HandlerCollect, LeaveNext, ExitBackend, BackendGone, NewBackend, Connect,
      EventNext, StartError, EndFails, AbortSubTransaction, Reload, Ready, Running

LEMMA HandlerStarts ==
    ASSUME HooksTypeOK, Placed, NEW p \in Backends, HookStep(p), handling[p] = NoSlot,
           handling'[p] # NoSlot
    PROVE  UNCHANGED vars /\ Owns(p, handling'[p])
<1>1. HandlerScan(p)
  BY DEF HookStep, StartNext, StartHook, InitializeState, InitializeFails, StartLookup, Lookup,
      FillTopology, FillMeta, StartDone, StartExhausted, StartCatchLock, StartCatch,
      EndNext, EndHook, EndLookup, EndHookLock, EndCollect, EndDone, HookAbortNext,
      AbortTransaction, query_cleanup_callback, AbortScan, SignalNext, Poll, RequestMetrics,
      HandlerCollect, Running, LeaveNext, ExitBackend, BackendGone, NewBackend, Forget,
      EventNext, StartError, EndFails, AbortSubTransaction, Reload, hookVars,
      HandlerFails, HandlerFailsStart, HandlerFailsEnd, HandlerFailsQuery, HandlerJumps
<1>2. FirstOf(p, handling'[p])
  BY <1>1 DEF HandlerScan, HooksTypeOK
<1>. QED  BY <1>1, <1>2 DEF HandlerScan, FirstOf, Owns

LEMMA HandlingStep ==
    ASSUME HooksTypeOK, OwnershipInv, Placed, HandlingOwn, [HooksNext]_allVars
    PROVE  HandlingOwn'
<1>1. ASSUME NEW p \in Backends, HookStep(p), ~overwritten', NEW q \in Backends,
             handling'[q] # NoSlot
      PROVE  Owns(q, handling[q])'
  <2>1. handling[q] # NoSlot => handling[q] \in Slots /\ Owns(q, handling[q])
    BY <1>1, OverwrittenStays DEF HandlingOwn, HooksTypeOK
  <2>2. CASE q # p
    <3>1. handling'[q] = handling[q]
      BY <1>1, <2>2, HookStaysElsewhere DEF HookStays
    <3>2. Owns(q, handling[q])'
      BY <1>1, <2>1, <2>2, <3>1, OwnedAfter DEF Owns
    <3>. QED  BY <3>1, <3>2 DEF Owns
  <2>3. CASE q = p /\ handling[p] = NoSlot
    BY <1>1, <2>3, HandlerStarts DEF Owns, vars, table
  <2>4. CASE q = p /\ handling[p] # NoSlot
    <3>1. ~HandlerCollect(p) /\ ~HandlerFails(p)
      BY <1>1, <2>4
      DEF HandlerCollect, HandlerFails, HandlerFailsStart, HandlerFailsEnd, HandlerFailsQuery,
          HandlerJumps, HooksTypeOK
    <3>2. UNCHANGED backend_pid /\ handling' = handling
      BY <1>1, <2>4, <3>1, HandlerAlone DEF vars, table
    <3>. QED  BY <2>1, <2>4, <3>1, <3>2 DEF Owns
  <2>. QED  BY <2>2, <2>3, <2>4
<1>2. CASE UNCHANGED allVars
  BY <1>2 DEF allVars, hookVars, vars, table, HandlingOwn, Owns
<1>. QED  BY <1>1, <1>2, RaisedGrows DEF HandlingOwn

(* A backend writes to no entry but its own.                               *)
LEMMA OthersAreLeftAlone ==
    ASSUME HooksTypeOK, OwnershipInv, Placed, HandlingOwn, ~overwritten,
           NEW p \in Backends, HookStep(p), NEW s \in Slots, ~Owns(p, s)
    PROVE  content'[s] = content[s]
<1>. USE DEF HooksTypeOK, Owns
<1>1. CASE FillTopology(p) \/ FillMeta(p)
  <2>1. be[p] \in Slots /\ HoldsEntry(p)
    BY <1>1 DEF FillTopology, FillMeta, HoldsEntry, Placed, PlaceOf, TypeOK
  <2>2. s # be[p]
    BY <2>1 DEF OwnershipInv, EntryIsOwned, FillsOwnEntry
  <2>. QED  BY <1>1, <2>2 DEF FillTopology, FillMeta
<1>2. CASE Collects(p)
  <2>1. ASSUME Running(p) PROVE s # be[p]
    <3>1. HoldsEntry(p)
      BY <1>2, <2>1
      DEF Collects, EndCollect, EndFails, EndRelease, EndInactive, EndError, EndUnlock,
          HandlerCollect, HandlerFails, HandlerFailsStart, HandlerFailsEnd, HandlerFailsQuery,
          HandlerJumps, HoldsEntry
    <3>. QED  BY <3>1 DEF OwnershipInv, EntryIsOwned, FillsOwnEntry
  <2>2. ASSUME ~Running(p) PROVE s # handling[p]
    BY <2>2 DEF HandlingOwn, Running
  <2>3. s # Target(p)
    BY <2>1, <2>2 DEF Target
  <2>. QED  BY <1>2, <2>3, WhatIsCollected
<1>4. CASE ~Collects(p) /\ ~FillTopology(p) /\ ~FillMeta(p)
  BY <1>4, WritesNothing
<1>. QED  BY <1>1, <1>2, <1>4

LEMMA ToldStep ==
    ASSUME HooksTypeOK, OwnershipInv, OwnershipInv', Placed, InHand, Described, HandlingOwn,
           DescTold, [HooksNext]_allVars
    PROVE  DescTold'
<1>1. ASSUME NEW p \in Backends, HookStep(p), ~overwritten', NEW q \in Backends, NEW s \in Slots,
             Owns(q, s)'
      PROVE  TellsDesc(q, s)'
  <2>1. ~overwritten /\ (Owns(q, s) => TellsDesc(q, s))
    BY <1>1, OverwrittenStays DEF DescTold
  <2>2. CASE q = p /\ LookupClaim(p)
    BY <1>1, <2>2, ClaimInWalk DEF TellsDesc, Filling
  <2>3. CASE Owns(q, s) /\ q # p
    <3>1. content'[s] = content[s]
      BY <1>1, <2>1, <2>3, OthersAreLeftAlone DEF Owns
    <3>2. HookStays(q)
      BY <1>1, <2>3, HookStaysElsewhere
    <3>. QED  BY <2>1, <2>3, <3>1, <3>2 DEF TellsDesc, HookStays
  <2>4. CASE Owns(q, s) /\ q = p
    <3>1. CASE FillTopology(p) \/ FillMeta(p)
      BY <2>4, <3>1 DEF FillTopology, FillMeta, HookGoto, HooksTypeOK, TellsDesc, Filling
    <3>2. CASE StartDone(p)
      <4>1. hook[p] = "set" /\ pc[p] = "fill" /\ content' = content
            /\ CURRENT_QUERY_DESC'[p] = cur[p]
        BY <3>2 DEF StartDone, FillDone, HooksTypeOK, pwh_set_current_query_desc
      <4>2. content[s].topology = <<p, cur[p]>>
        BY <2>1, <2>4, <4>1 DEF Described, ContentOf
      <4>. QED  BY <2>4, <4>1, <4>2 DEF TellsDesc
    <3>3. CASE StartExhausted(p) \/ StartCatch(p)
      BY <1>1, <2>4, <3>3, LeavesOwnNothing
    <3>4. CASE BackendGone(p) \/ NewBackend(p)
      BY <2>4, <3>4 DEF BackendGone, NewBackend, Forget, HooksTypeOK, TellsDesc,
                        pwh_set_current_query_desc
    <3>5. CASE ~FillTopology(p) /\ ~FillMeta(p) /\ ~StartDone(p) /\ ~StartExhausted(p)
               /\ ~StartCatch(p) /\ ~BackendGone(p) /\ ~NewBackend(p)
      <4>1. SaysTheSame(s)
        BY <1>1, <3>5, WhoDescribes DEF OwnershipInv
      <4>2. hook'[p] \notin Filling => hook[p] \notin Filling
        BY <1>1, <3>5, SettledBefore
      <4>3. CURRENT_QUERY_DESC'[p] \in {CURRENT_QUERY_DESC[p], NoQuery}
        BY <1>1, <3>5, DescIsKept
      <4>. QED  BY <2>1, <2>4, <4>1, <4>2, <4>3 DEF TellsDesc, SaysTheSame
    <3>. QED  BY <3>1, <3>2, <3>3, <3>4, <3>5
  <2>. QED  BY <1>1, <2>2, <2>3, <2>4, OwnedBefore
<1>2. CASE UNCHANGED allVars
  BY <1>2 DEF allVars, hookVars, vars, table, DescTold, TellsDesc, Owns
<1>. QED  BY <1>1, <1>2, RaisedGrows DEF DescTold

LEMMA HooksTold == HooksSpec => [](HandlingOwn /\ DescTold)
<1>1. HooksInit => HandlingOwn /\ DescTold
  BY SlotTableAssumption DEF HooksInit, Init, HandlingOwn, DescTold, TellsDesc, Owns
<1>2. /\ HooksTypeOK /\ Placed /\ OwnershipInv /\ OwnershipInv' /\ InHand /\ Described
      /\ HandlingOwn /\ DescTold /\ [HooksNext]_allVars
      => HandlingOwn' /\ DescTold'
  BY HandlingStep, ToldStep
<1>. QED  BY <1>1, <1>2, HooksTyped, HooksOwnership, HooksDescribed, PTL DEF HooksSpec

(* The values of an entry are those of what it lists, from the step that   *)
(* writes the nodes: a signal during the start has nothing to follow, if   *)
(* there was nothing to follow when the nodes were listed.                 *)
Listed(p) == hook[p] \notin Filling \/ (pc[p] = "fill" /\ hook[p] # "walk")
ValuesOf(p, s) ==
    content[s].followed = NoQuery =>
        /\ Listed(p) => content[s].values \in {NoQuery, content[s].topology}
        /\ pc[p] = "fill" /\ hook[p] \in {"meta", "set"} => CURRENT_QUERY_DESC[p] = NoQuery

ValuesListed ==
    ~overwritten /\ "walk_error" \notin raised =>
        \A p \in Backends, s \in Slots : Owns(p, s) => ValuesOf(p, s)

(* A collection in the end hook only stops half-way with an error.         *)
LEMMA EndFailsRaises ==
    ASSUME HooksTypeOK, NEW p \in Backends, HookStep(p), EndFails(p), ~EndCollect(p),
           UNCHANGED raised \/ EventNext(p)
    PROVE  "walk_error" \in raised'
<1>1. pc[p] = "end" /\ pc'[p] = "idle" /\ Running(p)
  BY DEF EndFails, EndError, EndUnlock, Goto, HooksTypeOK, TypeOK
<1>2. ~StartNext(p)
  BY <1>1
  DEF StartNext, StartHook, InitializeState, Register, InitializeFails, ExitStart, StartLookup,
      LookupStart, Lookup, LookupStep, LookupFound, LookupClaim, MayClaim, LookupMiss,
      FillTopology, FillMeta, StartDone, StartExhausted, FillDone, StartCatchLock, CatchLock,
      LockExclusive, StartCatch, CatchRelease, ExitCallback, Ready
<1>3. ~EndNext(p)
  BY <1>1
  DEF EndNext, EndHook, Ready, EndLookup, LookupStart, EndHookLock, EndLock, LockExclusive,
      EndDone
<1>4. ~HookAbortNext(p)
  BY <1>1
  DEF HookAbortNext, AbortTransaction, Ready, query_cleanup_callback, AbortStart, AbortScan,
      AbortStep, AbortRelease, AbortMiss, vars
<1>5. ~SignalNext(p)
  BY <1>1
  DEF SignalNext, Poll, PollNext, PollStart, PollEnd, RequestMetrics, HandlerScan,
      HandlerCollect, vars
<1>6. ~LeaveNext(p)
  BY <1>1
  DEF LeaveNext, ExitBackend, ExitStart, ExitLock, LockExclusive, BackendGone, ExitRelease,
      ExitCallback, NewBackend, Connect
<1>7. ~HandlerFails(p)
  BY <1>1
  DEF HandlerFails, HandlerFailsStart, HandlerFailsEnd, HandlerFailsQuery, HandlerJumps
<1>8. ~AbortSubTransaction(p) /\ ~Reload(p)
  BY <1>1 DEF AbortSubTransaction, Reload, Ready
<1>. QED  BY <1>2, <1>3, <1>4, <1>5, <1>6, <1>7, <1>8 DEF HookStep, EventNext, Raise

(* What the signal handler collects is what the entry lists.               *)
LEMMA HandlerValues ==
    ASSUME HooksTypeOK, OwnershipInv, Placed, HandlingOwn, DescTold, ~overwritten,
           NEW p \in Backends, NEW s \in Slots, Owns(p, s), ValuesOf(p, s),
           content[s].followed = NoQuery, HandlerCollect(p) \/ HandlerFails(p), Listed(p)'
    PROVE  content'[s].values \in {NoQuery, content[s].topology}
<1>. USE DEF HooksTypeOK, TypeOK, Contents
<1>1. /\ handling[p] \in Slots /\ CURRENT_QUERY_DESC[p] # NoQuery
      /\ content' = content \/ Collect(p, handling[p], CURRENT_QUERY_DESC[p])
  BY DEF HandlerCollect, HandlerFails, HandlerFailsStart, HandlerFailsEnd, HandlerFailsQuery,
         HandlerJumps, CollectSome, Running, Placed, PlaceOf
<1>2. s = handling[p]
  <2>1. handling[p] # NoSlot
    BY <1>1, SlotTableAssumption
  <2>2. backend_pid[handling[p]] = p /\ backend_pid[s] = p
    BY <2>1 DEF HandlingOwn, Owns
  <2>3. Active(s)
    BY <2>2, SlotTableAssumption DEF Active
  <2>. QED  BY <1>1, <2>2, <2>3 DEF OwnershipInv, OneSlotPerBackend
<1>3. hook[p] \notin Filling
  <2>. SUFFICES ASSUME hook[p] \in Filling PROVE FALSE
    OBVIOUS
  <2>1. CASE HandlerCollect(p)
    <3>1. pc[p] = "fill" /\ hook[p] \in {"meta", "set"}
      BY <2>1 DEF HandlerCollect, Listed, Filling, vars
    <3>. QED  BY <1>1, <3>1 DEF ValuesOf
  <2>2. CASE HandlerFails(p)
    <3>1. HandlerFailsStart(p)
      BY <2>2 DEF HandlerFails, HandlerFailsEnd, HandlerFailsQuery, Filling
    <3>2. hook'[p] \in Filling /\ pc'[p] \in {"idle", "catch_lock"}
      BY <3>1 DEF HandlerFailsStart, FillError, LookupError, Goto
    <3>. QED  BY <3>2 DEF Listed
  <2>. QED  BY <2>1, <2>2
<1>4. content[s].topology = <<p, CURRENT_QUERY_DESC[p]>>
  BY <1>1, <1>3 DEF DescTold, TellsDesc
<1>5. Listed(p)
  BY <1>3 DEF Listed
<1>6. CASE content' = content
  BY <1>5, <1>6 DEF ValuesOf
<1>7. CASE Collect(p, handling[p], CURRENT_QUERY_DESC[p])
  BY <1>2, <1>4, <1>7 DEF Collect
<1>. QED  BY <1>1, <1>6, <1>7

LEMMA OwnValues ==
    ASSUME HooksTypeOK, OwnershipInv, OwnershipInv', Placed, InHand, HandlingOwn, DescTold,
           ~overwritten, NEW p \in Backends, HookStep(p), UNCHANGED raised \/ EventNext(p),
           "walk_error" \notin raised', NEW s \in Slots, Owns(p, s), Owns(p, s)', ValuesOf(p, s)
    PROVE  ValuesOf(p, s)'
<1>. USE DEF HooksTypeOK, Contents
<1>1. CASE FillTopology(p)
  <2>1. s = be[p]
    BY <1>1 DEF FillTopology, InHand, EntryInHand
  <2>2. /\ content'[s].values = NoQuery
        /\ content'[s].followed = CURRENT_QUERY_DESC[p]
        /\ CURRENT_QUERY_DESC' = CURRENT_QUERY_DESC
    BY <1>1, <2>1 DEF FillTopology
  <2>. QED  BY <2>2 DEF ValuesOf
<1>2. CASE FillMeta(p)
  <2>1. s = be[p] /\ pc[p] = "fill" /\ hook[p] = "meta"
    BY <1>2 DEF FillMeta, InHand, EntryInHand
  <2>2. /\ content'[s].values = content[s].values
        /\ content'[s].topology = content[s].topology
        /\ content'[s].followed = content[s].followed
        /\ CURRENT_QUERY_DESC' = CURRENT_QUERY_DESC
    BY <1>2, <2>1 DEF FillMeta
  <2>. QED  BY <2>1, <2>2 DEF ValuesOf, Listed
<1>3. ASSUME ~FillTopology(p), ~FillMeta(p), content'[s].followed = NoQuery
      PROVE  /\ Listed(p)' => content'[s].values \in {NoQuery, content'[s].topology}
             /\ pc'[p] = "fill" /\ hook'[p] \in {"meta", "set"} =>
                    CURRENT_QUERY_DESC'[p] = NoQuery
  <2>1. content'[s].topology = content[s].topology /\ content[s].followed = NoQuery
    BY <1>3, WhoDescribes DEF OwnershipInv, SaysTheSame
  <2>2. CASE StartDone(p)
    <3>1. content' = content /\ Listed(p) /\ hook'[p] = "none"
      BY <2>2 DEF StartDone, FillDone, Listed, LeaveHook, HookGoto
    <3>. QED  BY <2>1, <3>1 DEF ValuesOf
  <2>3. CASE StartExhausted(p) \/ StartCatch(p)
    BY <2>3, LeavesOwnNothing
  <2>4. CASE BackendGone(p) \/ NewBackend(p)
    BY <2>4, GoneIsBare
  <2>5. CASE ~StartDone(p) /\ ~StartExhausted(p) /\ ~StartCatch(p) /\ ~BackendGone(p)
             /\ ~NewBackend(p)
    <3>1. \/ hook[p] \notin Filling /\ hook'[p] \notin {"meta", "set"}
          \/ /\ hook'[p] = hook[p]
             /\ hook[p] = "walk" \/ pc'[p] # "fill" \/ pc[p] = "fill"
      BY <1>3, <2>5, SettledBefore
    <3>2. CURRENT_QUERY_DESC'[p] \in {CURRENT_QUERY_DESC[p], NoQuery}
      BY <2>5, DescIsKept
    <3>3. pc'[p] = "fill" /\ hook'[p] \in {"meta", "set"} => CURRENT_QUERY_DESC'[p] = NoQuery
      BY <2>1, <3>1, <3>2 DEF ValuesOf
    <3>4. Listed(p)' => Listed(p)
      BY <3>1 DEF Listed, Filling
    <3>5. ASSUME Listed(p)' PROVE content'[s].values \in {NoQuery, content[s].topology}
      <4>1. CASE content' = content
        BY <2>1, <3>4, <3>5, <4>1 DEF ValuesOf
      <4>2. CASE HandlerCollect(p) \/ HandlerFails(p)
        BY <2>1, <3>5, <4>2, HandlerValues
      <4>3. CASE EndCollect(p)
        <5>1. ~EndRelease(p)
          BY SlotTableAssumption
          DEF EndRelease, EndUnlock, Free, InHand, EntryInHand, Owns, TypeOK, OwnershipInv
        <5>. QED  BY <4>1, <4>3, <5>1 DEF EndCollect
      <4>4. CASE EndFails(p) /\ ~EndCollect(p)
        BY <4>4, EndFailsRaises
      <4>5. CASE ~Collects(p)
        BY <1>3, <4>1, <4>5, WritesNothing
      <4>. QED  BY <4>2, <4>3, <4>4, <4>5 DEF Collects
    <3>. QED  BY <2>1, <3>3, <3>5
  <2>. QED  BY <2>2, <2>3, <2>4, <2>5
<1>. QED  BY <1>1, <1>2, <1>3 DEF ValuesOf

LEMMA ValuesStep ==
    ASSUME HooksTypeOK, OwnershipInv, OwnershipInv', Placed, InHand, HandlingOwn, DescTold,
           ValuesListed, [HooksNext]_allVars
    PROVE  ValuesListed'
<1>1. ASSUME NEW p \in Backends, HookStep(p), UNCHANGED raised \/ EventNext(p), ~overwritten',
             "walk_error" \notin raised', NEW q \in Backends, NEW s \in Slots, Owns(q, s)'
      PROVE  ValuesOf(q, s)'
  <2>1. ~overwritten /\ (Owns(q, s) => ValuesOf(q, s))
    BY <1>1, OverwrittenStays, RaisedGrows DEF ValuesListed
  <2>2. CASE q = p /\ LookupClaim(p)
    <3>1. hook'[p] = "walk"
      BY <1>1, <2>2, ClaimInWalk
    <3>. QED  BY <2>2, <3>1 DEF ValuesOf, Listed, Filling
  <2>3. CASE Owns(q, s) /\ q # p
    <3>1. content'[s] = content[s]
      BY <1>1, <2>1, <2>3, OthersAreLeftAlone DEF Owns
    <3>2. TableStays(q) /\ HookStays(q)
      BY <1>1, <2>3, TableStaysElsewhere, HookStaysElsewhere DEF HooksTypeOK
    <3>. QED  BY <2>1, <2>3, <3>1, <3>2 DEF ValuesOf, Listed, TableStays, HookStays
  <2>4. CASE Owns(q, s) /\ q = p
    BY <1>1, <2>1, <2>4, OwnValues
  <2>. QED  BY <1>1, <2>2, <2>3, <2>4, OwnedBefore
<1>2. CASE UNCHANGED allVars
  BY <1>2 DEF allVars, hookVars, vars, table, ValuesListed, ValuesOf, Listed, Owns
<1>. QED  BY <1>1, <1>2, RaisedGrows DEF ValuesListed

(* The numbers of an entry are those of the plan it lists, however queries *)
(* nest and whenever the signals come, also when the handler fails: only   *)
(* the two cases that ValuesMatchTopology names break it.                  *)
THEOREM ValuesMatchTopologyHolds == HooksSpec => []ValuesMatchTopology
<1>1. HooksInit => ValuesListed
  BY SlotTableAssumption DEF HooksInit, Init, ValuesListed, Owns
<1>2. ValuesListed => ValuesMatchTopology
  BY DEF ValuesListed, ValuesOf, Listed, ValuesMatchTopology
<1>3. /\ HooksTypeOK /\ Placed /\ OwnershipInv /\ OwnershipInv' /\ InHand /\ Described
      /\ HandlingOwn /\ DescTold /\ ValuesListed /\ [HooksNext]_allVars
      => ValuesListed'
  BY ValuesStep
<1>. QED
  BY <1>1, <1>2, <1>3, HooksTyped, HooksOwnership, HooksDescribed, HooksTold, PTL DEF HooksSpec

-----------------------------------------------------------------------------
(* A backend that runs one query at a time: no query runs inside of        *)
(* another, and no cursor stays open beside one.                           *)
Flat == \A p \in Backends : \A q, r \in open[p] : q = r

(* In such a backend a query that got an entry keeps it: nothing but its   *)
(* own end or abort gives the entry back.                                  *)
ShownOf(p) ==
    /\ shown[p] \subseteq open[p]
    /\ hook[p] \in {"start", "abort"} \cup Filling => shown[p] = {}
    /\ pc[p] \in {"abort", "abort_release"} => shown[p] = {}
    /\ ~overwritten /\ shown[p] # {} /\ hook[p] # "ending" => \E s \in Slots : Owns(p, s)

Shown == \A p \in Backends : ShownOf(p)

(* The same the other way round. *)
WhereIs(p) ==
    /\ pc[p] = "fill" => hook[p] \in Filling
    /\ pc[p] \in {"catch_lock", "catch"} => hook[p] \in {"start"} \cup Filling
    /\ pc[p] \in {"end_lock", "end"} => hook[p] = "ending"
    /\ pc[p] \in {"abort", "abort_release"} => hook[p] = "none"
    /\ pc[p] = "lookup" => hook[p] \in {"walk", "ending"}
    /\ pc[p] \in {"exit", "exit_lock"} => hook[p] \in {"none"} \cup Filling
    /\ hook[p] \notin {"none", "abort"} => cur[p] \in open[p]

LEMMA WhereAmI == ASSUME HooksTypeOK, NEW p \in Backends, PlaceOf(p) PROVE WhereIs(p)
BY DEF HooksTypeOK, HookSteps, PlaceOf, WhereIs, LeavingAt, Filling

LEMMA HandlerFailsShown ==
    ASSUME HooksTypeOK, NEW p \in Backends, ShownOf(p), WhereIs(p), HandlerFails(p), Flat
    PROVE  /\ shown'[p] \subseteq open'[p] /\ pc'[p] \in {"idle", "catch_lock"}
           /\ hook'[p] \in {"start", "abort"} \cup Filling => shown'[p] = {}
           /\ shown'[p] # {} /\ hook'[p] # "ending" =>
                 shown[p] # {} /\ hook[p] # "ending" /\ pc[p] \notin ReleasesAt
<1>. USE DEF HooksTypeOK, TypeOK, ShownOf, Filling
<1>1. CASE HandlerFailsStart(p)
  <2>1. /\ UNCHANGED <<shown, open, hook>> /\ pc'[p] \in {"idle", "catch_lock"}
        /\ hook[p] \in {"start"} \cup Filling
    BY <1>1 DEF HandlerFailsStart, FillError, LookupError, Goto
  <2>. QED  BY <2>1
<1>2. CASE HandlerFailsEnd(p)
  <2>1. /\ UNCHANGED <<shown, open, hook>> /\ pc'[p] \in {"idle", "catch_lock"}
        /\ hook[p] = "ending"
    BY <1>2 DEF HandlerFailsEnd, LookupError, EndInactive, EndError, EndUnlock, Goto
  <2>. QED  BY <2>1
<1>3. CASE HandlerFailsQuery(p)
  <2>1. PICK left \in SUBSET (open[p] \ {cur[p]}) :
           /\ open' = [open EXCEPT ![p] = left]
           /\ shown' = [shown EXCEPT ![p] = shown[p] \cap left]
           /\ (left = {} /\ HookGoto(p, "abort")) \/ HookGoto(p, "none")
    BY <1>3 DEF HandlerFailsQuery
  <2>2. /\ open'[p] = left /\ shown'[p] = shown[p] \cap left
        /\ (left = {} /\ hook'[p] = "abort") \/ hook'[p] = "none"
    BY <2>1 DEF HookGoto
  <2>3. pc[p] \in {"idle", "poll", "end_lock"} /\ pc'[p] = "idle"
    BY <1>3 DEF HandlerFailsQuery, PollEnd, EndLockError, Goto, vars
  <2>4. hook[p] = "ending" => left = {}
    BY <2>1 DEF WhereIs, Flat
  <2>. QED  BY <2>2, <2>3, <2>4 DEF ReleasesAt
<1>. QED  BY <1>1, <1>2, <1>3 DEF HandlerFails

LEMMA ShownSets ==
    ASSUME HooksTypeOK, Placed, NEW p \in Backends, ShownOf(p), HookStep(p), Flat, Flat'
    PROVE  /\ shown'[p] \subseteq open'[p]
           /\ hook'[p] \in {"start", "abort"} \cup Filling => shown'[p] = {}
           /\ pc'[p] \in {"abort", "abort_release"} => shown'[p] = {}
           /\ shown'[p] # {} /\ hook'[p] # "ending" =>
                 \/ StartDone(p)
                 \/ /\ shown[p] # {} /\ hook[p] # "ending"
                    /\ pc[p] \notin ReleasesAt \/ UNCHANGED table
<1>. USE DEF HooksTypeOK, TypeOK, ShownOf, Goto, HookGoto, LeaveHook, setup, hookVars, vars,
             local,
         Ready, Close, ReleasesAt, WhereIs, Filling, Flat, table
<1>. DEFINE Goal == /\ shown'[p] \subseteq open'[p]
                    /\ hook'[p] \in {"start", "abort"} \cup Filling => shown'[p] = {}
                    /\ pc'[p] \in {"abort", "abort_release"} => shown'[p] = {}
                    /\ shown'[p] # {} /\ hook'[p] # "ending" =>
                          \/ StartDone(p)
                          \/ /\ shown[p] # {} /\ hook[p] # "ending"
                             /\ pc[p] \notin ReleasesAt \/ UNCHANGED table
<1>0. WhereIs(p)
  BY WhereAmI DEF Placed
<1>1. CASE StartNext(p)
  <2>1. CASE Lookup(p)
    BY <1>0, <2>1 DEF Lookup, LookupStep, LookupFound, LookupClaim, LookupMiss, LookupReturn
  <2>2. CASE InitializeState(p) \/ InitializeFails(p)
    BY <1>0, <2>2 DEF InitializeState, InitializeFails, Register, ExitStart
  <2>3. CASE StartCatchLock(p)
    BY <1>0, <2>3 DEF StartCatchLock, CatchLock, LockExclusive
  <2>8. CASE StartCatch(p)
    <3>1. hook[p] \in {"start"} \cup Filling /\ hook'[p] = "none" /\ pc'[p] = "idle"
      BY <1>0, <2>8 DEF StartCatch, CatchRelease, ExitCallback
    <3>2. shown'[p] = {} /\ open'[p] = open[p]
      BY <2>8, <3>1 DEF StartCatch
    <3>. QED  BY <3>1, <3>2
  <2>4. CASE StartLookup(p)
    BY <1>0, <2>4 DEF StartLookup, LookupStart
  <2>5. ASSUME NEW q \in Queries, StartHook(p, q) PROVE Goal
    <3>1. open[p] = {}
      BY <1>0, <2>5 DEF StartHook
    <3>. QED  BY <2>5, <3>1 DEF StartHook
  <2>6. CASE FillTopology(p) \/ FillMeta(p) \/ StartExhausted(p)
    BY <1>0, <2>6 DEF FillTopology, FillMeta, StartExhausted, FillDone
  <2>7. CASE StartDone(p)
    <3>1. /\ shown'[p] = shown[p] \cup {cur[p]} /\ open'[p] = open[p]
          /\ hook'[p] = "none" /\ pc'[p] = "idle"
      BY <1>0, <2>7 DEF StartDone, FillDone
    <3>2. cur[p] \in open[p]
      BY <1>0, <2>7 DEF StartDone
    <3>. QED  BY <2>7, <3>1, <3>2
  <2>. QED  BY <1>1, <2>1, <2>2, <2>3, <2>4, <2>5, <2>6, <2>7, <2>8 DEF StartNext
<1>2. CASE EndNext(p)
  <2>1. ASSUME NEW q \in Queries, EndHook(p, q) PROVE Goal
    <3>1. CASE enabled[p] /\ initialized[p]
      BY <2>1, <3>1 DEF EndHook
    <3>2. CASE ~(enabled[p] /\ initialized[p])
      BY <2>1, <3>2 DEF EndHook
    <3>. QED  BY <3>1, <3>2
  <2>2. CASE EndLookup(p)
    BY <1>0, <2>2 DEF EndLookup, LookupStart
  <2>3. CASE EndHookLock(p)
    BY <1>0, <2>3 DEF EndHookLock, EndLock, LockExclusive
  <2>4. CASE EndCollect(p)
    BY <1>0, <2>4 DEF EndCollect, EndRelease, EndInactive, EndUnlock
  <2>5. CASE EndDone(p)
    <3>1. /\ shown'[p] = shown[p] \ {cur[p]} /\ open'[p] = open[p] \ {cur[p]}
          /\ hook'[p] = "none" /\ pc'[p] = "idle" /\ cur[p] \in open[p]
      BY <1>0, <2>5 DEF EndDone
    <3>. QED  BY <3>1
  <2>. QED  BY <1>2, <2>1, <2>2, <2>3, <2>4, <2>5 DEF EndNext
<1>3. CASE HookAbortNext(p)
  <2>1. CASE AbortTransaction(p)
    BY <1>0, <2>1 DEF AbortTransaction
  <2>2. CASE query_cleanup_callback(p)
    BY <1>0, <2>2 DEF query_cleanup_callback, AbortStart
  <2>3. CASE AbortScan(p)
    BY <1>0, <2>3 DEF AbortScan, AbortStep, AbortRelease, AbortMiss, AbortReturn
  <2>. QED  BY <1>3, <2>1, <2>2, <2>3 DEF HookAbortNext
<1>4. CASE SignalNext(p)
  <2>1. CASE Poll(p)
    BY <1>0, <2>1 DEF Poll, PollNext, PollStart, PollEnd
  <2>2. CASE RequestMetrics(p) \/ HandlerScan(p) \/ HandlerCollect(p)
    <3>1. UNCHANGED <<shown, open, hook, vars>>
      BY <1>0, <2>2 DEF RequestMetrics, HandlerScan, HandlerCollect
    <3>. QED  BY <3>1
  <2>. QED  BY <1>4, <2>1, <2>2 DEF SignalNext
<1>5. CASE LeaveNext(p)
  <2>1. CASE ExitBackend(p)
    BY <1>0, <2>1 DEF ExitBackend, ExitStart, ExitLock, LockExclusive
  <2>2. CASE BackendGone(p) \/ NewBackend(p)
    BY <1>0, <2>2 DEF BackendGone, NewBackend, Forget, ExitRelease, ExitCallback, Connect
  <2>. QED  BY <1>5, <2>1, <2>2 DEF LeaveNext
<1>6. CASE EventNext(p)
  <2>1. CASE StartError(p) \/ EndFails(p)
    <3>1. /\ UNCHANGED <<shown, open, hook>> /\ pc'[p] \in {"catch_lock", "idle"}
          /\ hook[p] \in Filling \cup {"ending"}
      BY <1>0, <2>1 DEF StartError, FillError, EndFails, EndError, EndUnlock
    <3>. QED  BY <3>1
  <2>2. CASE AbortSubTransaction(p)
    BY <1>0, <2>2 DEF AbortSubTransaction
  <2>3. CASE Reload(p)
    BY <1>0, <2>3 DEF Reload
  <2>4. CASE HandlerFails(p)
    BY <1>0, <2>4, HandlerFailsShown
  <2>. QED  BY <1>6, <2>1, <2>2, <2>3, <2>4 DEF EventNext
<1>. QED  BY <1>1, <1>2, <1>3, <1>4, <1>5, <1>6 DEF HookStep

LEMMA ShownStep ==
    ASSUME HooksTypeOK, OwnershipInv, Placed, Shown, Flat, Flat', [HooksNext]_allVars
    PROVE  Shown'
<1>. USE DEF HooksTypeOK
<1>1. ASSUME NEW p \in Backends, HookStep(p), NEW q \in Backends PROVE ShownOf(q)'
  <2>1. ~overwritten' => ~overwritten
    BY <1>1, OverwrittenStays
  <2>2. CASE q # p
    <3>1. TableStays(q) /\ HookStays(q)
      BY <1>1, <2>2, TableStaysElsewhere, HookStaysElsewhere
    <3>2. ASSUME ~overwritten', shown'[q] # {}, hook'[q] # "ending"
          PROVE  \E s \in Slots : Owns(q, s)'
      BY <1>1, <2>1, <2>2, <3>1, <3>2, OwnedAfter DEF Shown, ShownOf, TableStays, HookStays
    <3>. QED  BY <3>1, <3>2 DEF Shown, ShownOf, TableStays, HookStays
  <2>3. CASE q = p
    <3>1. ASSUME StartDone(p), ~overwritten' PROVE \E s \in Slots : Owns(p, s)'
      BY <2>1, <3>1, StartDoneOwns
    <3>2. ASSUME ~StartDone(p), ~overwritten', shown'[p] # {}, hook'[p] # "ending"
          PROVE  \E s \in Slots : Owns(p, s)'
      <4>1. shown[p] # {} /\ hook[p] # "ending" /\ (pc[p] \notin ReleasesAt \/ UNCHANGED table)
        BY <1>1, <3>2, ShownSets DEF Shown
      <4>. QED  BY <1>1, <2>1, <3>2, <4>1, OwnedAfter DEF Shown, ShownOf, Owns, table
    <3>. QED  BY <1>1, <2>3, <3>1, <3>2, ShownSets DEF Shown, ShownOf
  <2>. QED  BY <2>2, <2>3
<1>2. CASE UNCHANGED allVars
  BY <1>2 DEF allVars, hookVars, vars, table, Shown, ShownOf, Owns
<1>. QED  BY <1>1, <1>2, RaisedGrows DEF Shown

(* A query that got an entry when it started has one for as long as it     *)
(* runs, if its backend runs one query at a time; errors, reloads and      *)
(* aborts do not take it away.                                             *)
THEOREM ShownHasEntryHolds == HooksSpec /\ []Flat => []ShownHasEntry
<1>1. HooksInit => Shown
  BY DEF HooksInit, Init, Shown, ShownOf, Filling
<1>2. Shown => ShownHasEntry
  BY DEF Shown, ShownOf, ShownHasEntry, Ready
<1>3. /\ HooksTypeOK /\ Placed /\ OwnershipInv /\ Shown /\ Flat /\ Flat' /\ [HooksNext]_allVars
      => Shown'
  BY ShownStep
<1>. QED  BY <1>1, <1>2, <1>3, HooksTyped, HooksOwnership, PTL DEF HooksSpec

(* With one query to run no two are open at once, whatever happens.        *)
COROLLARY SingleShownHasEntry ==
    ASSUME \A q, r \in Queries : q = r
    PROVE  HooksSpec => []ShownHasEntry
<1>1. HooksTypeOK => Flat
  BY DEF HooksTypeOK, Flat
<1>. QED  BY <1>1, HooksTyped, ShownHasEntryHolds, PTL
=============================================================================
