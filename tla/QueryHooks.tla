------------------------------- MODULE QueryHooks -------------------------------
(***************************************************************************)
(* The executor hooks of a backend (src/pg_what_is_happening.c) and its    *)
(* SIGUSR2 handler (src/signal_handler.c), over the table of SlotTable:    *)
(* every step is a step of SlotTable or leaves its variables alone.        *)
(*                                                                         *)
(* A backend may have several queries open at once: a query calls a        *)
(* function that runs another, or a cursor is read beside other queries.   *)
(* They share the backend's one entry and its one CURRENT_QUERY_DESC.      *)
(* What the walk of the plan writes is reduced to whose plan it was: a     *)
(* part of an entry holds the <<backend, query>> it was written for.  A    *)
(* collection an error stops half-way has written its numbers or none.     *)
(*                                                                         *)
(* Left to SlotTable: killed processes, the exporter's sweep.  Left out:   *)
(* an error in the signal handler while the backend exits or is queued for *)
(* the lock.                                                               *)
(***************************************************************************)
EXTENDS SlotTable

CONSTANTS
    Queries,             \* what a backend may execute
    Tracked,             \* those whose cost reaches min_cost_to_track
    NoQuery,             \* a null QueryDesc, contents never written
    Events,              \* which of EventKinds the environment raises
    MaxExitCallbacks     \* the places before_shmem_exit has left

EventKinds == {"reload", "subabort", "walk_error", "handler_error"}

ASSUME QueryHooksAssumption ==
    /\ Tracked \subseteq Queries
    /\ NoQuery \notin Queries \cup (Backends \X Queries)
    /\ MaxExitCallbacks \in Nat \ {0}
    /\ Events \subseteq EventKinds

VARIABLES
    hook,                \* how far its hook is
    cur,                 \* the query its hook is called for
    open,                \* the queries started and not ended
    CURRENT_QUERY_DESC,
    enabled,             \* PWH_GUC_IS_ENABLED, as the backend last loaded it
    initialized,         \* WAS_BACKEND_INITIALIZED
    exit_callbacks,      \* how often backend_exit_callback is registered
    pending,             \* SIGUSR2 has been sent and not delivered
    handling,            \* the entry its signal handler is writing to
    content,             \* what each entry says
    shown,               \* history: open queries whose start got an entry
    raised               \* history: which of Events have come up

setup    == <<initialized, exit_callbacks>>
hookVars == <<hook, cur, open, CURRENT_QUERY_DESC, enabled, setup, pending,
              handling, content, shown>>
allVars  == <<vars, hookVars, raised>>

HookSteps == {"none", "start", "walk", "meta", "set", "end", "ending", "abort"}
Filling   == {"walk", "meta", "set"}
Written   == (Backends \X Queries) \cup {NoQuery}
(* followed is a history: the query the signal handler followed when the   *)
(* nodes were listed.                                                      *)
Contents  == [topology : Written, meta : Written, values : Written,
              followed : Queries \cup {NoQuery}]
Blank     == [topology |-> NoQuery, meta |-> NoQuery, values |-> NoQuery,
              followed |-> NoQuery]

HooksTypeOK ==
    /\ TypeOK
    /\ hook \in [Backends -> HookSteps]
    /\ cur \in [Backends -> Queries \cup {NoQuery}]
    /\ open \in [Backends -> SUBSET Queries]
    /\ CURRENT_QUERY_DESC \in [Backends -> Queries \cup {NoQuery}]
    /\ enabled \in [Backends -> BOOLEAN]
    /\ initialized \in [Backends -> BOOLEAN]
    /\ exit_callbacks \in [Backends -> 0 .. MaxExitCallbacks]
    /\ pending \in [Backends -> BOOLEAN]
    /\ handling \in [Backends -> Slots \cup {NoSlot}]
    /\ content \in [Slots -> Contents]
    /\ shown \in [Backends -> SUBSET Queries]
    /\ raised \subseteq Events

HooksInit ==
    /\ Init
    /\ hook = [p \in Backends |-> "none"]
    /\ cur = [p \in Backends |-> NoQuery]
    /\ open = [p \in Backends |-> {}]
    /\ CURRENT_QUERY_DESC = [p \in Backends |-> NoQuery]
    /\ enabled = [p \in Backends |-> TRUE]
    /\ initialized = [p \in Backends |-> FALSE]
    /\ exit_callbacks = [p \in Backends |-> 0]
    /\ pending = [p \in Backends |-> FALSE]
    /\ handling = [p \in Backends |-> NoSlot]
    /\ content = [s \in Slots |-> Blank]
    /\ shown = [p \in Backends |-> {}]
    /\ raised = {}

(* The signal handler runs to its end before the backend goes on.          *)
Running(p) == handling[p] = NoSlot
(* Outside of the hooks.                                                   *)
Ready(p)   == Running(p) /\ pc[p] = "idle" /\ hook[p] = "none"

HookGoto(p, step) == hook' = [hook EXCEPT ![p] = step]
pwh_set_current_query_desc(p, q) ==
    CURRENT_QUERY_DESC' = [CURRENT_QUERY_DESC EXCEPT ![p] = q]

(* pwh_collect_planstate_metrics, to its end or stopped by an error.       *)
Collect(p, s, q)     == content' = [content EXCEPT ![s].values = <<p, q>>]
CollectSome(p, s, q) == UNCHANGED content \/ Collect(p, s, q)

-----------------------------------------------------------------------------
(* query_start_hook *)

StartHook(p, q) ==
    /\ Ready(p)
    /\ q \in Queries \ open[p]
    /\ open' = [open EXCEPT ![p] = @ \cup {q}]
    /\ IF enabled[p] /\ q \in Tracked
       THEN HookGoto(p, "start") /\ cur' = [cur EXCEPT ![p] = q]
       ELSE UNCHANGED <<hook, cur>>
    /\ UNCHANGED <<vars, CURRENT_QUERY_DESC, enabled, setup, pending, handling,
                   content, shown>>

(* initialize_state_once_per_backend: registers the callbacks and installs *)
(* the signal handler.  It runs again after an error was caught, and what  *)
(* it has registered before stays registered.                              *)
InitializeState(p) ==
    /\ Running(p)
    /\ hook[p] = "start"
    /\ ~initialized[p]
    /\ exit_callbacks[p] < MaxExitCallbacks
    /\ Register(p)
    /\ initialized' = [initialized EXCEPT ![p] = TRUE]
    /\ exit_callbacks' = [exit_callbacks EXCEPT ![p] = @ + 1]
    /\ UNCHANGED <<hook, cur, open, CURRENT_QUERY_DESC, enabled, pending, handling,
                   content, shown>>

LeaveHook(p) == HookGoto(p, "none") /\ cur' = [cur EXCEPT ![p] = NoQuery]

(* before_shmem_exit has no place left: FATAL, outside of PG_TRY.          *)
InitializeFails(p) ==
    /\ Running(p)
    /\ hook[p] = "start"
    /\ ~initialized[p]
    /\ exit_callbacks[p] = MaxExitCallbacks
    /\ ExitStart(p)
    /\ LeaveHook(p)
    /\ UNCHANGED <<open, CURRENT_QUERY_DESC, enabled, setup, pending, handling, content,
                   shown>>

StartLookup(p) ==
    /\ Running(p)
    /\ hook[p] = "start"
    /\ initialized[p]
    /\ LookupStart(p, TRUE)
    /\ HookGoto(p, "walk")
    /\ UNCHANGED <<cur, open, CURRENT_QUERY_DESC, enabled, setup, pending,
                   handling, content, shown>>

Lookup(p) ==
    /\ Running(p)
    /\ LookupStep(p) \/ LookupFound(p) \/ LookupClaim(p) \/ LookupMiss(p)
    /\ UNCHANGED hookVars

(* pwh_remember_planstate_tree_as_metric_structure resets what it writes.  *)
(* Variant: the whole entry is zeroed first, its owner included.           *)
FillTopologyZeroesEntry(p) ==
    /\ Running(p)
    /\ pc[p] = "fill"
    /\ be[p] # NoSlot
    /\ hook[p] = "walk"
    /\ content' = [content EXCEPT ![be[p]].topology = <<p, cur[p]>>,
                                  ![be[p]].values = NoQuery,
                                  ![be[p]].followed = CURRENT_QUERY_DESC[p]]
    /\ HookGoto(p, "meta")
    /\ Free(be[p])
    /\ UNCHANGED <<lock, pc, local, registered, cur, open, CURRENT_QUERY_DESC, enabled,
                   setup, pending, handling, shown>>

(* Variant: the numbers of the last query are left in place.               *)
FillTopologyKeepsValues(p) ==
    /\ Running(p)
    /\ pc[p] = "fill"
    /\ be[p] # NoSlot
    /\ hook[p] = "walk"
    /\ content' = [content EXCEPT ![be[p]].topology = <<p, cur[p]>>,
                                  ![be[p]].followed = CURRENT_QUERY_DESC[p]]
    /\ HookGoto(p, "meta")
    /\ UNCHANGED <<vars, cur, open, CURRENT_QUERY_DESC, enabled, setup, pending,
                   handling, shown>>

FillTopology(p) ==
    /\ Running(p)
    /\ pc[p] = "fill"
    /\ be[p] # NoSlot
    /\ hook[p] = "walk"
    /\ content' = [content EXCEPT ![be[p]].topology = <<p, cur[p]>>,
                                  ![be[p]].values = NoQuery,
                                  ![be[p]].followed = CURRENT_QUERY_DESC[p]]
    /\ HookGoto(p, "meta")
    /\ UNCHANGED <<vars, cur, open, CURRENT_QUERY_DESC, enabled, setup, pending,
                   handling, shown>>

(* Variant: an entry that has a text keeps it.                             *)
FillMetaOnce(p) ==
    /\ Running(p)
    /\ pc[p] = "fill"
    /\ hook[p] = "meta"
    /\ content' = IF content[be[p]].meta = NoQuery
                  THEN [content EXCEPT ![be[p]].meta = <<p, cur[p]>>]
                  ELSE content
    /\ HookGoto(p, "set")
    /\ UNCHANGED <<vars, cur, open, CURRENT_QUERY_DESC, enabled, setup, pending,
                   handling, shown>>

(* count_of_metrics, query_start_time, query_id and the query text.        *)
FillMeta(p) ==
    /\ Running(p)
    /\ pc[p] = "fill"
    /\ hook[p] = "meta"
    /\ content' = [content EXCEPT ![be[p]].meta = <<p, cur[p]>>]
    /\ HookGoto(p, "set")
    /\ UNCHANGED <<vars, cur, open, CURRENT_QUERY_DESC, enabled, setup, pending,
                   handling, shown>>

(* The query is tracked from here on.                                      *)
StartDone(p) ==
    /\ Running(p)
    /\ hook[p] = "set"
    /\ FillDone(p)
    /\ pwh_set_current_query_desc(p, cur[p])
    /\ shown' = [shown EXCEPT ![p] = @ \cup {cur[p]}]
    /\ LeaveHook(p)
    /\ UNCHANGED <<open, enabled, setup, pending, handling, content>>

(* "Could not allocate backend entry": the descriptor is left as it was.   *)
StartExhausted(p) ==
    /\ Running(p)
    /\ hook[p] = "walk"
    /\ be[p] = NoSlot
    /\ FillDone(p)
    /\ LeaveHook(p)
    /\ UNCHANGED <<open, CURRENT_QUERY_DESC, enabled, setup, pending, handling,
                   content, shown>>

(* PG_CATCH of query_start_hook, which calls backend_exit_callback.        *)
StartError(p) ==
    /\ Running(p)
    /\ pc[p] = "fill"
    /\ FillError(p)
    /\ pwh_set_current_query_desc(p, NoQuery)
    /\ UNCHANGED <<hook, cur, open, enabled, setup, pending, handling, content, shown>>

StartCatchLock(p) == Running(p) /\ CatchLock(p) /\ UNCHANGED hookVars

StartCatch(p) ==
    /\ Running(p)
    /\ CatchRelease(p)
    /\ initialized' = [initialized EXCEPT ![p] = FALSE]
    /\ LeaveHook(p)
    /\ UNCHANGED <<exit_callbacks, open, CURRENT_QUERY_DESC, enabled, pending, handling,
                   content, shown>>

-----------------------------------------------------------------------------
(* query_end_hook, for any open query; standard_ExecutorEnd frees its plan *)
(* state at the end.                                                       *)

Close(p, q) ==
    /\ open' = [open EXCEPT ![p] = @ \ {q}]
    /\ shown' = [shown EXCEPT ![p] = @ \ {q}]

EndHook(p, q) ==
    /\ Ready(p)
    /\ q \in open[p]
    /\ IF enabled[p] /\ initialized[p]
       THEN /\ HookGoto(p, "end")
            /\ cur' = [cur EXCEPT ![p] = q]
            /\ UNCHANGED <<open, shown>>
       ELSE Close(p, q) /\ UNCHANGED <<hook, cur>>
    /\ UNCHANGED <<vars, CURRENT_QUERY_DESC, enabled, setup, pending, handling, content>>

EndLookup(p) ==
    /\ Running(p)
    /\ hook[p] = "end"
    /\ LookupStart(p, FALSE)
    /\ HookGoto(p, "ending")
    /\ UNCHANGED <<cur, open, CURRENT_QUERY_DESC, enabled, setup, pending,
                   handling, content, shown>>

EndHookLock(p) == Running(p) /\ EndLock(p) /\ UNCHANGED hookVars

(* The entry is collected into and released, or is not active any more, or *)
(* an error keeps it (EndFails); each way the descriptor is cleared.       *)
EndCollect(p) ==
    /\ Running(p)
    /\ \/ EndRelease(p) /\ Collect(p, be[p], cur[p])
       \/ EndInactive(p) /\ UNCHANGED content
    /\ pwh_set_current_query_desc(p, NoQuery)
    /\ UNCHANGED <<hook, cur, open, enabled, setup, pending, handling, shown>>

(* Variant: the error path leaves the descriptor as it is.                 *)
EndFailsKeepsDesc(p) ==
    /\ Running(p)
    /\ EndError(p)
    /\ CollectSome(p, be[p], cur[p])
    /\ UNCHANGED <<hook, cur, open, CURRENT_QUERY_DESC, enabled, setup, pending,
                   handling, shown>>

EndFails(p) ==
    /\ Running(p)
    /\ EndError(p)
    /\ CollectSome(p, be[p], cur[p])
    /\ pwh_set_current_query_desc(p, NoQuery)
    /\ UNCHANGED <<hook, cur, open, enabled, setup, pending, handling, shown>>

EndDone(p) ==
    /\ Running(p)
    /\ hook[p] = "ending"
    /\ pc[p] = "idle"
    /\ Close(p, cur[p])
    /\ LeaveHook(p)
    /\ UNCHANGED <<vars, CURRENT_QUERY_DESC, enabled, setup, pending, handling, content>>

-----------------------------------------------------------------------------
(* The transaction aborts: its queries are gone without ExecutorEnd, then  *)
(* query_cleanup_callback runs.                                            *)
AbortTransaction(p) ==
    /\ Ready(p)
    /\ open' = [open EXCEPT ![p] = {}]
    /\ shown' = [shown EXCEPT ![p] = {}]
    /\ HookGoto(p, "abort")
    /\ UNCHANGED <<vars, cur, CURRENT_QUERY_DESC, enabled, setup, pending, handling,
                   content>>

(* Variant: the callback clears the descriptor and keeps the entry.        *)
query_cleanup_callback_keeps_entry(p) ==
    /\ Running(p)
    /\ hook[p] = "abort"
    /\ IF registered[p] THEN pwh_set_current_query_desc(p, NoQuery)
                        ELSE UNCHANGED CURRENT_QUERY_DESC
    /\ HookGoto(p, "none")
    /\ UNCHANGED <<vars, cur, open, enabled, setup, pending, handling, content, shown>>

(* Variant: the callback resets the state of the backend, as that of an    *)
(* exit does.                                                              *)
query_cleanup_callback_resets(p) ==
    /\ Running(p)
    /\ hook[p] = "abort"
    /\ IF registered[p] THEN pwh_set_current_query_desc(p, NoQuery)
                        ELSE UNCHANGED CURRENT_QUERY_DESC
    /\ IF registered[p] /\ enabled[p] THEN AbortStart(p) ELSE UNCHANGED vars
    /\ HookGoto(p, "none")
    /\ initialized' = [initialized EXCEPT ![p] = FALSE]
    /\ UNCHANGED <<exit_callbacks, cur, open, enabled, pending, handling, content, shown>>

query_cleanup_callback(p) ==
    /\ Running(p)
    /\ hook[p] = "abort"
    /\ IF registered[p] THEN pwh_set_current_query_desc(p, NoQuery)
                        ELSE UNCHANGED CURRENT_QUERY_DESC
    /\ IF registered[p] /\ enabled[p] THEN AbortStart(p) ELSE UNCHANGED vars
    /\ HookGoto(p, "none")
    /\ UNCHANGED <<cur, open, enabled, setup, pending, handling, content, shown>>

AbortScan(p) ==
    /\ Running(p)
    /\ AbortStep(p) \/ AbortRelease(p) \/ AbortMiss(p)
    /\ UNCHANGED hookVars

(* A subtransaction aborts: the queries it opened are gone, and no         *)
(* callback of the extension runs.                                         *)
AbortSubTransaction(p) ==
    /\ Ready(p)
    /\ \E gone \in SUBSET open[p] \ {{}} :
          /\ open' = [open EXCEPT ![p] = @ \ gone]
          /\ shown' = [shown EXCEPT ![p] = @ \ gone]
    /\ UNCHANGED <<vars, hook, cur, CURRENT_QUERY_DESC, enabled, setup, pending,
                   handling, content>>

(* The backend rereads its configuration between two commands.             *)
Reload(p) ==
    /\ Ready(p)
    /\ enabled' = [enabled EXCEPT ![p] = ~@]
    /\ UNCHANGED <<vars, hook, cur, open, CURRENT_QUERY_DESC, setup, pending,
                   handling, content, shown>>

-----------------------------------------------------------------------------
(* v1_status_f: SIGUSR2 to the owners of active entries, under LW_SHARED.  *)
Poll(p) == Running(p) /\ hook[p] = "none" /\ PollNext(p) /\ UNCHANGED hookVars

RequestMetrics(p) ==
    /\ \E r \in Backends : pc[r] = "poll"
    /\ \E s \in Slots : backend_pid[s] = p
    /\ Exists(p)
    /\ pending' = [pending EXCEPT ![p] = TRUE]
    /\ UNCHANGED <<vars, hook, cur, open, CURRENT_QUERY_DESC, enabled, setup,
                   handling, content, shown>>

(* pwh_sigusr2_handler, at any point of the backend: it looks for an entry *)
(* with its pid, without the lock, and then collects into it.              *)
HandlerScan(p) ==
    /\ pending[p]
    /\ Running(p)
    /\ Exists(p)
    /\ pending' = [pending EXCEPT ![p] = FALSE]
    /\ handling' = [handling EXCEPT ![p] =
          IF CURRENT_QUERY_DESC[p] # NoQuery /\ \E s \in Slots : FirstOf(p, s)
          THEN CHOOSE s \in Slots : FirstOf(p, s)
          ELSE NoSlot]
    /\ UNCHANGED <<vars, hook, cur, open, CURRENT_QUERY_DESC, enabled, setup,
                   content, shown>>

HandlerCollect(p) ==
    /\ ~Running(p)
    /\ Collect(p, handling[p], CURRENT_QUERY_DESC[p])
    /\ handling' = [handling EXCEPT ![p] = NoSlot]
    /\ UNCHANGED <<vars, hook, cur, open, CURRENT_QUERY_DESC, enabled, setup,
                   pending, shown>>

(* The stack is too deep for the handler's walk: the error jumps out of the*)
(* handler, into the PG_CATCH the backend is inside of, if any.            *)
HandlerJumps(p) ==
    /\ ~Running(p)
    /\ CollectSome(p, handling[p], CURRENT_QUERY_DESC[p])
    /\ handling' = [handling EXCEPT ![p] = NoSlot]
    /\ UNCHANGED <<enabled, setup, pending>>

(* PG_CATCH of query_start_hook, before, during or after its lookup.       *)
HandlerFailsStart(p) ==
    /\ HandlerJumps(p)
    /\ hook[p] \in {"start"} \cup Filling
    /\ initialized[p]
    /\ FillError(p) \/ LookupError(p)
    /\ pwh_set_current_query_desc(p, NoQuery)
    /\ UNCHANGED <<hook, cur, open, shown>>

(* PG_CATCH of query_end_hook, with the lock held.                         *)
HandlerFailsEnd(p) ==
    /\ HandlerJumps(p)
    /\ hook[p] = "ending"
    /\ LookupError(p) \/ EndInactive(p) \/ EndError(p)
    /\ pwh_set_current_query_desc(p, NoQuery)
    /\ UNCHANGED <<hook, cur, open, shown>>

(* No PG_CATCH, or that of query_end_hook, which fails without the lock:   *)
(* the query the hook is in is gone, and with it the transaction's others, *)
(* or those of the subtransaction that handles the error.                  *)
HandlerFailsQuery(p) ==
    /\ HandlerJumps(p)
    /\ hook[p] \notin Filling
    /\ \/ pc[p] = "idle" /\ UNCHANGED vars
       \/ PollEnd(p) \/ EndLockError(p)
    /\ \/ hook[p] \in {"end", "ending"} /\ pwh_set_current_query_desc(p, NoQuery)
       \/ pc[p] # "end_lock" /\ UNCHANGED CURRENT_QUERY_DESC
    /\ \E left \in SUBSET (open[p] \ {cur[p]}) :
          /\ open' = [open EXCEPT ![p] = left]
          /\ shown' = [shown EXCEPT ![p] = @ \cap left]
          /\ \/ left = {} /\ HookGoto(p, "abort")
             \/ hook[p] # "abort" /\ HookGoto(p, "none")
    /\ cur' = [cur EXCEPT ![p] = NoQuery]

HandlerFails(p) == HandlerFailsStart(p) \/ HandlerFailsEnd(p) \/ HandlerFailsQuery(p)

-----------------------------------------------------------------------------
(* The backend is terminated, and a new one may get its pid.               *)
ExitBackend(p) ==
    /\ Running(p)
    /\ hook[p] \in {"none"} \cup Filling
    /\ ExitStart(p) \/ ExitLock(p)
    /\ UNCHANGED hookVars

Forget(p) ==
    /\ HookGoto(p, "none")
    /\ cur' = [cur EXCEPT ![p] = NoQuery]
    /\ open' = [open EXCEPT ![p] = {}]
    /\ shown' = [shown EXCEPT ![p] = {}]
    /\ pwh_set_current_query_desc(p, NoQuery)
    /\ initialized' = [initialized EXCEPT ![p] = FALSE]
    /\ exit_callbacks' = [exit_callbacks EXCEPT ![p] = 0]
    /\ pending' = [pending EXCEPT ![p] = FALSE]
    /\ UNCHANGED <<handling, enabled, content>>

BackendGone(p) == Running(p) /\ ExitRelease(p) /\ Forget(p)
NewBackend(p)  == Connect(p) /\ Forget(p)

-----------------------------------------------------------------------------
StartNext(p) ==
    \/ \E q \in Queries : StartHook(p, q)
    \/ InitializeState(p) \/ InitializeFails(p) \/ StartLookup(p) \/ Lookup(p)
    \/ FillTopology(p) \/ FillMeta(p) \/ StartDone(p) \/ StartExhausted(p)
    \/ StartCatchLock(p) \/ StartCatch(p)

EndNext(p) ==
    \/ \E q \in Queries : EndHook(p, q)
    \/ EndLookup(p) \/ EndHookLock(p) \/ EndCollect(p) \/ EndDone(p)

HookAbortNext(p) == AbortTransaction(p) \/ query_cleanup_callback(p) \/ AbortScan(p)
SignalNext(p)    == Poll(p) \/ RequestMetrics(p) \/ HandlerScan(p) \/ HandlerCollect(p)
LeaveNext(p)     == ExitBackend(p) \/ BackendGone(p) \/ NewBackend(p)

Raise(event) == event \in Events /\ raised' = raised \cup {event}

(* An error in a walk leads to the PG_CATCH of the hook.                   *)
EventNext(p) ==
    \/ Raise("walk_error")    /\ (StartError(p) \/ EndFails(p))
    \/ Raise("handler_error") /\ HandlerFails(p)
    \/ Raise("subabort")      /\ AbortSubTransaction(p)
    \/ Raise("reload")        /\ Reload(p)

HooksNext ==
    \E p \in Backends :
        \/ /\ \/ StartNext(p) \/ EndNext(p) \/ HookAbortNext(p)
              \/ SignalNext(p) \/ LeaveNext(p)
           /\ UNCHANGED raised
        \/ EventNext(p)

HooksSpec == HooksInit /\ [][HooksNext]_allVars

-----------------------------------------------------------------------------
Owns(p, s) == backend_pid[s] = p

(* The nodes an entry lists are those of the query whose id and text it    *)
(* shows, however starts nest, abort and fail.                             *)
EntryDescribesOneQuery ==
    ~overwritten =>
        \A p \in Backends, s \in Slots :
            Owns(p, s) /\ hook[p] \notin Filling =>
                content[s].topology = content[s].meta /\ content[s].topology # NoQuery

(* CURRENT_QUERY_DESC, which the signal handler follows, is a query that   *)
(* is still open; a transaction abort frees the queries just before its    *)
(* callback runs ("Clear QueryDesc pointer to prevent dangling reference").*)
QueryDescIsLive ==
    ~overwritten =>
        \A p \in Backends :
            Exists(p) /\ hook[p] # "abort" /\ CURRENT_QUERY_DESC[p] # NoQuery =>
                CURRENT_QUERY_DESC[p] \in open[p]

(* An error in a walk does not break that: both hooks clear the descriptor *)
(* on their way out.                                                       *)
QueryDescSurvivesErrors == raised \subseteq {"walk_error"} => QueryDescIsLive

(* "Metrics only exist while queries are active and disappear when they    *)
(* complete" (README.md): a backend outside of the hooks with no query     *)
(* open owns no entry, as long as none of the events has come up.          *)
EntryMeansRunning ==
    raised = {} =>
        \A p \in Backends, s \in Slots : Ready(p) /\ Owns(p, s) => open[p] # {}

(* The callbacks are registered once per backend, as the function is named,*)
(* unless an error was caught: no other sequence of starts, ends, aborts   *)
(* and reloads uses up the places of before_shmem_exit, which would end    *)
(* the backend in the middle of a command.                                 *)
RegistersOnce ==
    raised \subseteq {"reload", "subabort"} => \A p \in Backends : exit_callbacks[p] <= 1

(* "Must match the same traversal order as topology walk": the numbers     *)
(* collected into an entry are those of the plan it lists, through nested  *)
(* starts and ends, aborts, reloads and late signals.  Two things break it *)
(* in the code and are excepted: an entry listed while the signal handler  *)
(* followed another query (until the start hook is done, a signal collects *)
(* that one's plan into the new list), and a collection in the end hook of *)
(* another query that an error stops half-way.                             *)
ValuesMatchTopology ==
    ~overwritten /\ "walk_error" \notin raised =>
        \A p \in Backends, s \in Slots :
            Owns(p, s) /\ hook[p] \notin Filling /\ content[s].followed = NoQuery =>
                content[s].values \in {NoQuery, content[s].topology}

(* "live metrics for all active queries" (README.md): a query that got an  *)
(* entry when it started has one for as long as it runs.                   *)
ShownHasEntry ==
    ~overwritten =>
        \A p \in Backends :
            Ready(p) /\ shown[p] # {} => \E s \in Slots : Owns(p, s)

(* "Query will continue without metrics" (PG_CATCH of query_start_hook,    *)
(* after it has logged the error): a backend never waits for a lock it     *)
(* holds itself.                                                           *)
NeverWaitsForItself ==
    \A p \in Backends : pc[p] \in WaitingAt => p \notin readers /\ writer # p
=============================================================================
