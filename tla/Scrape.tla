--------------------------------- MODULE Scrape ---------------------------------
(***************************************************************************)
(* A reader of the table, beside the backends of QueryHooks: the exporter, *)
(* which holds entry_search_lock in LW_SHARED from its sweep until it has  *)
(* formatted the last entry (metrics_handler, pwh_format_openmetrics), or  *)
(* a backend that runs v1_status_f, which lets the lock go before it reads *)
(* the first row.  Its query is too cheap to be tracked.                   *)
(*                                                                         *)
(* What is printed of one entry is a line: the pid, the text and query id  *)
(* (meta), and the nodes with their numbers.  Its parts are read one after *)
(* the other, so a line may be put together from several states of the     *)
(* entry.                                                                  *)
(***************************************************************************)
EXTENDS QueryHooks

VARIABLES
    exporter_reads,      \* the reader is the exporter
    part,                \* what the reader reads next
    slot_idx,            \* the entry it is at
    line,                \* what it has read of that entry
    lines,               \* what it has printed
    quiet,               \* history: queries nothing has happened to so far
    answered             \* history: backends that refreshed in time

readerVars == <<exporter_reads, part, slot_idx, line, lines, quiet, answered>>
scrapeVars == <<allVars, readerVars>>

Parts     == {"none", "signal", "sleep", "entry", "pid", "meta", "nodes", "done"}
NoLine    == [pid |-> NoPid, meta |-> NoQuery, topology |-> NoQuery, values |-> NoQuery]
LineTypes == [pid : Backends \cup {NoPid}, meta : Written, topology : Written, values : Written]

ScrapeTypeOK ==
    /\ HooksTypeOK
    /\ exporter_reads \in BOOLEAN
    /\ part \in Parts
    /\ slot_idx \in 0 .. MaxTrackedQueries
    /\ line \in LineTypes
    /\ lines \in SUBSET LineTypes
    /\ quiet \in SUBSET (Backends \X Queries)
    /\ answered \in SUBSET Backends

ScrapeInit ==
    /\ HooksInit
    /\ exporter_reads = TRUE
    /\ part = "none"
    /\ slot_idx = 0
    /\ line = NoLine
    /\ lines = {}
    /\ quiet = {}
    /\ answered = {}

-----------------------------------------------------------------------------
(* A query that runs undisturbed: its backend is in no hook, and the entry *)
(* and the descriptor are those of the query.                              *)
Undisturbed(p, q) ==
    /\ pc[p] = "idle"
    /\ hook[p] = "none"
    /\ q \in shown[p]
    /\ CURRENT_QUERY_DESC[p] = q
    /\ \E s \in Slots : Owns(p, s)

RemembersQuiet == quiet' = {pq \in quiet : Undisturbed(pq[1], pq[2])'}

Read(next) ==
    /\ part' = next
    /\ UNCHANGED <<allVars, exporter_reads, quiet, answered>>

(* The reader takes the lock; the exporter sweeps the table first.         *)
ReaderStart ==
    /\ part = "none"
    /\ \/ ScrapeStart /\ exporter_reads' = TRUE
       \/ PollStart(Exporter) /\ exporter_reads' = FALSE
    /\ part' = "signal"
    /\ lines' = {}
    /\ answered' = {}
    /\ quiet' = {pq \in Backends \X Queries : Undisturbed(pq[1], pq[2])}
    /\ UNCHANGED <<hookVars, slot_idx, line>>

ReaderSweep ==
    /\ CleanupStep \/ CleanupRelease \/ CleanupDone
    /\ UNCHANGED <<hookVars, readerVars>>

(* pwh_request_backend_metrics_unlocked, one entry at a time; a signal to  *)
(* a process that is gone is lost.                                         *)
ReaderSignals ==
    /\ part = "signal"
    /\ pc[Exporter] = "poll"
    /\ slot_idx < MaxTrackedQueries
    /\ pending' = [p \in Backends |-> pending[p] \/ (Exists(p) /\ Owns(p, slot_idx))]
    /\ slot_idx' = slot_idx + 1
    /\ UNCHANGED <<vars, hook, cur, open, CURRENT_QUERY_DESC, enabled, setup,
                   handling, content, shown>>
    /\ UNCHANGED <<exporter_reads, part, line, lines, quiet, answered>>

ReaderSleeps ==
    /\ part = "signal"
    /\ slot_idx = MaxTrackedQueries
    /\ slot_idx' = 0
    /\ Read("sleep")
    /\ UNCHANGED <<line, lines>>

(* signal_timeout_ms have passed, whoever has answered.                    *)
ReaderWakes ==
    /\ part = "sleep"
    /\ IF exporter_reads THEN UNCHANGED vars ELSE PollEnd(Exporter)
    /\ part' = "entry"
    /\ UNCHANGED <<hookVars, exporter_reads, slot_idx, line, lines, quiet, answered>>

(* pwh_get_backend_entry takes the lock for a moment, which the exporter   *)
(* already holds.  An entry that lists no nodes has no row; the exporter   *)
(* prints its query_info all the same.                                     *)
HasLine(s) == Active(s) /\ (exporter_reads \/ content[s].meta # NoQuery)

(* Variant: the first entry without a line ends the scan.                  *)
ReadEntryStopsEarly ==
    /\ part = "entry"
    /\ slot_idx < MaxTrackedQueries
    /\ writer = NoPid
    /\ \/ HasLine(slot_idx) /\ Read("pid") /\ UNCHANGED slot_idx
       \/ ~HasLine(slot_idx) /\ Read("entry") /\ slot_idx' = MaxTrackedQueries
    /\ UNCHANGED <<line, lines>>

ReadEntry ==
    /\ part = "entry"
    /\ slot_idx < MaxTrackedQueries
    /\ writer = NoPid
    /\ \/ HasLine(slot_idx) /\ Read("pid") /\ UNCHANGED slot_idx
       \/ ~HasLine(slot_idx) /\ Read("entry") /\ slot_idx' = slot_idx + 1
    /\ UNCHANGED <<line, lines>>

ReadPid ==
    /\ part = "pid"
    /\ line' = [line EXCEPT !.pid = backend_pid[slot_idx]]
    /\ Read("meta")
    /\ UNCHANGED <<slot_idx, lines>>

ReadMeta ==
    /\ part = "meta"
    /\ line' = [line EXCEPT !.meta = content[slot_idx].meta]
    /\ Read("nodes")
    /\ UNCHANGED <<slot_idx, lines>>

(* The line is printed.                                                    *)
(* Variant: the entry is stepped over twice.                               *)
ReadNodesSkips ==
    /\ part = "nodes"
    /\ lines' = lines \cup {[line EXCEPT !.topology = content[slot_idx].topology,
                                         !.values = content[slot_idx].values]}
    /\ line' = NoLine
    /\ slot_idx' = slot_idx + 2
    /\ Read("entry")

ReadNodes ==
    /\ part = "nodes"
    /\ lines' = lines \cup {[line EXCEPT !.topology = content[slot_idx].topology,
                                         !.values = content[slot_idx].values]}
    /\ line' = NoLine
    /\ slot_idx' = slot_idx + 1
    /\ Read("entry")

ReadLast ==
    /\ part = "entry"
    /\ slot_idx = MaxTrackedQueries
    /\ slot_idx' = 0
    /\ Read("done")
    /\ UNCHANGED <<line, lines>>

ReaderEnd ==
    /\ part = "done"
    /\ IF exporter_reads THEN ScrapeEnd ELSE UNCHANGED vars
    /\ exporter_reads' = TRUE
    /\ part' = "none"
    /\ lines' = {}
    /\ quiet' = {}
    /\ answered' = {}
    /\ UNCHANGED <<hookVars, slot_idx, line>>

ReaderNext ==
    \/ ReaderStart \/ ReaderSweep \/ ReaderSignals \/ ReaderSleeps \/ ReaderWakes
    \/ ReadEntry \/ ReadPid \/ ReadMeta \/ ReadNodes \/ ReadLast \/ ReaderEnd

(* A step of a backend.                                                    *)
BackendMoves(p) ==
    \/ /\ \/ StartNext(p) \/ EndNext(p) \/ HookAbortNext(p)
          \/ HandlerScan(p) \/ LeaveNext(p)
       /\ UNCHANGED raised
    \/ EventNext(p)

BackendStep(p) ==
    /\ BackendMoves(p)
    /\ RemembersQuiet
    /\ UNCHANGED <<exporter_reads, part, slot_idx, line, lines, answered>>

BackendAnswers(p) ==
    /\ HandlerCollect(p)
    /\ UNCHANGED raised
    /\ answered' = IF part = "sleep" THEN answered \cup {p} ELSE answered
    /\ RemembersQuiet
    /\ UNCHANGED <<exporter_reads, part, slot_idx, line, lines>>

ScrapeNext ==
    \/ ReaderNext /\ UNCHANGED raised
    \/ \E p \in Backends : BackendStep(p) \/ BackendAnswers(p)

ScrapeSpec == ScrapeInit /\ [][ScrapeNext]_scrapeVars

-----------------------------------------------------------------------------
(* A query that runs undisturbed from the start of a scrape to its end has *)
(* a line that is all its own, whatever other backends do meanwhile; with  *)
(* its numbers, if its backend answered before the timeout.                *)
QuietQueryIsShown ==
    part = "done" /\ ~overwritten =>
        \A pq \in quiet : \E l \in lines :
            /\ l.pid = pq[1]
            /\ l.meta = pq /\ l.topology = pq
            /\ pq[1] \in answered => l.values = pq

(* "orders_backend_has_no_products_metrics"                                *)
(* (test/sql/query_validate_query_concurrency.sql): a line never shows the *)
(* text of one backend's query under the pid of another.                   *)
LineIsOfItsBackend ==
    ~overwritten => \A l \in lines :
        l.pid # NoPid /\ l.meta # NoQuery => l.meta[1] = l.pid
=============================================================================
