# pg_what_is_happening: TLA+ models

A verification project for the PostgreSQL extension `pg_what_is_happening`:
TLA+ modules of its concurrent core, TLC runs on small instances, and TLAPS
proofs for instances of any size. Paths below are relative to the repository;
`shared_memory.c` and the like are in its `src/` directory.

- [The system](#the-system)
- [What is hard in it](#what-is-hard-in-it)
- [Modules](#modules)
- [Runs](#runs)
- [Proofs](#proofs)
- [What is not modelled](#what-is-not-modelled)
- [Plan](#plan)

## The system

The extension is loaded by the postmaster and runs inside every backend. A
backend publishes the plan of the query it executes, and the numbers of every
plan node, in a table in shared memory. Two readers show the table: the SQL
function `v1_status()`, in the backend that calls it, and an exporter, a
background worker that serves `/metrics` over HTTP. The numbers are refreshed
on demand: a reader sends SIGUSR2 to every backend that has an entry, sleeps
for `signal_timeout_ms`, and reads.

| Component | State | Operations | Talks to |
|---|---|---|---|
| Table of backend entries (`shared_memory.c`, `.h`) | `backend_pid`, query id, text, node count and node metrics of each entry; the lock `entry_search_lock` | look an entry up, claim one, release it, sweep for orphans, signal every owner, zero the table | everything below |
| Executor hooks and callbacks (`pg_what_is_happening.c`) | `WAS_BACKEND_INITIALIZED`, one per backend | ExecutorStart and ExecutorEnd hooks, transaction callback, exit callback, `v1_status_f` | table, walker, handler |
| SIGUSR2 handler (`signal_handler.c`) | `CURRENT_QUERY_DESC`, one per backend | set and clear the descriptor, refresh the numbers | table, walker; interrupts the hooks |
| Plan tree walker (`plan_tree_walker.c`) | a node counter on the stack | list the nodes of a plan; collect their numbers | called by hooks and handler |
| Formatter (`metrics.c`) | a growing text buffer | one row for SQL; the whole table as OpenMetrics | reads the table |
| Exporter (`bg_worker.c`) | `HTTP_SERVER_INSTANCE` | start, answer a request, stop on SIGTERM | HTTP server, table, formatter |
| HTTP server (`http_server.c`, `http_server_backend/`) | listening socket, `is_running` | create, run, answer, stop; two implementations, `dumb` and `mongoose` | exporter |
| Settings (`gucs.c`) | the GUC variables | define; check the listen address; reload on SIGHUP | everything |
| Version compatibility (`compatibility*`) | none | macros for 9.4 to 19 | everything |

What makes each of them correct:

- **Table.** An entry has one owner; a backend has at most one entry; a
  process that is gone owns none; only the owner takes its entry away; every
  holder of the lock lets it go, whatever fails or dies, and none waits for itself.
- **Hooks.** An entry shows the nodes, text and numbers of one query, a query
  that is running; a tracked query has its entry while it runs.
- **Handler.** The descriptor it follows is a query that is still open; it
  writes only into the entry of that query.
- **Walker.** Listing and collecting number the same node the same way; a
  plan that is too large is cut, not scrambled.
- **Formatter.** What it prints about an entry is about one query; the buffer
  is large enough for what is put in it; it does not read past the text of an
  entry, though the text is being written.
- **Exporter and HTTP server.** Every request is answered; a response is sent
  as it was built; SIGTERM ends the worker with the lock released; it listens
  where the setting says.
- **Settings.** Whoever takes a setting apart again comes to what was checked.

## What is hard in it

`PROJECT.json` lists the hazards with their lines. In short:

- The claim of a free entry, the release after an abort and the sweep of
  orphans *write* to the table while they hold `entry_search_lock` only in
  `LW_SHARED`, so they interleave with one another. The fill in
  `query_start_hook` and the rows of `v1_status_f` hold nothing at all.
- The signal handler interrupts a backend at any instruction, the hooks
  included, and trusts `CURRENT_QUERY_DESC` and the `backend_pid` of an entry.
  It walks the plan, and when the stack is too deep for that its error jumps into
  whatever `PG_TRY` the backend is inside of.
- A backend may have several queries open (functions that run queries,
  cursors), but has one entry and one descriptor.
- Queries end in several ways: ExecutorEnd, transaction abort, subtransaction
  abort, process exit, an error caught inside the hooks, a kill.
- `is_enabled` may change between the start of a query and its end.
- A text is copied into an entry while readers look for its end by a NUL; two
  backends that hold the same entry copy into it at a time. All places in an
  entry are computed from settings.
- An error caught in a hook makes the backend register its callbacks again, and
  the server has 20 places for them.
- The check of the listen address and the two servers each parse it for themselves.

## Modules

| Module | Models | Builds on |
|---|---|---|
| `EntryAllocator` | what the table promises: an allocator, with the hole it has | |
| `SlotTable` | ownership of entries, `entry_search_lock`, sweep, kill and restart | instantiates `EntryAllocator` |
| `QueryHooks` | hooks, callbacks, signal handler, contents of entries | `SlotTable` |
| `Scrape` | the readers: the exporter's request and `v1_status` | `QueryHooks` |
| `PlanWalker` | the listing and the collecting walk over a plan | |
| `EntryLayout` | where entries, texts and nodes are in the segment | |
| `FormatterBuffer` | the text buffer of the exporter and what is appended to it | |
| `EntryText` | the query text of an entry byte by byte, its writers and both readers | `FormatterBuffer`, `EntryLayout` |
| `ListenAddress` | the listen address: the check, and what each server makes of it | |
| `HttpServer` | the life of the exporter and its two HTTP servers | `ListenAddress` |
| `SlotTableProofs`, `EntryAllocatorProofs`, `QueryHooksProofs`, `ScrapeProofs`, `PlanWalkerProofs`, `FormatterBufferProofs`, `EntryTextProofs`, `HttpServerProofs` | proofs, see [Proofs](#proofs) | the module they are named for; `EntryAllocatorProofs` and `QueryHooksProofs` also `SlotTableProofs`, `ScrapeProofs` also `QueryHooksProofs`, `EntryTextProofs` also `FormatterBufferProofs` |
| `MCSlotTable`, `MCQueryHooks`, `MCScrape`, `MCPlanWalker`, `MCEntryText`, `MCHttpServer` | symmetry, bounds and sets of plans and texts for TLC | the above |

A definition whose comment calls it a *variant* is a plausible mistake in the
definition that follows it. No specification uses it; with it in place of the
right one, the property it is meant for is violated.

### SlotTable

The variable `backend_pid[s]` is the field of entry `s`; `readers` and
`writer` are the holders of `entry_search_lock`; `pc[p]` says where process
`p` is, and `i[p]`, `free_slot_idx[p]`, `should_create[p]`, `be[p]` are its
local variables, named as in the code. `registered[p]` says that the exit
callback is registered. `overwritten` is a history variable: it becomes true
when a claim writes its pid over the pid of another backend.

Each loop over the table advances by one entry per action, and an action
never both reads a shared field and acts on what it read unless the code
holds a lock that keeps others out. So `pwh_get_or_create_my_backend_entry_impl`
is `LookupStart`, `LookupStep` for each entry, and then one of `LookupFound`,
`LookupClaim`, `LookupMiss`. Three merges are made on purpose:

- the two reads of `backend_pid` in one round of the lookup (lines 136 and
  140 of `shared_memory.c`) are one read: they differ only if the entry
  becomes the caller's own between them, and only the caller writes its pid;
- the end of a critical section and the release of the lock are one step: no
  other process can tell them apart;
- the scan of `backend_exit_callback` is one step, because it holds the lock
  exclusively (`ExclusiveIsAlone` is what makes that sound).

The lock is the server's lightweight lock: many shared holders or one
exclusive holder, and a waiting exclusive request does not hold later shared
requests back. It does not know who asks: a process that holds it in `LW_SHARED` and
asks for it in `LW_EXCLUSIVE` waits for itself. While a process holds it interrupts are held off, which is why
termination (`ExitStart`) is possible when idle or while filling an entry in,
and not inside a critical section. An error of the signal handler is not held off: it takes a process out of
its lookup (`LookupError`), out of the wait for the lock (`EndLockError`), out of
filling an entry in (`FillError`) or out of the collection (`EndError`). The nested
shared acquisitions of `pwh_get_backend_entry` inside `metrics_handler` can neither block nor free
the lock and are not steps.

`Die` is a kill: the process keeps its locks and its entry. `Restart` is the
postmaster's answer: every process starts anew and the table is zeroed
(`pwh_shared_memory_startup_hook`). `Connect` is a new backend that gets the
pid of one that left. `HandleSigterm` ends the exporter for good: it exits
with 0 and the postmaster does not start it again.

### EntryAllocator

The promise of the table without locks, scans and callbacks: a process takes an
entry when it has none, releases its own, leaves with none behind, or is killed
and has its entry reclaimed. The hole is in it too: an entry may be taken from
under its owner, which makes the table `contested`, and only then may an owner
lose its entry to another (`Usurp`). `SlotTable` implements it with
`owner = backend_pid`, `contested = overwritten`, and a `life` that is computed
from `pc` (`ImplementsAllocator`, checked and proved).

### QueryHooks

Every action of `QueryHooks` is an action of `SlotTable` joined with what it
does to the backend's own variables and to the contents of the entry, or it
leaves the variables of `SlotTable` alone. That every behaviour of
`QueryHooks` is one of `SlotTable` is checked (`PROPERTY Spec` in
`MCQueryHooks_flat.cfg`), and carries its invariants over.

`hook[p]` is how far the hook of `p` has come, `cur[p]` the query it was
called for, `open[p]` the queries started and not ended,
`CURRENT_QUERY_DESC[p]` the descriptor, `enabled[p]` the value of
`is_enabled` the backend last loaded. `content[s]` has three parts that are
written at different times: `topology` (node ids and tags, by the listing
walk), `meta` (count, id, start time, text) and `values` (the numbers, by the
collecting walk). Each holds the `<<backend, query>>` it was written for, so
"mixed up" can be said. A fourth part, `followed`, is history: which query the
descriptor was when the nodes were listed. So is `shown[p]`: the open queries whose
start got an entry.

The handler finds its entry in one step and collects in another; in between
only other processes move (`Running(p)` holds the backend itself back). It
may run at any step of the hooks. Its walk may fail (`check_stack_depth`), and the
error jumps out of the handler: into the `PG_CATCH` of the start hook
(`HandlerFailsStart`), into that of the end hook (`HandlerFailsEnd`), or past all
hooks, in which case the query is gone and with it the transaction, or what the
subtransaction that handles the error has opened (`HandlerFailsQuery`). From the
lookup of a start the way is into a lock the backend holds itself (`hooks_trapped`).
SIGUSR2 sent to a backend that has not
installed the handler is ignored by the server and is not a step.

A transaction abort first frees the queries and then calls the callback; the
signal may arrive in between, so `AbortTransaction` and
`query_cleanup_callback` are two actions. After the exit callback the server
aborts the open transaction; the scan for an entry then finds none
(`OneSlotPerBackend`) and is left out. `EndCollect` merges the release of the
lock with the clearing of the descriptor that follows it: no other process
sees the descriptor, and a signal between the two finds an entry that is
free and does nothing, or one that was claimed by another and does nothing.

`exit_callbacks[p]` counts the places of `before_shmem_exit` that the backend has
taken. An error caught in a start resets `WAS_BACKEND_INITIALIZED`, and the next
tracked query registers again (`InitializeState`); without a place left the server
raises FATAL outside of `PG_TRY`, and the backend exits from where it is
(`InitializeFails`). `MaxExitCallbacks` stands for the 20 of the server.

The constant `Events` chooses what else may come up in a run: a reload of the
configuration, the abort of a subtransaction, an error in a walk of the hooks or in
one of the signal handler. The history variable `raised` remembers which have, and properties that only hold without
some of them say so.

Kills and the exporter's sweep are left to `SlotTable`.

### Scrape

A reader beside the backends of `QueryHooks`, as often as it likes the exporter
(`metrics_handler`: sweep, signal, sleep, format, all under one `LW_SHARED`) or a
backend in `v1_status_f` (signal and sleep under `LW_SHARED`, then read without
it; `exporter_reads` says which). `part` is what it reads next. What is printed of
an entry is a `line`, whose parts are read one at a time: the pid, the `meta`, the
nodes. The rows `v1_status` returns for one entry are one line here; its
`HasLine` needs a node count that is not zero, the exporter's does not. The time
a reader waits for answers is the stretch in which `part = "sleep"`; it ends
whether or not the handlers have run, and a late handler runs while the reader
reads. Two history variables carry the property: `quiet` holds the queries that
have run undisturbed since the scrape began, `answered` the backends whose handler
has finished before the sleep was over.

### PlanWalker

One entry, one plan and the two walks: `walk_planstate_recursive` with its calls to come
on an explicit stack, `topology_visitor` in `ListStep`, `instrumentation_visitor` in
`CollectStep`. A plan says of every node which nodes hang off it by the links the walk
follows (`lefttree`, `righttree`, `subPlan`, and `members` for the children of `Append`
and the like), and `ChildrenIn` puts them in the order of the walk; nothing keeps two
nodes from sharing a child, as two scans of one CTE do. What a preorder is, `InPreorder`
says of the places without recursion: the children of a node are there in their order,
none left out, with nothing between a node and a child of it but what is below the node,
and what is left behind is complete. An assumption of `MCPlanWalker` compares that with
the recursive definition: for every small plan, and whatever is written into up to four
places, it holds exactly of the beginnings of the recursive preorder. `Plans` is a
constant: `MCPlanWalker` gives TLC every small plan, and the proofs take any. The
numbers collected into a place are the node they were read from, so a number in a wrong
place is visible. The entry starts with the nodes of an earlier query in it, and a walk
may fail at any call (`check_stack_depth`).

### EntryLayout

The sizes and addresses of `shared_memory.c` as functions of the settings and of
the sizes of the C structures, with the set of bytes each part takes. A module
of definitions; `EntryText` puts its bytes at these addresses.

### FormatterBuffer

The variables are the fields of `FormatterBuffer` in `metrics.c`, and where the
string last ended (`nul`). A text is its length. The actions are the calls
`pwh_format_openmetrics` makes, in its order; how many entries, characters and
nodes there are is left open. The room is tested once per append and doubled at
most once, and the offset advances by what `vsnprintf` *wanted* to write: that this
is enough rests on no line being longer than the 1024 bytes asked for
(`Lengths`): the longest line has a node name, two 20-digit ids and a number, and
the query text goes in character by character.

### EntryText

`mem` holds the bytes of all text areas, at the addresses of `EntryLayout`.
`query_start_hook` copies a text with `snprintf` and no lock: `WriteBegin`, a
`WriteChar` for each byte, `WriteEnd` for the NUL. Each of the `Writers` may begin a
copy in any entry at any time, in one that another is writing too, because that is
what the race of `slots_race` leads to; and an error of the signal handler may jump out
of a copy (`WriteFails`). The history variable `spoilt` has the entries whose text two
copies have mixed or one has left half-way. A reader finds the end by a NUL alone: the formatter
escapes byte after byte into its buffer (`EscapeByte`, a `PutChar` or `PutEscaped`
of `FormatterBuffer`), and a row of `v1_status` measures the text and then copies
it in a second pass (`Measure`, `CopyByte`; the server's `CStringGetTextDatum`).
An address outside of the text areas may read as any byte, so that a reader that
gets there is not stopped by the model. `torn` remembers that the entry was
written during the read. The bytes are plain ones, special ones (`"`, `\`, newline)
and NUL.

### ListenAddress

A text is a sequence of digits, colons, slashes and letters; a letter is any other
character. `check_listen_address` takes it apart at the first colon, does not look at
what is before it, and wants nothing behind the number; `dumb_create`
takes what follows the last colon; `mongoose_create` prints it into a URL that
`snprintf` cuts, and mongoose takes the first colon for the one before the port unless
a slash has ended the host already (`urlparse` in `vendor/mongoose.c`), in which case
the port is that of `http:`, 80. Blanks and signs, which `strtol` and `atoi` skip alike,
are left out.

### HttpServer

The process of the exporter from its start to its end, with the `dumb` or the
`mongoose` server (`impl`, chosen at compile time and so in `Init`), the
postmaster that starts it again after an error (`worker`), and clients that
connect, send all, a part or nothing of a request, hang up at any point, after they have
sent it too (`left`), and come back.
`at` is where the process is, `serving` the client it is busy with. `dumb` accepts
from a queue, reads once and waits as long as the client sends nothing;
`mongoose` calls its handler for a message that has arrived whole. Both call
`metrics_handler`, of which only the lock is left here: `scrape` is the stretch from
`LWLockAcquire` to `LWLockRelease`, in which `Scrape` and `SlotTable` say what
happens. An error in the handler, before or after, ends the process (`HandlerFails`).
Its answer 500 is for a formatter that returns NULL, which it never does, so there is no
such step. `address` is any text that is accepted and stays as it is; `port` is what the
server made of it, at every start anew.
`ProcessEnds` is what the end of the process does by itself: the server
closes its connections and lets go of its lock. `bodies` counts response bodies that
have not been freed, up to `MaxBodies`.

## Runs

| Run | Instance | Shows |
|---|---|---|
| `slots` | 2 backends, 2 entries, exporter | ownership and lock invariants under every interleaving; holders let the lock go, but for a start that waits for itself; refinement of `EntryAllocator` |
| `slots_race` | 3 backends, 2 entries | **violated**: two lookups claim the same entry |
| `hooks_flat` | 2 backends, 1 entry, 1 query | tracked queries keep their entry, refinement of `SlotTable` |
| `hooks_nested` | 1 backend, 2 entries, 3 queries, 2 of them tracked, all events | nodes and text of an entry agree, and so do nodes and numbers; the descriptor is an open query, errors in the walks or not; without events no entry without an open query; callbacks registered once unless an error was caught |
| `hooks_vanishing` | 1 backend, a tracked query and one that is not | **violated**: a running query loses its entry |
| `hooks_trapped` | 1 backend, 2 tracked queries, an error in the signal handler | **violated**: a nested start waits for the lock it holds itself |
| `hooks_subabort` | 1 query, subtransaction aborts | **violated**: dangling descriptor |
| `scrape_quiet` | 2 backends, 2 entries, 1 query each, errors in the walks, a reader | a query that runs undisturbed is shown, all of it its own |
| `scrape_text` | 2 backends, 1 entry, a reader | **violated**: the text of one backend's query under the pid of another |
| `walks` | plans of up to 4 nodes, 3 places | the listing is the preorder or its beginning; numbers go where they belong |
| `http` | 2 clients, both servers, every accepted text of up to 5 characters | listens on the port that was checked, or with `mongoose` on 80 if a slash hides it; lock only held within a scrape, right answers, no leak in `mongoose`, requests are served |
| `buffer` | 2 writers, 2 entries with a text area of 3, a text that is empty and one that is cut; a buffer of 5, a reserve of 3 | no reader leaves a text, an undisturbed one shows the source unless the text is spoilt; offset inside the buffer, result terminated |

A violated run checks what a comment, the documentation or a test says, and shows
a way in which the code does otherwise; `PROJECT.json` quotes each.

Further ways to break a property turned up and are kept out by what the
property assumes. To see them, weaken it: with errors in the walks,
`EntryMeansRunning` fails because the `PG_CATCH` of `query_end_hook` keeps the entry;
with reloads, `QueryDescIsLive` fails because `query_end_hook` skips its part when
`is_enabled` has been turned off; without its `followed`,
`ValuesMatchTopology` fails because the handler still follows the outer query while
the nested one is being listed, and with errors in the walks because the end hook of
another query may have collected some of its numbers before the error; without
`spoilt`, `QuietReadIsExact` fails because two copies into one entry do not leave the
text that was begun last; with `dumb` a text longer than its buffer of 8192
bytes is sent wrong and bodies are never freed, so `AnswersOwnRequest` and
`BodiesAreFreed` claim this of `mongoose` only. A row per plan node is not claimed
either: the plan of a CTE is listed once below each of its scans
(`plan_tree_walker.c:111`), and `ListingIsPrefix` counts it that often. With a
listen address longer than the 127 characters of its URL, `mongoose` may listen on
a cut port, or on 80; `ListensOnCheckedPort` excepts it, and states of an address
like `127.0.0.1/x:9187`, which the check accepts, that the port is 80. With caught
errors, in a walk of the hooks or of the handler,
`RegistersOnce` fails, and the run reaches the FATAL.

Seen in the code and outside of every model: `dumb` ignores the host it was given
and listens on all addresses; the branch for an empty address in `bg_worker.c` is
never taken, because the check refuses an empty text; the segment is requested
before its size is computed, with 0 bytes; and the upgrade script from 1.0 to 1.1
declares 19 columns for `v1_status` where the C code returns 20.

**Bounds.** Two entries and two backends are the least that have a backend
scan past an entry of another, find a free one behind it and race for it, beside the
exporter's sweep, kills and restarts; that there is no entry left takes the one entry
of `hooks_flat`, which already has every case of a claim against a release. That a third
backend changes nothing is proved: the invariants and the refinement hold for any number. Three nested queries let a tracked
query start and end inside another tracked one and an untracked one beside
both. Two entries let a reader pass an entry that comes and goes before the one
it must not miss. Four nodes in three places have every kind of link, a
node with children of two kinds, and a plan that is cut inside a subtree; four
are also what a CTE with two scans takes. A buffer of 5 is doubled twice
before it holds the 15 of `MaxOutput`. Two entries with a text area of 3 let a
copy that went one byte too far reach the next entry, and a text of three be cut;
the empty text over it leaves its rest behind the NUL. Two writers are what it takes to
mix two copies of one entry, or to write both entries at a time.
Listen addresses of five characters have two colons, nothing before or behind a colon, a port
over the limit (`MaxPort` is 10), a slash in the host and a URL that is cut (`UrlRoom`
is 4) at every place. `MaxExitCallbacks` is 2 with errors, so that the places do run out, and 1
without, where one must do. The hooks and the table have no other counters
and no queues, so nothing else is cut off there.

Two runs leave a behaviour where its property has nothing more to say:
`UntilOverwritten` once a claim has overwritten another, `WhileQuiet` also once no
query of the current scrape is undisturbed any more.

**Properties that assume `~overwritten`.** The race of `slots_race` breaks
most of what one would say about an entry, so these properties are stated
for as long as it has not happened: they show that the race is the *only* way
to break them. `OneSlotPerBackend`, `GoneOwnsNothing` and `ExclusiveIsAlone`
hold with the race too.

**Fairness.** `FairSpec` assumes that a process inside a hook goes on
(`Proceed(p)`: no step in it waits for another process), that the exporter
goes on once it scrapes (`ExporterProceeds`: it sleeps for a bounded time),
and that the postmaster restarts the cluster after a kill (`Restart`).
In `HttpServer` the worker goes on wherever it does not wait for a client, `mongoose`
comes round to every connection (`mg_mgr_poll` visits all of them each time), and
the postmaster restarts a worker that exited with 1. Clients owe nothing: that is
why `RequestIsServed` has to except a client that keeps `dumb` in `recv`.
Nothing is assumed about entering a hook or about getting the lock: with
shared requests overtaking exclusive ones the code gives no guarantee, and
that a waiting backend gets `LW_EXCLUSIVE` is not claimed. `HoldersLetGo` has to except
one holder: a start hook that an error of the signal handler takes out of its lookup
waits for the lock it holds (`Trapped`), and nothing but a kill ends that.

**Deadlock** is checked in every run but two. In `http` an exporter that exited with 0
is gone for good, and its clients have nothing left to do. In `hooks_nested` the one
backend may wait for itself, which is what `hooks_trapped` is about.

## Proofs

`SlotTableProofs` proves, for any set of backends and any number of entries,
`TypeOK`, `ExclusiveIsAlone`, `OneSlotPerBackend`, `GoneOwnsNothing`,
`EntryIsOwned` and the action property `OnlyOwnerReleases`. The only
assumption is `SlotTableAssumption`: the names of processes are distinct and
there is at least one entry.

None of these is inductive alone. The invariant is `OwnershipInv`, the
conjunction of

- `TypeOK` and `PointersInRange`: what a step is about to write to is an entry;
- `ScanFoundNone`: a lookup has not passed an entry with its own pid. Only a
  backend itself writes its pid, so the part of the table behind the scan
  stays free of it, and the claim at the end of the scan cannot give it a
  second entry: this is what `OneSlotPerBackend` rests on;
- `UnregisteredOwnsNothing`: a backend that owns an entry has registered the
  callback that releases it, which `GoneOwnsNothing` needs;
- `OneSlotPerBackend`, `GoneOwnsNothing` and `EntryIsOwned` themselves: the
  callbacks stop at the first entry with their pid, so without
  `OneSlotPerBackend` a second one would be left behind.

The lock does not appear in it. Ownership does not depend on
`entry_search_lock` at all, only on each process writing nothing but its own
pid and on the sweep freeing entries of processes that are gone, whose pid
nobody can take before `Connect`. The lock has an invariant of its own,
`LockIsHeld`, from which `ExclusiveIsAlone` follows.

The lemmas `...Moves` say that a step of one process changes no other
process's local variables, and `TableStep` that it writes at most its own
pid or frees one entry; the preservation lemmas use these instead of the
actions.

`EntryAllocatorProofs` proves `ImplementsAllocator` from `OwnershipInv`: each action
of `SlotTable` changes the table or the life of one process, and is then a `Take`,
`Release`, `Reclaim`, `Usurp`, `Leave`, `Arrive`, `Kill` or `Restart`, or it changes
neither and is a stutter. `Leave` takes `GoneOwnsNothing`, and `Release` what
`EntryIsOwned` says of an entry in hand.

`QueryHooksProofs` proves, for any backends, queries and events, that every behaviour
of the hooks is one of `SlotTable` (`HooksFollowSlotTable`), so that all of
`SlotTableProofs` holds of them, and then `HooksTypeOK`, `EntryDescribesOneQuery`,
`QueryDescSurvivesErrors`, `RegistersOnce` and `EntryMeansRunning`. The invariants
build on one another:

- `Placed`: where a backend is in a hook and where it is in the table go together;
- `InHand`: the entry a hook or an abort is at is the only one it can own (it rests
  on `OneSlotPerBackend`);
- `Described`: what an entry says while its owner fills it in, and afterwards;
- `SetUp`: without a caught error, `WAS_BACKEND_INITIALIZED`, the registration and
  the count of callbacks agree;
- `Followed`: the descriptor is only set while its backend owns an entry, so that the
  end of the query finds the entry and clears it; it uses `Described`'s argument that
  nobody else frees the entry, and so assumes `~overwritten`;
- `Held`: the owner of an entry has a query open or is giving the entry back.

The numbers take more (`ValuesMatchTopologyHolds`), for any nesting and every event but
an error in a walk of the hooks. The invariant is `ValuesListed`: if nothing was followed when the nodes of an entry were
listed, the numbers in it are of those nodes, or none, and nothing is followed until the
start hook is done. With it go `DescTold` (outside of a start, an entry lists the plan
of the descriptor) and `HandlingOwn` (a handler that has found an entry has found its
backend's own).

One property of `QueryHooks` is false of queries that nest, and is proved under
the hypothesis that rules out just that. `ShownHasEntry` needs `Flat`, at most one open
query per backend: the end of a nested query, tracked or not, takes the
entry of the outer one away, which is what `hooks_vanishing` finds. Under `Flat` it
holds through errors, of the handler too, reloads and every kind of abort
(`ShownHasEntryHolds`; the invariant `Shown` says where the entry is while a hook is at
work on it). The hypothesis is met by every behaviour when there is one query to run
(`SingleShownHasEntry`), which is the instance of `hooks_flat`.

`ScrapeProofs` first shows that a reader leaves alone what the invariants of the hooks
are about (`HooksInv`, their conjunction): it signals, which the hooks allow at any
time, and it locks, sweeps and reads. The sweep is the delicate part: it would write to
the table, but without kills it never finds an orphan (`SweepFindsNothing`), because
a backend that is gone owns nothing. So what is proved of the hooks holds
beside a reader (`EntryDescribesOneQueryBesideReader`). Then `ScrapeTypeOK`, and
`QuietQueryIsShown` from `QuietInv`: the entry of a quiet query stays where it is and
says the same, and relative to that entry the reader has yet to come to it, is at
it with a line that is right so far, or has printed it.

`PlanWalkerProofs` proves, for any plans, nodes and places, `TypeOK`, `ListingIsPrefix`,
`CollectedFromOwnNode` and `CollectReachesAll`. For the order, `ListedInOrder` says that the places written so far are in
preorder, that the calls to come (`Agenda`) are exactly the children that have no place
yet, those of one node in their order and those of a later node first, and that a place
which takes no more children has all of them. So the next call is one that may be
written next (`IsDue`, `NextIsDue`), to write it keeps the places in preorder
(`PreorderGrows`), and when no call is left every node has all its children. For the
numbers, the two walks are compared by the *trail* they leave: the sequence `H` of their
stacks, where `H[k]` is the calls to come when `k` places are done and `H[k + 1]`
follows from `H[k]` and the plan. A listing leaves such a trail and records it in its
places (`Listing`); a finished listing has come to the end of the trail or of the places
(`IsListing`); and a collecting walk goes along the same trail (`GoesAlong`), so that
the place its counter points at is the one written for the node it is called with, and
the magic is always there. The trail is a witness in the invariant and not a variable.

`FormatterBufferProofs` proves `OffsetInBuffer`, `ReturnedIsTerminated` and `GrowsWhenNeeded` for any initial size, any reserve that
fits into it and output of any length. The invariant `BufferInv` joins them with
`size >= InitialSize`: one doubling makes room for the reserve because the buffer is
never smaller than the reserve to begin with. That a line is shorter than the
reserve is part of the model, not of the proof.

`EntryTextProofs` proves the layout for any settings (`EntriesAreApart`,
`PartsAreApart`: nothing overlaps, and all of it is in the segment that was asked
for), and `ReadsStayInText` and `QuietReadIsExact` for any texts, writers and entries.
The invariant `TextInv` has `Ended`: the last byte of every area is NUL and
is never written with anything else, however many copies write to it, which is what
stops a reader whatever it overtakes; `Copied`: an entry that is not spoilt has one copy
at a time, and what has been copied is in it; `InArea` and `InStep`: where a reader is,
and that an undisturbed one of such an entry has shown the source so far.
`TextUsesBuffer` carries the theorems about the buffer over.

`HttpServerProofs` proves `PortsAgree` for texts of any length: an accepted text has
one colon, so that the first is the last and `dumb` takes the port that was checked; so
does `mongoose` with a URL that is not cut, or port 80 if there is a slash before the
colon. The invariant `ServerInv` gives the safety
properties of `HttpServer` for any clients: `Busy` (where the worker may be and whom
it serves), `Due` (what it is about to answer belongs to the request at hand), `Held`,
`Allocated` and `Listens`.

The assumptions are those the modules name (`SlotTableAssumption` and so on): names
are distinct, sizes and limits are positive, texts are texts.

Every safety property of the passing runs, invariant or action property, is stated by a
theorem. Only model-checked are the liveness properties `HoldersLetGo`
and `RequestIsServed`, and the fairness in them: the prover does not reach it. That
`InPreorder` means the recursive preorder is an induction over the plan, which the
installed provers cannot do, and is checked on small plans. The properties
of `FormatterBuffer` take the lengths of the lines as given.

## What is not modelled

- The headers of requests and responses; the death of the postmaster, which the
  exporter does not notice; that the exporter never rereads `signal_timeout_ms`.
- Which metrics the formatter prints, how it computes a percentage, and that the sum
  it divides by was read earlier than the time it divides: the numbers of a node are
  one value.
- In the run of `Scrape`: errors of the signal handler, reloads and subtransaction aborts,
  which its specification has and its proofs cover.
- In `Scrape` altogether: kills, and the orphans they leave, which `SlotTable` has. What a row
  of `v1_status` mixes when its entry changes between two rows of it.
- The alignment of nodes, and whether the server has the memory the segment takes.
- An error of the signal handler in a process that is exiting or queued for the lock,
  and that SIGUSR2 stays blocked once such an error has jumped out of it: in the models
  it may come again.
- The count of held-off interrupts, which is the server's: after an error in
  `query_end_hook` it wraps around in `LWLockRelease`, and the backend cannot be
  terminated until its next error. The models let it be terminated.
- Versions: the models follow the macros of 15 to 18. On 9.4 and 9.5 the lock
  is reached differently but used in the same places. `compatibility.c` names nodes
  and hashes a text into a query id; two queries with one id are not told apart.
- `_PG_init` and `_PG_fini` set hook pointers, before and after everything else.
- `poll_generation` is written and never read by a decision; the debug
  counters of the handler and all logging are left out.
- Memory ordering: reads and writes of `backend_pid` are taken to be atomic
  and in order, as they are for aligned `sig_atomic_t` on the supported
  platforms with the barriers the code has.
- The answer 500 of the exporter: the formatter returns a text or raises an error.
- The SQL declarations, build scripts, dashboards and tests; of the vendored
  Mongoose all but how it takes the port out of a URL.

## Plan

What is left, in this order:

1. `Scrape` with kills, so that its sweep has orphans to find while it is read.
2. `CollectReachesAll` across `QueryHooks` and `PlanWalker`: the `values` of an entry
   in the one as what the walk of the other leaves.
