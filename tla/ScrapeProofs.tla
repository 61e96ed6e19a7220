------------------------------ MODULE ScrapeProofs ------------------------------
(***************************************************************************)
(* Proofs about Scrape: what QueryHooksProofs shows of the entries holds   *)
(* beside a reader too, and a query that is left alone is in the output of *)
(* every scrape, for any number of backends and entries.                   *)
(***************************************************************************)
EXTENDS Scrape, QueryHooksProofs

USE DEF Procs, Slots, NoSlot

(* What the proofs about the hooks rest on. *)
HooksInv ==
    /\ HooksTypeOK /\ OwnershipInv /\ Placed /\ InHand /\ Described /\ HandlingOwn /\ DescTold

LEMMA HooksInvStep == HooksInv /\ [HooksNext]_allVars => HooksInv'
<1>. HAVE HooksInv /\ [HooksNext]_allVars
<1>1. OwnershipInv'
  BY OwnershipStep, TableStepOfHooks DEF HooksInv
<1>2. HooksTypeOK' /\ Placed'
  BY HooksTypeStep, PlacedStep DEF HooksInv, OwnershipInv
<1>3. InHand' /\ Described'
  BY <1>1, InHandStep, DescribedStep DEF HooksInv
<1>4. HandlingOwn' /\ DescTold'
  BY <1>1, HandlingStep, ToldStep DEF HooksInv
<1>. QED  BY <1>1, <1>2, <1>3, <1>4 DEF HooksInv

LEMMA InitHooksInv == HooksInit => HooksInv
<1>. HAVE HooksInit
<1>1. HooksTypeOK /\ Placed /\ OwnershipInv
  BY InitPlaced, InitOwnership DEF HooksInit
<1>. QED
  BY <1>1, SlotTableAssumption
  DEF HooksInit, Init, HooksInv, InHand, EntryInHand, Described, HandlingOwn, DescTold, TellsDesc,
      Owns

-----------------------------------------------------------------------------
(* The reader's side.  Nobody is killed here, and who leaves gives its     *)
(* entry back, so its sweep finds nothing to release.                      *)
NoOrphan == pc[Exporter] # "orphan"

LEMMA NobodyIsOrphaned ==
    ASSUME HooksInv, NEW s \in Slots
    PROVE  ~IsOrphan(s)
<1>. SUFFICES ASSUME backend_pid[s] \in Backends, ~Exists(backend_pid[s]) PROVE FALSE
  BY DEF HooksInv, HooksTypeOK, TypeOK, IsOrphan, Active
<1>1. pc[backend_pid[s]] # "dead"
  BY DEF HooksInv, Placed, PlaceOf, HooksTypeOK, HookSteps, LeavingAt
<1>2. pc[backend_pid[s]] # "gone"
  BY DEF HooksInv, OwnershipInv, GoneOwnsNothing
<1>. QED  BY <1>1, <1>2 DEF Exists

(* What a step of the reader leaves as it is.                              *)
HooksLeftAlone ==
    /\ UNCHANGED <<table, hook, cur, open, CURRENT_QUERY_DESC, enabled, setup, handling, content,
                   shown>>
    /\ \A q \in Backends : TableStays(q) /\ free_slot_idx'[q] = free_slot_idx[q]
    /\ pending' \in [Backends -> BOOLEAN]
    /\ NoOrphan'

LEMMA ReaderLocks ==
    ASSUME HooksInv, NoOrphan,
           \/ ScrapeStart \/ PollStart(Exporter) \/ CleanupStep \/ CleanupRelease \/ CleanupDone
           \/ PollEnd(Exporter)
    PROVE  /\ UNCHANGED table /\ NoOrphan'
           /\ \A q \in Backends : TableStays(q) /\ free_slot_idx'[q] = free_slot_idx[q]
<1>. USE SlotTableAssumption
     DEF HooksInv, HooksTypeOK, TypeOK, NoOrphan, TableStays, Goto, ScrapeStart, PollStart,
         CleanupDone, PollEnd, local
<1>1. CASE CleanupStep
  <2>1. ~IsOrphan(i[Exporter])
    BY <1>1, NobodyIsOrphaned DEF CleanupStep
  <2>. QED  BY <1>1, <2>1 DEF CleanupStep
<1>2. ~CleanupRelease
  BY DEF CleanupRelease
<1>. QED  BY <1>1, <1>2

LEMMA ReaderStaysOut ==
    ASSUME HooksInv, NoOrphan, ReaderNext
    PROVE  HooksLeftAlone
<1>. DEFINE Stays == /\ UNCHANGED table /\ NoOrphan'
                     /\ \A q \in Backends : TableStays(q) /\ free_slot_idx'[q] = free_slot_idx[q]
<1>1. UNCHANGED vars => Stays
  BY DEF vars, table, local, NoOrphan, TableStays
<1>2. Stays
  BY <1>1, ReaderLocks
  DEF ReaderNext, ReaderStart, ReaderSweep, ReaderSignals, ReaderSleeps, ReaderWakes, ReadEntry,
      ReadPid, ReadMeta, ReadNodes, ReadLast, ReaderEnd, Read, ScrapeEnd, allVars
<1>3. pending' \in [Backends -> BOOLEAN]
  BY DEF HooksInv, HooksTypeOK, hookVars, allVars,
      ReaderNext, ReaderStart, ReaderSweep, ReaderSignals, ReaderSleeps, ReaderWakes, ReadEntry,
      ReadPid, ReadMeta, ReadNodes, ReadLast, ReaderEnd, Read
<1>4. UNCHANGED <<hook, cur, open, CURRENT_QUERY_DESC, enabled, setup, handling, content, shown>>
  BY DEF hookVars, allVars,
      ReaderNext, ReaderStart, ReaderSweep, ReaderSignals, ReaderSleeps, ReaderWakes, ReadEntry,
      ReadPid, ReadMeta, ReadNodes, ReadLast, ReaderEnd, Read
<1>. QED  BY <1>2, <1>3, <1>4 DEF HooksLeftAlone

(* Taking the lock to poll is no step of the exporter in SlotTable.        *)
LEMMA PollKeepsOwnership ==
    ASSUME OwnershipInv, PollStart(Exporter)
    PROVE  OwnershipInv'
<1>. USE SlotTableAssumption DEF OwnershipInv, PollStart, Goto, table, local, TypeOK
<1>1. TypeOK'
  BY DEF AcquireShared, ExporterSteps, vars
<1>2. \A q \in Backends : pc'[q] = pc[q]
  OBVIOUS
<1>3. PointersInRange' /\ ScanFoundNone' /\ UnregisteredOwnsNothing' /\ GoneOwnsNothing'
  BY <1>2 DEF PointersInRange, ScanFoundNone, UnregisteredOwnsNothing, GoneOwnsNothing
<1>4. OneSlotPerBackend'
  BY DEF OneSlotPerBackend, Active
<1>5. EntryIsOwned'
  BY <1>2 DEF EntryIsOwned, FillsOwnEntry, HoldsEntry, AbortReleasesOwnEntry, SweepReleasesOrphan
<1>. QED  BY <1>1, <1>3, <1>4, <1>5

LEMMA ReaderKeepsOwnership ==
    ASSUME OwnershipInv, ReaderNext
    PROVE  OwnershipInv'
<1>1. PollStart(Exporter) \/ [Next]_vars
  BY DEF ReaderNext, ReaderStart, ReaderSweep, ReaderSignals, ReaderSleeps, ReaderWakes, ReadEntry,
         ReadPid, ReadMeta, ReadNodes, ReadLast, ReaderEnd, Read, ScrapeEnd, allVars,
         Next, ExporterNext
<1>. QED  BY <1>1, PollKeepsOwnership, OwnershipStep

LEMMA ReaderKeepsHooks ==
    ASSUME HooksInv, NoOrphan, ReaderNext, UNCHANGED raised
    PROVE  HooksInv'
<1>. USE DEF HooksInv, HooksLeftAlone
<1>1. OwnershipInv' /\ HooksLeftAlone
  BY ReaderKeepsOwnership, ReaderStaysOut
<1>2. HooksTypeOK'
  BY <1>1 DEF OwnershipInv, HooksTypeOK, setup
<1>3. Placed' /\ InHand'
  BY <1>1 DEF Placed, PlaceOf, InHand, EntryInHand, TableStays, Owns, table, setup
<1>4. Described' /\ HandlingOwn' /\ DescTold'
  BY <1>1 DEF Described, ContentOf, HandlingOwn, DescTold, TellsDesc, TableStays, Owns, table
<1>. QED  BY <1>1, <1>2, <1>3, <1>4

(* The backends' side: their steps are those of QueryHooks. *)
LEMMA BackendsMove ==
    ASSUME HooksInv, NEW p \in Backends,
           BackendMoves(p) \/ (HandlerCollect(p) /\ UNCHANGED raised)
    PROVE  HookStep(p) /\ [HooksNext]_allVars /\ HooksInv' /\ (NoOrphan => NoOrphan')
<1>1. HookStep(p) /\ [HooksNext]_allVars
  BY DEF BackendMoves, HookStep, SignalNext, HooksNext
<1>2. TableStays(Exporter)
  BY <1>1, TableStaysElsewhere, SlotTableAssumption DEF HooksInv, HooksTypeOK
<1>. QED  BY <1>1, <1>2, HooksInvStep DEF NoOrphan, TableStays

LEMMA ScrapeHooksStep ==
    ASSUME HooksInv, NoOrphan, [ScrapeNext]_scrapeVars
    PROVE  HooksInv' /\ NoOrphan'
<1>1. CASE UNCHANGED scrapeVars
  <2>1. UNCHANGED allVars
    BY <1>1 DEF scrapeVars
  <2>. QED  BY <2>1, HooksInvStep DEF NoOrphan, allVars, vars
<1>2. CASE ScrapeNext
  BY <1>2, ReaderKeepsHooks, ReaderStaysOut, BackendsMove
  DEF ScrapeNext, BackendStep, BackendAnswers, HooksLeftAlone
<1>. QED  BY <1>1, <1>2

LEMMA HooksBesideReader == ScrapeSpec => [](HooksInv /\ NoOrphan)
<1>1. ScrapeInit => HooksInv /\ NoOrphan
  BY InitHooksInv DEF ScrapeInit, HooksInit, Init, NoOrphan
<1>. QED  BY <1>1, ScrapeHooksStep, PTL DEF ScrapeSpec

(* While nobody is killed, a sweep never takes an entry from anybody: the  *)
(* processes that leave give theirs back first.                            *)
THEOREM SweepFindsNothing == ScrapeSpec => [](\A s \in Slots : ~IsOrphan(s))
<1>1. HooksInv => \A s \in Slots : ~IsOrphan(s)
  BY NobodyIsOrphaned
<1>. QED  BY <1>1, HooksBesideReader, PTL

(* A reader does not disturb what an entry says of its query.              *)
THEOREM EntryDescribesOneQueryBesideReader == ScrapeSpec => []EntryDescribesOneQuery
<1>1. HooksInv => EntryDescribesOneQuery
  BY DEF HooksInv, Described, ContentOf, EntryDescribesOneQuery
<1>. QED  BY <1>1, HooksBesideReader, PTL

-----------------------------------------------------------------------------
(* The reader's own variables. *)
Reading == {"pid", "meta", "nodes"}
ReaderTyped ==
    /\ ScrapeTypeOK
    /\ part \in Reading => slot_idx < MaxTrackedQueries
    /\ part = "sleep" => slot_idx = 0

LEMMA ReaderTypeStep ==
    ASSUME HooksInv, HooksInv', ReaderTyped, [ScrapeNext]_scrapeVars
    PROVE  ReaderTyped'
<1>. USE SlotTableAssumption
     DEF ReaderTyped, ScrapeTypeOK, Reading, Parts, LineTypes, Read, readerVars
<1>0. HooksTypeOK /\ HooksTypeOK'
  BY DEF HooksInv
<1>1. CASE ReaderStart
  BY <1>0, <1>1 DEF ReaderStart
<1>2. CASE ReaderSweep
  BY <1>0, <1>2 DEF ReaderSweep
<1>7. CASE ReaderSignals
  BY <1>0, <1>7 DEF ReaderSignals
<1>8. CASE ReaderSleeps
  BY <1>0, <1>8 DEF ReaderSleeps
<1>9. CASE ReaderWakes
  BY <1>0, <1>9 DEF ReaderWakes
<1>10. CASE ReadEntry
  BY <1>0, <1>10 DEF ReadEntry
<1>11. CASE ReadLast
  BY <1>0, <1>11 DEF ReadLast
<1>12. CASE ReaderEnd
  BY <1>0, <1>12 DEF ReaderEnd
<1>3. CASE ReadPid \/ ReadMeta
  <2>1. slot_idx \in Slots
    BY <1>3 DEF ReadPid, ReadMeta
  <2>2. backend_pid[slot_idx] \in Backends \cup {NoPid} /\ content[slot_idx].meta \in Written
    BY <1>0, <2>1 DEF HooksTypeOK, TypeOK, Contents
  <2>3. line' \in LineTypes
    BY <1>3, <2>2 DEF ReadPid, ReadMeta
  <2>. QED  BY <1>0, <1>3, <2>3 DEF ReadPid, ReadMeta
<1>4. CASE ReadNodes
  <2>1. slot_idx \in Slots
    BY <1>4 DEF ReadNodes
  <2>2. content[slot_idx].topology \in Written /\ content[slot_idx].values \in Written
    BY <1>0, <2>1 DEF HooksTypeOK, Contents
  <2>3. [line EXCEPT !.topology = content[slot_idx].topology,
                     !.values = content[slot_idx].values] \in LineTypes
    BY <2>2
  <2>4. NoLine \in LineTypes
    BY DEF NoLine, Written
  <2>5. lines' \in SUBSET LineTypes /\ line' \in LineTypes
    BY <1>4, <2>3, <2>4, Zenon DEF ReadNodes
  <2>. QED  BY <1>0, <1>4, <2>1, <2>5 DEF ReadNodes
<1>5. ASSUME NEW p \in Backends, BackendStep(p) \/ BackendAnswers(p) PROVE ReaderTyped'
  <2>1. quiet' \subseteq quiet /\ answered' \subseteq answered \cup {p}
    BY <1>5 DEF BackendStep, BackendAnswers, RemembersQuiet
  <2>. QED  BY <1>0, <1>5, <2>1 DEF BackendStep, BackendAnswers
<1>6. CASE UNCHANGED scrapeVars
  BY <1>0, <1>6 DEF scrapeVars
<1>. QED
  BY <1>1, <1>2, <1>3, <1>4, <1>5, <1>6, <1>7, <1>8, <1>9, <1>10, <1>11, <1>12
  DEF ScrapeNext, ReaderNext

LEMMA ReaderIsTyped == ScrapeSpec => []ReaderTyped
<1>1. ScrapeInit => ReaderTyped
  BY InitPlaced, SlotTableAssumption
  DEF ScrapeInit, ReaderTyped, ScrapeTypeOK, Parts, LineTypes, NoLine, Written, Reading
<1>. QED  BY <1>1, ReaderTypeStep, HooksBesideReader, PTL DEF ScrapeSpec

(* Every variable keeps its type; the reader stays inside of the table.    *)
THEOREM ScrapeTypeCorrect == ScrapeSpec => []ScrapeTypeOK
<1>1. ReaderTyped => ScrapeTypeOK
  BY DEF ReaderTyped
<1>. QED  BY <1>1, ReaderIsTyped, PTL

-----------------------------------------------------------------------------
(* A quiet query: its entry stays where it is and says the same, so what   *)
(* the reader puts together from several looks at it is one line.          *)
LineDone(pq) ==
    \E l \in lines :
        /\ l.pid = pq[1] /\ l.meta = pq /\ l.topology = pq
        /\ pq[1] \in answered => l.values = pq

EntryTells(pq, s) ==
    /\ content[s].topology = pq /\ content[s].meta = pq
    /\ pq[1] \in answered => content[s].values = pq

(* How far the reader has got with entry s.                                *)
EntryRead(pq, s) ==
    /\ part \in {"entry"} \cup Reading /\ s < slot_idx => LineDone(pq)
    /\ part = "done" => LineDone(pq)
    /\ part \in {"meta", "nodes"} /\ s = slot_idx => line.pid = pq[1]
    /\ part = "nodes" /\ s = slot_idx => line.meta = pq

QuietOf(pq) ==
    /\ Undisturbed(pq[1], pq[2])
    /\ \A s \in Slots : Owns(pq[1], s) => EntryTells(pq, s) /\ EntryRead(pq, s)

QuietInv == ~overwritten => \A pq \in quiet : QuietOf(pq)

LEMMA QuietDescribed ==
    ASSUME HooksInv, ~overwritten, NEW p \in Backends, NEW q \in Queries, Undisturbed(p, q),
           NEW s \in Slots, Owns(p, s)
    PROVE  content[s].topology = <<p, q>> /\ content[s].meta = <<p, q>>
<1>1. hook[p] \notin Filling /\ CURRENT_QUERY_DESC[p] = q /\ q # NoQuery
  BY QueryHooksAssumption DEF Undisturbed, Filling
<1>. QED
  BY <1>1 DEF HooksInv, Described, ContentOf, DescTold, TellsDesc

(* A step of a backend, which may be the one that runs the query.          *)
LEMMA QuietEntryStays ==
    ASSUME HooksInv, ~overwritten, ~overwritten', NEW p \in Backends, HookStep(p),
           NEW r \in Backends, NEW q \in Queries, Undisturbed(r, q), NEW s \in Slots, Owns(r, s)'
    PROVE  /\ Owns(r, s)
           /\ content'[s].topology = content[s].topology /\ content'[s].meta = content[s].meta
           /\ content'[s].values \in {content[s].values, <<r, q>>}
           /\ r = p /\ HandlerCollect(p) => content'[s].values = <<r, q>>
<1>. USE DEF HooksInv
<1>1. ~(r = p /\ LookupClaim(p))
  BY DEF Undisturbed, LookupClaim
<1>2. Owns(r, s)
  BY <1>1, OwnedBefore
<1>3. CASE r # p
  <2>1. content'[s] = content[s]
    BY <1>2, <1>3, OthersAreLeftAlone DEF Owns
  <2>. QED  BY <1>2, <1>3, <2>1
<1>4. CASE r = p
  <2>1. ~EndCollect(p) /\ ~EndFails(p) /\ ~FillTopology(p) /\ ~FillMeta(p)
    BY <1>4
    DEF Undisturbed, EndCollect, EndFails, EndRelease, EndInactive, EndError, EndUnlock,
        FillTopology, FillMeta
  <2>2. content'[s].topology = content[s].topology /\ content'[s].meta = content[s].meta
    BY <2>1, WhoDescribes DEF OwnershipInv, SaysTheSame
  <2>3. CASE HandlerCollect(p) \/ HandlerFails(p)
    <3>1. /\ handling[p] # NoSlot
          /\ Collect(p, handling[p], q) \/ (content' = content /\ ~HandlerCollect(p))
      BY <1>4, <2>3
      DEF HandlerCollect, HandlerFails, HandlerFailsStart, HandlerFailsEnd, HandlerFailsQuery,
          HandlerJumps, CollectSome, Running, Undisturbed, Collect
    <3>2. s = handling[p]
      <4>1. backend_pid[handling[p]] = p /\ backend_pid[s] = p /\ handling[p] \in Slots
        BY <1>2, <1>4, <3>1 DEF HandlingOwn, Owns, HooksTypeOK
      <4>2. Active(s)
        BY <4>1, SlotTableAssumption DEF Active
      <4>. QED  BY <4>1, <4>2 DEF OwnershipInv, OneSlotPerBackend
    <3>3. Collect(p, s, q) => content'[s].values = <<p, q>>
      BY DEF Collect, HooksTypeOK, Contents
    <3>. QED  BY <1>2, <1>4, <2>2, <3>1, <3>2, <3>3
  <2>4. CASE ~HandlerCollect(p) /\ ~HandlerFails(p)
    <3>1. content' = content
      BY <2>1, <2>4, WritesNothing DEF Collects
    <3>. QED  BY <1>2, <2>4, <3>1
  <2>. QED  BY <2>3, <2>4
<1>. QED  BY <1>3, <1>4

LEMMA BackendKeepsQuiet ==
    ASSUME HooksInv, HooksInv', ReaderTyped, QuietInv, ~overwritten', NEW p \in Backends,
           BackendStep(p) \/ BackendAnswers(p), NEW pq \in quiet'
    PROVE  QuietOf(pq)'
<1>1. HookStep(p)
  BY BackendsMove DEF BackendStep, BackendAnswers
<1>2. ~overwritten
  BY <1>1, OverwrittenStays DEF HooksInv
<1>3. pq \in quiet /\ Undisturbed(pq[1], pq[2])'
  BY DEF BackendStep, BackendAnswers, RemembersQuiet
<1>4. PICK r \in Backends, q \in Queries : pq = <<r, q>>
  BY <1>3 DEF ReaderTyped, ScrapeTypeOK
<1>5. Undisturbed(r, q) /\ Undisturbed(r, q)'
  BY <1>2, <1>3, <1>4 DEF QuietInv, QuietOf
<1>6. UNCHANGED <<part, slot_idx, line, lines>>
  BY DEF BackendStep, BackendAnswers
<1>7. answered' = answered \/ (part = "sleep" /\ HandlerCollect(p) /\ answered' = answered \cup {p})
  BY DEF BackendStep, BackendAnswers
<1>. SUFFICES ASSUME NEW s \in Slots, Owns(r, s)'
              PROVE  EntryTells(pq, s)' /\ EntryRead(pq, s)'
  BY <1>3, <1>4 DEF QuietOf
<1>8. /\ Owns(r, s)
      /\ content'[s].topology = content[s].topology /\ content'[s].meta = content[s].meta
      /\ content'[s].values \in {content[s].values, pq}
      /\ r = p /\ HandlerCollect(p) => content'[s].values = pq
  BY <1>1, <1>2, <1>4, <1>5, QuietEntryStays
<1>9. EntryTells(pq, s) /\ EntryRead(pq, s)
  BY <1>2, <1>3, <1>4, <1>8 DEF QuietInv, QuietOf
<1>10. content'[s].topology = pq /\ content'[s].meta = pq
  BY <1>8, <1>9 DEF EntryTells
<1>11. r \in answered' => content'[s].values = pq
  <2>1. r \in answered' => r \in answered \/ (r = p /\ HandlerCollect(p))
    BY <1>7
  <2>. QED  BY <1>4, <1>8, <1>9, <2>1 DEF EntryTells
<1>12. EntryRead(pq, s)'
  <2>1. part \in {"entry", "done"} \cup Reading => answered' = answered
    BY <1>7 DEF Reading
  <2>. QED  BY <1>6, <1>9, <2>1 DEF EntryRead, LineDone, Reading
<1>. QED  BY <1>4, <1>10, <1>11, <1>12 DEF EntryTells

(* A step of the reader leaves the entries alone and gets further.         *)
LEMMA QuietAtStart ==
    ASSUME HooksInv, NoOrphan, ReaderStart, ~overwritten, NEW pq \in quiet'
    PROVE  QuietOf(pq)'
<1>1. PICK r \in Backends, q \in Queries : pq = <<r, q>> /\ Undisturbed(r, q)
  BY DEF ReaderStart
<1>2. HooksLeftAlone
  BY ReaderStaysOut DEF ReaderNext
<1>3. \A s \in Slots : Owns(r, s)' <=> Owns(r, s)
  BY <1>2 DEF HooksLeftAlone, table, Owns
<1>4. Undisturbed(r, q)'
  BY <1>1, <1>2, <1>3 DEF HooksLeftAlone, TableStays, Undisturbed
<1>. SUFFICES ASSUME NEW s \in Slots, Owns(r, s)'
              PROVE  EntryTells(pq, s)' /\ EntryRead(pq, s)'
  BY <1>1, <1>4 DEF QuietOf
<1>5. content[s].topology = pq /\ content[s].meta = pq
  BY <1>1, <1>3, QuietDescribed
<1>. QED
  BY <1>2, <1>5 DEF HooksLeftAlone, ReaderStart, EntryTells, EntryRead, Reading

LEMMA ReaderKeepsQuiet ==
    ASSUME HooksInv, NoOrphan, ReaderTyped, QuietInv, ~overwritten, ReaderNext, ~ReaderStart,
           NEW pq \in quiet'
    PROVE  QuietOf(pq)'
<1>1. HooksLeftAlone
  BY ReaderStaysOut
<1>2. ~ReaderEnd /\ pq \in quiet /\ answered' = answered
  BY DEF ReaderNext, ReaderSweep, ReaderSignals, ReaderSleeps, ReaderWakes, ReadEntry, ReadPid,
         ReadMeta, ReadNodes, ReadLast, ReaderEnd, Read, readerVars
<1>3. QuietOf(pq)
  BY <1>2 DEF QuietInv
<1>4. PICK r \in Backends, q \in Queries : pq = <<r, q>>
  BY <1>2 DEF ReaderTyped, ScrapeTypeOK
<1>5. backend_pid' = backend_pid /\ content' = content /\ Undisturbed(r, q)'
  BY <1>1, <1>3, <1>4 DEF HooksLeftAlone, TableStays, Undisturbed, QuietOf, Owns, table
<1>. SUFFICES ASSUME NEW s \in Slots, Owns(r, s)
              PROVE  EntryRead(pq, s)'
  BY <1>2, <1>3, <1>4, <1>5 DEF QuietOf, EntryTells, Owns
<1>6. EntryTells(pq, s) /\ EntryRead(pq, s)
  BY <1>3, <1>4 DEF QuietOf
<1>. USE DEF EntryRead, LineDone, Reading, Read
<1>7. CASE ReaderSweep \/ ReaderSignals \/ ReaderSleeps
  BY <1>2, <1>6, <1>7 DEF ReaderSweep, ReaderSignals, ReaderSleeps, readerVars
<1>8. CASE ReaderWakes
  <2>1. slot_idx = 0 /\ slot_idx' = 0 /\ part' = "entry"
    BY <1>8 DEF ReaderWakes, ReaderTyped
  <2>. QED  BY <2>1
<1>9. CASE ReadEntry
  <2>1. HasLine(s)
    <3>1. pq # NoQuery /\ r # NoPid
      BY <1>4, QueryHooksAssumption, SlotTableAssumption
    <3>. QED  BY <1>4, <1>6, <3>1 DEF HasLine, Active, Owns, EntryTells
  <2>2. CASE HasLine(slot_idx) /\ Read("pid") /\ UNCHANGED slot_idx
    BY <1>2, <1>6, <1>9, <2>2 DEF ReadEntry
  <2>3. CASE ~HasLine(slot_idx) /\ Read("entry") /\ slot_idx' = slot_idx + 1
    <3>1. s # slot_idx
      BY <2>1, <2>3
    <3>2. s < slot_idx' => s < slot_idx
      BY <2>3, <3>1 DEF ReaderTyped, ScrapeTypeOK
    <3>. QED  BY <1>2, <1>6, <1>9, <2>3, <3>2 DEF ReadEntry
  <2>. QED  BY <1>9, <2>2, <2>3 DEF ReadEntry
<1>10. CASE ReadPid
  <2>1. s = slot_idx => line'.pid = r
    BY <1>10 DEF ReadPid, ReaderTyped, ScrapeTypeOK, LineTypes, Owns
  <2>. QED  BY <1>2, <1>4, <1>6, <1>10, <2>1 DEF ReadPid
<1>11. CASE ReadMeta
  <2>1. s = slot_idx => line'.pid = r /\ line'.meta = pq
    BY <1>4, <1>6, <1>11 DEF ReadMeta, ReaderTyped, ScrapeTypeOK, LineTypes, EntryTells
  <2>. QED  BY <1>2, <1>4, <1>6, <1>11, <2>1 DEF ReadMeta
<1>12. CASE ReadNodes
  <2>1. s # slot_idx => (s < slot_idx' => s < slot_idx)
    BY <1>12 DEF ReadNodes, ReaderTyped, ScrapeTypeOK
  <2>2. CASE s < slot_idx
    BY <1>2, <1>6, <1>12, <2>2 DEF ReadNodes
  <2>3. CASE s = slot_idx
    <3>. DEFINE l == [line EXCEPT !.topology = content[slot_idx].topology,
                                  !.values = content[slot_idx].values]
    <3>1. l \in lines'
      BY <1>12 DEF ReadNodes
    <3>2. l.topology = content[s].topology /\ l.values = content[s].values
          /\ l.pid = line.pid /\ l.meta = line.meta
      BY <2>3 DEF ReaderTyped, ScrapeTypeOK, LineTypes
    <3>3. line.pid = r /\ line.meta = pq
      BY <1>4, <1>6, <1>12, <2>3 DEF ReadNodes
    <3>4. /\ l.pid = pq[1] /\ l.meta = pq /\ l.topology = pq
          /\ pq[1] \in answered' => l.values = pq
      BY <1>2, <1>4, <1>6, <3>2, <3>3 DEF EntryTells
    <3>. HIDE DEF l
    <3>5. LineDone(pq)'
      BY <3>1, <3>4
    <3>. QED  BY <1>12, <3>5 DEF ReadNodes
  <2>. QED  BY <1>12, <2>1, <2>2, <2>3 DEF ReadNodes
<1>13. CASE ReadLast
  <2>1. s < slot_idx
    BY <1>13, SlotTableAssumption DEF ReadLast
  <2>. QED  BY <1>2, <1>6, <1>13, <2>1 DEF ReadLast
<1>. QED  BY <1>2, <1>7, <1>8, <1>9, <1>10, <1>11, <1>12, <1>13 DEF ReaderNext

LEMMA QuietStep ==
    ASSUME HooksInv, HooksInv', NoOrphan, ReaderTyped, QuietInv, [ScrapeNext]_scrapeVars
    PROVE  QuietInv'
<1>. SUFFICES ASSUME ~overwritten', NEW pq \in quiet' PROVE QuietOf(pq)'
  BY DEF QuietInv
<1>1. CASE ReaderNext
  <2>1. ~overwritten
    BY <1>1, ReaderStaysOut DEF HooksLeftAlone, table
  <2>. QED  BY <1>1, <2>1, QuietAtStart, ReaderKeepsQuiet
<1>2. ASSUME NEW p \in Backends, BackendStep(p) \/ BackendAnswers(p)
      PROVE  QuietOf(pq)'
  BY <1>2, BackendKeepsQuiet
<1>3. CASE UNCHANGED scrapeVars
  BY <1>3
  DEF scrapeVars, allVars, readerVars, hookVars, vars, table, QuietInv, QuietOf, Undisturbed,
      EntryTells, EntryRead, LineDone, Owns
<1>. QED  BY <1>1, <1>2, <1>3 DEF ScrapeNext

(* A query that runs undisturbed through a whole scrape has a line that is *)
(* all its own, whatever the other backends do, and the entry of every     *)
(* other query may change under the reader.                                *)
THEOREM QuietQueryIsShownHolds == ScrapeSpec => []QuietQueryIsShown
<1>1. ScrapeInit => QuietInv
  BY DEF ScrapeInit, QuietInv
<1>2. ReaderTyped /\ QuietInv => QuietQueryIsShown
  <2>. SUFFICES ASSUME ReaderTyped, QuietInv, part = "done", ~overwritten, NEW pq \in quiet
                PROVE  LineDone(pq)
    BY DEF QuietQueryIsShown, LineDone
  <2>1. QuietOf(pq)
    BY DEF QuietInv
  <2>2. PICK s \in Slots : Owns(pq[1], s)
    BY <2>1 DEF QuietOf, Undisturbed
  <2>. QED  BY <2>1, <2>2 DEF QuietOf, EntryRead
<1>. QED  BY <1>1, <1>2, QuietStep, HooksBesideReader, ReaderIsTyped, PTL DEF ScrapeSpec
=============================================================================
