------------------------------- MODULE EntryText -------------------------------
(***************************************************************************)
(* The query text of an entry, byte by byte.  query_start_hook copies it   *)
(* into the entry with snprintf and takes no lock; the formatter escapes   *)
(* it into its buffer, and v1_status measures it and then copies it, while *)
(* it is written.  Neither reader is given a length: each stops at a NUL.  *)
(* Nothing here keeps two backends from one entry: SlotTable shows that    *)
(* they may hold the same one.                                             *)
(*                                                                         *)
(* The memory holds the text areas.  What is between them, fixed parts and *)
(* nodes, is written by others and may be read as anything.                *)
(***************************************************************************)
EXTENDS FormatterBuffer, EntryLayout, SequencesExt

CONSTANTS
    Writers,             \* the backends
    NUL,
    Plain,               \* bytes the formatter copies
    Special,             \* bytes it puts a backslash before
    Sources              \* the source texts of queries; "" also stands for NULL

ASSUME EntryTextAssumption ==
    /\ NUL \notin Plain \cup Special
    /\ Plain \cap Special = {}
    /\ \A s \in Sources : s \in Seq(Plain \cup Special)

VARIABLES
    mem,                 \* the byte at each address of a text area
    copying,             \* the entry a backend copies a text into
    from,                \* that text
    pos,                 \* how much of it snprintf has copied
    reader,              \* what a reader is about to read
    shown,               \* what it has made of the text
    source,              \* history: the text last begun in an entry
    spoilt,              \* history: entries whose text is of two copies, or half
                         \* of one
    torn                 \* history: an entry was written during the read

copyVars == <<mem, copying, from, pos, source, spoilt>>
textVars == <<copyVars, reader, shown, torn>>

Bytes     == {NUL} \cup Plain \cup Special
TextBytes == UNION {TextArea(e) : e \in EntryIds}
Texts     == Sources \cup {<<>>}
NoEntry   == -1

Nobody == [how |-> "none", entry |-> 0, next |-> 0, len |-> 0]

TextTypeOK ==
    /\ mem \in [TextBytes -> Bytes]
    /\ copying \in [Writers -> EntryIds \cup {NoEntry}]
    /\ from \in [Writers -> Texts]
    /\ pos \in [Writers -> Nat]
    /\ reader \in [how : {"none", "escape", "measure", "copy"}, entry : Nat,
                   next : Nat, len : Nat]
    /\ shown \in Seq(Bytes)
    /\ source \in [EntryIds -> Texts]
    /\ spoilt \subseteq EntryIds
    /\ torn \in BOOLEAN

(* pwh_shared_memory_startup_hook: the entries are zeroed.                 *)
TextInit ==
    /\ Init
    /\ mem = [a \in TextBytes |-> NUL]
    /\ copying = [w \in Writers |-> NoEntry]
    /\ from = [w \in Writers |-> <<>>]
    /\ pos = [w \in Writers |-> 0]
    /\ reader = Nobody
    /\ shown = <<>>
    /\ source = [e \in EntryIds |-> <<>>]
    /\ spoilt = {}
    /\ torn = FALSE

-----------------------------------------------------------------------------
(* Variant: as strncpy, which leaves no room for the NUL.                  *)
KeptNoRoom(s) == IF Len(s) <= MaxQueryTextLen THEN Len(s) ELSE MaxQueryTextLen

(* How many characters snprintf keeps of a text.                           *)
Kept(s) == IF Len(s) < MaxQueryTextLen THEN Len(s) ELSE MaxQueryTextLen - 1

InUse(e) == \E w \in Writers : copying[w] = e

(* A copy that begins while another is under way spoils the text; one that *)
(* begins alone writes all of it anew.                                     *)
WriteBegin(w, e) ==
    /\ copying[w] = NoEntry
    /\ copying' = [copying EXCEPT ![w] = e]
    /\ \E s \in Sources : /\ from' = [from EXCEPT ![w] = s]
                          /\ source' = [source EXCEPT ![e] = s]
    /\ spoilt' = IF InUse(e) THEN spoilt \cup {e} ELSE spoilt \ {e}
    /\ torn' = (torn \/ (reader.how # "none" /\ reader.entry = e))
    /\ UNCHANGED <<mem, pos, reader, shown>>

WriteChar(w) ==
    /\ copying[w] # NoEntry
    /\ pos[w] < Kept(from[w])
    /\ mem' = [mem EXCEPT ![TextAt(copying[w]) + pos[w]] = from[w][pos[w] + 1]]
    /\ pos' = [pos EXCEPT ![w] = @ + 1]
    /\ UNCHANGED <<copying, from, source, spoilt, reader, shown, torn>>

LeaveCopy(w) ==
    /\ copying' = [copying EXCEPT ![w] = NoEntry]
    /\ from' = [from EXCEPT ![w] = <<>>]
    /\ pos' = [pos EXCEPT ![w] = 0]
    /\ UNCHANGED <<source, reader, shown, torn>>

(* Variant: the length is not marked.                                      *)
WriteEndNoNul(w) ==
    /\ copying[w] # NoEntry
    /\ pos[w] = Kept(from[w])
    /\ LeaveCopy(w)
    /\ UNCHANGED <<mem, spoilt>>

WriteEnd(w) ==
    /\ copying[w] # NoEntry
    /\ pos[w] = Kept(from[w])
    /\ mem' = [mem EXCEPT ![TextAt(copying[w]) + pos[w]] = NUL]
    /\ LeaveCopy(w)
    /\ UNCHANGED spoilt

(* An error in the signal handler (QueryHooks) jumps out of snprintf.      *)
WriteFails(w) ==
    /\ copying[w] # NoEntry
    /\ spoilt' = spoilt \cup {copying[w]}
    /\ LeaveCopy(w)
    /\ UNCHANGED mem

QueryStart(w) ==
    /\ \/ \E e \in EntryIds : WriteBegin(w, e)
       \/ WriteChar(w) \/ WriteEnd(w) \/ WriteFails(w)
    /\ UNCHANGED vars

-----------------------------------------------------------------------------
(* The address a reader is at, and the bytes it may find there.            *)
Address == TextAt(reader.entry) + reader.next
Found   == IF Address \in TextBytes THEN {mem[Address]} ELSE Bytes

BeginRead(how, e) ==
    /\ reader.how = "none"
    /\ reader' = [how |-> how, entry |-> e, next |-> 0, len |-> 0]
    /\ torn' = InUse(e)
    /\ UNCHANGED <<copyVars, shown>>

(* Byte b, which is found there, is taken over.                            *)
Take(b) ==
    /\ reader' = [reader EXCEPT !.next = @ + 1]
    /\ shown' = Append(shown, b)
    /\ UNCHANGED <<copyVars, torn>>

EndRead ==
    /\ reader' = Nobody
    /\ shown' = <<>>
    /\ torn' = FALSE
    /\ UNCHANGED copyVars

(* formatter_append_query_info up to the text.  A text may begin while it  *)
(* has MaxOutput's room.                                                   *)
InfoBegin(e, len) ==
    /\ offset + Reserve + 2 * MaxQueryTextLen < MaxOutput
    /\ BeginQueryInfo(len)
    /\ BeginRead("escape", e)

(* buffer_append_escaped, a turn of the loop and its end                   *)
EscapeByte ==
    /\ reader.how = "escape"
    /\ \E b \in Found : /\ \/ b \in Plain /\ PutChar
                           \/ b \in Special /\ PutEscaped
                        /\ Take(b)

InfoEnd ==
    /\ reader.how = "escape"
    /\ NUL \in Found
    /\ EndQueryInfo
    /\ EndRead

Format ==
    \/ EscapeByte \/ InfoEnd
    \/ \E e \in EntryIds, len \in Lengths : InfoBegin(e, len)
    \/ /\ \/ BufferInit \/ Return
          \/ \E len \in Lengths : AppendHelp(len) \/ AppendMetric(len)
       /\ UNCHANGED textVars

(* CStringGetTextDatum measures the text, and then copies as much.         *)
RowBegin(e) == at = "idle" /\ BeginRead("measure", e)

Measure ==
    /\ reader.how = "measure"
    /\ \/ \E b \in Found : b # NUL /\ reader' = [reader EXCEPT !.next = @ + 1]
       \/ /\ NUL \in Found
          /\ reader' = [reader EXCEPT !.how = "copy", !.next = 0, !.len = reader.next]
    /\ UNCHANGED <<copyVars, shown, torn>>

CopyByte ==
    /\ reader.how = "copy"
    /\ reader.next < reader.len
    /\ \E b \in Found : Take(b)

RowEnd == reader.how = "copy" /\ reader.next = reader.len /\ EndRead

FillRow ==
    /\ Measure \/ CopyByte \/ RowEnd \/ \E e \in EntryIds : RowBegin(e)
    /\ UNCHANGED vars

TextNext == Format \/ FillRow \/ \E w \in Writers : QueryStart(w)

TextSpec == TextInit /\ [][TextNext]_<<vars, textVars>>

-----------------------------------------------------------------------------
(* No reader leaves the text of its entry, however its reading and writing *)
(* interleave and whatever the length of the source: the last byte of a    *)
(* text area is never anything but NUL (snprintf, not strncpy; the areas   *)
(* are zeroed once), and v1_status copies no more than it measured.        *)
ReadsStayInText == reader.how # "none" => Address \in TextArea(reader.entry)

Exact(s, text) == IsPrefix(s, text) /\ Len(s) \in {Len(text), MaxQueryTextLen - 1}

(* A read during which no text is copied into the entry shows the source   *)
(* of the last copy, cut where the area ends: nothing of a longer, earlier *)
(* text is left over and copies into other entries do not reach it.  The   *)
(* exception is a text that two backends holding one entry copied at a     *)
(* time, or that an error cut short: it stays as it is until the next copy.*)
QuietReadIsExact ==
    [][ reader.how # "none" /\ reader'.how = "none" /\ ~torn /\ reader.entry \notin spoilt
        => Exact(shown, source[reader.entry]) ]_textVars
=============================================================================
