---------------------------- MODULE FormatterBuffer ----------------------------
(***************************************************************************)
(* The text buffer of the OpenMetrics formatter (src/metrics.c) and the    *)
(* order in which pwh_format_openmetrics appends to it: help texts, and    *)
(* for each active entry a line with its query text, escaped character by  *)
(* character, and the lines of its nodes.                                  *)
(*                                                                         *)
(* A text is its length.  How many entries, nodes and characters there are *)
(* is left open.                                                           *)
(***************************************************************************)
EXTENDS Integers

CONSTANTS
    InitialSize,         \* METRIC_BUFFER_SIZE
    Reserve,             \* the 1024 bytes buffer_append asks for
    MaxOutput            \* bound of the model: no entry or line starts beyond

(* Every line the formatter appends at once is shorter than Reserve.       *)
ASSUME FormatterBufferAssumption ==
    /\ InitialSize \in Nat
    /\ Reserve \in Nat
    /\ 2 < Reserve
    /\ Reserve <= InitialSize
    /\ MaxOutput \in Nat

VARIABLES
    at,                  \* where pwh_format_openmetrics is
    offset,
    size,
    nul                  \* where vsnprintf last put the end of the string

vars == <<at, offset, size, nul>>

Places  == {"idle", "help", "entries", "text"}
Lengths == 1 .. Reserve - 1

TypeOK ==
    /\ at \in Places
    /\ offset \in Nat
    /\ size \in Nat
    /\ nul \in Nat

Init ==
    /\ at = "idle"
    /\ offset = 0
    /\ size = InitialSize
    /\ nul = 0

(* Variant: the room is tested without what is about to be added.          *)
CapacityIgnoresNeeded(needed) == IF offset >= size THEN 2 * size ELSE size
(* Variant: grows at every call.                                           *)
CapacityAlwaysGrows(needed) == 2 * size

(* buffer_ensure_capacity: the new size.                                   *)
Capacity(needed) == IF offset + needed >= size THEN 2 * size ELSE size

(* buffer_append: the offset advances by what vsnprintf would have         *)
(* written, not by what it wrote.                                          *)
buffer_append(len) ==
    /\ size' = Capacity(Reserve)
    /\ offset' = offset + len
    /\ nul' = IF offset' < size' THEN offset' ELSE size' - 1

(* buffer_append_escaped, a character that is copied: no NUL follows it.   *)
PutChar ==
    /\ at = "text"
    /\ offset < MaxOutput
    /\ size' = Capacity(1)
    /\ offset' = offset + 1
    /\ UNCHANGED <<at, nul>>

(* ... and one that is written as a backslash and another character.       *)
PutEscaped ==
    /\ at = "text"
    /\ offset < MaxOutput
    /\ buffer_append(2)
    /\ UNCHANGED at

(* metrics_handler has a new text made: buffer_init.                       *)
BufferInit ==
    /\ at = "idle"
    /\ at' = "help"
    /\ offset' = 0
    /\ size' = InitialSize
    /\ UNCHANGED nul

AppendHelp(len) ==
    /\ at = "help"
    /\ buffer_append(len)
    /\ \/ at' = "help" /\ offset + len < MaxOutput
       \/ at' = "entries"

BeginQueryInfo(len) ==
    /\ at = "entries"
    /\ offset < MaxOutput
    /\ buffer_append(len)
    /\ at' = "text"

(* Variant: the closing quote is copied like a character of the text.      *)
EndQueryInfoUnterminated ==
    /\ at = "text"
    /\ size' = Capacity(1)
    /\ offset' = offset + 1
    /\ at' = "entries"
    /\ UNCHANGED nul

EndQueryInfo ==
    /\ at = "text"
    /\ \E len \in Lengths : buffer_append(len)
    /\ at' = "entries"

AppendMetric(len) ==
    /\ at = "entries"
    /\ offset < MaxOutput
    /\ buffer_append(len)
    /\ UNCHANGED at

(* buf.data is returned, read as a string and freed.                       *)
Return ==
    /\ at = "entries"
    /\ at' = "idle"
    /\ UNCHANGED <<offset, size, nul>>

Next ==
    \/ BufferInit \/ PutChar \/ PutEscaped \/ EndQueryInfo \/ Return
    \/ \E len \in Lengths : AppendHelp(len) \/ BeginQueryInfo(len) \/ AppendMetric(len)

Spec == Init /\ [][Next]_vars

-----------------------------------------------------------------------------
(* One doubling is enough, whatever was appended before: the offset stays  *)
(* inside of the buffer, so that the next byte and vsnprintf's room        *)
(* (size - offset, unsigned) are what they should be.                      *)
OffsetInBuffer == offset < size

(* The text metrics_handler gets ends where it was last appended to.       *)
ReturnedIsTerminated == at \in {"idle", "entries"} => nul = offset

(* The buffer is never more than twice what it had to hold.                *)
GrowsWhenNeeded == size = InitialSize \/ size <= 2 * (offset + Reserve)
=============================================================================
