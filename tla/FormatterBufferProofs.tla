------------------------- MODULE FormatterBufferProofs -------------------------
(***************************************************************************)
(* Proofs about FormatterBuffer, for any initial size, any reserve that    *)
(* fits into it and output of any length.                                  *)
(***************************************************************************)
EXTENDS FormatterBuffer, TLAPS

(* One doubling makes room, because the buffer never shrinks below its     *)
(* initial size and that holds the reserve.                                *)
BufferInv ==
    /\ TypeOK
    /\ size >= InitialSize
    /\ OffsetInBuffer
    /\ ReturnedIsTerminated
    /\ GrowsWhenNeeded

(* What buffer_ensure_capacity returns, for a request up to the reserve.   *)
LEMMA CapacityFits ==
    ASSUME TypeOK, size >= InitialSize, OffsetInBuffer, GrowsWhenNeeded,
           NEW needed \in Nat, needed <= Reserve
    PROVE  /\ Capacity(needed) \in Nat
           /\ Capacity(needed) >= InitialSize
           /\ offset + needed < Capacity(needed)
           /\ \/ Capacity(needed) = InitialSize
              \/ Capacity(needed) <= 2 * (offset + Reserve)
<1>. USE FormatterBufferAssumption DEF TypeOK, OffsetInBuffer, GrowsWhenNeeded, Capacity
<1>1. CASE offset + needed >= size
  BY <1>1
<1>2. CASE offset + needed < size
  BY <1>2
<1>. QED  BY <1>1, <1>2

(* An append that does not exceed the reserve leaves all in order.         *)
LEMMA AppendStep ==
    ASSUME BufferInv, NEW len \in Nat, len < Reserve, buffer_append(len), at' \in Places
    PROVE  BufferInv'
<1>. USE FormatterBufferAssumption DEF BufferInv
<1>1. /\ size' \in Nat /\ size' >= InitialSize
      /\ offset + Reserve < size'
      /\ size' = InitialSize \/ size' <= 2 * (offset + Reserve)
  BY CapacityFits DEF buffer_append
<1>2. offset' = offset + len /\ offset \in Nat
  BY DEF buffer_append, TypeOK
<1>3. offset' < size'
  BY <1>1, <1>2
<1>4. nul' = offset'
  BY <1>3 DEF buffer_append
<1>5. size' = InitialSize \/ size' <= 2 * (offset' + Reserve)
  BY <1>1, <1>2
<1>. QED
  BY <1>1, <1>2, <1>3, <1>4, <1>5
  DEF TypeOK, OffsetInBuffer, ReturnedIsTerminated, GrowsWhenNeeded

LEMMA BufferStep == BufferInv /\ [Next]_vars => BufferInv'
<1>. SUFFICES ASSUME BufferInv, [Next]_vars PROVE BufferInv'
  OBVIOUS
<1>. USE FormatterBufferAssumption
<1>1. CASE BufferInit
  BY <1>1
  DEF BufferInit, BufferInv, TypeOK, Places, OffsetInBuffer,
      ReturnedIsTerminated, GrowsWhenNeeded
<1>2. CASE PutChar
  <2>1. /\ size' \in Nat /\ size' >= InitialSize
        /\ offset + 1 < size'
        /\ size' = InitialSize \/ size' <= 2 * (offset + Reserve)
    BY <1>2, CapacityFits DEF PutChar, BufferInv
  <2>. QED
    BY <1>2, <2>1
    DEF PutChar, BufferInv, TypeOK, Places, OffsetInBuffer,
        ReturnedIsTerminated, GrowsWhenNeeded
<1>3. CASE PutEscaped
  BY <1>3, AppendStep DEF PutEscaped, Places
<1>4. CASE EndQueryInfo
  BY <1>4, AppendStep DEF EndQueryInfo, Places, Lengths
<1>5. CASE Return
  BY <1>5
  DEF Return, BufferInv, TypeOK, Places, OffsetInBuffer,
      ReturnedIsTerminated, GrowsWhenNeeded
<1>6. ASSUME NEW len \in Lengths, AppendHelp(len) \/ BeginQueryInfo(len) \/ AppendMetric(len)
      PROVE  BufferInv'
  <2>1. buffer_append(len) /\ at' \in Places
    BY <1>6 DEF AppendHelp, BeginQueryInfo, AppendMetric, Places, BufferInv, TypeOK
  <2>. QED  BY <2>1, AppendStep DEF Lengths
<1>7. CASE UNCHANGED vars
  BY <1>7
  DEF vars, BufferInv, TypeOK, OffsetInBuffer, ReturnedIsTerminated,
      GrowsWhenNeeded
<1>. QED  BY <1>1, <1>2, <1>3, <1>4, <1>5, <1>6, <1>7 DEF Next

LEMMA BufferIsSafe == Spec => []BufferInv
<1>1. Init => BufferInv
  BY FormatterBufferAssumption
  DEF Init, BufferInv, TypeOK, Places, OffsetInBuffer, ReturnedIsTerminated,
      GrowsWhenNeeded
<1>. QED  BY <1>1, BufferStep, PTL DEF Spec

(* The offset never leaves the buffer, whatever is formatted.              *)
THEOREM OffsetInBufferHolds == Spec => []OffsetInBuffer
<1>1. BufferInv => OffsetInBuffer
  BY DEF BufferInv
<1>. QED  BY <1>1, BufferIsSafe, PTL

(* The text that is returned is a string.                                  *)
THEOREM ReturnedIsTerminatedHolds == Spec => []ReturnedIsTerminated
<1>1. BufferInv => ReturnedIsTerminated
  BY DEF BufferInv
<1>. QED  BY <1>1, BufferIsSafe, PTL

(* The buffer grows with the output, by at most a factor of two.           *)
THEOREM GrowsWhenNeededHolds == Spec => []GrowsWhenNeeded
<1>1. BufferInv => GrowsWhenNeeded
  BY DEF BufferInv
<1>. QED  BY <1>1, BufferIsSafe, PTL
=============================================================================
