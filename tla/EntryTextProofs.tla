----------------------------- MODULE EntryTextProofs -----------------------------
(***************************************************************************)
(* Proofs about EntryLayout and EntryText, for any sizes and settings, any *)
(* number of entries and any set of source texts.                          *)
(***************************************************************************)
EXTENDS EntryText, FormatterBufferProofs

LEMMA Multiples ==
    ASSUME NEW i \in Nat, NEW j \in Nat, NEW S \in Nat, i < j
    PROVE  i * S \in Nat /\ j * S \in Nat /\ i * S + S <= j * S
<1>. DEFINE k == j - i - 1
<1>1. k \in Nat /\ j = i + 1 + k
  OBVIOUS
<1>. HIDE DEF k
<1>2. j * S = i * S + S + k * S
  BY <1>1
<1>3. k * S \in Nat /\ i * S \in Nat
  BY <1>1
<1>. QED  BY <1>2, <1>3

LEMMA StrideType ==
    Stride \in Nat \ {0} /\ MaxNodesPerQuery * NodeSize \in Nat
<1>1. MaxNodesPerQuery * NodeSize \in Nat
  BY EntryLayoutAssumption
<1>. QED  BY <1>1, EntryLayoutAssumption DEF Stride

LEMMA EntryAtType ==
    ASSUME NEW e \in EntryIds
    PROVE  EntryAt(e) \in Nat /\ TextAt(e) \in Nat /\ e \in Nat
<1>1. e * Stride \in Nat
  BY StrideType DEF EntryIds
<1>. QED  BY <1>1, EntryLayoutAssumption DEF EntryAt, TextAt, EntryIds

LEMMA EntriesInOrder ==
    ASSUME NEW e \in EntryIds, NEW f \in EntryIds, e < f
    PROVE  EntryAt(e) + Stride <= EntryAt(f)
BY Multiples, StrideType, EntryLayoutAssumption DEF EntryAt, EntryIds

(* Whatever the settings, the memory that was asked for holds all entries, *)
(* and no byte belongs to two of them.                                     *)
THEOREM EntriesAreApart ==
    /\ \A e \in EntryIds : EntryArea(e) \subseteq Segment
    /\ \A e, f \in EntryIds : e # f => EntryArea(e) \cap EntryArea(f) = {}
<1>1. ASSUME NEW e \in EntryIds PROVE EntryArea(e) \subseteq Segment
  <2>1. e \in Nat /\ e < MaxTrackedQueries
    BY EntryLayoutAssumption DEF EntryIds
  <2>2. e * Stride \in Nat /\ e * Stride + Stride <= MaxTrackedQueries * Stride
    BY <2>1, Multiples, StrideType, EntryLayoutAssumption
  <2>3. MaxTrackedQueries * Stride \in Nat
    BY StrideType, EntryLayoutAssumption
  <2>. QED
    BY <2>2, <2>3, StrideType, EntryLayoutAssumption DEF EntryArea, Segment, SegmentSize, EntryAt
<1>2. ASSUME NEW e \in EntryIds, NEW f \in EntryIds, e # f
      PROVE  EntryArea(e) \cap EntryArea(f) = {}
  <2>1. e < f \/ f < e
    BY <1>2, EntryAtType
  <2>2. EntryAt(e) + Stride <= EntryAt(f) \/ EntryAt(f) + Stride <= EntryAt(e)
    BY <2>1, EntriesInOrder
  <2>. QED  BY <2>2, EntryAtType, StrideType DEF EntryArea
<1>. QED  BY <1>1, <1>2

(* The parts of an entry fill it in order, and none reaches into another.  *)
THEOREM PartsAreApart ==
    ASSUME NEW e \in EntryIds
    PROVE  /\ FixedArea(e) \cup TextArea(e) \subseteq EntryArea(e)
           /\ FixedArea(e) \cap TextArea(e) = {}
           /\ \A n \in NodeIds :
                 /\ NodeArea(e, n) \subseteq EntryArea(e)
                 /\ NodeArea(e, n) \cap (FixedArea(e) \cup TextArea(e)) = {}
           /\ \A n, k \in NodeIds : n # k => NodeArea(e, n) \cap NodeArea(e, k) = {}
<1>1. /\ EntryAt(e) \in Nat /\ TextAt(e) = EntryAt(e) + EntrySize
      /\ EntryAt(e) + Stride
            = TextAt(e) + MaxQueryTextLen + MaxNodesPerQuery * NodeSize
  BY EntryAtType, StrideType, EntryLayoutAssumption DEF TextAt, Stride
<1>. DEFINE T == TextAt(e) + MaxQueryTextLen
<1>2. /\ T \in Nat /\ TextAt(e) \in Nat /\ Stride \in Nat
      /\ MaxNodesPerQuery * NodeSize \in Nat
  BY EntryAtType, StrideType, EntryLayoutAssumption
<1>. HIDE DEF T
<1>7. TextAt(e) < T /\ T <= EntryAt(e) + Stride /\ T = TextAt(e) + MaxQueryTextLen
  BY <1>1, <1>2, EntryLayoutAssumption DEF T
<1>3. /\ FixedArea(e) \cup TextArea(e) \subseteq EntryArea(e)
      /\ FixedArea(e) \cap TextArea(e) = {}
  <2>. DEFINE a == EntryAt(e)  b == TextAt(e)  c == EntryAt(e) + Stride
  <2>1. a \in Nat /\ b \in Nat /\ c \in Nat /\ T \in Nat /\ a <= b /\ b < T /\ T <= c
    BY <1>1, <1>2, <1>7, EntryLayoutAssumption
  <2>2. FixedArea(e) = a .. b - 1
    BY DEF FixedArea
  <2>3. TextArea(e) = b .. T - 1
    BY <1>2, <1>7, EntryLayoutAssumption DEF TextArea
  <2>4. EntryArea(e) = a .. c - 1
    BY <1>1, <1>2 DEF EntryArea
  <2>. HIDE DEF a, b, c
  <2>. QED  BY <2>1, <2>2, <2>3, <2>4
<1>4. ASSUME NEW n \in NodeIds
      PROVE  /\ n * NodeSize \in Nat
             /\ n * NodeSize + NodeSize <= MaxNodesPerQuery * NodeSize
             /\ n \in Nat
  BY Multiples, EntryLayoutAssumption DEF NodeIds
<1>5. ASSUME NEW n \in NodeIds
      PROVE  /\ NodeArea(e, n) \subseteq EntryArea(e)
             /\ NodeArea(e, n) \cap (FixedArea(e) \cup TextArea(e)) = {}
  <2>. DEFINE a == EntryAt(e)  c == EntryAt(e) + Stride
              x == T + n * NodeSize  y == T + n * NodeSize + NodeSize
  <2>1. /\ a \in Nat /\ c \in Nat /\ x \in Nat /\ y \in Nat
        /\ a <= T /\ T <= x /\ y <= c
    BY <1>1, <1>2, <1>4, <1>7, EntryLayoutAssumption
  <2>2. FixedArea(e) \cup TextArea(e) \subseteq a .. T - 1
    BY <1>1, <1>2, <1>7, EntryLayoutAssumption DEF FixedArea, TextArea
  <2>3. EntryArea(e) = a .. c - 1
    BY <1>1, <1>2 DEF EntryArea
  <2>4. NodeArea(e, n) = x .. y - 1
    BY <1>2, <1>4, <1>7, EntryLayoutAssumption, SMTT(30) DEF NodeArea, NodeAt
  <2>. HIDE DEF a, c, x, y
  <2>. QED  BY <2>1, <2>2, <2>3, <2>4, <1>2
<1>6. ASSUME NEW n \in NodeIds, NEW k \in NodeIds, n # k
      PROVE  NodeArea(e, n) \cap NodeArea(e, k) = {}
  <2>1. n * NodeSize + NodeSize <= k * NodeSize \/ k * NodeSize + NodeSize <= n * NodeSize
    <3>1. n < k \/ k < n
      BY <1>4, <1>6
    <3>. QED  BY <3>1, <1>4, Multiples, EntryLayoutAssumption
  <2>. QED
    BY <2>1, <1>2, <1>4, <1>7, EntryLayoutAssumption DEF NodeArea, NodeAt
<1>. QED  BY <1>3, <1>5, <1>6

-----------------------------------------------------------------------------
(* The last byte of every text area is NUL, whoever is writing.            *)
Ended == \A e \in EntryIds : mem[TextAt(e) + MaxQueryTextLen - 1] = NUL

(* No copy goes beyond what is kept of its text, and each begins anew.     *)
InText ==
    \A w \in Writers : /\ copying[w] = NoEntry => pos[w] = 0
                       /\ copying[w] # NoEntry => pos[w] <= Kept(from[w])

(* The entry begins with the first n characters of a text.                 *)
Holds(e, s, n) == \A i \in 0 .. n - 1 : mem[TextAt(e) + i] = s[i + 1]

(* Unless it is spoilt, an entry has one copy at a time, and what has been *)
(* copied is in it; after a copy this ends with a NUL.                     *)
OneCopy(e) == \A w, x \in Writers : copying[w] = e /\ copying[x] = e => w = x
HalfCopied(e) ==
    \A w \in Writers : copying[w] = e => from[w] = source[e] /\ Holds(e, source[e], pos[w])
AllCopied(e) ==
    /\ Holds(e, source[e], Kept(source[e]))
    /\ mem[TextAt(e) + Kept(source[e])] = NUL
CopiedAt(e) == e \notin spoilt => OneCopy(e) /\ HalfCopied(e) /\ (InUse(e) \/ AllCopied(e))
Copied == \A e \in EntryIds : CopiedAt(e)

(* A reader has not passed the last byte, ...                              *)
InArea ==
    /\ reader.next < MaxQueryTextLen
    /\ reader.len < MaxQueryTextLen
    /\ reader.how = "copy" => reader.next <= reader.len
    /\ reader.how # "none" => reader.entry \in EntryIds
    /\ IF reader.how \in {"escape", "copy"} THEN Len(shown) = reader.next ELSE shown = <<>>

(* ... and an undisturbed one has not passed the end of the text.          *)
Quiet == reader.how # "none" /\ ~torn /\ reader.entry \notin spoilt
InStep ==
    Quiet =>
        /\ ~InUse(reader.entry)
        /\ reader.next <= Kept(source[reader.entry])
        /\ reader.how = "copy" => reader.len = Kept(source[reader.entry])
        /\ \A i \in 1 .. Len(shown) : shown[i] = source[reader.entry][i]

TextInv == TextTypeOK /\ Ended /\ InText /\ Copied /\ InArea /\ InStep

(* Each byte of a text area has one address, and no other address is it.   *)
LEMMA TextAddresses ==
    ASSUME NEW e \in EntryIds, NEW i \in 0 .. MaxQueryTextLen - 1
    PROVE  /\ TextAt(e) + i \in TextArea(e)
           /\ TextAt(e) + i \in TextBytes
           /\ \A f \in EntryIds, j \in 0 .. MaxQueryTextLen - 1 :
                  TextAt(e) + i = TextAt(f) + j => e = f /\ i = j
<1>1. TextAt(e) \in Nat
  BY EntryAtType
<1>2. TextAt(e) + i \in TextArea(e)
  BY <1>1, EntryLayoutAssumption DEF TextArea
<1>3. ASSUME NEW f \in EntryIds, NEW j \in 0 .. MaxQueryTextLen - 1,
             TextAt(e) + i = TextAt(f) + j
      PROVE  e = f /\ i = j
  <2>1. TextAt(f) \in Nat /\ TextAt(f) + j \in TextArea(f)
    BY EntryAtType, EntryLayoutAssumption DEF TextArea
  <2>2. e = f
    BY <1>2, <1>3, <2>1, EntriesAreApart, PartsAreApart
  <2>. QED  BY <1>1, <1>3, <2>2
<1>. QED  BY <1>2, <1>3 DEF TextBytes

LEMMA KeptType ==
    ASSUME NEW s, s \in Seq(Plain \cup Special)
    PROVE  /\ Kept(s) \in 0 .. MaxQueryTextLen - 1
           /\ Kept(s) <= Len(s)
           /\ Kept(s) = Len(s) \/ Kept(s) = MaxQueryTextLen - 1
BY EntryLayoutAssumption DEF Kept

LEMMA SourceType ==
    ASSUME NEW s \in Texts
    PROVE  s \in Seq(Plain \cup Special)
<1>1. <<>> \in Seq(Plain \cup Special)
  OBVIOUS
<1>. QED  BY <1>1, EntryTextAssumption DEF Texts

LEMMA NoEntryType == NoEntry \notin EntryIds
BY EntryLayoutAssumption DEF NoEntry, EntryIds

LEMMA TextInitial == TextInit => TextInv
<1>. SUFFICES ASSUME TextInit PROVE TextInv
  OBVIOUS
<1>1. TextTypeOK
  <2>1. mem \in [TextBytes -> Bytes] /\ shown \in Seq(Bytes)
    BY DEF TextInit, Bytes
  <2>2. /\ source \in [EntryIds -> Texts]
        /\ from \in [Writers -> Texts]
        /\ pos \in [Writers -> Nat]
        /\ copying \in [Writers -> EntryIds \cup {NoEntry}]
        /\ spoilt \subseteq EntryIds
        /\ torn \in BOOLEAN
    BY DEF TextInit, Texts
  <2>3. reader \in [how : {"none", "escape", "measure", "copy"}, entry : Nat,
                   next : Nat, len : Nat]
    BY DEF TextInit, Nobody
  <2>. QED  BY <2>1, <2>2, <2>3 DEF TextTypeOK
<1>2. ASSUME NEW e \in EntryIds, NEW i \in 0 .. MaxQueryTextLen - 1
      PROVE  mem[TextAt(e) + i] = NUL
  BY TextAddresses DEF TextInit
<1>3. ASSUME NEW e \in EntryIds PROVE TextAt(e) \in Nat
  BY EntryAtType
<1>4. Ended
  BY <1>2, EntryLayoutAssumption DEF Ended
<1>5. ASSUME NEW e \in EntryIds PROVE CopiedAt(e)
  <2>1. source[e] = <<>> /\ Kept(source[e]) = 0 /\ ~InUse(e)
    BY NoEntryType, EntryLayoutAssumption DEF TextInit, Kept, InUse
  <2>2. mem[TextAt(e) + Kept(source[e])] = NUL
    BY <1>2, <2>1, EntryLayoutAssumption
  <2>3. Holds(e, source[e], Kept(source[e]))
    BY <2>1 DEF Holds
  <2>. QED  BY <2>1, <2>2, <2>3 DEF CopiedAt, OneCopy, HalfCopied, AllCopied, InUse
<1>6. InText /\ InArea /\ InStep
  BY EntryLayoutAssumption DEF TextInit, Nobody, InText, InArea, Quiet, InStep
<1>. QED  BY <1>1, <1>4, <1>5, <1>6 DEF TextInv, Copied

-----------------------------------------------------------------------------
(* What is in an entry stays there when a step leaves it alone.            *)
LeavesText(f) == /\ source'[f] = source[f]
                 /\ f \in spoilt => f \in spoilt'
LeavesCopies(f) ==
    \A x \in Writers : /\ copying'[x] = f <=> copying[x] = f
                       /\ copying[x] = f => from'[x] = from[x] /\ pos'[x] = pos[x]
LeavesBytes(f) ==
    \A j \in 0 .. MaxQueryTextLen - 1 : mem'[TextAt(f) + j] = mem[TextAt(f) + j]

LEMMA HoldsStays ==
    ASSUME NEW f \in EntryIds, LeavesBytes(f), NEW s, NEW n \in 0 .. MaxQueryTextLen - 1,
           Holds(f, s, n)
    PROVE  Holds(f, s, n)'
<1>1. \A i \in 0 .. n - 1 : i \in 0 .. MaxQueryTextLen - 1
  BY EntryLayoutAssumption
<1>. QED  BY <1>1 DEF Holds, LeavesBytes

LEMMA EntryStays ==
    ASSUME TextInv, NEW f \in EntryIds, LeavesText(f), LeavesCopies(f), LeavesBytes(f)
    PROVE  CopiedAt(f)'
<1>. SUFFICES ASSUME f \notin spoilt'
              PROVE  OneCopy(f)' /\ HalfCopied(f)' /\ (InUse(f)' \/ AllCopied(f)')
  BY DEF CopiedAt
<1>1. OneCopy(f) /\ HalfCopied(f) /\ (InUse(f) \/ AllCopied(f))
  BY DEF TextInv, Copied, CopiedAt, LeavesText
<1>2. source'[f] = source[f] /\ Kept(source[f]) \in 0 .. MaxQueryTextLen - 1
  BY SourceType, KeptType DEF TextInv, TextTypeOK, LeavesText
<1>3. OneCopy(f)' /\ (InUse(f)' <=> InUse(f))
  BY <1>1 DEF OneCopy, InUse, LeavesCopies
<1>4. HalfCopied(f)'
  <2>. SUFFICES ASSUME NEW w \in Writers, copying'[w] = f
                PROVE  from'[w] = source'[f] /\ Holds(f, source[f], pos[w])'
    BY DEF HalfCopied
  <2>1. copying[w] = f /\ from'[w] = from[w] /\ pos'[w] = pos[w]
    BY DEF LeavesCopies
  <2>2. from[w] = source[f] /\ Holds(f, source[f], pos[w])
    BY <2>1, <1>1 DEF HalfCopied
  <2>3. pos[w] <= Kept(source[f]) /\ pos[w] \in Nat
    BY <2>1, <2>2, NoEntryType DEF TextInv, InText, TextTypeOK
  <2>4. Holds(f, source[f], pos[w])'
    <3>1. pos[w] \in 0 .. MaxQueryTextLen - 1
      BY <2>3, <1>2, EntryLayoutAssumption
    <3>2. \A i \in 0 .. pos[w] - 1 : mem'[TextAt(f) + i] = source[f][i + 1]
      <4>1. \A i \in 0 .. pos[w] - 1 : i \in 0 .. MaxQueryTextLen - 1
        BY <3>1, EntryLayoutAssumption
      <4>. QED  BY <4>1, <2>2 DEF Holds, LeavesBytes
    <3>. QED  BY <3>2, <1>2, <2>1 DEF Holds
  <2>. QED  BY <1>2, <2>1, <2>2, <2>4
<1>5. AllCopied(f) => AllCopied(f)'
  <2>. SUFFICES ASSUME AllCopied(f) PROVE AllCopied(f)'
    OBVIOUS
  <2>1. Kept(source'[f]) = Kept(source[f])
    BY <1>2
  <2>2. \A i \in 0 .. Kept(source[f]) : i \in 0 .. MaxQueryTextLen - 1
    BY <1>2, EntryLayoutAssumption
  <2>3. mem'[TextAt(f) + Kept(source[f])] = NUL
    BY <1>2, <2>2 DEF AllCopied, LeavesBytes
  <2>4. \A i \in 0 .. Kept(source[f]) - 1 : mem'[TextAt(f) + i] = source[f][i + 1]
    BY <1>2, <2>2 DEF AllCopied, Holds, LeavesBytes
  <2>. QED  BY <1>2, <2>1, <2>3, <2>4 DEF AllCopied, Holds, Kept
<1>. QED  BY <1>1, <1>3, <1>4, <1>5

(* A copy touches only its own entry, and never the last byte but with NUL.*)
LEMMA WriteBeginStep ==
    ASSUME TextInv, NEW w \in Writers, NEW e \in EntryIds, WriteBegin(w, e)
    PROVE  TextInv'
<1>. USE DEF TextInv
<1>1. PICK s \in Sources : from' = [from EXCEPT ![w] = s] /\ source' = [source EXCEPT ![e] = s]
  BY DEF WriteBegin
<1>2. /\ mem' = mem /\ reader' = reader /\ shown' = shown /\ pos' = pos
      /\ copying' = [copying EXCEPT ![w] = e] /\ copying[w] = NoEntry
      /\ spoilt' = IF InUse(e) THEN spoilt \cup {e} ELSE spoilt \ {e}
      /\ torn' = (torn \/ (reader.how # "none" /\ reader.entry = e))
  BY DEF WriteBegin
<1>3. TextTypeOK'
  <2>1. s \in Texts
    BY DEF Texts
  <2>2. from' \in [Writers -> Texts] /\ source' \in [EntryIds -> Texts]
    BY <1>1, <2>1 DEF TextTypeOK
  <2>3. copying' \in [Writers -> EntryIds \cup {NoEntry}] /\ spoilt' \subseteq EntryIds
    BY <1>2 DEF TextTypeOK
  <2>. QED  BY <1>2, <2>2, <2>3 DEF TextTypeOK
<1>4. Ended'
  BY <1>2 DEF Ended
<1>5. InText'
  <2>. SUFFICES ASSUME NEW x \in Writers
                PROVE  /\ copying'[x] = NoEntry => pos'[x] = 0
                       /\ copying'[x] # NoEntry => pos'[x] <= Kept(from'[x])
    BY DEF InText
  <2>1. CASE x = w
    <3>1. pos'[x] = 0 /\ copying'[x] = e /\ from'[x] = s /\ e # NoEntry
      BY <2>1, <1>1, <1>2, NoEntryType DEF InText, TextTypeOK
    <3>2. Kept(s) \in Nat
      BY KeptType, SourceType DEF Texts
    <3>. QED  BY <3>1, <3>2
  <2>2. CASE x # w
    BY <2>2, <1>1, <1>2 DEF InText, TextTypeOK
  <2>. QED  BY <2>1, <2>2
<1>6. Copied'
  <2>. SUFFICES ASSUME NEW f \in EntryIds PROVE CopiedAt(f)'
    BY DEF Copied
  <2>1. CASE f = e
    <3>. SUFFICES ASSUME f \notin spoilt'
                  PROVE  OneCopy(f)' /\ HalfCopied(f)' /\ InUse(f)'
      BY DEF CopiedAt
    <3>1. ~InUse(e)
      BY <2>1, <1>2
    <3>2. \A x \in Writers : copying'[x] = e <=> x = w
      BY <3>1, <1>2 DEF InUse, TextTypeOK
    <3>3. from'[w] = s /\ source'[e] = s /\ pos'[w] = 0
      BY <1>1, <1>2 DEF InText, TextTypeOK
    <3>4. Holds(e, s, 0)'
      BY DEF Holds
    <3>. QED  BY <2>1, <3>2, <3>3, <3>4 DEF OneCopy, HalfCopied, InUse, Holds
  <2>2. CASE f # e
    <3>1. LeavesText(f)
      BY <2>2, <1>1, <1>2 DEF LeavesText, TextTypeOK
    <3>2. LeavesCopies(f)
      BY <2>2, <1>1, <1>2, NoEntryType DEF LeavesCopies, TextTypeOK
    <3>3. LeavesBytes(f)
      BY <1>2 DEF LeavesBytes
    <3>. QED  BY <3>1, <3>2, <3>3, EntryStays
  <2>. QED  BY <2>1, <2>2
<1>7. InArea'
  BY <1>2 DEF InArea
<1>8. InStep'
  <2>. SUFFICES ASSUME reader.how # "none", ~torn, reader.entry # e,
                       reader.entry \notin spoilt'
                PROVE  InStep'
    BY <1>2 DEF InStep, Quiet, TextTypeOK
  <2>1. reader.entry \in EntryIds /\ Quiet
    BY <1>2 DEF InArea, Quiet
  <2>2. /\ source'[reader.entry] = source[reader.entry]
        /\ InUse(reader.entry)' => InUse(reader.entry)
    BY <2>1, <1>1, <1>2 DEF TextTypeOK, InUse
  <2>. QED  BY <2>1, <2>2, <1>2 DEF InStep
<1>. QED  BY <1>3, <1>4, <1>5, <1>6, <1>7, <1>8

(* What both steps that write a byte have in common.                       *)
ByteWritten(e, i, b) == mem' = [mem EXCEPT ![TextAt(e) + i] = b]

LEMMA WriteByte ==
    ASSUME TextInv, NEW e \in EntryIds, NEW i \in 0 .. MaxQueryTextLen - 1, NEW b \in Bytes,
           i # MaxQueryTextLen - 1 \/ b = NUL, ByteWritten(e, i, b)
    PROVE  /\ mem' \in [TextBytes -> Bytes]
           /\ Ended'
           /\ mem'[TextAt(e) + i] = b
           /\ \A f \in EntryIds, j \in 0 .. MaxQueryTextLen - 1 :
                  f # e \/ j # i => mem'[TextAt(f) + j] = mem[TextAt(f) + j]
<1>1. mem' \in [TextBytes -> Bytes] /\ mem'[TextAt(e) + i] = b
  BY TextAddresses DEF TextInv, TextTypeOK, ByteWritten
<1>2. ASSUME NEW f \in EntryIds, NEW j \in 0 .. MaxQueryTextLen - 1, f # e \/ j # i
      PROVE  mem'[TextAt(f) + j] = mem[TextAt(f) + j]
  <2>1. TextAt(f) + j # TextAt(e) + i /\ TextAt(f) + j \in TextBytes
    BY <1>2, TextAddresses
  <2>. QED  BY <2>1 DEF TextInv, TextTypeOK, ByteWritten
<1>3. Ended'
  <2>. DEFINE j == MaxQueryTextLen - 1
  <2>. SUFFICES ASSUME NEW f \in EntryIds PROVE mem'[TextAt(f) + j] = NUL
    BY EntryAtType, EntryLayoutAssumption DEF Ended
  <2>1. j \in 0 .. MaxQueryTextLen - 1 /\ mem[TextAt(f) + j] = NUL
    BY EntryAtType, EntryLayoutAssumption DEF TextInv, Ended
  <2>. QED  BY <2>1, <1>1, <1>2
<1>. QED  BY <1>1, <1>2, <1>3

LEMMA WriteCharStep ==
    ASSUME TextInv, NEW w \in Writers, WriteChar(w)
    PROVE  TextInv'
<1>. USE DEF TextInv
<1>0. PICK e \in EntryIds, s \in Texts, p \in Nat :
         copying[w] = e /\ from[w] = s /\ pos[w] = p
  BY DEF WriteChar, TextTypeOK
<1>. DEFINE b == s[p + 1]
<1>1. /\ s \in Seq(Plain \cup Special)
      /\ Kept(s) \in 0 .. MaxQueryTextLen - 1
      /\ Kept(s) <= Len(s)
      /\ p \in Nat /\ p < Kept(s)
  BY <1>0, SourceType, KeptType DEF WriteChar
<1>2. b \in Plain \cup Special
  BY <1>1
<1>3. p \in 0 .. MaxQueryTextLen - 1 /\ p # MaxQueryTextLen - 1
  BY <1>1, EntryLayoutAssumption
<1>4. /\ ByteWritten(e, p, b)
      /\ pos' = [pos EXCEPT ![w] = p + 1]
      /\ source' = source /\ copying' = copying /\ from' = from /\ spoilt' = spoilt
      /\ reader' = reader /\ shown' = shown /\ torn' = torn
  BY <1>0 DEF WriteChar, ByteWritten
<1>. HIDE DEF b
<1>5. /\ mem' \in [TextBytes -> Bytes]
      /\ Ended'
      /\ mem'[TextAt(e) + p] = b
      /\ \A f \in EntryIds, j \in 0 .. MaxQueryTextLen - 1 :
             f # e \/ j # p => mem'[TextAt(f) + j] = mem[TextAt(f) + j]
  <2>1. b \in Bytes
    BY <1>2 DEF Bytes
  <2>. QED  BY <2>1, <1>3, <1>4, WriteByte
<1>6. TextTypeOK'
  <2>1. pos' \in [Writers -> Nat]
    BY <1>1, <1>4 DEF TextTypeOK
  <2>. QED  BY <2>1, <1>4, <1>5 DEF TextTypeOK
<1>7. InText'
  <2>1. ASSUME NEW x \in Writers, x # w PROVE pos'[x] = pos[x]
    BY <2>1, <1>4 DEF TextTypeOK
  <2>2. pos'[w] = p + 1 /\ p + 1 <= Kept(s) /\ e # NoEntry
    BY <1>1, <1>4, NoEntryType DEF TextTypeOK
  <2>. QED  BY <2>1, <2>2, <1>0, <1>4 DEF InText, Kept
<1>8. Copied'
  <2>. SUFFICES ASSUME NEW f \in EntryIds PROVE CopiedAt(f)'
    BY DEF Copied
  <2>1. CASE f = e
    <3>. SUFFICES ASSUME f \notin spoilt
                  PROVE  OneCopy(f)' /\ HalfCopied(f)' /\ InUse(f)'
      BY <1>4 DEF CopiedAt
    <3>1. OneCopy(e) /\ HalfCopied(e)
      BY <2>1 DEF Copied, CopiedAt
    <3>2. \A x \in Writers : copying[x] = e => x = w
      BY <3>1, <1>0 DEF OneCopy
    <3>3. s = source[e] /\ Holds(e, s, p)
      BY <3>1, <1>0 DEF HalfCopied
    <3>4. ASSUME NEW i \in 0 .. p PROVE mem'[TextAt(e) + i] = s[i + 1]
      <4>1. CASE i = p
        BY <4>1, <1>5 DEF b
      <4>2. CASE i # p
        <5>1. i \in 0 .. p - 1 /\ i \in 0 .. MaxQueryTextLen - 1
          BY <4>2, <1>1, EntryLayoutAssumption
        <5>. QED  BY <4>2, <5>1, <1>4, <1>5, <3>3 DEF Holds
      <4>. QED  BY <4>1, <4>2
    <3>5. pos'[w] = p + 1 /\ (p + 1) - 1 = p
      BY <1>1, <1>4 DEF TextTypeOK
    <3>6. Holds(e, s, p + 1)'
      BY <3>4, <3>5, <1>4 DEF Holds
    <3>7. \A x \in Writers : copying'[x] = e => x = w
      BY <3>2, <1>4
    <3>8. ASSUME NEW x \in Writers, copying'[x] = e
          PROVE  from'[x] = source'[e] /\ Holds(e, source[e], pos[x])'
      <4>1. x = w
        BY <3>7, <3>8
      <4>. QED  BY <4>1, <3>3, <3>5, <3>6, <1>0, <1>4 DEF Holds
    <3>9. InUse(e)'
      BY <1>0, <1>4 DEF InUse
    <3>. QED  BY <2>1, <1>4, <3>7, <3>8, <3>9 DEF OneCopy, HalfCopied
  <2>2. CASE f # e
    <3>1. LeavesText(f) /\ LeavesBytes(f)
      BY <2>2, <1>4, <1>5 DEF LeavesText, LeavesBytes
    <3>2. LeavesCopies(f)
      BY <2>2, <1>0, <1>4 DEF LeavesCopies, TextTypeOK
    <3>. QED  BY <3>1, <3>2, EntryStays
  <2>. QED  BY <2>1, <2>2
<1>9. InArea'
  BY <1>4 DEF InArea
<1>10. InStep'
  BY <1>4 DEF InStep, Quiet, InUse, Kept
<1>. QED  BY <1>5, <1>6, <1>7, <1>8, <1>9, <1>10

(* What both ways out of a copy have in common.                            *)
LEMMA LeaveCopyStep ==
    ASSUME TextInv, NEW w \in Writers, NEW e \in EntryIds, LeaveCopy(w), copying[w] = e,
           spoilt \subseteq spoilt', spoilt' \subseteq EntryIds,
           mem' \in [TextBytes -> Bytes], Ended', CopiedAt(e)',
           \A f \in EntryIds : f # e => LeavesBytes(f)
    PROVE  TextInv'
<1>. USE DEF TextInv
<1>1. /\ copying' = [copying EXCEPT ![w] = NoEntry]
      /\ from' = [from EXCEPT ![w] = <<>>]
      /\ pos' = [pos EXCEPT ![w] = 0]
      /\ source' = source /\ reader' = reader /\ shown' = shown /\ torn' = torn
  BY DEF LeaveCopy
<1>2. TextTypeOK'
  <2>1. from' \in [Writers -> Texts]
    BY <1>1 DEF TextTypeOK, Texts
  <2>2. copying' \in [Writers -> EntryIds \cup {NoEntry}] /\ pos' \in [Writers -> Nat]
    BY <1>1 DEF TextTypeOK
  <2>. QED  BY <1>1, <2>1, <2>2 DEF TextTypeOK
<1>3. InText'
  <2>. SUFFICES ASSUME NEW x \in Writers
                PROVE  /\ copying'[x] = NoEntry => pos'[x] = 0
                       /\ copying'[x] # NoEntry => pos'[x] <= Kept(from'[x])
    BY DEF InText
  <2>1. CASE x = w
    BY <2>1, <1>1 DEF TextTypeOK
  <2>2. CASE x # w
    BY <2>2, <1>1 DEF InText, TextTypeOK
  <2>. QED  BY <2>1, <2>2
<1>4. ASSUME NEW f \in EntryIds, f # e PROVE CopiedAt(f)'
  <2>1. LeavesText(f) /\ LeavesBytes(f)
    BY <1>1, <1>4 DEF LeavesText
  <2>2. LeavesCopies(f)
    BY <1>1, <1>4, NoEntryType DEF LeavesCopies, TextTypeOK
  <2>. QED  BY <2>1, <2>2, EntryStays
<1>5. Copied'
  BY <1>4 DEF Copied
<1>6. InArea'
  BY <1>1 DEF InArea
<1>7. InStep'
  <2>. SUFFICES ASSUME Quiet' PROVE InStep'
    BY DEF InStep
  <2>1. Quiet /\ reader.entry \in EntryIds
    BY <1>1 DEF Quiet, InArea
  <2>2. InUse(reader.entry)' => InUse(reader.entry)
    BY <1>1, <2>1, NoEntryType DEF InUse, TextTypeOK
  <2>. QED  BY <1>1, <2>1, <2>2 DEF InStep, Kept
<1>. QED  BY <1>2, <1>3, <1>5, <1>6, <1>7

LEMMA WriteEndStep ==
    ASSUME TextInv, NEW w \in Writers, WriteEnd(w)
    PROVE  TextInv'
<1>. USE DEF TextInv
<1>0. PICK e \in EntryIds, s \in Texts, p \in Nat :
         copying[w] = e /\ from[w] = s /\ pos[w] = p
  BY DEF WriteEnd, TextTypeOK
<1>1. Kept(s) \in 0 .. MaxQueryTextLen - 1 /\ p = Kept(s)
  BY <1>0, SourceType, KeptType DEF WriteEnd
<1>2. /\ ByteWritten(e, p, NUL)
      /\ copying' = [copying EXCEPT ![w] = NoEntry]
      /\ source' = source /\ spoilt' = spoilt
  BY <1>0 DEF WriteEnd, LeaveCopy, ByteWritten
<1>3. /\ mem' \in [TextBytes -> Bytes]
      /\ Ended'
      /\ mem'[TextAt(e) + p] = NUL
      /\ \A f \in EntryIds, j \in 0 .. MaxQueryTextLen - 1 :
             f # e \/ j # p => mem'[TextAt(f) + j] = mem[TextAt(f) + j]
  <2>1. NUL \in Bytes
    BY DEF Bytes
  <2>. QED  BY <2>1, <1>1, <1>2, WriteByte
<1>4. CopiedAt(e)'
  <2>. SUFFICES ASSUME e \notin spoilt
                PROVE  OneCopy(e)' /\ HalfCopied(e)' /\ AllCopied(e)'
    BY <1>2 DEF CopiedAt
  <2>1. OneCopy(e) /\ HalfCopied(e)
    BY <1>2 DEF Copied, CopiedAt
  <2>2. s = source[e] /\ Holds(e, s, p)
    BY <2>1, <1>0 DEF HalfCopied
  <2>3. \A x \in Writers : copying[x] = e => x = w
    BY <2>1, <1>0 DEF OneCopy
  <2>4. \A x \in Writers : copying'[x] # e
    BY <2>3, <1>2, NoEntryType DEF TextTypeOK
  <2>5. OneCopy(e)' /\ HalfCopied(e)'
    BY <2>4 DEF OneCopy, HalfCopied
  <2>6. \A i \in 0 .. p - 1 : i \in 0 .. MaxQueryTextLen - 1 /\ i # p
    BY <1>1, EntryLayoutAssumption
  <2>7. \A i \in 0 .. p - 1 : mem'[TextAt(e) + i] = s[i + 1]
    BY <2>2, <2>6, <1>2, <1>3 DEF Holds
  <2>8. AllCopied(e)'
    BY <2>2, <2>7, <1>1, <1>2, <1>3 DEF AllCopied, Holds, Kept
  <2>. QED  BY <2>5, <2>8
<1>5. \A f \in EntryIds : f # e => LeavesBytes(f)
  BY <1>3 DEF LeavesBytes
<1>6. LeaveCopy(w)
  BY DEF WriteEnd
<1>7. spoilt \subseteq spoilt' /\ spoilt' \subseteq EntryIds
  BY <1>2 DEF TextTypeOK
<1>. QED  BY <1>0, <1>3, <1>4, <1>5, <1>6, <1>7, LeaveCopyStep

LEMMA WriteFailsStep ==
    ASSUME TextInv, NEW w \in Writers, WriteFails(w)
    PROVE  TextInv'
<1>1. PICK e \in EntryIds : copying[w] = e
  BY DEF WriteFails, TextInv, TextTypeOK
<1>2. LeaveCopy(w) /\ mem' = mem /\ spoilt' = spoilt \cup {e}
  BY <1>1 DEF WriteFails
<1>3. spoilt \subseteq spoilt' /\ spoilt' \subseteq EntryIds
  BY <1>2 DEF TextInv, TextTypeOK
<1>4. mem' \in [TextBytes -> Bytes] /\ Ended'
  BY <1>2 DEF TextInv, TextTypeOK, Ended
<1>5. CopiedAt(e)'
  BY <1>2 DEF CopiedAt
<1>6. \A f \in EntryIds : f # e => LeavesBytes(f)
  BY <1>2 DEF LeavesBytes
<1>. QED  BY <1>1, <1>2, <1>3, <1>4, <1>5, <1>6, LeaveCopyStep

-----------------------------------------------------------------------------
(* What a reader finds; an undisturbed one finds the source and its end.   *)
LEMMA FoundByte ==
    ASSUME TextInv, reader.how # "none", NEW b \in Found
    PROVE  /\ b \in Bytes
           /\ reader.next = MaxQueryTextLen - 1 => b = NUL
           /\ Quiet =>
                 /\ reader.next < Kept(source[reader.entry]) =>
                       b # NUL /\ b = source[reader.entry][reader.next + 1]
                 /\ reader.next = Kept(source[reader.entry]) => b = NUL
<1>. USE DEF TextInv
<1>. DEFINE e == reader.entry  i == reader.next
<1>1. e \in EntryIds /\ i \in 0 .. MaxQueryTextLen - 1
  BY EntryLayoutAssumption DEF InArea, TextTypeOK
<1>2. b = mem[TextAt(e) + i] /\ TextAt(e) + i \in TextBytes
  BY <1>1, TextAddresses DEF Found, Address
<1>3. b \in Bytes
  BY <1>2 DEF TextTypeOK
<1>4. i = MaxQueryTextLen - 1 => b = NUL
  BY <1>1, <1>2, EntryAtType, EntryLayoutAssumption DEF Ended
<1>5. ASSUME Quiet
      PROVE  /\ i < Kept(source[e]) => b # NUL /\ b = source[e][i + 1]
             /\ i = Kept(source[e]) => b = NUL
  <2>1. AllCopied(e)
    BY <1>1, <1>5 DEF InStep, Quiet, Copied, CopiedAt
  <2>2. source[e] \in Seq(Plain \cup Special) /\ Kept(source[e]) <= Len(source[e])
        /\ Kept(source[e]) \in Nat
    BY <1>1, SourceType, KeptType DEF TextTypeOK
  <2>3. ASSUME i < Kept(source[e]) PROVE b # NUL /\ b = source[e][i + 1]
    <3>1. i \in 0 .. Kept(source[e]) - 1 /\ i + 1 \in 1 .. Len(source[e])
      BY <2>2, <2>3, <1>1
    <3>2. source[e][i + 1] \in Plain \cup Special
      BY <2>2, <3>1
    <3>. QED  BY <2>1, <1>2, <3>1, <3>2, EntryTextAssumption DEF AllCopied, Holds
  <2>. QED  BY <1>2, <2>1, <2>3 DEF AllCopied
<1>. QED  BY <1>3, <1>4, <1>5

LEMMA CopiesStay ==
    ASSUME TextInv, UNCHANGED copyVars
    PROVE  Ended' /\ InText' /\ Copied'
<1>1. Ended' /\ InText'
  BY DEF TextInv, copyVars, Ended, InText, Kept
<1>2. ASSUME NEW e \in EntryIds PROVE CopiedAt(e)'
  BY EntryStays DEF copyVars, LeavesText, LeavesCopies, LeavesBytes
<1>. QED  BY <1>1, <1>2 DEF Copied

LEMMA BeginReadStep ==
    ASSUME TextInv, NEW how \in {"escape", "measure"}, NEW e \in EntryIds, BeginRead(how, e)
    PROVE  TextInv'
<1>. USE DEF TextInv, BeginRead
<1>1. shown = <<>> /\ e \in Nat
  BY EntryAtType DEF InArea
<1>2. TextTypeOK'
  <2>1. reader' \in [how : {"none", "escape", "measure", "copy"}, entry : Nat,
                     next : Nat, len : Nat]
    BY <1>1
  <2>2. torn' \in BOOLEAN
    BY DEF InUse
  <2>. QED  BY <2>1, <2>2 DEF TextTypeOK, copyVars
<1>3. Ended' /\ InText' /\ Copied'
  BY CopiesStay DEF copyVars
<1>4. InArea'
  BY <1>1, EntryLayoutAssumption DEF InArea
<1>5. InStep'
  <2>1. /\ reader'.entry = e /\ reader'.next = 0 /\ reader'.how # "copy" /\ shown' = <<>>
        /\ ~torn' => ~InUse(e)
        /\ InUse(e)' => InUse(e)
        /\ source' = source
    BY <1>1 DEF InUse, copyVars
  <2>2. Kept(source[e]) \in Nat
    BY SourceType, KeptType DEF TextTypeOK
  <2>. QED  BY <2>1, <2>2 DEF InStep, Quiet
<1>. QED  BY <1>2, <1>3, <1>4, <1>5

LEMMA TakeStep ==
    ASSUME TextInv, NEW b \in Found, Take(b),
           \/ reader.how = "escape" /\ b # NUL
           \/ reader.how = "copy" /\ reader.next < reader.len
    PROVE  TextInv'
<1>. USE DEF TextInv, Take
<1>1. /\ b \in Bytes
      /\ reader.next = MaxQueryTextLen - 1 => b = NUL
      /\ Quiet =>
            /\ reader.next < Kept(source[reader.entry]) =>
                  b = source[reader.entry][reader.next + 1]
            /\ reader.next = Kept(source[reader.entry]) => b = NUL
  BY FoundByte
<1>2. /\ reader'.how = reader.how /\ reader'.entry = reader.entry
      /\ reader'.next = reader.next + 1 /\ reader'.len = reader.len
      /\ reader.next \in Nat /\ reader.len \in Nat /\ reader.entry \in EntryIds
      /\ shown' = Append(shown, b) /\ shown \in Seq(Bytes) /\ Len(shown) = reader.next
  BY DEF TextTypeOK, InArea
<1>3. TextTypeOK'
  <2>1. reader' \in [how : {"none", "escape", "measure", "copy"}, entry : Nat,
                     next : Nat, len : Nat]
    <3>1. reader \in [how : {"none", "escape", "measure", "copy"}, entry : Nat,
                      next : Nat, len : Nat]
      BY DEF TextTypeOK
    <3>2. reader' = [reader EXCEPT !.next = reader.next + 1]
      OBVIOUS
    <3>. HIDE DEF TextInv, Take
    <3>. QED  BY <3>1, <3>2, <1>2
  <2>2. shown' \in Seq(Bytes)
    BY <1>1, <1>2
  <2>. QED  BY <2>1, <2>2 DEF TextTypeOK, copyVars
<1>4. Ended' /\ InText' /\ Copied'
  BY CopiesStay DEF copyVars
<1>5. InArea'
  BY <1>1, <1>2, EntryLayoutAssumption, SMTT(30) DEF InArea
<1>6. InStep'
  <2>. SUFFICES ASSUME Quiet
                PROVE  /\ ~InUse(reader.entry)
                       /\ reader.next + 1 <= Kept(source[reader.entry])
                       /\ reader.how = "copy" => reader.len = Kept(source[reader.entry])
                       /\ \A i \in 1 .. Len(shown') : shown'[i] = source[reader.entry][i]
    BY <1>2 DEF InStep, Quiet, InUse, copyVars
  <2>1. /\ ~InUse(reader.entry)
        /\ reader.next <= Kept(source[reader.entry])
        /\ reader.how = "copy" => reader.len = Kept(source[reader.entry])
        /\ \A i \in 1 .. Len(shown) : shown[i] = source[reader.entry][i]
        /\ Kept(source[reader.entry]) \in Nat
    BY <1>2, SourceType, KeptType DEF InStep, TextTypeOK
  <2>2. reader.next < Kept(source[reader.entry])
    BY <1>1, <1>2, <2>1
  <2>3. ASSUME NEW i \in 1 .. Len(shown') PROVE shown'[i] = source[reader.entry][i]
    <3>1. Len(shown') = Len(shown) + 1 /\ Len(shown) \in Nat
      BY <1>1, <1>2
    <3>2. CASE i = Len(shown) + 1
      BY <3>1, <3>2, <1>1, <1>2, <2>2
    <3>3. CASE i \in 1 .. Len(shown)
      BY <3>3, <1>1, <1>2, <2>1
    <3>. QED  BY <3>1, <3>2, <3>3
  <2>. QED  BY <1>2, <2>1, <2>2, <2>3
<1>. QED  BY <1>3, <1>4, <1>5, <1>6

LEMMA EndReadStep == ASSUME TextInv, EndRead PROVE TextInv'
<1>. USE DEF TextInv, EndRead, Nobody
<1>1. TextTypeOK'
  <2>1. reader' \in [how : {"none", "escape", "measure", "copy"}, entry : Nat,
                     next : Nat, len : Nat]
    OBVIOUS
  <2>2. shown' \in Seq(Bytes)
    OBVIOUS
  <2>3. torn' \in BOOLEAN
    OBVIOUS
  <2>. QED  BY <2>1, <2>2, <2>3 DEF TextTypeOK, copyVars
<1>2. Ended' /\ InText' /\ Copied'
  BY CopiesStay DEF copyVars
<1>3. InArea' /\ InStep'
  BY EntryLayoutAssumption DEF InArea, Quiet, InStep
<1>. QED  BY <1>1, <1>2, <1>3

LEMMA MeasureStep == ASSUME TextInv, Measure PROVE TextInv'
<1>. USE DEF TextInv, Measure
<1>1. /\ reader.next \in Nat /\ reader.len \in Nat /\ reader.entry \in EntryIds
      /\ reader.how = "measure" /\ shown = <<>> /\ reader.next < MaxQueryTextLen
      /\ reader'.entry = reader.entry
  BY DEF TextTypeOK, InArea
<1>2. reader' \in [how : {"none", "escape", "measure", "copy"}, entry : Nat,
                   next : Nat, len : Nat]
  <2>1. CASE reader' = [reader EXCEPT !.next = @ + 1]
    BY <2>1, <1>1 DEF TextTypeOK
  <2>2. CASE reader' = [reader EXCEPT !.how = "copy", !.next = 0, !.len = reader.next]
    <3>1. reader = [how |-> reader.how, entry |-> reader.entry,
                    next |-> reader.next, len |-> reader.len]
      BY DEF TextTypeOK
    <3>2. reader' = [how |-> "copy", entry |-> reader.entry,
                     next |-> 0, len |-> reader.next]
      BY <2>2, <3>1
    <3>. QED  BY <3>2, <1>1, EntryAtType
  <2>. QED  BY <2>1, <2>2
<1>3. TextTypeOK'
  BY <1>2 DEF TextTypeOK, copyVars
<1>4. Ended' /\ InText' /\ Copied'
  BY CopiesStay DEF copyVars
<1>5. /\ Quiet => /\ ~InUse(reader.entry)
                  /\ reader.next <= Kept(source[reader.entry])
      /\ Kept(source[reader.entry]) \in Nat
      /\ Quiet' => Quiet
      /\ source' = source
      /\ InUse(reader.entry)' => InUse(reader.entry)
  BY <1>1, SourceType, KeptType DEF InStep, TextTypeOK, Quiet, InUse, copyVars
<1>6. ASSUME NEW b \in Found, b # NUL, reader' = [reader EXCEPT !.next = @ + 1]
      PROVE  InArea' /\ InStep'
  <2>1. /\ reader'.how = "measure" /\ reader'.next = reader.next + 1
        /\ reader'.len = reader.len
    BY <1>1, <1>6 DEF TextTypeOK
  <2>2. /\ reader.next # MaxQueryTextLen - 1
        /\ Quiet => reader.next # Kept(source[reader.entry])
    BY <1>1, <1>6, FoundByte
  <2>3. InArea'
    BY <1>1, <2>1, <2>2, EntryLayoutAssumption DEF InArea
  <2>4. InStep'
    BY <1>1, <1>5, <2>1, <2>2 DEF InStep
  <2>. QED  BY <2>3, <2>4
<1>7. ASSUME NUL \in Found,
             reader' = [reader EXCEPT !.how = "copy", !.next = 0, !.len = reader.next]
      PROVE  InArea' /\ InStep'
  <2>1. /\ reader'.how = "copy" /\ reader'.next = 0 /\ reader'.len = reader.next
    BY <1>1, <1>7 DEF TextTypeOK
  <2>2. Quiet => ~(reader.next < Kept(source[reader.entry]))
    BY <1>1, <1>7, FoundByte
  <2>3. InArea'
    BY <1>1, <2>1, EntryLayoutAssumption DEF InArea
  <2>4. InStep'
    BY <1>1, <1>5, <2>1, <2>2 DEF InStep
  <2>. QED  BY <2>3, <2>4
<1>. QED  BY <1>3, <1>4, <1>6, <1>7

LEMMA TextStays == ASSUME TextInv, UNCHANGED textVars PROVE TextInv'
<1>1. Ended' /\ InText' /\ Copied'
  BY CopiesStay DEF textVars
<1>2. TextTypeOK' /\ InArea'
  BY DEF TextInv, textVars, copyVars, TextTypeOK, InArea
<1>3. InStep'
  BY DEF TextInv, textVars, copyVars, Quiet, InStep, InUse, Kept
<1>. QED  BY <1>1, <1>2, <1>3 DEF TextInv

LEMMA FormatStep == ASSUME TextInv, Format PROVE TextInv'
<1>1. CASE EscapeByte
  <2>1. PICK b \in Found : b \in Plain \cup Special /\ Take(b)
    BY <1>1 DEF EscapeByte
  <2>2. reader.how = "escape" /\ b # NUL
    BY <1>1, <2>1, EntryTextAssumption DEF EscapeByte
  <2>. QED  BY <2>1, <2>2, TakeStep
<1>2. CASE InfoEnd
  BY <1>2, EndReadStep DEF InfoEnd
<1>3. ASSUME NEW e \in EntryIds, NEW len \in Lengths, InfoBegin(e, len)
      PROVE  TextInv'
  BY <1>3, BeginReadStep DEF InfoBegin
<1>4. CASE UNCHANGED textVars
  BY <1>4, TextStays
<1>. QED  BY <1>1, <1>2, <1>3, <1>4 DEF Format

LEMMA FillRowStep == ASSUME TextInv, FillRow PROVE TextInv'
<1>1. CASE Measure
  BY <1>1, MeasureStep
<1>2. CASE CopyByte
  BY <1>2, TakeStep DEF CopyByte
<1>3. CASE RowEnd
  BY <1>3, EndReadStep DEF RowEnd
<1>4. ASSUME NEW e \in EntryIds, RowBegin(e) PROVE TextInv'
  BY <1>4, BeginReadStep DEF RowBegin
<1>. QED  BY <1>1, <1>2, <1>3, <1>4 DEF FillRow

LEMMA TextStep == TextInv /\ [TextNext]_<<vars, textVars>> => TextInv'
<1>. SUFFICES ASSUME TextInv, [TextNext]_<<vars, textVars>> PROVE TextInv'
  OBVIOUS
<1>1. ASSUME NEW w \in Writers, QueryStart(w) PROVE TextInv'
  BY <1>1, WriteBeginStep, WriteCharStep, WriteEndStep, WriteFailsStep DEF QueryStart
<1>2. CASE UNCHANGED <<vars, textVars>>
  BY <1>2, TextStays
<1>. QED  BY <1>1, <1>2, FormatStep, FillRowStep DEF TextNext

LEMMA TextIsSafe == TextSpec => []TextInv
<1>. QED  BY TextInitial, TextStep, PTL DEF TextSpec

(* No interleaving of copies and reads lets a reader past the text area of *)
(* its entry: neither the formatter nor v1_status takes a length along.    *)
THEOREM ReadsStayInTextHolds == TextSpec => []ReadsStayInText
<1>1. TextInv => ReadsStayInText
  <2>. SUFFICES ASSUME TextInv, reader.how # "none"
                PROVE  Address \in TextArea(reader.entry)
    BY DEF ReadsStayInText
  <2>1. reader.entry \in EntryIds /\ reader.next \in 0 .. MaxQueryTextLen - 1
    BY EntryLayoutAssumption DEF TextInv, TextTypeOK, InArea
  <2>. QED  BY <2>1, TextAddresses DEF Address
<1>. QED  BY <1>1, TextIsSafe, PTL

(* What an undisturbed reader has when it ends.                            *)
LEMMA ReadEnds ==
    ASSUME TextInv, Quiet,
           \/ reader.how = "escape" /\ NUL \in Found
           \/ reader.how = "copy" /\ reader.next = reader.len
    PROVE  Exact(shown, source[reader.entry])
<1>. USE DEF TextInv
<1>. DEFINE e == reader.entry  text == source[e]
<1>1. /\ e \in EntryIds /\ reader.next \in Nat
      /\ reader.next <= Kept(text) /\ Len(shown) = reader.next /\ shown \in Seq(Bytes)
      /\ reader.how = "copy" => reader.len = Kept(text)
      /\ \A i \in 1 .. Len(shown) : shown[i] = text[i]
  BY DEF TextTypeOK, InArea, InStep, Quiet
<1>2. /\ text \in Seq(Plain \cup Special)
      /\ Kept(text) \in Nat
      /\ Kept(text) <= Len(text)
      /\ Kept(text) = Len(text) \/ Kept(text) = MaxQueryTextLen - 1
  BY <1>1, SourceType, KeptType DEF TextTypeOK
<1>3. reader.next = Kept(text)
  <2>1. CASE reader.how = "escape" /\ NUL \in Found
    <3>1. ~(reader.next < Kept(text))
      BY <2>1, FoundByte
    <3>. QED  BY <3>1, <1>1, <1>2
  <2>2. CASE reader.how = "copy" /\ reader.next = reader.len
    BY <2>2, <1>1
  <2>. QED  BY <2>1, <2>2
<1>. HIDE DEF TextInv, text, e
<1>4. Len(shown) <= Len(text) /\ Len(shown) \in {Len(text), MaxQueryTextLen - 1}
  BY <1>1, <1>2, <1>3
<1>5. SubSeq(shown, 1, Len(shown)) = SubSeq(text, 1, Len(shown))
  BY <1>1, <1>2, <1>4
<1>. QED  BY <1>4, <1>5 DEF Exact, IsPrefix, text, e

(* An undisturbed read of a text that was copied by one backend, and to    *)
(* the end, shows the source, cut where the area ends, for any number of   *)
(* backends copying at any time.                                           *)
THEOREM QuietReadIsExactHolds == TextSpec => QuietReadIsExact
<1>. DEFINE Shows == /\ reader.how # "none" /\ reader'.how = "none" /\ ~torn
                     /\ reader.entry \notin spoilt
                     => Exact(shown, source[reader.entry])
<1>1. TextInv /\ [TextNext]_<<vars, textVars>> => [Shows]_textVars
  <2>. SUFFICES ASSUME TextInv, TextNext, reader'.how = "none", Quiet
                PROVE  Exact(shown, source[reader.entry])
    BY DEF textVars, Quiet
  <2>1. ASSUME NEW w \in Writers PROVE ~QueryStart(w)
    BY DEF QueryStart, WriteBegin, WriteChar, WriteEnd, WriteFails, LeaveCopy, Quiet
  <2>2. ASSUME NEW b PROVE ~Take(b)
    BY DEF Take, TextInv, TextTypeOK, Quiet
  <2>3. CASE InfoEnd
    BY <2>3, ReadEnds DEF InfoEnd
  <2>4. CASE RowEnd
    BY <2>4, ReadEnds DEF RowEnd
  <2>5. ~Measure
    BY DEF Measure, TextInv, TextTypeOK, Quiet
  <2>6. Format => InfoEnd
    BY <2>2 DEF Format, EscapeByte, InfoBegin, BeginRead, textVars, Quiet
  <2>7. FillRow => RowEnd
    BY <2>2, <2>5 DEF FillRow, CopyByte, RowBegin, BeginRead, Quiet
  <2>. QED  BY <2>1, <2>3, <2>4, <2>6, <2>7 DEF TextNext
<1>. QED  BY <1>1, TextIsSafe, PTL DEF TextSpec, QuietReadIsExact

-----------------------------------------------------------------------------
(* The formatter that reads entries is a formatter of open texts, so that  *)
(* what FormatterBufferProofs shows holds while the texts are written.     *)
THEOREM TextUsesBuffer == TextSpec => Spec
<1>1. TextInit => Init
  BY DEF TextInit
<1>2. ASSUME [TextNext]_<<vars, textVars>> PROVE [Next]_vars
  <2>1. CASE Format
    BY <2>1 DEF Format, EscapeByte, InfoEnd, InfoBegin, Next
  <2>2. CASE FillRow
    BY <2>2 DEF FillRow
  <2>3. ASSUME NEW w \in Writers, QueryStart(w) PROVE UNCHANGED vars
    BY <2>3 DEF QueryStart
  <2>. QED  BY <1>2, <2>1, <2>2, <2>3 DEF TextNext
<1>. QED  BY <1>1, <1>2, PTL DEF TextSpec, Spec
=============================================================================
