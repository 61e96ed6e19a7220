------------------------------ MODULE EntryLayout ------------------------------
(***************************************************************************)
(* Where things are in the shared memory of pg_what_is_happening           *)
(* (src/shared_memory.c): a header, and then for each entry its fixed      *)
(* part, its query text and its nodes, one after another.  All addresses   *)
(* are computed from settings, none is stored.                             *)
(*                                                                         *)
(* Addresses count from the beginning of the segment.  add_size and        *)
(* mul_size refuse to overflow, so sizes are natural numbers.              *)
(***************************************************************************)
EXTENDS Integers

CONSTANTS
    HeaderSize,          \* sizeof(PwhSharedMemoryHeader)
    EntrySize,           \* sizeof(PwhSharedMemoryBackendEntry)
    NodeSize,            \* sizeof(PwhNodeMetrics)
    MaxTrackedQueries,   \* pwh.max_tracked_queries
    MaxQueryTextLen,     \* pwh.max_query_text_len
    MaxNodesPerQuery     \* pwh.max_nodes_per_query

ASSUME EntryLayoutAssumption ==
    /\ HeaderSize \in Nat \ {0}
    /\ EntrySize \in Nat \ {0}
    /\ NodeSize \in Nat \ {0}
    /\ MaxTrackedQueries \in Nat
    /\ MaxQueryTextLen \in Nat \ {0}
    /\ MaxNodesPerQuery \in Nat

(* The idx of PWH_GET_BACKEND_ENTRY_UNSAFE, and the places of a plan.      *)
EntryIds == 0 .. MaxTrackedQueries - 1
NodeIds  == 0 .. MaxNodesPerQuery - 1

(* calc_backend_entry_stride *)
Stride == EntrySize + MaxQueryTextLen + MaxNodesPerQuery * NodeSize

(* calc_shared_memory_size *)
SegmentSize == HeaderSize + MaxTrackedQueries * Stride

(* PWH_GET_BACKEND_ENTRY_UNSAFE, pwh_get_backend_entry_query_text and      *)
(* pwh_get_backend_entry_metrics with an index                             *)
EntryAt(e)   == HeaderSize + e * Stride
TextAt(e)    == EntryAt(e) + EntrySize
NodeAt(e, n) == TextAt(e) + MaxQueryTextLen + n * NodeSize

(* The bytes that belong to each.                                          *)
Segment        == 0 .. SegmentSize - 1
FixedArea(e)   == EntryAt(e) .. TextAt(e) - 1
TextArea(e)    == TextAt(e) .. TextAt(e) + MaxQueryTextLen - 1
NodeArea(e, n) == NodeAt(e, n) .. NodeAt(e, n) + NodeSize - 1
EntryArea(e)   == EntryAt(e) .. EntryAt(e) + Stride - 1
=============================================================================
