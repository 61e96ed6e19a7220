------------------------------ MODULE EntryAllocator ------------------------------
(***************************************************************************)
(* What the table of backend entries promises, without locks, scans or     *)
(* callbacks: an allocator that gives each process at most one entry and   *)
(* gets it back from processes that leave or are killed.                   *)
(*                                                                         *)
(* The promise has one hole, and says so.  An entry may be taken while     *)
(* another process owns it; from then on the table is contested, and an    *)
(* owner may lose its entry to somebody else's release.                    *)
(***************************************************************************)

CONSTANTS
    Processes,
    Entries,
    NoOwner

VARIABLES
    owner,               \* the process an entry belongs to
    life,                \* "present", "left" or "killed"
    contested            \* an entry has been taken from under its owner

vars == <<owner, life, contested>>

OwnsNone(p) == \A e \in Entries : owner[e] # p

Init ==
    /\ owner = [e \in Entries |-> NoOwner]
    /\ life = [p \in Processes |-> "present"]
    /\ contested = FALSE

Disown(e) == owner' = [owner EXCEPT ![e] = NoOwner] /\ UNCHANGED <<life, contested>>

Take(p, e) ==
    /\ life[p] = "present"
    /\ OwnsNone(p)
    /\ owner' = [owner EXCEPT ![e] = p]
    /\ contested' = (contested \/ owner[e] # NoOwner)
    /\ UNCHANGED life

Release(p, e) == life[p] = "present" /\ owner[e] = p /\ Disown(e)

Reclaim(p, e) == life[p] = "killed" /\ owner[e] = p /\ Disown(e)

Usurp(e) == contested /\ Disown(e)

(* A process leaves with nothing of its own behind.                        *)
Leave(p) ==
    /\ life[p] = "present"
    /\ life' = [life EXCEPT ![p] = "left"]
    /\ owner' = [e \in Entries |-> IF owner[e] = p THEN NoOwner ELSE owner[e]]
    /\ UNCHANGED contested

Arrive(p) ==
    /\ life[p] = "left"
    /\ life' = [life EXCEPT ![p] = "present"]
    /\ UNCHANGED <<owner, contested>>

Kill(p) ==
    /\ life[p] = "present"
    /\ life' = [life EXCEPT ![p] = "killed"]
    /\ UNCHANGED <<owner, contested>>

Restart ==
    /\ \E p \in Processes : life[p] = "killed"
    /\ owner' = [e \in Entries |-> NoOwner]
    /\ life' = [p \in Processes |-> "present"]
    /\ contested' = FALSE

Next ==
    \/ \E p \in Processes :
          \/ Leave(p) \/ Arrive(p) \/ Kill(p)
          \/ \E e \in Entries : Take(p, e) \/ Release(p, e) \/ Reclaim(p, e)
    \/ \E e \in Entries : Usurp(e)
    \/ Restart

Spec == Init /\ [][Next]_vars
=============================================================================
