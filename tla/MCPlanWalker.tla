---------------------------- MODULE MCPlanWalker ----------------------------
(***************************************************************************)
(* PlanWalker for TLC: every plan of up to MaxPlanNodes nodes, and every   *)
(* one of these with a CTE that is scanned once more.                      *)
(***************************************************************************)
EXTENDS PlanWalker

CONSTANTS
    MaxPlanNodes,        \* bound: nodes of a plan
    SharedCtes           \* whether a CTE may be scanned more than once

MCPlanNodes == 1 .. MaxPlanNodes

(* Node n > 1 hangs off an earlier node; a node has at most one lefttree   *)
(* and at most one righttree.                                              *)
Trees(n) ==
    {t \in [2 .. n -> [parent : 1 .. n,
                       link   : {"lefttree", "righttree", "subPlan", "member"}]] :
        \A m \in 2 .. n :
            /\ t[m].parent < m
            /\ t[m].link \in {"lefttree", "righttree"} =>
                  \A k \in 2 .. n : t[k] = t[m] => k = m}

Hanging(t, n, link) ==
    SetToSortSeq({m \in DOMAIN t : t[m] = [parent |-> n, link |-> link]}, <)

TheOne(t, n, link) ==
    IF Hanging(t, n, link) = <<>> THEN NoNode ELSE Hanging(t, n, link)[1]

(* A node that may be a SubqueryScan or CteScan.                           *)
IsScan(t, n) ==
    /\ \A link \in {"lefttree", "righttree"} : Hanging(t, n, link) = <<>>
    /\ Len(Hanging(t, n, "member")) <= 1

(* Node n and the nodes above it.                                          *)
Above(t) ==
    LET above[n \in {1} \cup DOMAIN t] ==
            {n} \cup IF n = 1 THEN {} ELSE above[t[n].parent]
    IN  above

(* A further scan of a CTE: a scan without a member of its own, and the    *)
(* member of another that it is not itself a part of.                      *)
FurtherScans(t, n) ==
    IF ~SharedCtes THEN {}
    ELSE {c \in (1 .. n) \X (2 .. n) :
            /\ IsScan(t, c[1]) /\ Hanging(t, c[1], "member") = <<>>
            /\ t[c[2]].link = "member" /\ IsScan(t, t[c[2]].parent)
            /\ c[2] \notin Above(t)[c[1]]}

PlanOf(t, cte, b) ==
    [lefttree     |-> [n \in PlanNodes |-> TheOne(t, n, "lefttree")],
     righttree    |-> [n \in PlanNodes |-> TheOne(t, n, "righttree")],
     subPlan      |-> [n \in PlanNodes |-> Hanging(t, n, "subPlan")],
     members      |-> [n \in PlanNodes |->
                          IF cte # <<>> /\ cte[1] = n THEN <<cte[2]>>
                          ELSE Hanging(t, n, "member")],
     instrumented |-> b]

MCPlans ==
    UNION {UNION {{PlanOf(t, cte, b) : cte \in {<<>>} \cup FurtherScans(t, n), b \in BOOLEAN} :
                  t \in Trees(n)} :
           n \in 1 .. MaxPlanNodes}

-----------------------------------------------------------------------------
(* The definition of a preorder by recursion, for reference: the nodes in  *)
(* their order, each with the distance to its parent.                      *)
Preorder(children) ==
    LET from[n \in PlanNodes] ==
            FoldLeft(LAMBDA before, c : before \o [from[c] EXCEPT ![1].up = Len(before)],
                     <<[node |-> n, up |-> 1]>>, children[n])
    IN  from[Root]

Numberings(k) ==
    {places \in [0 .. k - 1 -> [node : PlanNodes, parent_node_id : -1 .. k - 2]] :
        \A id \in 0 .. k - 1 : places[id].parent_node_id < id}

(* InPreorder holds of the beginnings of that sequence and of nothing      *)
(* else, whatever is written into the first places.                        *)
ASSUME InPreorderIsPreorder ==
    \A children \in {ChildrenIn(p) : p \in MCPlans} :
        LET order == Preorder(children)
        IN  \A k \in 1 .. 4 : \A places \in Numberings(k) : \A ends_with_plan \in BOOLEAN :
                InPreorder(children, places, k, ends_with_plan) <=>
                    /\ k <= Len(order)
                    /\ ends_with_plan => k = Len(order)
                    /\ \A id \in 0 .. k - 1 :
                          places[id] = [node           |-> order[id + 1].node,
                                        parent_node_id |-> id - order[id + 1].up]
==============================================================================
