------------------------------- MODULE PlanWalker -------------------------------
(***************************************************************************)
(* The two walks over the plan of a query (src/plan_tree_walker.c): the    *)
(* one that lists its nodes in an entry when the query starts, and the one *)
(* that later collects their numbers into the same places, any number of   *)
(* times.  The second has nothing but the order of the walk to tell which  *)
(* place is whose.                                                         *)
(*                                                                         *)
(* walk_planstate_recursive is run with an explicit stack: the calls still *)
(* to be made, the next one first.  The numbers of a node are the node     *)
(* they were read from.                                                    *)
(***************************************************************************)
EXTENDS Integers, Sequences, FiniteSets, SequencesExt

CONSTANTS
    PlanNodes,           \* the plan nodes there may be
    Root,                \* the one the query is run from
    NoNode,              \* no plan node
    Plans,               \* the plans a query may have
    MaxNodes             \* PWH_GUC_MAX_NODES_PER_QUERY

(* How the nodes of a plan hang together.  The members are the children of *)
(* Append, MergeAppend, BitmapAnd and BitmapOr and the one child of a      *)
(* SubqueryScan or CteScan; the scans of one CTE share theirs.  EXPLAIN    *)
(* ANALYZE or the extension itself has all nodes instrumented or none.     *)
Plan == [lefttree     : [PlanNodes -> PlanNodes \cup {NoNode}],
         righttree    : [PlanNodes -> PlanNodes \cup {NoNode}],
         subPlan      : [PlanNodes -> Seq(PlanNodes)],
         members      : [PlanNodes -> Seq(PlanNodes)],
         instrumented : BOOLEAN]

ASSUME PlanWalkerAssumption ==
    /\ Root \in PlanNodes
    /\ NoNode \notin PlanNodes
    /\ Plans \subseteq Plan
    /\ MaxNodes \in Nat \ {0}

Ids == 0 .. MaxNodes - 1

VARIABLES
    plan,                \* the plan of the query
    walk,                \* the walk under way
    stack,               \* its calls to come: a node and its parent's id
    node_counter,
    metrics,             \* the places of the entry
    count_of_metrics,    \* how many of them the entry shows
    listed,              \* the plan has been listed
    collected            \* history: a collecting walk has been completed since

vars == <<plan, walk, stack, node_counter, metrics, count_of_metrics, listed, collected>>

Call == PlanNodes \X (-1 .. MaxNodes - 1)

Node == [magic          : BOOLEAN,
         node           : PlanNodes \cup {NoNode},
         parent_node_id : -1 .. MaxNodes - 1,
         values         : PlanNodes \cup {NoNode}]

TypeOK ==
    /\ walk \in {"none", "list", "collect"}
    /\ stack \in Seq(Call)
    /\ node_counter \in 0 .. MaxNodes
    /\ metrics \in [Ids -> Node]
    /\ count_of_metrics \in 0 .. MaxNodes
    /\ listed \in BOOLEAN
    /\ collected \in BOOLEAN

(* An entry of which an earlier query has used the first places.           *)
Init ==
    /\ plan \in Plans
    /\ walk = "none"
    /\ stack = <<>>
    /\ node_counter = 0
    /\ count_of_metrics \in 0 .. MaxNodes
    /\ metrics = [id \in Ids |->
          [magic |-> id < count_of_metrics, node |-> NoNode, parent_node_id |-> -1,
           values |-> NoNode]]
    /\ listed = FALSE
    /\ collected = FALSE

IfAny(n) == IF n = NoNode THEN <<>> ELSE <<n>>

(* The children of each node of plan p in the order the walk follows.      *)
ChildrenIn(p) ==
    [n \in PlanNodes |->
        IfAny(p.lefttree[n]) \o IfAny(p.righttree[n]) \o p.subPlan[n] \o p.members[n]]

Children(n) == ChildrenIn(plan)[n]

(* The calls walk_planstate_recursive makes for the children of node n,    *)
(* which got the given id.                                                 *)
Calls(n, id) == [k \in DOMAIN Children(n) |-> <<Children(n)[k], id>>]

Start(kind) ==
    /\ walk = "none"
    /\ walk' = kind
    /\ stack' = <<<<Root, -1>>>>
    /\ node_counter' = 0

(* pwh_remember_planstate_tree_as_metric_structure, called by              *)
(* query_start_hook.                                                       *)
StartList ==
    /\ Start("list")
    /\ listed' = FALSE
    /\ collected' = FALSE
    /\ UNCHANGED <<plan, metrics, count_of_metrics>>

(* pwh_collect_planstate_metrics, called by query_end_hook and the handler *)
(* once the plan is listed.                                                *)
StartCollect ==
    /\ listed
    /\ Start("collect")
    /\ UNCHANGED <<plan, metrics, count_of_metrics, listed, collected>>

(* Variant: the magic is left as it was.                                   *)
VisitKeepsMagic(n, parent_id) ==
    metrics' = [metrics EXCEPT ![node_counter].node = n,
                               ![node_counter].parent_node_id = parent_id,
                               ![node_counter].values = NoNode]

(* topology_visitor                                                        *)
Visit(n, parent_id) ==
    metrics' = [metrics EXCEPT ![node_counter] =
        [magic |-> TRUE, node |-> n, parent_node_id |-> parent_id, values |-> NoNode]]

Proceed(n) ==
    /\ node_counter' = node_counter + 1
    /\ stack' = Calls(n, node_counter) \o Tail(stack)

(* The visitor returns -1: no call that is still to be made is made.       *)
Stop == stack' = <<>>

(* Variant: one place too few.                                             *)
FullTooSoon == node_counter + 1 >= MaxNodes
(* Variant: one place too many.                                            *)
FullTooLate == node_counter > MaxNodes
Full == node_counter >= MaxNodes

ListStep ==
    /\ walk = "list"
    /\ stack # <<>>
    /\ \/ Full /\ Stop /\ UNCHANGED <<node_counter, metrics>>
       \/ ~Full /\ Visit(Head(stack)[1], Head(stack)[2]) /\ Proceed(Head(stack)[1])
    /\ UNCHANGED <<plan, walk, count_of_metrics, listed, collected>>

(* instrumentation_visitor                                                 *)
Read(n) ==
    IF plan.instrumented
    THEN metrics' = [metrics EXCEPT ![node_counter].values = n]
    ELSE UNCHANGED metrics

(* Variant: the collecting walk does not go into the members of a node.    *)
CollectStepNoMembers ==
    /\ walk = "collect"
    /\ stack # <<>>
    /\ \/ Full /\ Stop /\ UNCHANGED <<node_counter, metrics>>
       \/ LET n == Head(stack)[1]
              own == SelectSeq(Calls(n, node_counter),
                               LAMBDA call : call[1] \notin Range(plan.members[n]))
          IN  /\ ~Full
              /\ Read(n)
              /\ node_counter' = node_counter + 1
              /\ stack' = own \o Tail(stack)
    /\ UNCHANGED <<plan, walk, count_of_metrics, listed, collected>>

CollectStep ==
    /\ walk = "collect"
    /\ stack # <<>>
    /\ \/ Full /\ Stop /\ UNCHANGED <<node_counter, metrics>>
       \/ /\ ~Full
          /\ ~metrics[node_counter].magic
          /\ node_counter' = node_counter + 1
          /\ Stop
          /\ UNCHANGED metrics
       \/ /\ ~Full
          /\ metrics[node_counter].magic
          /\ Read(Head(stack)[1])
          /\ Proceed(Head(stack)[1])
    /\ UNCHANGED <<plan, walk, count_of_metrics, listed, collected>>

ListEnd ==
    /\ walk = "list"
    /\ stack = <<>>
    /\ walk' = "none"
    /\ count_of_metrics' = node_counter
    /\ listed' = TRUE
    /\ UNCHANGED <<plan, stack, node_counter, metrics, collected>>

CollectEnd ==
    /\ walk = "collect"
    /\ stack = <<>>
    /\ walk' = "none"
    /\ collected' = TRUE
    /\ UNCHANGED <<plan, stack, node_counter, metrics, count_of_metrics, listed>>

(* check_stack_depth raises an error.  When listing, the entry is then     *)
(* released with what has been written so far.                             *)
WalkError ==
    /\ walk # "none"
    /\ stack # <<>>
    /\ walk' = "none"
    /\ Stop
    /\ UNCHANGED <<plan, node_counter, metrics, count_of_metrics, listed, collected>>

Next ==
    \/ StartList \/ ListStep \/ ListEnd
    \/ StartCollect \/ CollectStep \/ CollectEnd
    \/ WalkError

Spec == Init /\ [][Next]_vars

-----------------------------------------------------------------------------
Shown == 0 .. count_of_metrics - 1

(* Which of the first k places are those of children of the given one.     *)
ChildPlaces(places, parent_id, k) ==
    {id \in 1 .. k - 1 : places[id].parent_node_id = parent_id}

(* The first k places hold a plan in preorder, or the beginning of it.     *)
(* The children of a node are there in their order, none left out; between *)
(* a node and a child of it there is nothing but what is below the node;   *)
(* and what is left behind is complete: when the places go on above a      *)
(* node, or end with the plan, it has all its children.                    *)
InPreorder(children, places, k, ends_with_plan) ==
    /\ k > 0
    /\ places[0].node = Root /\ places[0].parent_node_id = -1
    /\ \A id \in 1 .. k - 1 :
          LET parent_id == places[id].parent_node_id
              own       == children[places[parent_id].node]
              nth       == Cardinality(ChildPlaces(places, parent_id, id)) + 1
          IN  /\ parent_id \in 0 .. id - 1
              /\ nth \in DOMAIN own /\ places[id].node = own[nth]
              /\ \A j \in parent_id + 1 .. id : places[j].parent_node_id >= parent_id
    /\ \A id \in 0 .. k - 1 :
          ends_with_plan \/ (\E j \in id + 1 .. k - 1 : places[j].parent_node_id < id) =>
              Cardinality(ChildPlaces(places, id, k)) = Len(children[places[id].node])

(* "Plans with more nodes get truncated" (README.md): what is listed is    *)
(* the plan in preorder, the shared parts as often as they are scanned, or *)
(* the beginning of that when the plan is too large; and nothing of the    *)
(* query that had the entry before.                                        *)
ListingIsPrefix ==
    listed => InPreorder(ChildrenIn(plan), metrics, count_of_metrics,
                         count_of_metrics < MaxNodes)

(* "Must match the same traversal order as topology walk": numbers are     *)
(* never stored with another node than they were read from, not even by a  *)
(* walk that was cut short.                                                *)
CollectedFromOwnNode ==
    listed => \A id \in Shown : metrics[id].values \in {NoNode, metrics[id].node}

(* A collecting walk that runs to its end has refreshed every node shown.  *)
CollectReachesAll ==
    listed /\ collected /\ plan.instrumented =>
        \A id \in Shown : metrics[id].values # NoNode
=============================================================================
