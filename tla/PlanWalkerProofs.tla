--------------------------- MODULE PlanWalkerProofs ---------------------------
(***************************************************************************)
(* Proofs about the two walks over a plan, for any plans, any number of    *)
(* nodes and any number of places.                                         *)
(***************************************************************************)
EXTENDS PlanWalker, SequenceTheorems, FiniteSetTheorems, TLAPS

USE PlanWalkerAssumption

-----------------------------------------------------------------------------
(* Sequences.                                                              *)

(* What is in the tail of a sequence is in the sequence.                   *)
LEMMA InTail ==
    ASSUME NEW S, NEW s \in Seq(S), s # <<>>,
           NEW j \in DOMAIN Tail(s)
    PROVE  j + 1 \in DOMAIN s /\ Tail(s)[j] = s[j + 1]
<1>1. /\ Tail(s) \in Seq(S)
      /\ Len(Tail(s)) = Len(s) - 1
      /\ \A i \in 1 .. Len(Tail(s)) : Tail(s)[i] = s[i + 1]
    BY HeadTailProperties
<1>2. DOMAIN Tail(s) = 1 .. Len(Tail(s)) /\ DOMAIN s = 1 .. Len(s)
    BY <1>1, LenProperties
<1>3. Len(s) \in Nat
    BY LenProperties
<1> QED BY <1>1, <1>2, <1>3

(* What is in a concatenation is in one of its parts.                      *)
LEMMA InConcat ==
    ASSUME NEW S, NEW s \in Seq(S), NEW t \in Seq(S),
           NEW j \in DOMAIN (s \o t)
    PROVE  \/ j \in DOMAIN s /\ (s \o t)[j] = s[j]
           \/ \E i \in DOMAIN t : (s \o t)[j] = t[i]
<1>1. /\ s \o t \in Seq(S)
      /\ Len(s \o t) = Len(s) + Len(t)
      /\ \A i \in 1 .. Len(s) + Len(t) :
            (s \o t)[i] = IF i <= Len(s) THEN s[i] ELSE t[i - Len(s)]
    BY ConcatProperties
<1>2. /\ DOMAIN (s \o t) = 1 .. Len(s \o t)
      /\ DOMAIN s = 1 .. Len(s) /\ DOMAIN t = 1 .. Len(t)
      /\ Len(s) \in Nat /\ Len(t) \in Nat
    BY <1>1, LenProperties
<1>3. CASE j <= Len(s)
    BY <1>1, <1>2, <1>3
<1>4. CASE ~(j <= Len(s))
  <2>1. j - Len(s) \in DOMAIN t
      BY <1>1, <1>2, <1>4
  <2> QED BY <1>1, <1>2, <1>4, <2>1
<1> QED BY <1>3, <1>4

-----------------------------------------------------------------------------
(* The children of a node and the calls the walk makes for them.  Family   *)
(* holds the children of every node: it is one value, which no walk        *)
(* changes.                                                                *)

Family == ChildrenIn(plan)

Callees(family, n, id) == [k \in DOMAIN family[n] |-> <<family[n][k], id>>]

LEMMA FamilyTyped ==
    ASSUME plan \in Plans
    PROVE  Family \in [PlanNodes -> Seq(PlanNodes)]
<1> SUFFICES ASSUME NEW n \in PlanNodes
             PROVE  Family[n] \in Seq(PlanNodes)
    BY DEF Family, ChildrenIn
<1>1. /\ plan.lefttree[n] \in PlanNodes \cup {NoNode}
      /\ plan.righttree[n] \in PlanNodes \cup {NoNode}
      /\ plan.subPlan[n] \in Seq(PlanNodes)
      /\ plan.members[n] \in Seq(PlanNodes)
    BY DEF Plan
<1>2. \A m \in PlanNodes \cup {NoNode} : IfAny(m) \in Seq(PlanNodes)
    BY DEF IfAny
<1>3. IfAny(plan.lefttree[n]) \in Seq(PlanNodes) /\ IfAny(plan.righttree[n]) \in Seq(PlanNodes)
    BY <1>1, <1>2
<1>4. IfAny(plan.lefttree[n]) \o IfAny(plan.righttree[n]) \in Seq(PlanNodes)
    BY <1>3, ConcatProperties
<1>5. IfAny(plan.lefttree[n]) \o IfAny(plan.righttree[n]) \o plan.subPlan[n] \in Seq(PlanNodes)
    BY <1>1, <1>4, ConcatProperties
<1>6. IfAny(plan.lefttree[n]) \o IfAny(plan.righttree[n]) \o plan.subPlan[n] \o plan.members[n]
          \in Seq(PlanNodes)
    BY <1>1, <1>5, ConcatProperties
<1> QED BY <1>6 DEF Family, ChildrenIn

LEMMA CallsAreCallees ==
    ASSUME NEW n \in PlanNodes, NEW id
    PROVE  Calls(n, id) = Callees(Family, n, id)
BY DEF Calls, Callees, Family, Children

LEMMA CalleesTyped ==
    ASSUME NEW family \in [PlanNodes -> Seq(PlanNodes)],
           NEW n \in PlanNodes, NEW id \in Ids
    PROVE  /\ Callees(family, n, id) \in Seq(Call)
           /\ \A j \in DOMAIN Callees(family, n, id) :
                 /\ Callees(family, n, id)[j][1] \in Range(family[n])
                 /\ Callees(family, n, id)[j][2] = id
<1> DEFINE own == family[n]
<1>1. /\ own \in Seq(PlanNodes)
      /\ Len(own) \in Nat
      /\ DOMAIN own = 1 .. Len(own)
      /\ \A k \in 1 .. Len(own) : own[k] \in PlanNodes
    BY LenProperties, ElementOfSeq
<1>2. \A k \in DOMAIN own : <<own[k], id>> \in Call
    BY <1>1 DEF Call, Ids
<1>3. Callees(family, n, id) \in [1 .. Len(own) -> Call]
    BY <1>1, <1>2 DEF Callees
<1>4. Callees(family, n, id) \in Seq(Call)
  <2>1. \A N \in Nat : [1 .. N -> Call] \subseteq Seq(Call)
      BY SeqDef
  <2> QED BY <1>1, <1>3, <2>1
<1> QED BY <1>4 DEF Callees, Range

-----------------------------------------------------------------------------
(* Types.                                                                  *)

LEMMA InitTyped ==
    Init => TypeOK
<1> SUFFICES ASSUME Init PROVE TypeOK
    OBVIOUS
<1>1. metrics \in [Ids -> Node]
  <2>1. \A id \in Ids : (id < count_of_metrics) \in BOOLEAN
      OBVIOUS
  <2>2. -1 \in -1 .. MaxNodes - 1
      OBVIOUS
  <2> QED BY <2>1, <2>2 DEF Init, Node
<1>2. stack \in Seq(Call)
    BY DEF Init
<1>3. /\ walk \in {"none", "list", "collect"}
      /\ node_counter \in 0 .. MaxNodes
      /\ count_of_metrics \in 0 .. MaxNodes
    BY DEF Init
<1>4. listed \in BOOLEAN /\ collected \in BOOLEAN
    BY Zenon DEF Init
<1> QED BY <1>1, <1>2, <1>3, <1>4 DEF TypeOK

(* The next call, the calls for its children, and what is left.            *)
LEMMA CallTyped ==
    ASSUME TypeOK, plan \in Plans, stack # <<>>
    PROVE  /\ Head(stack) \in Call
           /\ Head(stack)[1] \in PlanNodes
           /\ Head(stack)[2] \in -1 .. MaxNodes - 1
           /\ Tail(stack) \in Seq(Call)
           /\ \A id \in Ids : Calls(Head(stack)[1], id) \o Tail(stack) \in Seq(Call)
<1>1. Head(stack) \in Call /\ Tail(stack) \in Seq(Call)
    BY HeadTailProperties DEF TypeOK
<1>2. Head(stack)[1] \in PlanNodes /\ Head(stack)[2] \in -1 .. MaxNodes - 1
    BY <1>1 DEF Call
<1>3. ASSUME NEW id \in Ids
      PROVE  Calls(Head(stack)[1], id) \o Tail(stack) \in Seq(Call)
  <2>1. Calls(Head(stack)[1], id) \in Seq(Call)
      BY <1>2, FamilyTyped, CallsAreCallees, CalleesTyped
  <2> QED BY <1>1, <2>1, ConcatProperties
<1> QED BY <1>1, <1>2, <1>3

LEMMA StepTyped ==
    ASSUME TypeOK, plan \in Plans, [Next]_vars
    PROVE  TypeOK'
<1> USE DEF TypeOK
<1>1. CASE UNCHANGED vars
    BY <1>1 DEF vars
<1>2. <<<<Root, -1>>>> \in Seq(Call) /\ <<>> \in Seq(Call)
    BY DEF Call
<1>3. CASE StartList
  <2>1. /\ stack' \in Seq(Call) /\ walk' \in {"none", "list", "collect"}
        /\ node_counter' \in 0 .. MaxNodes
      BY <1>2, <1>3 DEF StartList, Start
  <2>2. listed' \in BOOLEAN /\ collected' \in BOOLEAN
      BY <1>3, Zenon DEF StartList
  <2> QED BY <1>3, <2>1, <2>2, Zenon DEF StartList
<1>4. CASE StartCollect
    BY <1>2, <1>4 DEF StartCollect, Start
<1>5. ASSUME ~Full PROVE node_counter \in Ids /\ node_counter + 1 \in 0 .. MaxNodes
    BY <1>5 DEF Full, Ids
<1>6. CASE ListStep
  <2>1. CASE Full
      BY <1>2, <1>6, <2>1 DEF ListStep, Stop
  <2>2. CASE ~Full
    <3>1. Visit(Head(stack)[1], Head(stack)[2]) /\ Proceed(Head(stack)[1])
        BY <1>6, <2>2 DEF ListStep
    <3>2. stack' \in Seq(Call)
        BY <1>5, <1>6, <2>2, <3>1, CallTyped DEF ListStep, Proceed
    <3>3. metrics' \in [Ids -> Node]
        BY <1>5, <1>6, <2>2, <3>1, CallTyped DEF ListStep, Visit, Node
    <3> QED BY <1>5, <1>6, <2>2, <3>1, <3>2, <3>3 DEF ListStep, Proceed
  <2> QED BY <2>1, <2>2
<1>7. CASE CollectStep
  <2>1. CASE Full
      BY <1>2, <1>7, <2>1 DEF CollectStep, Stop
  <2>2. CASE ~Full /\ ~metrics[node_counter].magic
      BY <1>2, <1>5, <1>7, <2>2 DEF CollectStep, Stop
  <2>3. CASE ~Full /\ metrics[node_counter].magic
    <3>1. Read(Head(stack)[1]) /\ Proceed(Head(stack)[1])
        BY <1>7, <2>3 DEF CollectStep
    <3>2. stack' \in Seq(Call)
        BY <1>5, <1>7, <2>3, <3>1, CallTyped DEF CollectStep, Proceed
    <3>3. metrics' = metrics
              \/ metrics' = [metrics EXCEPT ![node_counter].values = Head(stack)[1]]
        BY <3>1, Zenon DEF Read
    <3>4. metrics' \in [Ids -> Node]
        BY <1>5, <1>7, <2>3, <3>3, CallTyped, ZenonT(30) DEF CollectStep, Node
    <3> QED BY <1>5, <1>7, <2>3, <3>1, <3>2, <3>4 DEF CollectStep, Proceed
  <2> QED BY <2>1, <2>2, <2>3
<1>8. CASE ListEnd
    BY <1>8 DEF ListEnd
<1>9. CASE CollectEnd
    BY <1>9 DEF CollectEnd
<1>10. CASE WalkError
    BY <1>2, <1>10 DEF WalkError, Stop
<1> QED BY <1>1, <1>3, <1>4, <1>6, <1>7, <1>8, <1>9, <1>10 DEF Next

(* The plan of the query stays what it is.                                 *)
LEMMA PlanStays ==
    ASSUME [Next]_vars
    PROVE  plan' = plan /\ Family' = Family
<1>1. plan' = plan
    BY DEF Next, vars, StartList, StartCollect, ListStep, ListEnd, CollectStep, CollectEnd,
           WalkError
<1> QED BY <1>1 DEF Family

Typed == TypeOK /\ plan \in Plans

LEMMA TypedHolds ==
    Spec => []Typed
<1>1. Init => Typed
    BY InitTyped DEF Typed, Init
<1>2. Typed /\ [Next]_vars => Typed'
    BY StepTyped, PlanStays DEF Typed
<1> QED BY <1>1, <1>2, PTL DEF Spec

(* Every place, every id and every call stays in its range: no walk writes *)
(* or looks outside of the places of the entry.                            *)
THEOREM WalkerTypeCorrect ==
    Spec => []TypeOK
<1>1. Typed => TypeOK
    BY DEF Typed
<1> QED BY <1>1, TypedHolds, PTL
-----------------------------------------------------------------------------
(* What the steps of the walks do.                                         *)

(* A collecting walk only ever follows a listing that has been finished.   *)
Order ==
    /\ walk = "list" => ~listed /\ ~collected
    /\ walk = "collect" => listed

LEMMA OrderHolds ==
    Spec => []Order
<1>1. Init => Order
    BY DEF Init, Order
<1>2. Order /\ [Next]_vars => Order'
  <2> SUFFICES ASSUME Order, [Next]_vars
               PROVE  Order'
      OBVIOUS
  <2> USE DEF Order
  <2>1. CASE UNCHANGED vars
      BY <2>1, Zenon DEF vars
  <2>2. CASE StartList \/ StartCollect
      BY <2>2 DEF StartList, StartCollect, Start
  <2>3. CASE ListStep \/ CollectStep
    <3>1. walk' = walk /\ listed' = listed /\ collected' = collected
        BY <2>3 DEF ListStep, CollectStep
    <3> QED BY <3>1
  <2>4. CASE ListEnd \/ CollectEnd \/ WalkError
      BY <2>4 DEF ListEnd, CollectEnd, WalkError
  <2> QED BY <2>1, <2>2, <2>3, <2>4 DEF Next
<1> QED BY <1>1, <1>2, PTL DEF Spec

(* The place with index k, once it is written.                             *)
Written(places, k, call) ==
    [places EXCEPT ![k] = [magic |-> TRUE, node |-> call[1], parent_node_id |-> call[2],
                           values |-> NoNode]]

(* The step that lists a node.                                             *)
LEMMA Visited ==
    ASSUME Typed, ListStep, ~Full
    PROVE  /\ node_counter \in Ids
           /\ node_counter' = node_counter + 1
           /\ Head(stack) \in Call
           /\ stack' = Callees(Family, Head(stack)[1], node_counter) \o Tail(stack)
           /\ metrics' = Written(metrics, node_counter, Head(stack))
<1>1. node_counter \in Ids
    BY DEF Typed, TypeOK, Full, Ids
<1>2. /\ stack # <<>>
      /\ Visit(Head(stack)[1], Head(stack)[2])
      /\ Proceed(Head(stack)[1])
    BY DEF ListStep
<1>3. Head(stack) \in Call /\ Head(stack)[1] \in PlanNodes
    BY <1>2, CallTyped DEF Typed
<1>4. Calls(Head(stack)[1], node_counter) = Callees(Family, Head(stack)[1], node_counter)
    BY <1>3, CallsAreCallees
<1> QED BY <1>1, <1>2, <1>3, <1>4 DEF Visit, Proceed, Written

(* Only the listing of a node says which node has which place.             *)
LEMMA PlacesStay ==
    ASSUME Typed, [Next]_vars, ~(ListStep /\ ~Full), NEW id \in Ids
    PROVE  /\ metrics'[id].magic = metrics[id].magic
           /\ metrics'[id].node = metrics[id].node
           /\ metrics'[id].parent_node_id = metrics[id].parent_node_id
<1>1. CASE CollectStep
  <2>1. \/ metrics' = metrics
        \/ metrics' = [metrics EXCEPT ![node_counter].values = Head(stack)[1]]
      BY <1>1, Zenon DEF CollectStep, Read
  <2> QED BY <2>1 DEF Typed, TypeOK, Node
<1>2. CASE ~CollectStep
  <2>1. metrics' = metrics
      BY <1>2 DEF Next, vars, StartList, StartCollect, ListStep, ListEnd, CollectEnd, WalkError
  <2> QED BY <2>1
<1> QED BY <1>1, <1>2

(* What writing the next place does to the places.                         *)
LEMMA WrittenPlaces ==
    ASSUME NEW places \in [Ids -> Node], NEW k \in Ids, NEW call
    PROVE  /\ Written(places, k, call)[k].magic
           /\ Written(places, k, call)[k].node = call[1]
           /\ Written(places, k, call)[k].parent_node_id = call[2]
           /\ Written(places, k, call)[k].values = NoNode
           /\ \A i \in 0 .. k - 1 : Written(places, k, call)[i] = places[i]
BY DEF Written, Ids

-----------------------------------------------------------------------------
(* The order of the listing.                                               *)

(* How many children of the node at place p have one of the first k places.*)
Taken(places, p, k) == Cardinality(ChildPlaces(places, p, k))

LEMMA TakenTyped ==
    ASSUME NEW places, NEW p, NEW k \in Nat
    PROVE  /\ IsFiniteSet(ChildPlaces(places, p, k))
           /\ Taken(places, p, k) \in Nat
<1>1. IsFiniteSet(1 .. k - 1)
    BY FS_Interval
<1>2. ChildPlaces(places, p, k) \in SUBSET (1 .. k - 1)
    BY DEF ChildPlaces
<1>3. IsFiniteSet(ChildPlaces(places, p, k))
    BY <1>1, <1>2, FS_Subset
<1> QED BY <1>3, FS_CardinalityType DEF Taken

(* One more place is written.                                              *)
OneMore(places, later, k, n, q) ==
    /\ \A i \in 0 .. k - 1 : later[i] = places[i]
    /\ later[k].node = n /\ later[k].parent_node_id = q

(* Among the earlier places nothing is counted differently.                *)
LEMMA TakenStays ==
    ASSUME NEW places, NEW later, NEW k \in Nat \ {0}, NEW n, NEW q,
           OneMore(places, later, k, n, q), NEW p, NEW id \in 0 .. k
    PROVE  Taken(later, p, id) = Taken(places, p, id)
<1>1. ChildPlaces(later, p, id) = ChildPlaces(places, p, id)
    BY DEF OneMore, ChildPlaces
<1> QED BY <1>1 DEF Taken

(* It is taken for a child of q, and for no other node's.                  *)
LEMMA TakenGrows ==
    ASSUME NEW places, NEW later, NEW k \in Nat \ {0}, NEW n, NEW q,
           OneMore(places, later, k, n, q)
    PROVE  /\ Taken(later, q, k + 1) = Taken(places, q, k) + 1
           /\ \A p : p # q => Taken(later, p, k + 1) = Taken(places, p, k)
<1>1. \A p : Taken(later, p, k) = Taken(places, p, k)
    BY TakenStays
<1>2. Taken(later, q, k + 1) = Taken(places, q, k) + 1
  <2>1. ChildPlaces(later, q, k + 1) = ChildPlaces(later, q, k) \cup {k}
      BY DEF OneMore, ChildPlaces
  <2>2. k \notin ChildPlaces(later, q, k)
      BY DEF ChildPlaces
  <2>3. Cardinality(ChildPlaces(later, q, k) \cup {k}) = Cardinality(ChildPlaces(later, q, k)) + 1
      BY <2>2, TakenTyped, FS_AddElement
  <2> QED BY <1>1, <2>1, <2>3 DEF Taken
<1>3. ASSUME NEW p, p # q
      PROVE  Taken(later, p, k + 1) = Taken(places, p, k)
  <2>1. ChildPlaces(later, p, k + 1) = ChildPlaces(later, p, k)
      BY <1>3 DEF OneMore, ChildPlaces
  <2> QED BY <1>1, <2>1 DEF Taken
<1> QED BY <1>2, <1>3

(* The calls to come are those for the children that have no place yet, of *)
(* each node in their order, and of a node before those of a node above    *)
(* it: the call for child i of the node at place p is at off[p] + i.       *)
HasCalls(family, places, calls, k, off, p) ==
    LET own == family[places[p].node]
    IN  /\ places[p].node \in PlanNodes
        /\ Taken(places, p, k) <= Len(own)
        /\ \A i \in Taken(places, p, k) + 1 .. Len(own) :
              off[p] + i \in DOMAIN calls /\ calls[off[p] + i] = <<own[i], p>>

IsCallFor(family, places, calls, k, off, s, p) ==
    /\ p \in 0 .. k - 1
    /\ s - off[p] \in Taken(places, p, k) + 1 .. Len(family[places[p].node])
    /\ \A t \in 1 .. s : calls[t][2] >= p
    /\ \A j \in p + 1 .. k - 1 : places[j].parent_node_id >= p

Agenda(family, places, calls, k, off) ==
    /\ off \in [0 .. k - 1 -> Int]
    /\ \A p \in 0 .. k - 1 : HasCalls(family, places, calls, k, off, p)
    /\ \A s \in DOMAIN calls : IsCallFor(family, places, calls, k, off, s, calls[s][2])

(* Node n is the next child of the node at place q, below which everything *)
(* is complete.                                                            *)
IsDue(family, places, k, n, q) ==
    LET own == family[places[q].node]
    IN  /\ q \in 0 .. k - 1
        /\ places[q].node \in PlanNodes
        /\ Taken(places, q, k) + 1 \in 1 .. Len(own)
        /\ n = own[Taken(places, q, k) + 1]
        /\ \A j \in q + 1 .. k - 1 : places[j].parent_node_id >= q
        /\ \A p \in q + 1 .. k - 1 : Taken(places, p, k) = Len(family[places[p].node])

LEMMA AgendaTyped ==
    ASSUME NEW family \in [PlanNodes -> Seq(PlanNodes)], NEW places, NEW calls,
           NEW k \in Nat, NEW off, Agenda(family, places, calls, k, off),
           NEW p \in 0 .. k - 1
    PROVE  /\ off[p] \in Int
           /\ Taken(places, p, k) \in Nat
           /\ places[p].node \in PlanNodes
           /\ family[places[p].node] \in Seq(PlanNodes)
           /\ Len(family[places[p].node]) \in Nat
           /\ Taken(places, p, k) <= Len(family[places[p].node])
<1>1. off[p] \in Int /\ HasCalls(family, places, calls, k, off, p)
    BY DEF Agenda
<1>2. places[p].node \in PlanNodes /\ Taken(places, p, k) <= Len(family[places[p].node])
    BY <1>1 DEF HasCalls
<1>3. family[places[p].node] \in Seq(PlanNodes)
    BY <1>2
<1>4. Len(family[places[p].node]) \in Nat
    BY <1>3, LenProperties
<1> QED BY <1>1, <1>2, <1>3, <1>4, TakenTyped

(* The next call is for the node that is due.                              *)
LEMMA NextIsDue ==
    ASSUME NEW family \in [PlanNodes -> Seq(PlanNodes)], NEW places,
           NEW calls, NEW n, NEW q, 1 \in DOMAIN calls, calls[1] = <<n, q>>,
           \A s \in DOMAIN calls : s \in Nat \ {0},
           NEW k \in Nat, NEW off, Agenda(family, places, calls, k, off)
    PROVE  IsDue(family, places, k, n, q) /\ off[q] + Taken(places, q, k) = 0
<1> DEFINE own == family[places[q].node]
           next == Taken(places, q, k) + 1
<1>1. calls[1][2] = q
    OBVIOUS
<1>2. IsCallFor(family, places, calls, k, off, 1, q)
    BY <1>1 DEF Agenda
<1>3. q \in 0 .. k - 1
    BY <1>2 DEF IsCallFor
<1>4. /\ off[q] \in Int /\ Taken(places, q, k) \in Nat
      /\ places[q].node \in PlanNodes /\ Len(own) \in Nat
    BY <1>3, AgendaTyped
<1>5. 1 - off[q] \in next .. Len(own)
    BY <1>2 DEF IsCallFor
<1>6. next \in next .. Len(own) /\ next \in 1 .. Len(own)
  <2>1. next \in Nat \ {0} /\ Len(own) \in Nat
      BY <1>4
  <2> HIDE DEF next, own
  <2> QED BY <1>4, <1>5, <2>1
<1>7. off[q] + next \in DOMAIN calls /\ calls[off[q] + next] = <<own[next], q>>
  <2>1. HasCalls(family, places, calls, k, off, q)
      BY <1>3 DEF Agenda
  <2> HIDE DEF next
  <2> QED BY <1>6, <2>1 DEF HasCalls, next
<1>8. off[q] + next = 1
  <2>1. off[q] + next \in Nat \ {0}
      BY <1>7
  <2> QED BY <1>4, <1>5, <2>1
<1>9. n = own[next]
  <2>1. <<n, q>> = <<own[next], q>>
      BY <1>7, <1>8
  <2> QED BY <2>1
<1>10. \A j \in q + 1 .. k - 1 : places[j].parent_node_id >= q
    BY <1>2 DEF IsCallFor
<1>11. ASSUME NEW p \in q + 1 .. k - 1
       PROVE  Taken(places, p, k) = Len(family[places[p].node])
  <2>1. p \in 0 .. k - 1 /\ ~(q >= p)
      BY <1>3
  <2>2. /\ off[p] \in Int /\ Taken(places, p, k) \in Nat
        /\ Len(family[places[p].node]) \in Nat
        /\ Taken(places, p, k) <= Len(family[places[p].node])
      BY <2>1, AgendaTyped
  <2>3. SUFFICES ASSUME Taken(places, p, k) + 1 <= Len(family[places[p].node])
                 PROVE  FALSE
      BY <2>2
  <2> DEFINE i == Taken(places, p, k) + 1
             s == off[p] + i
  <2>4. i \in Taken(places, p, k) + 1 .. Len(family[places[p].node])
      BY <2>2, <2>3
  <2>5. HasCalls(family, places, calls, k, off, p)
      BY <2>1 DEF Agenda
  <2>6. s \in DOMAIN calls /\ calls[s] = <<family[places[p].node][i], p>>
      BY <2>4, <2>5 DEF HasCalls
  <2>7. calls[s][2] = p
      BY <2>6
  <2>8. IsCallFor(family, places, calls, k, off, s, p)
      BY <2>6, <2>7 DEF Agenda
  <2>9. 1 \in 1 .. s
      BY <2>6
  <2>10. q >= p
      BY <1>1, <2>8, <2>9 DEF IsCallFor
  <2> QED BY <2>1, <2>10
<1>12. IsDue(family, places, k, n, q)
    BY <1>3, <1>4, <1>6, <1>9, <1>10, <1>11 DEF IsDue
<1> QED BY <1>4, <1>8, <1>12

(* A place that is taken by the node that is due continues the preorder.   *)
LEMMA PreorderGrows ==
    ASSUME NEW family \in [PlanNodes -> Seq(PlanNodes)], NEW places, NEW later,
           NEW k \in Nat \ {0}, NEW n, NEW q, IsDue(family, places, k, n, q),
           InPreorder(family, places, k, FALSE), OneMore(places, later, k, n, q)
    PROVE  InPreorder(family, later, k + 1, FALSE)
<1>0. /\ \A i \in 0 .. k - 1 : later[i] = places[i]
      /\ later[k].node = n /\ later[k].parent_node_id = q
    BY DEF OneMore
<1>1. q \in 0 .. k - 1 /\ Taken(places, q, k) + 1 \in 1 .. Len(family[places[q].node])
      /\ n = family[places[q].node][Taken(places, q, k) + 1]
    BY DEF IsDue
<1>2. \A j \in q + 1 .. k - 1 : places[j].parent_node_id >= q
    BY DEF IsDue
<1>3. \A p \in q + 1 .. k - 1 : Taken(places, p, k) = Len(family[places[p].node])
    BY DEF IsDue
<1>4. ASSUME NEW p, NEW id \in 0 .. k
      PROVE  Taken(later, p, id) = Taken(places, p, id)
    BY TakenStays
<1>5. ASSUME NEW p, p # q
      PROVE  Taken(later, p, k + 1) = Taken(places, p, k)
    BY <1>5, TakenGrows
<1>6. later[0].node = Root /\ later[0].parent_node_id = -1
  <2>1. 0 \in 0 .. k - 1
      OBVIOUS
  <2> QED BY <1>0, <2>1 DEF InPreorder
<1>7. ASSUME NEW id \in 1 .. k
      PROVE  LET parent_id == later[id].parent_node_id
                 own       == family[later[parent_id].node]
                 nth       == Taken(later, parent_id, id) + 1
             IN  /\ parent_id \in 0 .. id - 1
                 /\ nth \in DOMAIN own /\ later[id].node = own[nth]
                 /\ \A j \in parent_id + 1 .. id : later[j].parent_node_id >= parent_id
  <2>1. CASE id = k
    <3>1. later[q] = places[q]
        BY <1>0, <1>1
    <3>2. Taken(later, q, k) = Taken(places, q, k)
        BY <1>4
    <3>3. DOMAIN family[places[q].node] = 1 .. Len(family[places[q].node])
      <4>1. places[q].node \in PlanNodes
          BY DEF IsDue
      <4> QED BY <4>1, LenProperties
    <3>4. ASSUME NEW j \in q + 1 .. k
          PROVE  later[j].parent_node_id >= q
      <4>1. CASE j = k
          BY <1>0, <1>1, <4>1
      <4>2. CASE j # k
        <5>1. j \in q + 1 .. k - 1 /\ later[j] = places[j]
            BY <1>0, <1>1, <4>2
        <5> QED BY <1>2, <5>1
      <4> QED BY <4>1, <4>2
    <3> QED BY <1>0, <1>1, <2>1, <3>1, <3>2, <3>3, <3>4
  <2>2. CASE id # k
    <3> DEFINE parent_id == places[id].parent_node_id
               own == family[places[parent_id].node]
               nth == Taken(places, parent_id, id) + 1
    <3>1. id \in 1 .. k - 1 /\ id \in 0 .. k /\ id \in 0 .. k - 1 /\ later[id] = places[id]
        BY <1>0, <2>2
    <3>2. /\ parent_id \in 0 .. id - 1
          /\ nth \in DOMAIN own /\ places[id].node = own[nth]
          /\ \A j \in parent_id + 1 .. id : places[j].parent_node_id >= parent_id
        BY <3>1 DEF InPreorder, Taken
    <3>3. later[parent_id] = places[parent_id]
      <4>1. parent_id \in 0 .. k - 1
          BY <3>1, <3>2
      <4> QED BY <1>0, <4>1
    <3>4. Taken(later, parent_id, id) = Taken(places, parent_id, id)
        BY <1>4, <3>1
    <3>5. ASSUME NEW j \in parent_id + 1 .. id
          PROVE  later[j].parent_node_id >= parent_id
      <4>1. later[j] = places[j]
        <5>1. j \in 0 .. k - 1
            BY <3>1, <3>2
        <5> QED BY <1>0, <5>1
      <4> QED BY <3>2, <4>1
    <3> HIDE DEF parent_id
    <3>6. later[id].parent_node_id = parent_id
        BY <3>1 DEF parent_id
    <3> QED BY <3>1, <3>2, <3>3, <3>4, <3>5, <3>6
  <2> QED BY <2>1, <2>2
<1>8. ASSUME NEW id \in 0 .. k, NEW j \in id + 1 .. k, later[j].parent_node_id < id
      PROVE  Taken(later, id, k + 1) = Len(family[later[id].node])
  <2>1. id \in 0 .. k - 1 /\ later[id] = places[id]
      BY <1>0
  <2>2. Taken(places, id, k) = Len(family[places[id].node])
    <3>1. CASE j = k
      <4>1. id \in q + 1 .. k - 1
          BY <1>0, <1>1, <1>8, <2>1, <3>1
      <4> QED BY <1>3, <4>1
    <3>2. CASE j # k
      <4>1. j \in id + 1 .. k - 1 /\ places[j].parent_node_id < id
          BY <1>0, <1>8, <2>1, <3>2
      <4> QED BY <2>1, <4>1 DEF InPreorder, Taken
    <3> QED BY <3>1, <3>2
  <2>3. id # q
    <3>1. Taken(places, q, k) \in Nat
        BY TakenTyped
    <3> QED BY <1>1, <2>2, <3>1
  <2> QED BY <1>5, <2>1, <2>2, <2>3
<1>9. (k + 1) - 1 = k /\ k + 1 > 0
    OBVIOUS
<1> QED BY <1>6, <1>7, <1>8, <1>9 DEF InPreorder, Taken

(* The calls for the given children take the place of the first call.      *)
Replaced(calls, rest, children, k) ==
    LET shift == Len(children) - 1
    IN  /\ \A i \in 1 .. Len(children) : i \in DOMAIN rest /\ rest[i] = <<children[i], k>>
        /\ \A i \in DOMAIN calls \ {1} :
              i + shift \in DOMAIN rest /\ rest[i + shift] = calls[i]
        /\ \A s \in DOMAIN rest :
              s > Len(children) => s - shift \in DOMAIN calls \ {1} /\ rest[s] = calls[s - shift]

LEMMA CalleesReplace ==
    ASSUME NEW family \in [PlanNodes -> Seq(PlanNodes)], NEW n \in PlanNodes,
           NEW calls \in Seq(Call), calls # <<>>, NEW k \in Ids
    PROVE  Replaced(calls, Callees(family, n, k) \o Tail(calls), family[n], k)
<1> DEFINE own == Callees(family, n, k)
           others == Tail(calls)
           rest == own \o others
           l == Len(family[n])
<1>1. /\ Len(calls) \in Nat /\ DOMAIN calls = 1 .. Len(calls)
      /\ others \in Seq(Call) /\ Len(others) = Len(calls) - 1
      /\ \A i \in 1 .. Len(others) : others[i] = calls[i + 1]
    BY LenProperties, HeadTailProperties
<1>2. family[n] \in Seq(PlanNodes) /\ l \in Nat /\ DOMAIN family[n] = 1 .. l
    BY LenProperties
<1>3. own \in Seq(Call) /\ DOMAIN own = 1 .. l /\ \A i \in 1 .. l : own[i] = <<family[n][i], k>>
  <2>1. own \in Seq(Call)
      BY CalleesTyped
  <2> QED BY <1>2, <2>1 DEF Callees
<1>4. Len(own) = l
    BY <1>2, <1>3, LenProperties
<1> HIDE DEF own, others, l
<1>5. /\ rest \in Seq(Call)
      /\ Len(rest) = l + Len(others)
      /\ \A i \in 1 .. l + Len(others) : rest[i] = IF i <= l THEN own[i] ELSE others[i - l]
  <2>0. own \in Seq(Call) /\ others \in Seq(Call)
      BY <1>1, <1>3
  <2>1. /\ rest \in Seq(Call)
        /\ Len(rest) = Len(own) + Len(others)
        /\ \A i \in 1 .. Len(own) + Len(others) :
              rest[i] = IF i <= Len(own) THEN own[i] ELSE others[i - Len(own)]
      BY <2>0, ConcatProperties
  <2> QED BY <1>4, <2>1
<1>6. DOMAIN rest = 1 .. l + (Len(calls) - 1)
    BY <1>1, <1>5, LenProperties
<1> HIDE DEF rest
<1>7. ASSUME NEW i \in 1 .. l
      PROVE  i \in DOMAIN rest /\ rest[i] = <<family[n][i], k>>
  <2>1. i \in 1 .. l + Len(others) /\ Len(calls) - 1 \in Nat
      BY <1>1, <1>2, LenProperties
  <2>2. rest[i] = own[i]
      BY <1>5, <2>1
  <2> QED BY <1>1, <1>2, <1>3, <1>6, <2>1, <2>2
<1>8. ASSUME NEW i \in 2 .. Len(calls)
      PROVE  i + (l - 1) \in DOMAIN rest /\ rest[i + (l - 1)] = calls[i]
  <2> DEFINE s == i + (l - 1)
  <2>1. s \in 1 .. l + Len(others) /\ ~(s <= l) /\ s - l = i - 1
        /\ i - 1 \in 1 .. Len(others) /\ (i - 1) + 1 = i
      BY <1>1, <1>2
  <2>2. rest[s] = others[s - l]
      BY <1>5, <2>1
  <2>3. others[i - 1] = calls[(i - 1) + 1]
      BY <1>1, <2>1
  <2> QED BY <1>1, <1>6, <2>1, <2>2, <2>3
<1>9. \A i \in DOMAIN calls \ {1} : i \in 2 .. Len(calls)
    BY <1>1
<1>10. ASSUME NEW s \in DOMAIN rest, s > l
       PROVE  s - (l - 1) \in DOMAIN calls \ {1} /\ rest[s] = calls[s - (l - 1)]
  <2> DEFINE i == s - (l - 1)
  <2>1. i \in 2 .. Len(calls) /\ i + (l - 1) = s
      BY <1>1, <1>2, <1>6, <1>10
  <2>2. rest[i + (l - 1)] = calls[i]
      BY <1>8, <2>1
  <2> QED BY <1>1, <2>1, <2>2
<1>11. Replaced(calls, rest, family[n], k)
    BY <1>7, <1>8, <1>9, <1>10 DEF Replaced, l
<1> QED BY <1>11 DEF rest, own, others

(* When the node that is due takes place k, its calls come first and where *)
(* those of the earlier places begin is shifted by their number.           *)
LEMMA AgendaGrows ==
    ASSUME NEW family \in [PlanNodes -> Seq(PlanNodes)], NEW places, NEW later,
           NEW calls, NEW rest, NEW n \in PlanNodes, NEW q,
           1 \in DOMAIN calls, calls[1] = <<n, q>>,
           \A s \in DOMAIN calls : s \in Nat \ {0},
           NEW m \in Nat, DOMAIN rest = 1 .. m,
           NEW k \in Nat \ {0}, NEW off, Agenda(family, places, calls, k, off),
           InPreorder(family, places, k, FALSE),
           OneMore(places, later, k, n, q), Replaced(calls, rest, family[n], k)
    PROVE  \E f : Agenda(family, later, rest, k + 1, f)
<1> DEFINE l == Len(family[n])
           shift == l - 1
           f == [p \in 0 .. k |-> IF p = k THEN 0 ELSE off[p] + shift]
<1>1. /\ \A i \in 0 .. k - 1 : later[i] = places[i]
      /\ later[k].node = n /\ later[k].parent_node_id = q
    BY DEF OneMore
<1>2. l \in Nat
    BY LenProperties
<1>3. IsDue(family, places, k, n, q) /\ off[q] + Taken(places, q, k) = 0
    BY NextIsDue
<1>4. q \in 0 .. k - 1
    BY <1>3 DEF IsDue
<1>5. Taken(later, q, k + 1) = Taken(places, q, k) + 1
    BY TakenGrows
<1>6. ASSUME NEW p, p # q
      PROVE  Taken(later, p, k + 1) = Taken(places, p, k)
    BY <1>6, TakenGrows
<1>7. Taken(later, k, k + 1) = 0
  <2>1. \A id \in 1 .. k - 1 : places[id].parent_node_id \in 0 .. id - 1
      BY DEF InPreorder
  <2>2. ChildPlaces(places, k, k) = {}
      BY <2>1 DEF ChildPlaces
  <2>3. Taken(later, k, k + 1) = Taken(places, k, k)
      BY <1>4, <1>6
  <2> QED BY <2>2, <2>3, FS_EmptySet DEF Taken
<1>8. ASSUME NEW p \in 0 .. k - 1
      PROVE  /\ off[p] \in Int /\ f[p] = off[p] + shift /\ f[p] \in Int
             /\ later[p] = places[p]
             /\ Taken(places, p, k) \in Nat /\ Len(family[places[p].node]) \in Nat
  <2>1. /\ off[p] \in Int
        /\ Taken(places, p, k) \in Nat /\ Len(family[places[p].node]) \in Nat
      BY AgendaTyped
  <2>2. f[p] = off[p] + shift
      OBVIOUS
  <2> QED BY <1>1, <1>2, <2>1, <2>2
<1>9. f \in [0 .. k -> Int] /\ f[k] = 0
  <2>1. f[k] = 0
      OBVIOUS
  <2>2. \A p \in 0 .. k : p # k => p \in 0 .. k - 1
      OBVIOUS
  <2>3. \A p \in 0 .. k : f[p] \in Int
    <3> HIDE DEF f
    <3> QED BY <1>8, <2>1, <2>2
  <2>4. f = [p \in 0 .. k |-> f[p]]
      OBVIOUS
  <2> HIDE DEF f
  <2> QED BY <2>1, <2>3, <2>4
<1> HIDE DEF f, l
<1>10. ASSUME NEW p \in 0 .. k
       PROVE  HasCalls(family, later, rest, k + 1, f, p)
  <2>1. CASE p = k
    <3>1. ASSUME NEW i \in 1 .. l
          PROVE  f[k] + i \in DOMAIN rest /\ rest[f[k] + i] = <<family[n][i], k>>
      <4>1. i \in DOMAIN rest /\ rest[i] = <<family[n][i], k>>
          BY DEF Replaced, l
      <4>2. f[k] + i = i
          BY <1>2, <1>9
      <4> QED BY <4>1, <4>2
    <3>2. Taken(later, k, k + 1) + 1 = 1 /\ 0 <= l
        BY <1>2, <1>7
    <3> QED BY <1>1, <1>7, <2>1, <3>1, <3>2 DEF HasCalls, l
  <2>2. CASE p # k
    <3> DEFINE own == family[places[p].node]
    <3>1. p \in 0 .. k - 1
        BY <2>2
    <3>2. HasCalls(family, places, calls, k, off, p)
        BY <3>1 DEF Agenda
    <3>3. /\ off[p] \in Int /\ f[p] = off[p] + shift /\ later[p] = places[p]
          /\ Taken(places, p, k) \in Nat /\ Len(own) \in Nat
        BY <1>8, <3>1
    <3>4. /\ Taken(later, p, k + 1) \in Nat /\ Taken(later, p, k + 1) <= Len(own)
          /\ Taken(later, p, k + 1) >= Taken(places, p, k)
          /\ p = q => Taken(later, p, k + 1) = Taken(places, p, k) + 1
      <4>1. CASE p = q
        <5>1. Taken(later, p, k + 1) = Taken(places, p, k) + 1
            BY <1>5, <4>1
        <5>2. Taken(places, p, k) + 1 \in 1 .. Len(own)
            BY <1>3, <4>1 DEF IsDue
        <5> QED BY <3>3, <5>1, <5>2
      <4>2. CASE p # q
        <5>1. Taken(later, p, k + 1) = Taken(places, p, k)
            BY <1>6, <4>2
        <5> QED BY <3>2, <3>3, <4>2, <5>1 DEF HasCalls
      <4> QED BY <4>1, <4>2
    <3>5. ASSUME NEW i \in Taken(later, p, k + 1) + 1 .. Len(own)
          PROVE  f[p] + i \in DOMAIN rest /\ rest[f[p] + i] = <<own[i], p>>
      <4> DEFINE s == off[p] + i
      <4>1. i \in Taken(places, p, k) + 1 .. Len(own)
          BY <3>3, <3>4
      <4>2. s \in DOMAIN calls /\ calls[s] = <<own[i], p>>
          BY <3>2, <4>1 DEF HasCalls
      <4>3. s # 1
        <5>1. CASE p = q
          <6>1. off[p] + Taken(places, p, k) = 0 /\ Taken(later, p, k + 1) = Taken(places, p, k) + 1
              BY <1>3, <3>4, <5>1
          <6>2. i \in Int /\ i >= (Taken(places, p, k) + 1) + 1
              BY <3>3, <6>1
          <6> QED BY <3>3, <6>1, <6>2, SMTT(30)
        <5>2. CASE p # q
          <6>1. calls[s] # <<n, q>>
              BY <4>2, <5>2
          <6> QED BY <6>1
        <5> QED BY <5>1, <5>2
      <4>4. s + shift \in DOMAIN rest /\ rest[s + shift] = calls[s]
        <5> HIDE DEF s
        <5> QED BY <4>2, <4>3 DEF Replaced, l
      <4>5. f[p] + i = s + shift
          BY <1>2, <3>3, <4>1
      <4> QED BY <4>2, <4>4, <4>5
    <3>6. places[p].node \in PlanNodes
        BY <3>2 DEF HasCalls
    <3> QED BY <3>3, <3>4, <3>5, <3>6 DEF HasCalls
  <2> QED BY <2>1, <2>2
<1>11. ASSUME NEW s \in DOMAIN rest, s > l
       PROVE  /\ s - shift \in DOMAIN calls /\ rest[s] = calls[s - shift]
              /\ IsCallFor(family, places, calls, k, off, s - shift, rest[s][2])
              /\ rest[s][2] \in 0 .. k - 1
  <2>1. s - shift \in DOMAIN calls /\ rest[s] = calls[s - shift]
      BY <1>11 DEF Replaced, l
  <2>2. IsCallFor(family, places, calls, k, off, s - shift, calls[s - shift][2])
      BY <2>1 DEF Agenda
  <2>3. calls[s - shift][2] \in 0 .. k - 1
      BY <2>2 DEF IsCallFor
  <2> QED BY <2>1, <2>2, <2>3
<1>12. ASSUME NEW s \in DOMAIN rest, ~(s > l)
       PROVE  s \in 1 .. l /\ rest[s][2] = k
  <2>1. s \in 1 .. l
      BY <1>2, <1>12
  <2>2. rest[s] = <<family[n][s], k>>
      BY <2>1 DEF Replaced, l
  <2> QED BY <2>1, <2>2
<1>13. ASSUME NEW s \in DOMAIN rest
       PROVE  IsCallFor(family, later, rest, k + 1, f, s, rest[s][2])
  <2> DEFINE p == rest[s][2]
  <2>1. s \in Nat \ {0}
      OBVIOUS
  <2>2. CASE s > l
    <3>1. /\ s - shift \in DOMAIN calls /\ rest[s] = calls[s - shift]
          /\ IsCallFor(family, places, calls, k, off, s - shift, p)
          /\ p \in 0 .. k - 1
        BY <1>11, <2>2
    <3> HIDE DEF p
    <3>2. s - f[p] \in Taken(later, p, k + 1) + 1 .. Len(family[later[p].node])
      <4> DEFINE i == (s - shift) - off[p]
      <4>1. i \in Taken(places, p, k) + 1 .. Len(family[places[p].node])
          BY <3>1 DEF IsCallFor
      <4>2. /\ off[p] \in Int /\ f[p] = off[p] + shift /\ later[p] = places[p]
            /\ Taken(places, p, k) \in Nat /\ Len(family[places[p].node]) \in Nat
          BY <1>8, <3>1
      <4>3. s - f[p] = i
        <5>1. off[p] \in Int /\ f[p] = off[p] + shift
            BY <4>2
        <5>2. shift \in Int
            BY <1>2
        <5> HIDE DEF shift
        <5> QED BY <2>1, <5>1, <5>2
      <4>4. i >= Taken(later, p, k + 1) + 1
        <5>1. CASE p = q
          <6>1. off[p] + Taken(places, p, k) = 0 /\ Taken(later, p, k + 1) = Taken(places, p, k) + 1
              BY <1>3, <1>5, <5>1
          <6>2. s - shift \in Nat \ {0, 1}
              BY <2>2, <3>1 DEF Replaced, l
          <6> QED BY <4>2, <6>1, <6>2, SMTT(30)
        <5>2. CASE p # q
          <6>1. Taken(later, p, k + 1) = Taken(places, p, k)
              BY <1>6, <5>2
          <6> QED BY <4>1, <4>2, <6>1
        <5> QED BY <5>1, <5>2
      <4>5. Taken(later, p, k + 1) \in Nat
          BY TakenTyped
      <4> HIDE DEF i
      <4>6. i \in Int /\ i <= Len(family[places[p].node])
          BY <4>1, <4>2
      <4>7. i \in Taken(later, p, k + 1) + 1 .. Len(family[places[p].node])
          BY <4>2, <4>4, <4>5, <4>6
      <4> QED BY <4>2, <4>3, <4>7
    <3>3. ASSUME NEW t \in 1 .. s
          PROVE  rest[t][2] >= p
      <4>1. t \in DOMAIN rest /\ t \in Nat
          BY <2>1
      <4>2. CASE t > l
        <5>1. rest[t] = calls[t - shift] /\ t - shift \in Nat \ {0}
            BY <1>11, <4>1, <4>2
        <5>2. t - shift \in 1 .. s - shift
            BY <1>2, <2>1, <5>1
        <5>3. calls[t - shift][2] >= p
            BY <3>1, <5>2 DEF IsCallFor
        <5> QED BY <5>1, <5>3
      <4>3. CASE ~(t > l)
        <5>1. rest[t][2] = k
            BY <1>12, <4>1, <4>3
        <5> QED BY <3>1, <5>1
      <4> QED BY <4>2, <4>3
    <3>4. ASSUME NEW j \in p + 1 .. k
          PROVE  later[j].parent_node_id >= p
      <4>1. CASE j = k
        <5>1. 1 \in 1 .. s - shift
            BY <1>2, <2>1, <2>2
        <5>2. calls[1][2] >= p
            BY <3>1, <5>1 DEF IsCallFor
        <5> QED BY <1>1, <4>1, <5>2
      <4>2. CASE j # k
        <5>1. j \in p + 1 .. k - 1 /\ j \in 0 .. k - 1
            BY <3>1, <4>2
        <5>2. places[j].parent_node_id >= p
            BY <3>1, <5>1 DEF IsCallFor
        <5> QED BY <1>1, <5>1, <5>2
      <4> QED BY <4>1, <4>2
    <3>5. p \in 0 .. (k + 1) - 1 /\ (k + 1) - 1 = k
        BY <3>1
    <3>6. IsCallFor(family, later, rest, k + 1, f, s, p)
        BY <3>2, <3>3, <3>4, <3>5 DEF IsCallFor
    <3> QED BY <3>6 DEF p
  <2>3. CASE ~(s > l)
    <3>1. s \in 1 .. l /\ p = k
        BY <1>12, <2>3
    <3>2. \A t \in 1 .. s : rest[t][2] = k
      <4>1. \A t \in 1 .. s : t \in DOMAIN rest /\ ~(t > l)
          BY <1>2, <2>1, <3>1
      <4> QED BY <1>12, <4>1
    <3>3. s - f[k] \in Taken(later, k, k + 1) + 1 .. Len(family[later[k].node])
        BY <1>1, <1>2, <1>7, <1>9, <3>1 DEF l
    <3>4. k \in 0 .. (k + 1) - 1 /\ k >= k /\ k + 1 .. (k + 1) - 1 = {}
        OBVIOUS
    <3>5. IsCallFor(family, later, rest, k + 1, f, s, k)
        BY <3>2, <3>3, <3>4 DEF IsCallFor
    <3> QED BY <3>1, <3>5
  <2> QED BY <2>2, <2>3
<1>14. (k + 1) - 1 = k
    OBVIOUS
<1>15. Agenda(family, later, rest, k + 1, f)
    BY <1>9, <1>10, <1>13, <1>14 DEF Agenda
<1> QED BY <1>15

(* The first place is the root's, and the calls to come are those for its  *)
(* children.                                                               *)
LEMMA AgendaStarts ==
    ASSUME NEW family \in [PlanNodes -> Seq(PlanNodes)], NEW later,
           later[0].node = Root, later[0].parent_node_id = -1
    PROVE  /\ InPreorder(family, later, 1, FALSE)
           /\ \E f : Agenda(family, later, Callees(family, Root, 0) \o <<>>, 1, f)
<1> DEFINE own == Callees(family, Root, 0)
           f == [p \in 0 .. 0 |-> 0]
<1>1. 0 .. 1 - 1 = {0} /\ 0 .. 0 = {0} /\ 1 .. 1 - 1 = {} /\ 0 + 1 .. 1 - 1 = {}
    OBVIOUS
<1>2. InPreorder(family, later, 1, FALSE)
    BY <1>1 DEF InPreorder
<1>3. family[Root] \in Seq(PlanNodes) /\ Len(family[Root]) \in Nat
      /\ DOMAIN family[Root] = 1 .. Len(family[Root])
    BY LenProperties
<1>4. own \in Seq(Call)
  <2>1. 0 \in Ids
      BY DEF Ids
  <2> QED BY <2>1, CalleesTyped
<1>5. own \o <<>> = own
    BY <1>4, ConcatEmptySeq
<1>6. DOMAIN own = 1 .. Len(family[Root])
      /\ \A i \in 1 .. Len(family[Root]) : own[i] = <<family[Root][i], 0>>
    BY <1>3 DEF Callees
<1> HIDE DEF own
<1>7. Taken(later, 0, 1) = 0
  <2>1. ChildPlaces(later, 0, 1) = {}
      BY <1>1 DEF ChildPlaces
  <2> QED BY <2>1, FS_EmptySet DEF Taken
<1>8. f \in [0 .. 1 - 1 -> Int] /\ f[0] = 0
    BY <1>1
<1> HIDE DEF f
<1>9. \A i \in 1 .. Len(family[Root]) : f[0] + i = i /\ i - f[0] = i /\ own[i][2] = 0
    BY <1>3, <1>6, <1>8
<1>10. Agenda(family, later, own, 1, f)
  <2>1. ASSUME NEW p \in 0 .. 1 - 1
        PROVE  HasCalls(family, later, own, 1, f, p)
      BY <1>3, <1>6, <1>7, <1>9 DEF HasCalls
  <2>2. ASSUME NEW s \in DOMAIN own
        PROVE  IsCallFor(family, later, own, 1, f, s, own[s][2])
      BY <1>3, <1>6, <1>7, <1>9 DEF IsCallFor
  <2> QED BY <1>8, <2>1, <2>2 DEF Agenda
<1> QED BY <1>2, <1>5, <1>10 DEF own

(* When no call is left, every node has all its children.                  *)
LEMMA AgendaEnds ==
    ASSUME NEW family \in [PlanNodes -> Seq(PlanNodes)], NEW places,
           NEW k \in Nat, NEW calls, DOMAIN calls = {},
           NEW off, Agenda(family, places, calls, k, off),
           InPreorder(family, places, k, FALSE)
    PROVE  InPreorder(family, places, k, TRUE)
<1>1. ASSUME NEW p \in 0 .. k - 1
      PROVE  Taken(places, p, k) = Len(family[places[p].node])
  <2>1. HasCalls(family, places, calls, k, off, p)
      BY DEF Agenda
  <2>2. /\ Taken(places, p, k) \in Nat /\ Len(family[places[p].node]) \in Nat
        /\ Taken(places, p, k) <= Len(family[places[p].node])
      BY AgendaTyped
  <2>3. Taken(places, p, k) + 1 \notin Taken(places, p, k) + 1 .. Len(family[places[p].node])
      BY <2>1 DEF HasCalls
  <2> QED BY <2>2, <2>3
<1> QED BY <1>1 DEF InPreorder, Taken

(* Only what a place says of its node and its parent matters.              *)
LEMMA SamePlacesSameOrder ==
    ASSUME NEW family, NEW places, NEW later, NEW k \in Nat, NEW ends_with_plan,
           \A i \in 0 .. k - 1 : /\ later[i].node = places[i].node
                                 /\ later[i].parent_node_id = places[i].parent_node_id,
           InPreorder(family, places, k, ends_with_plan)
    PROVE  InPreorder(family, later, k, ends_with_plan)
<1>1. ASSUME NEW p, NEW m \in 0 .. k
      PROVE  ChildPlaces(later, p, m) = ChildPlaces(places, p, m)
    BY <1>1 DEF ChildPlaces
<1>2. later[0].node = Root /\ later[0].parent_node_id = -1 /\ k > 0
    BY DEF InPreorder
<1>3. ASSUME NEW id \in 1 .. k - 1
      PROVE  LET parent_id == later[id].parent_node_id
                 own       == family[later[parent_id].node]
                 nth       == Cardinality(ChildPlaces(later, parent_id, id)) + 1
             IN  /\ parent_id \in 0 .. id - 1
                 /\ nth \in DOMAIN own /\ later[id].node = own[nth]
                 /\ \A j \in parent_id + 1 .. id : later[j].parent_node_id >= parent_id
  <2> DEFINE parent_id == places[id].parent_node_id
             own == family[places[parent_id].node]
             nth == Cardinality(ChildPlaces(places, parent_id, id)) + 1
  <2>1. /\ parent_id \in 0 .. id - 1
        /\ nth \in DOMAIN own /\ places[id].node = own[nth]
        /\ \A j \in parent_id + 1 .. id : places[j].parent_node_id >= parent_id
      BY DEF InPreorder
  <2>2. /\ later[id].parent_node_id = parent_id /\ later[id].node = places[id].node
        /\ later[parent_id].node = places[parent_id].node
        /\ ChildPlaces(later, parent_id, id) = ChildPlaces(places, parent_id, id)
        /\ \A j \in parent_id + 1 .. id : later[j].parent_node_id = places[j].parent_node_id
      BY <1>1, <2>1
  <2> HIDE DEF parent_id
  <2> QED BY <2>1, <2>2
<1>4. ASSUME NEW id \in 0 .. k - 1,
             ends_with_plan \/ \E j \in id + 1 .. k - 1 : later[j].parent_node_id < id
      PROVE  Cardinality(ChildPlaces(later, id, k)) = Len(family[later[id].node])
  <2>1. ends_with_plan \/ \E j \in id + 1 .. k - 1 : places[j].parent_node_id < id
      BY <1>4
  <2>2. Cardinality(ChildPlaces(places, id, k)) = Len(family[places[id].node])
      BY <2>1 DEF InPreorder
  <2>3. ChildPlaces(later, id, k) = ChildPlaces(places, id, k)
      BY <1>1
  <2> QED BY <2>2, <2>3
<1> QED BY <1>2, <1>3, <1>4 DEF InPreorder

(* Every listing is in preorder, and one under way goes on like that.      *)
InOrder(family, places, calls, k) ==
    \/ k = 0 /\ calls = <<<<Root, -1>>>>
    \/ /\ k > 0
       /\ InPreorder(family, places, k, FALSE)
       /\ \/ k = MaxNodes /\ calls = <<>>
          \/ \E off : Agenda(family, places, calls, k, off)

ListedInOrder ==
    /\ walk = "list" => InOrder(Family, metrics, stack, node_counter)
    /\ ListingIsPrefix

LEMMA VisitKeepsOrder ==
    ASSUME Typed, Order, ListedInOrder, ListStep, ~Full
    PROVE  ListedInOrder'
<1> DEFINE n == Head(stack)[1]
           q == Head(stack)[2]
           k == node_counter
           rest == Callees(Family, n, k) \o Tail(stack)
<1>1. /\ k \in Ids
      /\ node_counter' = k + 1
      /\ Head(stack) \in Call
      /\ stack' = rest
      /\ metrics' = Written(metrics, k, Head(stack))
    BY Visited
<1>2. /\ Family' = Family /\ walk = "list" /\ stack # <<>> /\ ~listed'
  <2>1. [Next]_vars
      BY DEF Next
  <2> QED BY <2>1, PlanStays DEF ListStep, Order
<1>3. /\ Family \in [PlanNodes -> Seq(PlanNodes)]
      /\ metrics \in [Ids -> Node]
      /\ stack \in Seq(Call)
    BY FamilyTyped DEF Typed, TypeOK
<1>4. k \in Nat /\ k # MaxNodes
    BY <1>1 DEF Ids
<1>5. OneMore(metrics, metrics', k, n, q)
  <2>1. metrics'[k].node = n
      BY <1>1, <1>3, WrittenPlaces
  <2>2. metrics'[k].parent_node_id = q
      BY <1>1, <1>3, WrittenPlaces
  <2>3. \A i \in 0 .. k - 1 : metrics'[i] = metrics[i]
      BY <1>1, <1>3, WrittenPlaces
  <2> QED BY <2>1, <2>2, <2>3 DEF OneMore
<1>6. InOrder(Family, metrics, stack, k)
    BY <1>2 DEF ListedInOrder
<1>7. /\ InPreorder(Family, metrics', k + 1, FALSE)
      /\ \E f : Agenda(Family, metrics', rest, k + 1, f)
  <2>1. CASE k = 0
    <3>1. stack = <<<<Root, -1>>>>
        BY <1>6, <2>1 DEF InOrder
    <3>2. n = Root /\ q = -1 /\ Tail(stack) = <<>>
        BY <3>1
    <3>3. metrics'[0].node = Root /\ metrics'[0].parent_node_id = -1
        BY <1>5, <2>1, <3>2 DEF OneMore
    <3> HIDE DEF n, k
    <3>4. rest = Callees(Family, Root, 0) \o <<>>
        BY <2>1, <3>2, Zenon
    <3>5. /\ InPreorder(Family, metrics', 1, FALSE)
          /\ \E f : Agenda(Family, metrics', Callees(Family, Root, 0) \o <<>>, 1, f)
        BY <1>3, <3>3, AgendaStarts
    <3>6. k + 1 = 1
        BY <2>1
    <3> HIDE DEF rest
    <3> QED BY <3>4, <3>5, <3>6
  <2>2. CASE k # 0
    <3>1. \E off : Agenda(Family, metrics, stack, k, off)
        BY <1>2, <1>4, <1>6, <2>2 DEF InOrder
    <3>2. PICK off : Agenda(Family, metrics, stack, k, off)
        BY <3>1
    <3>3. InPreorder(Family, metrics, k, FALSE) /\ k \in Nat \ {0}
        BY <1>4, <1>6, <2>2 DEF InOrder
    <3>4. /\ DOMAIN stack = 1 .. Len(stack) /\ 1 \in DOMAIN stack
          /\ \A s \in DOMAIN stack : s \in Nat \ {0}
          /\ stack[1] = <<n, q>> /\ n \in PlanNodes
      <4>1. /\ DOMAIN stack = 1 .. Len(stack) /\ Len(stack) \in Nat /\ Len(stack) # 0
            /\ stack[1] = Head(stack)
          BY <1>2, <1>3, LenProperties, HeadTailProperties
      <4>2. Head(stack) = <<n, q>> /\ n \in PlanNodes
          BY <1>1 DEF Call
      <4> QED BY <4>1, <4>2
    <3>5. /\ DOMAIN rest = 1 .. Len(rest) /\ Len(rest) \in Nat
          /\ Replaced(stack, rest, Family[n], k)
      <4>1. Callees(Family, n, k) \in Seq(Call) /\ Tail(stack) \in Seq(Call)
          BY <1>1, <1>2, <1>3, <3>4, CalleesTyped, HeadTailProperties
      <4>2. rest \in Seq(Call)
          BY <4>1, ConcatProperties
      <4>3. Replaced(stack, rest, Family[n], k)
          BY <1>1, <1>2, <1>3, <3>4, CalleesReplace
      <4> HIDE DEF rest
      <4> QED BY <4>2, <4>3, LenProperties
    <3> HIDE DEF n, q, k, rest
    <3>6. IsDue(Family, metrics, k, n, q)
        BY <1>3, <3>2, <3>3, <3>4, NextIsDue
    <3>7. InPreorder(Family, metrics', k + 1, FALSE)
        BY <1>3, <1>5, <3>3, <3>6, PreorderGrows
    <3>8. \E f : Agenda(Family, metrics', rest, k + 1, f)
        BY <1>3, <1>5, <3>2, <3>3, <3>4, <3>5, AgendaGrows
    <3> QED BY <3>7, <3>8
  <2> QED BY <2>1, <2>2
<1>8. k + 1 > 0 /\ k + 1 # 0
    BY <1>4
<1>9. InOrder(Family, metrics', rest, k + 1)
    BY <1>7, <1>8 DEF InOrder
<1> QED BY <1>1, <1>2, <1>9 DEF ListedInOrder, ListingIsPrefix

(* The places of a listing that is finished or that has no place left.     *)
LEMMA ListingEnds ==
    ASSUME Typed, ListedInOrder, ListEnd
    PROVE  ListedInOrder'
<1>1. /\ walk = "list" /\ stack = <<>> /\ count_of_metrics' = node_counter
      /\ metrics' = metrics /\ plan' = plan /\ walk' = "none"
    BY DEF ListEnd
<1>2. Family \in [PlanNodes -> Seq(PlanNodes)] /\ node_counter \in 0 .. MaxNodes
    BY FamilyTyped DEF Typed, TypeOK
<1>3. InOrder(Family, metrics, <<>>, node_counter)
    BY <1>1 DEF ListedInOrder
<1>4. InPreorder(Family, metrics, node_counter, node_counter < MaxNodes)
  <2>1. InPreorder(Family, metrics, node_counter, FALSE)
      BY <1>3 DEF InOrder
  <2>2. CASE node_counter < MaxNodes
    <3>1. \E off : Agenda(Family, metrics, <<>>, node_counter, off)
        BY <1>2, <1>3, <2>2 DEF InOrder
    <3>2. PICK off : Agenda(Family, metrics, <<>>, node_counter, off)
        BY <3>1
    <3>3. DOMAIN <<>> = {} /\ node_counter \in Nat
        BY <1>2
    <3>4. InPreorder(Family, metrics, node_counter, TRUE)
        BY <1>2, <2>1, <3>2, <3>3, AgendaEnds
    <3>5. (node_counter < MaxNodes) = TRUE
        BY <2>2
    <3> QED BY <3>4, <3>5
  <2>3. CASE ~(node_counter < MaxNodes)
    <3>1. (node_counter < MaxNodes) = FALSE
        BY <2>3
    <3> QED BY <2>1, <3>1
  <2> QED BY <2>2, <2>3
<1> QED BY <1>1, <1>4 DEF ListedInOrder, ListingIsPrefix, Family

LEMMA StepKeepsOrder ==
    ASSUME Typed, Order, ListedInOrder, [Next]_vars
    PROVE  ListedInOrder'
<1>1. CASE ListStep /\ ~Full
    BY <1>1, VisitKeepsOrder
<1>2. CASE ListEnd
    BY <1>2, ListingEnds
<1>3. CASE ~(ListStep /\ ~Full) /\ ~ListEnd
  <2>1. Family' = Family /\ plan' = plan
      BY PlanStays
  <2>2. \A i \in Ids : /\ metrics'[i].node = metrics[i].node
                       /\ metrics'[i].parent_node_id = metrics[i].parent_node_id
      BY <1>3, PlacesStay
  <2>3. ASSUME walk' = "list"
        PROVE  InOrder(Family', metrics', stack', node_counter')
    <3>1. CASE StartList
        BY <3>1 DEF StartList, Start, InOrder
    <3>2. CASE ListStep
      <4>1. /\ Full /\ stack' = <<>> /\ node_counter' = node_counter /\ metrics' = metrics
            /\ walk = "list" /\ stack # <<>>
          BY <1>3, <3>2 DEF ListStep, Stop
      <4>2. node_counter = MaxNodes /\ node_counter > 0
          BY <4>1 DEF Full, Typed, TypeOK
      <4>3. InPreorder(Family, metrics, node_counter, FALSE)
          BY <4>1, <4>2 DEF ListedInOrder, InOrder
      <4> QED BY <2>1, <4>1, <4>2, <4>3 DEF InOrder
    <3>3. CASE ~StartList /\ ~ListStep
      <4>1. UNCHANGED vars
          BY <1>3, <2>3, <3>3 DEF Next, StartCollect, Start, CollectStep, CollectEnd, WalkError
      <4>2. walk = walk' /\ stack' = stack /\ node_counter' = node_counter /\ metrics' = metrics
          BY <4>1 DEF vars
      <4> QED BY <2>1, <2>3, <4>2 DEF ListedInOrder
    <3> QED BY <3>1, <3>2, <3>3
  <2>4. ASSUME listed'
        PROVE  InPreorder(ChildrenIn(plan'), metrics', count_of_metrics',
                          count_of_metrics' < MaxNodes)
    <3>1. listed /\ count_of_metrics' = count_of_metrics
        BY <1>3, <2>4, Zenon DEF Next, vars, StartList, StartCollect, Start, ListStep, CollectStep,
            CollectEnd, WalkError
    <3>2. InPreorder(ChildrenIn(plan), metrics, count_of_metrics, count_of_metrics < MaxNodes)
        BY <3>1 DEF ListedInOrder, ListingIsPrefix
    <3>3. count_of_metrics \in Nat /\ \A i \in 0 .. count_of_metrics - 1 : i \in Ids
        BY DEF Typed, TypeOK, Ids
    <3> QED BY <2>1, <2>2, <3>1, <3>2, <3>3, SamePlacesSameOrder
  <2> QED BY <2>3, <2>4 DEF ListedInOrder, ListingIsPrefix
<1> QED BY <1>1, <1>2, <1>3

(* What is listed is the plan in preorder, or the beginning of it when it  *)
(* has more nodes than there are places, whatever the plan and the number  *)
(* of places.                                                              *)
THEOREM ListingIsPrefixHolds ==
    Spec => []ListingIsPrefix
<1>1. Init => ListedInOrder
    BY DEF Init, ListedInOrder, ListingIsPrefix
<1>2. Typed /\ Order /\ ListedInOrder /\ [Next]_vars => ListedInOrder'
    BY StepKeepsOrder
<1>3. ListedInOrder => ListingIsPrefix
    BY DEF ListedInOrder
<1> QED BY <1>1, <1>2, <1>3, TypedHolds, OrderHolds, PTL DEF Spec
-----------------------------------------------------------------------------
(* The trail of a walk.  The walk that collects has nothing but the places *)
(* and its own calls to go by, so what the listing and the collecting have *)
(* in common is the sequence of the calls to come: H[k] is what is left to *)
(* be called when k places are done.  A listing leaves such a trail, the   *)
(* places record it, and every later walk goes along it.                   *)

Trail(family, H, k) ==
    /\ H \in [0 .. k -> Seq(Call)]
    /\ H[0] = <<<<Root, -1>>>>
    /\ \A i \in 0 .. k - 1 :
          /\ H[i] # <<>>
          /\ H[i + 1] = Callees(family, Head(H[i])[1], i) \o Tail(H[i])

Recorded(places, H, k) ==
    \A i \in 0 .. k - 1 :
        /\ places[i].magic
        /\ places[i].node = Head(H[i])[1]

LEMMA TrailStarts ==
    ASSUME NEW family, NEW places
    PROVE  \E H : /\ Trail(family, H, 0) /\ Recorded(places, H, 0)
                  /\ H[0] = <<<<Root, -1>>>>
<1> DEFINE first == <<<<Root, -1>>>>
           H == [i \in 0 .. 0 |-> first]
<1>1. first \in Seq(Call)
    BY DEF Call
<1> HIDE DEF first
<1>2. H \in [0 .. 0 -> Seq(Call)] /\ H[0] = first
    BY <1>1
<1>3. \A i \in 0 .. 0 - 1 : FALSE
    OBVIOUS
<1>4. Recorded(places, H, 0)
    BY <1>3 DEF Recorded
<1> HIDE DEF H
<1>5. Trail(family, H, 0)
    BY <1>2, <1>3 DEF Trail, first
<1>6. H[0] = <<<<Root, -1>>>>
    BY <1>2 DEF first
<1> QED BY <1>4, <1>5, <1>6

LEMMA TrailGrows ==
    ASSUME NEW family \in [PlanNodes -> Seq(PlanNodes)], NEW places \in [Ids -> Node],
           NEW k \in Ids, NEW H, Trail(family, H, k), Recorded(places, H, k), H[k] # <<>>
    PROVE  \E G : /\ Trail(family, G, k + 1)
                  /\ Recorded(Written(places, k, Head(H[k])), G, k + 1)
                  /\ G[k + 1] = Callees(family, Head(H[k])[1], k) \o Tail(H[k])
<1> DEFINE next == Callees(family, Head(H[k])[1], k) \o Tail(H[k])
           G == [i \in 0 .. k + 1 |-> IF i = k + 1 THEN next ELSE H[i]]
           later == Written(places, k, Head(H[k]))
<1>1. k \in Nat
    BY DEF Ids
<1>2. H \in [0 .. k -> Seq(Call)] /\ H[k] \in Seq(Call)
    BY <1>1 DEF Trail
<1>3. Head(H[k]) \in Call /\ Tail(H[k]) \in Seq(Call)
    BY <1>2, HeadTailProperties
<1>4. Head(H[k])[1] \in PlanNodes
    BY <1>3 DEF Call
<1>5. Callees(family, Head(H[k])[1], k) \in Seq(Call)
    BY <1>4, CalleesTyped
<1>6. next \in Seq(Call)
    BY <1>3, <1>5, ConcatProperties
<1> HIDE DEF next
<1>7. /\ G \in [0 .. k + 1 -> Seq(Call)]
      /\ G[k + 1] = next
      /\ \A i \in 0 .. k : G[i] = H[i]
    BY <1>1, <1>2, <1>6
<1> HIDE DEF G
<1>8. /\ later[k].magic
      /\ later[k].node = Head(H[k])[1]
      /\ \A i \in 0 .. k - 1 : later[i] = places[i]
  <2>1. later[k].magic
      BY WrittenPlaces, Zenon
  <2>2. later[k].node = Head(H[k])[1]
      BY WrittenPlaces
  <2>3. \A i \in 0 .. k - 1 : later[i] = places[i]
      BY <1>1 DEF Written, Ids
  <2> QED BY <2>1, <2>2, <2>3, Zenon
<1> HIDE DEF later
<1>9. Trail(family, G, k + 1)
  <2>1. G[0] = <<<<Root, -1>>>>
    <3>1. 0 \in 0 .. k
        BY <1>1
    <3> QED BY <1>7, <3>1 DEF Trail
  <2>2. ASSUME NEW i \in 0 .. k
        PROVE  /\ G[i] # <<>>
               /\ G[i + 1] = Callees(family, Head(G[i])[1], i) \o Tail(G[i])
    <3>1. CASE i = k
        BY <1>7, <3>1 DEF next
    <3>2. CASE i # k
      <4>1. i \in 0 .. k - 1 /\ i \in 0 .. k /\ i + 1 \in 0 .. k
          BY <1>1, <3>2
      <4> QED BY <1>7, <4>1 DEF Trail
    <3> QED BY <3>1, <3>2
  <2>3. 0 .. (k + 1) - 1 = 0 .. k
      BY <1>1
  <2> QED BY <1>7, <2>1, <2>2, <2>3 DEF Trail
<1>10. Recorded(later, G, k + 1)
  <2>1. ASSUME NEW i \in 0 .. k
        PROVE  later[i].magic /\ later[i].node = Head(G[i])[1]
    <3>1. CASE i = k
        BY <1>7, <1>8, <3>1
    <3>2. CASE i # k
      <4>1. i \in 0 .. k - 1
          BY <1>1, <3>2
      <4>2. later[i] = places[i] /\ G[i] = H[i]
          BY <1>7, <1>8, <2>1, <4>1
      <4> QED BY <4>1, <4>2 DEF Recorded
    <3> QED BY <3>1, <3>2
  <2>2. 0 .. (k + 1) - 1 = 0 .. k
      BY <1>1
  <2> QED BY <2>1, <2>2 DEF Recorded
<1> QED BY <1>7, <1>9, <1>10 DEF later, next

(* The listing so far: its calls to come, or none when it was cut short.   *)
Listing ==
    walk = "list" =>
        \E H : /\ Trail(Family, H, node_counter)
               /\ Recorded(metrics, H, node_counter)
               /\ \/ stack = H[node_counter]
                  \/ stack = <<>> /\ node_counter = MaxNodes

(* A listing that has been finished, and a collecting walk along it.       *)
IsListing(family, places, H, count) ==
    /\ Trail(family, H, count)
    /\ Recorded(places, H, count)
    /\ H[count] = <<>> \/ count = MaxNodes

GoesAlong(H, count, calls, k) ==
    /\ k \in 0 .. count
    /\ \/ calls = H[k]
       \/ calls = <<>> /\ k = count

IsFollowed ==
    listed =>
        \E H : /\ IsListing(Family, metrics, H, count_of_metrics)
               /\ walk = "collect" =>
                     GoesAlong(H, count_of_metrics, stack, node_counter)

(* What has been recorded stays so while nothing is listed.                *)
LEMMA RecordStays ==
    ASSUME Typed, [Next]_vars, ~(ListStep /\ ~Full),
           NEW H, NEW k \in 0 .. MaxNodes, Recorded(metrics, H, k)
    PROVE  Recorded(metrics', H, k)
<1> SUFFICES ASSUME NEW i \in 0 .. k - 1
             PROVE  metrics'[i].magic /\ metrics'[i].node = Head(H[i])[1]
    BY DEF Recorded
<1>1. i \in Ids
    BY DEF Ids
<1>2. metrics'[i].magic = metrics[i].magic /\ metrics'[i].node = metrics[i].node
    BY <1>1, PlacesStay
<1>3. metrics[i].magic /\ metrics[i].node = Head(H[i])[1]
    BY DEF Recorded
<1> QED BY <1>2, <1>3, Zenon

LEMMA ListingStep ==
    ASSUME Typed, Order, Listing, [Next]_vars
    PROVE  Listing'
<1> SUFFICES ASSUME walk' = "list"
             PROVE  \E H : /\ Trail(Family', H, node_counter')
                           /\ Recorded(metrics', H, node_counter')
                           /\ \/ stack' = H[node_counter']
                              \/ stack' = <<>> /\ node_counter' = MaxNodes
    BY DEF Listing
<1>1. Family' = Family
    BY PlanStays
<1>2. CASE StartList
  <2>1. node_counter' = 0 /\ stack' = <<<<Root, -1>>>>
      BY <1>2 DEF StartList, Start
  <2> QED BY <1>1, <2>1, TrailStarts
<1>3. CASE ListStep
  <2>1. PICK H : /\ Trail(Family, H, node_counter)
                 /\ Recorded(metrics, H, node_counter)
                 /\ \/ stack = H[node_counter]
                    \/ stack = <<>> /\ node_counter = MaxNodes
      BY <1>3 DEF Listing, ListStep
  <2>2. stack = H[node_counter] /\ stack # <<>>
      BY <1>3, <2>1 DEF ListStep
  <2>3. CASE Full
    <3>1. stack' = <<>> /\ node_counter' = node_counter /\ metrics' = metrics
        BY <1>3, <2>3 DEF ListStep, Stop
    <3>2. node_counter = MaxNodes
        BY <2>3 DEF Full, Typed, TypeOK
    <3> QED BY <1>1, <2>1, <3>1, <3>2
  <2>4. CASE ~Full
    <3>1. /\ node_counter \in Ids
          /\ node_counter' = node_counter + 1
          /\ stack' = Callees(Family, Head(stack)[1], node_counter) \o Tail(stack)
          /\ metrics' = Written(metrics, node_counter, Head(stack))
        BY <1>3, <2>4, Visited
    <3>2. Family \in [PlanNodes -> Seq(PlanNodes)] /\ metrics \in [Ids -> Node]
        BY FamilyTyped DEF Typed, TypeOK
    <3>3. \E G : /\ Trail(Family, G, node_counter + 1)
                 /\ Recorded(Written(metrics, node_counter, Head(H[node_counter])), G,
                             node_counter + 1)
                 /\ G[node_counter + 1] = Callees(Family, Head(H[node_counter])[1], node_counter)
                                              \o Tail(H[node_counter])
        BY <2>1, <2>2, <3>1, <3>2, TrailGrows, ZenonT(30)
    <3> QED BY <1>1, <2>2, <3>1, <3>3
  <2> QED BY <2>3, <2>4
<1>4. CASE ~StartList /\ ~ListStep
  <2>1. walk' = walk /\ stack' = stack /\ node_counter' = node_counter /\ metrics' = metrics
      BY <1>4 DEF Next, vars, StartCollect, Start, ListEnd, CollectStep, CollectEnd, WalkError
  <2> QED BY <1>1, <2>1 DEF Listing
<1> QED BY <1>2, <1>3, <1>4

(* A collecting walk that makes a call makes it for the node whose place   *)
(* is next, which was written by the listing; the calls to come are those  *)
(* the listing had.                                                        *)
LEMMA CollectsOwn ==
    ASSUME Typed, CollectStep, ~Full, NEW H,
           IsListing(Family, metrics, H, count_of_metrics),
           GoesAlong(H, count_of_metrics, stack, node_counter)
    PROVE  /\ node_counter \in 0 .. count_of_metrics - 1
           /\ metrics[node_counter].magic
           /\ metrics[node_counter].node = Head(stack)[1]
           /\ node_counter' = node_counter + 1
           /\ stack' = H[node_counter + 1]
<1>1. node_counter \in Ids /\ count_of_metrics \in 0 .. MaxNodes /\ stack # <<>>
    BY DEF Typed, TypeOK, Full, Ids, CollectStep
<1>2. stack = H[node_counter] /\ node_counter \in 0 .. count_of_metrics
    BY <1>1 DEF GoesAlong
<1>3. node_counter # count_of_metrics
  <2> SUFFICES ASSUME node_counter = count_of_metrics PROVE FALSE
      OBVIOUS
  <2>1. count_of_metrics # MaxNodes
      BY <1>1 DEF Ids
  <2> QED BY <1>1, <1>2, <2>1 DEF IsListing
<1>4. node_counter \in 0 .. count_of_metrics - 1
    BY <1>1, <1>2, <1>3
<1>5. metrics[node_counter].magic /\ metrics[node_counter].node = Head(stack)[1]
    BY <1>2, <1>4 DEF IsListing, Recorded
<1>6. Proceed(Head(stack)[1])
    BY <1>5 DEF CollectStep
<1>7. Head(stack)[1] \in PlanNodes
    BY <1>1, CallTyped DEF Typed
<1>8. stack' = Callees(Family, Head(stack)[1], node_counter) \o Tail(stack)
    BY <1>6, <1>7, CallsAreCallees DEF Proceed
<1>9. H[node_counter + 1] = Callees(Family, Head(stack)[1], node_counter) \o Tail(stack)
    BY <1>2, <1>4 DEF IsListing, Trail
<1> QED BY <1>4, <1>5, <1>6, <1>8, <1>9 DEF Proceed

(* A collecting walk has no more calls to make when it has been through    *)
(* all the places.                                                         *)
LEMMA GoesToTheEnd ==
    ASSUME NEW family, NEW places, NEW H, NEW count \in Nat, NEW k,
           IsListing(family, places, H, count), GoesAlong(H, count, <<>>, k)
    PROVE  k = count
<1> SUFFICES ASSUME k # count PROVE FALSE
    OBVIOUS
<1>1. k \in 0 .. count - 1 /\ H[k] = <<>>
    BY DEF GoesAlong
<1> QED BY <1>1 DEF IsListing, Trail

LEMMA FollowedStep ==
    ASSUME Typed, Order, Listing, IsFollowed, [Next]_vars
    PROVE  IsFollowed'
<1> SUFFICES ASSUME listed'
             PROVE  \E H : /\ IsListing(Family', metrics', H, count_of_metrics')
                           /\ walk' = "collect" =>
                                 GoesAlong(H, count_of_metrics', stack', node_counter')
    BY DEF IsFollowed
<1>1. Family' = Family
    BY PlanStays
<1>2. count_of_metrics \in 0 .. MaxNodes /\ node_counter \in 0 .. MaxNodes
    BY DEF Typed, TypeOK
<1>3. CASE ListEnd
  <2>1. PICK H : /\ Trail(Family, H, node_counter)
                 /\ Recorded(metrics, H, node_counter)
                 /\ \/ stack = H[node_counter]
                    \/ stack = <<>> /\ node_counter = MaxNodes
      BY <1>3 DEF Listing, ListEnd
  <2>2. /\ metrics' = metrics /\ count_of_metrics' = node_counter
        /\ stack = <<>> /\ walk' = "none"
      BY <1>3 DEF ListEnd
  <2> QED BY <1>1, <2>1, <2>2 DEF IsListing
<1>4. CASE ~ListEnd
  <2>1. listed /\ count_of_metrics' = count_of_metrics /\ ~ListStep
      BY <1>4, Zenon DEF Next, vars, Order, StartList, StartCollect, Start, ListStep, CollectStep,
          CollectEnd, WalkError
  <2>2. PICK H : /\ IsListing(Family, metrics, H, count_of_metrics)
                 /\ walk = "collect" =>
                       GoesAlong(H, count_of_metrics, stack, node_counter)
      BY <2>1 DEF IsFollowed
  <2>3. Recorded(metrics', H, count_of_metrics)
      BY <1>2, <2>1, <2>2, RecordStays DEF IsListing
  <2>4. IsListing(Family', metrics', H, count_of_metrics')
      BY <1>1, <2>1, <2>2, <2>3 DEF IsListing
  <2>5. ASSUME walk' = "collect"
        PROVE  GoesAlong(H, count_of_metrics', stack', node_counter')
    <3>1. CASE StartCollect
      <4>1. node_counter' = 0 /\ stack' = <<<<Root, -1>>>>
          BY <3>1 DEF StartCollect, Start
      <4>2. H[0] = <<<<Root, -1>>>>
          BY <2>2 DEF IsListing, Trail
      <4>3. 0 \in 0 .. count_of_metrics'
          BY <1>2, <2>1
      <4> QED BY <4>1, <4>2, <4>3 DEF GoesAlong
    <3>2. CASE CollectStep
      <4>1. GoesAlong(H, count_of_metrics, stack, node_counter)
          BY <2>2, <3>2 DEF CollectStep
      <4>2. CASE Full
        <5>1. stack' = <<>> /\ node_counter' = node_counter
            BY <3>2, <4>2 DEF CollectStep, Stop
        <5>2. node_counter = count_of_metrics
            BY <1>2, <4>1, <4>2 DEF Full, GoesAlong
        <5> QED BY <1>2, <2>1, <5>1, <5>2 DEF GoesAlong
      <4>3. CASE ~Full
        <5>1. /\ node_counter \in 0 .. count_of_metrics - 1
              /\ node_counter' = node_counter + 1
              /\ stack' = H[node_counter + 1]
            BY <2>2, <3>2, <4>1, <4>3, CollectsOwn
        <5> QED BY <1>2, <2>1, <5>1 DEF GoesAlong
      <4> QED BY <4>2, <4>3
    <3>3. CASE ~StartCollect /\ ~CollectStep
      <4>1. walk = "collect" /\ stack' = stack /\ node_counter' = node_counter
          BY <2>1, <2>5, <3>3 DEF Next, vars, StartList, Start, ListEnd, CollectEnd, WalkError
      <4> QED BY <2>1, <2>2, <4>1
    <3> QED BY <3>1, <3>2, <3>3
  <2> QED BY <2>4, <2>5
<1> QED BY <1>3, <1>4
FollowInv == Typed /\ Order /\ Listing /\ IsFollowed

LEMMA FollowInvHolds ==
    Spec => []FollowInv
<1>1. Init => Listing /\ IsFollowed
    BY DEF Init, Listing, IsFollowed
<1>2. Typed /\ Order /\ Listing /\ IsFollowed /\ [Next]_vars => Listing' /\ IsFollowed'
    BY ListingStep, FollowedStep
<1> QED BY <1>1, <1>2, TypedHolds, OrderHolds, PTL DEF Spec, FollowInv

-----------------------------------------------------------------------------
(* The numbers.                                                            *)

(* A place that has just been listed has no numbers yet.                   *)
NoneYet ==
    walk = "list" => \A id \in 0 .. node_counter - 1 : metrics[id].values = NoNode

(* What a collecting walk has been through is refreshed.                   *)
Refreshed ==
    listed /\ plan.instrumented =>
        /\ walk = "collect" =>
              \A id \in 0 .. node_counter - 1 : metrics[id].values = metrics[id].node
        /\ collected =>
              \A id \in Shown : metrics[id].values = metrics[id].node

(* What a call of instrumentation_visitor writes.                          *)
LEMMA Collected ==
    ASSUME FollowInv, listed, CollectStep, ~Full
    PROVE  /\ node_counter \in Shown
           /\ node_counter' = node_counter + 1
           /\ metrics' = IF plan.instrumented
                         THEN [metrics EXCEPT ![node_counter].values = metrics[node_counter].node]
                         ELSE metrics
<1>1. PICK H : /\ IsListing(Family, metrics, H, count_of_metrics)
               /\ walk = "collect" => GoesAlong(H, count_of_metrics, stack, node_counter)
    BY DEF FollowInv, IsFollowed
<1>2. GoesAlong(H, count_of_metrics, stack, node_counter)
    BY <1>1 DEF CollectStep
<1>3. /\ node_counter \in Shown
      /\ metrics[node_counter].magic
      /\ metrics[node_counter].node = Head(stack)[1]
      /\ node_counter' = node_counter + 1
    BY <1>1, <1>2, CollectsOwn DEF FollowInv, Shown
<1>4. Read(Head(stack)[1])
    BY <1>3 DEF CollectStep
<1> QED BY <1>3, <1>4, Zenon DEF Read

LEMMA CollectedValues ==
    ASSUME FollowInv, listed, CollectStep, ~Full
    PROVE  /\ \A id \in Ids \ {node_counter} : metrics'[id] = metrics[id]
           /\ metrics'[node_counter].node = metrics[node_counter].node
           /\ plan.instrumented =>
                 metrics'[node_counter].values = metrics[node_counter].node
           /\ ~plan.instrumented => metrics' = metrics
<1>1. node_counter \in Ids
    BY Collected DEF Shown, FollowInv, Typed, TypeOK, Ids
<1>2. metrics \in [Ids -> Node]
    BY DEF FollowInv, Typed, TypeOK
<1>3. CASE plan.instrumented
  <2>1. metrics' = [metrics EXCEPT ![node_counter].values = metrics[node_counter].node]
      BY <1>3, Collected, Zenon
  <2>2. /\ \A id \in Ids \ {node_counter} : metrics'[id] = metrics[id]
        /\ metrics'[node_counter].node = metrics[node_counter].node
        /\ metrics'[node_counter].values = metrics[node_counter].node
      BY <1>1, <1>2, <2>1 DEF Node
  <2> QED BY <1>3, <2>2, Zenon
<1>4. CASE ~plan.instrumented
  <2>1. metrics' = metrics
      BY <1>4, Collected, Zenon
  <2> QED BY <1>4, <2>1, Zenon
<1> QED BY <1>3, <1>4

LEMMA NoneYetStep ==
    ASSUME Typed, NoneYet, [Next]_vars
    PROVE  NoneYet'
<1> SUFFICES ASSUME walk' = "list", NEW id \in 0 .. node_counter' - 1
             PROVE  metrics'[id].values = NoNode
    BY DEF NoneYet
<1>1. CASE StartList
    BY <1>1 DEF StartList, Start
<1>2. CASE ListStep /\ ~Full
  <2>1. /\ node_counter \in Ids
        /\ node_counter' = node_counter + 1
        /\ metrics' = Written(metrics, node_counter, Head(stack))
      BY <1>2, Visited
  <2>2. metrics \in [Ids -> Node]
      BY DEF Typed, TypeOK
  <2>3. CASE id = node_counter
      BY <2>1, <2>2, <2>3, WrittenPlaces
  <2>4. CASE id # node_counter
    <3>1. id \in 0 .. node_counter - 1
        BY <2>1, <2>4 DEF Ids
    <3>2. metrics'[id] = metrics[id]
        BY <2>1, <2>2, <3>1, WrittenPlaces
    <3>3. walk = "list"
        BY <1>2 DEF ListStep
    <3> QED BY <3>1, <3>2, <3>3 DEF NoneYet
  <2> QED BY <2>3, <2>4
<1>3. CASE ~StartList /\ ~(ListStep /\ ~Full)
  <2>1. walk' = walk /\ node_counter' = node_counter /\ metrics' = metrics
      BY <1>3 DEF Next, vars, StartCollect, Start, ListStep, ListEnd, CollectStep, CollectEnd,
          WalkError
  <2> QED BY <2>1 DEF NoneYet
<1> QED BY <1>1, <1>2, <1>3

LEMMA OwnStep ==
    ASSUME FollowInv, NoneYet, CollectedFromOwnNode, [Next]_vars
    PROVE  CollectedFromOwnNode'
<1> SUFFICES ASSUME listed', NEW id \in Shown'
             PROVE  metrics'[id].values \in {NoNode, metrics'[id].node}
    BY DEF CollectedFromOwnNode
<1>1. CASE ListEnd
  <2>1. metrics' = metrics /\ walk = "list" /\ id \in 0 .. node_counter - 1
      BY <1>1 DEF ListEnd, Shown
  <2> QED BY <2>1 DEF NoneYet
<1>2. CASE ~ListEnd
  <2>1. listed /\ count_of_metrics' = count_of_metrics /\ ~ListStep
      BY <1>2, Zenon DEF Next, vars, FollowInv, Order, StartList, StartCollect, Start, ListStep,
          CollectStep, CollectEnd, WalkError
  <2>2. id \in Shown /\ id \in Ids
      BY <2>1 DEF Shown, FollowInv, Typed, TypeOK, Ids
  <2>3. metrics[id].values \in {NoNode, metrics[id].node}
      BY <2>1, <2>2 DEF CollectedFromOwnNode
  <2>4. CASE CollectStep /\ ~Full /\ plan.instrumented /\ id = node_counter
    <3>1. /\ metrics'[node_counter].node = metrics[node_counter].node
          /\ metrics'[node_counter].values = metrics[node_counter].node
        BY <2>1, <2>4, CollectedValues
    <3> QED BY <2>4, <3>1
  <2>5. CASE ~(CollectStep /\ ~Full /\ plan.instrumented /\ id = node_counter)
    <3>1. metrics'[id] = metrics[id]
      <4>1. CASE CollectStep /\ ~Full
          BY <2>1, <2>2, <2>5, <4>1, CollectedValues
      <4>2. CASE ~(CollectStep /\ ~Full)
          BY <1>2, <2>1, <4>2 DEF Next, vars, StartList, StartCollect, Start, CollectStep,
              CollectEnd, WalkError
      <4> QED BY <4>1, <4>2
    <3> QED BY <2>3, <3>1
  <2> QED BY <2>4, <2>5
<1> QED BY <1>1, <1>2

LEMMA RefreshedStep ==
    ASSUME FollowInv, Refreshed, [Next]_vars
    PROVE  Refreshed'
<1> SUFFICES ASSUME listed', plan'.instrumented
             PROVE  /\ walk' = "collect" =>
                          \A id \in 0 .. node_counter' - 1 : metrics'[id].values = metrics'[id].node
                    /\ collected' =>
                          \A id \in Shown' : metrics'[id].values = metrics'[id].node
    BY DEF Refreshed
<1>1. plan' = plan /\ plan.instrumented
    BY PlanStays
<1>2. count_of_metrics \in 0 .. MaxNodes /\ node_counter \in 0 .. MaxNodes
    BY DEF FollowInv, Typed, TypeOK
<1>3. CASE ListEnd
  <2>1. walk' = "none" /\ ~collected'
      BY <1>3 DEF ListEnd, FollowInv, Order
  <2> QED BY <2>1
<1>4. CASE ~ListEnd
  <2>1. listed /\ count_of_metrics' = count_of_metrics /\ ~ListStep
      BY <1>4, Zenon DEF Next, vars, FollowInv, Order, StartList, StartCollect, Start, ListStep,
          CollectStep, CollectEnd, WalkError
  <2>2. Shown' = Shown /\ Shown \subseteq Ids
      BY <1>2, <2>1 DEF Shown, Ids
  <2>3. /\ walk = "collect" =>
              \A id \in 0 .. node_counter - 1 : metrics[id].values = metrics[id].node
        /\ collected => \A id \in Shown : metrics[id].values = metrics[id].node
      BY <1>1, <2>1 DEF Refreshed
  <2>4. CASE CollectStep /\ ~Full
    <3>1. walk = "collect" /\ collected' = collected
        BY <2>4 DEF CollectStep
    <3>2. node_counter \in Shown /\ node_counter' = node_counter + 1
        BY <2>1, <2>4, Collected
    <3>3. /\ \A id \in Ids \ {node_counter} : metrics'[id] = metrics[id]
          /\ metrics'[node_counter].node = metrics[node_counter].node
          /\ metrics'[node_counter].values = metrics[node_counter].node
        BY <1>1, <2>1, <2>4, CollectedValues
    <3>4. ASSUME NEW id \in 0 .. node_counter' - 1
          PROVE  metrics'[id].values = metrics'[id].node
      <4>1. id = node_counter \/ (id \in 0 .. node_counter - 1 /\ id \in Ids \ {node_counter})
          BY <1>2, <3>2 DEF Ids
      <4> QED BY <2>3, <3>1, <3>3, <4>1
    <3>5. ASSUME collected', NEW id \in Shown'
          PROVE  metrics'[id].values = metrics'[id].node
      <4>1. id = node_counter \/ id \in Ids \ {node_counter}
          BY <2>2
      <4>2. metrics[id].values = metrics[id].node
          BY <2>2, <2>3, <3>1, <3>5
      <4> QED BY <3>3, <4>1, <4>2
    <3> QED BY <3>4, <3>5
  <2>5. CASE CollectEnd
    <3>1. /\ walk = "collect" /\ stack = <<>> /\ metrics' = metrics /\ walk' = "none"
        BY <2>5 DEF CollectEnd
    <3>2. PICK H : /\ IsListing(Family, metrics, H, count_of_metrics)
                   /\ walk = "collect" => GoesAlong(H, count_of_metrics, stack, node_counter)
        BY <2>1 DEF FollowInv, IsFollowed
    <3>3. node_counter = count_of_metrics
        BY <1>2, <3>1, <3>2, GoesToTheEnd
    <3>4. \A id \in Shown : metrics[id].values = metrics[id].node
        BY <2>3, <3>1, <3>3 DEF Shown
    <3> QED BY <2>2, <3>1, <3>4
  <2>6. CASE ~(CollectStep /\ ~Full) /\ ~CollectEnd
    <3>1. metrics' = metrics /\ collected' = collected
        BY <1>4, <2>1, <2>6 DEF Next, vars, StartList, StartCollect, Start, CollectStep, WalkError
    <3>2. walk' = "collect" =>
              node_counter' = 0 \/ (walk = "collect" /\ node_counter' = node_counter)
        BY <1>4, <2>1, <2>6 DEF Next, vars, StartList, StartCollect, Start, CollectStep, WalkError
    <3> QED BY <1>2, <2>2, <2>3, <3>1, <3>2
  <2> QED BY <2>4, <2>5, <2>6
<1> QED BY <1>3, <1>4

(* A place that is shown was written for a node of the plan.               *)
LEMMA ShownIsNode ==
    ASSUME FollowInv, listed, NEW id \in Shown
    PROVE  metrics[id].node \in PlanNodes
<1>1. PICK H : IsListing(Family, metrics, H, count_of_metrics)
    BY DEF FollowInv, IsFollowed
<1>2. id \in 0 .. count_of_metrics - 1 /\ id \in 0 .. count_of_metrics
    BY DEF Shown, FollowInv, Typed, TypeOK
<1>3. H[id] \in Seq(Call) /\ H[id] # <<>> /\ metrics[id].node = Head(H[id])[1]
    BY <1>1, <1>2 DEF IsListing, Trail, Recorded
<1>4. Head(H[id]) \in Call
    BY <1>3, HeadTailProperties
<1> QED BY <1>3, <1>4 DEF Call

CollectInv == FollowInv /\ NoneYet /\ CollectedFromOwnNode /\ Refreshed

LEMMA CollectInvHolds ==
    Spec => []CollectInv
<1>1. Init => NoneYet /\ CollectedFromOwnNode /\ Refreshed
    BY DEF Init, NoneYet, CollectedFromOwnNode, Refreshed
<1>2. FollowInv => Typed
    BY DEF FollowInv
<1>3. FollowInv /\ NoneYet /\ CollectedFromOwnNode /\ Refreshed /\ [Next]_vars
          => NoneYet' /\ CollectedFromOwnNode' /\ Refreshed'
    BY <1>2, NoneYetStep, OwnStep, RefreshedStep
<1> QED BY <1>1, <1>3, FollowInvHolds, PTL DEF Spec, CollectInv

(* "Must match the same traversal order as topology walk": the numbers at  *)
(* a place were read from the node that was listed there, whatever the     *)
(* plan, however often it is walked and wherever a walk is cut short.      *)
THEOREM CollectedFromOwnNodeHolds ==
    Spec => []CollectedFromOwnNode
<1>1. CollectInv => CollectedFromOwnNode
    BY DEF CollectInv
<1> QED BY <1>1, CollectInvHolds, PTL

(* A collecting walk that runs to its end has refreshed every place shown, *)
(* whatever the plan and the number of places.                             *)
THEOREM CollectReachesAllHolds ==
    Spec => []CollectReachesAll
<1>1. CollectInv => CollectReachesAll
  <2> SUFFICES ASSUME CollectInv, listed, collected, plan.instrumented, NEW id \in Shown
               PROVE  metrics[id].values # NoNode
      BY DEF CollectReachesAll
  <2>1. metrics[id].values = metrics[id].node
      BY DEF CollectInv, Refreshed
  <2>2. metrics[id].node \in PlanNodes
      BY ShownIsNode DEF CollectInv
  <2> QED BY <2>1, <2>2
<1> QED BY <1>1, CollectInvHolds, PTL
===============================================================================
