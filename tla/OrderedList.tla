----------------------------- MODULE OrderedList -----------------------------
(***************************************************************************)
(* OrderedList of propertymodel.h: an array of node pointers that doubles  *)
(* when it is full, and is kept in the alphabetical order of the labels    *)
(* by inserting each node at the place find_insertion_index_by_label       *)
(* returns.  Elements are moved up or down by hand.                        *)
(***************************************************************************)
EXTENDS Integers

CONSTANT Vacant    \* what an unused slot of the array holds

\* The order of strcmp is given by a function from nodes to numbers: a smaller
\* number stands for a label that comes earlier, the same for the same label.

\* OrderedList::OrderedList
EmptyList == [nodes |-> [i \in {0} |-> Vacant], count |-> 0, max |-> 1]

Filled(list) == 0 .. list.count - 1

\* What operator[] and nodes[] reach below count.
Elements(list) == {list.nodes[i] : i \in Filled(list)}

\* The first index in 0 .. n - 1 that is in S, or n.
FirstIn(S, n) ==
    IF S = {} THEN n ELSE CHOOSE i \in S : \A j \in S : i <= j

\* find_by_name_with_index; names identify the nodes of a list.
IndexOf(list, node) ==
    IF node \in Elements(list)
    THEN FirstIn({i \in Filled(list) : list.nodes[i] = node}, list.count)
    ELSE -1

FindInsertionIndexByLabel(list, label, node) ==
    FirstIn({i \in Filled(list) : label[list.nodes[i]] > label[node]}, list.count)

\* Twice the size when the array is full.
Capacity(list) == IF list.count + 1 > list.max THEN 2 * list.max ELSE list.max

\* Mutation: the last element is not moved.
InsertAtOverLast(list, index, node) ==
    [nodes |-> [i \in 0 .. Capacity(list) - 1 |->
                  CASE i = index -> node
                    [] i > index /\ i < list.count -> list.nodes[i - 1]
                    [] OTHER -> IF i < list.max THEN list.nodes[i] ELSE Vacant],
     count |-> list.count + 1,
     max |-> Capacity(list)]

InsertAt(list, index, node) ==
    [nodes |-> [i \in 0 .. Capacity(list) - 1 |->
                  CASE i = index -> node
                    [] i > index /\ i <= list.count -> list.nodes[i - 1]
                    [] OTHER -> IF i < list.max THEN list.nodes[i] ELSE Vacant],
     count |-> list.count + 1,
     max |-> Capacity(list)]

\* Mutation: the last element is not moved down.
TakeAtShort(list, index) ==
    [nodes |-> [i \in 0 .. list.max - 1 |->
                  CASE i >= index /\ i < list.count - 2 -> list.nodes[i + 1]
                    [] i = list.count - 1 -> Vacant
                    [] OTHER -> list.nodes[i]],
     count |-> list.count - 1,
     max |-> list.max]

TakeAt(list, index) ==
    [nodes |-> [i \in 0 .. list.max - 1 |->
                  CASE i >= index /\ i < list.count - 1 -> list.nodes[i + 1]
                    [] i = list.count - 1 -> Vacant
                    [] OTHER -> list.nodes[i]],
     count |-> list.count - 1,
     max |-> list.max]

\* Find or create: a node that is not listed is inserted in the order of label.
Ensure(list, label, node) ==
    IF IndexOf(list, node) # -1 THEN list
    ELSE InsertAt(list, FindInsertionIndexByLabel(list, label, node), node)

\* Find and take out.
Without(list, node) ==
    IF IndexOf(list, node) = -1 THEN list ELSE TakeAt(list, IndexOf(list, node))
-----------------------------------------------------------------------------
\* The lists of nodes of S: within the array, and no node twice.
ListOf(S, list) ==
    /\ list = [nodes |-> list.nodes, count |-> list.count, max |-> list.max]
    /\ list.max \in Nat /\ list.count \in 0 .. list.max
    /\ list.max >= 1
    /\ list.nodes \in [0 .. list.max - 1 -> S \cup {Vacant}]
    /\ \A i \in Filled(list) : list.nodes[i] \in S

Distinct(list) ==
    \A i, j \in Filled(list) : list.nodes[i] = list.nodes[j] => i = j

Sorted(list, label) ==
    \A i, j \in Filled(list) :
        i < j => label[list.nodes[i]] <= label[list.nodes[j]]
=============================================================================
