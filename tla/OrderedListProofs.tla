-------------------------- MODULE OrderedListProofs --------------------------
(***************************************************************************)
(* What the operations of an OrderedList do to it, for every set of nodes, *)
(* every order of labels and every length: they keep the list within its   *)
(* array, without repetition and in order, and add or take just one node.  *)
(***************************************************************************)
EXTENDS OrderedList, WellFoundedInduction, TLAPS

(* The index that a search loop ends with: the first that fits, or the end. *)
LEMMA FirstInFits ==
    ASSUME NEW n \in Nat, NEW S \in SUBSET (0 .. n - 1)
    PROVE  /\ FirstIn(S, n) \in 0 .. n
           /\ S # {} => FirstIn(S, n) \in S
           /\ \A j \in S : FirstIn(S, n) <= j
           /\ \A j \in 0 .. n - 1 : j < FirstIn(S, n) => j \notin S
<1>1. CASE S = {}
  BY <1>1 DEF FirstIn
<1>2. CASE S # {}
  <2>1. \E i \in S : \A j \in S : ~ (<<j, i>> \in OpToRel(<, Nat))
    <3>1. S \subseteq Nat
      OBVIOUS
    <3>. QED  BY <3>1, <1>2, NatLessThanWellFounded, WFMin
  <2>2. \E i \in S : \A j \in S : i <= j
    <3>1. PICK i \in S : \A j \in S : ~ (<<j, i>> \in OpToRel(<, Nat))
      BY <2>1
    <3>2. \A j \in S : ~ (j < i)
      <4>1. SUFFICES ASSUME NEW j \in S, j < i PROVE FALSE
        OBVIOUS
      <4>2. <<j, i>> \in OpToRel(<, Nat)
        BY <4>1 DEF OpToRel
      <4>. QED  BY <3>1, <4>2
    <3>. QED  BY <3>2
  <2>3. FirstIn(S, n) \in S /\ \A j \in S : FirstIn(S, n) <= j
    BY <1>2, <2>2 DEF FirstIn
  <2>4. FirstIn(S, n) \in 0 .. n
    <3>1. FirstIn(S, n) \in 0 .. n - 1
      BY <2>3
    <3>. QED  BY <3>1
  <2>5. \A j \in S : j \in Int
    OBVIOUS
  <2>. QED  BY <2>3, <2>4, <2>5
<1>. QED  BY <1>1, <1>2

(* A list as the constructor makes it. *)
LEMMA EmptyListFits ==
    ASSUME NEW S
    PROVE  /\ ListOf(S, EmptyList) /\ Distinct(EmptyList)
           /\ \A label : Sorted(EmptyList, label)
           /\ Elements(EmptyList) = {}
           /\ EmptyList.count = 0
BY DEF ListOf, EmptyList, Distinct, Sorted, Elements, Filled

(* A list is empty when it lists nothing. *)
LEMMA EmptyMeansNothing ==
    ASSUME NEW S, NEW list, ListOf(S, list)
    PROVE  /\ list.count = 0 <=> Elements(list) = {}
           /\ Elements(list) \subseteq S
<1>1. list.count \in Nat
  BY DEF ListOf
<1>2. list.count # 0 => 0 \in Filled(list)
  BY <1>1 DEF Filled
<1>3. list.count = 0 => Filled(list) = {}
  BY DEF Filled
<1>4. list.count = 0 <=> Elements(list) = {}
  BY <1>2, <1>3 DEF Elements
<1>5. Elements(list) \subseteq S
  BY DEF Elements, ListOf
<1>. QED  BY <1>4, <1>5

(* A search by name finds the index of a listed node, and -1 otherwise. *)
LEMMA IndexOfFinds ==
    ASSUME NEW S, NEW list, ListOf(S, list), NEW node
    PROVE  /\ IndexOf(list, node) # -1 <=> node \in Elements(list)
           /\ node \in Elements(list) =>
                /\ IndexOf(list, node) \in Filled(list)
                /\ list.nodes[IndexOf(list, node)] = node
<1>. DEFINE T == {i \in Filled(list) : list.nodes[i] = node}
<1>1. list.count \in Nat /\ T \in SUBSET (0 .. list.count - 1)
  BY DEF ListOf, Filled
<1>2. T # {} => FirstIn(T, list.count) \in T
  BY <1>1, FirstInFits
<1>3. node \in Elements(list) => T # {}
  BY DEF Elements
<1>. QED  BY <1>1, <1>2, <1>3 DEF IndexOf, Filled

(* take_at of a listed index keeps the order and loses just that node. *)
LEMMA TakeAtKeeps ==
    ASSUME NEW S, Vacant \notin S, NEW list, ListOf(S, list), Distinct(list),
           NEW label, \A x \in S : label[x] \in Nat, Sorted(list, label),
           NEW index \in Filled(list)
    PROVE  /\ ListOf(S, TakeAt(list, index))
           /\ Distinct(TakeAt(list, index))
           /\ Sorted(TakeAt(list, index), label)
           /\ Elements(TakeAt(list, index)) = Elements(list) \ {list.nodes[index]}
<1>. DEFINE out == TakeAt(list, index)
            from(i) == IF i < index THEN i ELSE i + 1
<1>1. /\ list.count \in Nat /\ list.max \in Nat /\ list.count <= list.max
      /\ list.count >= 1 /\ index \in 0 .. list.count - 1
      /\ list.nodes \in [0 .. list.max - 1 -> S \cup {Vacant}]
      /\ \A i \in 0 .. list.count - 1 : list.nodes[i] \in S
  BY DEF ListOf, Filled
<1>2. out.nodes = [i \in 0 .. list.max - 1 |->
                      CASE i >= index /\ i < list.count - 1 -> list.nodes[i + 1]
                        [] i = list.count - 1 -> Vacant
                        [] OTHER -> list.nodes[i]]
  BY DEF TakeAt
<1>3. /\ out.count = list.count - 1 /\ out.max = list.max
      /\ out = [nodes |-> out.nodes, count |-> out.count, max |-> out.max]
  BY DEF TakeAt
<1>4. ASSUME NEW i \in Filled(out)
      PROVE  from(i) \in Filled(list) /\ out.nodes[i] = list.nodes[from(i)]
  <2>1. i \in 0 .. list.count - 2
    BY <1>1, <1>3 DEF Filled
  <2>2. from(i) \in Filled(list)
    BY <2>1, <1>1 DEF Filled
  <2>3. out.nodes[i] = list.nodes[from(i)]
    BY <2>1, <1>1, <1>2
  <2>. QED  BY <2>2, <2>3
<1>5. ListOf(S, out)
  <2>1. out.nodes \in [0 .. list.max - 1 -> S \cup {Vacant}]
    <3>1. \A i \in 0 .. list.max - 1 : out.nodes[i] \in S \cup {Vacant}
      BY <1>1, <1>2
    <3>. QED  BY <1>2, <3>1
  <2>2. \A i \in Filled(out) : out.nodes[i] \in S
    BY <1>1, <1>4 DEF Filled
  <2>. QED  BY <1>1, <1>3, <2>1, <2>2 DEF ListOf
<1>6. Distinct(out)
  <2>. SUFFICES ASSUME NEW i \in Filled(out), NEW j \in Filled(out),
                       out.nodes[i] = out.nodes[j]
                PROVE  i = j
    BY DEF Distinct
  <2>1. from(i) = from(j)
    BY <1>4 DEF Distinct
  <2>. QED  BY <2>1, <1>1, <1>3 DEF Filled
<1>7. Sorted(out, label)
  <2>. SUFFICES ASSUME NEW i \in Filled(out), NEW j \in Filled(out), i < j
                PROVE  label[out.nodes[i]] <= label[out.nodes[j]]
    BY DEF Sorted
  <2>1. from(i) < from(j)
    BY <1>1, <1>3 DEF Filled
  <2>. QED  BY <1>4, <2>1 DEF Sorted
<1>8. Elements(out) = Elements(list) \ {list.nodes[index]}
  <2>1. ASSUME NEW i \in Filled(out)
        PROVE  out.nodes[i] \in Elements(list) \ {list.nodes[index]}
    <3>1. from(i) # index
      BY <1>1, <1>3 DEF Filled
    <3>2. list.nodes[from(i)] # list.nodes[index]
      BY <3>1, <1>4 DEF Distinct
    <3>. QED  BY <1>4, <3>2 DEF Elements
  <2>2. ASSUME NEW k \in Filled(list), list.nodes[k] # list.nodes[index]
        PROVE  list.nodes[k] \in Elements(out)
    <3>1. k # index
      BY <2>2
    <3>2. PICK i \in Filled(out) : from(i) = k
      <4>1. CASE k < index
        BY <4>1, <1>1, <1>3 DEF Filled
      <4>2. CASE k > index
        <5>1. k - 1 \in Filled(out) /\ from(k - 1) = k
          BY <4>2, <1>1, <1>3 DEF Filled
        <5>. QED  BY <5>1
      <4>. QED  BY <4>1, <4>2, <3>1, <1>1 DEF Filled
    <3>. QED  BY <3>2, <1>4 DEF Elements
  <2>. QED  BY <2>1, <2>2 DEF Elements
<1>. QED  BY <1>5, <1>6, <1>7, <1>8

(* insert_at, between labels that are not larger and labels that are not      *)
(* smaller, keeps the order and adds just the node; a full array grows first. *)
LEMMA InsertAtKeeps ==
    ASSUME NEW S, Vacant \notin S, NEW list, ListOf(S, list), Distinct(list),
           NEW label, \A x \in S : label[x] \in Nat, Sorted(list, label),
           NEW node \in S, node \notin Elements(list),
           NEW index \in 0 .. list.count,
           \A i \in Filled(list) : i < index => label[list.nodes[i]] <= label[node],
           \A i \in Filled(list) : i >= index => label[list.nodes[i]] >= label[node]
    PROVE  /\ ListOf(S, InsertAt(list, index, node))
           /\ Distinct(InsertAt(list, index, node))
           /\ Sorted(InsertAt(list, index, node), label)
           /\ Elements(InsertAt(list, index, node)) = Elements(list) \cup {node}
<1>. DEFINE out == InsertAt(list, index, node)
            from(i) == IF i < index THEN i ELSE i - 1
<1>1. /\ list.count \in Nat /\ list.max \in Nat /\ list.count <= list.max
      /\ list.max >= 1
      /\ list.nodes \in [0 .. list.max - 1 -> S \cup {Vacant}]
      /\ \A i \in 0 .. list.count - 1 : list.nodes[i] \in S
  BY DEF ListOf, Filled
<1>2. /\ Capacity(list) \in Nat /\ Capacity(list) >= list.max
      /\ Capacity(list) >= list.count + 1
  BY <1>1 DEF Capacity
<1>3. /\ out.count = list.count + 1 /\ out.max = Capacity(list)
      /\ out = [nodes |-> out.nodes, count |-> out.count, max |-> out.max]
      /\ DOMAIN out.nodes = 0 .. Capacity(list) - 1
  BY DEF InsertAt
<1>4. /\ index \in Filled(out) /\ out.nodes[index] = node
      /\ \A i \in Filled(out) : i # index =>
           from(i) \in Filled(list) /\ out.nodes[i] = list.nodes[from(i)]
  <2>1. index \in Filled(out) /\ out.nodes[index] = node
    BY <1>1, <1>2, <1>3 DEF InsertAt, Filled
  <2>2. ASSUME NEW i \in Filled(out), i # index
        PROVE  from(i) \in Filled(list) /\ out.nodes[i] = list.nodes[from(i)]
    BY SMTT(60), <1>1, <1>2, <1>3, <2>2 DEF InsertAt, Filled
  <2>. QED  BY <2>1, <2>2
<1>5. ListOf(S, out)
  <2>1. out.nodes \in [0 .. Capacity(list) - 1 -> S \cup {Vacant}]
    <3>1. ASSUME NEW i \in 0 .. Capacity(list) - 1
          PROVE  out.nodes[i] \in S \cup {Vacant}
      <4>1. CASE i = index
        BY <4>1, <1>1, <1>2 DEF InsertAt
      <4>2. CASE i > index /\ i <= list.count
        <5>1. out.nodes[i] = list.nodes[i - 1]
          BY <4>2, <1>1, <1>2 DEF InsertAt
        <5>2. i - 1 \in 0 .. list.max - 1
          BY <4>2, <1>1, <1>2
        <5>. QED  BY <5>1, <5>2, <1>1
      <4>3. CASE ~ (i = index) /\ ~ (i > index /\ i <= list.count)
        <5>1. out.nodes[i] = IF i < list.max THEN list.nodes[i] ELSE Vacant
          BY <4>3, <1>1, <1>2 DEF InsertAt
        <5>2. i < list.max => i \in 0 .. list.max - 1
          BY <1>1, <1>2
        <5>. QED  BY <5>1, <5>2, <1>1
      <4>. QED  BY <4>1, <4>2, <4>3
    <3>. QED  BY <3>1 DEF InsertAt
  <2>2. \A i \in Filled(out) : out.nodes[i] \in S
    BY <1>1, <1>4 DEF Filled
  <2>. QED  BY <1>1, <1>2, <1>3, <2>1, <2>2 DEF ListOf
<1>6. ASSUME NEW i \in Filled(out), i # index
      PROVE  out.nodes[i] \in Elements(list) /\ out.nodes[i] # node
  BY <1>4, <1>6 DEF Elements
<1>7. Distinct(out)
  <2>. SUFFICES ASSUME NEW i \in Filled(out), NEW j \in Filled(out),
                       out.nodes[i] = out.nodes[j], i # j
                PROVE  FALSE
    BY DEF Distinct
  <2>1. i # index /\ j # index
    BY <1>4, <1>6
  <2>2. from(i) = from(j)
    BY <1>4, <2>1 DEF Distinct
  <2>. QED  BY <2>1, <2>2, <1>1, <1>3 DEF Filled
<1>8. Sorted(out, label)
  <2>. SUFFICES ASSUME NEW i \in Filled(out), NEW j \in Filled(out), i < j
                PROVE  label[out.nodes[i]] <= label[out.nodes[j]]
    BY DEF Sorted
  <2>1. CASE i = index
    <3>1. j # index /\ from(j) \in Filled(list) /\ from(j) >= index
      BY <2>1, <1>1, <1>3, <1>4 DEF Filled
    <3>. QED  BY <3>1, <2>1, <1>4
  <2>2. CASE j = index
    <3>1. i # index /\ from(i) \in Filled(list) /\ from(i) < index
      BY <2>2, <1>1, <1>3, <1>4 DEF Filled
    <3>. QED  BY <3>1, <2>2, <1>4
  <2>3. CASE i # index /\ j # index
    <3>1. from(i) < from(j)
      BY <2>3, <1>1, <1>3 DEF Filled
    <3>. QED  BY <3>1, <2>3, <1>4 DEF Sorted
  <2>. QED  BY <2>1, <2>2, <2>3
<1>9. Elements(out) = Elements(list) \cup {node}
  <2>1. Elements(out) \subseteq Elements(list) \cup {node}
    BY <1>4, <1>6 DEF Elements
  <2>2. node \in Elements(out)
    BY <1>4 DEF Elements
  <2>3. ASSUME NEW k \in Filled(list) PROVE list.nodes[k] \in Elements(out)
    <3>1. PICK i \in Filled(out) : i # index /\ from(i) = k
      <4>1. CASE k < index
        BY <4>1, <1>1, <1>3 DEF Filled
      <4>2. CASE k >= index
        <5>1. k + 1 \in Filled(out) /\ k + 1 # index /\ from(k + 1) = k
          BY <4>2, <1>1, <1>3 DEF Filled
        <5>. QED  BY <5>1
      <4>. QED  BY <4>1, <4>2, <1>1 DEF Filled
    <3>. QED  BY <3>1, <1>4 DEF Elements
  <2>. QED  BY <2>1, <2>2, <2>3 DEF Elements
<1>. QED  BY <1>5, <1>7, <1>8, <1>9

(* What a level of the tree keeps: a list of nodes, each once, in order. *)
OrderedListOf(S, list, label) ==
    ListOf(S, list) /\ Distinct(list) /\ Sorted(list, label)

(* "Insert ... in alphabetical order" (propertymodel.cpp:153, 168, 184): find *)
(* or create keeps a list in order and adds at most the node.                 *)
THEOREM EnsureKeepsOrder ==
    ASSUME NEW S, Vacant \notin S, NEW label, \A x \in S : label[x] \in Nat,
           NEW list, OrderedListOf(S, list, label), NEW node \in S
    PROVE  /\ OrderedListOf(S, Ensure(list, label, node), label)
           /\ Elements(Ensure(list, label, node)) = Elements(list) \cup {node}
<1>1. IndexOf(list, node) # -1 <=> node \in Elements(list)
  BY IndexOfFinds DEF OrderedListOf
<1>2. CASE node \in Elements(list)
  BY <1>1, <1>2 DEF Ensure
<1>3. CASE node \notin Elements(list)
  <2>. DEFINE T == {i \in Filled(list) : label[list.nodes[i]] > label[node]}
              index == FirstIn(T, list.count)
  <2>1. list.count \in Nat /\ T \in SUBSET (0 .. list.count - 1)
    BY DEF OrderedListOf, ListOf, Filled
  <2>2. /\ index \in 0 .. list.count
        /\ T # {} => index \in T
        /\ \A j \in T : index <= j
        /\ \A j \in 0 .. list.count - 1 : j < index => j \notin T
    BY <2>1, FirstInFits
  <2>3. \A i \in Filled(list) : label[list.nodes[i]] \in Nat /\ label[node] \in Nat
    BY DEF OrderedListOf, ListOf
  <2>4. \A i \in Filled(list) : i < index => label[list.nodes[i]] <= label[node]
    BY <2>2, <2>3 DEF Filled
  <2>5. \A i \in Filled(list) : i >= index => label[list.nodes[i]] >= label[node]
    <3>. SUFFICES ASSUME NEW i \in Filled(list), i >= index
                  PROVE  label[list.nodes[i]] >= label[node]
      OBVIOUS
    <3>1. T # {}
      BY <2>1, <2>2 DEF FirstIn, Filled
    <3>2. index \in Filled(list) /\ label[list.nodes[index]] > label[node]
      BY <3>1, <2>2
    <3>3. index = i \/ label[list.nodes[index]] <= label[list.nodes[i]]
      <4>1. index = i \/ index < i
        BY <2>1, <3>2 DEF Filled
      <4>. QED  BY <4>1, <3>2 DEF OrderedListOf, Sorted
    <3>4. /\ label[list.nodes[i]] \in Nat /\ label[list.nodes[index]] \in Nat
          /\ label[node] \in Nat
      BY <3>2, <2>3
    <3>. QED  BY <3>2, <3>3, <3>4
  <2>6. Ensure(list, label, node) = InsertAt(list, index, node)
    BY <1>1, <1>3 DEF Ensure, FindInsertionIndexByLabel
  <2>7. index \in 0 .. list.count
    BY <2>2
  <2>. HIDE DEF index, T
  <2>. QED  BY <1>3, <2>4, <2>5, <2>6, <2>7, InsertAtKeeps DEF OrderedListOf
<1>. QED  BY <1>2, <1>3

(* The removal of a node keeps a list in order and takes just that node.      *)
THEOREM WithoutKeepsOrder ==
    ASSUME NEW S, Vacant \notin S, NEW label, \A x \in S : label[x] \in Nat,
           NEW list, OrderedListOf(S, list, label), NEW node
    PROVE  /\ OrderedListOf(S, Without(list, node), label)
           /\ Elements(Without(list, node)) = Elements(list) \ {node}
<1>1. /\ IndexOf(list, node) # -1 <=> node \in Elements(list)
      /\ node \in Elements(list) =>
           /\ IndexOf(list, node) \in Filled(list)
           /\ list.nodes[IndexOf(list, node)] = node
  BY IndexOfFinds DEF OrderedListOf
<1>2. CASE node \notin Elements(list)
  BY <1>1, <1>2 DEF Without
<1>3. CASE node \in Elements(list)
  <2>1. Without(list, node) = TakeAt(list, IndexOf(list, node))
    BY <1>1, <1>3 DEF Without
  <2>. QED  BY <1>1, <1>3, <2>1, TakeAtKeeps DEF OrderedListOf
<1>. QED  BY <1>2, <1>3
=============================================================================
