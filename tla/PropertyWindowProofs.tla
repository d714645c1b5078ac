------------------------ MODULE PropertyWindowProofs ------------------------
(***************************************************************************)
(* Theorems about PropertyWindow, for any properties, names and labels.    *)
(* The tree keeps its shape whatever is defined and deleted (TreeInv); the *)
(* window keeps in step with it (WindowInv).                               *)
(***************************************************************************)
EXTENDS PropertyWindow, OrderedListProofs

(* Every list of the tree is in order, names exactly the nodes of the tree *)
(* below it, and devices have the state of their connection.               *)
ListsInv ==
    /\ OrderedListOf(Devices, root, NameOrder)
    /\ DOMAIN groupsOf = Devices
    /\ \A d \in Devices : OrderedListOf(Groups, groupsOf[d], NameOrder)
    /\ DOMAIN propsOf = Places
    /\ \A p \in Places : OrderedListOf(Vectors, propsOf[p], LabelOrder)

NodesInv ==
    /\ DOMAIN tree \subseteq Vectors
    /\ tree \in [DOMAIN tree -> Contents]
    /\ \A p \in Places : Elements(propsOf[p]) = DOMAIN tree \cap At(p[1], p[2])
    /\ NoEmptyNodes

StateInv ==
    /\ deviceState \in [Devices -> {"idle", "ok"}]
    /\ DeviceFollowsConnection

TreeInv == ListsInv /\ NodesInv /\ StateInv

(* The orders and the vacant slot are as the lemmas on lists need them.    *)
LEMMA OrdersFit ==
    /\ Vacant \notin Devices /\ Vacant \notin Groups /\ Vacant \notin Vectors
    /\ \A x \in Devices : NameOrder[x] \in Nat
    /\ \A x \in Groups : NameOrder[x] \in Nat
    /\ \A x \in Vectors : LabelOrder[x] \in Nat
BY WindowAssumption

(* Where a property belongs.                                               *)
LEMMA VectorPlace ==
    ASSUME NEW v \in Vectors
    PROVE  /\ v.device \in Devices /\ v.group \in Groups /\ PlaceOf(v) \in Places
           /\ v \in At(v.device, v.group) /\ v \in Of(v.device)
           /\ PlaceOf(v)[1] = v.device /\ PlaceOf(v)[2] = v.group
           /\ NoName # v.device /\ NoName # v.group /\ NoName # v.name
BY WindowAssumption DEF Devices, Groups, Places, PlaceOf, At, Of

LEMMA PlaceParts ==
    ASSUME NEW p \in Places
    PROVE  /\ p = <<p[1], p[2]>> /\ p[1] \in Devices /\ p[2] \in Groups
           /\ NoName # p[1] /\ NoName # p[2]
<1>1. PICK v \in Vectors : p = <<v.device, v.group>>
  BY DEF Places
<1>. QED  BY <1>1, VectorPlace

(* A property is defined: nodes are found or created on each level.        *)
LEMMA InsertKeepsLists ==
    ASSUME ListsInv, NEW v \in Vectors, NEW x, Insert(v, x)
    PROVE  /\ ListsInv'
           /\ Elements(root') = Elements(root) \cup {v.device}
           /\ \A d \in Devices : Elements(groupsOf'[d]) =
                Elements(groupsOf[d]) \cup (IF d = v.device THEN {v.group} ELSE {})
           /\ \A p \in Places : Elements(propsOf'[p]) =
                Elements(propsOf[p]) \cup (IF p = PlaceOf(v) THEN {v} ELSE {})
<1>. USE OrdersFit, VectorPlace
<1>1. /\ OrderedListOf(Devices, root', NameOrder)
      /\ Elements(root') = Elements(root) \cup {v.device}
  BY EnsureKeepsOrder DEF ListsInv, Insert
<1>2. /\ DOMAIN groupsOf' = Devices /\ DOMAIN propsOf' = Places
      /\ \A d \in Devices : groupsOf'[d] = IF d = v.device
            THEN Ensure(groupsOf[d], NameOrder, v.group) ELSE groupsOf[d]
      /\ \A p \in Places : propsOf'[p] = IF p = PlaceOf(v)
            THEN Ensure(propsOf[p], LabelOrder, v) ELSE propsOf[p]
  BY DEF ListsInv, Insert
<1>3. ASSUME NEW d \in Devices
      PROVE  /\ OrderedListOf(Groups, groupsOf'[d], NameOrder)
             /\ Elements(groupsOf'[d]) =
                  Elements(groupsOf[d]) \cup (IF d = v.device THEN {v.group} ELSE {})
  <2>1. OrderedListOf(Groups, groupsOf[d], NameOrder)
    BY DEF ListsInv
  <2>2. /\ OrderedListOf(Groups, Ensure(groupsOf[d], NameOrder, v.group), NameOrder)
        /\ Elements(Ensure(groupsOf[d], NameOrder, v.group)) =
             Elements(groupsOf[d]) \cup {v.group}
    BY <2>1, EnsureKeepsOrder
  <2>. QED  BY <1>2, <2>1, <2>2
<1>4. ASSUME NEW p \in Places
      PROVE  /\ OrderedListOf(Vectors, propsOf'[p], LabelOrder)
             /\ Elements(propsOf'[p]) =
                  Elements(propsOf[p]) \cup (IF p = PlaceOf(v) THEN {v} ELSE {})
  <2>1. OrderedListOf(Vectors, propsOf[p], LabelOrder)
    BY DEF ListsInv
  <2>2. /\ OrderedListOf(Vectors, Ensure(propsOf[p], LabelOrder, v), LabelOrder)
        /\ Elements(Ensure(propsOf[p], LabelOrder, v)) = Elements(propsOf[p]) \cup {v}
    BY <2>1, EnsureKeepsOrder
  <2>. QED  BY <1>2, <2>1, <2>2
<1>. QED  BY <1>1, <1>2, <1>3, <1>4 DEF ListsInv

LEMMA InsertKeepsNodes ==
    ASSUME TreeInv, NEW v \in Vectors, NEW x \in Contents, Insert(v, x)
    PROVE  /\ NodesInv' /\ DOMAIN tree' = DOMAIN tree \cup {v}
           /\ tree'[v] = x
           /\ \A w \in DOMAIN tree : w # v => tree'[w] = tree[w]
<1>. USE VectorPlace
<1>1. /\ Elements(root') = Elements(root) \cup {v.device}
      /\ \A d \in Devices : Elements(groupsOf'[d]) =
           Elements(groupsOf[d]) \cup (IF d = v.device THEN {v.group} ELSE {})
      /\ \A p \in Places : Elements(propsOf'[p]) =
           Elements(propsOf[p]) \cup (IF p = PlaceOf(v) THEN {v} ELSE {})
  BY InsertKeepsLists DEF TreeInv
<1>2. /\ DOMAIN tree' = DOMAIN tree \cup {v}
      /\ tree' \in [DOMAIN tree' -> Contents]
      /\ tree'[v] = x
      /\ \A w \in DOMAIN tree : w # v => tree'[w] = tree[w]
  BY DEF Insert, TreeInv, NodesInv
<1>3. DOMAIN tree' \subseteq Vectors
  BY <1>2 DEF TreeInv, NodesInv
<1>4. \A p \in Places : Elements(propsOf'[p]) = DOMAIN tree' \cap At(p[1], p[2])
  <2>. SUFFICES ASSUME NEW p \in Places
                PROVE  Elements(propsOf'[p]) = DOMAIN tree' \cap At(p[1], p[2])
    OBVIOUS
  <2>1. v \in At(p[1], p[2]) <=> p = PlaceOf(v)
    BY PlaceParts DEF At, PlaceOf
  <2>. QED  BY <1>1, <1>2, <2>1 DEF TreeInv, NodesInv
<1>5. \A d \in Devices : Elements(groupsOf'[d]) = {w.group : w \in DOMAIN tree' \cap Of(d)}
  <2>. SUFFICES ASSUME NEW d \in Devices
                PROVE  Elements(groupsOf'[d]) = {w.group : w \in DOMAIN tree' \cap Of(d)}
    OBVIOUS
  <2>1. v \in Of(d) <=> d = v.device
    BY DEF Of
  <2>2. Elements(groupsOf[d]) = {w.group : w \in DOMAIN tree \cap Of(d)}
    BY DEF TreeInv, NodesInv, NoEmptyNodes
  <2>. QED  BY <1>1, <1>2, <2>1, <2>2
<1>6. {w.device : w \in DOMAIN tree'} \subseteq devices'
  BY <1>1, <1>2 DEF TreeInv, NodesInv, NoEmptyNodes, devices
<1>. QED  BY <1>2, <1>3, <1>4, <1>5, <1>6 DEF NodesInv, NoEmptyNodes

(* A device that is made anew has no other property yet, so that setting    *)
(* its state disturbs nothing.                                             *)
LEMMA DefineKeepsTree ==
    ASSUME TreeInv, NEW v \in Vectors, NEW x \in Contents,
           Insert(v, x), DefineConnection(v, x)
    PROVE  TreeInv'
<1>. USE VectorPlace
<1>1. ListsInv' /\ NodesInv'
  BY InsertKeepsLists, InsertKeepsNodes DEF TreeInv
<1>2. IndexOf(root, v.device) = -1 => v.device \notin {w.device : w \in DOMAIN tree}
  <2>1. IndexOf(root, v.device) # -1 <=> v.device \in Elements(root)
    BY IndexOfFinds DEF TreeInv, ListsInv, OrderedListOf
  <2>. QED  BY <2>1 DEF TreeInv, NodesInv, NoEmptyNodes, devices
<1>3. deviceState' \in [Devices -> {"idle", "ok"}]
  BY DEF DefineConnection, CopyConnection, IdleIfNew, TreeInv, StateInv
<1>4. DeviceFollowsConnection'
  <2>. SUFFICES ASSUME NEW w \in DOMAIN tree', w.name = Connection
                PROVE  deviceState'[w.device] = IF tree'[w] \in Connected THEN "ok" ELSE "idle"
    BY DEF DeviceFollowsConnection
  <2>1. CASE w = v
    BY <2>1, InsertKeepsNodes DEF DefineConnection, CopyConnection, TreeInv, StateInv
  <2>2. CASE w # v
    <3>1. w \in DOMAIN tree /\ tree'[w] = tree[w] /\ w \in Vectors
      BY <2>2, InsertKeepsNodes DEF TreeInv, NodesInv
    <3>2. v.name = Connection => w.device # v.device
      BY <3>1, <2>2, WindowAssumption
    <3>3. deviceState[w.device] = IF tree[w] \in Connected THEN "ok" ELSE "idle"
      BY <3>1 DEF TreeInv, StateInv, DeviceFollowsConnection
    <3>4. deviceState'[w.device] = deviceState[w.device]
      BY <3>1, <3>2, <1>2 DEF DefineConnection, CopyConnection, IdleIfNew, TreeInv, StateInv
    <3>. QED  BY <3>1, <3>3, <3>4
  <2>. QED  BY <2>1, <2>2
<1>. QED  BY <1>1, <1>3, <1>4 DEF TreeInv, StateInv

(* Releasing properties leaves the nodes, and the state, of the others.    *)
LEMMA ForgetLeaves ==
    ASSUME TreeInv, NEW S, Forget(S)
    PROVE  /\ DOMAIN tree' = DOMAIN tree \ S
           /\ DOMAIN tree' \subseteq Vectors
           /\ tree' \in [DOMAIN tree' -> Contents]
           /\ \A w \in DOMAIN tree' : tree'[w] = tree[w]
           /\ StateInv'
<1>1. /\ DOMAIN tree' = DOMAIN tree \ S
      /\ \A w \in DOMAIN tree' : tree'[w] = tree[w]
      /\ tree' \in [DOMAIN tree' -> Contents]
  BY DEF Forget, TreeInv, NodesInv
<1>2. StateInv'
  BY <1>1 DEF Forget, TreeInv, StateInv, DeviceFollowsConnection
<1>. QED  BY <1>1, <1>2 DEF TreeInv, NodesInv

(* What the lists of v's group and device are when v is taken out.         *)
LEMMA LeftLists ==
    ASSUME TreeInv, NEW v \in Vectors
    PROVE  /\ OrderedListOf(Vectors, LeftOfGroup(v), LabelOrder)
           /\ Elements(LeftOfGroup(v)) = Elements(propsOf[PlaceOf(v)]) \ {v}
           /\ EmptiesGroup(v) <=>
                v \in DOMAIN tree /\ (DOMAIN tree \ {v}) \cap At(v.device, v.group) = {}
           /\ OrderedListOf(Groups, LeftOfDevice(v), NameOrder)
           /\ Elements(LeftOfDevice(v)) =
                {w.group : w \in (DOMAIN tree \ {v}) \cap Of(v.device)}
           /\ EmptiesDevice(v) <=> v \in DOMAIN tree /\ Elements(LeftOfDevice(v)) = {}
<1>. USE VectorPlace, OrdersFit
<1>1. /\ OrderedListOf(Vectors, LeftOfGroup(v), LabelOrder)
      /\ Elements(LeftOfGroup(v)) = Elements(propsOf[PlaceOf(v)]) \ {v}
  BY WithoutKeepsOrder DEF LeftOfGroup, TreeInv, ListsInv
<1>2. Elements(LeftOfGroup(v)) = (DOMAIN tree \ {v}) \cap At(v.device, v.group)
  BY <1>1 DEF TreeInv, NodesInv
<1>3. EmptiesGroup(v) <=>
        v \in DOMAIN tree /\ (DOMAIN tree \ {v}) \cap At(v.device, v.group) = {}
  BY <1>1, <1>2, EmptyMeansNothing DEF EmptiesGroup, OrderedListOf
<1>4. /\ OrderedListOf(Groups, groupsOf[v.device], NameOrder)
      /\ Elements(groupsOf[v.device]) = {w.group : w \in DOMAIN tree \cap Of(v.device)}
  BY DEF TreeInv, ListsInv, NodesInv, NoEmptyNodes
<1>5. /\ OrderedListOf(Groups, Without(groupsOf[v.device], v.group), NameOrder)
      /\ Elements(Without(groupsOf[v.device], v.group)) =
           Elements(groupsOf[v.device]) \ {v.group}
  BY <1>4, WithoutKeepsOrder
<1>6. OrderedListOf(Groups, LeftOfDevice(v), NameOrder)
  BY <1>4, <1>5 DEF LeftOfDevice
<1>7. Elements(LeftOfDevice(v)) = {w.group : w \in (DOMAIN tree \ {v}) \cap Of(v.device)}
  <2>1. CASE EmptiesGroup(v)
    <3>1. Elements(LeftOfDevice(v)) = Elements(groupsOf[v.device]) \ {v.group}
      BY <2>1, <1>5 DEF LeftOfDevice
    <3>2. ASSUME NEW w \in (DOMAIN tree \ {v}) \cap Of(v.device)
          PROVE  w.group # v.group
      BY <2>1, <1>3 DEF At, Of
    <3>. QED  BY <3>1, <3>2, <1>4
  <2>2. CASE ~ EmptiesGroup(v)
    <3>1. Elements(LeftOfDevice(v)) = Elements(groupsOf[v.device])
      BY <2>2 DEF LeftOfDevice
    <3>2. v \in DOMAIN tree =>
            \E w \in (DOMAIN tree \ {v}) \cap Of(v.device) : w.group = v.group
      BY <2>2, <1>3 DEF At, Of
    <3>. QED  BY <3>1, <3>2, <1>4
  <2>. QED  BY <2>1, <2>2
<1>8. EmptiesDevice(v) <=> v \in DOMAIN tree /\ Elements(LeftOfDevice(v)) = {}
  BY <1>6, EmptyMeansNothing DEF EmptiesDevice, OrderedListOf
<1>. QED  BY <1>1, <1>3, <1>6, <1>7, <1>8

(* A single property is deleted, with its group and device if empty.       *)
LEMMA TakeKeepsTree ==
    ASSUME TreeInv, NEW v \in Vectors, TakeProperty(v)
    PROVE  TreeInv' /\ DOMAIN tree' = DOMAIN tree \ {v}
<1>. USE VectorPlace, OrdersFit
<1>1. /\ DOMAIN tree' = DOMAIN tree \ {v}
      /\ DOMAIN tree' \subseteq Vectors
      /\ tree' \in [DOMAIN tree' -> Contents]
      /\ StateInv'
  BY ForgetLeaves DEF TakeProperty
<1>2. /\ OrderedListOf(Vectors, LeftOfGroup(v), LabelOrder)
      /\ Elements(LeftOfGroup(v)) = Elements(propsOf[PlaceOf(v)]) \ {v}
      /\ EmptiesGroup(v) <=>
           v \in DOMAIN tree /\ (DOMAIN tree \ {v}) \cap At(v.device, v.group) = {}
      /\ OrderedListOf(Groups, LeftOfDevice(v), NameOrder)
      /\ Elements(LeftOfDevice(v)) =
           {w.group : w \in (DOMAIN tree \ {v}) \cap Of(v.device)}
      /\ EmptiesDevice(v) <=> v \in DOMAIN tree /\ Elements(LeftOfDevice(v)) = {}
  BY LeftLists
<1>3. /\ DOMAIN propsOf' = Places /\ DOMAIN groupsOf' = Devices
      /\ \A p \in Places : propsOf'[p] = IF p = PlaceOf(v)
            THEN IF EmptiesGroup(v) THEN EmptyList ELSE LeftOfGroup(v) ELSE propsOf[p]
      /\ \A d \in Devices : groupsOf'[d] = IF d = v.device
            THEN IF EmptiesDevice(v) THEN EmptyList ELSE LeftOfDevice(v) ELSE groupsOf[d]
  BY DEF TakeProperty, TreeInv, ListsInv
<1>4. ASSUME NEW p \in Places
      PROVE  /\ OrderedListOf(Vectors, propsOf'[p], LabelOrder)
             /\ Elements(propsOf'[p]) = DOMAIN tree' \cap At(p[1], p[2])
  <2>1. /\ OrderedListOf(Vectors, propsOf[p], LabelOrder)
        /\ Elements(propsOf[p]) = DOMAIN tree \cap At(p[1], p[2])
    BY DEF TreeInv, ListsInv, NodesInv
  <2>2. CASE p = PlaceOf(v)
    <3>1. /\ OrderedListOf(Vectors, EmptyList, LabelOrder)
          /\ Elements(EmptyList) = {}
      BY EmptyListFits DEF OrderedListOf
    <3>2. Elements(LeftOfGroup(v)) = DOMAIN tree' \cap At(p[1], p[2])
      BY <1>1, <1>2, <2>1, <2>2
    <3>3. EmptiesGroup(v) => Elements(LeftOfGroup(v)) = {}
      BY <1>1, <1>2, <2>2, <3>2
    <3>. QED  BY <1>2, <1>3, <2>2, <3>1, <3>2, <3>3
  <2>3. CASE p # PlaceOf(v)
    <3>1. v \notin At(p[1], p[2])
      BY <2>3, PlaceParts DEF At, PlaceOf
    <3>. QED  BY <1>1, <1>3, <2>1, <2>3, <3>1
  <2>. QED  BY <2>2, <2>3
<1>5. ASSUME NEW d \in Devices
      PROVE  /\ OrderedListOf(Groups, groupsOf'[d], NameOrder)
             /\ Elements(groupsOf'[d]) = {w.group : w \in DOMAIN tree' \cap Of(d)}
  <2>1. /\ OrderedListOf(Groups, groupsOf[d], NameOrder)
        /\ Elements(groupsOf[d]) = {w.group : w \in DOMAIN tree \cap Of(d)}
    BY DEF TreeInv, ListsInv, NodesInv, NoEmptyNodes
  <2>2. CASE d = v.device
    <3>1. /\ OrderedListOf(Groups, EmptyList, NameOrder)
          /\ Elements(EmptyList) = {}
      BY EmptyListFits DEF OrderedListOf
    <3>. QED  BY <1>1, <1>2, <1>3, <2>2, <3>1
  <2>3. CASE d # v.device
    <3>1. v \notin Of(d)
      BY <2>3 DEF Of
    <3>2. DOMAIN tree' \cap Of(d) = DOMAIN tree \cap Of(d)
      BY <1>1, <3>1
    <3>. QED  BY <1>3, <2>1, <2>3, <3>2
  <2>. QED  BY <2>2, <2>3
<1>6. /\ OrderedListOf(Devices, root', NameOrder)
      /\ {w.device : w \in DOMAIN tree'} \subseteq Elements(root')
  <2>1. /\ OrderedListOf(Devices, root, NameOrder)
        /\ {w.device : w \in DOMAIN tree} \subseteq Elements(root)
    BY DEF TreeInv, ListsInv, NodesInv, NoEmptyNodes, devices
  <2>2. CASE EmptiesDevice(v)
    <3>1. /\ OrderedListOf(Devices, root', NameOrder)
          /\ Elements(root') = Elements(root) \ {v.device}
      BY <2>1, <2>2, WithoutKeepsOrder DEF TakeProperty
    <3>2. \A w \in DOMAIN tree' : w.device # v.device
      BY <1>1, <1>2, <2>2 DEF Of
    <3>. QED  BY <1>1, <2>1, <3>1, <3>2
  <2>3. CASE ~ EmptiesDevice(v)
    BY <1>1, <2>1, <2>3 DEF TakeProperty
  <2>. QED  BY <2>2, <2>3
<1>. QED  BY <1>1, <1>3, <1>4, <1>5, <1>6
       DEF TreeInv, ListsInv, NodesInv, NoEmptyNodes, devices

(* A whole group is deleted.                                               *)
LEMMA TakeGroupKeepsTree ==
    ASSUME TreeInv, NEW q \in Places, TakeGroup(q[1], q[2])
    PROVE  TreeInv' /\ DOMAIN tree' = DOMAIN tree \ At(q[1], q[2])
<1>. USE OrdersFit
<1>1. /\ q = <<q[1], q[2]>> /\ q[1] \in Devices /\ q[2] \in Groups
      /\ Elements(propsOf[q]) = DOMAIN tree \cap At(q[1], q[2])
  BY PlaceParts DEF TreeInv, NodesInv
<1>2. /\ DOMAIN tree' = DOMAIN tree \ At(q[1], q[2])
      /\ DOMAIN tree' \subseteq Vectors
      /\ tree' \in [DOMAIN tree' -> Contents]
      /\ StateInv'
  BY <1>1, ForgetLeaves DEF TakeGroup
<1>3. /\ DOMAIN propsOf' = Places /\ DOMAIN groupsOf' = Devices
      /\ \A p \in Places : propsOf'[p] = IF p = q THEN EmptyList ELSE propsOf[p]
      /\ \A d \in Devices : groupsOf'[d] =
            IF d = q[1] THEN Without(groupsOf[d], q[2]) ELSE groupsOf[d]
  BY <1>1 DEF TakeGroup, TreeInv, ListsInv
<1>4. ASSUME NEW p \in Places
      PROVE  /\ OrderedListOf(Vectors, propsOf'[p], LabelOrder)
             /\ Elements(propsOf'[p]) = DOMAIN tree' \cap At(p[1], p[2])
  <2>1. /\ OrderedListOf(Vectors, propsOf[p], LabelOrder)
        /\ Elements(propsOf[p]) = DOMAIN tree \cap At(p[1], p[2])
    BY DEF TreeInv, ListsInv, NodesInv
  <2>2. CASE p = q
    BY <1>2, <1>3, <2>2, EmptyListFits DEF OrderedListOf
  <2>3. CASE p # q
    <3>1. At(p[1], p[2]) \cap At(q[1], q[2]) = {}
      BY <2>3, PlaceParts DEF At
    <3>2. DOMAIN tree' \cap At(p[1], p[2]) = DOMAIN tree \cap At(p[1], p[2])
      BY <1>2, <3>1
    <3>. QED  BY <1>3, <2>1, <2>3, <3>2
  <2>. QED  BY <2>2, <2>3
<1>5. ASSUME NEW d \in Devices
      PROVE  /\ OrderedListOf(Groups, groupsOf'[d], NameOrder)
             /\ Elements(groupsOf'[d]) = {w.group : w \in DOMAIN tree' \cap Of(d)}
  <2>1. /\ OrderedListOf(Groups, groupsOf[d], NameOrder)
        /\ Elements(groupsOf[d]) = {w.group : w \in DOMAIN tree \cap Of(d)}
    BY DEF TreeInv, ListsInv, NodesInv, NoEmptyNodes
  <2>2. CASE d = q[1]
    <3>1. /\ OrderedListOf(Groups, Without(groupsOf[d], q[2]), NameOrder)
          /\ Elements(Without(groupsOf[d], q[2])) = Elements(groupsOf[d]) \ {q[2]}
      BY <2>1, WithoutKeepsOrder
    <3>2. \A w \in DOMAIN tree \cap Of(d) : w \in At(q[1], q[2]) <=> w.group = q[2]
      BY <2>2 DEF At, Of, TreeInv, NodesInv
    <3>. QED  BY <1>2, <1>3, <2>1, <2>2, <3>1, <3>2
  <2>3. CASE d # q[1]
    <3>1. DOMAIN tree' \cap Of(d) = DOMAIN tree \cap Of(d)
      BY <1>2, <2>3 DEF At, Of
    <3>. QED  BY <1>3, <2>1, <2>3, <3>1
  <2>. QED  BY <2>2, <2>3
<1>6. /\ OrderedListOf(Devices, root', NameOrder)
      /\ {w.device : w \in DOMAIN tree'} \subseteq Elements(root')
  BY <1>2 DEF TakeGroup, TreeInv, ListsInv, NodesInv, NoEmptyNodes, devices
<1>. QED  BY <1>2, <1>3, <1>4, <1>5, <1>6
       DEF TreeInv, ListsInv, NodesInv, NoEmptyNodes, devices

(* A whole device is deleted.                                              *)
LEMMA PropertiesOfDevice ==
    ASSUME TreeInv, NEW d \in Devices
    PROVE  PropertiesOf(d) = DOMAIN tree \cap Of(d)
<1>1. ASSUME NEW v \in PropertiesOf(d)
      PROVE  v \in DOMAIN tree \cap Of(d)
  BY DEF PropertiesOf, TreeInv, NodesInv, groups, At, Of
<1>2. ASSUME NEW v \in DOMAIN tree \cap Of(d)
      PROVE  v \in PropertiesOf(d)
  <2>1. v \in Vectors /\ v.device = d
    BY DEF Of
  <2>2. PlaceOf(v) \in Places /\ PlaceOf(v)[1] = d /\ PlaceOf(v)[2] = v.group
    BY <2>1, VectorPlace
  <2>3. v.group \in Elements(groupsOf[d])
    BY DEF TreeInv, NodesInv, NoEmptyNodes
  <2>4. PlaceOf(v) \in groups
    BY <2>2, <2>3 DEF groups
  <2>5. v \in Elements(propsOf[PlaceOf(v)])
    BY <2>1, <2>2, VectorPlace DEF TreeInv, NodesInv
  <2>. QED  BY <2>2, <2>4, <2>5 DEF PropertiesOf
<1>. QED  BY <1>1, <1>2

LEMMA TakeDeviceKeepsTree ==
    ASSUME TreeInv, NEW e \in Devices, TakeDevice(e)
    PROVE  /\ TreeInv' /\ DOMAIN tree' = DOMAIN tree \ Of(e)
           /\ Elements(root') = Elements(root) \ {e}
<1>. USE OrdersFit
<1>1. /\ DOMAIN tree' = DOMAIN tree \ Of(e)
      /\ DOMAIN tree' \subseteq Vectors
      /\ tree' \in [DOMAIN tree' -> Contents]
      /\ StateInv'
  BY PropertiesOfDevice, ForgetLeaves DEF TakeDevice
<1>2. /\ DOMAIN propsOf' = Places /\ DOMAIN groupsOf' = Devices
      /\ \A p \in Places : propsOf'[p] = IF p[1] = e THEN EmptyList ELSE propsOf[p]
      /\ \A d \in Devices : groupsOf'[d] = IF d = e THEN EmptyList ELSE groupsOf[d]
  BY DEF TakeDevice, TreeInv, ListsInv
<1>3. ASSUME NEW p \in Places
      PROVE  /\ OrderedListOf(Vectors, propsOf'[p], LabelOrder)
             /\ Elements(propsOf'[p]) = DOMAIN tree' \cap At(p[1], p[2])
  <2>1. /\ OrderedListOf(Vectors, propsOf[p], LabelOrder)
        /\ Elements(propsOf[p]) = DOMAIN tree \cap At(p[1], p[2])
    BY DEF TreeInv, ListsInv, NodesInv
  <2>2. CASE p[1] = e
    <3>1. DOMAIN tree' \cap At(p[1], p[2]) = {}
      BY <1>1, <2>2 DEF At, Of
    <3>. QED  BY <1>2, <2>2, <3>1, EmptyListFits DEF OrderedListOf
  <2>3. CASE p[1] # e
    <3>1. DOMAIN tree' \cap At(p[1], p[2]) = DOMAIN tree \cap At(p[1], p[2])
      BY <1>1, <2>3 DEF At, Of
    <3>. QED  BY <1>2, <2>1, <2>3, <3>1
  <2>. QED  BY <2>2, <2>3
<1>4. ASSUME NEW d \in Devices
      PROVE  /\ OrderedListOf(Groups, groupsOf'[d], NameOrder)
             /\ Elements(groupsOf'[d]) = {w.group : w \in DOMAIN tree' \cap Of(d)}
  <2>1. /\ OrderedListOf(Groups, groupsOf[d], NameOrder)
        /\ Elements(groupsOf[d]) = {w.group : w \in DOMAIN tree \cap Of(d)}
    BY DEF TreeInv, ListsInv, NodesInv, NoEmptyNodes
  <2>2. CASE d = e
    <3>1. DOMAIN tree' \cap Of(d) = {}
      BY <1>1, <2>2
    <3>. QED  BY <1>2, <2>2, <3>1, EmptyListFits DEF OrderedListOf
  <2>3. CASE d # e
    <3>1. DOMAIN tree' \cap Of(d) = DOMAIN tree \cap Of(d)
      BY <1>1, <2>3 DEF Of
    <3>. QED  BY <1>2, <2>1, <2>3, <3>1
  <2>. QED  BY <2>2, <2>3
<1>5. /\ OrderedListOf(Devices, root', NameOrder)
      /\ Elements(root') = Elements(root) \ {e}
  BY WithoutKeepsOrder DEF TakeDevice, TreeInv, ListsInv
<1>6. {w.device : w \in DOMAIN tree'} \subseteq Elements(root')
  BY <1>1, <1>5 DEF Of, TreeInv, NodesInv, NoEmptyNodes, devices
<1>. QED  BY <1>1, <1>2, <1>3, <1>4, <1>5, <1>6
       DEF TreeInv, ListsInv, NodesInv, NoEmptyNodes, devices

-----------------------------------------------------------------------------
(* The window.  Sound(sel, t, ds): the selection sel fits a tree of the    *)
(* properties t and the devices ds.  Shown(sel, fs, t): the forms fs are   *)
(* those of sel.                                                           *)
NamedIn(sel, t) == {v \in DOMAIN t : v.device = sel.device /\ v.name = sel.property}

Sound(sel, t, ds) ==
    /\ sel \in Paths
    /\ sel.type = "property" => sel.node = IF NamedIn(sel, t) = {} THEN Null ELSE Live
    /\ sel.type = "group" /\ sel.node = Live => DOMAIN t \cap At(sel.device, sel.group) # {}
    /\ sel.type = "device" /\ sel.node = Live => sel.device \in ds

Current(fs, t) ==
    \A f \in fs : /\ f \in [vector: Vectors, object: {"live", "released"}, shown: Contents]
                  /\ f.object = "live" /\ f.vector \in DOMAIN t /\ f.shown = t[f.vector]

ShownVectors(fs) == {f.vector : f \in fs}

Shown(sel, fs, t) ==
    /\ Current(fs, t)
    /\ sel.type = "property" => ShownVectors(fs) = NamedIn(sel, t)
    /\ sel.type = "group" /\ sel.node = Live =>
         ShownVectors(fs) = DOMAIN t \cap At(sel.device, sel.group)
    /\ sel.type \in {"root", "device"} \/ sel.node.status = "dead" => fs = {}

Good(sel, fs, t, ds) == Sound(sel, t, ds) /\ Shown(sel, fs, t)

WindowInv == Good(path, forms, tree, devices) /\ crashed \in BOOLEAN

(* A node that a selected device or group may point to.                    *)
Remembered(n) == n = Live \/ \E S \in SUBSET Vectors : n = Dead(S)

(* What a path can be.                                                     *)
LEMMA PathCases ==
    ASSUME NEW sel \in Paths
    PROVE  \/ sel = ClearedPath
           \/ \E d \in Devices : \E n : sel = DevicePath(d, n) /\ Remembered(n)
           \/ \E p \in Places : \E n : sel = GroupPath(p[1], p[2], n) /\ Remembered(n)
           \/ \E v \in Vectors, n \in {Null, Live} : sel = PropertyPath(v, n)
BY DEF Paths, Remembered

LEMMA PathFields ==
    /\ ClearedPath.type = "root" /\ ClearedPath.node = Null
    /\ \A d, n : /\ DevicePath(d, n).type = "device" /\ DevicePath(d, n).device = d
                 /\ DevicePath(d, n).node = n
    /\ \A d, g, n : /\ GroupPath(d, g, n).type = "group" /\ GroupPath(d, g, n).device = d
                    /\ GroupPath(d, g, n).group = g /\ GroupPath(d, g, n).node = n
    /\ \A v, n : /\ PropertyPath(v, n).type = "property"
                 /\ PropertyPath(v, n).device = v.device
                 /\ PropertyPath(v, n).group = v.group
                 /\ PropertyPath(v, n).property = v.name
                 /\ PropertyPath(v, n).node = n
BY DEF Path, ClearedPath, DevicePath, GroupPath, PropertyPath

LEMMA PointDevice ==
    ASSUME NEW d, NEW n, NEW m
    PROVE  PointTo(DevicePath(d, n), DevicePath(d, n).group, m) = DevicePath(d, m)
BY DEF PointTo, Path, DevicePath

LEMMA PointGroup ==
    ASSUME NEW d, NEW g, NEW n, NEW m
    PROVE  PointTo(GroupPath(d, g, n), GroupPath(d, g, n).group, m) = GroupPath(d, g, m)
BY DEF PointTo, Path, GroupPath

LEMMA PointProperty ==
    ASSUME NEW v, NEW n, NEW m
    PROVE  PointTo(PropertyPath(v, n), v.group, m) = PropertyPath(v, m)
BY DEF PointTo, Path, PropertyPath

LEMMA GroupPathFits ==
    ASSUME NEW d, NEW g, <<d, g>> \in Places, NEW n,
           Remembered(n)
    PROVE  GroupPath(d, g, n) \in Paths
<1>. DEFINE p == <<d, g>>
<1>1. p \in Places /\ GroupPath(d, g, n) = GroupPath(p[1], p[2], n)
  OBVIOUS
<1>. QED  BY <1>1 DEF Paths, Remembered

LEMMA NodeKinds ==
    /\ Null # Live /\ Null.status = "null" /\ Live.status = "live"
    /\ \A S : Dead(S) # Live /\ Dead(S) # Null /\ Dead(S).status = "dead" /\ Dead(S).left = S
BY DEF Null, Live, Dead

(* The cleared path, with no forms, is right for every tree.               *)
LEMMA ClearedGood ==
    ASSUME NEW t, NEW ds
    PROVE  Good(ClearedPath, {}, t, ds)
BY PathFields, NodeKinds DEF Good, Sound, Shown, Current, Paths, ShownVectors

(* A property is named by its path alone.                                  *)
LEMMA NamedByPath ==
    ASSUME NEW v \in Vectors, NEW n, NEW t, DOMAIN t \subseteq Vectors
    PROVE  NamedIn(PropertyPath(v, n), t) = DOMAIN t \cap {v}
BY PathFields, WindowAssumption DEF NamedIn

(* The forms of properties of the tree show what these hold.               *)
LEMMA FormsGood ==
    ASSUME NEW X \in SUBSET DOMAIN tree', DOMAIN tree' \subseteq Vectors,
           tree' \in [DOMAIN tree' -> Contents], forms' = {Form(v) : v \in X}
    PROVE  Current(forms', tree') /\ ShownVectors(forms') = X
<1>1. \A v \in X : /\ Form(v) = [vector |-> v, object |-> "live", shown |-> tree'[v]]
                  /\ Form(v).vector = v /\ v \in Vectors /\ tree'[v] \in Contents
  BY DEF Form
<1>2. Current(forms', tree')
  BY <1>1 DEF Current
<1>3. ShownVectors(forms') = X
  BY <1>1 DEF ShownVectors
<1>. QED  BY <1>2, <1>3

(* Repainting a property or a group of the tree, or a dead wrapper, shows  *)
(* what it should.                                                         *)
LEMMA ShowPropertiesGood ==
    ASSUME NEW sel, sel.type \in {"root", "property", "group"},
           DOMAIN tree' \subseteq Vectors, tree' \in [DOMAIN tree' -> Contents],
           \A p \in Places : Elements(propsOf'[p]) = DOMAIN tree' \cap At(p[1], p[2]),
           Sound(sel, tree', devices'), ShowProperties(sel, {}), crashed \in BOOLEAN
    PROVE  WindowInv'
<1>. USE NodeKinds, PathFields
<1>0. path' = sel
  BY DEF ShowProperties, Show
<1>1. CASE sel = ClearedPath
  BY <1>0, <1>1, ClearedGood DEF ShowProperties, WindowInv
<1>2. ASSUME NEW p \in Places, NEW n, sel = GroupPath(p[1], p[2], n),
             Remembered(n)
      PROVE  WindowInv'
  <2>1. CASE n = Live
    <3>1. /\ forms' = {Form(v) : v \in DOMAIN tree' \cap At(p[1], p[2])}
          /\ crashed' = crashed
      <4>1. p = <<p[1], p[2]>>
        BY PlaceParts
      <4>2. <<sel.device, sel.group>> = p /\ sel.type # "property"
        BY <1>2, <4>1
      <4>. QED  BY <1>2, <2>1, <4>2 DEF ShowProperties
    <3>2. /\ Current(forms', tree')
          /\ ShownVectors(forms') = DOMAIN tree' \cap At(p[1], p[2])
      BY <3>1, FormsGood
    <3>. QED  BY <1>0, <1>2, <2>1, <3>1, <3>2 DEF WindowInv, Good, Shown
  <2>2. CASE n # Live
    <3>0. PICK S \in SUBSET Vectors : n = Dead(S)
      BY <1>2, <2>2 DEF Remembered
    <3>1. /\ forms' = {} /\ crashed' = (sel.node.left # {}) /\ n.status = "dead"
      BY <1>2, <2>2, <3>0 DEF ShowProperties
    <3>. QED  BY <1>0, <1>2, <2>2, <3>1 DEF WindowInv, Good, Shown, Current, ShownVectors
  <2>. QED  BY <2>1, <2>2
<1>3. ASSUME NEW v \in Vectors, NEW n \in {Null, Live}, sel = PropertyPath(v, n)
      PROVE  WindowInv'
  <2>1. NamedIn(sel, tree') = DOMAIN tree' \cap {v}
    BY <1>3, NamedByPath
  <2>2. CASE n = Null
    <3>1. NamedIn(sel, tree') = {}
      BY <1>3, <2>2 DEF Sound
    <3>2. forms' = {} /\ crashed' = crashed
      BY <1>3, <2>2 DEF ShowProperties
    <3>. QED  BY <1>0, <1>3, <2>2, <3>1, <3>2 DEF WindowInv, Good, Shown, Current, ShownVectors
  <2>3. CASE n = Live
    <3>1. v \in DOMAIN tree'
      BY <1>3, <2>1, <2>3 DEF Sound
    <3>2. Elements(propsOf'[<<v.device, v.group>>]) = DOMAIN tree' \cap At(v.device, v.group)
      BY VectorPlace DEF PlaceOf
    <3>3. {w \in Elements(propsOf'[<<v.device, v.group>>]) : w.name = v.name} = {v}
      BY <3>1, <3>2, WindowAssumption DEF At
    <3>4. /\ forms' = {Form(w) : w \in {v}} /\ crashed' = crashed
      BY <1>3, <2>3, <3>3 DEF ShowProperties
    <3>5. Current(forms', tree') /\ ShownVectors(forms') = {v}
      BY <3>1, <3>4, FormsGood
    <3>. QED  BY <1>0, <1>3, <2>1, <2>3, <3>1, <3>4, <3>5 DEF WindowInv, Good, Shown
  <2>. QED  BY <2>2, <2>3
<1>4. CASE \E p \in Places : \E n : sel = GroupPath(p[1], p[2], n) /\ Remembered(n)
  <2>1. PICK p, n : p \in Places /\ sel = GroupPath(p[1], p[2], n) /\ Remembered(n)
    BY <1>4
  <2>. QED  BY <1>2, <2>1
<1>5. CASE \E v \in Vectors, n \in {Null, Live} : sel = PropertyPath(v, n)
  BY <1>3, <1>5
<1>6. sel \in Paths /\ \A d, n : sel # DevicePath(d, n)
  BY DEF Sound
<1>. QED  BY <1>1, <1>4, <1>5, <1>6, PathCases

(* The tree as it is after a step.                                         *)
LEMMA TreeAfter ==
    ASSUME TreeInv'
    PROVE  /\ DOMAIN tree' \subseteq Vectors /\ tree' \in [DOMAIN tree' -> Contents]
           /\ \A p \in Places : Elements(propsOf'[p]) = DOMAIN tree' \cap At(p[1], p[2])
           /\ \A d \in Devices :
                Elements(groupsOf'[d]) = {w.group : w \in DOMAIN tree' \cap Of(d)}
BY DEF TreeInv, NodesInv, NoEmptyNodes

(* Repainting any sound selection, on an empty window, shows what it       *)
(* should; a device is replaced by its group "Main", if it has that.       *)
LEMMA RepaintGood ==
    ASSUME TreeInv', NEW sel, Sound(sel, tree', devices'), crashed \in BOOLEAN,
           RepaintPropertyWindow(sel, {})
    PROVE  WindowInv'
<1>. USE NodeKinds, PathFields
<1>1. CASE sel.type # "device"
  <2>1. sel.type \in {"root", "property", "group"}
    BY <1>1, PathCases DEF Sound
  <2>. QED  BY <1>1, <2>1, TreeAfter, ShowPropertiesGood DEF RepaintPropertyWindow
<1>2. CASE sel.type = "device"
  <2>1. PICK d, n : d \in Devices /\ sel = DevicePath(d, n) /\ Remembered(n)
    BY <1>2, PathCases DEF Sound
  <2>2. ASSUME NEW open \in MainOf(sel), ShowProperties(open, {})
        PROVE  WindowInv'
    <3>1. open.type = "group" /\ Sound(open, tree', devices')
      <4>1. CASE n = Live
        <5>0. sel.node = Live /\ sel.device = d
          BY <2>1, <4>1
        <5>1. open = GroupPath(d, Main, Live) /\ Main \in Elements(groupsOf'[d])
          BY <2>2, <5>0 DEF MainOf
        <5>2. PICK w \in DOMAIN tree' \cap Of(d) : w.group = Main
          BY <2>1, <5>1, TreeAfter
        <5>3. w \in Vectors /\ <<d, Main>> \in Places /\ w \in At(d, Main)
          BY <2>1, <5>2, TreeAfter, VectorPlace DEF PlaceOf, Of, At
        <5>4. open \in Paths
          BY <5>1, <5>3, GroupPathFits DEF Remembered
        <5>. QED  BY <5>1, <5>2, <5>3, <5>4 DEF Sound
      <4>2. CASE n # Live
        <5>1. PICK S \in SUBSET Vectors : n = Dead(S)
          BY <2>1, <4>2 DEF Remembered
        <5>4. sel.device = d /\ sel.node.left = S /\ sel.node # Live
          BY <2>1, <5>1
        <5>2. /\ open = GroupPath(d, Main, Dead(S \cap At(d, Main)))
              /\ S \cap At(d, Main) # {}
          BY <2>2, <5>4 DEF MainOf
        <5>3. <<d, Main>> \in Places
          BY <5>2, VectorPlace DEF PlaceOf, At
        <5>5. open \in Paths
          <6>1. Remembered(Dead(S \cap At(d, Main)))
            BY DEF Remembered
          <6>. QED  BY <5>2, <5>3, <6>1, GroupPathFits
        <5>. QED  BY <5>2, <5>5 DEF Sound
      <4>. QED  BY <4>1, <4>2
    <3>. QED  BY <2>2, <3>1, TreeAfter, ShowPropertiesGood
  <2>3. CASE Show(sel) /\ forms' = {} /\ UNCHANGED crashed
    BY <1>2, <2>1, <2>3 DEF Show, WindowInv, Good, Shown, Current
  <2>. QED  BY <1>2, <2>2, <2>3 DEF RepaintPropertyWindow
<1>. QED  BY <1>1, <1>2

(* A window that is left with forms that are right for it.                 *)
LEMMA LeaveGood ==
    ASSUME NEW sel, NEW base, crashed \in BOOLEAN, Leave(sel, base),
           Good(sel, base, tree', devices')
    PROVE  WindowInv'
BY DEF Leave, Show, WindowInv

(* A window whose selection is not concerned by what changed in the tree:  *)
(* the properties C were defined or deleted.                               *)
LEMMA UnconcernedGood ==
    ASSUME WindowInv, NEW C, DOMAIN tree \subseteq Vectors, DOMAIN tree' \subseteq Vectors,
           \A w \in Vectors \ C : w \in DOMAIN tree' <=> w \in DOMAIN tree,
           \A w \in DOMAIN tree \ C : tree'[w] = tree[w],
           path.type = "property" =>
             \A w \in C : w.device # path.device \/ w.name # path.property,
           path.type = "group" => C \cap At(path.device, path.group) = {},
           path.type = "device" /\ path.node = Live => path.device \in devices'
    PROVE  Good(path, forms, tree', devices') /\ \A f \in forms : f.vector \notin C
<1>. USE NodeKinds, PathFields
<1>1. CASE path = ClearedPath
  <2>1. forms = {}
    BY <1>1 DEF WindowInv, Good, Shown
  <2>2. Good(ClearedPath, {}, tree', devices')
    BY ClearedGood
  <2>. QED  BY <1>1, <2>1, <2>2
<1>2. ASSUME NEW d \in Devices, NEW n, path = DevicePath(d, n)
      PROVE  Good(path, forms, tree', devices') /\ forms = {}
  BY <1>2 DEF WindowInv, Good, Sound, Shown, Current
<1>3. ASSUME NEW p \in Places, NEW n, path = GroupPath(p[1], p[2], n), Remembered(n)
      PROVE  Good(path, forms, tree', devices') /\ \A f \in forms : f.vector \notin C
  <2>1. DOMAIN tree' \cap At(p[1], p[2]) = DOMAIN tree \cap At(p[1], p[2])
    BY <1>3 DEF At
  <2>2. CASE n = Live
    <3>1. ShownVectors(forms) = DOMAIN tree \cap At(p[1], p[2])
      BY <1>3, <2>2 DEF WindowInv, Good, Shown
    <3>2. \A f \in forms : f.vector \in DOMAIN tree \cap At(p[1], p[2])
      BY <3>1 DEF ShownVectors
    <3>3. \A f \in forms : f.vector \notin C /\ f.vector \in DOMAIN tree'
      BY <1>3, <2>1, <3>2
    <3>4. Current(forms, tree')
      BY <3>2, <3>3 DEF Current, WindowInv, Good, Shown
    <3>5. Sound(path, tree', devices')
      BY <1>3, <2>1, <2>2 DEF WindowInv, Good, Sound
    <3>. QED  BY <1>3, <2>1, <2>2, <3>1, <3>3, <3>4, <3>5 DEF Good, Shown
  <2>3. CASE n # Live
    <3>1. n.status = "dead"
      BY <1>3, <2>3 DEF Remembered
    <3>2. forms = {}
      BY <1>3, <3>1 DEF WindowInv, Good, Shown
    <3>. QED  BY <1>3, <2>3, <3>2 DEF WindowInv, Good, Sound, Shown, Current
  <2>. QED  BY <2>2, <2>3
<1>4. ASSUME NEW v \in Vectors, NEW n \in {Null, Live}, path = PropertyPath(v, n)
      PROVE  Good(path, forms, tree', devices') /\ \A f \in forms : f.vector \notin C
  <2>1. /\ NamedIn(path, tree) = DOMAIN tree \cap {v}
        /\ NamedIn(path, tree') = DOMAIN tree' \cap {v}
    BY <1>4, NamedByPath
  <2>2. v \notin C
    BY <1>4
  <2>3. NamedIn(path, tree') = NamedIn(path, tree)
    BY <2>1, <2>2
  <2>4. ShownVectors(forms) = DOMAIN tree \cap {v}
    BY <1>4, <2>1 DEF WindowInv, Good, Shown
  <2>5. \A f \in forms : f.vector = v /\ v \in DOMAIN tree
    BY <2>4 DEF ShownVectors
  <2>6. Current(forms, tree')
    BY <2>2, <2>5 DEF Current, WindowInv, Good, Shown
  <2>. QED  BY <1>4, <2>2, <2>3, <2>5, <2>6 DEF WindowInv, Good, Sound, Shown
<1>5. path \in Paths
  BY DEF WindowInv, Good, Sound
<1>6. CASE \E d \in Devices : \E n : path = DevicePath(d, n) /\ Remembered(n)
  BY <1>2, <1>6
<1>7. CASE \E p \in Places : \E n : path = GroupPath(p[1], p[2], n) /\ Remembered(n)
  <2>1. PICK p, n : p \in Places /\ path = GroupPath(p[1], p[2], n) /\ Remembered(n)
    BY <1>7
  <2>. QED  BY <1>3, <2>1
<1>8. CASE \E v \in Vectors, n \in {Null, Live} : path = PropertyPath(v, n)
  BY <1>4, <1>8
<1>. QED  BY <1>1, <1>5, <1>6, <1>7, <1>8, PathCases, ClearedGood

(* A property is defined.                                                  *)
LEMMA DefineStep ==
    ASSUME TreeInv, WindowInv, NEW v \in Vectors, NEW x \in Contents, DefineProperty(v, x)
    PROVE  TreeInv' /\ WindowInv'
<1>. USE NodeKinds, PathFields, VectorPlace
<1>1. Insert(v, x) /\ DefineConnection(v, x) /\ v \notin DOMAIN tree
  BY DEF DefineProperty
<1>2. TreeInv'
  BY <1>1, DefineKeepsTree
<1>3. /\ DOMAIN tree' = DOMAIN tree \cup {v} /\ DOMAIN tree' \subseteq Vectors
      /\ DOMAIN tree \subseteq Vectors
      /\ \A w \in DOMAIN tree : tree'[w] = tree[w]
      /\ devices \subseteq devices'
  <2>1. /\ DOMAIN tree' = DOMAIN tree \cup {v}
        /\ \A w \in DOMAIN tree : w # v => tree'[w] = tree[w]
    BY <1>1, InsertKeepsNodes
  <2>2. Elements(root') = Elements(root) \cup {v.device}
    BY <1>1, InsertKeepsLists DEF TreeInv
  <2>3. DOMAIN tree \subseteq Vectors
    BY DEF TreeInv, NodesInv
  <2>. QED  BY <1>1, <2>1, <2>2, <2>3 DEF devices
<1>4. PropertyDefineDelete(path, forms, v.device, v.group, v.name, FALSE)
  BY DEF DefineProperty
<1>5. path \in Paths /\ crashed \in BOOLEAN
  BY DEF WindowInv, Good, Sound
<1>6. CASE /\ SelectedProperty(path, v.device, v.name)
           /\ RepaintPropertyWindow(PointTo(path, v.group, Live), {})
  <2>1. PICK u \in Vectors, n \in {Null, Live} : path = PropertyPath(u, n)
    BY <1>5, <1>6, PathCases DEF SelectedProperty
  <2>2. u = v
    BY <1>6, <2>1, WindowAssumption DEF SelectedProperty
  <2>3. PointTo(path, v.group, Live) = PropertyPath(v, Live)
    BY <2>1, <2>2, PointProperty
  <2>4. NamedIn(PropertyPath(v, Live), tree') = {v}
    BY <1>3, NamedByPath
  <2>5. Sound(PropertyPath(v, Live), tree', devices')
    BY <2>4 DEF Sound, Paths
  <2>. QED  BY <1>2, <1>5, <1>6, <2>3, <2>5, RepaintGood
<1>7. CASE /\ SelectedGroup(path, v.device, v.group)
           /\ RepaintPropertyWindow(path, {})
  <2>1. path.type = "group" /\ v \in DOMAIN tree' \cap At(path.device, path.group)
    BY <1>3, <1>7 DEF SelectedGroup
  <2>2. Sound(path, tree', devices')
    BY <1>5, <2>1 DEF Sound
  <2>. QED  BY <1>2, <1>5, <1>7, <2>2, RepaintGood
<1>8. CASE /\ ~ SelectedProperty(path, v.device, v.name)
           /\ ~ SelectedGroup(path, v.device, v.group)
           /\ Leave(path, forms)
  <2>1. path.type = "group" => {v} \cap At(path.device, path.group) = {}
    BY <1>8 DEF SelectedGroup, At
  <2>2. path.type = "device" /\ path.node = Live => path.device \in devices'
    BY <1>3 DEF WindowInv, Good, Sound
  <2>3. Good(path, forms, tree', devices')
    <3>1. path.type = "property" =>
            \A w \in {v} : w.device # path.device \/ w.name # path.property
      BY <1>8 DEF SelectedProperty
    <3>2. /\ \A w \in Vectors \ {v} : w \in DOMAIN tree' <=> w \in DOMAIN tree
          /\ \A w \in DOMAIN tree \ {v} : tree'[w] = tree[w]
      BY <1>3
    <3>. QED  BY <1>3, <2>1, <2>2, <3>1, <3>2, UnconcernedGood
  <2>. QED  BY <1>2, <1>5, <1>8, <2>3, LeaveGood
<1>9. ~ WithinSelected(path, v.device, v.name)
  BY DEF WithinSelected
<1>. QED  BY <1>2, <1>4, <1>6, <1>7, <1>8, <1>9 DEF PropertyDefineDelete

(* The properties C are deleted: one, or those of a group or device when   *)
(* the name n is empty; ds and gs are the nodes taken out with them.       *)
Deleted(C, ds, gs, d, g, n) ==
    /\ DOMAIN tree' = DOMAIN tree \ C
    /\ \A w \in DOMAIN tree' : tree'[w] = tree[w]
    /\ \A p \in Places : DOMAIN tree' \cap At(p[1], p[2]) = {}
                        /\ DOMAIN tree \cap At(p[1], p[2]) # {} => p \in gs
    /\ \A e \in devices \ devices' : e \in ds
    /\ \A w \in C : w.device = d /\ (n = NoName \/ (w.group = g /\ w.name = n))
    /\ \A p \in gs : p[1] = d /\ (n = NoName \/ p[2] = g)
    /\ n # NoName => \A w \in DOMAIN tree' : w.device # d \/ w.name # n

LEMMA DeletionGood ==
    ASSUME TreeInv, TreeInv', WindowInv, NEW C, NEW ds, NEW gs, NEW S \in SUBSET Vectors,
           NEW d, NEW g, NEW n, Deleted(C, ds, gs, d, g, n),
           PropertyDefineDelete(Detach(ds, gs, S), Release(C), d, g, n, TRUE)
    PROVE  WindowInv'
<1>. USE NodeKinds, PathFields
<1>. DEFINE sel == Detach(ds, gs, S)
<1>. USE DEF Deleted
<1>1. /\ path \in Paths /\ crashed \in BOOLEAN
      /\ DOMAIN tree \subseteq Vectors /\ DOMAIN tree' \subseteq Vectors
  BY DEF WindowInv, Good, Sound, TreeInv, NodesInv
<1>2. Remembered(Dead(S))
  BY DEF Remembered
<1>3. ASSUME NEW u \in Vectors, NEW m \in {Null, Live}, path = PropertyPath(u, m)
      PROVE  sel = path /\ path.type = "property"
  BY <1>3 DEF Detach
<1>4. ASSUME NEW e \in Devices, NEW m, path = DevicePath(e, m), Remembered(m)
      PROVE  /\ sel.type = "device" /\ Sound(sel, tree', devices')
             /\ Good(sel, {}, tree', devices') /\ forms = {}
  <2>1. forms = {}
    BY <1>4 DEF WindowInv, Good, Shown
  <2>2. CASE m = Live /\ e \in ds
    <3>1. sel = DevicePath(e, Dead(S))
      BY <1>4, <2>2, PointDevice DEF Detach
    <3>2. sel \in Paths
      BY <3>1 DEF Paths
    <3>. QED  BY <2>1, <3>1, <3>2 DEF Good, Sound, Shown, Current
  <2>3. CASE ~ (m = Live /\ e \in ds)
    <3>1. sel = path
      BY <1>4, <2>3 DEF Detach
    <3>2. m = Live => e \in devices'
      BY <1>4, <2>3 DEF WindowInv, Good, Sound
    <3>. QED  BY <1>1, <1>4, <2>1, <3>1, <3>2 DEF Good, Sound, Shown, Current
  <2>. QED  BY <2>2, <2>3
<1>5. ASSUME NEW p \in Places, NEW m, path = GroupPath(p[1], p[2], m), Remembered(m)
      PROVE  /\ sel.type = "group" /\ sel.device = p[1] /\ sel.group = p[2]
             /\ Sound(sel, tree', devices') /\ (p \notin gs => sel = path)
  <2>0. p = <<p[1], p[2]>>
    BY PlaceParts
  <2>1. CASE m = Live /\ p \in gs
    <3>1. sel = GroupPath(p[1], p[2], Dead(S))
      BY <1>5, <2>0, <2>1, PointGroup DEF Detach
    <3>2. sel \in Paths
      BY <1>2, <2>0, <3>1, GroupPathFits
    <3>. QED  BY <2>1, <3>1, <3>2 DEF Sound
  <2>2. CASE ~ (m = Live /\ p \in gs)
    <3>1. sel = path
      BY <1>5, <2>0, <2>2 DEF Detach
    <3>2. m = Live => DOMAIN tree' \cap At(p[1], p[2]) # {}
      BY <1>5, <2>2 DEF WindowInv, Good, Sound
    <3>. QED  BY <1>1, <1>5, <3>1, <3>2 DEF Sound
  <2>. QED  BY <2>1, <2>2
<1>6. CASE SelectedProperty(sel, d, n) /\ Leave(PointTo(sel, sel.group, Null), {})
  <2>1. PICK u \in Vectors, m \in {Null, Live} : path = PropertyPath(u, m)
    <3>1. sel.type = "property"
      BY <1>6 DEF SelectedProperty
    <3>2. CASE path = ClearedPath
      BY <3>1, <3>2 DEF Detach
    <3>3. CASE \E e \in Devices : \E m : path = DevicePath(e, m) /\ Remembered(m)
      BY <1>4, <3>1, <3>3
    <3>4. CASE \E p \in Places : \E m : path = GroupPath(p[1], p[2], m) /\ Remembered(m)
      <4>1. PICK p, m : p \in Places /\ path = GroupPath(p[1], p[2], m) /\ Remembered(m)
        BY <3>4
      <4>. QED  BY <1>5, <3>1, <4>1
    <3>. QED  BY <1>1, <3>2, <3>3, <3>4, PathCases
  <2>2. sel = path /\ u.device = d /\ u.name = n /\ n # NoName
    BY <1>3, <1>6, <2>1, VectorPlace DEF SelectedProperty
  <2>3. PointTo(sel, sel.group, Null) = PropertyPath(u, Null)
    BY <2>1, <2>2, PointProperty
  <2>4. NamedIn(PropertyPath(u, Null), tree') = {}
    BY <1>1, <2>2 DEF NamedIn
  <2>5. Good(PropertyPath(u, Null), {}, tree', devices')
    BY <2>4 DEF Good, Sound, Shown, Current, ShownVectors, Paths
  <2>. QED  BY <1>1, <1>6, <2>3, <2>5, LeaveGood
<1>7. CASE SelectedGroup(sel, d, g) /\ RepaintPropertyWindow(sel, {})
  <2>1. sel.type = "group"
    BY <1>7 DEF SelectedGroup
  <2>2. PICK p, m : p \in Places /\ path = GroupPath(p[1], p[2], m) /\ Remembered(m)
    <3>1. CASE path = ClearedPath
      BY <2>1, <3>1 DEF Detach
    <3>2. CASE \E e \in Devices : \E m : path = DevicePath(e, m) /\ Remembered(m)
      BY <1>4, <2>1, <3>2
    <3>3. CASE \E u \in Vectors, m \in {Null, Live} : path = PropertyPath(u, m)
      BY <1>3, <2>1, <3>3
    <3>. QED  BY <1>1, <3>1, <3>2, <3>3, PathCases
  <2>3. Sound(sel, tree', devices')
    BY <1>5, <2>2
  <2>. QED  BY <1>1, <1>7, <2>3, RepaintGood
<1>8. CASE WithinSelected(sel, d, n) /\ Leave(ClearedPath, {})
  BY <1>1, <1>8, ClearedGood, LeaveGood
<1>9. CASE /\ ~ SelectedProperty(sel, d, n) /\ ~ SelectedGroup(sel, d, g)
           /\ ~ WithinSelected(sel, d, n) /\ Leave(sel, Release(C))
  <2>. SUFFICES Good(sel, Release(C), tree', devices')
    BY <1>1, <1>9, LeaveGood
  <2>1. ASSUME \A f \in forms : f.vector \notin C
        PROVE  Release(C) = forms
    BY <2>1 DEF Release
  <2>2. CASE path = ClearedPath
    <3>1. sel = path /\ forms = {}
      BY <2>2 DEF Detach, WindowInv, Good, Shown
    <3>2. Release(C) = {}
      BY <3>1 DEF Release
    <3>3. Good(ClearedPath, {}, tree', devices')
      BY ClearedGood
    <3>. QED  BY <2>2, <3>1, <3>2, <3>3
  <2>3. CASE \E e \in Devices : \E m : path = DevicePath(e, m) /\ Remembered(m)
    BY <1>4, <2>1, <2>3
  <2>4. CASE \E p \in Places : \E m : path = GroupPath(p[1], p[2], m) /\ Remembered(m)
    <3>1. PICK p, m : p \in Places /\ path = GroupPath(p[1], p[2], m) /\ Remembered(m)
      BY <2>4
    <3>2. /\ sel.type = "group" /\ sel.device = p[1] /\ sel.group = p[2]
          /\ p \notin gs => sel = path
      BY <1>5, <3>1
    <3>3. p[1] # d \/ (n # NoName /\ p[2] # g)
      BY <1>9, <3>2 DEF SelectedGroup, WithinSelected
    <3>4. p \notin gs /\ C \cap At(p[1], p[2]) = {}
      BY <3>3 DEF At
    <3>5. Good(path, forms, tree', devices') /\ \A f \in forms : f.vector \notin C
      <4>1. path.type = "group" /\ C \cap At(path.device, path.group) = {}
        BY <3>1, <3>4
      <4>2. /\ \A w \in Vectors \ C : w \in DOMAIN tree' <=> w \in DOMAIN tree
            /\ \A w \in DOMAIN tree \ C : tree'[w] = tree[w]
        BY <1>1
      <4>. QED  BY <1>1, <4>1, <4>2, UnconcernedGood
    <3>. QED  BY <2>1, <3>2, <3>4, <3>5
  <2>5. CASE \E u \in Vectors, m \in {Null, Live} : path = PropertyPath(u, m)
    <3>1. PICK u \in Vectors, m \in {Null, Live} : path = PropertyPath(u, m)
      BY <2>5
    <3>2. sel = path
      BY <1>3, <3>1
    <3>3. u.device # d \/ (n # NoName /\ u.name # n)
      BY <1>9, <3>1, <3>2 DEF SelectedProperty, WithinSelected
    <3>4. \A w \in C : w.device # path.device \/ w.name # path.property
      BY <3>1, <3>3
    <3>5. Good(path, forms, tree', devices') /\ \A f \in forms : f.vector \notin C
      BY <1>1, <3>1, <3>4, UnconcernedGood
    <3>. QED  BY <2>1, <3>2, <3>5
  <2>. QED  BY <1>1, <2>2, <2>3, <2>4, <2>5, PathCases
<1>. QED  BY <1>6, <1>7, <1>8, <1>9 DEF PropertyDefineDelete

LEMMA DeletePropertyStep ==
    ASSUME TreeInv, WindowInv, NEW v \in Vectors, DeleteProperty(v)
    PROVE  TreeInv' /\ WindowInv'
<1>. USE VectorPlace
<1>1. /\ TakeProperty(v)
      /\ PropertyDefineDelete(Detach(EmptyDevice(v), EmptyGroup(v), {}), Release({v}),
                              v.device, v.group, v.name, TRUE)
  BY DEF DeleteProperty
<1>2. TreeInv' /\ DOMAIN tree' = DOMAIN tree \ {v}
  BY <1>1, TakeKeepsTree
<1>3. \A w \in DOMAIN tree' : tree'[w] = tree[w]
  BY <1>1, ForgetLeaves DEF TakeProperty
<1>4. ASSUME NEW p \in Places, DOMAIN tree' \cap At(p[1], p[2]) = {},
             DOMAIN tree \cap At(p[1], p[2]) # {}
      PROVE  p \in EmptyGroup(v)
  <2>1. v \in DOMAIN tree /\ v \in At(p[1], p[2])
    BY <1>2, <1>4
  <2>2. p = PlaceOf(v)
    BY <2>1, PlaceParts DEF At, PlaceOf
  <2>3. EmptiesGroup(v)
    BY <1>2, <1>4, <2>1, <2>2, LeftLists
  <2>. QED  BY <2>2, <2>3 DEF EmptyGroup
<1>5. ASSUME NEW e \in devices \ devices'
      PROVE  e \in EmptyDevice(v)
  <2>1. CASE EmptiesDevice(v)
    <3>1. Elements(root') = Elements(root) \ {v.device}
      BY <1>1, <2>1, OrdersFit, WithoutKeepsOrder DEF TakeProperty, TreeInv, ListsInv
    <3>. QED  BY <2>1, <3>1 DEF devices, EmptyDevice
  <2>2. CASE ~ EmptiesDevice(v)
    BY <1>1, <2>2 DEF TakeProperty, devices
  <2>. QED  BY <2>1, <2>2
<1>6. \A w \in DOMAIN tree' : w.device # v.device \/ w.name # v.name
  BY <1>2, WindowAssumption DEF TreeInv, NodesInv
<1>7. \A p \in EmptyGroup(v) : p[1] = v.device /\ (v.name = NoName \/ p[2] = v.group)
  BY DEF EmptyGroup
<1>8. \A w \in {v} : w.device = v.device
        /\ (v.name = NoName \/ (w.group = v.group /\ w.name = v.name))
  OBVIOUS
<1>9. Deleted({v}, EmptyDevice(v), EmptyGroup(v), v.device, v.group, v.name)
  BY <1>2, <1>3, <1>4, <1>5, <1>6, <1>7, <1>8 DEF Deleted
<1>10. {} \in SUBSET Vectors
  OBVIOUS
<1>. QED  BY <1>1, <1>2, <1>9, <1>10, DeletionGood

LEMMA DeleteGroupStep ==
    ASSUME TreeInv, WindowInv, NEW q \in Places, DeleteGroup(q[1], q[2])
    PROVE  TreeInv' /\ WindowInv'
<1>. DEFINE C == Elements(propsOf[<<q[1], q[2]>>])
<1>1. /\ TakeGroup(q[1], q[2])
      /\ PropertyDefineDelete(Detach({}, {<<q[1], q[2]>>}, C), Release(C),
                              q[1], q[2], NoName, TRUE)
  BY DEF DeleteGroup
<1>2. TreeInv' /\ DOMAIN tree' = DOMAIN tree \ At(q[1], q[2])
  BY <1>1, TakeGroupKeepsTree
<1>3. C = DOMAIN tree \cap At(q[1], q[2]) /\ C \subseteq Vectors
  BY PlaceParts DEF TreeInv, NodesInv, At
<1>4. \A w \in DOMAIN tree' : tree'[w] = tree[w]
  BY <1>1, ForgetLeaves DEF TakeGroup
<1>5. ASSUME NEW p \in Places, DOMAIN tree' \cap At(p[1], p[2]) = {},
             DOMAIN tree \cap At(p[1], p[2]) # {}
      PROVE  p \in {<<q[1], q[2]>>}
  <2>1. PICK w \in DOMAIN tree : w \in At(p[1], p[2]) /\ w \in At(q[1], q[2])
    BY <1>2, <1>5
  <2>2. p[1] = q[1] /\ p[2] = q[2]
    BY <2>1 DEF At
  <2>. QED  BY <2>2, PlaceParts
<1>6. devices \ devices' = {}
  BY <1>1 DEF TakeGroup, devices
<1>7. DOMAIN tree' = DOMAIN tree \ C
  BY <1>2, <1>3
<1>8. \A w \in C : w.device = q[1]
  BY <1>3 DEF At
<1>. HIDE DEF C
<1>9. Deleted(C, {}, {<<q[1], q[2]>>}, q[1], q[2], NoName)
  BY <1>4, <1>5, <1>6, <1>7, <1>8 DEF Deleted
<1>10. C \in SUBSET Vectors
  BY <1>3
<1>. QED  BY <1>1, <1>2, <1>9, <1>10, DeletionGood

LEMMA DeleteDeviceStep ==
    ASSUME TreeInv, WindowInv, NEW d \in Devices, DeleteDevice(d)
    PROVE  TreeInv' /\ WindowInv'
<1>. DEFINE C == PropertiesOf(d)
            gs == {p \in groups : p[1] = d}
            S == IF path.type = "group" THEN C \cap At(d, path.group) ELSE C
<1>1. /\ TakeDevice(d)
      /\ PropertyDefineDelete(Detach({d}, gs, S), Release(C), d, NoName, NoName, TRUE)
  BY DEF DeleteDevice
<1>2. /\ TreeInv' /\ DOMAIN tree' = DOMAIN tree \ Of(d)
      /\ Elements(root') = Elements(root) \ {d}
  BY <1>1, TakeDeviceKeepsTree
<1>3. C = DOMAIN tree \cap Of(d) /\ C \subseteq Vectors /\ S \in SUBSET Vectors
  BY PropertiesOfDevice DEF Of
<1>4. \A w \in DOMAIN tree' : tree'[w] = tree[w]
  BY <1>1, ForgetLeaves DEF TakeDevice
<1>5. ASSUME NEW p \in Places, DOMAIN tree' \cap At(p[1], p[2]) = {},
             DOMAIN tree \cap At(p[1], p[2]) # {}
      PROVE  p \in gs
  <2>1. PICK w \in DOMAIN tree : w \in At(p[1], p[2]) /\ w \in Of(d)
    BY <1>2, <1>5
  <2>2. p[1] = d /\ w.group = p[2]
    BY <2>1 DEF At, Of
  <2>3. p[2] \in Elements(groupsOf[d])
    BY <2>1, <2>2 DEF TreeInv, NodesInv, NoEmptyNodes
  <2>. QED  BY <2>2, <2>3 DEF groups
<1>6. \A e \in devices \ devices' : e \in {d}
  BY <1>2 DEF devices
<1>7. DOMAIN tree' = DOMAIN tree \ C
  BY <1>2, <1>3
<1>8. (\A w \in C : w.device = d) /\ (\A p \in gs : p[1] = d)
  BY <1>3 DEF Of
<1>. HIDE DEF C, gs, S
<1>9. Deleted(C, {d}, gs, d, NoName, NoName)
  BY <1>4, <1>5, <1>6, <1>7, <1>8 DEF Deleted
<1>. QED  BY <1>1, <1>2, <1>3, <1>9, DeletionGood

LEMMA UpdateStep ==
    ASSUME TreeInv, WindowInv, NEW v \in Vectors, NEW x \in Contents, UpdateProperty(v, x)
    PROVE  TreeInv' /\ WindowInv'
<1>. USE NodeKinds, PathFields, VectorPlace
<1>1. /\ v \in DOMAIN tree /\ DOMAIN tree' = DOMAIN tree
      /\ tree' \in [DOMAIN tree' -> Contents]
      /\ tree'[v] = x /\ \A w \in DOMAIN tree : w # v => tree'[w] = tree[w]
      /\ UNCHANGED <<root, groupsOf, propsOf, path, crashed>>
  BY DEF UpdateProperty, TreeInv, NodesInv
<1>2. ListsInv' /\ NodesInv'
  BY <1>1 DEF TreeInv, ListsInv, NodesInv, NoEmptyNodes, devices
<1>3. StateInv'
  <2>1. deviceState' \in [Devices -> {"idle", "ok"}]
    BY DEF UpdateProperty, CopyConnection, TreeInv, StateInv
  <2>2. ASSUME NEW w \in DOMAIN tree', w.name = Connection
        PROVE  deviceState'[w.device] = IF tree'[w] \in Connected THEN "ok" ELSE "idle"
    <3>1. w \in Vectors /\ w \in DOMAIN tree
      BY <1>1 DEF TreeInv, NodesInv
    <3>2. CASE w = v
      BY <1>1, <2>2, <3>2 DEF UpdateProperty, CopyConnection, TreeInv, StateInv
    <3>3. CASE w # v
      <4>1. v.name = Connection => w.device # v.device
        BY <2>2, <3>1, <3>3, WindowAssumption
      <4>2. deviceState'[w.device] = deviceState[w.device]
        BY <3>1, <4>1 DEF UpdateProperty, CopyConnection, TreeInv, StateInv
      <4>. QED  BY <1>1, <2>2, <3>1, <3>3, <4>2 DEF TreeInv, StateInv, DeviceFollowsConnection
    <3>. QED  BY <3>2, <3>3
  <2>. QED  BY <2>1, <2>2 DEF StateInv, DeviceFollowsConnection
<1>. DEFINE New(f) == IF f.vector = v /\ f.object = "live" THEN [f EXCEPT !.shown = x] ELSE f
<1>4. forms' = {New(f) : f \in forms} /\ Current(forms, tree)
  BY DEF UpdateProperty, WindowInv, Good, Shown
<1>5. ASSUME NEW f \in forms
      PROVE  /\ New(f) \in [vector: Vectors, object: {"live", "released"}, shown: Contents]
             /\ New(f).object = "live" /\ New(f).vector = f.vector
             /\ New(f).vector \in DOMAIN tree' /\ New(f).shown = tree'[New(f).vector]
  <2>1. /\ f \in [vector: Vectors, object: {"live", "released"}, shown: Contents]
        /\ f.object = "live" /\ f.vector \in DOMAIN tree /\ f.shown = tree[f.vector]
    BY <1>4 DEF Current
  <2>2. CASE f.vector = v
    BY <1>1, <2>1, <2>2
  <2>3. CASE f.vector # v
    BY <1>1, <2>1, <2>3
  <2>. QED  BY <2>2, <2>3
<1>. HIDE DEF New
<1>6. Current(forms', tree')
  BY <1>4, <1>5 DEF Current
<1>7. ShownVectors(forms') = ShownVectors(forms) /\ (forms = {} => forms' = {})
  <2>1. ShownVectors(forms') = {New(f).vector : f \in forms}
    BY <1>4 DEF ShownVectors
  <2>. QED  BY <1>4, <1>5, <2>1 DEF ShownVectors
<1>8. NamedIn(path, tree') = NamedIn(path, tree) /\ devices' = devices
  BY <1>1 DEF NamedIn, devices
<1>9. WindowInv'
  BY <1>1, <1>6, <1>7, <1>8 DEF WindowInv, Good, Sound, Shown
<1>. QED  BY <1>2, <1>3, <1>9 DEF TreeInv

LEMMA SelectionStep ==
    ASSUME TreeInv, WindowInv, OnSelectionChanged
    PROVE  TreeInv' /\ WindowInv'
<1>. USE NodeKinds, PathFields
<1>1. UNCHANGED treeVars /\ crashed \in BOOLEAN
  BY DEF OnSelectionChanged, WindowInv
<1>2. TreeInv' /\ tree' = tree /\ devices' = devices
  BY <1>1 DEF treeVars, TreeInv, ListsInv, NodesInv, StateInv, NoEmptyNodes,
              DeviceFollowsConnection, devices
<1>3. CASE Leave(ClearedPath, {})
  BY <1>1, <1>2, <1>3, ClearedGood, LeaveGood
<1>4. ASSUME NEW d \in devices, RepaintPropertyWindow(DevicePath(d, Live), {})
      PROVE  WindowInv'
  <2>1. d \in Devices
    BY EmptyMeansNothing DEF devices, TreeInv, ListsInv, OrderedListOf
  <2>2. Sound(DevicePath(d, Live), tree', devices')
    BY <1>2, <2>1 DEF Sound, Paths
  <2>. QED  BY <1>1, <1>2, <1>4, <2>2, RepaintGood
<1>5. ASSUME NEW p \in groups, RepaintPropertyWindow(GroupPath(p[1], p[2], Live), {})
      PROVE  WindowInv'
  <2>1. p \in Places /\ p[2] \in Elements(groupsOf[p[1]]) /\ p[1] \in Devices
    BY PlaceParts DEF groups
  <2>2. PICK w \in DOMAIN tree \cap Of(p[1]) : w.group = p[2]
    BY <2>1 DEF TreeInv, NodesInv, NoEmptyNodes
  <2>3. w \in At(p[1], p[2])
    BY <2>2 DEF Of, At
  <2>4. GroupPath(p[1], p[2], Live) \in Paths
    BY <2>1 DEF Paths
  <2>5. Sound(GroupPath(p[1], p[2], Live), tree', devices')
    BY <1>2, <2>2, <2>3, <2>4 DEF Sound
  <2>. QED  BY <1>1, <1>2, <1>5, <2>5, RepaintGood
<1>6. ASSUME NEW v \in DOMAIN tree, RepaintPropertyWindow(PropertyPath(v, Live), {})
      PROVE  WindowInv'
  <2>1. v \in Vectors /\ DOMAIN tree \subseteq Vectors
    BY DEF TreeInv, NodesInv
  <2>2. NamedIn(PropertyPath(v, Live), tree) = {v}
    BY <2>1, NamedByPath
  <2>3. Sound(PropertyPath(v, Live), tree', devices')
    BY <1>2, <2>1, <2>2 DEF Sound, Paths
  <2>. QED  BY <1>1, <1>2, <1>6, <2>3, RepaintGood
<1>. QED  BY <1>2, <1>3, <1>4, <1>5, <1>6 DEF OnSelectionChanged

(* Painting the selected node again, on a window that is not cleared.      *)
LEMMA RepaintStep ==
    ASSUME TreeInv, WindowInv, RepaintSelected
    PROVE  TreeInv' /\ WindowInv'
<1>. USE NodeKinds, PathFields
<1>1. /\ UNCHANGED treeVars /\ crashed \in BOOLEAN /\ path \in Paths
      /\ RepaintPropertyWindow(path, forms)
  BY DEF RepaintSelected, WindowInv, Good, Sound
<1>2. TreeInv' /\ tree' = tree /\ devices' = devices
  BY <1>1 DEF treeVars, TreeInv, ListsInv, NodesInv, StateInv, NoEmptyNodes,
              DeviceFollowsConnection, devices
<1>3. Sound(path, tree', devices')
  BY <1>2 DEF WindowInv, Good
<1>4. CASE path.node = Null
  <2>1. path.type # "device"
    BY <1>1, <1>4, PathCases DEF Remembered
  <2>2. UNCHANGED <<path, forms, crashed>>
    BY <1>1, <1>4, <2>1 DEF RepaintPropertyWindow, ShowProperties, Show
  <2>. QED  BY <1>2, <2>2 DEF WindowInv
<1>5. CASE path.node # Null
  <2>1. \A open \in MainOf(path) : open.node # Null
    BY DEF MainOf
  <2>2. RepaintPropertyWindow(path, {})
    BY <1>1, <1>5, <2>1 DEF RepaintPropertyWindow, ShowProperties
  <2>. QED  BY <1>1, <1>2, <1>3, <2>2, RepaintGood
<1>. QED  BY <1>2, <1>4, <1>5

LEMMA InitKeeps ==
    Init => TreeInv /\ WindowInv
<1>. SUFFICES ASSUME Init PROVE TreeInv /\ WindowInv
  OBVIOUS
<1>1. ListsInv
  BY EmptyListFits DEF Init, ListsInv, OrderedListOf
<1>2. DOMAIN tree = {} /\ tree \in [DOMAIN tree -> Contents]
  BY DEF Init
<1>3. NodesInv
  BY <1>2, EmptyListFits DEF Init, NodesInv, NoEmptyNodes, devices
<1>4. StateInv
  BY <1>2 DEF Init, StateInv, DeviceFollowsConnection
<1>5. Good(ClearedPath, {}, tree, devices)
  BY ClearedGood
<1>. QED  BY <1>1, <1>3, <1>4, <1>5 DEF TreeInv, WindowInv, Init

LEMMA NextKeeps ==
    TreeInv /\ WindowInv /\ [Next]_vars => TreeInv' /\ WindowInv'
<1>. SUFFICES ASSUME TreeInv, WindowInv, [Next]_vars PROVE TreeInv' /\ WindowInv'
  OBVIOUS
<1>1. CASE UNCHANGED vars
  BY <1>1 DEF vars, TreeInv, ListsInv, NodesInv, StateInv, NoEmptyNodes,
              DeviceFollowsConnection, devices, WindowInv
<1>2. ASSUME NEW v \in Vectors, NEW x \in Contents, DefineProperty(v, x)
      PROVE  TreeInv' /\ WindowInv'
  BY <1>2, DefineStep
<1>3. ASSUME NEW v \in Vectors, NEW x \in Contents, UpdateProperty(v, x)
      PROVE  TreeInv' /\ WindowInv'
  BY <1>3, UpdateStep
<1>4. ASSUME NEW v \in Vectors, DeleteProperty(v)
      PROVE  TreeInv' /\ WindowInv'
  BY <1>4, DeletePropertyStep
<1>5. ASSUME NEW p \in Places, DeleteGroup(p[1], p[2])
      PROVE  TreeInv' /\ WindowInv'
  BY <1>5, DeleteGroupStep
<1>6. ASSUME NEW d \in Devices, DeleteDevice(d)
      PROVE  TreeInv' /\ WindowInv'
  BY <1>6, DeleteDeviceStep
<1>. QED  BY <1>1, <1>2, <1>3, <1>4, <1>5, <1>6, SelectionStep, RepaintStep DEF Next
-----------------------------------------------------------------------------
(* In every state the tree has its shape and the window is in step with it. *)
THEOREM Invariant ==
    Spec => [](TreeInv /\ WindowInv)
<1>1. Init => TreeInv /\ WindowInv
  BY InitKeeps
<1>2. TreeInv /\ WindowInv /\ [Next]_vars => (TreeInv /\ WindowInv)'
  BY NextKeeps
<1>. QED  BY <1>1, <1>2, PTL DEF Spec

(* The variables have their types in every state: pointers of the selection *)
(* are null, in the tree or dead, lists lie within their arrays.            *)
THEOREM TypeCorrect ==
    Spec => []TypeOK
<1>1. TreeInv /\ WindowInv => TypeOK
  <2>. SUFFICES ASSUME TreeInv, WindowInv PROVE TypeOK
    OBVIOUS
  <2>1. /\ DOMAIN tree \subseteq Vectors /\ tree \in [DOMAIN tree -> Contents]
        /\ deviceState \in [Devices -> {"idle", "ok"}]
        /\ path \in Paths /\ crashed \in BOOLEAN
    BY DEF TreeInv, NodesInv, StateInv, WindowInv, Good, Sound
  <2>2. forms \subseteq [vector: Vectors, object: {"live", "released"}, shown: Contents]
    BY DEF WindowInv, Good, Shown, Current
  <2>. QED  BY <2>1, <2>2 DEF TypeOK, TreeInv, ListsInv, OrderedListOf
<1>. QED  BY <1>1, Invariant, PTL

(* The tree is in alphabetical order on every level, however the lists grew *)
(* and shrank, and lists just the properties that are defined.              *)
THEOREM TreeStaysInOrder ==
    Spec => []TreeInOrder
<1>1. TreeInv => TreeInOrder
  BY DEF TreeInv, ListsInv, NodesInv, OrderedListOf, TreeInOrder, InOrder
<1>. QED  BY <1>1, Invariant, PTL

(* No group without properties is ever in the tree.                         *)
THEOREM NoNodeIsEmpty ==
    Spec => []NoEmptyNodes
<1>1. TreeInv => NoEmptyNodes
  BY DEF TreeInv, NodesInv
<1>. QED  BY <1>1, Invariant, PTL

(* The icon of a device always shows what its CONNECTION property says.     *)
THEOREM IconIsRight ==
    Spec => []DeviceFollowsConnection
<1>1. TreeInv => DeviceFollowsConnection
  BY DEF TreeInv, StateInv
<1>. QED  BY <1>1, Invariant, PTL

(* No form ever points to a released property or shows old contents.        *)
THEOREM FormsStayCurrent ==
    Spec => []FormsCurrent
<1>1. WindowInv => FormsCurrent
  BY DEF WindowInv, Good, Shown, Current, FormsCurrent
<1>. QED  BY <1>1, Invariant, PTL

(* What is selected is what the window shows.                               *)
THEOREM SelectionIsShown ==
    Spec => []SelectionShown
<1>1. WindowInv => SelectionShown
  BY DEF WindowInv, Good, Sound, Shown, ShownVectors, NamedIn, SelectionShown, Named
<1>. QED  BY <1>1, Invariant, PTL

(* A node the selection points to, and that is not dead, is in the tree     *)
(* under the selected names.                                                *)
THEOREM SelectionStaysInTree ==
    Spec => []SelectionInTree
<1>1. TreeInv /\ WindowInv => SelectionInTree
  <2>. SUFFICES ASSUME TreeInv, WindowInv, path.node = Live
                PROVE  CASE path.type = "device" -> path.device \in devices
                         [] path.type = "group" -> <<path.device, path.group>> \in groups
                         [] path.type = "property" -> Named # {}
    BY DEF SelectionInTree
  <2>. USE NodeKinds, PathFields
  <2>1. path \in Paths /\ path.type \in {"device", "group", "property"}
    BY PathCases DEF WindowInv, Good, Sound
  <2>2. CASE path.type = "device"
    BY <2>2 DEF WindowInv, Good, Sound
  <2>3. CASE path.type = "group"
    <3>1. PICK w \in DOMAIN tree : w \in At(path.device, path.group)
      BY <2>3 DEF WindowInv, Good, Sound
    <3>2. /\ w \in Vectors /\ PlaceOf(w) = <<path.device, path.group>>
          /\ w \in DOMAIN tree \cap Of(path.device) /\ w.group = path.group
          /\ path.device \in Devices
      BY <3>1, VectorPlace DEF At, Of, PlaceOf
    <3>3. path.group \in Elements(groupsOf[path.device])
      <4>1. Elements(groupsOf[path.device]) = {u.group : u \in DOMAIN tree \cap Of(path.device)}
        BY <3>2 DEF TreeInv, NodesInv, NoEmptyNodes
      <4>. QED  BY <3>2, <4>1
    <3>. QED  BY <2>3, <3>2, <3>3, VectorPlace DEF groups
  <2>4. CASE path.type = "property"
    BY <2>4 DEF WindowInv, Good, Sound, NamedIn, Named
  <2>. QED  BY <2>1, <2>2, <2>3, <2>4
<1>. QED  BY <1>1, Invariant, PTL
-----------------------------------------------------------------------------
(* The forms in the window are of the selected device.                     *)
LEMMA FormsOfDevice ==
    ASSUME TreeInv, WindowInv, NEW f \in forms
    PROVE  f.vector \in Vectors /\ f.vector.device = path.device
<1>. USE NodeKinds, PathFields
<1>1. path \in Paths /\ f.vector \in Vectors /\ f.vector \in ShownVectors(forms)
  BY DEF WindowInv, Good, Sound, Shown, Current, ShownVectors
<1>2. CASE path.type = "property"
  BY <1>1, <1>2 DEF WindowInv, Good, Shown, NamedIn
<1>3. CASE path.type = "group" /\ path.node = Live
  BY <1>1, <1>3 DEF WindowInv, Good, Shown, At
<1>4. path.type \in {"root", "device"} \/ path.node.status = "dead"
      \/ path.type = "property" \/ (path.type = "group" /\ path.node = Live)
  BY <1>1, PathCases DEF Remembered
<1>5. ~ (path.type \in {"root", "device"} \/ path.node.status = "dead")
  BY DEF WindowInv, Good, Shown
<1>. QED  BY <1>1, <1>2, <1>3, <1>4, <1>5

(* A notice about another device than the selected one is ignored.          *)
LEMMA NoticeIgnored ==
    ASSUME NEW sel, NEW base, NEW d, NEW g, NEW n, NEW deleted, sel.device # d,
           PropertyDefineDelete(sel, base, d, g, n, deleted)
    PROVE  path' = sel /\ forms' = base
BY DEF PropertyDefineDelete, SelectedProperty, SelectedGroup, WithinSelected, Leave, Show

(* The deletion of properties of device d, with nodes of that device.       *)
Elsewhere(C, ds, gs, d) ==
    /\ path.device # d
    /\ \A w \in C : w.device = d
    /\ \A e \in ds : e = d
    /\ \A p \in gs : p[1] = d

LEMMA DeletionElsewhere ==
    ASSUME TreeInv, WindowInv, NEW C, NEW ds, NEW gs, NEW S, NEW d, NEW g, NEW n,
           Elsewhere(C, ds, gs, d),
           PropertyDefineDelete(Detach(ds, gs, S), Release(C), d, g, n, TRUE)
    PROVE  UNCHANGED <<path, forms>>
<1>1. Detach(ds, gs, S) = path
  BY DEF Detach, Elsewhere
<1>2. Release(C) = forms
  <2>1. \A f \in forms : f.vector \notin C
    BY FormsOfDevice DEF Elsewhere
  <2>. QED  BY <2>1 DEF Release
<1>. QED  BY <1>1, <1>2, NoticeIgnored DEF Elsewhere

(* Only properties of d change when a part of d's properties goes.          *)
LEMMA ChangedByDeletion ==
    ASSUME NEW C, NEW d, DOMAIN tree' = DOMAIN tree \ C,
           \A w \in DOMAIN tree' : tree'[w] = tree[w],
           \A w \in C : w.device = d
    PROVE  ChangedDevices \subseteq {d}
<1>. SUFFICES ASSUME NEW w \in Vectors,
                     \/ (w \in DOMAIN tree) # (w \in DOMAIN tree')
                     \/ w \in DOMAIN tree /\ w \in DOMAIN tree' /\ tree[w] # tree'[w]
              PROVE  w.device = d
  BY DEF ChangedDevices
<1>1. w \in C
  OBVIOUS
<1>. QED  BY <1>1

LEMMA OthersKept ==
    ASSUME TreeInv, WindowInv, Next, ChangedDevices # {}, path.device \notin ChangedDevices
    PROVE  UNCHANGED <<path, forms>>
<1>. USE VectorPlace
<1>1. ASSUME NEW v \in Vectors, NEW x \in Contents, DefineProperty(v, x)
      PROVE  UNCHANGED <<path, forms>>
  <2>1. v \notin DOMAIN tree /\ v \in DOMAIN tree'
    BY <1>1, InsertKeepsNodes DEF DefineProperty
  <2>2. v.device \in ChangedDevices
    BY <2>1 DEF ChangedDevices
  <2>3. PropertyDefineDelete(path, forms, v.device, v.group, v.name, FALSE)
    BY <1>1 DEF DefineProperty
  <2>. QED  BY <2>2, <2>3, NoticeIgnored
<1>2. ASSUME NEW v \in Vectors, NEW x \in Contents, UpdateProperty(v, x)
      PROVE  UNCHANGED <<path, forms>>
  <2>1. ChangedDevices \subseteq {v.device}
    BY <1>2 DEF UpdateProperty, ChangedDevices
  <2>2. \A f \in forms : f.vector # v
    BY <2>1, FormsOfDevice
  <2>3. forms' = {f : f \in forms}
    BY <1>2, <2>2 DEF UpdateProperty
  <2>. QED  BY <1>2, <2>3 DEF UpdateProperty
<1>3. ASSUME NEW v \in Vectors, DeleteProperty(v)
      PROVE  UNCHANGED <<path, forms>>
  <2>1. /\ TakeProperty(v)
        /\ PropertyDefineDelete(Detach(EmptyDevice(v), EmptyGroup(v), {}), Release({v}),
                                v.device, v.group, v.name, TRUE)
    BY <1>3 DEF DeleteProperty
  <2>2. DOMAIN tree' = DOMAIN tree \ {v} /\ \A w \in DOMAIN tree' : tree'[w] = tree[w]
    BY <2>1, ForgetLeaves DEF TakeProperty
  <2>3. ChangedDevices \subseteq {v.device}
    BY <2>2, ChangedByDeletion
  <2>4. (\A e \in EmptyDevice(v) : e = v.device) /\ (\A p \in EmptyGroup(v) : p[1] = v.device)
    BY DEF EmptyDevice, EmptyGroup
  <2>5. path.device # v.device
    BY <2>3
  <2>6. \A w \in {v} : w.device = v.device
    OBVIOUS
  <2>7. Elsewhere({v}, EmptyDevice(v), EmptyGroup(v), v.device)
    BY <2>4, <2>5, <2>6 DEF Elsewhere
  <2>. QED  BY <2>1, <2>7, DeletionElsewhere
<1>4. ASSUME NEW q \in Places, DeleteGroup(q[1], q[2])
      PROVE  UNCHANGED <<path, forms>>
  <2>. DEFINE C == Elements(propsOf[<<q[1], q[2]>>])
  <2>1. /\ TakeGroup(q[1], q[2])
        /\ PropertyDefineDelete(Detach({}, {<<q[1], q[2]>>}, C), Release(C),
                                q[1], q[2], NoName, TRUE)
    BY <1>4 DEF DeleteGroup
  <2>2. DOMAIN tree' = DOMAIN tree \ C /\ \A w \in DOMAIN tree' : tree'[w] = tree[w]
    BY <2>1, ForgetLeaves DEF TakeGroup
  <2>3. \A w \in C : w.device = q[1]
    BY PlaceParts DEF TreeInv, NodesInv, At
  <2>. HIDE DEF C
  <2>4. path.device # q[1]
    BY <2>2, <2>3, ChangedByDeletion
  <2>5. \A p \in {<<q[1], q[2]>>} : p[1] = q[1]
    OBVIOUS
  <2>6. Elsewhere(C, {}, {<<q[1], q[2]>>}, q[1])
    BY <2>3, <2>4, <2>5 DEF Elsewhere
  <2>. QED  BY <2>1, <2>6, DeletionElsewhere
<1>5. ASSUME NEW d \in Devices, DeleteDevice(d)
      PROVE  UNCHANGED <<path, forms>>
  <2>. DEFINE C == PropertiesOf(d)
              gs == {p \in groups : p[1] = d}
              S == IF path.type = "group" THEN C \cap At(d, path.group) ELSE C
  <2>1. /\ TakeDevice(d)
        /\ PropertyDefineDelete(Detach({d}, gs, S), Release(C), d, NoName, NoName, TRUE)
    BY <1>5 DEF DeleteDevice
  <2>2. DOMAIN tree' = DOMAIN tree \ C /\ \A w \in DOMAIN tree' : tree'[w] = tree[w]
    BY <2>1, ForgetLeaves DEF TakeDevice
  <2>3. (\A w \in C : w.device = d) /\ (\A p \in gs : p[1] = d)
    BY PropertiesOfDevice DEF Of
  <2>. HIDE DEF C, gs, S
  <2>4. path.device # d
    BY SMTT(60), <2>2, <2>3, ChangedByDeletion
  <2>5. \A e \in {d} : e = d
    OBVIOUS
  <2>6. Elsewhere(C, {d}, gs, d)
    BY <2>3, <2>4, <2>5 DEF Elsewhere
  <2>. QED  BY <2>1, <2>6, DeletionElsewhere
<1>6. CASE OnSelectionChanged \/ RepaintSelected
  <2>1. tree' = tree
    BY <1>6 DEF OnSelectionChanged, RepaintSelected, treeVars
  <2>2. ChangedDevices = {}
    BY <2>1 DEF ChangedDevices
  <2>. QED  BY <2>2
<1>. QED  BY <1>1, <1>2, <1>3, <1>4, <1>5, <1>6 DEF Next

(* What happens to one device never changes the window of another.          *)
THEOREM OthersKeepWindow ==
    Spec => OtherDevicesKeepWindow
<1>1. TreeInv /\ WindowInv /\ [Next]_vars
        => [ChangedDevices # {} /\ path.device \notin ChangedDevices
              => UNCHANGED <<path, forms>>]_vars
  BY OthersKept
<1>. QED  BY <1>1, Invariant, PTL DEF Spec, OtherDevicesKeepWindow
-----------------------------------------------------------------------------
(* A node of the selection that no repaint can stumble over.                *)
Harmless(n) == n \in {Null, Live, Dead({})}

LEMMA HarmlessNode ==
    ASSUME NEW n, Harmless(n)
    PROVE  ~ Treacherous(n) /\ (n # Live => n.left = {})
BY NodeKinds DEF Harmless, Treacherous, Null

(* Every node a path can have is harmless unless it is a dead wrapper that  *)
(* still lists a property.                                                  *)
LEMMA HarmlessPath ==
    ASSUME WindowInv, ~ Treacherous(path.node)
    PROVE  Harmless(path.node)
<1>. USE NodeKinds, PathFields
<1>1. path \in Paths
  BY DEF WindowInv, Good, Sound
<1>2. path.node \in {Null, Live} \/ \E S : path.node = Dead(S)
  BY <1>1, PathCases DEF Remembered
<1>3. ASSUME NEW S, path.node = Dead(S)
      PROVE  S = {}
  BY <1>3 DEF Treacherous
<1>. QED  BY <1>2, <1>3 DEF Harmless

(* A repaint of a harmless selection crashes on nothing, and leaves the     *)
(* selection harmless.                                                      *)
LEMMA ShowHarmless ==
    ASSUME NEW sel, NEW base, Harmless(sel.node), ~ crashed, ShowProperties(sel, base)
    PROVE  ~ crashed' /\ ~ Treacherous(path'.node)
<1>1. path' = sel
  BY DEF ShowProperties, Show
<1>2. ~ Treacherous(path'.node)
  BY <1>1, HarmlessNode
<1>3. CASE sel.node = Null \/ sel.node = Live
  <2>1. UNCHANGED crashed
    BY <1>3, NodeKinds DEF ShowProperties
  <2>. QED  BY <1>2, <2>1
<1>4. CASE sel.node = Dead({})
  <2>1. crashed' = (sel.node.left # {})
    BY <1>4, NodeKinds DEF ShowProperties
  <2>. QED  BY <1>2, <1>4, <2>1, NodeKinds
<1>. QED  BY <1>2, <1>3, <1>4 DEF Harmless

LEMMA RepaintHarmless ==
    ASSUME NEW sel, NEW base, Harmless(sel.node), ~ crashed, RepaintPropertyWindow(sel, base)
    PROVE  ~ crashed' /\ ~ Treacherous(path'.node)
<1>1. CASE sel.type # "device" /\ ShowProperties(sel, base)
  BY <1>1, ShowHarmless
<1>2. ASSUME NEW open \in MainOf(sel), ShowProperties(open, base)
      PROVE  ~ crashed' /\ ~ Treacherous(path'.node)
  <2>1. sel.node = Live
    BY <1>2, HarmlessNode DEF MainOf
  <2>2. open.node = Live
    BY <1>2, <2>1, PathFields DEF MainOf
  <2>. QED  BY <1>2, <2>2, ShowHarmless DEF Harmless
<1>3. CASE Show(sel) /\ UNCHANGED crashed
  BY <1>3, HarmlessNode DEF Show
<1>. QED  BY <1>1, <1>2, <1>3 DEF RepaintPropertyWindow

LEMMA NoticeHarmless ==
    ASSUME NEW sel, NEW base, NEW d, NEW g, NEW n, Harmless(sel.node), ~ crashed,
           PropertyDefineDelete(sel, base, d, g, n, TRUE)
    PROVE  ~ crashed' /\ ~ Treacherous(path'.node)
<1>1. ASSUME NEW s, NEW fs, Leave(s, fs), Harmless(s.node)
      PROVE  ~ crashed' /\ ~ Treacherous(path'.node)
  BY <1>1, HarmlessNode DEF Leave, Show
<1>2. Harmless(PointTo(sel, sel.group, Null).node) /\ Harmless(ClearedPath.node)
  BY PathFields DEF Harmless, PointTo, Path
<1>. QED  BY <1>1, <1>2, RepaintHarmless DEF PropertyDefineDelete

(* A device is taken out together with its last property.                   *)
LEMMA NoDeviceEmptied ==
    ASSUME TreeInv, NEW v \in DOMAIN tree, TakeProperty(v)
    PROVE  EmptyDevices' \subseteq EmptyDevices
<1>1. v \in Vectors /\ DOMAIN tree' = DOMAIN tree \ {v}
  BY TakeKeepsTree DEF TreeInv, NodesInv
<1>2. /\ Elements(LeftOfDevice(v)) = {w.group : w \in (DOMAIN tree \ {v}) \cap Of(v.device)}
      /\ EmptiesDevice(v) <=> v \in DOMAIN tree /\ Elements(LeftOfDevice(v)) = {}
  BY <1>1, LeftLists
<1>3. EmptiesDevice(v) => devices' = devices \ {v.device}
  BY <1>1, OrdersFit, VectorPlace, WithoutKeepsOrder DEF TakeProperty, TreeInv, ListsInv, devices
<1>4. ~ EmptiesDevice(v) => devices' = devices
  BY DEF TakeProperty, devices
<1>5. ~ EmptiesDevice(v) => \E w \in DOMAIN tree' : w.device = v.device
  BY <1>1, <1>2 DEF Of
<1>. SUFFICES ASSUME NEW e \in devices', \A w \in DOMAIN tree' : w.device # e
              PROVE  e \in devices /\ \A w \in DOMAIN tree : w.device # e
  BY DEF EmptyDevices
<1>6. e # v.device
  BY <1>3, <1>5
<1>. QED  BY <1>1, <1>3, <1>4, <1>6

(* The deletion of a single property leaves neither an empty device nor a   *)
(* wrapper that a later repaint stumbles over.                              *)
THEOREM SingleDeletionsAreTidy ==
    Spec => SingleDeletionsTidy
<1>. DEFINE Tidy(v) == /\ EmptyDevices' \subseteq EmptyDevices
                       /\ Treacherous(path.node) \/ (~crashed' /\ ~Treacherous(path'.node))
<1>1. ASSUME TreeInv, WindowInv, Next, NEW v \in DOMAIN tree, DeleteProperty(v)
      PROVE  Tidy(v)
  <2>1. /\ TakeProperty(v)
        /\ PropertyDefineDelete(Detach(EmptyDevice(v), EmptyGroup(v), {}), Release({v}),
                                v.device, v.group, v.name, TRUE)
    BY <1>1 DEF DeleteProperty
  <2>2. EmptyDevices' \subseteq EmptyDevices
    BY <1>1, <2>1, NoDeviceEmptied
  <2>3. ~ crashed
    BY <1>1 DEF Next
  <2>4. ASSUME ~ Treacherous(path.node)
        PROVE  Harmless(Detach(EmptyDevice(v), EmptyGroup(v), {}).node)
    <3>1. Harmless(path.node)
      BY <1>1, <2>4, HarmlessPath
    <3>2. Harmless(PointTo(path, path.group, Dead({})).node)
      BY DEF Harmless, PointTo, Path
    <3>. QED  BY <3>1, <3>2 DEF Detach
  <2>. QED  BY <2>1, <2>2, <2>3, <2>4, NoticeHarmless
<1>2. TreeInv /\ WindowInv /\ [Next]_vars
        => [\A v \in DOMAIN tree : DeleteProperty(v) => Tidy(v)]_vars
  BY <1>1
<1>. QED  BY <1>2, Invariant, PTL DEF Spec, SingleDeletionsTidy
=============================================================================
