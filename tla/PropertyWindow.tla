--------------------------- MODULE PropertyWindow ---------------------------
(***************************************************************************)
(* The property tree and the window that shows a part of it.               *)
(*                                                                         *)
(* PropertyModel keeps devices, their groups and their properties in a     *)
(* tree, every level of which is an OrderedList.  BrowserWindow remembers  *)
(* the selected node in a SelectionPath, by name and by pointer, and shows *)
(* one form (QIndigoProperty) per property of the selection.  Each form    *)
(* points to the property its node owns.                                   *)
(*                                                                         *)
(* A node that is taken out of the tree is never freed: it stays as a dead *)
(* wrapper whose properties are released and null (propertymodel.cpp:102). *)
(* The selection may go on pointing to it.  All handlers run on the GUI    *)
(* thread, each to its end.                                                *)
(***************************************************************************)
EXTENDS OrderedList

CONSTANTS
    Vectors,     \* the properties: records with a device, a group and a name
    Main,        \* the group that stands for a device when that is selected
    Connection,  \* the name of the CONNECTION property
    Contents,    \* what a property may hold: its state and item values
    Connected,   \* the contents in which the first item is switched on
    Deletions,   \* the deletions in use, a subset of {"property", "group", "device"}
    NoName,      \* the empty string
    NameOrder,   \* the place of each device and group name in the alphabet
    LabelOrder   \* the place of each property's label

Devices == {v.device : v \in Vectors}
Groups == {v.group : v \in Vectors}
Places == {<<v.device, v.group>> : v \in Vectors}

ASSUME WindowAssumption ==
    /\ \A v \in Vectors :
         /\ v = [device |-> v.device, group |-> v.group, name |-> v.name]
         /\ NoName \notin {v.device, v.group, v.name}
    \* a name identifies a property of its device
    /\ \A v, w \in Vectors : v.device = w.device /\ v.name = w.name => v = w
    /\ Connected \subseteq Contents
    /\ Deletions \subseteq {"property", "group", "device"}
    /\ NameOrder \in [Devices \cup Groups -> Nat]
    /\ LabelOrder \in [Vectors -> Nat]
    /\ Vacant \notin Devices /\ Vacant \notin Groups /\ Vacant \notin Vectors

VARIABLES
    root,         \* the list of the root node: the devices
    groupsOf,     \* the list of each DeviceNode: its groups
    propsOf,      \* the list of each GroupNode: its properties
    tree,         \* the PropertyNodes in the tree: a function to the contents
    deviceState,  \* the state a DeviceNode copies from its CONNECTION property
    path,         \* current_path, the SelectionPath
    forms,        \* the forms in the window
    crashed       \* a form was built from a null pointer

treeVars == <<root, groupsOf, propsOf, tree, deviceState>>

vars == <<root, groupsOf, propsOf, tree, deviceState, path, forms, crashed>>

\* The DeviceNodes and the GroupNodes, each a device and a group name, that the
\* model reaches from its root.  (A node that is not in the tree has the list
\* of a new node.)
devices == Elements(root)
groups == {p \in Places : p[2] \in Elements(groupsOf[p[1]])}
-----------------------------------------------------------------------------
\* current_path->node: a null pointer, a node of the tree (the one that the
\* path names), or a dead wrapper with the property nodes it still lists.
Null == [status |-> "null", left |-> {}]
Live == [status |-> "live", left |-> {}]
Dead(left) == [status |-> "dead", left |-> left]

Path(type, d, g, n, node) ==
    [type |-> type, device |-> d, group |-> g, property |-> n, node |-> node]

\* SelectionPath::ClearSelection and the three cases of SelectionPath::select.
ClearedPath == Path("root", NoName, NoName, NoName, Null)
DevicePath(d, node) == Path("device", d, NoName, NoName, node)
GroupPath(d, g, node) == Path("group", d, g, NoName, node)
PropertyPath(v, node) == Path("property", v.device, v.group, v.name, node)

\* The same selection, with another group or node.
PointTo(sel, g, node) == Path(sel.type, sel.device, g, sel.property, node)

Paths ==
    {ClearedPath}
    \cup {DevicePath(d, n) : d \in Devices, n \in {Live} \cup {Dead(S) : S \in SUBSET Vectors}}
    \cup {GroupPath(p[1], p[2], n) :
             p \in Places, n \in {Live} \cup {Dead(S) : S \in SUBSET Vectors}}
    \cup {PropertyPath(v, n) : v \in Vectors, n \in {Null, Live}}

TypeOK ==
    /\ ListOf(Devices, root)
    /\ DOMAIN groupsOf = Devices
    /\ \A d \in Devices : ListOf(Groups, groupsOf[d])
    /\ DOMAIN propsOf = Places
    /\ \A p \in Places : ListOf(Vectors, propsOf[p])
    /\ DOMAIN tree \subseteq Vectors
    /\ tree \in [DOMAIN tree -> Contents]
    /\ deviceState \in [Devices -> {"idle", "ok"}]
    /\ path \in Paths
    /\ forms \subseteq [vector: Vectors, object: {"live", "released"}, shown: Contents]
    /\ crashed \in BOOLEAN

Init ==
    /\ root = EmptyList
    /\ groupsOf = [d \in Devices |-> EmptyList]
    /\ propsOf = [p \in Places |-> EmptyList]
    /\ tree = [v \in {} |-> NoName]
    /\ deviceState = [d \in Devices |-> "idle"]
    /\ path = ClearedPath
    /\ forms = {}
    /\ crashed = FALSE
-----------------------------------------------------------------------------
(* The window.                                                             *)

At(d, g) == {v \in Vectors : v.device = d /\ v.group = g}
Of(d) == {v \in Vectors : v.device = d}

\* QIndigoProperty::QIndigoProperty: a form of a property shows what it holds.
Form(v) == [vector |-> v, object |-> "live", shown |-> tree'[v]]

\* A selected device stands for its group "Main", if it has one.
MainOf(sel) ==
    IF sel.node = Live
    THEN IF Main \in Elements(groupsOf'[sel.device])
         THEN {GroupPath(sel.device, Main, Live)} ELSE {}
    ELSE LET left == sel.node.left \cap At(sel.device, Main)
         IN  IF left # {} THEN {GroupPath(sel.device, Main, Dead(left))} ELSE {}

Show(sel) == path' = sel

\* repaint_property_window of a property or a group.  A dead wrapper that
\* still lists property nodes makes the form of a null pointer.
ShowProperties(sel, base) ==
    /\ Show(sel)
    /\ \/ /\ sel.node = Null
          /\ forms' = base
          /\ UNCHANGED crashed
       \/ /\ sel.node = Live
          /\ forms' = {Form(v) : v \in {w \in Elements(propsOf'[<<sel.device, sel.group>>]) :
                         sel.type = "property" => w.name = sel.property}}
          /\ UNCHANGED crashed
       \/ /\ sel.node.status = "dead"
          /\ forms' = {}
          /\ crashed' = (sel.node.left # {})

\* repaint_property_window(sel.node) on a window that shows the forms base.
RepaintPropertyWindow(sel, base) ==
    \/ /\ sel.type # "device"
       /\ ShowProperties(sel, base)
    \/ /\ sel.type = "device"
       /\ \E open \in MainOf(sel) : ShowProperties(open, base)
    \/ /\ sel.type = "device"
       /\ MainOf(sel) = {}
       /\ Show(sel)
       /\ forms' = {}
       /\ UNCHANGED crashed

Leave(sel, base) ==
    /\ Show(sel)
    /\ forms' = base
    /\ UNCHANGED crashed

\* Mutation: the device is not compared.
SelectedPropertyByName(sel, d, n) == sel.type = "property" /\ sel.property = n

\* The tests of property_define_delete.
SelectedProperty(sel, d, n) ==
    sel.type = "property" /\ sel.property = n /\ sel.device = d

SelectedGroup(sel, d, g) ==
    sel.type = "group" /\ sel.device = d /\ sel.group = g

\* Mutation: the deletion of a whole group or device is not noticed.
NeverWithinSelected(sel, d, n) == FALSE

\* The name is empty: a whole group or device, and the selection may be in it.
WithinSelected(sel, d, n) ==
    n = NoName /\ sel.type \in {"property", "group"} /\ sel.device = d

\* property_define_delete for property n of group g of device d.
PropertyDefineDelete(sel, base, d, g, n, deleted) ==
    \/ /\ SelectedProperty(sel, d, n)
       /\ IF deleted
          THEN Leave(PointTo(sel, sel.group, Null), {})
          ELSE RepaintPropertyWindow(PointTo(sel, g, Live), {})
    \/ /\ SelectedGroup(sel, d, g)
       /\ RepaintPropertyWindow(sel, {})
    \/ /\ ~SelectedProperty(sel, d, n) /\ ~SelectedGroup(sel, d, g)
       /\ WithinSelected(sel, d, n)
       /\ Leave(ClearedPath, {})
    \/ /\ ~SelectedProperty(sel, d, n) /\ ~SelectedGroup(sel, d, g)
       /\ ~WithinSelected(sel, d, n)
       /\ Leave(sel, base)
-----------------------------------------------------------------------------
(* PropertyModel.                                                          *)

\* The state a device node takes from contents x of its property v.
CopyConnection(v, x) ==
    deviceState' = IF v.name = Connection
                   THEN [deviceState EXCEPT ![v.device] =
                           IF x \in Connected THEN "ok" ELSE "idle"]
                   ELSE deviceState

\* A device node that is made anew is idle.
IdleIfNew(d) == IF IndexOf(root, d) # -1 THEN deviceState
                ELSE [deviceState EXCEPT ![d] = "idle"]

\* Mutation: only updates of CONNECTION are copied to the device node.
DefineNoConnection(v, x) == deviceState' = IdleIfNew(v.device)

DefineConnection(v, x) ==
    IF v.name = Connection THEN CopyConnection(v, x)
    ELSE deviceState' = IdleIfNew(v.device)

PlaceOf(v) == <<v.device, v.group>>

\* A node of the property, and of its group and device if need be.
Insert(v, x) ==
    /\ root' = Ensure(root, NameOrder, v.device)
    /\ groupsOf' = [groupsOf EXCEPT ![v.device] = Ensure(@, NameOrder, v.group)]
    /\ propsOf' = [propsOf EXCEPT ![PlaceOf(v)] = Ensure(@, LabelOrder, v)]
    /\ tree' = [w \in DOMAIN tree \cup {v} |-> IF w = v THEN x ELSE tree[w]]

\* Mutation: property_defined is not emitted.
DefinePropertyQuietly(v, x) ==
    /\ v \notin DOMAIN tree
    /\ Insert(v, x)
    /\ DefineConnection(v, x)
    /\ UNCHANGED <<path, forms, crashed>>

\* A new property.  (One that is defined again is released, and nothing
\* changes.)
DefineProperty(v, x) ==
    /\ v \notin DOMAIN tree
    /\ Insert(v, x)
    /\ DefineConnection(v, x)
    /\ PropertyDefineDelete(path, forms, v.device, v.group, v.name, FALSE)

\* Mutation: the forms of a group are not connected to property_updated.
UpdatePropertyForm(v, x) ==
    /\ v \in DOMAIN tree
    /\ tree' = [tree EXCEPT ![v] = x]
    /\ CopyConnection(v, x)
    /\ forms' = {IF f.vector = v /\ path.type = "property"
                 THEN [f EXCEPT !.shown = x] ELSE f : f \in forms}
    /\ UNCHANGED <<root, groupsOf, propsOf, path, crashed>>

\* The form of the property shows its new contents.
UpdateProperty(v, x) ==
    /\ v \in DOMAIN tree
    /\ tree' = [tree EXCEPT ![v] = x]
    /\ CopyConnection(v, x)
    /\ forms' = {IF f.vector = v /\ f.object = "live"
                 THEN [f EXCEPT !.shown = x] ELSE f : f \in forms}
    /\ UNCHANGED <<root, groupsOf, propsOf, path, crashed>>

\* The forms when the properties S are released.
Release(S) ==
    {IF f.vector \in S THEN [f EXCEPT !.object = "released"] ELSE f : f \in forms}

\* current_path when the device and group nodes ds and gs are taken out of the
\* tree, still listing the property nodes S.
Detach(ds, gs, S) ==
    IF path.node = Live /\
       \/ path.type = "device" /\ path.device \in ds
       \/ path.type = "group" /\ <<path.device, path.group>> \in gs
    THEN PointTo(path, path.group, Dead(S))
    ELSE path

\* The properties S are released.
Forget(S) ==
    /\ tree' = [v \in DOMAIN tree \ S |-> tree[v]]
    /\ UNCHANGED deviceState

\* Mutation: a group that has become empty stays.
DeletePropertyOnly(v) ==
    /\ "property" \in Deletions
    /\ Forget({v})
    /\ propsOf' = [propsOf EXCEPT ![PlaceOf(v)] = Without(@, v)]
    /\ UNCHANGED <<root, groupsOf>>
    /\ PropertyDefineDelete(path, Release({v}), v.device, v.group, v.name, TRUE)

\* The list of v's group without v, and that of its device, from which the
\* group is taken out if it is empty.
LeftOfGroup(v) == Without(propsOf[PlaceOf(v)], v)
EmptiesGroup(v) == v \in DOMAIN tree /\ LeftOfGroup(v).count = 0
LeftOfDevice(v) == IF EmptiesGroup(v) THEN Without(groupsOf[v.device], v.group)
                   ELSE groupsOf[v.device]
EmptiesDevice(v) == v \in DOMAIN tree /\ LeftOfDevice(v).count = 0

EmptyGroup(v) == IF EmptiesGroup(v) THEN {PlaceOf(v)} ELSE {}
EmptyDevice(v) == IF EmptiesDevice(v) THEN {v.device} ELSE {}

\* Property v is taken out, then its group if empty, then its device if empty.
TakeProperty(v) ==
    /\ Forget({v})
    /\ propsOf' = [propsOf EXCEPT ![PlaceOf(v)] =
                      IF EmptiesGroup(v) THEN EmptyList ELSE LeftOfGroup(v)]
    /\ groupsOf' = [groupsOf EXCEPT ![v.device] =
                      IF EmptiesDevice(v) THEN EmptyList ELSE LeftOfDevice(v)]
    /\ root' = IF EmptiesDevice(v) THEN Without(root, v.device) ELSE root

\* Mutation: the group is taken out while it still lists the property.
DeletePropertyLast(v) ==
    /\ "property" \in Deletions
    /\ TakeProperty(v)
    /\ PropertyDefineDelete(Detach(EmptyDevice(v), EmptyGroup(v), {v}), Release({v}),
                            v.device, v.group, v.name, TRUE)

DeleteProperty(v) ==
    /\ "property" \in Deletions
    /\ TakeProperty(v)
    /\ PropertyDefineDelete(Detach(EmptyDevice(v), EmptyGroup(v), {}), Release({v}),
                            v.device, v.group, v.name, TRUE)

\* The name is empty: the whole group is deleted, but never its device.
TakeGroup(d, g) ==
    /\ Forget(Elements(propsOf[<<d, g>>]))
    /\ groupsOf' = [groupsOf EXCEPT ![d] = Without(@, g)]
    /\ propsOf' = [propsOf EXCEPT ![<<d, g>>] = EmptyList]
    /\ UNCHANGED root

DeleteGroup(d, g) ==
    /\ "group" \in Deletions
    /\ TakeGroup(d, g)
    /\ LET S == Elements(propsOf[<<d, g>>])
       IN  PropertyDefineDelete(Detach({}, {<<d, g>>}, S), Release(S), d, g, NoName, TRUE)

\* The group is empty: the whole device is deleted.
PropertiesOf(d) == UNION {Elements(propsOf[p]) : p \in {q \in groups : q[1] = d}}

TakeDevice(d) ==
    /\ Forget(PropertiesOf(d))
    /\ root' = Without(root, d)
    /\ groupsOf' = [groupsOf EXCEPT ![d] = EmptyList]
    /\ propsOf' = [p \in Places |-> IF p[1] = d THEN EmptyList ELSE propsOf[p]]

DeleteDevice(d) ==
    /\ "device" \in Deletions
    /\ TakeDevice(d)
    /\ LET gs == {p \in groups : p[1] = d}
           S == PropertiesOf(d)
           left == IF path.type = "group" THEN S \cap At(d, path.group) ELSE S
       IN  PropertyDefineDelete(Detach({d}, gs, left), Release(S), d, NoName, NoName, TRUE)
-----------------------------------------------------------------------------
(* The user.                                                               *)

\* on_selection_changed: a node of the tree is selected, or none.
OnSelectionChanged ==
    /\ UNCHANGED treeVars
    /\ \/ Leave(ClearedPath, {})
       \/ \E d \in devices : RepaintPropertyWindow(DevicePath(d, Live), {})
       \/ \E p \in groups : RepaintPropertyWindow(GroupPath(p[1], p[2], Live), {})
       \/ \E v \in DOMAIN tree : RepaintPropertyWindow(PropertyPath(v, Live), {})

\* on_use_state_icons_changed and the three stretch actions draw the selected
\* node again.
RepaintSelected ==
    /\ UNCHANGED treeVars
    /\ RepaintPropertyWindow(path, forms)

Next ==
    /\ ~crashed
    /\ \/ \E v \in Vectors, x \in Contents : DefineProperty(v, x) \/ UpdateProperty(v, x)
       \/ \E v \in Vectors : DeleteProperty(v)
       \/ \E p \in Places : DeleteGroup(p[1], p[2])
       \/ \E d \in Devices : DeleteDevice(d)
       \/ OnSelectionChanged
       \/ RepaintSelected

Spec == Init /\ [][Next]_vars
-----------------------------------------------------------------------------
(* Properties.                                                             *)

\* No form in the window points to a released property, and each shows what
\* its property holds: every path that releases a property clears the forms on
\* it in the same handler, and every update finds its form.
FormsCurrent ==
    \A f \in forms : /\ f.object = "live"
                     /\ f.vector \in DOMAIN tree
                     /\ f.shown = tree[f.vector]

\* The vector the path names, if it is in the tree.
Named == {v \in DOMAIN tree : v.device = path.device /\ v.name = path.property}

\* A selected property is in the window whenever it is in the tree, also after
\* it was deleted and defined again, and nothing is shown meanwhile; a selected
\* group is in the window with every property it has, as long as its node stays
\* in the tree.  (For a group the tree is what the OrderedLists make of it.)
SelectionShown ==
    /\ path.type = "property" =>
         /\ path.node = IF Named = {} THEN Null ELSE Live
         /\ {f.vector : f \in forms} = Named
    /\ path.type = "group" /\ path.node = Live =>
         {f.vector : f \in forms} = DOMAIN tree \cap At(path.device, path.group)

\* The comment of property_define_delete: "If we have deleted or defined
\* property update group window" (browserwindow.cpp:462), so that the window of
\* a selected group shows the properties which that group has.
GroupWindowUpdated ==
    path.type = "group" /\ ~crashed =>
      {f.vector : f \in forms} = DOMAIN tree \cap At(path.device, path.group)

\* A live node the selection points to is in the tree under the names of the
\* path, so that on_selection_changed and repaints never use another node.
SelectionInTree ==
    path.node = Live =>
      CASE path.type = "device" -> path.device \in devices
        [] path.type = "group" -> <<path.device, path.group>> \in groups
        [] path.type = "property" -> Named # {}

\* A group node is in the tree exactly while it has properties, and a device
\* node at least as long.  (A device whose last group is deleted as a whole
\* stays, empty, until it is deleted or used again.)
NoEmptyNodes ==
    /\ \A d \in Devices : Elements(groupsOf[d]) = {v.group : v \in DOMAIN tree \cap Of(d)}
    /\ {v.device : v \in DOMAIN tree} \subseteq devices

\* After any sequence of insertions and removals every list names each node
\* once and in the order of the labels ("Insert the property in alphabetical
\* order", propertymodel.cpp:184), and the lists of the groups name just the
\* properties of the tree: none is lost when an array grows or is shifted.
InOrder(list, order) == Distinct(list) /\ Sorted(list, order)
TreeInOrder ==
    /\ InOrder(root, NameOrder)
    /\ \A d \in Devices : InOrder(groupsOf[d], NameOrder)
    /\ \A p \in Places : /\ InOrder(propsOf[p], LabelOrder)
                         /\ Elements(propsOf[p]) = DOMAIN tree \cap At(p[1], p[2])

\* What the next property speaks of.
EmptyDevices == {d \in devices : \A v \in DOMAIN tree : v.device # d}
Treacherous(node) == node.status = "dead" /\ node.left # {}

\* The deletion of a single property leaves no device without properties and
\* no dead wrapper that still lists a property: it is never what makes a later
\* repaint build a form from a null pointer, and it crashes only on a wrapper
\* that the deletion of a whole group or device has left.
SingleDeletionsTidy ==
    [][\A v \in DOMAIN tree : DeleteProperty(v) =>
         /\ EmptyDevices' \subseteq EmptyDevices
         /\ Treacherous(path.node) \/ (~crashed' /\ ~Treacherous(path'.node))]_vars

\* The icon of a device shows what its CONNECTION property says.
DeviceFollowsConnection ==
    \A v \in DOMAIN tree : v.name = Connection =>
      deviceState[v.device] = IF tree[v] \in Connected THEN "ok" ELSE "idle"

\* What the bus reports of one device never disturbs the window while another
\* device is selected, although properties of both may have the same name.
ChangedDevices ==
    {v.device : v \in {w \in Vectors :
        \/ (w \in DOMAIN tree) # (w \in DOMAIN tree')
        \/ w \in DOMAIN tree /\ w \in DOMAIN tree' /\ tree[w] # tree'[w]}}

OtherDevicesKeepWindow ==
    [][ChangedDevices # {} /\ path.device \notin ChangedDevices
         => UNCHANGED <<path, forms>>]_vars
=============================================================================
