--------------------------- MODULE PropertyMirror ---------------------------
(***************************************************************************)
(* What the GUI promises of the property tree: for every server it applies *)
(* the definitions, updates and deletions the server reports one at a time *)
(* and in the order they were reported.  None is lost, repeated or         *)
(* reordered, and a server reports nothing more while a definition or an   *)
(* update of its own waits.  This is the abstraction of IndigoClient's     *)
(* callbacks, the Qt connections and PropertyModel's three slots.          *)
(***************************************************************************)
EXTENDS Naturals, Sequences

CONSTANTS Servers, Props, Owner, Device, Group, States

VARIABLES
    pending,  \* pending[t]: what server t has reported and is not applied yet
    view      \* view[p]: the state the tree shows of p, or "absent"

mirrorVars == <<pending, view>>

Report == [op: {"define", "update", "delete", "delete group", "delete device"},
           prop: Props, state: States]

MirrorTypeOK ==
    /\ pending \in [Servers -> Seq(Report)]
    /\ view \in [Props -> States \cup {"absent"}]

MirrorInit ==
    /\ pending = [t \in Servers |-> <<>>]
    /\ view = [p \in Props |-> "absent"]

\* Server t reports r; it does not wait for a deletion to be applied.
Issue(t, r) ==
    /\ Owner[r.prop] = t
    /\ \A i \in DOMAIN pending[t] : pending[t][i].op \notin {"define", "update"}
    /\ pending' = [pending EXCEPT ![t] = Append(@, r)]
    /\ UNCHANGED view

\* The properties report r is about: its own, all of the same group or all of
\* the same device.
Concerned(r) ==
    CASE r.op = "delete group" -> {p \in Props : Group[p] = Group[r.prop]}
      [] r.op = "delete device" -> {p \in Props : Device[p] = Device[r.prop]}
      [] OTHER -> {r.prop}

\* The effect of report r on what is shown of a property.  A definition of one
\* that is shown, and an update of one that is not, change nothing.
Shown(r, old) ==
    CASE r.op = "define" -> IF old = "absent" THEN r.state ELSE old
      [] r.op = "update" -> IF old = "absent" THEN old ELSE r.state
      [] OTHER -> "absent"

Apply(t) ==
    /\ pending[t] # <<>>
    /\ LET r == Head(pending[t]) IN
         view' = [p \in Props |-> IF p \in Concerned(r) THEN Shown(r, view[p])
                                  ELSE view[p]]
    /\ pending' = [pending EXCEPT ![t] = Tail(@)]

\* Every step changes what is pending; saying so first spares TLC the search for
\* a report in the steps that change nothing.
MirrorNext ==
    /\ pending' # pending
    /\ \E t \in Servers : Apply(t) \/ \E r \in Report : Issue(t, r)

MirrorSpec == MirrorInit /\ [][MirrorNext]_mirrorVars

\* Everything reported is applied in the end.
MirrorFairSpec == MirrorSpec /\ \A t \in Servers : WF_mirrorVars(Apply(t))
=============================================================================
