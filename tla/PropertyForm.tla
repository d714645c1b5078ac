---------------------------- MODULE PropertyForm ----------------------------
(* The form of one property while the user edits it (qindigoproperty.cpp   *)
(* and its controls qindigotext.cpp, qindigonumber.cpp, qindigoswitch.cpp).*)
(*                                                                         *)
(* The form points to the property that the tree owns, and the bus updates *)
(* that property at any time, also while a question of the form is open,   *)
(* which runs an event loop of its own.  Requests to change the property   *)
(* run on threads of a pool; they read the form and its property when they *)
(* come to run.  The window deletes the form when the property is deleted, *)
(* when another selection is made and when the window is built again.      *)
EXTENDS Naturals, FiniteSets

CONSTANTS
    Items,        \* the property's items
    Values,       \* what an item may hold
    Off, On,      \* the values of a switch
    Format,       \* what a number's text says of it: digits may be lost
    None,         \* no item
    MaxRequests   \* bound: requests that wait for a thread

ASSUME FormAssumption ==
    /\ {Off, On} \subseteq Values /\ Off # On
    /\ Format \in [Values -> Values]
    /\ \A v \in Values : Format[Format[v]] = Format[v]
    /\ None \notin Items /\ MaxRequests \in Nat \ {0}

VARIABLES
    kind,      \* the type of the property
    rule,      \* of a switch property
    warned,    \* has it the hint warn_on_change?
    value,     \* what the tree's property holds
    target,    \* of a number: what was last asked for
    open,      \* is there a form?
    text,      \* what the editors show; of a switch: the check mark
    dirty,     \* m_dirty
    focus,     \* the editor with the keyboard focus
    question,  \* the question that is open
    pending,   \* requests of this form that wait for a thread
    orphans,   \* requests of deleted forms
    broken     \* a deleted form was used

property == <<kind, rule, warned, value, target>>
controls == <<text, dirty, focus>>
requests == <<pending, orphans>>
vars == <<property, open, controls, question, requests, broken>>

Question == [of : {"none", "set"}] \cup [of : {"switch"}, item : Items, checked : {Off, On}]
NoQuestion == [of |-> "none"]

Contents == IF kind = "switch" THEN [Items -> {Off, On}] ELSE [Items -> Values]

(* What update() makes of a control that is free to follow the property.   *)
Reading(k, v, t) ==
    IF k = "number" THEN [i \in Items |-> Format[t[i]]] ELSE v

Built(v, t) ==
    /\ text' = Reading(kind, v, t)
    /\ dirty' = [i \in Items |-> FALSE] /\ focus' = None

Init ==
    /\ kind \in {"text", "number", "switch"}
    /\ rule \in {"any", "one"} /\ warned \in BOOLEAN
    /\ value \in Contents /\ target = value
    /\ open = TRUE /\ text = Reading(kind, value, target)
    /\ dirty = [i \in Items |-> FALSE] /\ focus = None
    /\ question = NoQuestion /\ pending = 0 /\ orphans = 0 /\ broken = FALSE

---------------------------------------------------------------------------
(* The bus and the window. *)

(* Mutant: only the focus keeps an update out of an editor. *)
HeldWhileFocused(i) == kind # "switch" /\ focus = i

(* The controls that update() leaves alone. *)
Held(i) == CASE kind = "text"   -> dirty[i]
             [] kind = "number" -> dirty[i] \/ focus = i
             [] OTHER           -> FALSE

UpdateControls(v, t) ==
    text' = [i \in Items |-> IF Held(i) THEN text[i] ELSE Reading(kind, v, t)[i]]

PropertyUpdate ==
    /\ open
    /\ value' \in Contents /\ target' \in Contents
    /\ kind # "number" => target' = value'
    /\ UpdateControls(value', target')
    /\ UNCHANGED <<kind, rule, warned, open, dirty, focus, question, requests, broken>>

(* Mutant: the question outlives the form. *)
DiscardForm ==
    /\ orphans' = orphans + pending /\ pending' = 0
    /\ UNCHANGED <<question, broken>>

(* clear_window(): requests that still wait keep a pointer to the form, and *)
(* a question returns into it.                                             *)
Discard ==
    /\ orphans' = orphans + pending /\ pending' = 0
    /\ broken' = (question # NoQuestion)
    /\ question' = NoQuestion

(* The property is deleted, or another node is selected. *)
Closes ==
    /\ open /\ Discard
    /\ open' = FALSE
    /\ UNCHANGED <<property, controls>>

(* It is selected or defined again, with any contents. *)
Opens ==
    /\ ~open /\ open' = TRUE
    /\ value' \in Contents /\ target' \in Contents
    /\ kind # "number" => target' = value'
    /\ Built(value', target')
    /\ UNCHANGED <<kind, rule, warned, question, requests, broken>>

(* Another property of the group appears or goes: all forms are made anew. *)
Rebuilt ==
    /\ open /\ Discard
    /\ Built(value, target)
    /\ UNCHANGED <<property, open>>

---------------------------------------------------------------------------
(* The user edits. *)

Free == open /\ question = NoQuestion

Focuses(i) ==
    /\ Free /\ kind # "switch"
    /\ focus' = i
    /\ UNCHANGED <<property, open, text, dirty, question, requests, broken>>

Types(i) ==
    /\ Free /\ kind # "switch"
    /\ \E v \in Values : text' = [text EXCEPT ![i] = v]
    /\ dirty' = [dirty EXCEPT ![i] = TRUE] /\ focus' = i
    /\ UNCHANGED <<property, open, question, requests, broken>>

(* A click on a button takes the focus, its key does not. *)
FocusAfterButton == focus' \in {focus, None}

Request == pending + orphans < MaxRequests /\ pending' = pending + 1 /\ UNCHANGED orphans

---------------------------------------------------------------------------
(* set_clicked() and reset_clicked(). *)

(* Mutant: reset() leaves the text. *)
ResetColour(at, v, t) ==
    /\ text' = text
    /\ dirty' = [i \in Items |-> FALSE]
    /\ focus' = IF at # None /\ dirty[at] THEN None ELSE at

(* reset() of every control.  It updates a control before it takes the     *)
(* focus from it, and a number with the focus keeps its text.              *)
ResetControls(at, v, t) ==
    /\ text' = [i \in Items |-> IF dirty[i] /\ ~(kind = "number" /\ at = i)
                                THEN Reading(kind, v, t)[i] ELSE text[i]]
    /\ dirty' = [i \in Items |-> FALSE]
    /\ focus' = IF at # None /\ dirty[at] THEN None ELSE at

(* apply(): a text is taken over when it was edited, a number always. *)
Applied(old) == [i \in Items |-> IF dirty[i] \/ kind = "number" THEN text[i] ELSE old[i]]

Apply(at) ==
    /\ value' = Applied(value) /\ target' = Applied(target)
    /\ ResetControls(at, value', target')
    /\ Request
    /\ UNCHANGED <<kind, rule, warned, open, broken>>

SetClicked ==
    /\ Free /\ kind # "switch"
    /\ \/ ~warned /\ (\E at \in {focus, None} : Apply(at)) /\ UNCHANGED question
       \/ /\ warned /\ question' = [of |-> "set"] /\ FocusAfterButton
          /\ UNCHANGED <<property, open, text, dirty, requests, broken>>

Dismiss == question' = NoQuestion

Confirms == open /\ question.of = "set" /\ Apply(focus) /\ Dismiss

Refuses ==
    /\ open /\ question.of = "set" /\ Dismiss
    /\ UNCHANGED <<property, open, controls, requests, broken>>

ResetClicked ==
    /\ Free /\ kind # "switch"
    /\ \E at \in {focus, None} : ResetControls(at, value, target)
    /\ UNCHANGED <<property, open, question, requests, broken>>

---------------------------------------------------------------------------
(* switch_clicked(). *)

(* indigo_set_switch(): of a one-of-many property the others are cleared. *)
SetSwitch(i, checked) ==
    LET cleared == IF rule = "one" /\ checked = On THEN [j \in Items |-> Off] ELSE value
    IN  value' = [cleared EXCEPT ![i] = checked]

(* item_changed() calls QIndigoProperty::update(). *)
ItemChanged ==
    /\ target' = value' /\ text' = value'
    /\ Request
    /\ UNCHANGED <<kind, rule, warned, open, dirty, focus, broken>>

SwitchClicked(i) ==
    /\ Free /\ kind = "switch"
    /\ LET checked == IF text[i] = On THEN Off ELSE On IN
       \/ ~warned /\ SetSwitch(i, checked) /\ ItemChanged /\ UNCHANGED question
       \/ /\ warned
          /\ text' = [text EXCEPT ![i] = checked]
          /\ question' = [of |-> "switch", item |-> i, checked |-> checked]
          /\ UNCHANGED <<property, open, dirty, focus, requests, broken>>

ConfirmsSwitch ==
    /\ open /\ question.of = "switch" /\ Dismiss
    /\ SetSwitch(question.item, question.checked) /\ ItemChanged

(* Mutant: item_changed() is emitted only when the switch was set. *)
RefusesQuietly ==
    /\ open /\ question.of = "switch" /\ Dismiss
    /\ UNCHANGED <<property, open, controls, requests, broken>>

RefusesSwitch ==
    /\ open /\ question.of = "switch" /\ Dismiss
    /\ value' = value /\ ItemChanged

---------------------------------------------------------------------------
(* The pool's threads. *)

Runs ==
    /\ pending > 0 /\ pending' = pending - 1
    /\ UNCHANGED <<property, open, controls, question, orphans, broken>>

RunsOrphan ==
    /\ orphans > 0 /\ orphans' = orphans - 1
    /\ broken' \in BOOLEAN
    /\ UNCHANGED <<property, open, controls, question, pending>>

User ==
    \/ \E i \in Items : Focuses(i) \/ Types(i) \/ SwitchClicked(i)
    \/ SetClicked \/ ResetClicked
    \/ Confirms \/ Refuses \/ ConfirmsSwitch \/ RefusesSwitch

Next ==
    /\ ~broken
    /\ User \/ PropertyUpdate \/ Closes \/ Opens \/ Rebuilt \/ Runs \/ RunsOrphan

Spec == Init /\ [][Next]_vars

---------------------------------------------------------------------------
(* Properties. *)

(* Every variable keeps its type; a question belongs to an open form of a  *)
(* property that warns, and a check mark is never held.                    *)
TypeOK ==
    /\ kind \in {"text", "number", "switch"} /\ rule \in {"any", "one"}
    /\ warned \in BOOLEAN /\ open \in BOOLEAN /\ broken \in BOOLEAN
    /\ value \in Contents /\ target \in Contents /\ text \in Contents
    /\ dirty \in [Items -> BOOLEAN] /\ focus \in Items \cup {None}
    /\ question \in Question
    /\ pending \in 0..MaxRequests /\ orphans \in 0..MaxRequests
    /\ question # NoQuestion => open /\ warned
    /\ (question.of = "switch") => kind = "switch"
    /\ kind = "switch" => focus = None /\ \A i \in Items : ~dirty[i]

(* What the user has typed stays until the user sets or resets it, or the  *)
(* form is made anew: no update of the property, question or request       *)
(* disturbs it ("Apply update from indigo bus only if not being edited").  *)
EditsSurvive ==
    [][\A i \in Items : open /\ open' /\ dirty[i] /\ text'[i] # text[i] =>
         SetClicked \/ Confirms \/ ResetClicked \/ Types(i) \/ Rebuilt]_vars

(* While no question is open the check marks are those of the property,    *)
(* whatever was clicked, refused and updated in between ("Make the GUI     *)
(* controls consistent with the switches").                                *)
SwitchesConsistent ==
    kind = "switch" /\ open /\ question = NoQuestion => text = value

(* A text that is not marked as edited is the one the property has, after  *)
(* every update, Set and Reset in any order and with any focus.            *)
CleanTextsCurrent ==
    kind = "text" /\ open => \A i \in Items : ~dirty[i] => text[i] = value[i]

(* Set changes only what the user has edited ("Apply all dirty controls",  *)
(* qindigoproperty.cpp:154).                                               *)
OnlyEditsApplied ==
    [][SetClicked \/ Confirms =>
         \A i \in Items : ~dirty[i] => target'[i] = target[i]]_vars

=============================================================================
