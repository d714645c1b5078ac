------------------------- MODULE PropertyFormProofs -------------------------
(* Theorems about PropertyForm, for any items, values and formats.         *)
EXTENDS PropertyForm, TLAPS

(* TypeOK is inductive with two facts: the requests of all forms together  *)
(* are bounded, and only editors ask before they set.                      *)
Bounded == pending + orphans <= MaxRequests
AskedOf == question.of = "set" => kind # "switch"
TypeInv == TypeOK /\ Bounded /\ AskedOf

USE DEF NoQuestion, Question, Contents, property, controls, requests

(* What update() shows of contents is contents.                            *)
LEMMA ReadingType ==
    ASSUME kind \in {"text", "number", "switch"},
           NEW v \in Contents, NEW t \in Contents
    PROVE  Reading(kind, v, t) \in Contents
BY FormAssumption DEF Reading

(* reset() keeps the types of the controls, with any focus.                *)
LEMMA ResetType ==
    ASSUME TypeOK, kind # "switch", NEW at \in Items \cup {None},
           NEW v \in Contents, NEW t \in Contents,
           ResetControls(at, v, t)
    PROVE  /\ text' \in Contents /\ dirty' \in [Items -> BOOLEAN]
           /\ focus' \in Items \cup {None}
<1>1. Reading(kind, v, t) \in Contents
  BY ReadingType DEF TypeOK
<1>2. text' \in Contents
  BY <1>1 DEF ResetControls, TypeOK
<1>3. QED BY <1>2 DEF ResetControls

(* Set keeps the types.                                                    *)
LEMMA ApplyType ==
    ASSUME TypeInv, kind # "switch", NEW at \in Items \cup {None}, Apply(at)
    PROVE  /\ value' \in Contents /\ target' \in Contents /\ text' \in Contents
           /\ dirty' \in [Items -> BOOLEAN] /\ focus' \in Items \cup {None}
           /\ pending' \in 0..MaxRequests /\ orphans' \in 0..MaxRequests
           /\ Bounded'
<1>1. value' \in Contents /\ target' \in Contents
  BY DEF Apply, Applied, TypeInv, TypeOK
<1>2. ResetControls(at, value', target')
  BY DEF Apply
<1>3. text' \in Contents /\ dirty' \in [Items -> BOOLEAN] /\ focus' \in Items \cup {None}
  BY <1>1, <1>2, ResetType DEF TypeInv
<1>4. pending' \in 0..MaxRequests /\ orphans' \in 0..MaxRequests /\ Bounded'
  BY FormAssumption DEF Apply, Request, TypeInv, TypeOK, Bounded
<1>5. QED BY <1>1, <1>3, <1>4

(* Setting a switch keeps its type.                                        *)
LEMMA SwitchType ==
    ASSUME TypeInv, kind = "switch", ItemChanged,
           value' \in Contents
    PROVE  /\ target' \in Contents /\ text' \in Contents
           /\ pending' \in 0..MaxRequests /\ orphans' \in 0..MaxRequests
           /\ Bounded'
BY FormAssumption DEF ItemChanged, Request, TypeInv, TypeOK, Bounded

(* One switch set, the others cleared when the rule says so: a switch each. *)
LEMMA SetSwitchType ==
    ASSUME TypeInv, kind = "switch", NEW i \in Items, NEW c \in {Off, On},
           SetSwitch(i, c)
    PROVE  value' \in Contents
BY FormAssumption DEF SetSwitch, TypeInv, TypeOK

(* Types hold at first and after every step.                               *)
LEMMA InitType == Init => TypeInv
<1> SUFFICES ASSUME Init PROVE TypeInv
  OBVIOUS
<1>1. text \in Contents
  BY ReadingType DEF Init
<1>2. value \in Contents /\ target \in Contents /\ dirty \in [Items -> BOOLEAN]
  BY DEF Init
<1>3. pending \in 0..MaxRequests /\ orphans \in 0..MaxRequests /\ Bounded
  BY FormAssumption DEF Init, Bounded
<1>4. question = [of |-> "none"] /\ question \in Question /\ question.of = "none"
  BY DEF Init
<1>5. QED
  BY <1>1, <1>2, <1>3, <1>4 DEF Init, TypeInv, TypeOK, AskedOf

(* One step per action; each gives the types of what it changes.           *)
LEMMA NextType == TypeInv /\ [Next]_vars => TypeInv'
<1> SUFFICES ASSUME TypeInv, [Next]_vars PROVE TypeInv'
  OBVIOUS
<1> USE DEF TypeInv, TypeOK, Bounded, AskedOf
<1>1. CASE UNCHANGED vars
  BY <1>1 DEF vars
<1>2. ASSUME NEW i \in Items, Focuses(i) PROVE TypeInv'
  BY <1>2 DEF Focuses
<1>3. ASSUME NEW i \in Items, Types(i) PROVE TypeInv'
  <2>1. text' \in Contents /\ dirty' \in [Items -> BOOLEAN]
    BY <1>3 DEF Types
  <2>2. QED BY <1>3, <2>1 DEF Types, Free
<1>4. ASSUME NEW i \in Items, SwitchClicked(i) PROVE TypeInv'
  <2> DEFINE c == IF text[i] = On THEN Off ELSE On
  <2>1. CASE ~warned /\ SetSwitch(i, c) /\ ItemChanged /\ UNCHANGED question
    <3>1. value' \in Contents
      BY <1>4, <2>1, SetSwitchType DEF SwitchClicked
    <3>2. QED BY <1>4, <2>1, <3>1, SwitchType DEF SwitchClicked, ItemChanged, Free
  <2>2. CASE /\ warned
             /\ text' = [text EXCEPT ![i] = c]
             /\ question' = [of |-> "switch", item |-> i, checked |-> c]
             /\ UNCHANGED <<property, open, dirty, focus, requests, broken>>
    BY <1>4, <2>2 DEF SwitchClicked, Free
  <2>3. QED BY <1>4, <2>1, <2>2 DEF SwitchClicked
<1>5. CASE SetClicked
  <2>1. ASSUME NEW at \in {focus, None}, ~warned, Apply(at), UNCHANGED question
        PROVE  TypeInv'
    BY <1>5, <2>1, ApplyType DEF SetClicked, Apply, Free
  <2>2. CASE /\ warned /\ question' = [of |-> "set"] /\ FocusAfterButton
             /\ UNCHANGED <<property, open, text, dirty, requests, broken>>
    BY <1>5, <2>2 DEF SetClicked, FocusAfterButton, Free
  <2>3. QED BY <1>5, <2>1, <2>2 DEF SetClicked
<1>6. CASE ResetClicked
  <2>1. PICK at \in {focus, None} : ResetControls(at, value, target)
    BY <1>6 DEF ResetClicked
  <2>2. text' \in Contents /\ dirty' \in [Items -> BOOLEAN] /\ focus' \in Items \cup {None}
    BY <1>6, <2>1, ResetType DEF ResetClicked
  <2>3. QED BY <1>6, <2>2 DEF ResetClicked, Free
<1>7. CASE Confirms
  BY <1>7, ApplyType DEF Confirms, Dismiss, Apply
<1>8. CASE Refuses
  BY <1>8 DEF Refuses, Dismiss
<1>9. CASE ConfirmsSwitch
  <2>1. value' \in Contents
    BY <1>9, SetSwitchType DEF ConfirmsSwitch
  <2>2. QED BY <1>9, <2>1, SwitchType DEF ConfirmsSwitch, Dismiss, ItemChanged
<1>10. CASE RefusesSwitch
  BY <1>10, SwitchType DEF RefusesSwitch, Dismiss, ItemChanged
<1>11. CASE PropertyUpdate
  <2>1. Reading(kind, value', target') \in Contents
    BY <1>11, ReadingType DEF PropertyUpdate
  <2>2. text' \in Contents
    BY <1>11, <2>1 DEF PropertyUpdate, UpdateControls
  <2>3. QED BY <1>11, <2>2 DEF PropertyUpdate
<1>12. CASE Closes
  <2>1. question' = NoQuestion /\ broken' \in BOOLEAN /\ open' = FALSE
    BY <1>12 DEF Closes, Discard
  <2>2. pending' \in 0..MaxRequests /\ orphans' \in 0..MaxRequests /\ Bounded'
    BY <1>12, FormAssumption DEF Closes, Discard
  <2>3. QED BY <1>12, <2>1, <2>2 DEF Closes
<1>13. CASE Opens
  <2>1. text' \in Contents
    BY <1>13, ReadingType DEF Opens, Built
  <2>2. QED BY <1>13, <2>1 DEF Opens, Built
<1>14. CASE Rebuilt
  <2>1. text' \in Contents
    BY <1>14, ReadingType DEF Rebuilt, Built
  <2>2. QED BY <1>14, <2>1, FormAssumption DEF Rebuilt, Built, Discard
<1>15. CASE Runs
  BY <1>15, FormAssumption DEF Runs
<1>16. CASE RunsOrphan
  BY <1>16, FormAssumption DEF RunsOrphan
<1>17. QED
  BY <1>1, <1>2, <1>3, <1>4, <1>5, <1>6, <1>7, <1>8, <1>9, <1>10, <1>11, <1>12,
     <1>13, <1>14, <1>15, <1>16 DEF Next, User

(* The type invariant holds in every state of every form.                  *)
THEOREM FormTyped == Spec => []TypeOK
<1>1. TypeInv => TypeOK
  BY DEF TypeInv
<1>2. QED BY <1>1, InitType, NextType, PTL DEF Spec

---------------------------------------------------------------------------
(* The check marks and the texts. *)

(* The two properties support each other only through TypeInv: no edited   *)
(* mark on a switch, no question of a switch about a text.                 *)
ShownInv == SwitchesConsistent /\ CleanTextsCurrent

(* What update() makes of a switch, and of a text that is not edited.      *)
LEMMA Followed ==
    ASSUME TypeInv, kind # "number", UpdateControls(value', target'),
           value' \in Contents, UNCHANGED <<kind, dirty>>
    PROVE  /\ kind = "switch" => text' = value'
           /\ kind = "text" => \A i \in Items : ~dirty'[i] => text'[i] = value'[i]
<1>1. text' = [i \in Items |-> IF Held(i) THEN text[i] ELSE value'[i]]
  BY DEF UpdateControls, Reading
<1>2. CASE kind = "switch"
  <2>1. \A i \in Items : ~Held(i)
    BY <1>2 DEF Held
  <2>2. text' = [i \in Items |-> value'[i]]
    BY <1>1, <2>1
  <2>3. QED BY <1>2, <2>2
<1>3. CASE kind = "text"
  BY <1>1, <1>3 DEF Held
<1>4. QED BY <1>2, <1>3 DEF TypeInv, TypeOK

(* What a text shows once it has been set or reset.                        *)
LEMMA ResetShown ==
    ASSUME TypeInv, CleanTextsCurrent, open, kind = "text", NEW at,
           NEW v, NEW t, ResetControls(at, v, t),
           \A i \in Items : ~dirty[i] => v[i] = value[i]
    PROVE  \A i \in Items : text'[i] = v[i]
BY DEF ResetControls, Reading, CleanTextsCurrent, TypeInv, TypeOK

(* Set: an item that is not edited keeps its value, the others take their text. *)
LEMMA ApplyShown ==
    ASSUME TypeInv, CleanTextsCurrent, open, kind = "text", NEW at, Apply(at)
    PROVE  \A i \in Items : text'[i] = value'[i]
<1>1. ResetControls(at, value', target')
  BY DEF Apply
<1>2. \A i \in Items : ~dirty[i] => value'[i] = value[i]
  BY DEF Apply, Applied, TypeInv, TypeOK
<1>3. QED BY <1>1, <1>2, ResetShown

(* A new form shows what the property holds.                               *)
LEMMA InitShown == Init => ShownInv
BY DEF Init, ShownInv, SwitchesConsistent, CleanTextsCurrent, Reading

(* Every step keeps what is shown in agreement with the property.          *)
LEMMA NextShown == TypeInv /\ ShownInv /\ [Next]_vars => ShownInv'
<1> SUFFICES ASSUME TypeInv, ShownInv, [Next]_vars PROVE ShownInv'
  OBVIOUS
<1> USE DEF ShownInv, SwitchesConsistent, CleanTextsCurrent
<1>0. kind \in {"text", "number", "switch"}
  BY DEF TypeInv, TypeOK
<1>1. CASE UNCHANGED vars
  BY <1>1 DEF vars
<1>2. ASSUME NEW i \in Items, Focuses(i) PROVE ShownInv'
  BY <1>2 DEF Focuses
<1>3. ASSUME NEW i \in Items, Types(i) PROVE ShownInv'
  BY <1>3 DEF Types, Free, TypeInv, TypeOK
<1>4. ASSUME NEW i \in Items, SwitchClicked(i) PROVE ShownInv'
  <2>1. CASE ItemChanged
    BY <1>4, <2>1 DEF SwitchClicked, ItemChanged
  <2>2. CASE ~ItemChanged
    <3>1. question'.of = "switch" /\ UNCHANGED <<kind, open>>
      BY <1>4, <2>2 DEF SwitchClicked
    <3>2. question' # NoQuestion
      BY <3>1
    <3>3. QED BY <1>4, <3>1, <3>2 DEF SwitchClicked
  <2>3. QED BY <2>1, <2>2
<1>5. CASE SetClicked
  <2>1. ASSUME NEW at \in {focus, None}, Apply(at) PROVE ShownInv'
    <3>1. kind = "text" => \A i \in Items : text'[i] = value'[i]
      BY <1>5, <2>1, ApplyShown DEF SetClicked, Free
    <3>2. QED BY <1>5, <2>1, <3>1 DEF SetClicked, Apply
  <2>2. CASE /\ warned /\ question' = [of |-> "set"] /\ FocusAfterButton
             /\ UNCHANGED <<property, open, text, dirty, requests, broken>>
    BY <1>5, <2>2 DEF SetClicked
  <2>3. QED BY <1>5, <2>1, <2>2 DEF SetClicked
<1>6. CASE ResetClicked
  <2>1. PICK at \in {focus, None} : ResetControls(at, value, target)
    BY <1>6 DEF ResetClicked
  <2>2. kind = "text" => \A i \in Items : text'[i] = value[i]
    BY <1>6, <2>1, ResetShown DEF ResetClicked, Free
  <2>3. QED BY <1>6, <2>2 DEF ResetClicked
<1>7. CASE Confirms
  <2>1. Apply(focus) /\ open /\ kind # "switch"
    BY <1>7 DEF Confirms, TypeInv, AskedOf
  <2>2. kind = "text" => \A i \in Items : text'[i] = value'[i]
    BY <2>1, ApplyShown
  <2>3. QED BY <2>1, <2>2 DEF Apply
<1>8. CASE Refuses
  BY <1>8 DEF Refuses, TypeInv, AskedOf
<1>9. CASE ConfirmsSwitch \/ RefusesSwitch
  BY <1>9 DEF ConfirmsSwitch, RefusesSwitch, ItemChanged, TypeInv, TypeOK
<1>10. CASE PropertyUpdate
  BY <1>0, <1>10, Followed DEF PropertyUpdate
<1>11. CASE Closes
  BY <1>11 DEF Closes
<1>12. CASE Opens \/ Rebuilt
  BY <1>12 DEF Opens, Rebuilt, Built, Reading
<1>13. CASE Runs \/ RunsOrphan
  BY <1>13 DEF Runs, RunsOrphan
<1>14. QED
  BY <1>1, <1>2, <1>3, <1>4, <1>5, <1>6, <1>7, <1>8, <1>9, <1>10, <1>11, <1>12, <1>13
     DEF Next, User

(* Check marks agree with the property whenever no question is open.       *)
THEOREM SwitchesShown == Spec => []SwitchesConsistent
<1>1. TypeInv /\ ShownInv => SwitchesConsistent
  BY DEF ShownInv
<1>2. QED BY <1>1, InitType, NextType, InitShown, NextShown, PTL DEF Spec

(* A text that is not marked as edited is the property's.                  *)
THEOREM TextsShown == Spec => []CleanTextsCurrent
<1>1. TypeInv /\ ShownInv => CleanTextsCurrent
  BY DEF ShownInv
<1>2. QED BY <1>1, InitType, NextType, InitShown, NextShown, PTL DEF Spec

---------------------------------------------------------------------------
(* What the user has typed. *)

(* An update from the bus keeps the text of every edited control.          *)
LEMMA UpdateKeepsEdits ==
    ASSUME TypeInv, PropertyUpdate, NEW i \in Items, dirty[i]
    PROVE  text'[i] = text[i]
<1>1. Held(i)
  BY DEF Held, TypeInv, TypeOK
<1>2. QED BY <1>1 DEF PropertyUpdate, UpdateControls

(* The only steps that change an edited text are the user's own and those  *)
(* that make the form anew.                                                *)
LEMMA NextKeepsEdits ==
    ASSUME TypeInv, Next, NEW i \in Items, open, open', dirty[i], text'[i] # text[i]
    PROVE  SetClicked \/ Confirms \/ ResetClicked \/ Types(i) \/ Rebuilt
<1>1. kind # "switch"
  BY DEF TypeInv, TypeOK
<1>2. ASSUME NEW j \in Items, Types(j) PROVE j = i
  BY <1>2 DEF Types, TypeInv, TypeOK
<1>3. ASSUME NEW j \in Items, Focuses(j) PROVE FALSE
  BY <1>3 DEF Focuses
<1>4. ASSUME NEW j \in Items, SwitchClicked(j) PROVE FALSE
  BY <1>1, <1>4 DEF SwitchClicked
<1>5. ~Refuses
  BY DEF Refuses
<1>6. ~ConfirmsSwitch /\ ~RefusesSwitch
  BY <1>1 DEF ConfirmsSwitch, RefusesSwitch, TypeInv, TypeOK
<1>7. ~PropertyUpdate
  BY UpdateKeepsEdits
<1>8. ~Closes /\ ~Opens
  BY DEF Closes, Opens
<1>9. ~Runs /\ ~RunsOrphan
  BY DEF Runs, RunsOrphan
<1>10. QED
  BY <1>2, <1>3, <1>4, <1>5, <1>6, <1>7, <1>8, <1>9 DEF Next, User

(* Whatever the bus reports and the pool's threads do while the user edits, *)
(* an edited text stays until the user sets or resets it, or the form is    *)
(* made anew.                                                              *)
THEOREM EditsAreKept == Spec => EditsSurvive
<1>1. TypeInv /\ [Next]_vars =>
        [\A i \in Items : open /\ open' /\ dirty[i] /\ text'[i] # text[i] =>
           SetClicked \/ Confirms \/ ResetClicked \/ Types(i) \/ Rebuilt]_vars
  BY NextKeepsEdits
<1>2. QED BY <1>1, InitType, NextType, PTL DEF Spec, EditsSurvive

=============================================================================
