--------------------------- MODULE MCPropertyForm ---------------------------
(* Two items that hold 0, 1 or 2; texts that lose a digit, and exact ones. *)
EXTENDS PropertyForm

Rounded == [v \in Values |-> IF v = 2 THEN 1 ELSE v]
Exact   == [v \in Values |-> v]

=============================================================================
