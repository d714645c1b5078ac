-------------------------- MODULE MCPropertyWindow --------------------------
(* Two devices: one with a "Main" group of three properties, two of which    *)
(* have the same label, and another group, and one with a property of the    *)
(* same name as the first has.                                               *)
EXTENDS PropertyWindow

Vector(d, g, n) == [device |-> d, group |-> g, name |-> n]

MCVectors == {
    Vector("CCD", "Main", "CONNECTION"), Vector("CCD", "Main", "INFO"),
    Vector("CCD", "Main", "CONFIG"), Vector("CCD", "Image", "EXPOSURE"),
    Vector("Guider", "Image", "EXPOSURE") }

MCNameOrder == [n \in Devices \cup Groups |->
    CASE n = "CCD" -> 1 [] n = "Guider" -> 2 [] n = "Image" -> 3 [] n = "Main" -> 4]

MCLabelOrder == [v \in Vectors |->
    CASE v.name = "CONFIG" -> 1 [] v.name = "CONNECTION" -> 1
      [] v.name = "EXPOSURE" -> 3 [] v.name = "INFO" -> 2]
=============================================================================
