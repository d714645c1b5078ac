------------------------- MODULE MCPropertyPipeline -------------------------
(* Instances of PropertyPipeline for TLC.                                  *)
EXTENDS PropertyPipeline, TLC

CONSTANTS s1, s2, b1, b2, n1, c1, c2, c3

\* Server s2 reports the BLOB vector b2, server s1 the BLOB vector b1 and the
\* text vector n1, each server about one device.
OwnerOf == [p \in Props |-> IF p = b2 THEN s2 ELSE s1]

DeviceOf == OwnerOf

\* Every vector is in a group of its own.
GroupOf == [p \in Props |-> p]

\* Everything is reported in state OK.
OkOnly == [p \in Props |-> {"ok"}]

\* The BLOB vectors are reported in every state a preview depends on.
BlobStates ==
    [p \in Props |-> IF p \in Blobs THEN {"ok", "busy", "alert", "write-only"}
                     ELSE {"ok"}]

\* A plain vector is reported in two states.
OkOrBusy == [p \in Props |-> {"ok", "busy"}]

CellSymmetry == Permutations(Cells)
=============================================================================
