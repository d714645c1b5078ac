\* One server with a BLOB vector in every state and a text vector, deleted one by
\* one, by group and by device, and a user who has the previews rebuilt.
CONSTANTS
    s1 = s1
    s2 = s2
    b1 = b1
    b2 = b2
    n1 = n1
    c1 = c1
    c2 = c2
    c3 = c3
    NoCell = NoCell
    Owner <- OwnerOf
    Device <- DeviceOf
    Group <- GroupOf
    Servers = {s1}
    Props = {b1, n1}
    Blobs = {b1}
    LongTexts = {n1}
    States <- BlobStates
    Sweeps = {"delete group", "delete device"}
    Messages = {TRUE, FALSE}
    Decodes = {TRUE, FALSE}
    MaxRebuilds = 1
    Cells = {c1, c2, c3}
SPECIFICATION Spec
SYMMETRY CellSymmetry
INVARIANTS
    CopyOwnership
    LogReadsLiveCopy
    RawVectorAlive
    PreviewMatchesState
PROPERTY AppliesInOrder
