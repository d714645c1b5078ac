\* Two servers whose previews nest, and a user who has them rebuilt meanwhile;
\* fair, without symmetry.
CONSTANTS
    s1 = s1
    s2 = s2
    b1 = b1
    b2 = b2
    n1 = n1
    c1 = c1
    c2 = c2
    c3 = c3
    NoCell = NoCell
    Owner <- OwnerOf
    Device <- DeviceOf
    Group <- GroupOf
    Servers = {s1, s2}
    Props = {b1, b2}
    Blobs = {b1, b2}
    LongTexts = {}
    States <- OkOnly
    Sweeps = {}
    Messages = {FALSE}
    Decodes = {FALSE}
    MaxRebuilds = 1
    Cells = {c1, c2, c3}
SPECIFICATION FairSpec
INVARIANTS
    TypeOK
    NestingBounded
PROPERTIES
    ThreadsWake
    ImplementsMirror
