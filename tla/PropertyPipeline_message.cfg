\* One server with a text vector, with and without messages.
CONSTANTS
    s1 = s1
    s2 = s2
    b1 = b1
    b2 = b2
    n1 = n1
    c1 = c1
    c2 = c2
    c3 = c3
    NoCell = NoCell
    Owner <- OwnerOf
    Device <- DeviceOf
    Group <- GroupOf
    Servers = {s1}
    Props = {n1}
    Blobs = {}
    LongTexts = {n1}
    States <- OkOrBusy
    Sweeps = {}
    Messages = {TRUE, FALSE}
    Decodes = {FALSE}
    MaxRebuilds = 0
    Cells = {c1, c2, c3}
SPECIFICATION Spec
INVARIANT MessageFreedOnce
