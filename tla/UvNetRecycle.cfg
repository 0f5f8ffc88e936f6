\* Contexts kept for the next connection, against what SubClientClosed does with them.
SPECIFICATION Spec
CONSTANTS
    Ctxs = {c1, c2}
    Params = {}
    backlog = 1
    InitialSize = 2
    SendSizes = {1}
    MaxId = 2
INVARIANT RecycledIsAllocated
