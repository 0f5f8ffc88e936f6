\* Buffers of alloc_buffer, against what libuv asks of a read callback.
SPECIFICATION Spec
CONSTANTS
    Ctxs = {c1, c2}
    Params = {}
    backlog = 1
    InitialSize = 2
    SendSizes = {1}
    MaxId = 2
INVARIANT BuffersFreed
