\* req6_new() called again and again by its caller, with every outcome of
\* the upstream, the RPC layer and the allocator, and a signal at any time.
SPECIFICATION Spec
INVARIANT ReleasedOnReturn
PROPERTY SignalEndsRequester
\* exit() ends the process: the only state with no successor.
CHECK_DEADLOCK FALSE
