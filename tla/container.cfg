SPECIFICATION FairSpec
CONSTANT MaxRetries = 3
INVARIANTS SuccessIsReal NoContainerLeft NoGoroutineLeft
PROPERTY RunEnds
