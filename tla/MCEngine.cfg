CONSTANTS
    r1 = r1
    r2 = r2
    ka = ka
    kb = kb
    kc = kc
    kd = kd
    ke = ke
    kz = kz
    w1 = w1
    w2 = w2
    NoKey = NoKey
    Key = {ka, kb, kc, kd, ke, kz}
    HashOf <- MCHashOf
    NumBlocks = 2
    EvictionCallCap = 0
    TombstoneCapacity = 0
    MaxEvents = 4
    Req = {r1, r2}
    KeysOf <- MCKeysOf
    PromptTokens <- MCPromptTokens
    MaxTokens = 4
    TokensPerChunk = 1
    Window = 0
    LocalHits = TRUE
    MirrorLocal = TRUE
    NumGpuBlocks = 2
    Worker = {w1}
    Lead = w1
    MaxPreemptions = 1
    MaxResets = 1
    ResetKinds = {"connector", "local", "raises"}
SPECIFICATION Spec
INVARIANTS TierHoldsItsKeys RequestsReadTheirOwn TransfersUndisturbed JobsConsistent
