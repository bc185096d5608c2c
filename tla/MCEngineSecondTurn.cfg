CONSTANTS
    r1 = r1
    r2 = r2
    ka = ka
    kb = kb
    kc = kc
    kd = kd
    ke = ke
    kz = kz
    w1 = w1
    w2 = w2
    NoKey = NoKey
    Key = {ka, kb, kc, kd, ke, kz}
    HashOf <- MCHashOf
    NumBlocks = 2
    EvictionCallCap = 0
    TombstoneCapacity = 0
    MaxEvents = 4
    Req = {r1, r2}
    KeysOf <- MCTurnsKeysOf
    PromptTokens <- MCTurnsPromptTokens
    MaxTokens = 10
    TokensPerChunk = 2
    Window = 1
    LocalHits = FALSE
    MirrorLocal = TRUE
    NumGpuBlocks = 2
    Worker = {w1}
    Lead = w1
    MaxPreemptions = 0
    MaxResets = 0
    ResetKinds = {}
SPECIFICATION Spec
INVARIANT RestoresAreSound
