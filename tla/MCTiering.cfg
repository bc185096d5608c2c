CONSTANTS
    ka = ka
    kb = kb
    r1 = r1
    t1 = t1
    NoRequest = NoRequest
    Key = {ka, kb}
    Idle = {}
    NumSlots = 2
    Tier = {t1}
    RequestLevel = {t1}
    Remote = {t1}
    Request = {r1}
    NumIds = 2
    PromotionTTL = 1
    FailTTL = 1
    StoreTTL = 1
    MaxGpuJobs = 2
    MaxBatch = 1
SPECIFICATION FairSpec
INVARIANTS StateOK ReservationsOwned TransfersKeepTheirSlots AssertionsHold
PROPERTIES NothingAfterFinalization FailedPromotionsWait ReservationsResolve
