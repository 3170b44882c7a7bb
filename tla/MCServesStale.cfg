SPECIFICATION WholeSpec
CONSTANTS
    ka = ka
    kb = kb
    kc = kc
    qa = qa
    qb = qb
    d0 = d0
    d1 = d1
    NoEntry = NoEntry
    None = None
    KeyQuestion <- MCKeyQuestion
    QuestionName <- MCQuestionName
    Question = {qa, qb}
    Key = {ka}
    Domain = {d0, d1}
    Response <- CloakedResponse
    Call = {c1}
    Task = {t1}
    Client = {u1}
    MaxEntries = 1
    MaxTTL = 300
    StaleWindow = 1
    RefreshMinHits = 1
    LockWait = 0
    MaxTime = 2
    MaxInflight = 2
    MaxCNAMEChecks = 1
SYMMETRY Symmetry
INVARIANTS
    ServesStale
