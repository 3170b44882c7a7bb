SPECIFICATION SuiteSpec
CONSTANTS
    ka = ka
    kb = kb
    kc = kc
    qa = qa
    qb = qb
    d0 = d0
    d1 = d1
    NoEntry = NoEntry
    None = None
    KeyQuestion <- OneQuestion
    QuestionName <- MCQuestionName
    Question = {qa, qb}
    Key = {ka, kb, kc}
    Domain = {d0, d1}
    Response <- AnyResponse
    Call = {c1, c2, c3}
    Task = {t1, t2}
    Client = {u1, u2}
    MaxEntries = 2
    MaxTTL = 3
    StaleWindow = 2
    RefreshMinHits = 1
    LockWait = 1
    MaxTime = 4
    MaxInflight = 2
    MaxCNAMEChecks = 1
SYMMETRY SuiteSymmetry
INVARIANTS
    AdmissionBound
    ListMatchesMap
    LifetimeBounded
    NoBlockedNameAnswered
    SingleFlight
    AnswersMatch
PROPERTIES
    ImplementsBoundedCache
