\* Two tasks that wait for tokens and for the predicate by turns.
SPECIFICATION LiveSpec
CONSTANTS
    t1 = t1  t2 = t2
    Tasks = {t1, t2}
    TokenTasks = {t1, t2}
    QueueTasks = {t1, t2}
    Disturbed = {t1, t2}
    COMPLETE_ALL = 3
    MaxDeferred = 2
INVARIANTS
    TypeOK
    NodesLive
    SleeperRegistered
    StickyReachesAll
    PredicateSeen
PROPERTIES
    StickyReturns
    ReadyReturns
