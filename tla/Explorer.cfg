\* Two workers that share a file: what they serve, and that they answer
SPECIFICATION FairSpec
CONSTANTS
    w1 = w1
    w2 = w2
    t1 = t1
    t2 = t2
    t3 = t3
    Worker = {w1, w2}
    Thread = {t1, t2, t3}
    WorkerOf <- MCWorkerOf
    Versions <- MCVersions
    CohostEpisodes = 3
    CohostShare = 5
    TTL = 1
    SortedNames <- MCSortedNames
    Normal <- MCNormal
    Query <- MCQuery
    Uploads <- MCUploads
    MaxTime = 1
    MaxFaults = 1
    None = None
INVARIANTS
    AnswersArePaths
    OneLoadAtATime
PROPERTIES
    AnswersAreRecent
    EveryRequestIsAnswered
