CONSTANTS
    Scenes = {"login"}
    Procs = {p1}
    caseA = caseA
    caseB = caseB
    WechatUsers = {w1, w2}
    Mobiles = {t1}
    MaxLogins = 4
    Arrivals = {w1}
    AppHeaders = {9, 1, 7}
    NoApp = 9
    IdSteps = 2
    MaxClock = 2
    MaxRequests = 3
    absent = absent
    Likers = {u1, u2}
    Reader = u1
    MaxMarks = 5
    MaxFolders = 2
    MaxPages = 1
    Runs = {"r1", "r2", "r3"}
    RunnerOf <- OneRunner
    BizOfRun <- Businesses
    Balance = 3
    Prices = {0, 1}
    Tokens = {1500}
    MaxSaves = 2
    Cap = 10
    MaxChunks = 12
    Resources = {1, 2}
    MaxNow = 3
    MaxVisits = 4
    Funds = 7
    MaxFeedback = 3
    MaxDecisions = 2
    MaxMaterials = 2
    MaxMillis = 1
    MaxRulings = 3
    MaxFaults = 1
SPECIFICATION Spec
CHECK_DEADLOCK FALSE
INVARIANT LoginsSucceed
