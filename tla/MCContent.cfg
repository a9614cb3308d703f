CONSTANTS
    Procs = {p1, p2}
    MaxVersions = 2
    MaxDeletes = 1
    MaxReads = 1
    MaxFaults = 1
    Companies = {1}
    Exercises = {1, 2}
    Printed = {1}
    MaxSetCalls = 3
    Ids = {1}
    Bizs = {"baguwen", "project"}
    DefaultBiz = "baguwen"
    ProjectParts = {"introduction", "combo"}
    ProjectVersions = 3
    QuestionRows = {1, 2, 3}
    OldQuestions = {1, 2}
    QuestionCommits = 4
    CaseRows = {1, 2}
    OldCases = {1}
    CaseCommits = 3
    SyncedPage = 1
    Scenes = {"question", "cases", "project", "kbase", "relations", "review", "roadmap", "questionset", "caseset", "skill", "questionsync", "casesync"}
SPECIFICATION Spec
ACTION_CONSTRAINTS Scope ConsumeFirst
INVARIANTS TypeOK CachesShowTheTable DraftsStayPrivate DocumentsFollow ReferencesHold NothingIsSkipped
PROPERTIES SyncEnds
CHECK_DEADLOCK FALSE
