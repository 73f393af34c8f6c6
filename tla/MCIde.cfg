SPECIFICATION MCFairSpec
CONSTANTS
    Main = Main  Other = Other  NoOne = NoOne  NoEditor = NoEditor
    Callers <- MainAndOther
    JobLimit = 3
    MaxJobs = 2
    EditorLimit = 2
    Daemons = {d1, d2, d3}
    Clients = {c1, c2}
    NoFile = NoFile
    RequestLimit = 2
    FailLimit = 1
INVARIANTS SceneTypes ResultKept MarksFollowTabs
PROPERTIES ImplementsService OutputShown StealsOnlyRacing RequestsEnd
CHECK_DEADLOCK FALSE
