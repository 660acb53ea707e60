\* Command lines, text tools, jobs and scripts.
CONSTANTS
    LineMax = 3
    SortMax = 4
    TacMax = 4
    Columns = 5
    AliasMax = 2
    JobMax = 2
    VarMax = 2
    BufSize = 12
    FileMax = 12
    NestMax = 3
    LoopMax = 2
    DepthMax = 2
    Sessions <- MCSessions
SPECIFICATION ScriptSpec
INVARIANTS JobsAccounted ToolsAgree LineMeans RunsAsNested ScopesKept
\* A session ends when its last line has been run.
CHECK_DEADLOCK FALSE
