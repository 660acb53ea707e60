\* What the manual says of text tools and of scripts, each sentence with the
\* sessions that meet it: the INVARIANT is one of
\*   NoLineAdded, TailGivesLastLines, SortGivesTheLines   with ToolSessions
\*   BlocksNest                                           with NestSessions
\*   ArmsRunCommands                                      with ArmSessions
CONSTANTS
    LineMax = 3
    SortMax = 4
    TacMax = 4
    Columns = 5
    AliasMax = 2
    JobMax = 2
    VarMax = 2
    BufSize = 12
    FileMax = 12
    NestMax = 3
    LoopMax = 2
    DepthMax = 2
    Sessions <- ToolSessions
SPECIFICATION ScriptSpec
INVARIANT NoLineAdded
\* A session ends when its last line has been run.
CHECK_DEADLOCK FALSE
