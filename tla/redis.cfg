SPECIFICATION MCSpec
CONSTANTS
    d1 = d1
    d2 = d2
    p1 = p1
    x1 = x1
    q = q
    Direct <- MCDirect
    Pipelines <- MCPipelines
    Exclusive <- MCExclusive
    QuitRequest = q
    NoRequest = NoRequest
    PipelineSize = 2
    MaxRetries = 1
INVARIANT RepliesAccounted
PROPERTIES SuffixNotReplayed ClientSettles
CHECK_DEADLOCK FALSE
