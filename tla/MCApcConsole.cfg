\* The console's commands with complete APC replies: info and stats show
\* the APC's values.  Nothing runs after quit, or after MaxCmds commands.
CONSTANTS
    v1 = v1
    v2 = v2
    Vals <- MCVals
    InfoFieldsAP <- MCInfoAP
    InfoFieldsAPC <- MCInfoAPC
    Counters <- MCCounters
    ServerLoggers <- MCLoggers
    ParamWords <- MCParamWords
    ValueWords <- MCValueWords
    OtherWord = OtherWord
    Unknown = Unknown
    NoReq = NoReq
    NoSnap = NoSnap
    MaxCount = 2
    MaxCmds = 3
    MaxChanges = 2
    FullReplies = TRUE
SPECIFICATION Spec
INVARIANTS
    DisplayShowsLatest
CHECK_DEADLOCK FALSE
