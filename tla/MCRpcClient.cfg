\* The console's client (no identity), with standard input idle in some
\* behaviours and readable (typed ahead, or a file) in others: after a
\* timeout a readable stdin wakes poll() through the stale poll item.
CONSTANTS
    CmdIds <- MCCmdIds
    Services <- MCServices
    MaxCalls = 3
    Identity = FALSE
    StdinCases <- MCStdinBoth
    NoCmd = NoCmd
SPECIFICATION Spec
INVARIANT TypeOK ClientUsableWhenIdle
PROPERTY RefinesRpcCall SendReturnsWhileStdinIdle
\* After MaxCalls calls the caller stops, and the server may stop answering.
CHECK_DEADLOCK FALSE
