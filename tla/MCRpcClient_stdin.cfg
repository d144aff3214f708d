\* The console's client while the user types ahead: standard input is
\* readable during a poll.
CONSTANTS
    CmdIds <- MCCmdIds
    Services <- MCServices
    MaxCalls = 3
    Identity = FALSE
    StdinCases <- MCStdinReadable
    NoCmd = NoCmd
SPECIFICATION Spec
PROPERTY SendReturns
\* After MaxCalls calls the caller stops, and the server may stop answering.
CHECK_DEADLOCK FALSE
