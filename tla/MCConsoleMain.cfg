\* Every start of the console on the command lines and configuration
\* files of MCConsoleMain, then up to three commands.
CONSTANTS
    None = None
    NoErr = NoErr
    CmdLines <- MCCmdLines
    FileLines <- MCFileLines
    MaxLines = 2
    Exts <- MCExts
    EndpointCode <- MCEndpointCode
    ScanCases <- MCScanCases
    MaxCmds = 3
    NoApc = NoApc
    TwoApcs = TwoApcs
    NoClientId = NoClientId
    ClientIdLast = ClientIdLast
SPECIFICATION Spec
INVARIANT TypeOK ParseArgsLayering ConnectsToChosenApc
\* main() returns or exits: the console process ends.
CHECK_DEADLOCK FALSE
