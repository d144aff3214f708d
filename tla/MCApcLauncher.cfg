\* NTP_TIMEOUT 180 s polled every 2 s, as in apc_launcher.py; Popen may
\* fail for an installed ntpq too (a failed fork).
CONSTANTS
    Errs <- MCErrs
    NTP_TIMEOUT = 180
    POLL_INTERVAL = 2
    TransientOSError = TRUE
    NoErr = NoErr
SPECIFICATION Spec
INVARIANT TypeOK
PROPERTIES
    
    LauncherTerminates
CHECK_DEADLOCK FALSE
