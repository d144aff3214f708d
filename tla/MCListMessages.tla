--------------------------- MODULE MCListMessages ---------------------------
EXTENDS ListMessages

\* Argument words from -1 (negative counts) to 5 (past a 3-record inbox).
MCInts == -1..5

CONSTANTS tReg, tOther

MCRegisteredOnly == {tReg}

MCPrinting   == {TRUE}
=============================================================================
