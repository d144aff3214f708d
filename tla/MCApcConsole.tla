---------------------------- MODULE MCApcConsole ----------------------------
(***************************************************************************)
(* The console with one logger on the APC, an AP and an APC field of       *)
(* InfoDict, a counter of each StatsDict group, and two values.            *)
(***************************************************************************)
EXTENDS ApcConsole

CONSTANTS v1, v2

MCVals == {v1, v2}
MCInfoAP == {"apstate"}
MCInfoAPC == {"gpsstate"}
MCCounters == {"apPktsSent", "mgrPktSent"}
MCLoggers == {"apc.main"}

\* "txpower" is the help's name for "txpwr".
MCParamWords == {"txpwr", "jkey", "macaddr", "txpower"}
MCValueWords == {"dec", "big", "hex16"}

====
