---------------------------- MODULE MCRpcClient ----------------------------
(* RpcClient with two command bytes and two services, the default one     *)
(* (APC_RPC_SERVICE) and another.                                          *)
EXTENDS RpcClient

MCCmdIds == {1, 2}
MCServices == {"apc", "other"}
MCOneService == {"apc"}

\* Standard input idle during every poll, or readable during every poll.
MCStdinBoth == {FALSE, TRUE}
MCStdinIdle == {FALSE}
MCStdinReadable == {TRUE}

====
