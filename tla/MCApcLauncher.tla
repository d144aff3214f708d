--------------------------- MODULE MCApcLauncher ---------------------------
(***************************************************************************)
(* The launcher with its own timeout and poll interval and two ntpq error   *)
(* texts.                                                                  *)
(***************************************************************************)
EXTENDS ApcLauncher

\* Two stderr texts of ntpq.
MCErrs == {"Connection refused", "Request timed out"}

====
