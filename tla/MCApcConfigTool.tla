------------------------- MODULE MCApcConfigTool -------------------------
(* Four configurations, the last named "all" (which delete takes for      *)
(* every configuration), and two hosts update may set.                    *)
EXTENDS ApcConfigTool

MCNames == {1, 2, 3, 4}
MCAllNames == {4}
MCHosts == {"h1", "h2"}

====
