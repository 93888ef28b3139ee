---------------------------- MODULE MCModelAdmin -----------------------------
(* Small instance of ModelAdmin and its panels. *)
EXTENDS ModelAdmin

MCPaths == {"p1"}
MCPrices == {1, 2}
=============================================================================
