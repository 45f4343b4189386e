----------------------------- MODULE MCCollector -----------------------------
(***************************************************************************)
(* Two files, a folder that comes and goes, two directories that stay and  *)
(* three paths: room for a rename within and across directories and for    *)
(* two of the three to trade a path.                                       *)
(***************************************************************************)
EXTENDS Collector, TLC

MCPaths == {"a/x", "a/y", "b/x"}
MCDirs == {"a", "b"}
MCDirOf == ("a/x" :> "a") @@ ("a/y" :> "a") @@ ("b/x" :> "b")
=============================================================================
