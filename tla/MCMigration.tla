----------------------------- MODULE MCMigration -----------------------------
(***************************************************************************)
(* Three processes, a file event and two without a location, written with  *)
(* different distances from UTC: as clock readings they sort otherwise     *)
(* than as instants.                                                       *)
(***************************************************************************)
EXTENDS Migration, TLC

MCLocal == ("file" :> 3) @@ ("note" :> 4) @@ ("late" :> 4)
MCOffset == ("file" :> 0) @@ ("note" :> 2) @@ ("late" :> -1)
MCScopeOf == ("file" :> "s1") @@ ("note" :> "s2") @@ ("late" :> "s1")
=============================================================================
