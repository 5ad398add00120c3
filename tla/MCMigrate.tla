------------------------------ MODULE MCMigrate ------------------------------
(* Three jobs for TLC: two whose plans have one digest and different
   destinations, and an older one without a plan. The collection grows
   from a full page to a page and one more, which the manifest has. *)
EXTENDS Migrate, TLC

MCLanesOf == "a" :> <<"c", "m">> @@ "b" :> <<"c">> @@ "v1" :> <<"c">>

MCEntries == "c" :> 2 @@ "m" :> 3

MCTo == "a" :> "x" @@ "b" :> "y" @@ "v1" :> "x"

Identity(destination) == [planDigest |-> "p", destinationIdentity |-> destination]

MCPlanOf == "a" :> Identity("x") @@ "b" :> Identity("y") @@ "v1" :> None
==============================================================================
