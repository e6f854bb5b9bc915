------------------------------- MODULE MCRollup -------------------------------
(* Rollup on four named monitors, in two groups that depend on each other. *)
EXTENDS Rollup

CONSTANTS core, access, server, guest

FourMonitors == <<core, access, server, guest>>

TwoGroups == [m \in Range(FourMonitors) |-> IF m \in {core, server} THEN "net" ELSE "hosts"]
=============================================================================
