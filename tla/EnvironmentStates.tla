------------------------- MODULE EnvironmentStates -------------------------
(***************************************************************************)
(* What the status of a ZrokEnvironment tells the other controllers, and   *)
(* which status may follow which.                                          *)
(*                                                                         *)
(*   missing  no such object                                               *)
(*   pending  no EnvZID, not Ready                                         *)
(*   enabled  EnvZID, not Ready                                            *)
(*   ready    EnvZID, Ready                                                *)
(*   unkeyed  Ready although EnvZID has been cleared for a new Enable      *)
(***************************************************************************)
EnvState == {"missing", "pending", "enabled", "ready", "unkeyed"}

\* The status with this EnvZID (or none) and this Ready condition.
StateOf(hasZID, isReady) ==
  IF hasZID THEN IF isReady THEN "ready" ELSE "enabled"
  ELSE IF isReady THEN "unkeyed" ELSE "pending"

\* What one write of the environment controller or of a user may make of a
\* state.  EnvZID and Ready never change in one write, and Ready is never set
\* without an EnvZID.
Follows(st) ==
  CASE st = "missing" -> {"pending"}
    [] st = "pending" -> {"enabled", "missing"}
    [] st = "enabled" -> {"ready", "pending", "missing"}
    [] st = "ready"   -> {"enabled", "unkeyed", "missing"}
    [] st = "unkeyed" -> {"ready", "pending", "missing"}
=============================================================================
