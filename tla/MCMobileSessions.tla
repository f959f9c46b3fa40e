---------------------------- MODULE MCMobileSessions ----------------------------
(***************************************************************************)
(* Three scenarios on two targets, each with a device of its own. Two of   *)
(* them record, one of these whatever target it drives first.              *)
(***************************************************************************)
EXTENDS MobileSessions, TLC

CONSTANTS a, b, c, phone, tablet

MCScenarios == {a, b, c}
MCTargets   == {phone, tablet}
MCDevices   == {"iPhone", "iPad"}
MCDeviceOf  == (phone :> "iPhone") @@ (tablet :> "iPad")
MCRecorded  == {a, b}
MCBoundTo   == (a :> AnyTarget) @@ (b :> phone) @@ (c :> AnyTarget)
=================================================================================
