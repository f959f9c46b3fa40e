---------------------------- MODULE MCWebhookReceiver ---------------------------
(***************************************************************************)
(* Two scenarios, one with two receivers. Waits for one request and for    *)
(* two: a waiter may consume a signal and have to wait again.              *)
(***************************************************************************)
EXTENDS WebhookReceiver, TLC

CONSTANTS a, b

MCScenarios == {a, b}
MCIds    == {"orders", "refunds", "other"}
MCOwner  == ("orders" :> a) @@ ("refunds" :> a) @@ ("other" :> b)
MCCounts == {1, 2}
=================================================================================
