-------------------------- MODULE MCWebhookPipeline --------------------------
(***************************************************************************)
(* Instances of WebhookPipeline for TLC.  Workers and requests are         *)
(* interchangeable in the safety runs.                                     *)
(***************************************************************************)
EXTENDS WebhookPipeline, TLC

MCSymmetry == Permutations(Workers) \cup Permutations(Requests)
=============================================================================
