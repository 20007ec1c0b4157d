---------------------------- MODULE MCWebhookInbox ----------------------------
(* Instances of WebhookInbox for TLC; the events are told apart only by    *)
(* being supported or not, the workers not at all.                         *)
EXTENDS WebhookInbox, TLC

EventSymmetry == Permutations(Supported)

ReplicaSymmetry == EventSymmetry \cup Permutations(Workers)
===============================================================================
