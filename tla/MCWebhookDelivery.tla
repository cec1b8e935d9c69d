--------------------------- MODULE MCWebhookDelivery ---------------------------
(* Small instances of WebhookDelivery for TLC. *)
EXTENDS WebhookDelivery

CONSTANTS h1, h2, h3, o1, o2

MCOneOrg == [h \in Hooks |-> o1]

MCTwoOrgs == [h \in Hooks |-> IF h = h3 THEN o2 ELSE o1]
================================================================================
