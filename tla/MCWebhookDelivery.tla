-------------------------- MODULE MCWebhookDelivery -------------------------
(* WebhookDelivery on a small instance.                                    *)
EXTENDS WebhookDelivery
=============================================================================
