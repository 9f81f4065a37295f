----------------------------- MODULE MCDelivery -----------------------------
(* Small instances of DeliveryQueue for TLC.                               *)
EXTENDS DeliveryQueue, TLC

CONSTANTS m1, m2, d1, d2
=============================================================================
