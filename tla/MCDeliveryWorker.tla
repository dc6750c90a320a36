-------------------------- MODULE MCDeliveryWorker --------------------------
(* DeliveryWorker with two credentials.                                    *)
EXTENDS DeliveryWorker

CONSTANTS b1, b2, none

TwoTokens == {b1, b2}
=============================================================================
