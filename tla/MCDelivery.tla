----------------------------- MODULE MCDelivery -----------------------------
EXTENDS Delivery

OnlyAuto == {TRUE}
=============================================================================
