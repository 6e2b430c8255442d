----------------------------- MODULE MCDelivery -----------------------------
EXTENDS DeliveryInv, TLC

\* Messages are interchangeable where no constant tells them apart.
Symmetry == Permutations(Msg)
=============================================================================
