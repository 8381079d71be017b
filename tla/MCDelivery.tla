----------------------------- MODULE MCDelivery -----------------------------
(***************************************************************************)
(* The whole agent process on one file.                                    *)
(***************************************************************************)
EXTENDS Delivery

MCBlank == {<<1, 1, 2>>}
=============================================================================
