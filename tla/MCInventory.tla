---------------------------- MODULE MCInventory -----------------------------
(* Instance of Inventory for TLC.  Handlers bounds the requests in flight  *)
(* and Items the ids a row can have.                                       *)
EXTENDS Inventory
=============================================================================
