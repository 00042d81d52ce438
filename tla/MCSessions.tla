---------------------------- MODULE MCSessions ------------------------------
(* Instance of Sessions for TLC.  Tokens bounds the tokens ever signed,    *)
(* Ids the accounts, Requests the requests in flight.                      *)
EXTENDS Sessions
=============================================================================
