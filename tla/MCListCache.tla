---------------------------- MODULE MCListCache -----------------------------
(* Instances of ListCache for TLC.  Handlers bounds the requests in flight. *)
EXTENDS ListCache
=============================================================================
