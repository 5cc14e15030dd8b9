-------------------------- MODULE MCSellerStreams --------------------------
(* TLC instance of SellerStreams: one more id than the limit, and one more *)
(* stream than ids, so that an id is used again.                           *)
EXTENDS SellerStreams
=============================================================================
