----------------------------- MODULE MCLiveFeed ------------------------------
(* LiveFeed on small instances.                                             *)
EXTENDS LiveFeed
=============================================================================
