-------------------------- MODULE MCAccountUpdates --------------------------
(* One installation, one update.                                            *)
EXTENDS AccountUpdates
=============================================================================
