--------------------------- MODULE MCTenantStore ---------------------------
(* Two accounts, so that one store evicts the other and both draw on the   *)
(* host's reserve.                                                         *)
EXTENDS TenantStore
=============================================================================
