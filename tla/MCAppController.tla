--------------------------- MODULE MCAppController --------------------------
(* Two operations that may overlap, and room for two synchronizations.     *)
EXTENDS AppController
=============================================================================
