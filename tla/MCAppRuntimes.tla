---------------------------- MODULE MCAppRuntimes ---------------------------
(* One or two accounts and the guest; the number of replacements is the    *)
(* only bound.                                                             *)
EXTENDS AppRuntimes
=============================================================================
