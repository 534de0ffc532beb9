-------------------------- MODULE MCClientSessions --------------------------
(* This device and another one, of which the account may keep one signed in.*)
EXTENDS ClientSessions
=============================================================================
