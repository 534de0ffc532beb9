--------------------------- MODULE AccountUpdates ---------------------------
(***************************************************************************)
(* ClientSessions with updateAccount(): an account request, made with an   *)
(* access token that was good then, brought new account data, and these    *)
(* are stored with the refresh token in memory.  The controller is busy    *)
(* meanwhile, but the sync may refresh.                                    *)
(***************************************************************************)
EXTENDS ClientSessions

CONSTANT MaxUpdates   \* bound: account updates

VARIABLES update,     \* the update in progress, and what it is writing
          updates

updateVars == <<vars, update, updates>>

NoUpdate == [pc |-> "none"]
Asking == [pc |-> "ask"]
Writing(c) == [pc |-> "write", credential |-> c]
LifecycleBusy == update # NoUpdate

InitUpdates == Init /\ update = NoUpdate /\ updates = 0

AskServer ==
    /\ gate = "signedIn" /\ access # 0 /\ ~LifecycleBusy
    /\ updates < MaxUpdates /\ updates' = updates + 1
    /\ update' = Asking
    /\ UNCHANGED vars

(* copyWith() leaves out the request id of a refresh that is pending.      *)
UpdateAccount ==
    /\ update = Asking /\ mem # Nothing
    /\ update' = Writing(Credential(mem.token, 0))
    /\ UNCHANGED <<vars, updates>>

AccountUpdated ==
    /\ update.pc = "write" /\ update' = NoUpdate
    /\ store' = update.credential /\ mem' = update.credential
    /\ UNCHANGED <<serverVars, access, task, gate, out, left, stray, counters, updates>>

UpdateFails ==
    /\ update = Asking /\ update' = NoUpdate
    /\ UNCHANGED <<vars, updates>>

UpdateInFlight == IF update.pc = "write" THEN {update.credential} ELSE {}

NextUpdates ==
    \/ /\ Running /\ UNCHANGED <<update, updates>>
       /\ LifecycleBusy => gate' \notin {"submitting", "leaving"}
    \/ CrashWith(UpdateInFlight) /\ update' = NoUpdate /\ UNCHANGED updates
    \/ AskServer \/ UpdateAccount \/ AccountUpdated \/ UpdateFails

SpecUpdates == InitUpdates /\ [][NextUpdates]_updateVars
=============================================================================
