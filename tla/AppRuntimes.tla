----------------------------- MODULE AppRuntimes ----------------------------
(***************************************************************************)
(* Which collection the app shows: _ComicollectAppState and the factory    *)
(* that opens a database for an account or a guest.                        *)
(*                                                                         *)
(* The state of the session changes and at once calls _reconcileRuntime,   *)
(* which may replace the runtime: close the old one, which takes as long   *)
(* as its work (AppController), then create the new one.  Each call of     *)
(* _replaceRuntime has a generation and several may be under way; a call   *)
(* that is no longer the latest must not show what it created.             *)
(***************************************************************************)
EXTENDS Naturals, FiniteSets

CONSTANTS Accounts, Guest, Nobody,
          MaxReplacements   \* bound: calls of _replaceRuntime

ASSUME RuntimesAssumption ==
    /\ Guest \notin Accounts /\ Nobody \notin Accounts \cup {Guest}
    /\ Accounts \cap {"restoring", "out", "submitting"} = {}
    /\ MaxReplacements \in Nat

VARIABLES auth,        \* AuthSessionController.state
          guest,       \* _guest
          generation,  \* _generation
          opening,     \* _openingAccountId
          runtime,     \* _runtime: the call that created it, 0 for null
          failed,      \* _runtimeError is set
          call,        \* the calls of _replaceRuntime, by generation
          handle,      \* the native database of each call's runtime, 0 for none
          open         \* the native databases that are open

appVars == <<auth, guest, generation, opening, runtime, failed>>
dbVars == <<handle, open>>
runtimesVars == <<appVars, call, dbVars>>

Calls == 1..MaxReplacements
Who == Accounts \cup {Guest}

NoCall == [pc |-> "done", previous |-> 0, who |-> Nobody]
Running == {g \in Calls : call[g].pc # "done"}

(* Who the shown runtime belongs to.                                       *)
Owner == IF runtime = 0 THEN Nobody ELSE call[runtime].who

InitRuntimes ==
    /\ auth = "restoring" /\ guest = FALSE
    /\ generation = 0 /\ opening = Nobody /\ runtime = 0 /\ failed = FALSE
    /\ call = [g \in Calls |-> NoCall]
    /\ handle = [g \in Calls |-> 0] /\ open = {}

-----------------------------------------------------------------------------
(* _replaceRuntime up to the first await that takes any time.              *)
Replace(who) ==
    /\ generation < MaxReplacements
    /\ generation' = generation + 1
    /\ call' = [call EXCEPT ![generation + 1] =
                  [pc |-> IF runtime # 0 THEN "close"
                          ELSE IF who # Nobody THEN "create" ELSE "done",
                   previous |-> runtime, who |-> who]]
    /\ runtime' = 0 /\ failed' = FALSE

KeepRuntime == UNCHANGED <<generation, call, runtime, failed>>

(* Mutation of Left: leaving an account does not forget that it opens.     *)
StillOpening == opening

(* What opening becomes when the account is left.                          *)
Left == Nobody

(* _reconcileRuntime, when the session's state is now state.               *)
Reconcile(state) ==
    IF guest THEN KeepRuntime /\ UNCHANGED opening
    ELSE IF state \in Accounts
    THEN IF state \in {Owner, opening}
         THEN KeepRuntime /\ UNCHANGED opening
         ELSE opening' = state /\ Replace(state)
    ELSE IF Owner \in Accounts \/ opening # Nobody
         THEN opening' = Left /\ Replace(Nobody)
         ELSE KeepRuntime /\ UNCHANGED opening

(* The session tells its listeners.                                        *)
Becomes(state) == auth' = state /\ Reconcile(state) /\ UNCHANGED <<guest, dbVars>>

LoginGate == ~failed /\ runtime = 0 /\ ~guest /\ auth = "out"

Restored == auth = "restoring" /\ \E state \in Accounts \cup {"out"} : Becomes(state)

Submit == LoginGate /\ Becomes("submitting")

Submitted == auth = "submitting" /\ \E state \in Accounts \cup {"out"} : Becomes(state)

(* Logout, from a collection or from the error, or an expired session.     *)
SignOut == auth \in Accounts /\ Becomes("out")

(* Busy with a logout or with account data, or their failure.              *)
Notify == auth \in Accounts /\ Becomes(auth)

ContinueAsGuest ==
    /\ LoginGate
    /\ guest' = TRUE /\ opening' = Nobody
    /\ Replace(Guest)
    /\ UNCHANGED <<auth, dbVars>>

(* _logout of a guest, from the collection or from the error.              *)
LeaveGuest ==
    /\ guest /\ (runtime # 0 \/ failed)
    /\ guest' = FALSE
    /\ Replace(Nobody)
    /\ UNCHANGED <<auth, opening, dbVars>>

(* The buttons of the error: to try again, or for an account to log out,   *)
(* which it may have done before it presses the button.                    *)
Retry ==
    /\ failed
    /\ IF guest THEN Replace(Guest) /\ UNCHANGED opening ELSE Reconcile(auth)
    /\ UNCHANGED <<auth, guest, dbVars>>

ExitAgain ==
    (failed \/ runtime # 0) /\ ~guest /\ auth = "out" /\ Becomes("out")

-----------------------------------------------------------------------------
(* The course of a call.  Closing ends when the runtime's work has         *)
(* drained, and closes the native database in any case.                    *)

(* Mutation of Current: whoever comes shows what it has created.           *)
AnyCall(g) == TRUE

Current(g) == g = generation

(* The reconciliation that made the call forgets the account it opens.     *)
Returns(g) ==
    /\ call' = [call EXCEPT ![g].pc = "done"]
    /\ opening' = IF opening = call[g].who THEN Nobody ELSE opening

(* Mutation of CloseDatabase: the runtime is only forgotten.               *)
LeaveDatabase(g) == UNCHANGED dbVars

(* LocalDatabase.close.  SQLite's own close is assumed not to fail.        *)
CloseDatabase(g) ==
    /\ open' = open \ {handle[g]}
    /\ handle' = [handle EXCEPT ![g] = 0]

PreviousClosed(g) ==
    /\ call[g].pc = "close"
    /\ CloseDatabase(call[g].previous)
    /\ IF call[g].who # Nobody /\ Current(g)
       THEN call' = [call EXCEPT ![g].pc = "create"] /\ UNCHANGED opening
       ELSE Returns(g)
    /\ UNCHANGED <<auth, guest, generation, runtime, failed>>

(* An operation that failed while it drained makes the close an error.     *)
CloseFails(g) ==
    /\ call[g].pc = "close"
    /\ CloseDatabase(call[g].previous)
    /\ failed' = (failed \/ (Current(g) /\ call[g].who # Nobody))
    /\ Returns(g)
    /\ UNCHANGED <<auth, guest, generation, runtime>>

(* openDatabase of the package gives everyone who opens the same path the  *)
(* same open database.                                                     *)
OpenDatabase(g) ==
    LET same == {h \in open : call[h].who = call[g].who}
    IN /\ handle' = [handle EXCEPT ![g] = IF same = {} THEN g ELSE CHOOSE h \in same : TRUE]
       /\ open' = open \cup {handle'[g]}

(* The factory finds the path and opens the database there.  Errors of the *)
(* controller's initialization are shown by the runtime.                   *)
Create(g) ==
    /\ call[g].pc = "create"
    /\ OpenDatabase(g)
    /\ call' = [call EXCEPT ![g].pc = "initialize"]
    /\ UNCHANGED appVars

CreateFails(g) ==
    /\ call[g].pc = "create"
    /\ failed' = (failed \/ Current(g))
    /\ Returns(g)
    /\ UNCHANGED <<auth, guest, generation, runtime, dbVars>>

Created(g) ==
    /\ call[g].pc = "initialize"
    /\ IF Current(g)
       THEN runtime' = g /\ Returns(g)
       ELSE /\ call' = [call EXCEPT ![g].pc = "discard"]
            /\ UNCHANGED <<runtime, opening>>
    /\ UNCHANGED <<auth, guest, generation, failed, dbVars>>

Discarded(g) ==
    /\ call[g].pc = "discard"
    /\ CloseDatabase(g)
    /\ Returns(g)
    /\ UNCHANGED <<auth, guest, generation, runtime, failed>>

CallStep(g) ==
    \/ PreviousClosed(g) \/ CloseFails(g)
    \/ Create(g) \/ CreateFails(g) \/ Created(g) \/ Discarded(g)

NextRuntimes ==
    \/ Restored \/ Submit \/ Submitted \/ SignOut \/ Notify
    \/ ContinueAsGuest \/ LeaveGuest \/ Retry \/ ExitAgain
    \/ \E g \in Calls : CallStep(g)

(* Awaits end (CloseReturns of AppController; the rest is local).          *)
RuntimesFairness == \A g \in Calls : WF_runtimesVars(CallStep(g))

RuntimesSpec == InitRuntimes /\ [][NextRuntimes]_runtimesVars
FairRuntimesSpec == RuntimesSpec /\ RuntimesFairness

-----------------------------------------------------------------------------
CallRecords == [pc : {"close", "create", "initialize", "discard", "done"},
                previous : 0..MaxReplacements, who : Who \cup {Nobody}]

RuntimesTypeOK ==
    /\ auth \in {"restoring", "out", "submitting"} \cup Accounts
    /\ guest \in BOOLEAN /\ failed \in BOOLEAN
    /\ generation \in 0..MaxReplacements /\ runtime \in 0..MaxReplacements
    /\ opening \in Accounts \cup {Nobody}
    /\ call \in [Calls -> CallRecords]
    /\ handle \in [Calls -> 0..MaxReplacements] /\ open \subseteq Calls
    /\ failed => runtime = 0

(* Nobody is shown the collection of somebody else: neither an account nor *)
(* a guest, whatever the order of logouts, logins and slow openings.       *)
OthersAreNotShown ==
    runtime # 0 =>
        /\ guest => Owner = Guest
        /\ auth \in Accounts /\ ~guest => Owner = auth

(* When no replacement is under way, no database is open but that of the   *)
(* shown collection: a runtime created for somebody who has left is closed.*)
NothingLeftOpen ==
    Running = {} => open \subseteq {handle[g] : g \in Calls \cap {runtime}}

(* Whoever stays signed in gets to see the collection, or an error with a  *)
(* way to try again.                                                       *)
SignedInSeesCollection ==
    \A a \in Accounts : <>[](auth = a) => <>[](Owner = a \/ failed)

(* The database of the shown collection is open: nobody else closes it.    *)
ShownIsOpen == runtime # 0 => handle[runtime] \in open

(* Whoever is signed out, and no guest, is shown no collection.            *)
SignedOutSeesNone == auth = "out" /\ ~guest => runtime = 0

(* Nobody signed out is left with the error of a collection that could not *)
(* be opened: there is a way back to the login.                            *)
SignedOutSeesLogin == auth = "out" /\ ~guest => ~failed
=============================================================================
