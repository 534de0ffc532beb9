--------------------------- MODULE ClientSessions ---------------------------
(***************************************************************************)
(* The app's AuthRepository and AuthSessionController (one installation,   *)
(* Me) against the account server, which other installations use, too.     *)
(* An action runs from one await to the next; a write of the secure store  *)
(* and the assignments that follow it are one step.  A refresh the client  *)
(* gave up may still reach the server, at any time and any number of       *)
(* times.  The clock of client and server is the same.                     *)
(*                                                                         *)
(* Left out: registering, which for the client is a login; reading the     *)
(* store outside of restore(), which happens only with nothing in memory,  *)
(* and then no one who is signed in asks (SignedInHasCredentials).         *)
(***************************************************************************)
EXTENDS AuthServer

CONSTANTS Me,           \* the installation this client is
          MaxRequests,  \* bound: request ids the client generates
          MaxFaults,    \* bound: failures of the secure store and restarts
          MaxLapses,    \* bound: expiries
          MaxStray      \* bound: refreshes given up that may still arrive

ASSUME ClientAssumption ==
    /\ Me \in Installations /\ 1..MaxRequests \subseteq RequestIds
    /\ {MaxRequests, MaxFaults, MaxLapses, MaxStray} \subseteq Nat

VARIABLES store,     \* the secure store, all that survives a restart
          mem,       \* _stored
          access,    \* _accessToken: the pair it is of, 0 when there is none
          task,      \* the refresh or the login in progress
          gate,      \* the controller's state
          out,       \* how far logout() is
          left,      \* the last login was followed by a completed logout
          stray,     \* refreshes that were given up
          requests, faults, lapses

counters == <<requests, faults, lapses>>
clientVars == <<store, mem, access, task, gate, out, left, stray, counters>>
vars == <<serverVars, clientVars>>

(* A stored session: the pair whose refresh token it holds, and the id of  *)
(* the refresh that may have consumed it (0 when there is none).           *)
Credential(token, req) == [token |-> token, req |-> req]
Nothing == Credential(0, 0)

Idle == [pc |-> "idle"]
Marking(token, req) == [pc |-> "mark", token |-> token, req |-> req]
Waiting(token, req) == [pc |-> "wait", token |-> token, req |-> req]
Accepting(pair) == [pc |-> "accept", pair |-> pair]
Clearing == [pc |-> "clear"]
AtLogin == [pc |-> "login"]
Busy == task # Idle

Passed(row) == row.state # "none" /\ row.late
IsLate(c) == Passed(db.refresh[c.token])
Outlived(pair) == Passed(db.access[pair]) \/ Passed(db.refresh[pair])

InitClient ==
    /\ store = Nothing /\ mem = Nothing /\ access = 0
    /\ task = Idle /\ gate = "restoring" /\ out = "no"
    /\ left = FALSE /\ stray = {}
    /\ requests = 0 /\ faults = 0 /\ lapses = 0

Init == InitServer /\ InitClient

Faulty == faults < MaxFaults /\ faults' = faults + 1

(* What follows the end of a refresh or a login: restoring, submitting and *)
(* the expired event each set the controller's state; logout goes on.      *)
GateAfter(outcome) ==
    CASE gate = "restoring"  -> IF outcome = "cleared" THEN "signedOut" ELSE "signedIn"
      [] gate = "submitting" -> IF outcome = "ok" THEN "signedIn" ELSE "signedOut"
      [] gate = "signedIn"   -> IF outcome = "cleared" THEN "signedOut" ELSE "signedIn"
      [] OTHER -> gate

(* Mutation of Finish: logout() is not resumed by its own refresh.         *)
FinishAlone(outcome) ==
    /\ task' = Idle
    /\ gate' = GateAfter(outcome)
    /\ out' = out

Finish(outcome) ==
    /\ task' = Idle
    /\ gate' = GateAfter(outcome)
    /\ out' = IF out = "own" THEN "clear" ELSE out

-----------------------------------------------------------------------------
(* Mutation of BeginRefresh: a retry takes a request id of its own.        *)
BeginRefreshAnew(c) ==
    \/ IsLate(c) /\ task' = Clearing /\ UNCHANGED requests
    \/ /\ ~IsLate(c) /\ requests < MaxRequests
       /\ requests' = requests + 1 /\ task' = Marking(c.token, requests + 1)

(* _refresh(): an expired credential is cleared; a fresh request id is     *)
(* written before it is used.                                              *)
BeginRefresh(c) ==
    \/ IsLate(c) /\ task' = Clearing /\ UNCHANGED requests
    \/ /\ ~IsLate(c) /\ c.req = 0 /\ requests < MaxRequests
       /\ requests' = requests + 1 /\ task' = Marking(c.token, requests + 1)
    \/ ~IsLate(c) /\ c.req # 0 /\ task' = Waiting(c.token, c.req) /\ UNCHANGED requests

(* accessToken(), by the sync or an account request: the account must not  *)
(* be logging out, and a refresh in progress is shared.  Who asks does so  *)
(* from the collection or the account of somebody who is signed in.        *)
AskToken ==
    /\ gate = "signedIn" /\ ~Busy /\ mem # Nothing
    /\ BeginRefresh(mem)
    /\ UNCHANGED <<serverVars, store, mem, access, gate, out, left, stray,
                   faults, lapses>>

Mark ==
    /\ task.pc = "mark"
    /\ LET c == Credential(task.token, task.req)
       IN \/ /\ store' = c /\ mem' = c /\ task' = Waiting(task.token, task.req)
             /\ UNCHANGED <<gate, out, faults>>
          \/ Faulty /\ store' \in {store, c} /\ UNCHANGED mem /\ Finish("failed")
    /\ UNCHANGED <<serverVars, access, left, stray, requests, lapses>>

(* The answer to the refresh, or its loss; a server error is not taken for *)
(* the end of the session.                                                 *)
Exchange ==
    /\ task.pc = "wait"
    /\ \E gone \in SUBSET Sessions :
          LET d == PruneStale(db, gone)
              verdict == Verdict(d, task.token, Me, task.req)
              pair == Answered(d, task.token, verdict)
          IN /\ Rotate(task.token, Me, task.req, gone)
             /\ \/ Finish("failed")
                \/ verdict # "error" /\ UNCHANGED <<gate, out>>
                   /\ task' = IF pair # 0 THEN Accepting(pair) ELSE Clearing
    /\ UNCHANGED <<store, mem, access, left, stray, counters>>

Abandon ==
    stray' = IF Cardinality(stray) < MaxStray
             THEN stray \cup {Credential(task.token, task.req)} ELSE stray

GiveUp ==
    /\ task.pc = "wait" /\ Abandon
    /\ Finish("failed")
    /\ UNCHANGED <<serverVars, store, mem, access, left, counters>>

Straggle ==
    /\ \E r \in stray : \E gone \in SUBSET Sessions : Rotate(r.token, Me, r.req, gone)
    /\ UNCHANGED clientVars

(* _accept(): the session replaces the one before, without a request id;   *)
(* one with an expired token is rejected.                                  *)
Accept ==
    /\ task.pc = "accept"
    /\ LET c == Credential(task.pair, 0)
       IN \/ /\ ~Outlived(task.pair)
             /\ store' = c /\ mem' = c /\ access' = task.pair
             /\ Finish("ok") /\ UNCHANGED faults
          \/ /\ ~Outlived(task.pair)
             /\ Faulty /\ store' \in {store, c} /\ UNCHANGED <<mem, access>>
             /\ Finish("failed")
          \/ Outlived(task.pair) /\ UNCHANGED <<store, mem, access, faults>> /\ Finish("failed")
    /\ UNCHANGED <<serverVars, left, stray, requests, lapses>>

(* _clear(), of a refresh the server refused or the clock overtook.        *)
Clear ==
    /\ task.pc = "clear"
    /\ \/ /\ store' = Nothing /\ mem' = Nothing /\ access' = 0
          /\ Finish("cleared") /\ UNCHANGED faults
       \/ /\ Faulty /\ store' \in {store, Nothing} /\ UNCHANGED <<mem, access>>
          /\ Finish("failed")
    /\ UNCHANGED <<serverVars, left, stray, requests, lapses>>

-----------------------------------------------------------------------------
(* restore(), at the start of the app.                                     *)
Restore ==
    /\ gate = "restoring" /\ ~Busy
    /\ \/ /\ store = Nothing /\ gate' = "signedOut"
          /\ UNCHANGED <<store, mem, task, requests, faults>>
       \/ /\ store # Nothing /\ IsLate(store) /\ gate' = "signedOut" /\ store' = Nothing
          /\ UNCHANGED <<mem, task, requests, faults>>
       \/ /\ store # Nothing /\ ~IsLate(store) /\ mem' = store /\ BeginRefresh(store)
          /\ UNCHANGED <<store, gate, faults>>
       \/ /\ Faulty /\ gate' = "signedOut"
          /\ UNCHANGED <<store, mem, task, requests>>
    /\ UNCHANGED <<serverVars, access, out, left, stray, lapses>>

(* login(): the server's part is Rehash, RefuseLogin and OpenSession.      *)
Login ==
    /\ gate = "signedOut" /\ ~Busy
    /\ VerifyPassword(Me)
    /\ gate' = "submitting" /\ task' = AtLogin /\ left' = FALSE
    /\ UNCHANGED <<store, mem, access, out, stray, counters>>

OtherClientVars == <<store, mem, access, left, stray, counters>>

LoginRefused ==
    /\ RefuseLogin(Me)
    /\ IF task = AtLogin THEN Finish("failed") ELSE UNCHANGED <<task, gate, out>>
    /\ UNCHANGED OtherClientVars

LoginAnswered ==
    /\ \E gone \in SUBSET Sessions : OpenSession(Me, gone)
    /\ IF task # AtLogin THEN UNCHANGED <<task, gate, out>>
       ELSE \/ task' = Accepting(issued') /\ UNCHANGED <<gate, out>>
            \/ Finish("failed")
    /\ UNCHANGED OtherClientVars

-----------------------------------------------------------------------------
(* logout(): waits for a refresh in progress, gets an access token to      *)
(* revoke with when it has none, clears, and then tells the server.        *)
Logout ==
    /\ gate = "signedIn"
    /\ gate' = "leaving" /\ out' = "wait"
    /\ UNCHANGED <<serverVars, store, mem, access, task, left, stray, counters>>

(* Mutation of RefreshAwaited: logout() does not wait.                     *)
NothingAwaited ==
    /\ out = "wait" /\ out' = "clear"
    /\ UNCHANGED <<serverVars, store, mem, access, task, gate, left, stray, counters>>

RefreshAwaited ==
    /\ out = "wait" /\ ~Busy
    /\ IF mem # Nothing /\ access = 0 /\ (mem.req # 0 \/ requests < MaxRequests)
       THEN out' = "own" /\ BeginRefresh(mem)
       ELSE out' = "clear" /\ UNCHANGED <<task, requests>>
    /\ UNCHANGED <<serverVars, store, mem, access, gate, left, stray,
                   faults, lapses>>

LoggedOut == gate' = "signedOut" /\ left' = TRUE

(* "Local credential deletion is the authoritative logout boundary": a     *)
(* store that cannot be cleared leaves the user signed in.                 *)
ClearAtLogout ==
    /\ out = "clear"
    /\ \/ /\ store' = Nothing /\ mem' = Nothing /\ access' = 0 /\ UNCHANGED faults
          /\ IF access # 0 THEN out' = "revoke" /\ task' = [pc |-> "bye", pair |-> access]
                                /\ UNCHANGED <<gate, left>>
             ELSE out' = "no" /\ LoggedOut /\ UNCHANGED task
       \/ /\ Faulty /\ store' \in {store, Nothing} /\ out' = "no"
          /\ gate' = IF mem # Nothing THEN "signedIn" ELSE "signedOut"
          /\ UNCHANGED <<mem, access, task, left>>
    /\ UNCHANGED <<serverVars, stray, requests, lapses>>

RevokeAtLogout ==
    /\ out = "revoke"
    /\ LogoutAt(task.pair) \/ UNCHANGED serverVars
    /\ out' = "no" /\ task' = Idle /\ LoggedOut
    /\ UNCHANGED <<store, mem, access, stray, counters>>

-----------------------------------------------------------------------------
(* The app dies and starts again; a write in progress may have been done.  *)
InFlight ==
    CASE task.pc = "mark"   -> {Credential(task.token, task.req)}
      [] task.pc = "accept" -> {Credential(task.pair, 0)}
      [] task.pc = "clear" \/ out = "clear" -> {Nothing}
      [] OTHER -> {}

CrashWith(writes) ==
    /\ Faulty
    /\ store' \in {store} \cup InFlight \cup writes
    /\ IF task.pc = "wait" THEN Abandon ELSE UNCHANGED stray
    /\ mem' = Nothing /\ access' = 0 /\ task' = Idle
    /\ gate' = "restoring" /\ out' = "no"
    /\ UNCHANGED <<serverVars, left, requests, lapses>>

(* What the server does for others, and of its own.                        *)
Elsewhere ==
    /\ \/ \E i \in Installations :
             \/ Rehash(i)
             \/ i # Me /\ (VerifyPassword(i) \/ RefuseLogin(i))
             \/ i # Me /\ \E gone \in SUBSET Sessions : OpenSession(i, gone)
       \/ ResetPassword
    /\ UNCHANGED clientVars

TimePasses ==
    /\ Lapse /\ db' # db /\ lapses < MaxLapses /\ lapses' = lapses + 1
    /\ UNCHANGED <<store, mem, access, task, gate, out, left, stray, requests,
                   faults>>

ClientStep ==
    \/ Mark \/ GiveUp \/ Accept \/ Clear \/ Restore
    \/ RefreshAwaited \/ ClearAtLogout \/ RevokeAtLogout

Running ==
    \/ ClientStep \/ Exchange \/ AskToken \/ Straggle \/ Login \/ LoginRefused \/ LoginAnswered
    \/ Logout \/ Elsewhere \/ TimePasses

Next == Running \/ CrashWith({})

Spec == Init /\ [][Next]_vars

(* The event loop runs what is ready, and a request that is not answered   *)
(* times out.                                                              *)
FairSpec == Spec /\ WF_vars(ClientStep)

(* And with the sync asking again and again, and the network delivering    *)
(* answers again and again.                                                *)
Connected == Exchange /\ task' # Idle

ConnectedSpec == FairSpec /\ WF_vars(AskToken) /\ SF_vars(Connected)

-----------------------------------------------------------------------------
Credentials == [token: Pairs, req: 0..MaxRequests] \cup {Nothing}

(* Who is signed in has credentials, so that no one reads the store again. *)
SignedInHasCredentials == gate = "signedIn" => mem # Nothing

TypeOK ==
    /\ ServerTypeOK /\ SignedInHasCredentials
    /\ {store, mem} \subseteq Credentials /\ access \in 0..MaxPairs
    /\ gate \in {"restoring", "signedOut", "submitting", "signedIn", "leaving"}
    /\ out \in {"no", "wait", "own", "clear", "revoke"}
    /\ stray \subseteq Credentials

(* An honest client is never taken for a thief: whatever responses are     *)
(* lost, requests delayed or repeated, writes failed and restarts made,    *)
(* none of its sessions is revoked as a replay.                            *)
HonestSessionKept ==
    \A s \in Sessions : db.sessions[s].state # "replayed"

(* After a logout that completed, nothing puts credentials back: no        *)
(* refresh that was in progress, and no restart.                           *)
LeftForGood == left => store = Nothing /\ mem = Nothing /\ access = 0

(* A refresh whose answer was lost is retried "when connectivity           *)
(* recovers", and that settles it: with a new session, or by its end.      *)
RetryRecovers == (gate = "signedIn" /\ mem.req # 0) ~> (mem.req = 0)

(* Logging out always ends.                                                *)
LogoutReturns == gate = "leaving" ~> gate # "leaving"
=============================================================================
