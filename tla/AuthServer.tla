----------------------------- MODULE AuthServer -----------------------------
(***************************************************************************)
(* The account and session server, for one account: the password hash, the *)
(* sessions and the rotating pairs of an access and a refresh token.  A    *)
(* pair is known by its number, in the order of issue; "late" means that   *)
(* the clock has passed an expiry.  A session is rated by its latest pair, *)
(* because exactly the issue of a pair touches last_seen_at.               *)
(***************************************************************************)
EXTENDS Integers, FiniteSets

CONSTANTS Installations,
          RequestIds,    \* the request ids of refreshes
          MaxActive,     \* MAX_ACTIVE_SESSIONS_PER_ACCOUNT
          MaxAccess,     \* MAX_ACCESS_TOKENS_PER_SESSION
          MaxPairs,      \* bound: pairs issued
          MaxSessions,   \* bound: sessions opened
          MaxPassword    \* bound: password resets

ASSUME ServerAssumption ==
    /\ MaxActive \in Nat \ {0} /\ MaxAccess \in Nat \ {0}
    /\ MaxPairs \in Nat /\ MaxSessions \in Nat /\ MaxPassword \in Nat

Pairs == 1..MaxPairs
Sessions == 1..MaxSessions
Passwords == 0..MaxPassword

VARIABLES hash,     \* the account's password hash
          status,   \* the account's status
          logins,   \* the hash each login in progress has verified
          db,       \* auth_sessions, auth_refresh_tokens, auth_access_tokens
          issued,   \* pairs issued so far
          opened    \* sessions opened so far

serverVars == <<hash, status, logins, db, issued, opened>>

(* A hash proves a password; dated is needs_rehash.                        *)
Hashes == [password: Passwords, dated: BOOLEAN]
NoProof == [password |-> -1, dated |-> FALSE]

NoSession == [state |-> "none"]
SessionRows == [state: {"live", "revoked", "replayed"}, installation: Installations,
                password: Passwords, last: Pairs, late: BOOLEAN]

(* by: the request that consumed a refresh token, next: what replaced it.  *)
NoToken == [state |-> "none", session |-> 0]
CurrentTokens == [state: {"current"}, session: Sessions, late: BOOLEAN]
UsedTokens == [state: {"used"}, session: Sessions, late: BOOLEAN,
               by: RequestIds, next: Pairs]
AccessTokens == [state: {"current"}, session: Sessions, late: BOOLEAN]

Live(d, s) == d.sessions[s].state = "live"
LiveSessions(d) == {s \in Sessions : Live(d, s)}
Ended(d) == {s \in Sessions : d.sessions[s].state \in {"revoked", "replayed"}}
IsCurrent(d, n) == d.refresh[n].state = "current"
IsFresh(d, n) == IsCurrent(d, n) /\ ~d.refresh[n].late
Newest(S) == {n \in S : \A m \in S : m <= n}

-----------------------------------------------------------------------------
(* What the transactions are made of (auth_schema.py).                     *)

Revoke(d, S, how) ==
    [d EXCEPT !.sessions = [s \in Sessions |->
        IF s \in S /\ Live(d, s) THEN [d.sessions[s] EXCEPT !.state = how]
        ELSE d.sessions[s]]]

DropTokens(d, S) ==
    [d EXCEPT !.refresh = [n \in Pairs |->
                  IF d.refresh[n].session \in S THEN NoToken ELSE d.refresh[n]],
              !.access = [n \in Pairs |->
                  IF d.access[n].session \in S THEN NoToken ELSE d.access[n]]]

(* prune_stale_sessions: gone are the sessions that ended a grace period   *)
(* ago, or of which too many are retained (trim_revoked_sessions).         *)
ExpireSessions(d) == Revoke(d, {s \in LiveSessions(d) : d.sessions[s].late}, "revoked")

PruneStale(d, gone) ==
    LET e == DropTokens(ExpireSessions(d), gone)
    IN [e EXCEPT !.sessions = [s \in Sessions |->
                                  IF s \in gone THEN NoSession ELSE e.sessions[s]]]

(* Mutation of Retryable: an expired replacement keeps its parent.         *)
RetryableForever(d, n) == d.refresh[n].state = "used"

(* A consumed token whose replacement can be used, so that its retry has   *)
(* an answer.                                                              *)
Retryable(d, n) == d.refresh[n].state = "used" /\ IsFresh(d, d.refresh[n].next)

PruneExpired(d) ==
    [d EXCEPT !.refresh = [n \in Pairs |->
                  IF IsFresh(d, n) \/ Retryable(d, n) THEN d.refresh[n] ELSE NoToken],
              !.access = [n \in Pairs |->
                  IF /\ d.access[n].state = "current" /\ d.access[n].late
                     /\ ~\E p \in Pairs : Retryable(d, p) /\ d.refresh[p].next = n
                  THEN NoToken ELSE d.access[n]]]

(* The current refresh token of a session, and the one it replaced.        *)
CurrentOf(d, s) == Newest({n \in Pairs : IsFresh(d, n) /\ d.refresh[n].session = s})
ParentsOf(d, s) ==
    {p \in Pairs : /\ d.refresh[p].state = "used" /\ d.refresh[p].session = s
                   /\ d.refresh[p].next \in CurrentOf(d, s)}

KeptAccess(d, s) ==
    LET protected == {d.refresh[p].next : p \in ParentsOf(d, s)}
        eligible == {n \in Pairs : /\ d.access[n].session = s
                                   /\ ~d.access[n].late \/ n \in protected}
    IN protected
       \cup {n \in eligible : Cardinality({m \in eligible : m > n}) < MaxAccess}

PruneFamily(d, s) ==
    [d EXCEPT !.refresh = [n \in Pairs |->
                  IF /\ d.refresh[n].session = s
                     /\ n \notin CurrentOf(d, s) \cup ParentsOf(d, s)
                  THEN NoToken ELSE d.refresh[n]],
              !.access = [n \in Pairs |->
                  IF d.access[n].session = s /\ n \notin KeptAccess(d, s)
                  THEN NoToken ELSE d.access[n]]]

Insert(d, s, n) ==
    LET token == [state |-> "current", session |-> s, late |-> FALSE]
    IN [d EXCEPT !.refresh[n] = token, !.access[n] = token]

(* prepare_new_session: one session per installation, MaxActive in all.    *)
OfInstallation(d, i) == {s \in LiveSessions(d) : d.sessions[s].installation = i}
SeenLater(d, s) == {r \in LiveSessions(d) : d.sessions[r].last > d.sessions[s].last}
Overflow(d) == {s \in LiveSessions(d) : Cardinality(SeenLater(d, s)) >= MaxActive - 1}

(* Mutation of MakeRoom: only the installation's old session is replaced.  *)
MakeRoomOnce(d, i) ==
    DropTokens(Revoke(d, OfInstallation(d, i), "revoked"), OfInstallation(d, i))

MakeRoom(d, i) ==
    LET replaced == OfInstallation(d, i)
        e == DropTokens(Revoke(d, replaced, "revoked"), replaced)
    IN DropTokens(Revoke(e, Overflow(e), "revoked"), Overflow(e))

-----------------------------------------------------------------------------
(* Login: the hash is read and verified, replaced when it is dated, and    *)
(* compared again when the session is inserted, in three transactions.     *)

VerifyPassword(i) ==
    /\ logins[i] = NoProof /\ status = "active"
    /\ logins' = [logins EXCEPT ![i] = hash]
    /\ UNCHANGED <<hash, status, db, issued, opened>>

RefuseLogin(i) ==
    /\ logins[i] # NoProof
    /\ hash # logins[i] \/ status # "active"
    /\ logins' = [logins EXCEPT ![i] = NoProof]
    /\ UNCHANGED <<hash, status, db, issued, opened>>

Rehash(i) ==
    /\ logins[i] # NoProof /\ logins[i].dated
    /\ hash = logins[i] /\ status = "active"
    /\ hash' = [hash EXCEPT !.dated = FALSE]
    /\ logins' = [logins EXCEPT ![i] = hash']
    /\ UNCHANGED <<status, db, issued, opened>>

(* Mutation of StillProved: the hash is not compared again.                *)
ProvedBefore(i) == status = "active"

(* The password the account has when the session is inserted.              *)
StillProved(i) == hash = logins[i] /\ status = "active"

OpenSession(i, gone) ==
    LET s == opened + 1
        n == issued + 1
        d == MakeRoom(PruneExpired(PruneStale(db, gone)), i)
        row == [state |-> "live", installation |-> i, last |-> n, late |-> FALSE,
                password |-> logins[i].password]
    IN /\ logins[i] # NoProof /\ ~logins[i].dated /\ StillProved(i)
       /\ s \in Sessions /\ n \in Pairs
       /\ gone \subseteq Ended(ExpireSessions(db))
       /\ db' = Insert([d EXCEPT !.sessions[s] = row], s, n)
       /\ opened' = s /\ issued' = n
       /\ logins' = [logins EXCEPT ![i] = NoProof]
       /\ UNCHANGED <<hash, status>>

-----------------------------------------------------------------------------
(* rotate_refresh: what it answers to token n, and what it writes.         *)

(* The answer to a token consumed before.  A replacement that is missing   *)
(* is a RuntimeError.                                                      *)
RetryVerdict(d, n, req) ==
    LET t == d.refresh[n]
        s == d.sessions[t.session]
    IN IF t.by # req THEN "replayed"
       ELSE IF s.state # "live" \/ status # "active" \/ s.late THEN "expired"
       ELSE IF d.refresh[t.next].state = "none" \/ d.access[t.next].state = "none"
            THEN "error"
       ELSE IF d.refresh[t.next].state = "used" THEN "replayed"
       ELSE IF d.refresh[t.next].late THEN "expired"
       ELSE "duplicate"

Verdict(d, n, i, req) ==
    LET t == d.refresh[n]
        s == d.sessions[t.session]
    IN IF t.state = "none" THEN "invalid"
       ELSE IF s.installation # i THEN "mismatch"
       ELSE IF t.state = "used" THEN RetryVerdict(d, n, req)
       ELSE IF s.state # "live" \/ t.late \/ s.late THEN "lapsed"
       ELSE IF status # "active" THEN "unavailable"
       ELSE "rotated"

Consume(d, n, req, next) ==
    LET t == d.refresh[n]
    IN Insert([d EXCEPT !.refresh[n] = [state |-> "used", session |-> t.session,
                                        late |-> t.late, by |-> req, next |-> next],
                        !.sessions[t.session].last = next],
              t.session, next)

Written(d, n, req, verdict) ==
    LET s == d.refresh[n].session
    IN CASE verdict = "invalid"  -> PruneExpired(d)
         [] verdict = "replayed" -> Revoke(d, {s}, "replayed")
         [] verdict = "lapsed"   -> PruneExpired(PruneFamily(d, s))
         [] verdict = "rotated"  ->
                PruneExpired(PruneFamily(Consume(d, n, req, issued + 1), s))
         [] OTHER -> d

(* Every answer commits the pruning of stale sessions; an error rolls back.*)
Rotate(n, i, req, gone) ==
    LET d == PruneStale(db, gone)
        verdict == Verdict(d, n, i, req)
    IN /\ gone \subseteq Ended(ExpireSessions(db))
       /\ verdict = "rotated" => issued + 1 \in Pairs
       /\ db' = IF verdict = "error" THEN db ELSE Written(d, n, req, verdict)
       /\ issued' = IF verdict = "rotated" THEN issued + 1 ELSE issued
       /\ UNCHANGED <<hash, status, logins, opened>>

(* The pair an answer carries, 0 when it is a refusal.                     *)
Answered(d, n, verdict) ==
    CASE verdict = "rotated"   -> issued + 1
      [] verdict = "duplicate" -> d.refresh[n].next
      [] OTHER -> 0

-----------------------------------------------------------------------------
(* revoke_session_by_access, confirm_password_reset, set_account_status.   *)

LogoutAt(n) ==
    /\ db' = Revoke(db, {db.access[n].session}, "revoked")
    /\ UNCHANGED <<hash, status, logins, issued, opened>>

ResetPassword ==
    /\ hash.password < MaxPassword
    /\ hash' = [password |-> hash.password + 1, dated |-> FALSE]
    /\ db' = DropTokens(Revoke(db, Sessions, "revoked"), Sessions)
    /\ UNCHANGED <<status, logins, issued, opened>>

SetStatus(to) ==
    /\ status' = to
    /\ db' = IF to = "active" THEN db ELSE Revoke(db, Sessions, "revoked")
    /\ UNCHANGED <<hash, logins, issued, opened>>

(* Time passes: an access token expires first, then the refresh token of   *)
(* its pair, then the session with all its tokens.                         *)
Outdated(rows, S) == [k \in DOMAIN rows |->
    IF k \in S /\ rows[k].state # "none" THEN [rows[k] EXCEPT !.late = TRUE] ELSE rows[k]]

Late(S, R, A) ==
    db' = [sessions |-> Outdated(db.sessions, S),
           refresh |-> Outdated(db.refresh, R),
           access |-> Outdated(db.access, A)]

Lapse ==
    /\ \/ \E n \in Pairs : Late({}, {}, {n}) \/ Late({}, {n}, {n})
       \/ \E s \in Sessions : Late({s}, {n \in Pairs : db.refresh[n].session = s},
                                      {n \in Pairs : db.access[n].session = s})
    /\ UNCHANGED <<hash, status, logins, issued, opened>>

EmptyDatabase == [sessions |-> [s \in Sessions |-> NoSession],
                  refresh |-> [n \in Pairs |-> NoToken],
                  access |-> [n \in Pairs |-> NoToken]]

InitServer ==
    /\ hash = [password |-> 0, dated |-> TRUE]
    /\ status = "active" /\ logins = [i \in Installations |-> NoProof]
    /\ db = EmptyDatabase /\ issued = 0 /\ opened = 0

NextServer ==
    \/ \E i \in Installations :
          \/ VerifyPassword(i) \/ Rehash(i) \/ RefuseLogin(i)
          \/ \E gone \in SUBSET Sessions : OpenSession(i, gone)
          \/ \E n \in Pairs, req \in RequestIds, gone \in SUBSET Sessions :
                Rotate(n, i, req, gone)
    \/ \E n \in Pairs : LogoutAt(n)
    \/ ResetPassword
    \/ \E to \in {"active", "suspended", "deleting"} : SetStatus(to)
    \/ Lapse

ServerSpec == InitServer /\ [][NextServer]_serverVars

-----------------------------------------------------------------------------
ServerTypeOK ==
    /\ hash \in Hashes /\ status \in {"active", "suspended", "deleting"}
    /\ logins \in [Installations -> Hashes \cup {NoProof}]
    /\ db \in [sessions: [Sessions -> SessionRows \cup {NoSession}],
               refresh: [Pairs -> CurrentTokens \cup UsedTokens \cup {NoToken}],
               access: [Pairs -> AccessTokens \cup {NoToken}]]
    /\ issued \in 0..MaxPairs /\ opened \in 0..MaxSessions

(* A retry can be answered: a refresh token that was consumed and is still *)
(* known has its replacement in the table, current and of the same session,*)
(* and the access token that goes with it.  So rotate_refresh never runs   *)
(* into its "refresh replacement is missing".                              *)
RetriesAnswered ==
    \A n \in Pairs : db.refresh[n].state = "used" =>
        LET next == db.refresh[n].next
        IN /\ IsCurrent(db, next)
           /\ db.refresh[next].session = db.refresh[n].session
           /\ db.access[next].state # "none"
           /\ db.access[next].session = db.refresh[n].session

(* And rotation never forks: a session has one current refresh token.      *)
OneCurrent ==
    \A m, n \in Pairs :
        IsCurrent(db, m) /\ IsCurrent(db, n)
        /\ db.refresh[m].session = db.refresh[n].session => m = n

RotationIsAChain == RetriesAnswered /\ OneCurrent

(* "Never mint a session from stale proof": whatever a password reset or a *)
(* suspension overtook, a live session was opened with the password the    *)
(* account has now, and the account is active.  (SetStatus is a step of    *)
(* ServerSpec only: a client's run has resets and no suspension.)          *)
LiveSessionsAreProved ==
    \A s \in LiveSessions(db) :
        db.sessions[s].password = hash.password /\ status = "active"

(* An installation has one live session, the account MaxActive at most.    *)
SessionLimits ==
    /\ \A r, s \in LiveSessions(db) :
          db.sessions[r].installation = db.sessions[s].installation => r = s
    /\ Cardinality(LiveSessions(db)) <= MaxActive

=============================================================================
