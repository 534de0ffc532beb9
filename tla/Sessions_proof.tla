--------------------------- MODULE Sessions_proof ---------------------------
(***************************************************************************)
(* AuthServer for any number of installations, refreshes, sessions and     *)
(* password resets, and any limits: the tables keep their types, rotation  *)
(* is a chain in which every retry has its answer, no live session         *)
(* outlives the password it was opened with, and the limits on live        *)
(* sessions hold.                                                          *)
(*                                                                         *)
(* ClientSessions, an installation among the others of such a server, for  *)
(* any number of requests, lost answers, failures and restarts: it is      *)
(* never taken for a thief, and a logout is for good.                      *)
(***************************************************************************)
EXTENDS ClientSessions, FiniteSetTheorems, WellFoundedInduction, TLAPS

Rows == SessionRows \cup {NoSession}
Tokens == CurrentTokens \cup UsedTokens \cup {NoToken}
Accesses == AccessTokens \cup {NoToken}

Databases == [sessions: [Sessions -> Rows], refresh: [Pairs -> Tokens],
              access: [Pairs -> Accesses]]

(* A consumed token's replacement is current, of its session, and has its  *)
(* access token.                                                           *)
HasAnswer(d, n) ==
    LET next == d.refresh[n].next
    IN /\ IsCurrent(d, next)
       /\ d.refresh[next].session = d.refresh[n].session
       /\ d.access[next].state # "none"
       /\ d.access[next].session = d.refresh[n].session

Used(d, n) == d.refresh[n].state = "used"
Answers(d) == \A n \in Pairs : Used(d, n) => HasAnswer(d, n)

Unforked(d) ==
    \A m, n \in Pairs : IsCurrent(d, m) /\ IsCurrent(d, n)
                        /\ d.refresh[m].session = d.refresh[n].session => m = n

(* What was not issued or opened yet is not in the tables.                 *)
Numbered(d, k, o) ==
    /\ \A n \in Pairs : /\ n > k => d.refresh[n] = NoToken /\ d.access[n] = NoToken
                        /\ d.refresh[n].session <= o /\ d.access[n].session <= o
    /\ \A s \in Sessions : /\ s > o => d.sessions[s] = NoSession
                           /\ Live(d, s) => d.sessions[s].last <= k

Proved(d, h, st) ==
    \A s \in LiveSessions(d) : d.sessions[s].password = h.password /\ st = "active"

OnePerInstallation(d) ==
    \A r, s \in LiveSessions(d) :
        d.sessions[r].installation = d.sessions[s].installation => r = s

(* Sessions were seen last at different times.                             *)
SeenApart(d) ==
    \A r, s \in LiveSessions(d) : d.sessions[r].last = d.sessions[s].last => r = s

Within(d, limit) == Cardinality(LiveSessions(d)) <= limit

(* The inductive invariant, of a database d when the account has hash h    *)
(* and status st and k pairs and o sessions were issued.  Only Answers is  *)
(* suspended inside a rotation, so it is kept apart.                       *)
Sane(d, h, st, k, o) ==
    /\ d \in Databases /\ Unforked(d) /\ Numbered(d, k, o)
    /\ Proved(d, h, st) /\ OnePerInstallation(d) /\ SeenApart(d) /\ Within(d, MaxActive)

Sound(d, h, st, k, o) == Sane(d, h, st, k, o) /\ Answers(d)

AccountOK ==
    /\ hash \in Hashes /\ status \in {"active", "suspended", "deleting"}
    /\ logins \in [Installations -> Hashes \cup {NoProof}]
    /\ issued \in 0..MaxPairs /\ opened \in 0..MaxSessions

Inv == AccountOK /\ Sound(db, hash, status, issued, opened)

-----------------------------------------------------------------------------
(* e is d after some sessions ended and some tokens were dropped.          *)
Fewer(d, e) ==
    /\ e \in Databases
    /\ \A s \in Sessions : /\ Live(e, s) => e.sessions[s] = d.sessions[s]
                           /\ d.sessions[s] = NoSession => e.sessions[s] = NoSession
    /\ \A n \in Pairs : /\ e.refresh[n] \in {d.refresh[n], NoToken}
                        /\ e.access[n] \in {d.access[n], NoToken}

(* What the fields of a token can be.                                      *)
LEMMA TokenFields ==
    ASSUME NEW d \in Databases, NEW n \in Pairs
    PROVE  /\ d.refresh[n] \in Tokens /\ d.access[n] \in Accesses
           /\ d.refresh[n].state \in {"none", "current", "used"}
           /\ d.access[n].state \in {"none", "current"}
           /\ d.refresh[n].state = "none" <=> d.refresh[n] = NoToken
           /\ d.access[n].state = "none" <=> d.access[n] = NoToken
           /\ d.refresh[n].state # "none" => /\ d.refresh[n].session \in Sessions
                                             /\ d.refresh[n].late \in BOOLEAN
           /\ d.refresh[n].state = "none" => d.refresh[n].session = 0
           /\ d.access[n].state # "none" => d.access[n].session \in Sessions
           /\ d.access[n].state = "none" => d.access[n].session = 0
           /\ d.refresh[n].session \in Nat /\ d.access[n].session \in Nat
           /\ Used(d, n) => d.refresh[n].next \in Pairs
           /\ Used(d, n) => d.refresh[n].by \in RequestIds
<1>1. d.refresh[n] \in Tokens /\ d.access[n] \in Accesses
  BY DEF Databases
<1>2. Sessions \subseteq Nat
  BY ServerAssumption DEF Sessions
<1>3. NoToken.state = "none" /\ NoToken.session = 0
  BY DEF NoToken
<1>4. ASSUME NEW t \in Tokens
      PROVE  /\ t.state \in {"none", "current", "used"}
             /\ t.state = "none" <=> t = NoToken
             /\ t.state # "none" => t.session \in Sessions /\ t.late \in BOOLEAN
             /\ t.state = "none" => t.session = 0
             /\ t.session \in Nat
             /\ t.state = "used" => t.next \in Pairs /\ t.by \in RequestIds
  <2>1. CASE t \in CurrentTokens
    BY <2>1, <1>2, <1>3 DEF CurrentTokens
  <2>2. CASE t \in UsedTokens
    BY <2>2, <1>2, <1>3 DEF UsedTokens
  <2>3. CASE t = NoToken
    BY <2>3, <1>3
  <2> QED
    BY <2>1, <2>2, <2>3 DEF Tokens
<1>5. ASSUME NEW t \in Accesses
      PROVE  /\ t.state \in {"none", "current"}
             /\ t.state = "none" <=> t = NoToken
             /\ t.state # "none" => t.session \in Sessions
             /\ t.state = "none" => t.session = 0
             /\ t.session \in Nat
  <2>1. CASE t \in AccessTokens
    BY <2>1, <1>2, <1>3 DEF AccessTokens
  <2>2. CASE t = NoToken
    BY <2>2, <1>3
  <2> QED
    BY <2>1, <2>2 DEF Accesses
<1>6. Used(d, n) => d.refresh[n].next \in Pairs /\ d.refresh[n].by \in RequestIds
  BY <1>1, <1>4 DEF Used
<1>7. /\ d.refresh[n].state \in {"none", "current", "used"}
      /\ d.refresh[n].state = "none" <=> d.refresh[n] = NoToken
      /\ d.refresh[n].state # "none" =>
            d.refresh[n].session \in Sessions /\ d.refresh[n].late \in BOOLEAN
      /\ d.refresh[n].state = "none" => d.refresh[n].session = 0
      /\ d.refresh[n].session \in Nat
  BY <1>1, <1>4
<1>8. /\ d.access[n].state \in {"none", "current"}
      /\ d.access[n].state = "none" <=> d.access[n] = NoToken
      /\ d.access[n].state # "none" => d.access[n].session \in Sessions
      /\ d.access[n].state = "none" => d.access[n].session = 0
      /\ d.access[n].session \in Nat
  BY <1>1, <1>5
<1> QED
  BY <1>1, <1>6, <1>7, <1>8

(* What the fields of a session row can be.                                *)
LEMMA RowFields ==
    ASSUME NEW d \in Databases, NEW s \in Sessions
    PROVE  /\ d.sessions[s] \in Rows
           /\ d.sessions[s].state \in {"none", "live", "revoked", "replayed"}
           /\ d.sessions[s] # NoSession <=> d.sessions[s] \in SessionRows
           /\ Live(d, s) => d.sessions[s] \in SessionRows
BY DEF Databases, Rows, SessionRows, NoSession, Live

(* Live sessions are finitely many.                                        *)
LEMMA LiveFinite ==
    ASSUME NEW d
    PROVE  /\ IsFiniteSet(Sessions) /\ IsFiniteSet(LiveSessions(d))
           /\ Cardinality(LiveSessions(d)) \in Nat
<1>1. IsFiniteSet(Sessions)
  BY FS_Interval, ServerAssumption DEF Sessions
<1> QED
  BY <1>1, FS_Subset, FS_CardinalityType DEF LiveSessions

(* Dropping tokens and ending sessions keeps everything sane.              *)
LEMMA FewerStaysSane ==
    ASSUME NEW d, NEW e, NEW h, NEW st, NEW k \in Nat, NEW o \in Nat,
           Sane(d, h, st, k, o), Fewer(d, e)
    PROVE  Sane(e, h, st, k, o)
<1>1. d \in Databases /\ e \in Databases
  BY DEF Sane, Fewer
<1>2. \A n \in Pairs : /\ ~IsCurrent(e, n) \/ e.refresh[n] = d.refresh[n]
                       /\ IsCurrent(e, n) => IsCurrent(d, n)
  BY DEF Fewer, IsCurrent, NoToken
<1>3. Unforked(e)
  BY <1>2 DEF Sane, Unforked
<1>4. LiveSessions(e) \subseteq LiveSessions(d)
      /\ \A s \in LiveSessions(e) : e.sessions[s] = d.sessions[s]
  BY DEF LiveSessions, Fewer, Live
<1>5. Proved(e, h, st) /\ OnePerInstallation(e) /\ SeenApart(e)
  BY <1>4 DEF Sane, Proved, OnePerInstallation, SeenApart
<1>6. Within(e, MaxActive)
  <2>1. Cardinality(LiveSessions(e)) <= Cardinality(LiveSessions(d))
    BY <1>4, LiveFinite, FS_Subset
  <2> QED
    BY <2>1, LiveFinite, ServerAssumption DEF Within, Sane
<1>7. Numbered(e, k, o)
  <2>1. ASSUME NEW n \in Pairs
        PROVE  /\ n > k => e.refresh[n] = NoToken /\ e.access[n] = NoToken
               /\ e.refresh[n].session <= o /\ e.access[n].session <= o
    <3>1. NoToken.session = 0
      BY DEF NoToken
    <3>2. /\ n > k => d.refresh[n] = NoToken /\ d.access[n] = NoToken
          /\ d.refresh[n].session <= o /\ d.access[n].session <= o
      BY DEF Sane, Numbered
    <3>3. /\ e.refresh[n] \in {d.refresh[n], NoToken}
          /\ e.access[n] \in {d.access[n], NoToken}
      BY DEF Fewer
    <3> QED
      BY <3>1, <3>2, <3>3
  <2>2. \A s \in Sessions : s > o => e.sessions[s] = NoSession
    BY DEF Fewer, Sane, Numbered
  <2>3. \A s \in Sessions : Live(e, s) => e.sessions[s].last <= k
    BY <1>4 DEF Sane, Numbered, LiveSessions
  <2> QED
    BY <2>1, <2>2, <2>3 DEF Numbered
<1> QED
  BY <1>1, <1>3, <1>5, <1>6, <1>7 DEF Sane

(* Ending and dropping twice is ending and dropping.                       *)
LEMMA FewerTransitive ==
    ASSUME NEW c, NEW d, NEW e, c \in Databases, Fewer(c, d), Fewer(d, e)
    PROVE  Fewer(c, e)
<1>1. \A s \in Sessions : Live(e, s) => e.sessions[s] = c.sessions[s]
  BY DEF Fewer, Live
<1> QED
  BY <1>1 DEF Fewer

(* Ending sessions leaves the tokens alone.                                *)
LEMMA RevokeEnds ==
    ASSUME NEW d \in Databases, NEW S, NEW how \in {"revoked", "replayed"},
           NEW e, e = Revoke(d, S, how)
    PROVE  /\ Fewer(d, e) /\ e.refresh = d.refresh /\ e.access = d.access
           /\ \A s \in Sessions : Live(e, s) <=> Live(d, s) /\ s \notin S
           /\ Answers(d) => Answers(e)
<1>1. /\ e.refresh = d.refresh /\ e.access = d.access
      /\ e = [d EXCEPT !.sessions = e.sessions]
      /\ e.sessions = [s \in Sessions |-> e.sessions[s]]
      /\ \A s \in Sessions : e.sessions[s] =
            IF s \in S /\ Live(d, s) THEN [d.sessions[s] EXCEPT !.state = how]
            ELSE d.sessions[s]
  BY DEF Revoke, Databases
<1>2. ASSUME NEW s \in Sessions
      PROVE  /\ e.sessions[s] \in Rows
             /\ Live(e, s) <=> Live(d, s) /\ s \notin S
             /\ Live(e, s) => e.sessions[s] = d.sessions[s]
             /\ d.sessions[s] = NoSession => e.sessions[s] = NoSession
  <2>1. CASE s \in S /\ Live(d, s)
    <3>1. e.sessions[s] = [d.sessions[s] EXCEPT !.state = how]
      BY <1>1, <2>1
    <3>2. d.sessions[s] \in SessionRows
      BY <2>1, RowFields
    <3>3. e.sessions[s] \in SessionRows /\ e.sessions[s].state = how
      BY <3>1, <3>2 DEF SessionRows
    <3>4. d.sessions[s] # NoSession
      BY <2>1 DEF Live, NoSession
    <3> QED
      BY <2>1, <3>3, <3>4 DEF Rows, Live
  <2>2. CASE ~(s \in S /\ Live(d, s))
    <3>1. e.sessions[s] = d.sessions[s]
      BY <1>1, <2>2
    <3> QED
      BY <2>2, <3>1, RowFields DEF Live
  <2> QED
    BY <2>1, <2>2
<1>3. e.sessions \in [Sessions -> Rows]
  BY <1>1, <1>2
<1>4. e \in Databases
  BY <1>1, <1>3 DEF Databases
<1>5. Fewer(d, e)
  BY <1>1, <1>2, <1>4 DEF Fewer
<1>6. Answers(d) => Answers(e)
  BY <1>1 DEF Answers, HasAnswer, Used, IsCurrent
<1> QED
  BY <1>1, <1>2, <1>5, <1>6

(* d with the refresh tokens in K and the access tokens in A only.         *)
Thin(d, K, A) ==
    [d EXCEPT !.refresh = [n \in Pairs |-> IF n \in K THEN d.refresh[n] ELSE NoToken],
              !.access = [n \in Pairs |-> IF n \in A THEN d.access[n] ELSE NoToken]]

(* Keeping some tokens only drops the others.                              *)
LEMMA Thinned ==
    ASSUME NEW d \in Databases, NEW K, NEW A, NEW e, e = Thin(d, K, A)
    PROVE  /\ Fewer(d, e) /\ e.sessions = d.sessions
           /\ (\A p \in Pairs : p \in K /\ Used(d, p) =>
                   HasAnswer(d, p) /\ d.refresh[p].next \in K \cap A)
              => Answers(e)
<1>1. /\ e.sessions = d.sessions
      /\ e.refresh = [n \in Pairs |-> IF n \in K THEN d.refresh[n] ELSE NoToken]
      /\ e.access = [n \in Pairs |-> IF n \in A THEN d.access[n] ELSE NoToken]
      /\ e = [sessions |-> e.sessions, refresh |-> e.refresh, access |-> e.access]
  BY DEF Thin, Databases
<1>2. NoToken \in Tokens /\ NoToken \in Accesses
  BY DEF Tokens, Accesses
<1>3. e.refresh \in [Pairs -> Tokens]
  BY <1>1, <1>2, TokenFields
<1>4. e.access \in [Pairs -> Accesses]
  BY <1>1, <1>2, TokenFields
<1>5. e.sessions \in [Sessions -> Rows]
  BY <1>1 DEF Databases
<1>6. e \in Databases
  BY <1>1, <1>3, <1>4, <1>5 DEF Databases
<1>7. Fewer(d, e)
  BY <1>1, <1>6 DEF Fewer, Live
<1>8. ASSUME \A p \in Pairs : p \in K /\ Used(d, p) =>
                 HasAnswer(d, p) /\ d.refresh[p].next \in K \cap A,
             NEW p \in Pairs, Used(e, p)
      PROVE  HasAnswer(e, p)
  <2>1. p \in K /\ e.refresh[p] = d.refresh[p] /\ Used(d, p)
    BY <1>1, <1>8 DEF Used, NoToken
  <2> DEFINE next == d.refresh[p].next
  <2>2. HasAnswer(d, p) /\ next \in K /\ next \in A /\ next \in Pairs
    BY <1>8, <2>1, TokenFields
  <2>3. e.refresh[next] = d.refresh[next] /\ e.access[next] = d.access[next]
    BY <1>1, <2>2
  <2> QED
    BY <2>1, <2>2, <2>3 DEF HasAnswer, IsCurrent
<1> QED
  BY <1>1, <1>7, <1>8 DEF Answers

(* Dropping all tokens of some sessions.                                   *)
LEMMA DropKeeps ==
    ASSUME NEW d \in Databases, NEW S, NEW e, e = DropTokens(d, S)
    PROVE  /\ Fewer(d, e) /\ e.sessions = d.sessions
           /\ Answers(d) => Answers(e)
<1> DEFINE K == {n \in Pairs : d.refresh[n].session \notin S}
           A == {n \in Pairs : d.access[n].session \notin S}
<1>1. e = Thin(d, K, A)
  BY DEF DropTokens, Thin
<1>2. ASSUME Answers(d), NEW p \in Pairs, p \in K, Used(d, p)
      PROVE  HasAnswer(d, p) /\ d.refresh[p].next \in K \cap A
  BY <1>2, TokenFields DEF Answers, HasAnswer
<1> HIDE DEF K, A
<1> QED
  BY <1>1, <1>2, Thinned

(* prune_expired_tokens spares a consumed token with the answer to it.     *)
LEMMA PruneExpiredKeeps ==
    ASSUME NEW d \in Databases, Answers(d), NEW e, e = PruneExpired(d)
    PROVE  Fewer(d, e) /\ e.sessions = d.sessions /\ Answers(e)
<1> DEFINE K == {n \in Pairs : IsFresh(d, n) \/ Retryable(d, n)}
           A == {n \in Pairs : ~(/\ d.access[n].state = "current" /\ d.access[n].late
                                 /\ ~\E p \in Pairs : Retryable(d, p)
                                                      /\ d.refresh[p].next = n)}
<1>1. e = Thin(d, K, A)
  BY DEF PruneExpired, Thin
<1>2. ASSUME NEW p \in Pairs, p \in K, Used(d, p)
      PROVE  HasAnswer(d, p) /\ d.refresh[p].next \in K \cap A
  <2>1. Retryable(d, p) /\ d.refresh[p].next \in Pairs
    BY <1>2, TokenFields DEF IsFresh, IsCurrent, Used
  <2> QED
    BY <1>2, <2>1 DEF Answers, Retryable
<1> HIDE DEF K, A
<1> QED
  BY <1>1, <1>2, Thinned

(* prune_token_family spares the token that was consumed last, and what    *)
(* replaced it.                                                            *)
LEMMA PruneFamilyKeeps ==
    ASSUME NEW d \in Databases, NEW s \in Sessions, NEW e, e = PruneFamily(d, s),
           \A p \in Pairs :
               Used(d, p) /\ (d.refresh[p].session # s \/ p \in ParentsOf(d, s))
               => HasAnswer(d, p)
    PROVE  Fewer(d, e) /\ e.sessions = d.sessions /\ Answers(e)
<1> DEFINE K == {n \in Pairs : \/ d.refresh[n].session # s
                               \/ n \in CurrentOf(d, s) \cup ParentsOf(d, s)}
           A == {n \in Pairs : d.access[n].session # s \/ n \in KeptAccess(d, s)}
<1>1. e = Thin(d, K, A)
  BY DEF PruneFamily, Thin
<1>2. ASSUME NEW p \in Pairs, p \in K, Used(d, p)
      PROVE  HasAnswer(d, p) /\ d.refresh[p].next \in K \cap A
  <2>1. d.refresh[p].next \in Pairs
    BY <1>2, TokenFields
  <2>2. CASE d.refresh[p].session # s
    BY <1>2, <2>1, <2>2 DEF HasAnswer
  <2>3. CASE d.refresh[p].session = s
    <3>1. p \in CurrentOf(d, s) \cup ParentsOf(d, s)
      BY <1>2, <2>3
    <3>2. p \notin CurrentOf(d, s)
      BY <1>2 DEF CurrentOf, Newest, IsFresh, IsCurrent, Used
    <3>3. p \in ParentsOf(d, s) /\ HasAnswer(d, p)
      BY <1>2, <3>1, <3>2
    <3>4. d.refresh[p].next \in CurrentOf(d, s)
      BY <3>3 DEF ParentsOf
    <3>5. d.refresh[p].next \in KeptAccess(d, s)
      BY <3>3 DEF KeptAccess
    <3> QED
      BY <2>1, <3>3, <3>4, <3>5
  <2> QED
    BY <2>2, <2>3
<1> HIDE DEF K, A
<1> QED
  BY <1>1, <1>2, Thinned

(* Expiring and deleting sessions.                                         *)
LEMMA PruneStaleKeeps ==
    ASSUME NEW d \in Databases, NEW gone, NEW e, e = PruneStale(d, gone),
           gone \subseteq Ended(ExpireSessions(d)), Answers(d)
    PROVE  Fewer(d, e) /\ Answers(e)
<1> DEFINE x == ExpireSessions(d)
           y == DropTokens(x, gone)
<1>1. Fewer(d, x) /\ Answers(x)
  BY RevokeEnds DEF ExpireSessions
<1>2. x \in Databases
  BY <1>1 DEF Fewer
<1>3. Fewer(x, y) /\ Answers(y) /\ y.sessions = x.sessions
  BY <1>1, <1>2, DropKeeps
<1>4. Fewer(d, y) /\ y \in Databases
  BY <1>1, <1>3, FewerTransitive DEF Fewer
<1> HIDE DEF x, y
<1>5. /\ e.refresh = y.refresh /\ e.access = y.access
      /\ e.sessions = [s \in Sessions |-> IF s \in gone THEN NoSession ELSE y.sessions[s]]
      /\ e = [sessions |-> e.sessions, refresh |-> e.refresh, access |-> e.access]
  BY <1>4 DEF PruneStale, Databases, x, y
<1>6. e.sessions \in [Sessions -> Rows]
  BY <1>4, <1>5, RowFields DEF Rows
<1>7. e \in Databases
  BY <1>4, <1>5, <1>6 DEF Databases
<1>8. ASSUME NEW s \in Sessions
      PROVE  /\ Live(e, s) => e.sessions[s] = d.sessions[s]
             /\ d.sessions[s] = NoSession => e.sessions[s] = NoSession
  <2>1. e.sessions[s] = IF s \in gone THEN NoSession ELSE y.sessions[s]
    BY <1>5
  <2>2. /\ Live(y, s) => y.sessions[s] = d.sessions[s]
        /\ d.sessions[s] = NoSession => y.sessions[s] = NoSession
    BY <1>4 DEF Fewer
  <2> QED
    BY <2>1, <2>2 DEF Live, NoSession
<1>9. Fewer(d, e)
  BY <1>4, <1>5, <1>7, <1>8 DEF Fewer
<1>10. Answers(e)
  BY <1>3, <1>5 DEF Answers, HasAnswer, Used, IsCurrent
<1> QED
  BY <1>9, <1>10

-----------------------------------------------------------------------------
(* A set of natural numbers that is not empty has a least element.         *)
LEMMA LeastNumber ==
    ASSUME NEW T, T \subseteq Nat, T # {}
    PROVE  \E x \in T : \A y \in T : x <= y
<1> DEFINE R == OpToRel(<, Nat)
<1>1. IsWellFoundedOn(R, Nat)
  BY NatLessThanWellFounded
<1>2. \A x, y \in Nat : x < y => <<x, y>> \in R
  BY DEF OpToRel
<1> HIDE DEF R
<1>3. PICK x \in T : \A y \in T : ~(<<y, x>> \in R)
  BY <1>1, WFMin
<1>4. ASSUME NEW y \in T
      PROVE  x <= y
  <2>1. ~(y < x)
    BY <1>2, <1>3
  <2> QED
    BY <2>1
<1> QED
  BY <1>4

(* Of the live sessions, those with fewer than limit seen later are limit  *)
(* at most, because no two were seen last at the same time.                *)
LEMMA LatestFit ==
    ASSUME NEW d \in Databases, SeenApart(d), NEW limit \in Nat,
           NEW K, K \subseteq LiveSessions(d),
           \A s \in K : Cardinality(SeenLater(d, s)) < limit
    PROVE  Cardinality(K) <= limit
<1>1. CASE K = {}
  BY <1>1, FS_EmptySet
<1>2. CASE K # {}
  <2> DEFINE T == {d.sessions[s].last : s \in K}
  <2>1. \A s \in LiveSessions(d) : d.sessions[s].last \in Nat
    BY RowFields, ServerAssumption DEF LiveSessions, SessionRows, Pairs
  <2>2. T \subseteq Nat /\ T # {}
    BY <1>2, <2>1
  <2>3. PICK x \in T : \A y \in T : x <= y
    BY <2>2, LeastNumber
  <2>4. PICK m \in K : d.sessions[m].last = x
    BY <2>3
  <2>5. ASSUME NEW r \in K \ {m}
        PROVE  r \in SeenLater(d, m)
    <3>1. r \in LiveSessions(d) /\ m \in LiveSessions(d)
      BY <2>4, <2>5
    <3>2. d.sessions[r].last # x /\ x <= d.sessions[r].last
      BY <2>3, <2>4, <2>5, <3>1 DEF SeenApart
    <3> QED
      BY <2>1, <2>4, <3>1, <3>2 DEF SeenLater
  <2>6. K \ {m} \subseteq SeenLater(d, m)
    BY <2>5
  <2>7. /\ IsFiniteSet(SeenLater(d, m)) /\ Cardinality(SeenLater(d, m)) \in Nat
        /\ IsFiniteSet(K)
    BY LiveFinite, FS_Subset, FS_CardinalityType DEF SeenLater
  <2>8. /\ Cardinality(K \ {m}) <= Cardinality(SeenLater(d, m))
        /\ Cardinality(K \ {m}) \in Nat
    BY <2>6, <2>7, FS_Subset, FS_CardinalityType
  <2>9. Cardinality(K \ {m}) = Cardinality(K) - 1 /\ Cardinality(K) \in Nat
    BY <2>4, <2>7, FS_RemoveElement, FS_CardinalityType
  <2>10. Cardinality(SeenLater(d, m)) < limit
    BY <2>4
  <2> QED
    BY <2>7, <2>8, <2>9, <2>10
<1> QED
  BY <1>1, <1>2

(* prepare_new_session leaves room for one session of installation i.      *)
LEMMA MakeRoomKeeps ==
    ASSUME NEW d \in Databases, Answers(d), SeenApart(d),
           NEW i, NEW e, e = MakeRoom(d, i)
    PROVE  /\ Fewer(d, e) /\ Answers(e)
           /\ \A s \in LiveSessions(e) : e.sessions[s].installation # i
           /\ Within(e, MaxActive - 1)
<1> DEFINE a == Revoke(d, OfInstallation(d, i), "revoked")
           b == DropTokens(a, OfInstallation(d, i))
           c == Revoke(b, Overflow(b), "revoked")
<1>1. /\ Fewer(d, a) /\ Answers(a) /\ a \in Databases
      /\ \A s \in Sessions : Live(a, s) <=> Live(d, s) /\ s \notin OfInstallation(d, i)
  BY RevokeEnds DEF Fewer
<1>2. /\ Fewer(a, b) /\ Answers(b) /\ b \in Databases /\ b.sessions = a.sessions
  BY <1>1, DropKeeps DEF Fewer
<1>3. Fewer(d, b) /\ \A s \in Sessions : Live(b, s) <=> Live(a, s)
  BY <1>1, <1>2, FewerTransitive DEF Live
<1>4. /\ Fewer(b, c) /\ Answers(c) /\ c \in Databases
      /\ \A s \in Sessions : Live(c, s) <=> Live(b, s) /\ s \notin Overflow(b)
  BY <1>2, RevokeEnds DEF Fewer
<1>5. e = DropTokens(c, Overflow(b))
  BY DEF MakeRoom
<1> HIDE DEF a, b, c
<1>6. Fewer(c, e) /\ Answers(e) /\ e.sessions = c.sessions
  BY <1>4, <1>5, DropKeeps
<1>7. Fewer(d, c)
  BY <1>3, <1>4, FewerTransitive
<1>8. Fewer(d, e)
  BY <1>6, <1>7, FewerTransitive
<1>9. ASSUME NEW s \in LiveSessions(e)
      PROVE  /\ s \in LiveSessions(b) /\ s \notin Overflow(b)
             /\ e.sessions[s].installation # i
  <2>1. s \in Sessions /\ Live(e, s) /\ Live(c, s)
    BY <1>6, <1>9 DEF LiveSessions, Live
  <2>2. Live(b, s) /\ s \notin Overflow(b) /\ Live(a, s)
    BY <1>3, <1>4, <2>1
  <2>3. Live(d, s) /\ s \notin OfInstallation(d, i)
    BY <1>1, <2>1, <2>2
  <2>4. e.sessions[s] = d.sessions[s]
    BY <1>8, <2>1 DEF Fewer
  <2> QED
    BY <2>1, <2>2, <2>3, <2>4 DEF OfInstallation, LiveSessions
<1>10. SeenApart(b)
  BY <1>3 DEF SeenApart, Fewer, LiveSessions, Live
<1>11. Within(e, MaxActive - 1)
  <2>1. MaxActive - 1 \in Nat
    BY ServerAssumption
  <2>2. ASSUME NEW s \in LiveSessions(e)
        PROVE  Cardinality(SeenLater(b, s)) < MaxActive - 1
    <3>1. ~(Cardinality(SeenLater(b, s)) >= MaxActive - 1)
      BY <1>9, <2>2 DEF Overflow
    <3>2. Cardinality(SeenLater(b, s)) \in Nat
      BY LiveFinite, FS_Subset, FS_CardinalityType DEF SeenLater
    <3> QED
      BY <2>1, <3>1, <3>2
  <2>3. LiveSessions(e) \subseteq LiveSessions(b)
    BY <1>9
  <2> QED
    BY <1>2, <1>10, <2>1, <2>2, <2>3, LatestFit DEF Within
<1> QED
  BY <1>6, <1>8, <1>9, <1>11

-----------------------------------------------------------------------------
(* A new pair for session s of a database that is sane.                    *)
NewToken(s) == [state |-> "current", session |-> s, late |-> FALSE]

(* The row of a new token is one.                                          *)
LEMMA NewTokenTyped ==
    ASSUME NEW s \in Sessions
    PROVE  /\ NewToken(s) \in Tokens /\ NewToken(s) \in Accesses
           /\ NewToken(s).state = "current" /\ NewToken(s).session = s
           /\ ~NewToken(s).late
<1>1. NewToken(s) \in CurrentTokens /\ NewToken(s) \in AccessTokens
  BY DEF NewToken, CurrentTokens, AccessTokens
<1> QED
  BY <1>1 DEF NewToken, Tokens, Accesses

(* What inserting pair n changes.                                          *)
LEMMA InsertFields ==
    ASSUME NEW d \in Databases, NEW s \in Sessions, NEW n \in Pairs,
           NEW e, e = Insert(d, s, n)
    PROVE  /\ e \in Databases /\ e.sessions = d.sessions
           /\ e.refresh[n] = NewToken(s) /\ e.access[n] = NewToken(s)
           /\ \A m \in Pairs \ {n} : /\ e.refresh[m] = d.refresh[m]
                                     /\ e.access[m] = d.access[m]
<1>1. /\ e.sessions = d.sessions
      /\ e.refresh = [d.refresh EXCEPT ![n] = NewToken(s)]
      /\ e.access = [d.access EXCEPT ![n] = NewToken(s)]
      /\ e = [sessions |-> e.sessions, refresh |-> e.refresh, access |-> e.access]
  BY DEF Insert, NewToken, Databases
<1>2. e.sessions \in [Sessions -> Rows]
  BY <1>1 DEF Databases
<1>3. e.refresh \in [Pairs -> Tokens] /\ e.access \in [Pairs -> Accesses]
  BY <1>1, NewTokenTyped DEF Databases
<1>4. e \in Databases
  BY <1>1, <1>2, <1>3 DEF Databases
<1> QED
  BY <1>1, <1>4 DEF Databases

(* A login adds a session to a sound database that has room for it.        *)
LEMMA OpenKeeps ==
    ASSUME NEW d, NEW h, NEW st, NEW k \in Nat, NEW o \in Nat, Sound(d, h, st, k, o),
           NEW row \in SessionRows, row.state = "live", row.last = k + 1,
           row.password = h.password, st = "active",
           \A s \in LiveSessions(d) : d.sessions[s].installation # row.installation,
           Within(d, MaxActive - 1), o + 1 \in Sessions, k + 1 \in Pairs,
           NEW e, e = Insert([d EXCEPT !.sessions[o + 1] = row], o + 1, k + 1)
    PROVE  Sound(e, h, st, k + 1, o + 1)
<1> DEFINE s == o + 1
           n == k + 1
           x == [d EXCEPT !.sessions[s] = row]
<1>1. d \in Databases /\ s \in Sessions /\ n \in Pairs
  BY DEF Sound, Sane
<1>2. x \in Databases /\ x.refresh = d.refresh /\ x.access = d.access
      /\ x.sessions = [d.sessions EXCEPT ![s] = row]
  <2>1. row \in Rows
    BY DEF Rows
  <2> QED
    BY <1>1, <2>1 DEF Databases
<1> HIDE DEF x
<1>3. /\ e \in Databases /\ e.sessions = [d.sessions EXCEPT ![s] = row]
      /\ e.refresh[n] = NewToken(s) /\ e.access[n] = NewToken(s)
      /\ \A m \in Pairs \ {n} : /\ e.refresh[m] = d.refresh[m]
                                /\ e.access[m] = d.access[m]
  <2>1. e = Insert(x, s, n)
    BY DEF x
  <2>2. /\ e \in Databases /\ e.sessions = x.sessions
        /\ e.refresh[n] = NewToken(s) /\ e.access[n] = NewToken(s)
        /\ \A m \in Pairs \ {n} : /\ e.refresh[m] = x.refresh[m]
                                  /\ e.access[m] = x.access[m]
    BY <1>1, <1>2, <2>1, InsertFields, SMTT(30)
  <2> QED
    BY <1>2, <2>2
<1>4. /\ d.refresh[n] = NoToken /\ d.access[n] = NoToken /\ d.sessions[s] = NoSession
      /\ \A m \in Pairs : d.refresh[m].session <= o /\ d.access[m].session <= o
      /\ ~Live(d, s)
  BY <1>1 DEF Sound, Sane, Numbered, Live, NoSession
<1>5. /\ e.sessions[s] = row
      /\ \A r \in Sessions \ {s} : e.sessions[r] = d.sessions[r]
  BY <1>1, <1>3 DEF Databases
<1>6. LiveSessions(e) = LiveSessions(d) \cup {s}
  BY <1>1, <1>4, <1>5 DEF LiveSessions, Live
<1>7. s \notin LiveSessions(d)
  BY <1>4 DEF LiveSessions
<1>8. Answers(e)
  <2> SUFFICES ASSUME NEW p \in Pairs, Used(e, p) PROVE HasAnswer(e, p)
    BY DEF Answers
  <2>1. p # n /\ Used(d, p)
    BY <1>1, <1>3, NewTokenTyped DEF Used
  <2>2. HasAnswer(d, p) /\ d.refresh[p].next \in Pairs
    BY <1>1, <2>1, TokenFields DEF Sound, Answers
  <2>3. d.refresh[p].next # n
    BY <1>4, <2>2 DEF HasAnswer, IsCurrent, NoToken
  <2> QED
    BY <1>3, <2>1, <2>2, <2>3, SMTT(30) DEF HasAnswer, IsCurrent
<1>9. Unforked(e)
  <2>1. \A m \in Pairs : d.refresh[m].session # s
    BY <1>1, <1>4, TokenFields
  <2> QED
    BY <1>1, <1>3, <2>1, NewTokenTyped DEF Sound, Sane, Unforked, IsCurrent
<1>10. Numbered(e, n, s)
  <2>1. \A m \in Pairs : /\ m > n => e.refresh[m] = NoToken /\ e.access[m] = NoToken
                         /\ e.refresh[m].session <= s /\ e.access[m].session <= s
    <3> SUFFICES ASSUME NEW m \in Pairs
                 PROVE  /\ m > n => e.refresh[m] = NoToken /\ e.access[m] = NoToken
                        /\ e.refresh[m].session <= s /\ e.access[m].session <= s
      OBVIOUS
    <3>1. CASE m = n
      BY <1>1, <1>3, <3>1, NewTokenTyped DEF Pairs
    <3>2. CASE m # n
      <4>1. e.refresh[m] = d.refresh[m] /\ e.access[m] = d.access[m]
        BY <1>3, <3>2
      <4>2. m > k => d.refresh[m] = NoToken /\ d.access[m] = NoToken
        BY DEF Sound, Sane, Numbered
      <4>3. d.refresh[m].session \in Nat /\ d.access[m].session \in Nat /\ m \in Nat
        BY <1>1, TokenFields, ServerAssumption DEF Pairs
      <4>4. m > n => m > k
        BY <4>3
      <4> QED
        BY <1>4, <4>1, <4>2, <4>3, <4>4
    <3> QED
      BY <3>1, <3>2
  <2>2. \A r \in Sessions : r > s => e.sessions[r] = NoSession
    <3> SUFFICES ASSUME NEW r \in Sessions, r > s PROVE e.sessions[r] = NoSession
      OBVIOUS
    <3>1. r \in Nat /\ r > o /\ r # s
      BY ServerAssumption DEF Sessions
    <3> QED
      BY <1>5, <3>1 DEF Sound, Sane, Numbered
  <2>3. \A r \in Sessions : Live(e, r) => e.sessions[r].last <= n
    <3> SUFFICES ASSUME NEW r \in Sessions, Live(e, r) PROVE e.sessions[r].last <= n
      OBVIOUS
    <3>1. CASE r = s
      BY <1>5, <3>1
    <3>2. CASE r # s
      <4>1. Live(d, r) /\ e.sessions[r] = d.sessions[r]
        BY <1>5, <3>2 DEF Live
      <4>2. d.sessions[r].last <= k /\ d.sessions[r].last \in Nat
        BY <1>1, <4>1, RowFields, ServerAssumption
           DEF Sound, Sane, Numbered, SessionRows, Pairs
      <4> QED
        BY <4>1, <4>2
    <3> QED
      BY <3>1, <3>2
  <2> QED
    BY <2>1, <2>2, <2>3 DEF Numbered
<1>11. Proved(e, h, st)
  BY <1>1, <1>5, <1>6, <1>7 DEF Sound, Sane, Proved, LiveSessions
<1>12. OnePerInstallation(e)
  BY <1>5, <1>6, <1>7 DEF Sound, Sane, OnePerInstallation, LiveSessions
<1>13. SeenApart(e)
  <2>1. \A r \in LiveSessions(d) : d.sessions[r].last # n
    <3> SUFFICES ASSUME NEW r \in LiveSessions(d) PROVE d.sessions[r].last # n
      OBVIOUS
    <3>1. d.sessions[r].last <= k /\ d.sessions[r].last \in Nat
      BY <1>1, RowFields, ServerAssumption
         DEF Sound, Sane, Numbered, SessionRows, Pairs, LiveSessions
    <3> QED
      BY <3>1
  <2> QED
    BY <1>5, <1>6, <1>7, <2>1 DEF Sound, Sane, SeenApart, LiveSessions
<1>14. Within(e, MaxActive)
  <2>1. Cardinality(LiveSessions(e)) = Cardinality(LiveSessions(d)) + 1
    BY <1>6, <1>7, LiveFinite, FS_AddElement
  <2> QED
    BY <2>1, LiveFinite, ServerAssumption DEF Within
<1> QED
  BY <1>3, <1>8, <1>9, <1>10, <1>11, <1>12, <1>13, <1>14 DEF Sound, Sane

(* d with other refresh tokens and sessions.                               *)
Renew(d, R, S) == [d EXCEPT !.refresh = R, !.sessions = S]

(* These are its tables, of their types.                                   *)
LEMMA Renewed ==
    ASSUME NEW d \in Databases, NEW R \in [Pairs -> Tokens], NEW S \in [Sessions -> Rows],
           NEW e, e = Renew(d, R, S)
    PROVE  /\ e \in Databases
           /\ e.refresh = R /\ e.sessions = S /\ e.access = d.access
<1>1. e.refresh = R /\ e.sessions = S /\ e.access = d.access
  BY DEF Renew, Databases
<1>2. e = [sessions |-> S, refresh |-> R, access |-> d.access]
  BY DEF Renew, Databases
<1> QED
  BY <1>1, <1>2 DEF Databases

(* What consuming the current token n of session s writes.                 *)
LEMMA ConsumeFields ==
    ASSUME NEW d \in Databases, NEW n \in Pairs, NEW s, s = d.refresh[n].session,
           IsCurrent(d, n), Live(d, s), NEW req \in RequestIds,
           NEW next \in Pairs, next # n, NEW e, e = Consume(d, n, req, next)
    PROVE  /\ e \in Databases /\ s \in Sessions
           /\ Used(e, n) /\ e.refresh[n].session = s /\ e.refresh[n].next = next
           /\ e.refresh[n].by = req
           /\ e.refresh[next] = NewToken(s) /\ e.access[next] = NewToken(s)
           /\ e.access[n] = d.access[n]
           /\ \A m \in Pairs \ {n, next} : /\ e.refresh[m] = d.refresh[m]
                                           /\ e.access[m] = d.access[m]
           /\ e.sessions[s] = [d.sessions[s] EXCEPT !.last = next]
           /\ e.sessions[s] \in SessionRows
           /\ \A r \in Sessions \ {s} : e.sessions[r] = d.sessions[r]
<1> DEFINE used == [state |-> "used", session |-> s, late |-> d.refresh[n].late,
                    by |-> req, next |-> next]
           row == [d.sessions[s] EXCEPT !.last = next]
           R == [d.refresh EXCEPT ![n] = used]
           S == [d.sessions EXCEPT ![s] = row]
           x == Renew(d, R, S)
<1>1. s \in Sessions /\ d.refresh[n].late \in BOOLEAN
  BY TokenFields DEF IsCurrent
<1>2. used \in Tokens
  BY <1>1 DEF Tokens, UsedTokens
<1>3. d.sessions[s] \in SessionRows
  BY <1>1, RowFields
<1>4. row \in SessionRows /\ row \in Rows
  BY <1>3 DEF SessionRows, Rows
<1>5. used.state = "used" /\ used.session = s /\ used.next = next /\ used.by = req
  OBVIOUS
<1>6. e = Insert(x, s, next)
  BY DEF Consume, Renew
<1>7. R \in [Pairs -> Tokens] /\ S \in [Sessions -> Rows]
  BY <1>1, <1>2, <1>4 DEF Databases
<1>8. /\ R[n] = used /\ \A m \in Pairs \ {n} : R[m] = d.refresh[m]
      /\ S[s] = row /\ \A r \in Sessions \ {s} : S[r] = d.sessions[r]
  BY <1>1 DEF Databases
<1> HIDE DEF used, row, R, S
<1>9. /\ x \in Databases
      /\ x.refresh = R /\ x.sessions = S /\ x.access = d.access
  BY <1>7, Renewed
<1> HIDE DEF x
<1>10. /\ e \in Databases /\ e.sessions = x.sessions
       /\ e.refresh[next] = NewToken(s) /\ e.access[next] = NewToken(s)
       /\ \A m \in Pairs \ {next} : /\ e.refresh[m] = x.refresh[m]
                                    /\ e.access[m] = x.access[m]
  BY <1>1, <1>6, <1>9, InsertFields
<1>11. e.refresh[n] = used
  BY <1>8, <1>9, <1>10
<1>12. /\ Used(e, n) /\ e.refresh[n].session = s /\ e.refresh[n].next = next
       /\ e.refresh[n].by = req
  BY <1>5, <1>11 DEF Used
<1>13. e.sessions[s] = [d.sessions[s] EXCEPT !.last = next] /\ e.sessions[s] \in SessionRows
  BY <1>4, <1>8, <1>9, <1>10 DEF row
<1> QED
  BY <1>1, <1>8, <1>9, <1>10, <1>12, <1>13

(* Consuming a token leaves the tables sane.                               *)
LEMMA ConsumeKeeps ==
    ASSUME NEW d, NEW h, NEW st, NEW k \in Nat, NEW o \in Nat, Sound(d, h, st, k, o),
           NEW n \in Pairs, NEW s, s = d.refresh[n].session,
           IsCurrent(d, n), Live(d, s), NEW req \in RequestIds, k + 1 \in Pairs,
           NEW e, e = Consume(d, n, req, k + 1)
    PROVE  Sane(e, h, st, k + 1, o)
<1> DEFINE next == k + 1
<1>1. d \in Databases /\ s \in Sessions
  BY TokenFields DEF Sound, Sane, IsCurrent
<1>2. /\ d.refresh[next] = NoToken
      /\ \A m \in Pairs : d.refresh[m].session <= o /\ d.access[m].session <= o
      /\ \A r \in LiveSessions(d) : d.sessions[r].last <= k /\ d.sessions[r].last \in Nat
  BY <1>1, RowFields, ServerAssumption
     DEF Sound, Sane, Numbered, LiveSessions, SessionRows, Pairs
<1>3. next # n
  BY <1>2 DEF IsCurrent, NoToken
<1>4. /\ e \in Databases
      /\ Used(e, n) /\ e.refresh[n].session = s
      /\ e.refresh[next] = NewToken(s) /\ e.access[next] = NewToken(s)
      /\ e.access[n] = d.access[n]
      /\ \A m \in Pairs \ {n, next} : /\ e.refresh[m] = d.refresh[m]
                                      /\ e.access[m] = d.access[m]
      /\ e.sessions[s] = [d.sessions[s] EXCEPT !.last = next]
      /\ \A r \in Sessions \ {s} : e.sessions[r] = d.sessions[r]
  <2> HIDE DEF next
  <2>1. e = Consume(d, n, req, next) /\ next \in Pairs
    BY DEF next
  <2> QED
    BY <1>1, <1>3, <2>1, ConsumeFields
<1>5. d.sessions[s] \in SessionRows
  BY <1>1, RowFields
<1>6. /\ e.sessions[s].last = next
      /\ e.sessions[s].state = d.sessions[s].state
      /\ e.sessions[s].installation = d.sessions[s].installation
      /\ e.sessions[s].password = d.sessions[s].password
  BY <1>4, <1>5 DEF SessionRows
<1>7. LiveSessions(e) = LiveSessions(d)
  BY <1>4, <1>6 DEF LiveSessions, Live
<1>8. ASSUME NEW m \in Pairs, IsCurrent(e, m)
      PROVE  m = next \/ (IsCurrent(d, m) /\ e.refresh[m] = d.refresh[m] /\ m # n)
  BY <1>4, <1>8 DEF IsCurrent, Used
<1>9. Unforked(e)
  <2> SUFFICES ASSUME NEW l \in Pairs, NEW m \in Pairs, IsCurrent(e, l), IsCurrent(e, m),
                      e.refresh[l].session = e.refresh[m].session
               PROVE  l = m
    BY DEF Unforked
  <2>1. \A p \in Pairs : IsCurrent(d, p) /\ d.refresh[p].session = s => p = n
    BY DEF Sound, Sane, Unforked
  <2>2. e.refresh[next].session = s
    BY <1>1, <1>4, NewTokenTyped
  <2> QED
    BY <1>8, <2>1, <2>2 DEF Sound, Sane, Unforked
<1>10. Numbered(e, next, o)
  <2>0. s <= o
    BY <1>2
  <2>1. ASSUME NEW m \in Pairs
        PROVE  /\ m > next => e.refresh[m] = NoToken /\ e.access[m] = NoToken
               /\ e.refresh[m].session <= o /\ e.access[m].session <= o
    <3>1. CASE m = next
      BY <1>1, <1>4, <2>0, <3>1, NewTokenTyped DEF Pairs
    <3>2. CASE m = n
      <4>1. ~(n > k)
        BY DEF IsCurrent, NoToken, Sound, Sane, Numbered
      <4>2. n \in Nat
        BY ServerAssumption DEF Pairs
      <4> QED
        BY <1>2, <1>4, <2>0, <3>2, <4>1, <4>2
    <3>3. CASE m \notin {n, next}
      <4>1. m > next => m > k
        BY ServerAssumption DEF Pairs
      <4>2. m > k => d.refresh[m] = NoToken /\ d.access[m] = NoToken
        BY DEF Sound, Sane, Numbered
      <4> QED
        BY <1>2, <1>4, <3>3, <4>1, <4>2
    <3> QED
      BY <3>1, <3>2, <3>3
  <2>2. \A r \in Sessions : r > o => e.sessions[r] = NoSession
    <3>1. \A r \in Sessions : r > o => r # s
      BY <2>0, ServerAssumption DEF Sessions
    <3> QED
      BY <1>4, <3>1 DEF Sound, Sane, Numbered
  <2>3. \A r \in Sessions : Live(e, r) => e.sessions[r].last <= next
    <3>1. \A r \in LiveSessions(e) : e.sessions[r].last <= next
      BY <1>2, <1>4, <1>6, <1>7, SMTT(30) DEF LiveSessions
    <3> QED
      BY <3>1 DEF LiveSessions
  <2> QED
    BY <2>1, <2>2, <2>3 DEF Numbered
<1>11. Proved(e, h, st) /\ OnePerInstallation(e)
  <2>1. \A r \in LiveSessions(d) :
           /\ e.sessions[r].password = d.sessions[r].password
           /\ e.sessions[r].installation = d.sessions[r].installation
    BY <1>4, <1>6 DEF LiveSessions
  <2> QED
    BY <1>7, <2>1 DEF Sound, Sane, Proved, OnePerInstallation
<1>12. SeenApart(e)
  <2>1. \A r \in LiveSessions(d) : d.sessions[r].last # next
    BY <1>2
  <2>2. \A r \in LiveSessions(d) \ {s} : e.sessions[r] = d.sessions[r]
    BY <1>4 DEF LiveSessions
  <2> QED
    BY <1>6, <1>7, <2>1, <2>2 DEF Sound, Sane, SeenApart
<1>13. Within(e, MaxActive)
  BY <1>7 DEF Sound, Sane, Within
<1> QED
  BY <1>4, <1>9, <1>10, <1>11, <1>12, <1>13 DEF Sane

(* A rotation: the token that is consumed keeps its answer, the one before *)
(* it loses its own and goes.                                              *)
LEMMA RotationKeeps ==
    ASSUME NEW d, NEW h, NEW st, NEW k \in Nat, NEW o \in Nat, Sound(d, h, st, k, o),
           NEW n \in Pairs, NEW s, s = d.refresh[n].session,
           IsCurrent(d, n), Live(d, s), NEW req \in RequestIds, k + 1 \in Pairs,
           NEW c, c = Consume(d, n, req, k + 1),
           NEW e, e = PruneExpired(PruneFamily(c, s))
    PROVE  Sound(e, h, st, k + 1, o)
<1> DEFINE next == k + 1
           f == PruneFamily(c, s)
<1>1. d \in Databases /\ s \in Sessions
  BY TokenFields DEF Sound, Sane, IsCurrent
<1>2. d.refresh[next] = NoToken
  BY DEF Sound, Sane, Numbered
<1>3. next # n
  BY <1>2 DEF IsCurrent, NoToken
<1>4. Sane(c, h, st, next, o)
  BY ConsumeKeeps
<1>5. /\ c \in Databases
      /\ Used(c, n) /\ c.refresh[n].session = s /\ c.refresh[n].next = next
      /\ c.refresh[next] = NewToken(s) /\ c.access[next] = NewToken(s)
      /\ \A m \in Pairs \ {n, next} : /\ c.refresh[m] = d.refresh[m]
                                      /\ c.access[m] = d.access[m]
  <2>1. next \in Pairs /\ c = Consume(d, n, req, next)
    OBVIOUS
  <2> HIDE DEF next, f
  <2>2. /\ c \in Databases /\ s \in Sessions
        /\ Used(c, n) /\ c.refresh[n].session = s /\ c.refresh[n].next = next
        /\ c.refresh[next] = NewToken(s) /\ c.access[next] = NewToken(s)
        /\ c.access[n] = d.access[n]
        /\ \A m \in Pairs \ {n, next} : /\ c.refresh[m] = d.refresh[m]
                                        /\ c.access[m] = d.access[m]
        /\ c.sessions[s] = [d.sessions[s] EXCEPT !.last = next]
        /\ c.sessions[s] \in SessionRows
        /\ \A r \in Sessions \ {s} : c.sessions[r] = d.sessions[r]
    BY <1>1, <1>3, <2>1, ConsumeFields
  <2> QED
    BY <2>2
<1>6. e = PruneExpired(f)
  OBVIOUS
<1>7. ASSUME NEW p \in Pairs, Used(c, p), p # n
      PROVE  /\ Used(d, p) /\ HasAnswer(d, p) /\ p # next
             /\ d.refresh[p].next \notin {next} /\ d.refresh[p].next \in Pairs
             /\ c.refresh[p] = d.refresh[p]
  <2>1. p # next
    BY <1>1, <1>5, <1>7, NewTokenTyped DEF Used
  <2>2. c.refresh[p] = d.refresh[p]
    BY <1>5, <1>7, <2>1
  <2>3. Used(d, p)
    BY <1>7, <2>2 DEF Used
  <2>4. HasAnswer(d, p) /\ d.refresh[p].next \in Pairs
    BY <1>1, <2>3, TokenFields DEF Sound, Answers
  <2>5. d.refresh[p].next # next
    BY <1>2, <2>4 DEF HasAnswer, IsCurrent, NoToken
  <2> QED
    BY <2>1, <2>2, <2>3, <2>4, <2>5
<1>8. ASSUME NEW p \in Pairs, Used(c, p),
             c.refresh[p].session # s \/ p \in ParentsOf(c, s)
      PROVE  HasAnswer(c, p)
  <2>1. CASE p = n
    BY <1>1, <1>5, <2>1, NewTokenTyped DEF HasAnswer, IsCurrent
  <2>2. CASE p # n
    <3> DEFINE q == d.refresh[p].next
    <3>1. /\ HasAnswer(d, p) /\ q # next /\ q \in Pairs
          /\ c.refresh[p] = d.refresh[p]
      BY <1>7, <1>8, <2>2
    <3>2. q # n
      <4>1. CASE c.refresh[p].session # s
        BY <3>1, <4>1 DEF HasAnswer
      <4>2. CASE p \in ParentsOf(c, s)
        <5>1. IsCurrent(c, q)
          BY <3>1, <4>2 DEF ParentsOf, CurrentOf, Newest, IsFresh
        <5> QED
          BY <1>5, <5>1 DEF IsCurrent, Used
      <4> QED
        BY <1>8, <4>1, <4>2
    <3>3. c.refresh[q] = d.refresh[q] /\ c.access[q] = d.access[q]
      BY <1>5, <3>1, <3>2
    <3> QED
      BY <3>1, <3>3 DEF HasAnswer, IsCurrent
  <2> QED
    BY <2>1, <2>2
<1>9. Fewer(c, f) /\ Answers(f)
  BY <1>1, <1>5, <1>8, PruneFamilyKeeps
<1> HIDE DEF f
<1>10. Sane(f, h, st, next, o)
  BY <1>4, <1>9, FewerStaysSane
<1>11. Fewer(f, e) /\ Answers(e)
  BY <1>6, <1>9, PruneExpiredKeeps DEF Fewer
<1>12. Sane(e, h, st, next, o)
  BY <1>10, <1>11, FewerStaysSane
<1> QED
  BY <1>11, <1>12 DEF Sound

(* The clock changes nothing that the invariant is about.                  *)
LEMMA OutdatedKeeps ==
    ASSUME NEW d, NEW h, NEW st, NEW k, NEW o, Sound(d, h, st, k, o),
           NEW S, NEW R, NEW A,
           NEW e, e = [sessions |-> Outdated(d.sessions, S),
                       refresh |-> Outdated(d.refresh, R),
                       access |-> Outdated(d.access, A)]
    PROVE  Sound(e, h, st, k, o)
<1>1. d \in Databases
  BY DEF Sound, Sane
<1>2. /\ e.sessions = [s \in Sessions |->
                          IF s \in S /\ d.sessions[s].state # "none"
                          THEN [d.sessions[s] EXCEPT !.late = TRUE] ELSE d.sessions[s]]
      /\ e.refresh = [n \in Pairs |->
                          IF n \in R /\ d.refresh[n].state # "none"
                          THEN [d.refresh[n] EXCEPT !.late = TRUE] ELSE d.refresh[n]]
      /\ e.access = [n \in Pairs |->
                          IF n \in A /\ d.access[n].state # "none"
                          THEN [d.access[n] EXCEPT !.late = TRUE] ELSE d.access[n]]
  BY <1>1 DEF Outdated, Databases
<1>3. ASSUME NEW s \in Sessions
      PROVE  /\ e.sessions[s] \in Rows
             /\ Live(e, s) <=> Live(d, s)
             /\ d.sessions[s] = NoSession => e.sessions[s] = NoSession
             /\ Live(d, s) => /\ e.sessions[s].installation = d.sessions[s].installation
                              /\ e.sessions[s].password = d.sessions[s].password
                              /\ e.sessions[s].last = d.sessions[s].last
  <2>1. CASE s \in S /\ d.sessions[s].state # "none"
    <3>1. d.sessions[s] \in SessionRows /\ d.sessions[s] # NoSession
      BY <1>1, <2>1, RowFields DEF NoSession
    <3>2. e.sessions[s] = [d.sessions[s] EXCEPT !.late = TRUE]
      BY <1>2, <2>1
    <3>3. /\ e.sessions[s] \in SessionRows
          /\ e.sessions[s].state = d.sessions[s].state
          /\ e.sessions[s].installation = d.sessions[s].installation
          /\ e.sessions[s].password = d.sessions[s].password
          /\ e.sessions[s].last = d.sessions[s].last
      BY <3>1, <3>2 DEF SessionRows
    <3> QED
      BY <3>1, <3>3 DEF Rows, Live
  <2>2. CASE ~(s \in S /\ d.sessions[s].state # "none")
    <3>1. e.sessions[s] = d.sessions[s]
      BY <1>2, <2>2
    <3> QED
      BY <1>1, <3>1, RowFields DEF Live
  <2> QED
    BY <2>1, <2>2
<1>4. ASSUME NEW t \in Tokens, t.state # "none", NEW u, u = [t EXCEPT !.late = TRUE]
      PROVE  /\ u \in Tokens /\ u.state = t.state /\ u.session = t.session
             /\ t.state = "used" => u.next = t.next
  <2>1. CASE t \in CurrentTokens
    <3>1. t.state = "current"
      BY <2>1 DEF CurrentTokens
    <3>2. u \in CurrentTokens /\ u.state = t.state /\ u.session = t.session
      BY <1>4, <2>1 DEF CurrentTokens
    <3> QED
      BY <3>1, <3>2 DEF Tokens
  <2>2. CASE t \in UsedTokens
    BY <1>4, <2>2 DEF Tokens, UsedTokens
  <2>3. CASE t = NoToken
    BY <1>4, <2>3 DEF NoToken
  <2> QED
    BY <2>1, <2>2, <2>3 DEF Tokens
<1>5. ASSUME NEW t \in Accesses, t.state # "none", NEW u, u = [t EXCEPT !.late = TRUE]
      PROVE  u \in Accesses /\ u.state = t.state /\ u.session = t.session
  <2>1. t \in AccessTokens
    BY <1>5 DEF Accesses, NoToken
  <2>2. u \in AccessTokens /\ u.state = t.state /\ u.session = t.session
    BY <1>5, <2>1 DEF AccessTokens
  <2> QED
    BY <2>2 DEF Accesses
<1>6. ASSUME NEW n \in Pairs
      PROVE  /\ e.refresh[n] \in Tokens /\ e.access[n] \in Accesses
             /\ e.refresh[n].state = d.refresh[n].state
             /\ e.access[n].state = d.access[n].state
             /\ e.refresh[n].session = d.refresh[n].session
             /\ e.access[n].session = d.access[n].session
             /\ Used(d, n) => e.refresh[n].next = d.refresh[n].next
  <2>1. d.refresh[n] \in Tokens /\ d.access[n] \in Accesses
    BY <1>1, TokenFields
  <2>2. /\ e.refresh[n] \in Tokens
        /\ e.refresh[n].state = d.refresh[n].state
        /\ e.refresh[n].session = d.refresh[n].session
        /\ d.refresh[n].state = "used" => e.refresh[n].next = d.refresh[n].next
    BY <1>2, <1>4, <2>1
  <2>3. /\ e.access[n] \in Accesses
        /\ e.access[n].state = d.access[n].state
        /\ e.access[n].session = d.access[n].session
    BY <1>2, <1>5, <2>1
  <2> QED
    BY <2>2, <2>3 DEF Used
<1>7. e \in Databases
  <2>1. e.sessions \in [Sessions -> Rows]
    BY <1>2, <1>3
  <2>2. e.refresh \in [Pairs -> Tokens]
    BY <1>2, <1>6
  <2>3. e.access \in [Pairs -> Accesses]
    BY <1>2, <1>6
  <2>4. e = [sessions |-> e.sessions, refresh |-> e.refresh, access |-> e.access]
    OBVIOUS
  <2> QED
    BY <2>1, <2>2, <2>3, <2>4 DEF Databases
<1>8. LiveSessions(e) = LiveSessions(d)
  BY <1>3 DEF LiveSessions
<1>9. Answers(e)
  <2> SUFFICES ASSUME NEW p \in Pairs, Used(e, p) PROVE HasAnswer(e, p)
    BY DEF Answers
  <2>1. Used(d, p)
    BY <1>6 DEF Used
  <2>2. HasAnswer(d, p) /\ d.refresh[p].next \in Pairs
    BY <1>1, <2>1, TokenFields DEF Sound, Answers
  <2> QED
    BY <1>6, <2>1, <2>2 DEF HasAnswer, IsCurrent
<1>10. Unforked(e)
  BY <1>6 DEF Sound, Sane, Unforked, IsCurrent
<1>11. Numbered(e, k, o)
  <2>1. \A n \in Pairs : /\ n > k => e.refresh[n] = NoToken /\ e.access[n] = NoToken
                         /\ e.refresh[n].session <= o /\ e.access[n].session <= o
    BY <1>6, <1>7, <1>1, TokenFields DEF Sound, Sane, Numbered
  <2>2. \A s \in Sessions : /\ s > o => e.sessions[s] = NoSession
                            /\ Live(e, s) => e.sessions[s].last <= k
    BY <1>3 DEF Sound, Sane, Numbered
  <2> QED
    BY <2>1, <2>2 DEF Numbered
<1>12. Proved(e, h, st) /\ OnePerInstallation(e) /\ SeenApart(e)
  BY <1>3, <1>8 DEF Sound, Sane, Proved, OnePerInstallation, SeenApart, LiveSessions
<1>13. Within(e, MaxActive)
  BY <1>8 DEF Sound, Sane, Within
<1> QED
  BY <1>7, <1>9, <1>10, <1>11, <1>12, <1>13 DEF Sound, Sane

(* Ending all sessions is sound whatever the password and the status.      *)
LEMMA RevokeAllKeeps ==
    ASSUME NEW d, NEW h, NEW st, NEW k \in Nat, NEW o \in Nat, Sound(d, h, st, k, o),
           NEW g, NEW to, NEW e, e = Revoke(d, Sessions, "revoked")
    PROVE  Sound(e, g, to, k, o)
<1>1. d \in Databases /\ Answers(d)
  BY DEF Sound, Sane
<1>2. /\ Fewer(d, e) /\ Answers(e)
      /\ \A s \in Sessions : Live(e, s) <=> Live(d, s) /\ s \notin Sessions
  BY <1>1, RevokeEnds
<1>3. Sane(e, h, st, k, o)
  BY <1>2, FewerStaysSane DEF Sound
<1>4. Proved(e, g, to)
  BY <1>2 DEF Proved, LiveSessions
<1> QED
  BY <1>2, <1>3, <1>4 DEF Sound, Sane

-----------------------------------------------------------------------------
(* The actions that write the tables.                                      *)

(* Pruning stale sessions leaves the tables sound.                         *)
LEMMA PrunedSound ==
    ASSUME Inv, NEW gone, gone \subseteq Ended(ExpireSessions(db)),
           NEW d, d = PruneStale(db, gone)
    PROVE  Sound(d, hash, status, issued, opened)
<1>1. issued \in Nat /\ opened \in Nat /\ db \in Databases /\ Answers(db)
  BY ServerAssumption DEF Inv, AccountOK, Sound, Sane
<1>2. Fewer(db, d) /\ Answers(d)
  BY <1>1, PruneStaleKeeps
<1> QED
  BY <1>1, <1>2, FewerStaysSane DEF Inv, Sound

(* So does opening a session.                                              *)
LEMMA OpenSessionKeeps ==
    ASSUME Inv, NEW i \in Installations, NEW gone \in SUBSET Sessions,
           OpenSession(i, gone)
    PROVE  Inv'
<1> DEFINE s == opened + 1
           n == issued + 1
           a == PruneStale(db, gone)
           b == PruneExpired(a)
           d == MakeRoom(b, i)
           row == [state |-> "live", installation |-> i, last |-> n, late |-> FALSE,
                   password |-> logins[i].password]
<1>1. /\ logins[i] # NoProof /\ hash = logins[i] /\ status = "active"
      /\ s \in Sessions /\ n \in Pairs
      /\ gone \subseteq Ended(ExpireSessions(db))
      /\ db' = Insert([d EXCEPT !.sessions[s] = row], s, n)
      /\ opened' = s /\ issued' = n
      /\ logins' = [logins EXCEPT ![i] = NoProof]
      /\ hash' = hash /\ status' = status
  BY DEF OpenSession, StillProved
<1>2. issued \in Nat /\ opened \in Nat /\ hash \in Hashes
  BY ServerAssumption DEF Inv, AccountOK
<1>3. Sound(a, hash, status, issued, opened)
  BY <1>1, PrunedSound
<1>4. Fewer(a, b) /\ Answers(b)
  BY <1>3, PruneExpiredKeeps DEF Sound, Sane
<1>5. Sane(b, hash, status, issued, opened)
  BY <1>2, <1>3, <1>4, FewerStaysSane DEF Sound
<1> HIDE DEF a, b
<1>6. /\ Fewer(b, d) /\ Answers(d)
      /\ \A r \in LiveSessions(d) : d.sessions[r].installation # i
      /\ Within(d, MaxActive - 1)
  BY <1>4, <1>5, MakeRoomKeeps DEF Sane
<1>7. Sound(d, hash, status, issued, opened)
  BY <1>2, <1>5, <1>6, FewerStaysSane DEF Sound
<1>8. /\ row \in SessionRows /\ row.state = "live" /\ row.last = issued + 1
      /\ row.installation = i /\ row.password = hash.password
  BY <1>1, <1>2 DEF SessionRows, Hashes
<1> HIDE DEF d, row
<1>9. Sound(db', hash, status, issued + 1, opened + 1)
  BY <1>1, <1>2, <1>6, <1>7, <1>8, OpenKeeps
<1>10. Sound(db', hash', status', issued', opened')
  BY <1>1, <1>9
<1>11. AccountOK'
  <2>1. issued' \in 0..MaxPairs /\ opened' \in 0..MaxSessions
    BY <1>1, ServerAssumption DEF Pairs, Sessions
  <2>2. logins' \in [Installations -> Hashes \cup {NoProof}]
    BY <1>1 DEF Inv, AccountOK
  <2> QED
    BY <1>1, <2>1, <2>2 DEF Inv, AccountOK
<1> QED
  BY <1>10, <1>11 DEF Inv

(* So does every answer to a refresh.                                      *)
LEMMA RotateKeeps ==
    ASSUME Inv, NEW i \in Installations, NEW n \in Pairs, NEW req \in RequestIds,
           NEW gone \in SUBSET Sessions, Rotate(n, i, req, gone)
    PROVE  Inv'
<1> DEFINE d == PruneStale(db, gone)
           s == d.refresh[n].session
           verdict == Verdict(d, n, i, req)
<1>1. /\ gone \subseteq Ended(ExpireSessions(db))
      /\ verdict = "rotated" => issued + 1 \in Pairs
      /\ db' = IF verdict = "error" THEN db ELSE Written(d, n, req, verdict)
      /\ issued' = IF verdict = "rotated" THEN issued + 1 ELSE issued
      /\ UNCHANGED <<hash, status, logins, opened>>
  BY DEF Rotate
<1>2. issued \in Nat /\ opened \in Nat
  BY ServerAssumption DEF Inv, AccountOK
<1>3. Sound(d, hash, status, issued, opened)
  BY <1>1, PrunedSound
<1>4. d \in Databases /\ Answers(d) /\ Sane(d, hash, status, issued, opened)
  BY <1>3 DEF Sound, Sane
<1> HIDE DEF d
<1>5. verdict = "rotated" => IsCurrent(d, n) /\ Live(d, s)
  <2>1. verdict = "rotated" => /\ d.refresh[n].state # "none" /\ d.refresh[n].state # "used"
                               /\ d.sessions[s].state = "live"
    BY DEF Verdict, RetryVerdict
  <2> QED
    BY <1>4, <2>1, TokenFields DEF IsCurrent, Live
<1>6. verdict = "lapsed" => s \in Sessions
  <2>1. ASSUME d.refresh[n].state = "none" PROVE verdict = "invalid"
    <3> HIDE DEF s
    <3> QED
      BY <2>1, Zenon DEF Verdict
  <2> QED
    BY <1>4, <2>1, TokenFields
<1> HIDE DEF verdict
<1>7. Sound(db', hash, status, issued', opened)
  <2>1. CASE verdict = "error"
    BY <1>1, <2>1 DEF Inv
  <2>2. CASE verdict = "invalid"
    <3>1. db' = PruneExpired(d) /\ issued' = issued
      BY <1>1, <2>2 DEF Written
    <3>2. Fewer(d, db') /\ Answers(db')
      BY <1>4, <3>1, PruneExpiredKeeps
    <3> QED
      BY <1>2, <1>4, <3>1, <3>2, FewerStaysSane DEF Sound
  <2>3. CASE verdict = "replayed"
    <3>1. db' = Revoke(d, {s}, "replayed") /\ issued' = issued
      BY <1>1, <2>3 DEF Written
    <3>2. Fewer(d, db') /\ Answers(db')
      BY <1>4, <3>1, RevokeEnds
    <3> QED
      BY <1>2, <1>4, <3>1, <3>2, FewerStaysSane DEF Sound
  <2>4. CASE verdict = "lapsed"
    <3> DEFINE f == PruneFamily(d, s)
    <3>1. db' = PruneExpired(f) /\ issued' = issued
      BY <1>1, <2>4 DEF Written
    <3>2. \A p \in Pairs : Used(d, p) => HasAnswer(d, p)
      BY <1>4 DEF Answers
    <3>3. s \in Sessions
      BY <1>6, <2>4
    <3> HIDE DEF s
    <3>4. Fewer(d, f) /\ Answers(f)
      BY <1>4, <3>2, <3>3, PruneFamilyKeeps
    <3> HIDE DEF f
    <3>5. Sane(f, hash, status, issued, opened)
      BY <1>2, <1>4, <3>4, FewerStaysSane
    <3>6. Fewer(f, db') /\ Answers(db')
      BY <3>1, <3>4, PruneExpiredKeeps DEF Fewer
    <3> QED
      BY <1>2, <3>1, <3>5, <3>6, FewerStaysSane DEF Sound
  <2>5. CASE verdict = "rotated"
    <3> DEFINE c == Consume(d, n, req, issued + 1)
    <3>1. db' = PruneExpired(PruneFamily(c, s)) /\ issued' = issued + 1
      BY <1>1, <2>5 DEF Written
    <3>2. IsCurrent(d, n) /\ Live(d, s) /\ issued + 1 \in Pairs
      BY <1>1, <1>5, <2>5
    <3>3. s = d.refresh[n].session
      OBVIOUS
    <3> HIDE DEF c, s
    <3>4. c = Consume(d, n, req, issued + 1)
      BY DEF c
    <3> QED
      BY <1>2, <1>3, <3>1, <3>2, <3>3, <3>4, RotationKeeps
  <2>6. CASE verdict \notin {"error", "invalid", "replayed", "lapsed", "rotated"}
    <3>1. db' = d /\ issued' = issued
      BY <1>1, <2>6 DEF Written
    <3> QED
      BY <1>3, <3>1
  <2> QED
    BY <2>1, <2>2, <2>3, <2>4, <2>5, <2>6
<1>8. issued' \in 0..MaxPairs
  BY <1>1, ServerAssumption DEF Inv, AccountOK, Pairs
<1>9. AccountOK'
  BY <1>1, <1>8 DEF Inv, AccountOK
<1> QED
  BY <1>1, <1>7, <1>9 DEF Inv

-----------------------------------------------------------------------------
(* An empty database is sound.                                             *)
LEMMA ServerInitially == InitServer => Inv
<1> SUFFICES ASSUME InitServer PROVE Inv
  OBVIOUS
<1>1. /\ hash = [password |-> 0, dated |-> TRUE] /\ status = "active"
      /\ logins = [i \in Installations |-> NoProof]
      /\ db = EmptyDatabase /\ issued = 0 /\ opened = 0
  BY DEF InitServer
<1>2. AccountOK
  BY <1>1, ServerAssumption DEF AccountOK, Hashes, Passwords
<1>3. db \in Databases
  BY <1>1 DEF EmptyDatabase, Databases, Rows, Tokens, Accesses
<1>4. /\ \A s \in Sessions : db.sessions[s] = NoSession
      /\ \A n \in Pairs : db.refresh[n] = NoToken /\ db.access[n] = NoToken
  BY <1>1 DEF EmptyDatabase
<1>5. NoSession.state = "none" /\ NoToken.state = "none" /\ NoToken.session = 0
  BY DEF NoSession, NoToken
<1>6. LiveSessions(db) = {}
  BY <1>4, <1>5 DEF LiveSessions, Live
<1>7. Answers(db) /\ Unforked(db)
  BY <1>4, <1>5 DEF Answers, Unforked, Used, IsCurrent
<1>8. Numbered(db, issued, opened)
  BY <1>1, <1>4, <1>5, <1>6 DEF Numbered, LiveSessions
<1>9. Proved(db, hash, status) /\ OnePerInstallation(db) /\ SeenApart(db)
  BY <1>6 DEF Proved, OnePerInstallation, SeenApart
<1>10. Within(db, MaxActive)
  BY <1>6, FS_EmptySet, ServerAssumption DEF Within
<1> QED
  BY <1>2, <1>3, <1>7, <1>8, <1>9, <1>10 DEF Inv, Sound, Sane

(* Every transaction keeps it so.                                          *)
LEMMA ServerInductive == Inv /\ [NextServer]_serverVars => Inv'
<1> SUFFICES ASSUME Inv, [NextServer]_serverVars PROVE Inv'
  OBVIOUS
<1>0. /\ issued \in Nat /\ opened \in Nat /\ hash \in Hashes
      /\ Sound(db, hash, status, issued, opened)
  BY ServerAssumption DEF Inv, AccountOK
<1>1. ASSUME NEW i \in Installations, VerifyPassword(i) PROVE Inv'
  BY <1>1 DEF VerifyPassword, Inv, AccountOK
<1>2. ASSUME NEW i \in Installations, Rehash(i) PROVE Inv'
  <2>1. hash' \in Hashes /\ hash'.password = hash.password
    BY <1>0, <1>2 DEF Rehash, Hashes
  <2>2. UNCHANGED <<status, db, issued, opened>>
    BY <1>2 DEF Rehash
  <2>3. logins' \in [Installations -> Hashes \cup {NoProof}]
    BY <1>2, <2>1 DEF Rehash, Inv, AccountOK
  <2>4. Sound(db, hash', status, issued, opened)
    BY <1>0, <2>1 DEF Sound, Sane, Proved
  <2> QED
    BY <2>1, <2>2, <2>3, <2>4 DEF Inv, AccountOK
<1>3. ASSUME NEW i \in Installations, RefuseLogin(i) PROVE Inv'
  BY <1>3 DEF RefuseLogin, Inv, AccountOK
<1>4. ASSUME NEW i \in Installations, NEW gone \in SUBSET Sessions, OpenSession(i, gone)
      PROVE  Inv'
  BY <1>4, OpenSessionKeeps
<1>5. ASSUME NEW i \in Installations, NEW n \in Pairs, NEW req \in RequestIds,
             NEW gone \in SUBSET Sessions, Rotate(n, i, req, gone)
      PROVE  Inv'
  BY <1>5, RotateKeeps
<1>6. ASSUME NEW n \in Pairs, LogoutAt(n) PROVE Inv'
  <2>1. /\ db' = Revoke(db, {db.access[n].session}, "revoked")
        /\ UNCHANGED <<hash, status, logins, issued, opened>>
    BY <1>6 DEF LogoutAt
  <2>2. Fewer(db, db') /\ Answers(db')
    BY <1>0, <2>1, RevokeEnds DEF Sound, Sane
  <2>3. Sound(db', hash, status, issued, opened)
    BY <1>0, <2>2, FewerStaysSane DEF Sound
  <2> QED
    BY <2>1, <2>3 DEF Inv, AccountOK
<1>7. CASE ResetPassword
  <2> DEFINE d == Revoke(db, Sessions, "revoked")
  <2>1. /\ hash.password < MaxPassword
        /\ hash' = [password |-> hash.password + 1, dated |-> FALSE]
        /\ db' = DropTokens(d, Sessions)
        /\ UNCHANGED <<status, logins, issued, opened>>
    BY <1>7 DEF ResetPassword
  <2>2. hash' \in Hashes
    BY <1>0, <2>1, ServerAssumption DEF Hashes, Passwords
  <2>3. Sound(d, hash', status, issued, opened)
    BY <1>0, RevokeAllKeeps
  <2> HIDE DEF d
  <2>4. Fewer(d, db') /\ Answers(db')
    BY <2>1, <2>3, DropKeeps DEF Sound, Sane
  <2>5. Sound(db', hash', status, issued, opened)
    BY <1>0, <2>3, <2>4, FewerStaysSane DEF Sound
  <2> QED
    BY <2>1, <2>2, <2>5 DEF Inv, AccountOK
<1>8. ASSUME NEW to \in {"active", "suspended", "deleting"}, SetStatus(to) PROVE Inv'
  <2>1. /\ status' = to
        /\ db' = IF to = "active" THEN db ELSE Revoke(db, Sessions, "revoked")
        /\ UNCHANGED <<hash, logins, issued, opened>>
    BY <1>8 DEF SetStatus
  <2>2. CASE to = "active"
    <3>1. Sound(db, hash, to, issued, opened)
      BY <1>0, <2>2 DEF Sound, Sane, Proved
    <3> QED
      BY <2>1, <2>2, <3>1 DEF Inv, AccountOK
  <2>3. CASE to # "active"
    <3>1. Sound(db', hash, to, issued, opened)
      BY <1>0, <2>1, <2>3, RevokeAllKeeps
    <3> QED
      BY <2>1, <3>1 DEF Inv, AccountOK
  <2> QED
    BY <2>2, <2>3
<1>9. CASE Lapse
  <2>1. PICK S, R, A : Late(S, R, A)
    BY <1>9 DEF Lapse
  <2>2. UNCHANGED <<hash, status, logins, issued, opened>>
    BY <1>9 DEF Lapse
  <2>3. Sound(db', hash, status, issued, opened)
    BY <1>0, <2>1, OutdatedKeeps DEF Late
  <2> QED
    BY <2>2, <2>3 DEF Inv, AccountOK
<1>10. CASE UNCHANGED serverVars
  BY <1>10 DEF serverVars, Inv, AccountOK
<1> QED
  BY <1>1, <1>2, <1>3, <1>4, <1>5, <1>6, <1>7, <1>8, <1>9, <1>10 DEF NextServer

(* So it always is.                                                        *)
LEMMA InvariantHolds == ServerSpec => []Inv
BY ServerInitially, ServerInductive, PTL DEF ServerSpec

-----------------------------------------------------------------------------
(* The tables of the account keep their types.                             *)
THEOREM ServerTyped == ServerSpec => []ServerTypeOK
<1>1. Inv => ServerTypeOK
  BY DEF Inv, AccountOK, Sound, Sane, ServerTypeOK, Databases, Rows, Tokens, Accesses
<1> QED
  BY <1>1, InvariantHolds, PTL

(* Rotation is a chain: rotate_refresh finds the replacement of every      *)
(* consumed refresh token it still knows, and no session has two current   *)
(* tokens, however refreshes, retries, prunings and logins interleave.     *)
THEOREM RotationNeverForks == ServerSpec => []RotationIsAChain
<1>1. Inv => RotationIsAChain
  BY DEF Inv, Sound, Sane, RotationIsAChain, RetriesAnswered, OneCurrent,
         Answers, HasAnswer, Used, Unforked
<1> QED
  BY <1>1, InvariantHolds, PTL

(* No live session was opened with a password the account no longer has,   *)
(* or lives in an account that is not active, although the password is     *)
(* verified two transactions before the session is inserted.               *)
THEOREM SessionsAreProved == ServerSpec => []LiveSessionsAreProved
<1>1. Inv => LiveSessionsAreProved
  BY DEF Inv, Sound, Sane, LiveSessionsAreProved, Proved
<1> QED
  BY <1>1, InvariantHolds, PTL

(* prepare_new_session keeps one live session per installation and at most *)
(* MaxActive in all.                                                       *)
THEOREM SessionsAreLimited == ServerSpec => []SessionLimits
<1>1. Inv => SessionLimits
  BY DEF Inv, Sound, Sane, SessionLimits, OnePerInstallation, Within
<1> QED
  BY <1>1, InvariantHolds, PTL

-----------------------------------------------------------------------------
(* One client among the others: what the server's transactions do to the   *)
(* consumed tokens, and that they take no honest client for a thief.       *)

(* No session was ended as a replay.                                       *)
Honest(d) == \A s \in Sessions : d.sessions[s].state # "replayed"

(* A replacement is issued after what it replaces.                         *)
Forward(d) == \A n \in Pairs : Used(d, n) => n < d.refresh[n].next

(* What is consumed in e was so in d, by the same request.                 *)
FewerUsed(d, e) ==
    \A n \in Pairs : Used(e, n) => /\ Used(d, n) /\ e.refresh[n].by = d.refresh[n].by
                                   /\ e.refresh[n].next = d.refresh[n].next

(* e is d after a transaction that answers no refresh.                     *)
Calm(d, e) == FewerUsed(d, e) /\ (Honest(d) => Honest(e))

(* Dropping tokens consumes none.                                          *)
LEMMA FewerIsFewerUsed ==
    ASSUME NEW d \in Databases, NEW e, Fewer(d, e)
    PROVE  FewerUsed(d, e)
<1> SUFFICES ASSUME NEW n \in Pairs, Used(e, n) PROVE e.refresh[n] = d.refresh[n]
  BY DEF FewerUsed, Used
<1> QED
  BY DEF Fewer, Used, NoToken

(* Calm steps compose.                                                     *)
LEMMA CalmTransitive ==
    ASSUME NEW c, NEW d, NEW e, Calm(c, d), Calm(d, e)
    PROVE  Calm(c, e)
BY DEF Calm, FewerUsed

(* A calm step keeps replacements newer.                                   *)
LEMMA CalmIsForward ==
    ASSUME NEW d, NEW e, Calm(d, e), Forward(d)
    PROVE  Forward(e)
BY DEF Calm, FewerUsed, Forward

(* Dropping tokens is calm.                                                *)
LEMMA DropIsCalm ==
    ASSUME NEW d \in Databases, NEW e, Fewer(d, e), e.sessions = d.sessions
    PROVE  Calm(d, e)
BY FewerIsFewerUsed DEF Calm, Honest

(* So is ending sessions for another reason.                               *)
LEMMA RevokeIsCalm ==
    ASSUME NEW d \in Databases, NEW S, NEW e, e = Revoke(d, S, "revoked")
    PROVE  Calm(d, e) /\ e \in Databases
<1>1. Fewer(d, e)
  BY RevokeEnds
<1>2. \A s \in Sessions : e.sessions[s] =
         IF s \in S /\ Live(d, s) THEN [d.sessions[s] EXCEPT !.state = "revoked"]
         ELSE d.sessions[s]
  BY DEF Revoke, Databases
<1>3. ASSUME NEW s \in Sessions, d.sessions[s].state # "replayed"
      PROVE  e.sessions[s].state # "replayed"
  <2>1. CASE s \in S /\ Live(d, s)
    <3>1. d.sessions[s] \in SessionRows
      BY <2>1, RowFields
    <3>2. e.sessions[s] = [d.sessions[s] EXCEPT !.state = "revoked"]
      BY <1>2, <2>1
    <3> QED
      BY <3>1, <3>2 DEF SessionRows
  <2>2. CASE ~(s \in S /\ Live(d, s))
    BY <1>2, <1>3, <2>2
  <2> QED
    BY <2>1, <2>2
<1> QED
  BY <1>1, <1>3, FewerIsFewerUsed DEF Calm, Honest, Fewer

(* So is pruning stale sessions.                                           *)
LEMMA PruneStaleIsCalm ==
    ASSUME NEW d \in Databases, NEW gone, NEW e, e = PruneStale(d, gone)
    PROVE  Calm(d, e)
<1> DEFINE x == ExpireSessions(d)
           y == DropTokens(x, gone)
<1>1. Calm(d, x) /\ x \in Databases
  BY RevokeIsCalm DEF ExpireSessions
<1>2. Calm(x, y) /\ y \in Databases
  BY <1>1, DropKeeps, DropIsCalm DEF Fewer
<1> HIDE DEF x
<1>3. /\ e.refresh = y.refresh
      /\ e.sessions = [s \in Sessions |-> IF s \in gone THEN NoSession ELSE y.sessions[s]]
  <2>1. e = [y EXCEPT !.sessions = [s \in Sessions |->
                                       IF s \in gone THEN NoSession ELSE y.sessions[s]]]
    BY DEF PruneStale, x
  <2> HIDE DEF y
  <2> QED
    BY <1>2, <2>1 DEF Databases
<1> HIDE DEF y
<1>4. Calm(y, e)
  BY <1>3 DEF Calm, FewerUsed, Used, Honest, NoSession
<1> QED
  BY <1>1, <1>2, <1>4, CalmTransitive

(* So is making room for a session.                                        *)
LEMMA MakeRoomIsCalm ==
    ASSUME NEW d \in Databases, NEW i, NEW e, e = MakeRoom(d, i)
    PROVE  Calm(d, e) /\ e \in Databases
<1> DEFINE S == OfInstallation(d, i)
           a == Revoke(d, S, "revoked")
           b == DropTokens(a, S)
           T == Overflow(b)
           c == Revoke(b, T, "revoked")
<1>1. e = DropTokens(c, T)
  BY DEF MakeRoom
<1> HIDE DEF S, T
<1>2. Calm(d, a) /\ a \in Databases
  BY RevokeIsCalm
<1> HIDE DEF a
<1>3. Calm(a, b) /\ b \in Databases
  BY <1>2, DropKeeps, DropIsCalm DEF Fewer
<1> HIDE DEF b
<1>4. Calm(b, c) /\ c \in Databases
  BY <1>3, RevokeIsCalm
<1> HIDE DEF c
<1>5. Calm(c, e) /\ e \in Databases
  BY <1>1, <1>4, DropKeeps, DropIsCalm DEF Fewer
<1>6. Calm(d, b)
  BY <1>2, <1>3, CalmTransitive
<1>7. Calm(d, c)
  BY <1>4, <1>6, CalmTransitive
<1> QED
  BY <1>5, <1>7, CalmTransitive

(* A transaction that answers no refresh takes no one for a thief.         *)
LEMMA OpenSessionIsCalm ==
    ASSUME Inv, NEW i \in Installations, NEW gone \in SUBSET Sessions,
           OpenSession(i, gone)
    PROVE  Calm(db, db') /\ issued' = issued + 1 /\ issued' \in Pairs /\ ~Used(db', issued')
<1> DEFINE s == opened + 1
           n == issued + 1
           a == PruneStale(db, gone)
           b == PruneExpired(a)
           d == MakeRoom(b, i)
           row == [state |-> "live", installation |-> i, last |-> n, late |-> FALSE,
                   password |-> logins[i].password]
           f == [d EXCEPT !.sessions[s] = row]
<1>1. /\ s \in Sessions /\ n \in Pairs /\ gone \subseteq Ended(ExpireSessions(db))
      /\ logins[i] # NoProof /\ db' = Insert(f, s, n) /\ issued' = n
  BY DEF OpenSession
<1>2. db \in Databases /\ Answers(db) /\ logins[i] \in Hashes
  BY <1>1 DEF Inv, AccountOK, Sound, Sane
<1>3. Calm(db, a) /\ a \in Databases /\ Answers(a)
  BY <1>1, <1>2, PruneStaleIsCalm, PruneStaleKeeps DEF Fewer
<1> HIDE DEF a
<1>4. Calm(a, b) /\ b \in Databases
  BY <1>3, PruneExpiredKeeps, DropIsCalm DEF Fewer
<1> HIDE DEF b
<1>5. Calm(b, d) /\ d \in Databases
  BY <1>4, MakeRoomIsCalm
<1> HIDE DEF d
<1>6. row \in SessionRows /\ row.state = "live"
  BY <1>1, <1>2 DEF SessionRows, Hashes
<1> HIDE DEF row
<1>7. /\ f.refresh = d.refresh /\ f.access = d.access
      /\ f.sessions = [d.sessions EXCEPT ![s] = row]
      /\ f = [sessions |-> f.sessions, refresh |-> f.refresh, access |-> f.access]
  BY <1>5 DEF Databases
<1>8. f \in Databases
  BY <1>1, <1>5, <1>6, <1>7 DEF Databases, Rows
<1>9. Calm(d, f)
  BY <1>1, <1>5, <1>6, <1>7 DEF Calm, FewerUsed, Used, Honest, Databases
<1> HIDE DEF f
<1>10. /\ db'.sessions = f.sessions /\ db'.refresh[n] = NewToken(s)
       /\ \A m \in Pairs \ {n} : db'.refresh[m] = f.refresh[m]
  BY <1>1, <1>8, InsertFields
<1>11. ~Used(db', n)
  BY <1>1, <1>10, NewTokenTyped DEF Used
<1> HIDE DEF n, s
<1>12. Calm(f, db')
  BY <1>10, <1>11 DEF Calm, FewerUsed, Used, Honest
<1>13. Calm(db, b) /\ Calm(d, db')
  BY <1>3, <1>4, <1>9, <1>12, CalmTransitive
<1>14. Calm(db, d)
  BY <1>5, <1>13, CalmTransitive
<1>15. Calm(db, db')
  BY <1>13, <1>14, CalmTransitive
<1> QED
  BY <1>1, <1>11, <1>15 DEF n

(* Who asks again with the request that consumed the token is not taken    *)
(* for a thief.                                                            *)
LEMMA VerdictOfHonest ==
    ASSUME NEW d \in Databases, Answers(d), NEW n \in Pairs, NEW i, NEW req,
           Used(d, n) => d.refresh[n].by = req
    PROVE  /\ Verdict(d, n, i, req) # "replayed"
           /\ Verdict(d, n, i, req) = "duplicate" => Used(d, n)
           /\ Verdict(d, n, i, req) = "rotated" => IsCurrent(d, n)
<1>1. ~Used(d, n) => Verdict(d, n, i, req) \notin {"replayed", "duplicate"}
  BY DEF Verdict, Used
<1>2. Used(d, n) => Verdict(d, n, i, req) # "rotated"
  BY DEF Verdict, RetryVerdict, Used
<1>3. d.refresh[n].state = "none" => Verdict(d, n, i, req) # "rotated"
  BY DEF Verdict
<1>4. ASSUME Used(d, n)
      PROVE  Verdict(d, n, i, req) # "replayed"
  <2>1. d.refresh[n].by = req
    BY <1>4
  <2>2. d.refresh[d.refresh[n].next].state = "current"
    BY <1>4 DEF Answers, HasAnswer, IsCurrent
  <2>3. RetryVerdict(d, n, req) # "replayed"
    BY <2>1, <2>2 DEF RetryVerdict
  <2> QED
    BY <2>3 DEF Verdict
<1>5. d.refresh[n].state \in {"none", "current", "used"}
  BY TokenFields
<1> DEFINE verdict == Verdict(d, n, i, req)
<1> HIDE DEF verdict
<1>6. /\ ~Used(d, n) => verdict \notin {"replayed", "duplicate"}
      /\ Used(d, n) => verdict \notin {"rotated", "replayed"}
      /\ d.refresh[n].state = "none" => verdict # "rotated"
  BY <1>1, <1>2, <1>3, <1>4 DEF verdict
<1>7. /\ verdict # "replayed"
      /\ verdict = "duplicate" => Used(d, n)
      /\ verdict = "rotated" => IsCurrent(d, n)
  BY <1>5, <1>6 DEF Used, IsCurrent
<1> QED
  BY <1>7 DEF verdict

(* What is consumed in e was so in d, or is n, consumed by req.            *)
ConsumedBy(d, e, n, req) ==
    \A m \in Pairs : Used(e, m) =>
        \/ Used(d, m) /\ e.refresh[m].by = d.refresh[m].by
        \/ m = n /\ e.refresh[m].by = req

(* In particular it consumes no token.                                     *)
LEMMA CalmConsumes ==
    ASSUME NEW d, NEW e, Calm(d, e), NEW n, NEW req
    PROVE  ConsumedBy(d, e, n, req)
<1>1. ASSUME NEW m \in Pairs, Used(e, m)
      PROVE  Used(d, m) /\ e.refresh[m].by = d.refresh[m].by
  BY <1>1 DEF Calm, FewerUsed
<1> QED
  BY <1>1 DEF ConsumedBy

(* Pruning tokens is calm.                                                 *)
LEMMA ThinIsCalm ==
    ASSUME NEW d \in Databases, NEW K, NEW A, NEW e, e = Thin(d, K, A)
    PROVE  Calm(d, e) /\ e \in Databases
<1>1. Fewer(d, e) /\ e.sessions = d.sessions
  BY Thinned
<1> QED
  BY <1>1, DropIsCalm DEF Fewer

(* So is pruning expired tokens,                                           *)
LEMMA PruneExpiredIsCalm ==
    ASSUME NEW d \in Databases, NEW e, e = PruneExpired(d)
    PROVE  Calm(d, e) /\ e \in Databases
<1> DEFINE K == {n \in Pairs : IsFresh(d, n) \/ Retryable(d, n)}
           A == {n \in Pairs : ~(/\ d.access[n].state = "current" /\ d.access[n].late
                                 /\ ~\E p \in Pairs : Retryable(d, p)
                                                      /\ d.refresh[p].next = n)}
<1>1. e = Thin(d, K, A)
  BY DEF PruneExpired, Thin
<1> HIDE DEF K, A
<1> QED
  BY <1>1, ThinIsCalm

(* and those of a session that are superseded.                             *)
LEMMA PruneFamilyIsCalm ==
    ASSUME NEW d \in Databases, NEW s, NEW e, e = PruneFamily(d, s)
    PROVE  Calm(d, e) /\ e \in Databases
<1> DEFINE K == {n \in Pairs : \/ d.refresh[n].session # s
                               \/ n \in CurrentOf(d, s) \cup ParentsOf(d, s)}
           A == {n \in Pairs : d.access[n].session # s \/ n \in KeptAccess(d, s)}
<1>1. e = Thin(d, K, A)
  BY DEF PruneFamily, Thin
<1> HIDE DEF K, A
<1> QED
  BY <1>1, ThinIsCalm

(* The rotation itself.                                                    *)
LEMMA RotatedHonest ==
    ASSUME NEW d \in Databases, Honest(d), Forward(d),
           NEW n \in Pairs, NEW s, s = d.refresh[n].session, IsCurrent(d, n), Live(d, s),
           NEW req \in RequestIds, NEW next \in Pairs, n < next,
           NEW c, c = Consume(d, n, req, next),
           NEW e, e = PruneExpired(PruneFamily(c, s))
    PROVE  Honest(e) /\ Forward(e) /\ ConsumedBy(d, e, n, req) /\ ~Used(e, next)
<1>1. /\ c \in Databases /\ s \in Sessions
      /\ c.refresh[n].next = next /\ c.refresh[n].by = req
      /\ c.refresh[next] = NewToken(s)
      /\ \A m \in Pairs \ {n, next} : c.refresh[m] = d.refresh[m]
      /\ c.sessions[s] = [d.sessions[s] EXCEPT !.last = next]
      /\ \A r \in Sessions \ {s} : c.sessions[r] = d.sessions[r]
  <2>1. next # n
    BY DEF Pairs
  <2>2. /\ c \in Databases /\ s \in Sessions
        /\ Used(c, n) /\ c.refresh[n].session = s /\ c.refresh[n].next = next
        /\ c.refresh[n].by = req
        /\ c.refresh[next] = NewToken(s) /\ c.access[next] = NewToken(s)
        /\ c.access[n] = d.access[n]
        /\ \A m \in Pairs \ {n, next} : /\ c.refresh[m] = d.refresh[m]
                                        /\ c.access[m] = d.access[m]
        /\ c.sessions[s] = [d.sessions[s] EXCEPT !.last = next]
        /\ c.sessions[s] \in SessionRows
        /\ \A r \in Sessions \ {s} : c.sessions[r] = d.sessions[r]
    BY <2>1, ConsumeFields, SMTT(30)
  <2> QED
    BY <2>2
<1>2. Honest(c)
  <2>1. d.sessions[s] \in SessionRows
    BY <1>1, RowFields
  <2>2. c.sessions[s].state = d.sessions[s].state
    BY <1>1, <2>1 DEF SessionRows
  <2> QED
    BY <1>1, <2>2 DEF Honest
<1>3. ~Used(c, next)
  BY <1>1, NewTokenTyped DEF Used
<1>4. ASSUME NEW m \in Pairs, Used(c, m), m # n
      PROVE  Used(d, m) /\ c.refresh[m] = d.refresh[m]
  BY <1>1, <1>3, <1>4 DEF Used
<1>5. Forward(c)
  BY <1>1, <1>4 DEF Forward
<1>6. ConsumedBy(d, c, n, req)
  BY <1>1, <1>4 DEF ConsumedBy
<1> DEFINE f == PruneFamily(c, s)
<1>7. Calm(c, f) /\ f \in Databases
  BY <1>1, PruneFamilyIsCalm
<1> HIDE DEF f
<1>8. Calm(f, e)
  BY <1>7, PruneExpiredIsCalm DEF f
<1>9. Calm(c, e)
  BY <1>7, <1>8, CalmTransitive
<1>10. Forward(e)
  BY <1>5, <1>9, CalmIsForward
<1> QED
  BY <1>2, <1>3, <1>6, <1>9, <1>10 DEF Calm, FewerUsed, ConsumedBy

(* A refresh, or the retry of one, by who consumed the token.              *)
LEMMA RotateHonest ==
    ASSUME Inv, Honest(db), Forward(db),
           NEW n \in Pairs, NEW i \in Installations, NEW req \in RequestIds,
           NEW gone \in SUBSET Sessions, Rotate(n, i, req, gone),
           Used(db, n) => db.refresh[n].by = req,
           NEW d, d = PruneStale(db, gone),
           NEW pair, pair = Answered(d, n, Verdict(d, n, i, req))
    PROVE  /\ Honest(db') /\ Forward(db') /\ ConsumedBy(db, db', n, req)
           /\ pair # 0 => /\ pair \in Pairs /\ n < pair /\ pair <= issued'
                          /\ ~Used(db', pair)
<1> DEFINE s == d.refresh[n].session
           verdict == Verdict(d, n, i, req)
<1>1. /\ gone \subseteq Ended(ExpireSessions(db))
      /\ verdict = "rotated" => issued + 1 \in Pairs
      /\ db' = IF verdict = "error" THEN db ELSE Written(d, n, req, verdict)
      /\ issued' = IF verdict = "rotated" THEN issued + 1 ELSE issued
      /\ pair = CASE verdict = "rotated"   -> issued + 1
                   [] verdict = "duplicate" -> d.refresh[n].next
                   [] OTHER -> 0
  BY DEF Rotate, Answered
<1>2. /\ db \in Databases /\ issued \in Nat /\ issued <= MaxPairs
      /\ Sound(d, hash, status, issued, opened)
  BY <1>1, PrunedSound, ServerAssumption DEF Inv, AccountOK, Sound, Sane
<1>3. d \in Databases /\ Answers(d) /\ Numbered(d, issued, opened)
  BY <1>2 DEF Sound, Sane
<1>4. Calm(db, d)
  BY <1>2, PruneStaleIsCalm
<1>5. Honest(d) /\ Forward(d) /\ ConsumedBy(db, d, n, req)
  BY <1>4, CalmIsForward, CalmConsumes DEF Calm
<1>6. Used(d, n) => d.refresh[n].by = req
  BY <1>4 DEF Calm, FewerUsed
<1>7. /\ verdict # "replayed"
      /\ verdict = "duplicate" => Used(d, n)
      /\ verdict = "rotated" => IsCurrent(d, n)
  BY <1>3, <1>6, VerdictOfHonest
<1>8. verdict = "rotated" => Live(d, s)
  BY DEF Verdict, RetryVerdict, Live
<1> HIDE DEF verdict
<1>9. \A m \in Pairs : m \in Nat
  BY DEF Pairs
<1>10. ASSUME Calm(d, db') PROVE Honest(db') /\ Forward(db') /\ ConsumedBy(db, db', n, req)
  <2>1. Calm(db, db')
    BY <1>4, <1>10, CalmTransitive
  <2> QED
    BY <1>5, <1>10, <2>1, CalmIsForward, CalmConsumes DEF Calm
<1>11. CASE verdict = "rotated"
  <2> DEFINE next == issued + 1
             c == Consume(d, n, req, next)
  <2>1. next \in Pairs /\ d.refresh[next] = NoToken /\ issued' = next /\ pair = next
    BY <1>1, <1>2, <1>3, <1>11 DEF Numbered
  <2>2. n < next
    <3>1. d.refresh[n] # NoToken
      BY <1>7, <1>11 DEF IsCurrent, NoToken
    <3>2. ~(n > issued)
      BY <1>3, <3>1 DEF Numbered
    <3> QED
      BY <1>2, <1>9, <3>2
  <2>3. db' = PruneExpired(PruneFamily(c, s))
    BY <1>1, <1>11 DEF Written
  <2>4. IsCurrent(d, n) /\ Live(d, s)
    BY <1>7, <1>8, <1>11
  <2>5. s = d.refresh[n].session
    OBVIOUS
  <2>6. c = Consume(d, n, req, next)
    OBVIOUS
  <2> HIDE DEF c, s, next
  <2>7. Honest(db') /\ Forward(db') /\ ConsumedBy(d, db', n, req) /\ ~Used(db', next)
    BY <1>3, <1>5, <2>1, <2>2, <2>3, <2>4, <2>5, <2>6, RotatedHonest
  <2>8. ConsumedBy(db, db', n, req)
    BY <1>4, <2>7 DEF ConsumedBy, Calm, FewerUsed
  <2>9. next <= issued'
    BY <1>9, <2>1
  <2> QED
    BY <2>1, <2>2, <2>7, <2>8, <2>9
<1>12. CASE verdict = "duplicate"
  <2>1. db' = d /\ issued' = issued /\ pair = d.refresh[n].next
    BY <1>1, <1>12 DEF Written
  <2>2. Used(d, n) /\ pair \in Pairs /\ n < pair
    BY <1>3, <1>5, <1>7, <1>12, <2>1, TokenFields DEF Forward
  <2>3. IsCurrent(d, pair)
    BY <1>3, <2>1, <2>2 DEF Answers, HasAnswer
  <2>4. ~Used(d, pair) /\ d.refresh[pair] # NoToken
    BY <2>3 DEF IsCurrent, Used, NoToken
  <2>5. pair <= issued
    BY <1>2, <1>3, <1>9, <2>2, <2>4 DEF Numbered
  <2> QED
    BY <1>5, <2>1, <2>2, <2>4, <2>5
<1>13. CASE verdict \notin {"rotated", "duplicate"}
  <2>1. pair = 0
    BY <1>1, <1>13
  <2>2. CASE verdict = "error"
    <3>1. db' = db
      BY <1>1, <2>2
    <3>2. ConsumedBy(db, db', n, req)
      BY <3>1 DEF ConsumedBy
    <3> QED
      BY <2>1, <3>1, <3>2
  <2>3. CASE verdict = "invalid"
    <3>1. db' = PruneExpired(d)
      BY <1>1, <2>3 DEF Written
    <3> QED
      BY <1>3, <1>10, <2>1, <3>1, PruneExpiredIsCalm
  <2>4. CASE verdict = "lapsed"
    <3> DEFINE f == PruneFamily(d, s)
    <3>1. db' = PruneExpired(f)
      BY <1>1, <2>4 DEF Written
    <3>2. Calm(d, f) /\ f \in Databases
      BY <1>3, PruneFamilyIsCalm
    <3> HIDE DEF f
    <3>3. Calm(f, db')
      BY <3>1, <3>2, PruneExpiredIsCalm
    <3>4. Calm(d, db')
      BY <3>2, <3>3, CalmTransitive
    <3> QED
      BY <1>10, <2>1, <3>4
  <2>5. CASE verdict \notin {"error", "invalid", "lapsed"}
    <3>1. db' = d
      BY <1>1, <1>7, <1>13, <2>5 DEF Written
    <3> QED
      BY <1>5, <2>1, <3>1
  <2> QED
    BY <2>2, <2>3, <2>4, <2>5
<1> QED
  BY <1>11, <1>12, <1>13

(* The clock consumes nothing.                                             *)
LEMMA OutdatedIsCalm ==
    ASSUME NEW d \in Databases, NEW S, NEW R, NEW A,
           NEW e, e = [sessions |-> Outdated(d.sessions, S),
                       refresh |-> Outdated(d.refresh, R),
                       access |-> Outdated(d.access, A)]
    PROVE  Calm(d, e)
<1>1. /\ e.sessions = [s \in Sessions |->
                          IF s \in S /\ d.sessions[s].state # "none"
                          THEN [d.sessions[s] EXCEPT !.late = TRUE] ELSE d.sessions[s]]
      /\ e.refresh = [n \in Pairs |->
                          IF n \in R /\ d.refresh[n].state # "none"
                          THEN [d.refresh[n] EXCEPT !.late = TRUE] ELSE d.refresh[n]]
  BY DEF Outdated, Databases
<1>2. ASSUME NEW s \in Sessions
      PROVE  e.sessions[s].state = d.sessions[s].state
  <2>1. CASE s \in S /\ d.sessions[s].state # "none"
    <3>1. d.sessions[s] \in SessionRows
      BY <2>1, RowFields DEF NoSession
    <3>2. e.sessions[s] = [d.sessions[s] EXCEPT !.late = TRUE]
      BY <1>1, <2>1
    <3> QED
      BY <3>1, <3>2 DEF SessionRows
  <2>2. CASE ~(s \in S /\ d.sessions[s].state # "none")
    BY <1>1, <2>2
  <2> QED
    BY <2>1, <2>2
<1>3. ASSUME NEW t \in Tokens, t.state # "none", NEW u, u = [t EXCEPT !.late = TRUE]
      PROVE  u.state = t.state /\ (t.state = "used" => u.next = t.next /\ u.by = t.by)
  <2>1. CASE t \in CurrentTokens
    BY <1>3, <2>1 DEF CurrentTokens
  <2>2. CASE t \in UsedTokens
    BY <1>3, <2>2 DEF UsedTokens
  <2>3. CASE t = NoToken
    BY <1>3, <2>3 DEF NoToken
  <2> QED
    BY <2>1, <2>2, <2>3 DEF Tokens
<1>4. ASSUME NEW n \in Pairs, Used(e, n)
      PROVE  /\ Used(d, n) /\ e.refresh[n].by = d.refresh[n].by
             /\ e.refresh[n].next = d.refresh[n].next
  <2>1. d.refresh[n] \in Tokens
    BY TokenFields
  <2>2. CASE n \in R /\ d.refresh[n].state # "none"
    <3>1. e.refresh[n] = [d.refresh[n] EXCEPT !.late = TRUE]
      BY <1>1, <2>2
    <3>2. /\ e.refresh[n].state = d.refresh[n].state
          /\ d.refresh[n].state = "used" => /\ e.refresh[n].next = d.refresh[n].next
                                            /\ e.refresh[n].by = d.refresh[n].by
      BY <1>3, <2>1, <2>2, <3>1
    <3> QED
      BY <1>4, <3>2 DEF Used
  <2>3. CASE ~(n \in R /\ d.refresh[n].state # "none")
    BY <1>1, <1>4, <2>3 DEF Used
  <2> QED
    BY <2>2, <2>3
<1> QED
  BY <1>2, <1>4 DEF Calm, FewerUsed, Honest

(* So nothing does that makes time pass.                                   *)
LEMMA LapseIsCalm ==
    ASSUME Inv, Lapse
    PROVE  Calm(db, db') /\ issued' = issued
<1>1. PICK S, R, A : Late(S, R, A)
  BY DEF Lapse
<1>2. issued' = issued
  BY DEF Lapse
<1> QED
  BY <1>1, <1>2, OutdatedIsCalm DEF Late, Inv, Sound, Sane

(* Resetting the password is calm.                                         *)
LEMMA ResetIsCalm ==
    ASSUME Inv, ResetPassword
    PROVE  Calm(db, db') /\ issued' = issued
<1> DEFINE d == Revoke(db, Sessions, "revoked")
<1>1. db' = DropTokens(d, Sessions) /\ issued' = issued
  BY DEF ResetPassword
<1>2. Calm(db, d) /\ d \in Databases
  BY RevokeIsCalm DEF Inv, Sound, Sane
<1> HIDE DEF d
<1>3. Calm(d, db')
  BY <1>1, <1>2, DropKeeps, DropIsCalm DEF Fewer
<1> QED
  BY <1>1, <1>2, <1>3, CalmTransitive

(* So is revoking one session.                                             *)
LEMMA LogoutIsCalm ==
    ASSUME Inv, NEW n, LogoutAt(n)
    PROVE  Calm(db, db') /\ issued' = issued
BY RevokeIsCalm DEF LogoutAt, Inv, Sound, Sane

(* And so is doing nothing.                                                *)
LEMMA NothingIsCalm ==
    ASSUME NEW d
    PROVE  Calm(d, d)
BY DEF Calm, FewerUsed

-----------------------------------------------------------------------------
(***************************************************************************)
(* The client.  A refresh it sent is on its way as long as it waits for    *)
(* the answer, or for good when it gave it up; a consumed token remembers  *)
(* the refresh that consumed it.                                           *)
(***************************************************************************)
Sent == stray \cup (IF task.pc = "wait" THEN {Credential(task.token, task.req)} ELSE {})
ConsumedIn(d) == {Credential(n, d.refresh[n].by) : n \in {m \in Pairs : Used(d, m)}}
Known == Sent \cup ConsumedIn(db)

IsCredential(c) ==
    /\ c = Credential(c.token, c.req)
    /\ c.token \in 0..issued /\ c.req \in 0..requests
    /\ c.token = 0 => c.req = 0

IsTask ==
    /\ task.pc \in {"idle", "clear", "login", "mark", "wait", "accept", "bye"}
    /\ task.pc = "idle" => task = Idle
    /\ task.pc = "login" => task = AtLogin
    /\ task.pc \in {"mark", "wait"} => task.token \in 1..issued /\ task.req \in 1..requests
    /\ task.pc \in {"accept", "bye"} => task.pair \in 1..issued

Shapes ==
    /\ requests \in 0..MaxRequests /\ access \in 0..issued
    /\ IsCredential(store) /\ IsCredential(mem) /\ IsTask
    /\ \A r \in stray : IsCredential(r) /\ r.token # 0 /\ r.req # 0
    /\ gate \in {"restoring", "signedOut", "submitting", "signedIn", "leaving"}
    /\ out \in {"no", "wait", "own", "clear", "revoke"}

(* What runs when.                                                         *)
Course ==
    /\ gate = "leaving" <=> out # "no"
    /\ gate = "submitting" => task.pc \in {"login", "accept"}
    /\ task.pc = "login" => gate = "submitting"
    /\ gate = "signedOut" \/ out = "clear" => task.pc = "idle"
    /\ out = "revoke" <=> task.pc = "bye"
    /\ gate \in {"signedOut", "submitting"} \/ out = "revoke" => mem.token = 0
    /\ gate = "restoring" => (mem.token = 0 <=> task.pc = "idle")
    /\ gate = "signedIn" => mem.token # 0

(* Nobody puts credentials back.                                           *)
Gone ==
    /\ left \/ out = "revoke" => store.token = 0 /\ mem.token = 0 /\ access = 0
    /\ left => gate \in {"signedOut", "restoring"} /\ task.pc = "idle"

(* One request for one token: the one marked beside the token, wherever    *)
(* that is still held.                                                     *)
OneRequest == \A c, d \in Known : c.token = d.token => c.req = d.req
Marked ==
    \A c \in Known : /\ c.token # 0 /\ c.req # 0
                     /\ c.token = mem.token => c.req = mem.req
                     /\ c.token = store.token => c.req = store.req
Same == mem.req # 0 /\ store.token = mem.token => store.req = mem.req

(* Tokens are held and asked about in their order.                         *)
Ascending ==
    /\ store.token # 0 => mem.token <= store.token
    /\ \A r \in stray : /\ mem.token # 0 => r.token <= mem.token
                        /\ store.token # 0 => r.token <= store.token

AtTask ==
    /\ task.pc = "mark" => mem.token = task.token /\ mem.req = 0
    /\ task.pc = "wait" => mem.token = task.token /\ mem.req = task.req
    /\ task.pc = "accept" => /\ mem.token < task.pair
                             /\ \A c \in Known : c.token # task.pair
                             /\ \A r \in stray : r.token < task.pair

Requested == OneRequest /\ Marked /\ Same /\ Ascending /\ AtTask

ClientInv == Shapes /\ Course /\ Gone /\ Requested

-----------------------------------------------------------------------------
(* The fields of a stored session, and of a known refresh.                 *)
LEMMA CredentialFields ==
    ASSUME NEW t, NEW r
    PROVE  Credential(t, r).token = t /\ Credential(t, r).req = r
BY DEF Credential

(* Nothing is the one credential without a token.                          *)
LEMMA NothingHeld ==
    ASSUME Shapes
    PROVE  /\ store = Nothing <=> store.token = 0
           /\ mem = Nothing <=> mem.token = 0
           /\ Nothing.token = 0 /\ Nothing.req = 0 /\ Nothing = Credential(0, 0)
           /\ issued \in Nat => store.token \in Nat /\ mem.token \in Nat
<1>1. Nothing.token = 0 /\ Nothing.req = 0 /\ Nothing = Credential(0, 0)
  BY CredentialFields DEF Nothing
<1>2. ASSUME NEW c, IsCredential(c)
      PROVE  c = Nothing <=> c.token = 0
  BY <1>1, <1>2 DEF IsCredential
<1> QED
  BY <1>1, <1>2 DEF Shapes, IsCredential

(* What is consumed calmly was known.                                      *)
LEMMA CalmIsKnown ==
    ASSUME Calm(db, db')
    PROVE  ConsumedIn(db') \subseteq ConsumedIn(db)
BY DEF Calm, FewerUsed, ConsumedIn

(* A step of the server alone.                                             *)
LEMMA ServerStepKeeps ==
    ASSUME ClientInv, ConsumedIn(db') \subseteq Known,
           UNCHANGED <<store, mem, access, task, gate, out, left, stray, requests>>,
           issued \in Nat, issued' \in Nat, issued <= issued'
    PROVE  ClientInv'
<1>1. Known' \subseteq Known
  BY DEF Known, Sent
<1>2. Shapes'
  <2>1. \A c : IsCredential(c) => IsCredential(c)'
    BY DEF IsCredential
  <2>2. IsTask'
    BY DEF ClientInv, Shapes, IsTask
  <2> QED
    BY <2>1, <2>2 DEF ClientInv, Shapes
<1>3. Course' /\ Gone' /\ Same' /\ Ascending'
  BY DEF ClientInv, Requested, Course, Gone, Same, Ascending
<1>4. OneRequest' /\ Marked'
  BY <1>1 DEF ClientInv, Requested, OneRequest, Marked
<1>5. AtTask'
  BY <1>1 DEF ClientInv, Requested, AtTask
<1> QED
  BY <1>2, <1>3, <1>4, <1>5 DEF ClientInv, Requested

(* A refresh begins with what is held, or is read at the start.            *)
LEMMA BeginKeeps ==
    ASSUME ClientInv, issued \in Nat, task.pc = "idle",
           mem'.token # 0, mem' = mem \/ (mem.token = 0 /\ mem' = store),
           BeginRefresh(mem'), UNCHANGED <<serverVars, store, access, stray>>
    PROVE  /\ IsTask' /\ requests' \in requests..MaxRequests
           /\ task'.pc \in {"clear", "mark", "wait"} /\ Requested'
<1>1. /\ requests \in Nat /\ MaxRequests \in Nat /\ requests <= MaxRequests
      /\ mem'.token \in 1..issued /\ mem'.req \in 0..requests
      /\ mem' = Credential(mem'.token, mem'.req)
  BY ClientAssumption DEF ClientInv, Shapes, IsCredential
<1>2. UNCHANGED <<issued, db>>
  BY DEF serverVars
<1>3. /\ \A c \in Known : c.token # 0 /\ c.req # 0
      /\ \A c \in Known : c.token = mem'.token => c.req = mem'.req
      /\ \A c \in Known : c.token = store.token => c.req = store.req
  BY DEF ClientInv, Requested, Marked
<1>4. /\ store.token # 0 => mem'.token <= store.token
      /\ \A r \in stray : r.token <= mem'.token
      /\ \A r \in stray : store.token # 0 => r.token <= store.token
      /\ mem'.req # 0 /\ store.token = mem'.token => store.req = mem'.req
  BY <1>1 DEF ClientInv, Requested, Ascending, Same
<1>5. Same' /\ Ascending'
  BY <1>4 DEF Same, Ascending
<1>6. CASE task' \in {Clearing, Marking(mem'.token, requests + 1)}
           /\ requests' \in {requests, requests + 1} /\ requests' <= MaxRequests
           /\ (task' = Clearing \/ (mem'.req = 0 /\ requests' = requests + 1))
  <2>1. /\ task'.pc \in {"clear", "mark"}
        /\ task'.pc = "mark" => /\ task'.token = mem'.token /\ mem'.req = 0
                                /\ task'.req = requests'
    BY <1>6 DEF Clearing, Marking
  <2>2. Known' = Known
    BY <1>2, <2>1 DEF Known, Sent
  <2>3. OneRequest' /\ Marked'
    BY <1>3, <2>2 DEF ClientInv, Requested, OneRequest, Marked
  <2>4. IsTask' /\ AtTask'
    <3>1. task'.pc = "mark" => task'.req \in 1..requests'
      BY <1>1, <1>6, <2>1 DEF Clearing
    <3> QED
      BY <1>1, <1>2, <2>1, <3>1 DEF IsTask, AtTask
  <2> QED
    BY <1>1, <1>5, <1>6, <2>1, <2>3, <2>4 DEF Requested
<1>7. CASE task' = Waiting(mem'.token, mem'.req) /\ mem'.req # 0 /\ requests' = requests
  <2>1. task'.pc = "wait" /\ task'.token = mem'.token /\ task'.req = mem'.req
    BY <1>7 DEF Waiting
  <2>2. Known' = Known \cup {mem'}
    <3>1. Sent = stray /\ Sent' = stray \cup {mem'}
      BY <1>1, <2>1 DEF Sent
    <3>2. ConsumedIn(db)' = ConsumedIn(db)
      BY <1>2
    <3> QED
      BY <3>1, <3>2 DEF Known
  <2>3. OneRequest' /\ Marked'
    BY <1>1, <1>3, <1>4, <1>7, <2>2 DEF ClientInv, Requested, OneRequest, Marked
  <2>4. IsTask' /\ AtTask'
    BY <1>1, <1>2, <1>7, <2>1 DEF IsTask, AtTask
  <2> QED
    BY <1>1, <1>5, <1>7, <2>1, <2>3, <2>4 DEF Requested
<1> QED
  BY <1>1, <1>6, <1>7 DEF BeginRefresh

(* A refresh, or whatever it was, ends or is given up, and what is held    *)
(* may be cleared.                                                         *)
LEMMA EndKeeps ==
    ASSUME ClientInv, issued \in Nat, Known' \subseteq Known,
           task'.pc \notin {"mark", "wait", "accept"},
           mem' \in {mem, Nothing}, store' \in {store, Nothing},
           \A r \in stray' : r \in stray \/ (task.pc = "wait" /\ r.token = task.token)
    PROVE  Requested'
<1>1. /\ mem.token \in Nat /\ store.token \in Nat
      /\ mem.token = 0 => mem.req = 0
      /\ Nothing.token = 0 /\ Nothing.req = 0
  BY NothingHeld DEF ClientInv, Shapes, IsCredential
<1>2. OneRequest'
  BY DEF ClientInv, Requested, OneRequest
<1>3. Marked'
  BY <1>1 DEF ClientInv, Requested, Marked
<1>4. Same'
  BY <1>1 DEF ClientInv, Requested, Same
<1>5. task.pc = "wait" => mem.token = task.token
  BY DEF ClientInv, Requested, AtTask
<1>6. Ascending'
  BY <1>1, <1>5 DEF ClientInv, Requested, Ascending
<1>7. AtTask'
  BY DEF AtTask
<1> QED
  BY <1>2, <1>3, <1>4, <1>6, <1>7 DEF Requested

(* c is written, and perhaps held, and perhaps asked with.                 *)
LEMMA WriteKeeps ==
    ASSUME ClientInv, issued \in Nat, NEW c, IsCredential(c),
           \A k \in Known : k.token # c.token, \A r \in stray : r.token <= c.token,
           mem.token <= c.token, mem.token = c.token => mem.req = 0,
           store' = c, mem' \in {mem, c, Nothing}, UNCHANGED <<stray, db>>,
           task.pc \in {"mark", "accept"},
           \/ task'.pc = "idle"
           \/ mem' = c /\ c.req # 0 /\ c.token # 0 /\ task' = Waiting(c.token, c.req)
    PROVE  Requested'
<1>1. /\ mem.token \in Nat /\ c.token \in Nat
      /\ Nothing.token = 0 /\ Nothing.req = 0 /\ c = Credential(c.token, c.req)
  BY NothingHeld DEF ClientInv, Shapes, IsCredential
<1>2. Same'
  BY <1>1 DEF ClientInv, Requested, Same
<1>3. Ascending'
  BY <1>1 DEF ClientInv, Requested, Ascending
<1>4. ConsumedIn(db)' = ConsumedIn(db) /\ Sent = stray
  BY DEF Sent
<1>5. CASE task'.pc = "idle"
  <2>1. Known' = Known
    BY <1>4, <1>5 DEF Known, Sent
  <2>2. OneRequest' /\ Marked'
    BY <1>1, <2>1 DEF ClientInv, Requested, OneRequest, Marked
  <2>3. AtTask'
    BY <1>5 DEF AtTask
  <2> QED
    BY <1>2, <1>3, <2>2, <2>3 DEF Requested
<1>6. CASE mem' = c /\ c.req # 0 /\ c.token # 0 /\ task' = Waiting(c.token, c.req)
  <2>1. task'.pc = "wait" /\ task'.token = c.token /\ task'.req = c.req
    BY <1>6 DEF Waiting
  <2>2. Sent' = stray \cup {c}
    BY <1>1, <2>1 DEF Sent
  <2>3. Known' = Known \cup {c}
    BY <1>4, <2>2 DEF Known
  <2>4. OneRequest' /\ Marked'
    BY <1>1, <1>6, <2>3 DEF ClientInv, Requested, OneRequest, Marked
  <2>5. AtTask'
    BY <1>6, <2>1 DEF AtTask
  <2> QED
    BY <1>2, <1>3, <2>4, <2>5 DEF Requested
<1> QED
  BY <1>5, <1>6

Gates == {"restoring", "signedOut", "submitting", "signedIn", "leaving"}
Outs == {"no", "wait", "own", "clear", "revoke"}

(* Where the controller is after a refresh or a login.                     *)
LEMMA FinishKeeps ==
    ASSUME Shapes, Course, Gone, NEW outcome \in {"ok", "failed", "cleared"}, Finish(outcome),
           task.pc \in {"login", "mark", "wait", "accept", "clear"},
           task.pc = "clear" \/ outcome # "cleared",
           gate = "submitting" /\ outcome # "ok" => mem' = mem,
           gate = "submitting" => outcome # "cleared",
           gate \in {"restoring", "signedIn"} => (mem'.token = 0 <=> outcome = "cleared"),
           gate = "submitting" /\ outcome = "ok" => mem'.token # 0,
           UNCHANGED left
    PROVE  /\ Course' /\ Gone' /\ task'.pc = "idle" /\ task' = Idle /\ IsTask'
           /\ gate' \in Gates /\ out' \in Outs
<1>0. gate \in Gates /\ out \in Outs
  BY DEF Shapes, Gates, Outs
<1>1. task' = Idle /\ task'.pc = "idle" /\ IsTask'
  BY DEF Finish, Idle, IsTask
<1>2. ~left /\ out \notin {"revoke", "clear"} /\ gate # "signedOut"
  BY DEF Course, Gone
<1>3. out' = IF out = "own" THEN "clear" ELSE out
  BY DEF Finish
<1>4. CASE gate = "restoring"
  <2>1. gate' = IF outcome = "cleared" THEN "signedOut" ELSE "signedIn"
    BY <1>4 DEF Finish, GateAfter
  <2> QED
    BY <1>0, <1>1, <1>2, <1>3, <1>4, <2>1 DEF Course, Gone, Gates, Outs
<1>5. CASE gate = "submitting"
  <2>1. gate' = IF outcome = "ok" THEN "signedIn" ELSE "signedOut"
    BY <1>5 DEF Finish, GateAfter
  <2> QED
    BY <1>0, <1>1, <1>2, <1>3, <1>5, <2>1 DEF Course, Gone, Gates, Outs
<1>6. CASE gate = "signedIn"
  <2>1. gate' = IF outcome = "cleared" THEN "signedOut" ELSE "signedIn"
    BY <1>6 DEF Finish, GateAfter
  <2> QED
    BY <1>0, <1>1, <1>2, <1>3, <1>6, <2>1 DEF Course, Gone, Gates, Outs
<1>7. CASE gate \notin {"restoring", "submitting", "signedIn"}
  <2>1. gate' = gate
    BY <1>7 DEF Finish, GateAfter
  <2> QED
    BY <1>0, <1>1, <1>2, <1>3, <1>7, <2>1 DEF Course, Gone, Gates, Outs
<1> QED
  BY <1>4, <1>5, <1>6, <1>7

(* A credential stays one while the counters grow.                         *)
LEMMA CredentialStays ==
    ASSUME NEW c, IsCredential(c), issued \in Nat, issued' \in Nat, issued <= issued',
           requests \in Nat, requests' \in Nat, requests <= requests'
    PROVE  IsCredential(c)'
BY DEF IsCredential

(* What a step of the client has to show of the shapes of its state.       *)
LEMMA ShapesKept ==
    ASSUME Shapes, issued \in Nat, issued' \in Nat, issued <= issued',
           requests' \in requests..MaxRequests, access' \in {access, 0} \/ access' \in 0..issued',
           IsTask', store' = store \/ IsCredential(store)',
           mem' = mem \/ mem' = store \/ IsCredential(mem)',
           \A r \in stray' : \/ r \in stray
                             \/ IsCredential(r)' /\ r.token # 0 /\ r.req # 0,
           gate' \in Gates, out' \in Outs
    PROVE  Shapes'
<1>1. /\ requests \in Nat /\ requests' \in Nat /\ requests <= requests'
      /\ requests' \in 0..MaxRequests
  BY ClientAssumption DEF Shapes
<1>2. \A c : IsCredential(c) => IsCredential(c)'
  BY <1>1, CredentialStays
<1>3. IsCredential(store)' /\ IsCredential(mem)'
  BY <1>2 DEF Shapes
<1>4. \A r \in stray' : IsCredential(r)' /\ r.token # 0 /\ r.req # 0
  BY <1>2 DEF Shapes
<1>5. access' \in 0..issued'
  BY DEF Shapes
<1> QED
  BY <1>1, <1>3, <1>4, <1>5 DEF Shapes, Gates, Outs

(* accessToken() keeps the invariant,                                      *)
LEMMA AskKeeps ==
    ASSUME ClientInv, issued \in Nat, AskToken
    PROVE  ClientInv'
<1>1. /\ gate = "signedIn" /\ task = Idle /\ mem # Nothing /\ BeginRefresh(mem)
      /\ UNCHANGED <<serverVars, store, mem, access, gate, out, left, stray>>
  BY DEF AskToken, Busy
<1>2. task.pc = "idle" /\ mem'.token # 0 /\ mem' = mem /\ BeginRefresh(mem')
  BY <1>1, NothingHeld DEF Idle, ClientInv
<1>3. /\ IsTask' /\ requests' \in requests..MaxRequests
      /\ task'.pc \in {"clear", "mark", "wait"} /\ Requested'
  BY <1>1, <1>2, BeginKeeps
<1>4. Shapes'
  <2>1. issued' = issued
    BY <1>1 DEF serverVars
  <2> QED
    BY <1>1, <1>3, <2>1, ShapesKept DEF ClientInv, Shapes, Gates, Outs
<1>5. Course' /\ Gone'
  BY <1>1, <1>2, <1>3 DEF ClientInv, Course, Gone
<1> QED
  BY <1>3, <1>4, <1>5 DEF ClientInv

(* so does marking the request, whether or not the write succeeds,         *)
LEMMA MarkKeeps ==
    ASSUME ClientInv, issued \in Nat, Mark
    PROVE  ClientInv'
<1> DEFINE c == Credential(task.token, task.req)
<1>1. /\ task.pc = "mark"
      /\ \/ store' = c /\ mem' = c /\ task' = Waiting(task.token, task.req)
            /\ UNCHANGED <<gate, out>>
         \/ store' \in {store, c} /\ UNCHANGED mem /\ Finish("failed")
      /\ UNCHANGED <<serverVars, access, left, stray, requests>>
  BY DEF Mark
<1>2. c.token = task.token /\ c.req = task.req
  BY CredentialFields
<1>3. /\ task.token \in 1..issued /\ task.req \in 1..requests
      /\ requests \in 0..MaxRequests /\ MaxRequests \in Nat
      /\ mem.token = task.token /\ mem.req = 0
  BY <1>1, ClientAssumption DEF ClientInv, Shapes, IsTask, Requested, AtTask
<1>4. IsCredential(c) /\ c = Credential(c.token, c.req)
  BY <1>2, <1>3 DEF IsCredential
<1>5. \A k \in Known : k.token # c.token
  BY <1>2, <1>3 DEF ClientInv, Requested, Marked
<1>6. \A r \in stray : r.token <= c.token
  BY <1>2, <1>3 DEF ClientInv, Requested, Ascending
<1>7. issued' = issued /\ db' = db /\ UNCHANGED <<stray, requests, access, left>>
  BY <1>1 DEF serverVars
<1> HIDE DEF c
<1>8. mem.token <= c.token /\ c.token # 0 /\ c.req # 0
  BY <1>2, <1>3
<1>9. CASE store' = c /\ mem' = c /\ task' = Waiting(task.token, task.req)
           /\ UNCHANGED <<gate, out>>
  <2>1. task'.pc = "wait" /\ task'.token = task.token /\ task'.req = task.req
    BY <1>9 DEF Waiting
  <2>2. Requested'
    BY <1>1, <1>2, <1>3, <1>4, <1>5, <1>6, <1>7, <1>8, <1>9, WriteKeeps
  <2>3. IsTask'
    BY <1>3, <1>7, <2>1 DEF IsTask
  <2>4. Shapes'
    BY <1>3, <1>4, <1>7, <1>9, <2>3, ShapesKept, CredentialStays
       DEF ClientInv, Shapes, Gates, Outs
  <2>5. Course' /\ Gone'
    BY <1>1, <1>7, <1>8, <1>9, <2>1 DEF ClientInv, Course, Gone
  <2> QED
    BY <2>2, <2>4, <2>5 DEF ClientInv
<1>10. CASE store' \in {store, c} /\ UNCHANGED mem /\ Finish("failed")
  <2>1. gate # "submitting"
    BY <1>1 DEF ClientInv, Course
  <2>2. mem'.token # 0
    BY <1>3, <1>10
  <2>3. /\ Course' /\ Gone' /\ task'.pc = "idle" /\ task' = Idle /\ IsTask'
        /\ gate' \in Gates /\ out' \in Outs
    BY <1>1, <1>7, <1>10, <2>1, <2>2, FinishKeeps DEF ClientInv
  <2>4. Shapes'
    BY <1>3, <1>4, <1>7, <1>10, <2>3, ShapesKept, CredentialStays DEF ClientInv, Shapes
  <2>5. CASE store' = c
    <3>1. Requested'
      BY <1>1, <1>2, <1>3, <1>4, <1>5, <1>6, <1>7, <1>8, <1>10, <2>3, <2>5, WriteKeeps
    <3> QED
      BY <2>3, <2>4, <3>1 DEF ClientInv
  <2>6. CASE store' = store
    <3>1. Known' = Known
      BY <1>1, <1>7, <2>3 DEF Known, Sent
    <3>2. Requested'
      BY <1>7, <1>10, <2>3, <2>6, <3>1, EndKeeps
    <3> QED
      BY <2>3, <2>4, <3>2 DEF ClientInv
  <2> QED
    BY <1>10, <2>5, <2>6
<1> QED
  BY <1>1, <1>9, <1>10 DEF c

(* A refresh or a login that ends without a session.                       *)
LEMMA EndedKeeps ==
    ASSUME ClientInv, issued \in Nat, issued' \in Nat, issued <= issued',
           NEW outcome \in {"failed", "cleared"}, Finish(outcome),
           task.pc \in {"login", "mark", "wait", "accept", "clear"},
           outcome = "cleared" => task.pc = "clear" /\ mem' = Nothing,
           outcome = "failed" => mem' = mem,
           store' \in {store, Nothing}, access' \in {access, 0},
           UNCHANGED <<left, requests>>, Known' \subseteq Known,
           \A r \in stray' : \/ r \in stray
                             \/ task.pc = "wait" /\ r = Credential(task.token, task.req)
    PROVE  ClientInv'
<1>1. /\ Nothing.token = 0 /\ Nothing.req = 0 /\ Nothing = Credential(0, 0)
      /\ requests \in 0..MaxRequests /\ MaxRequests \in Nat /\ requests' = requests
  BY NothingHeld, ClientAssumption DEF ClientInv, Shapes
<1>2. IsCredential(Nothing)'
  BY <1>1 DEF IsCredential
<1>3. gate \in {"restoring", "signedIn"} => mem.token # 0
  BY DEF ClientInv, Course
<1>4. gate = "submitting" => task.pc # "clear"
  BY DEF ClientInv, Course
<1>5. /\ Course' /\ Gone' /\ task'.pc = "idle" /\ task' = Idle /\ IsTask'
      /\ gate' \in Gates /\ out' \in Outs
  BY <1>1, <1>3, <1>4, FinishKeeps DEF ClientInv
<1>6. ASSUME task.pc = "wait", NEW r, r = Credential(task.token, task.req)
      PROVE  r.token = task.token /\ IsCredential(r)' /\ r.token # 0 /\ r.req # 0
  <2>1. r.token = task.token /\ r.req = task.req
    BY <1>6, CredentialFields
  <2>2. task.token \in 1..issued /\ task.req \in 1..requests
    BY <1>6 DEF ClientInv, Shapes, IsTask
  <2> QED
    BY <1>1, <1>6, <2>1, <2>2 DEF IsCredential
<1>7. Requested'
  BY <1>5, <1>6, EndKeeps
<1>8. Shapes'
  BY <1>1, <1>2, <1>5, <1>6, ShapesKept DEF ClientInv
<1> QED
  BY <1>5, <1>7, <1>8 DEF ClientInv

(* So do giving up a refresh                                               *)
LEMMA GiveUpKeeps ==
    ASSUME ClientInv, issued \in Nat, GiveUp
    PROVE  ClientInv'
<1>1. /\ task.pc = "wait" /\ Abandon /\ Finish("failed")
      /\ UNCHANGED <<serverVars, store, mem, access, left, requests>>
  BY DEF GiveUp, counters
<1>2. \A r \in stray' : r \in stray \/ r = Credential(task.token, task.req)
  BY <1>1 DEF Abandon
<1>3. issued' = issued /\ ConsumedIn(db)' = ConsumedIn(db)
  BY <1>1 DEF serverVars
<1>4. task'.pc = "idle"
  BY <1>1 DEF Finish, Idle
<1>5. Sent' \subseteq Sent
  BY <1>1, <1>2, <1>4 DEF Sent
<1>6. Known' \subseteq Known
  BY <1>3, <1>5 DEF Known
<1> QED
  BY <1>1, <1>2, <1>3, <1>6, EndedKeeps

(* and clearing a credential.                                              *)
LEMMA ClearKeeps ==
    ASSUME ClientInv, issued \in Nat, Clear
    PROVE  ClientInv'
<1>1. /\ task.pc = "clear"
      /\ \/ store' = Nothing /\ mem' = Nothing /\ access' = 0 /\ Finish("cleared")
         \/ store' \in {store, Nothing} /\ UNCHANGED <<mem, access>> /\ Finish("failed")
      /\ UNCHANGED <<serverVars, left, stray, requests>>
  BY DEF Clear
<1>2. issued' = issued /\ ConsumedIn(db)' = ConsumedIn(db)
  BY <1>1 DEF serverVars
<1>3. task'.pc = "idle"
  BY <1>1 DEF Finish, Idle
<1>4. Known' \subseteq Known
  BY <1>1, <1>2, <1>3 DEF Known, Sent
<1>5. CASE store' = Nothing /\ mem' = Nothing /\ access' = 0 /\ Finish("cleared")
  BY <1>1, <1>2, <1>4, <1>5, EndedKeeps
<1>6. CASE store' \in {store, Nothing} /\ UNCHANGED <<mem, access>> /\ Finish("failed")
  BY <1>1, <1>2, <1>4, <1>6, EndedKeeps
<1> QED
  BY <1>1, <1>5, <1>6

(* A new session is newer than what is held and was asked about by nobody. *)
LEMMA AcceptKeeps ==
    ASSUME ClientInv, issued \in Nat, Accept
    PROVE  ClientInv'
<1>0. PICK c : c = Credential(task.pair, 0)
  OBVIOUS
<1>1. /\ task.pc = "accept"
      /\ \/ store' = c /\ mem' = c /\ access' = task.pair /\ Finish("ok")
         \/ store' \in {store, c} /\ UNCHANGED <<mem, access>> /\ Finish("failed")
      /\ UNCHANGED <<serverVars, left, stray, requests>>
  BY <1>0 DEF Accept
<1>2. c.token = task.pair /\ c.req = 0 /\ c = Credential(c.token, c.req)
  BY <1>0, CredentialFields
<1>3. /\ task.pair \in 1..issued /\ requests \in 0..MaxRequests /\ MaxRequests \in Nat
      /\ mem.token \in Nat /\ mem.token < task.pair
      /\ \A k \in Known : k.token # task.pair
      /\ \A r \in stray : r.token \in Nat /\ r.token < task.pair
  BY <1>1, ClientAssumption
     DEF ClientInv, Shapes, IsTask, IsCredential, Requested, AtTask
<1>4. IsCredential(c)
  BY <1>2, <1>3 DEF IsCredential
<1>5. issued' = issued /\ db' = db /\ UNCHANGED <<stray, requests, left>>
  BY <1>1 DEF serverVars
<1>6. /\ \A k \in Known : k.token # c.token
      /\ \A r \in stray : r.token <= c.token
      /\ mem.token <= c.token /\ mem.token # c.token /\ c.token # 0
  BY <1>2, <1>3
<1>7. IsCredential(c)'
  <2>1. requests \in Nat /\ requests' = requests /\ issued <= issued' /\ issued' \in Nat
    BY <1>3, <1>5
  <2> QED
    BY <1>4, <2>1, CredentialStays
<1>10. /\ requests' \in requests..MaxRequests /\ issued' \in Nat /\ issued <= issued'
       /\ "failed" \in {"ok", "failed", "cleared"} /\ "ok" \in {"ok", "failed", "cleared"}
  BY <1>3, <1>5
<1>8. CASE store' = c /\ mem' = c /\ access' = task.pair /\ Finish("ok")
  <2>1. mem'.token # 0
    BY <1>6, <1>8
  <2>2. /\ Course' /\ Gone' /\ task'.pc = "idle" /\ task' = Idle /\ IsTask'
        /\ gate' \in Gates /\ out' \in Outs
    BY <1>1, <1>5, <1>8, <1>10, <2>1, FinishKeeps DEF ClientInv
  <2>3. access' \in 0..issued'
    BY <1>3, <1>5, <1>8
  <2>4. Shapes'
    BY <1>5, <1>7, <1>8, <1>10, <2>2, <2>3, ShapesKept DEF ClientInv
  <2>5. Requested'
    BY <1>1, <1>4, <1>5, <1>6, <1>8, <2>2, WriteKeeps
  <2> QED
    BY <2>2, <2>4, <2>5 DEF ClientInv
<1>9. CASE store' \in {store, c} /\ UNCHANGED <<mem, access>> /\ Finish("failed")
  <2>1. CASE store' = store
    <3>1. ConsumedIn(db)' = ConsumedIn(db) /\ task'.pc = "idle"
      BY <1>5, <1>9 DEF Finish, Idle
    <3>2. Known' \subseteq Known
      BY <1>1, <1>5, <3>1 DEF Known, Sent
    <3> QED
      BY <1>1, <1>5, <1>9, <1>10, <2>1, <3>2, EndedKeeps
  <2>2. CASE store' = c
    <3>1. gate \in {"restoring", "signedIn"} => mem.token # 0
      BY <1>1 DEF ClientInv, Course
    <3>2. gate \in {"restoring", "signedIn"} => (mem'.token = 0 <=> "failed" = "cleared")
      BY <1>9, <3>1
    <3>3. /\ Course' /\ Gone' /\ task'.pc = "idle" /\ task' = Idle /\ IsTask'
          /\ gate' \in Gates /\ out' \in Outs
      BY <1>1, <1>5, <1>9, <1>10, <3>2, FinishKeeps DEF ClientInv
    <3>4. Shapes'
      BY <1>5, <1>7, <1>9, <1>10, <2>2, <3>3, ShapesKept DEF ClientInv
    <3>5. Requested'
      BY <1>1, <1>4, <1>5, <1>6, <1>9, <2>2, <3>3, WriteKeeps
    <3> QED
      BY <3>3, <3>4, <3>5 DEF ClientInv
  <2> QED
    BY <1>9, <2>1, <2>2
<1> QED
  BY <1>1, <1>8, <1>9

(* The start of the app puts into memory what is stored.                   *)
LEMMA RestoreKeeps ==
    ASSUME ClientInv, issued \in Nat, Restore
    PROVE  ClientInv'
<1>1. /\ gate = "restoring" /\ task = Idle
      /\ \/ gate' = "signedOut" /\ store' \in {store, Nothing}
            /\ UNCHANGED <<mem, task, requests>>
         \/ store # Nothing /\ mem' = store /\ BeginRefresh(store)
            /\ UNCHANGED <<store, gate>>
      /\ UNCHANGED <<serverVars, access, out, left, stray>>
  BY DEF Restore, Busy
<1>2. task.pc = "idle" /\ mem.token = 0 /\ out = "no"
  BY <1>1 DEF Idle, ClientInv, Course
<1>3. issued' = issued /\ ConsumedIn(db)' = ConsumedIn(db)
  BY <1>1 DEF serverVars
<1>4. CASE gate' = "signedOut" /\ store' \in {store, Nothing}
           /\ UNCHANGED <<mem, task, requests>>
  <2>1. Known' \subseteq Known
    BY <1>1, <1>3, <1>4 DEF Known, Sent
  <2>2. Requested'
    BY <1>1, <1>2, <1>4, <2>1, EndKeeps
  <2>3. Course' /\ Gone'
    BY <1>1, <1>2, <1>4, NothingHeld DEF ClientInv, Course, Gone
  <2>4. IsTask'
    BY <1>1, <1>2, <1>4 DEF IsTask
  <2>5. /\ requests \in Nat /\ requests' \in requests..MaxRequests /\ IsCredential(Nothing)'
         /\ issued' \in Nat /\ issued <= issued'
    BY <1>3, <1>4, ClientAssumption, NothingHeld DEF ClientInv, Shapes, IsCredential
  <2>6. Shapes'
    BY <1>1, <1>2, <1>3, <1>4, <2>4, <2>5, ShapesKept DEF ClientInv, Gates, Outs
  <2> QED
    BY <2>2, <2>3, <2>6 DEF ClientInv
<1>5. CASE store # Nothing /\ mem' = store /\ BeginRefresh(store)
           /\ UNCHANGED <<store, gate>>
  <2>1. mem'.token # 0 /\ BeginRefresh(mem')
    BY <1>5, NothingHeld DEF ClientInv
  <2>2. /\ IsTask' /\ requests' \in requests..MaxRequests
        /\ task'.pc \in {"clear", "mark", "wait"} /\ Requested'
    BY <1>1, <1>2, <1>5, <2>1, BeginKeeps
  <2>3. Shapes'
    BY <1>1, <1>2, <1>3, <1>5, <2>2, ShapesKept DEF ClientInv, Gates, Outs
  <2>4. Course' /\ Gone'
    BY <1>1, <1>2, <1>5, <2>1, <2>2 DEF ClientInv, Course, Gone
  <2> QED
    BY <2>2, <2>3, <2>4 DEF ClientInv
<1> QED
  BY <1>1, <1>4, <1>5


-----------------------------------------------------------------------------
(* What the client shares with the server.                                 *)
Joint == Inv /\ Honest(db) /\ Forward(db) /\ ClientInv

(* A calm step of the server takes nothing from what is known.             *)
LEMMA CalmStepKeeps ==
    ASSUME Joint, Calm(db, db')
    PROVE  Honest(db') /\ Forward(db') /\ ConsumedIn(db') \subseteq Known
BY CalmIsKnown, CalmIsForward DEF Joint, Calm, Known

(* The bounds of the counters.                                             *)
LEMMA IssuedIsNat ==
    ASSUME Joint
    PROVE  issued \in Nat /\ issued <= MaxPairs /\ MaxPairs \in Nat /\ opened \in Nat
BY ServerAssumption DEF Joint, Inv, AccountOK

(* The server does not take a refresh the client sent for a replay,        *)
(* whenever it arrives, and a pair it answers with is newer than the one   *)
(* asked about and was asked about by nobody.                              *)
LEMMA SentHonest ==
    ASSUME Joint, NEW r \in Sent, NEW gone \in SUBSET Sessions,
           Rotate(r.token, Me, r.req, gone),
           NEW d, d = PruneStale(db, gone),
           NEW pair, pair = Answered(d, r.token, Verdict(d, r.token, Me, r.req))
    PROVE  /\ r.token \in Pairs /\ r.req \in RequestIds
           /\ Honest(db') /\ Forward(db') /\ ConsumedIn(db') \subseteq Known
           /\ issued' \in Nat /\ issued <= issued'
           /\ pair # 0 => /\ pair \in 1..issued' /\ r.token < pair
                          /\ \A c \in ConsumedIn(db') : c.token # pair
<1>1. /\ issued \in Nat /\ issued <= MaxPairs /\ MaxPairs \in Nat
      /\ requests \in 0..MaxRequests /\ MaxRequests \in Nat
      /\ Me \in Installations /\ 1..MaxRequests \subseteq RequestIds
  BY IssuedIsNat, ClientAssumption DEF Joint, ClientInv, Shapes
<1>2. r.token \in 1..issued /\ r.req \in 1..requests /\ r = Credential(r.token, r.req)
  <2>1. CASE r \in stray
    BY <1>1, <2>1 DEF Joint, ClientInv, Shapes, IsCredential
  <2>2. CASE task.pc = "wait" /\ r = Credential(task.token, task.req)
    BY <2>2, CredentialFields DEF Joint, ClientInv, Shapes, IsTask
  <2> QED
    BY <2>1, <2>2 DEF Sent
<1>3. r.token \in Pairs /\ r.req \in RequestIds
  BY <1>1, <1>2 DEF Pairs
<1>4. ASSUME Used(db, r.token) PROVE db.refresh[r.token].by = r.req
  <2> DEFINE c == Credential(r.token, db.refresh[r.token].by)
  <2>1. c \in Known /\ r \in Known
    BY <1>3, <1>4 DEF Known, ConsumedIn
  <2>2. c.token = r.token /\ c.req = db.refresh[r.token].by
    BY CredentialFields
  <2> HIDE DEF c
  <2> QED
    BY <2>1, <2>2 DEF Joint, ClientInv, Requested, OneRequest
<1>5. /\ Honest(db') /\ Forward(db') /\ ConsumedBy(db, db', r.token, r.req)
      /\ pair # 0 => /\ pair \in Pairs /\ r.token < pair /\ pair <= issued'
                     /\ ~Used(db', pair)
  BY <1>1, <1>3, <1>4, RotateHonest DEF Joint
<1>6. ConsumedIn(db') \subseteq Known
  <2> SUFFICES ASSUME NEW m \in Pairs, Used(db', m)
               PROVE  Credential(m, db'.refresh[m].by) \in Known
    BY DEF ConsumedIn
  <2>1. CASE Used(db, m) /\ db'.refresh[m].by = db.refresh[m].by
    BY <2>1 DEF Known, ConsumedIn
  <2>2. CASE m = r.token /\ db'.refresh[m].by = r.req
    BY <1>2, <2>2 DEF Known
  <2> QED
    BY <1>5, <2>1, <2>2 DEF ConsumedBy
<1>7. issued' \in Nat /\ issued <= issued'
  BY <1>1 DEF Rotate
<1>8. ASSUME pair # 0
      PROVE  pair \in 1..issued' /\ \A c \in ConsumedIn(db') : c.token # pair
  <2>1. pair \in 1..issued'
    BY <1>1, <1>5, <1>7, <1>8 DEF Pairs
  <2>2. ASSUME NEW m \in Pairs, Used(db', m) PROVE m # pair
    BY <1>5, <1>8, <2>2
  <2> QED
    BY <2>1, <2>2, CredentialFields DEF ConsumedIn
<1> QED
  BY <1>3, <1>5, <1>6, <1>7, <1>8

(* An answer to the refresh, or its loss, keeps the invariant.             *)
LEMMA ExchangeKeeps ==
    ASSUME Joint, Exchange
    PROVE  ClientInv' /\ Honest(db') /\ Forward(db') /\ [NextServer]_serverVars
<1> PICK r : r = Credential(task.token, task.req)
  OBVIOUS
<1>1. task.pc = "wait" /\ UNCHANGED <<store, mem, access, left, stray, requests>>
  BY DEF Exchange, counters
<1>2. r.token = task.token /\ r.req = task.req /\ r \in Sent
  BY <1>1, CredentialFields DEF Sent
<1>3. PICK gone \in SUBSET Sessions :
         LET d == PruneStale(db, gone)
             pair == Answered(d, r.token, Verdict(d, r.token, Me, r.req))
         IN /\ Rotate(r.token, Me, r.req, gone)
            /\ \/ Finish("failed")
               \/ UNCHANGED <<gate, out>>
                  /\ task' = IF pair # 0 THEN Accepting(pair) ELSE Clearing
  BY <1>2 DEF Exchange
<1>4. PICK d : d = PruneStale(db, gone)
  OBVIOUS
<1>5. PICK pair : pair = Answered(d, r.token, Verdict(d, r.token, Me, r.req))
  OBVIOUS
<1>6. Rotate(r.token, Me, r.req, gone)
  BY <1>3
<1>7. /\ r.token \in Pairs /\ r.req \in RequestIds
      /\ Honest(db') /\ Forward(db') /\ ConsumedIn(db') \subseteq Known
      /\ issued' \in Nat /\ issued <= issued'
      /\ pair # 0 => /\ pair \in 1..issued' /\ r.token < pair
                     /\ \A c \in ConsumedIn(db') : c.token # pair
  BY <1>2, <1>4, <1>5, <1>6, SentHonest
<1>8. [NextServer]_serverVars
  BY <1>6, <1>7, ClientAssumption DEF NextServer
<1>9. ClientInv /\ issued \in Nat
  BY IssuedIsNat DEF Joint
<1>10. CASE Finish("failed")
  <2>1. task'.pc = "idle"
    BY <1>10 DEF Finish, Idle
  <2>2. Known' \subseteq Known
    BY <1>1, <1>7, <2>1 DEF Known, Sent
  <2>3. ClientInv'
    BY <1>1, <1>7, <1>9, <1>10, <2>2, EndedKeeps
  <2> QED
    BY <1>7, <1>8, <2>3
<1>11. CASE /\ UNCHANGED <<gate, out>>
            /\ task' = IF pair # 0 THEN Accepting(pair) ELSE Clearing
  <2>1. /\ task'.pc \in {"accept", "clear"}
        /\ task'.pc = "accept" => pair # 0 /\ task'.pair = pair
    BY <1>11 DEF Accepting, Clearing
  <2>2. Sent' = stray
    BY <1>1, <2>1 DEF Sent
  <2>3. Known' = stray \cup ConsumedIn(db') /\ Known' \subseteq Known
    BY <1>7, <2>2 DEF Known, Sent
  <2>4. OneRequest' /\ Marked' /\ Same' /\ Ascending'
    BY <1>1, <1>9, <2>3 DEF ClientInv, Requested, OneRequest, Marked, Same, Ascending
  <2>5. /\ mem.token = r.token /\ mem.token # 0 /\ r.token \in Nat
        /\ \A c \in stray : c.token \in Nat /\ c.token <= r.token
    <3>1. r.token \in Nat /\ r.token # 0
      BY <1>7 DEF Pairs
    <3>2. mem.token = r.token
      BY <1>1, <1>2, <1>9 DEF ClientInv, Requested, AtTask
    <3>3. \A c \in stray : c.token \in Nat
      BY <1>9 DEF ClientInv, Shapes, IsCredential
    <3> QED
      BY <1>9, <3>1, <3>2, <3>3 DEF ClientInv, Requested, Ascending
  <2>6. AtTask'
    <3>1. SUFFICES ASSUME task'.pc = "accept"
                   PROVE  /\ mem'.token < task'.pair
                          /\ \A c \in Known' : c.token # task'.pair
                          /\ \A c \in stray' : c.token < task'.pair
      BY <2>1 DEF AtTask
    <3>2. task'.pair = pair /\ pair \in Nat /\ r.token < pair
      BY <1>7, <2>1, <3>1
    <3>3. \A c \in stray : c.token < pair
      BY <2>5, <3>2
    <3>4. \A c \in Known' : c.token # pair
      BY <1>7, <2>1, <2>3, <2>5, <3>1, <3>3
    <3> QED
      BY <1>1, <2>5, <3>2, <3>3, <3>4
  <2>7. IsTask'
    BY <1>7, <2>1 DEF IsTask
  <2>8. /\ requests' \in requests..MaxRequests /\ access' = access
        /\ gate' \in Gates /\ out' \in Outs
    BY <1>1, <1>9, <1>11, ClientAssumption DEF ClientInv, Shapes, Gates, Outs
  <2>9. Shapes'
    BY <1>1, <1>7, <1>9, <2>7, <2>8, ShapesKept DEF ClientInv
  <2>10. Course' /\ Gone'
    BY <1>1, <1>9, <1>11, <2>1 DEF ClientInv, Course, Gone
  <2> QED
    BY <1>7, <1>8, <2>4, <2>6, <2>9, <2>10 DEF ClientInv, Requested
<1> QED
  BY <1>3, <1>4, <1>5, <1>10, <1>11

(* So does a refresh that was given up and arrives later.                  *)
LEMMA StraggleKeeps ==
    ASSUME Joint, Straggle
    PROVE  ClientInv' /\ Honest(db') /\ Forward(db') /\ [NextServer]_serverVars
<1>1. PICK r \in stray, gone \in SUBSET Sessions : Rotate(r.token, Me, r.req, gone)
  BY DEF Straggle
<1>2. r \in Sent
  BY DEF Sent
<1>3. /\ r.token \in Pairs /\ r.req \in RequestIds
      /\ Honest(db') /\ Forward(db') /\ ConsumedIn(db') \subseteq Known
      /\ issued' \in Nat /\ issued <= issued'
  BY <1>1, <1>2, SentHonest
<1>4. [NextServer]_serverVars
  BY <1>1, <1>3, ClientAssumption DEF NextServer
<1>5. ClientInv'
  <2>1. UNCHANGED <<store, mem, access, task, gate, out, left, stray, requests>>
    BY DEF Straggle, clientVars, counters
  <2> QED
    BY <1>3, <2>1, IssuedIsNat, ServerStepKeeps DEF Joint
<1> QED
  BY <1>3, <1>4, <1>5


(* A login that goes on, and how it ends.                                  *)
LEMMA LoginKeeps ==
    ASSUME Joint, Login
    PROVE  ClientInv' /\ Honest(db') /\ Forward(db') /\ [NextServer]_serverVars
<1>1. /\ gate = "signedOut" /\ task = Idle /\ VerifyPassword(Me)
      /\ gate' = "submitting" /\ task' = AtLogin /\ left' = FALSE
      /\ UNCHANGED <<store, mem, access, out, stray, requests>>
  BY DEF Login, Busy, counters
<1>2. db' = db /\ issued' = issued /\ [NextServer]_serverVars
  BY <1>1, ClientAssumption DEF VerifyPassword, NextServer
<1>3. ClientInv /\ issued \in Nat /\ task'.pc = "login" /\ task.pc = "idle"
  BY <1>1, IssuedIsNat DEF Joint, AtLogin, Idle
<1>4. Known' = Known
  BY <1>1, <1>2, <1>3 DEF Known, Sent
<1>5. Requested'
  BY <1>1, <1>3, <1>4, EndKeeps
<1>6. Course' /\ Gone'
  BY <1>1, <1>3 DEF ClientInv, Course, Gone
<1>7. IsTask'
  BY <1>1, <1>3 DEF IsTask
<1>8. /\ requests' \in requests..MaxRequests /\ access' = access
      /\ gate' \in Gates /\ out' \in Outs
  BY <1>1, <1>3, ClientAssumption DEF ClientInv, Shapes, Gates, Outs
<1>9. Shapes'
  BY <1>1, <1>2, <1>3, <1>7, <1>8, ShapesKept DEF ClientInv
<1> QED
  BY <1>2, <1>5, <1>6, <1>9 DEF ClientInv, Joint

(* A refused login ends like a refresh that failed.                        *)
LEMMA LoginRefusedKeeps ==
    ASSUME Joint, LoginRefused
    PROVE  ClientInv' /\ Honest(db') /\ Forward(db') /\ [NextServer]_serverVars
<1>1. /\ RefuseLogin(Me)
      /\ IF task = AtLogin THEN Finish("failed") ELSE UNCHANGED <<task, gate, out>>
      /\ UNCHANGED <<store, mem, access, left, stray, requests>>
  BY DEF LoginRefused, OtherClientVars, counters
<1>2. db' = db /\ issued' = issued /\ [NextServer]_serverVars
  BY <1>1, ClientAssumption DEF RefuseLogin, NextServer
<1>3. ClientInv /\ issued \in Nat /\ issued' \in Nat /\ issued <= issued'
  BY <1>2, IssuedIsNat DEF Joint
<1>4. CASE task = AtLogin
  <2>1. task.pc = "login" /\ task'.pc = "idle" /\ Finish("failed")
    BY <1>1, <1>4 DEF AtLogin, Finish, Idle
  <2>2. Known' \subseteq Known
    BY <1>1, <1>2, <2>1 DEF Known, Sent
  <2>3. ClientInv'
    BY <1>1, <1>3, <2>1, <2>2, EndedKeeps
  <2> QED
    BY <1>2, <2>3 DEF Joint
<1>5. CASE task # AtLogin
  <2>1. ConsumedIn(db') \subseteq Known
    BY <1>2 DEF Known
  <2>2. ClientInv'
    BY <1>1, <1>3, <1>5, <2>1, ServerStepKeeps
  <2> QED
    BY <1>2, <2>2 DEF Joint
<1> QED
  BY <1>4, <1>5

(* A login is answered with a pair nobody has asked about.                 *)
LEMMA LoginAnsweredKeeps ==
    ASSUME Joint, LoginAnswered
    PROVE  ClientInv' /\ Honest(db') /\ Forward(db') /\ [NextServer]_serverVars
<1>1. /\ \/ task # AtLogin /\ UNCHANGED <<task, gate, out>>
         \/ task = AtLogin /\ task' = Accepting(issued') /\ UNCHANGED <<gate, out>>
         \/ task = AtLogin /\ Finish("failed")
      /\ UNCHANGED <<store, mem, access, left, stray, requests>>
  BY DEF LoginAnswered, OtherClientVars, counters
<1>2. PICK gone \in SUBSET Sessions : OpenSession(Me, gone)
  BY DEF LoginAnswered
<1>3. Calm(db, db') /\ issued' = issued + 1 /\ issued' \in Pairs /\ ~Used(db', issued')
  BY <1>2, ClientAssumption, OpenSessionIsCalm DEF Joint
<1>4. Honest(db') /\ Forward(db') /\ ConsumedIn(db') \subseteq Known
  BY <1>3, CalmStepKeeps
<1>5. [NextServer]_serverVars
  BY <1>2, ClientAssumption DEF NextServer
<1>6. ClientInv /\ issued \in Nat /\ issued' \in Nat /\ issued <= issued'
  BY <1>3, IssuedIsNat DEF Joint
<1>7. CASE task # AtLogin /\ UNCHANGED <<task, gate, out>>
  <2>1. ClientInv'
    BY <1>1, <1>4, <1>6, <1>7, ServerStepKeeps
  <2> QED
    BY <1>4, <1>5, <2>1
<1>8. CASE task = AtLogin /\ Finish("failed")
  <2>1. task.pc = "login" /\ task'.pc = "idle"
    BY <1>8 DEF AtLogin, Finish, Idle
  <2>2. Known' \subseteq Known
    BY <1>1, <1>4, <2>1 DEF Known, Sent
  <2>3. ClientInv'
    BY <1>1, <1>6, <1>8, <2>1, <2>2, EndedKeeps
  <2> QED
    BY <1>4, <1>5, <2>3
<1>9. CASE task = AtLogin /\ task' = Accepting(issued') /\ UNCHANGED <<gate, out>>
  <2>1. task.pc = "login" /\ task'.pc = "accept" /\ task'.pair = issued'
    BY <1>9 DEF AtLogin, Accepting
  <2>2. Known' = stray \cup ConsumedIn(db') /\ Known' \subseteq Known
    BY <1>1, <1>4, <2>1 DEF Known, Sent
  <2>3. OneRequest' /\ Marked' /\ Same' /\ Ascending'
    BY <1>1, <1>6, <2>2 DEF ClientInv, Requested, OneRequest, Marked, Same, Ascending
  <2>4. /\ mem.token \in Nat /\ mem.token <= issued
        /\ \A r \in stray : r.token \in Nat /\ r.token <= issued
    BY <1>6 DEF ClientInv, Shapes, IsCredential
  <2>5. \A c \in ConsumedIn(db') : c.token # issued'
    BY <1>3, CredentialFields DEF ConsumedIn
  <2>6. AtTask'
    <3>1. \A c \in Known' : c.token # issued'
      BY <1>3, <1>6, <2>2, <2>4, <2>5
    <3>2. mem.token < issued' /\ \A r \in stray : r.token < issued'
      BY <1>3, <1>6, <2>4
    <3> QED
      BY <1>1, <2>1, <3>1, <3>2 DEF AtTask
  <2>7. IsTask'
    <3>1. issued' \in 1..issued'
      BY <1>3, <1>6
    <3> QED
      BY <2>1, <3>1 DEF IsTask
  <2>8. /\ requests' \in requests..MaxRequests /\ access' = access
        /\ gate' \in Gates /\ out' \in Outs
    BY <1>1, <1>6, <1>9, ClientAssumption DEF ClientInv, Shapes, Gates, Outs
  <2>9. Shapes'
    BY <1>1, <1>6, <2>7, <2>8, ShapesKept DEF ClientInv
  <2>10. Course' /\ Gone'
    BY <1>1, <1>6, <1>9, <2>1 DEF ClientInv, Course, Gone
  <2> QED
    BY <1>4, <1>5, <2>3, <2>6, <2>9, <2>10 DEF ClientInv, Requested
<1> QED
  BY <1>1, <1>7, <1>8, <1>9

-----------------------------------------------------------------------------
(* Logging out.                                                            *)
LEMMA LogoutKeeps ==
    ASSUME ClientInv, issued \in Nat, Logout
    PROVE  ClientInv'
<1>1. /\ gate = "signedIn" /\ gate' = "leaving" /\ out' = "wait"
      /\ UNCHANGED <<serverVars, store, mem, access, task, left, stray, requests>>
  BY DEF Logout, counters
<1>2. issued' = issued /\ db' = db
  BY <1>1 DEF serverVars
<1>3. Known' = Known
  BY <1>1, <1>2 DEF Known, Sent
<1>4. Requested'
  BY <1>1, <1>3 DEF ClientInv, Requested, OneRequest, Marked, Same, Ascending, AtTask
<1>5. Course' /\ Gone'
  BY <1>1 DEF ClientInv, Course, Gone
<1>6. IsTask'
  BY <1>1, <1>2 DEF ClientInv, Shapes, IsTask
<1>7. /\ requests' \in requests..MaxRequests /\ access' = access
      /\ gate' \in Gates /\ out' \in Outs
  BY <1>1, ClientAssumption DEF ClientInv, Shapes, Gates, Outs
<1>8. Shapes'
  BY <1>1, <1>2, <1>6, <1>7, ShapesKept DEF ClientInv
<1> QED
  BY <1>4, <1>5, <1>8 DEF ClientInv

(* logout() refreshes once more or goes on to clear.                       *)
LEMMA RefreshAwaitedKeeps ==
    ASSUME ClientInv, issued \in Nat, RefreshAwaited
    PROVE  ClientInv'
<1>1. /\ out = "wait" /\ task = Idle
      /\ \/ mem # Nothing /\ out' = "own" /\ BeginRefresh(mem)
         \/ out' = "clear" /\ UNCHANGED <<task, requests>>
      /\ UNCHANGED <<serverVars, store, mem, access, gate, left, stray>>
  BY DEF RefreshAwaited, Busy
<1>2. issued' = issued /\ db' = db /\ task.pc = "idle" /\ gate = "leaving"
  BY <1>1 DEF serverVars, Idle, ClientInv, Course
<1>3. gate' \in Gates /\ out' \in Outs /\ MaxRequests \in Nat /\ requests \in Nat
  BY <1>1, ClientAssumption DEF ClientInv, Shapes, Gates, Outs
<1>4. CASE mem # Nothing /\ out' = "own" /\ BeginRefresh(mem)
  <2>1. mem'.token # 0 /\ mem' = mem /\ BeginRefresh(mem')
    BY <1>1, <1>4, NothingHeld DEF ClientInv
  <2>2. /\ IsTask' /\ requests' \in requests..MaxRequests
        /\ task'.pc \in {"clear", "mark", "wait"} /\ Requested'
    BY <1>1, <1>2, <2>1, BeginKeeps
  <2>3. Shapes'
    BY <1>1, <1>2, <1>3, <2>2, ShapesKept DEF ClientInv
  <2>4. Course' /\ Gone'
    BY <1>1, <1>2, <1>4, <2>2 DEF ClientInv, Course, Gone
  <2> QED
    BY <2>2, <2>3, <2>4 DEF ClientInv
<1>5. CASE out' = "clear" /\ UNCHANGED <<task, requests>>
  <2>1. Known' = Known
    BY <1>1, <1>2, <1>5 DEF Known, Sent
  <2>2. Requested'
    BY <1>1, <1>2, <1>5, <2>1, EndKeeps
  <2>3. Course' /\ Gone'
    BY <1>1, <1>2, <1>5 DEF ClientInv, Course, Gone
  <2>4. IsTask' /\ requests' \in requests..MaxRequests
    BY <1>1, <1>2, <1>3, <1>5 DEF ClientInv, Shapes, IsTask
  <2>5. Shapes'
    BY <1>1, <1>2, <1>3, <2>4, ShapesKept DEF ClientInv
  <2> QED
    BY <2>2, <2>3, <2>5 DEF ClientInv
<1> QED
  BY <1>1, <1>4, <1>5

(* It clears, or leaves who it could not clear signed in.                  *)
LEMMA ClearAtLogoutKeeps ==
    ASSUME ClientInv, issued \in Nat, ClearAtLogout
    PROVE  ClientInv'
<1>1. /\ out = "clear"
      /\ \/ /\ store' = Nothing /\ mem' = Nothing /\ access' = 0
            /\ \/ /\ access # 0 /\ out' = "revoke"
                  /\ task' = [pc |-> "bye", pair |-> access] /\ UNCHANGED <<gate, left>>
               \/ out' = "no" /\ LoggedOut /\ UNCHANGED task
         \/ /\ store' \in {store, Nothing} /\ out' = "no"
            /\ gate' = IF mem # Nothing THEN "signedIn" ELSE "signedOut"
            /\ UNCHANGED <<mem, access, task, left>>
      /\ UNCHANGED <<serverVars, stray, requests>>
  BY DEF ClearAtLogout
<1>2. /\ issued' = issued /\ db' = db /\ task.pc = "idle" /\ gate = "leaving" /\ ~left
      /\ task = Idle
  BY <1>1 DEF serverVars, ClientInv, Course, Gone, Shapes, IsTask
<1>3. /\ MaxRequests \in Nat /\ requests' \in requests..MaxRequests
      /\ access \in 0..issued /\ access' \in {access, 0}
      /\ store' \in {store, Nothing} /\ mem' \in {mem, Nothing}
  BY <1>1, ClientAssumption DEF ClientInv, Shapes
<1>4. /\ Nothing.token = 0 /\ Nothing.req = 0 /\ Nothing = Credential(0, 0)
      /\ mem = Nothing <=> mem.token = 0
  BY NothingHeld DEF ClientInv
<1>5. IsCredential(Nothing)'
  BY <1>2, <1>3, <1>4 DEF IsCredential, ClientInv, Shapes
<1>6. task'.pc \in {"idle", "bye"} /\ IsTask'
  <2>1. CASE access # 0 /\ task' = [pc |-> "bye", pair |-> access]
    BY <1>2, <1>3, <2>1 DEF IsTask
  <2>2. CASE UNCHANGED task
    BY <1>2, <2>2 DEF IsTask, Idle
  <2> QED
    BY <1>1, <2>1, <2>2
<1>7. Known' \subseteq Known
  BY <1>1, <1>2, <1>6 DEF Known, Sent
<1>8. Requested'
  BY <1>1, <1>2, <1>3, <1>6, <1>7, EndKeeps
<1>9. gate' \in Gates /\ out' \in Outs
  BY <1>1, <1>2 DEF Gates, Outs, LoggedOut
<1>10. Shapes'
  BY <1>1, <1>2, <1>3, <1>5, <1>6, <1>9, ShapesKept DEF ClientInv
<1>11. Course' /\ Gone'
  BY <1>1, <1>2, <1>4 DEF ClientInv, Course, Gone, LoggedOut
<1> QED
  BY <1>8, <1>10, <1>11 DEF ClientInv

(* Telling the server ends it.                                             *)
LEMMA RevokeAtLogoutKeeps ==
    ASSUME Joint, RevokeAtLogout
    PROVE  ClientInv' /\ Honest(db') /\ Forward(db') /\ [NextServer]_serverVars
<1>1. /\ out = "revoke" /\ out' = "no" /\ task' = Idle /\ gate' = "signedOut" /\ left' = TRUE
      /\ LogoutAt(task.pair) \/ UNCHANGED serverVars
      /\ UNCHANGED <<store, mem, access, stray, requests>>
  BY DEF RevokeAtLogout, LoggedOut, counters
<1>2. /\ ClientInv /\ issued \in Nat /\ issued <= MaxPairs /\ MaxPairs \in Nat
      /\ task.pc = "bye" /\ task.pair \in 1..issued /\ task'.pc = "idle"
  BY <1>1, IssuedIsNat DEF Joint, ClientInv, Course, Shapes, IsTask, Idle
<1>3. task.pair \in Pairs
  BY <1>2 DEF Pairs
<1>4. Calm(db, db') /\ issued' = issued /\ [NextServer]_serverVars
  <2>1. CASE LogoutAt(task.pair)
    BY <1>3, <2>1, LogoutIsCalm DEF Joint, NextServer
  <2>2. CASE UNCHANGED serverVars
    BY <2>2, NothingIsCalm DEF serverVars
  <2> QED
    BY <1>1, <2>1, <2>2
<1>5. Honest(db') /\ Forward(db') /\ ConsumedIn(db') \subseteq Known
  BY <1>4, CalmStepKeeps
<1>6. Known' \subseteq Known
  BY <1>1, <1>2, <1>5 DEF Known, Sent
<1>7. Requested'
  BY <1>1, <1>2, <1>6, EndKeeps
<1>8. Course' /\ Gone'
  BY <1>1, <1>2 DEF ClientInv, Course, Gone
<1>9. /\ IsTask' /\ requests' \in requests..MaxRequests
      /\ gate' \in Gates /\ out' \in Outs
  BY <1>1, <1>2, ClientAssumption DEF ClientInv, Shapes, IsTask, Gates, Outs
<1>10. Shapes'
  BY <1>1, <1>2, <1>4, <1>9, ShapesKept DEF ClientInv
<1> QED
  BY <1>4, <1>5, <1>7, <1>8, <1>10 DEF ClientInv


-----------------------------------------------------------------------------
(* The app dies, with the write in progress done or not.                   *)
LEMMA CrashKeeps ==
    ASSUME ClientInv, issued \in Nat, CrashWith({})
    PROVE  ClientInv'
<1>1. /\ store' = store \/ store' \in InFlight
      /\ IF task.pc = "wait" THEN Abandon ELSE UNCHANGED stray
      /\ mem' = Nothing /\ access' = 0 /\ task' = Idle
      /\ gate' = "restoring" /\ out' = "no"
      /\ UNCHANGED <<serverVars, left, requests>>
  BY DEF CrashWith
<1>2. issued' = issued /\ db' = db /\ task'.pc = "idle"
  BY <1>1 DEF serverVars, Idle
<1>3. /\ Nothing.token = 0 /\ Nothing.req = 0 /\ Nothing = Credential(0, 0)
      /\ requests \in 0..MaxRequests /\ MaxRequests \in Nat
  BY NothingHeld, ClientAssumption DEF ClientInv, Shapes
<1>4. IsCredential(Nothing)'
  BY <1>1, <1>2, <1>3 DEF IsCredential
<1>5. ASSUME task.pc = "wait", NEW r, r = Credential(task.token, task.req)
      PROVE  /\ r.token = task.token /\ r \in Sent
             /\ IsCredential(r)' /\ r.token # 0 /\ r.req # 0
  <2>1. r.token = task.token /\ r.req = task.req
    BY <1>5, CredentialFields
  <2>2. task.token \in 1..issued /\ task.req \in 1..requests
    BY <1>5 DEF ClientInv, Shapes, IsTask
  <2> QED
    BY <1>1, <1>2, <1>3, <1>5, <2>1, <2>2 DEF IsCredential, Sent
<1>6. ASSUME NEW r \in stray'
      PROVE  r \in stray \/ (task.pc = "wait" /\ r = Credential(task.token, task.req))
  BY <1>1, <1>6 DEF Abandon
<1>7. Known' \subseteq Known
  <2>1. Sent' \subseteq Sent
    BY <1>2, <1>5, <1>6 DEF Sent
  <2>2. ConsumedIn(db)' = ConsumedIn(db)
    BY <1>2
  <2> QED
    BY <2>1, <2>2 DEF Known
<1>8. IsTask' /\ gate' \in Gates /\ out' \in Outs /\ requests' \in requests..MaxRequests
  BY <1>1, <1>2, <1>3 DEF IsTask, Gates, Outs
<1>9. Course'
  BY <1>1, <1>2, <1>3 DEF Course
<1>10. ASSUME NEW r \in stray'
       PROVE  r \in stray \/ (IsCredential(r)' /\ r.token # 0 /\ r.req # 0)
  BY <1>5, <1>6
<1>11. CASE store' \in {store, Nothing}
  <2>1. Requested'
    BY <1>1, <1>2, <1>5, <1>6, <1>7, <1>11, EndKeeps
  <2>2. Shapes'
    BY <1>1, <1>2, <1>4, <1>8, <1>10, <1>11, ShapesKept DEF ClientInv
  <2>3. Gone'
    BY <1>1, <1>2, <1>3, <1>11 DEF ClientInv, Gone
  <2> QED
    BY <1>9, <2>1, <2>2, <2>3 DEF ClientInv
<1>12. ASSUME task.pc \in {"mark", "accept"}, NEW c, store' = c,
              c.token \in 1..issued, c.req \in 0..requests, c = Credential(c.token, c.req),
              \A k \in Known : k.token # c.token, \A r \in stray : r.token <= c.token,
              mem.token <= c.token, mem.token = c.token => mem.req = 0
       PROVE  ClientInv'
  <2>1. IsCredential(c) /\ IsCredential(c)'
    BY <1>1, <1>2, <1>3, <1>12 DEF IsCredential
  <2>2. UNCHANGED <<stray, db>> /\ ~left
    BY <1>1, <1>2, <1>12 DEF ClientInv, Gone
  <2>3. Requested'
    BY <1>1, <1>2, <1>12, <2>1, <2>2, WriteKeeps
  <2>4. Shapes'
    BY <1>1, <1>2, <1>4, <1>8, <1>12, <2>1, <2>2, ShapesKept DEF ClientInv
  <2>5. Gone'
    BY <1>1, <2>2 DEF Gone
  <2> QED
    BY <1>9, <2>3, <2>4, <2>5 DEF ClientInv
<1>13. CASE task.pc = "mark" /\ store' = Credential(task.token, task.req)
  <2> PICK c : c = Credential(task.token, task.req)
    OBVIOUS
  <2>1. c.token = task.token /\ c.req = task.req
    BY CredentialFields
  <2>2. /\ task.token \in 1..issued /\ task.req \in 1..requests
        /\ mem.token = task.token /\ mem.req = 0
    BY <1>13 DEF ClientInv, Shapes, IsTask, Requested, AtTask
  <2>3. \A k \in Known : k.token # c.token
    BY <2>1, <2>2 DEF ClientInv, Requested, Marked
  <2>4. \A r \in stray : r.token <= c.token
    BY <2>1, <2>2 DEF ClientInv, Requested, Ascending
  <2>5. /\ c.token \in 1..issued /\ c.req \in 0..requests /\ mem.token <= c.token
        /\ mem.token = c.token => mem.req = 0
    BY <1>3, <2>1, <2>2
  <2> QED
    BY <1>12, <1>13, <2>1, <2>3, <2>4, <2>5
<1>14. CASE task.pc = "accept" /\ store' = Credential(task.pair, 0)
  <2> PICK c : c = Credential(task.pair, 0)
    OBVIOUS
  <2>1. c.token = task.pair /\ c.req = 0
    BY CredentialFields
  <2>2. /\ task.pair \in 1..issued /\ mem.token \in Nat /\ mem.token < task.pair
        /\ \A k \in Known : k.token # task.pair
        /\ \A r \in stray : r.token \in Nat /\ r.token < task.pair
    BY <1>14 DEF ClientInv, Shapes, IsTask, IsCredential, Requested, AtTask
  <2>3. \A k \in Known : k.token # c.token
    BY <2>1, <2>2
  <2>4. \A r \in stray : r.token <= c.token
    BY <2>1, <2>2
  <2>5. /\ c.token \in 1..issued /\ c.req \in 0..requests /\ mem.token <= c.token
        /\ mem.token # c.token
    BY <1>3, <2>1, <2>2
  <2> QED
    BY <1>12, <1>14, <2>1, <2>3, <2>4, <2>5
<1>15. store' \in InFlight => \/ store' = Nothing
                              \/ task.pc = "mark" /\ store' = Credential(task.token, task.req)
                              \/ task.pc = "accept" /\ store' = Credential(task.pair, 0)
  BY DEF InFlight
<1> QED
  BY <1>1, <1>11, <1>13, <1>14, <1>15

-----------------------------------------------------------------------------
(* Others, and the clock.                                                  *)
LEMMA ElsewhereKeeps ==
    ASSUME Joint, Elsewhere
    PROVE  ClientInv' /\ Honest(db') /\ Forward(db') /\ [NextServer]_serverVars
<1>1. UNCHANGED <<store, mem, access, task, gate, out, left, stray, requests>>
  BY DEF Elsewhere, clientVars, counters
<1>2. Calm(db, db') /\ issued' \in Nat /\ issued <= issued' /\ [NextServer]_serverVars
  <2>1. CASE \E i \in Installations : Rehash(i) \/ VerifyPassword(i) \/ RefuseLogin(i)
    <3>1. db' = db /\ issued' = issued
      BY <2>1 DEF Rehash, VerifyPassword, RefuseLogin
    <3> QED
      BY <2>1, <3>1, NothingIsCalm, IssuedIsNat DEF NextServer
  <2>2. CASE \E i \in Installations : \E gone \in SUBSET Sessions : OpenSession(i, gone)
    <3>1. PICK i \in Installations, gone \in SUBSET Sessions : OpenSession(i, gone)
      BY <2>2
    <3>2. Calm(db, db') /\ issued' = issued + 1
      BY <3>1, OpenSessionIsCalm DEF Joint
    <3> QED
      BY <3>1, <3>2, IssuedIsNat DEF NextServer
  <2>3. CASE ResetPassword
    BY <2>3, ResetIsCalm, IssuedIsNat DEF Joint, NextServer
  <2> QED
    BY <2>1, <2>2, <2>3 DEF Elsewhere
<1>3. Honest(db') /\ Forward(db') /\ ConsumedIn(db') \subseteq Known
  BY <1>2, CalmStepKeeps
<1>4. ClientInv'
  BY <1>1, <1>2, <1>3, IssuedIsNat, ServerStepKeeps DEF Joint
<1> QED
  BY <1>2, <1>3, <1>4

(* An expiry takes nothing from what is known.                             *)
LEMMA TimePassesKeeps ==
    ASSUME Joint, TimePasses
    PROVE  ClientInv' /\ Honest(db') /\ Forward(db') /\ [NextServer]_serverVars
<1>1. /\ Lapse
      /\ UNCHANGED <<store, mem, access, task, gate, out, left, stray, requests>>
  BY DEF TimePasses
<1>2. Calm(db, db') /\ issued' = issued /\ [NextServer]_serverVars
  BY <1>1, LapseIsCalm DEF Joint, NextServer
<1>3. Honest(db') /\ Forward(db') /\ ConsumedIn(db') \subseteq Known
  BY <1>2, CalmStepKeeps
<1>4. ClientInv'
  BY <1>1, <1>2, <1>3, IssuedIsNat, ServerStepKeeps DEF Joint
<1> QED
  BY <1>2, <1>3, <1>4

-----------------------------------------------------------------------------
(* A first start with an empty server.                                     *)
LEMMA JointInitially == Init => Joint
<1> SUFFICES ASSUME Init PROVE Joint
  OBVIOUS
<1>1. /\ InitServer /\ store = Nothing /\ mem = Nothing /\ access = 0 /\ task = Idle
      /\ gate = "restoring" /\ out = "no" /\ left = FALSE /\ stray = {} /\ requests = 0
  BY DEF Init, InitClient
<1>2. Inv
  BY <1>1, ServerInitially
<1>3. \A n \in Pairs : ~Used(db, n)
  BY <1>1 DEF InitServer, EmptyDatabase, Used, NoToken
<1>4. Honest(db) /\ Forward(db)
  <2>1. Forward(db)
    BY <1>3 DEF Forward
  <2>2. Honest(db)
    BY <1>1 DEF InitServer, EmptyDatabase, Honest, NoSession
  <2> QED
    BY <2>1, <2>2
<1>5. /\ Nothing.token = 0 /\ Nothing.req = 0 /\ Nothing = Credential(0, 0)
      /\ task.pc = "idle"
  BY <1>1, CredentialFields DEF Nothing, Idle
<1>6. Known = {}
  BY <1>1, <1>3, <1>5 DEF Known, Sent, ConsumedIn
<1>7. issued = 0 /\ MaxRequests \in Nat
  BY <1>1, ClientAssumption DEF InitServer
<1>8. Shapes
  BY <1>1, <1>5, <1>7 DEF Shapes, IsCredential, IsTask
<1>9. Course /\ Gone
  BY <1>1, <1>5 DEF Course, Gone
<1>10. Requested
  BY <1>1, <1>5, <1>6 DEF Requested, OneRequest, Marked, Same, Ascending, AtTask
<1> QED
  BY <1>2, <1>4, <1>8, <1>9, <1>10 DEF Joint, ClientInv

(* A step of the client alone.                                             *)
LEMMA ClientAlone ==
    ASSUME Joint, UNCHANGED serverVars
    PROVE  Honest(db') /\ Forward(db') /\ [NextServer]_serverVars
BY DEF Joint, serverVars

(* Every step of the client, the server and the others keeps it.           *)
LEMMA JointInductive == Joint /\ [Next]_vars => Joint'
<1> SUFFICES ASSUME Joint, [Next]_vars PROVE Joint'
  OBVIOUS
<1>1. Joint /\ ClientInv /\ issued \in Nat
  BY IssuedIsNat DEF Joint
<1> DEFINE Goal == ClientInv' /\ Honest(db') /\ Forward(db') /\ [NextServer]_serverVars
<1>2. ASSUME Mark PROVE Goal
  BY <1>1, <1>2, MarkKeeps, ClientAlone DEF Mark
<1>3. ASSUME GiveUp PROVE Goal
  BY <1>1, <1>3, GiveUpKeeps, ClientAlone DEF GiveUp
<1>4. ASSUME Accept PROVE Goal
  BY <1>1, <1>4, AcceptKeeps, ClientAlone DEF Accept
<1>5. ASSUME Clear PROVE Goal
  BY <1>1, <1>5, ClearKeeps, ClientAlone DEF Clear
<1>6. ASSUME Restore PROVE Goal
  BY <1>1, <1>6, RestoreKeeps, ClientAlone DEF Restore
<1>7. ASSUME RefreshAwaited PROVE Goal
  BY <1>1, <1>7, RefreshAwaitedKeeps, ClientAlone DEF RefreshAwaited
<1>8. ASSUME ClearAtLogout PROVE Goal
  BY <1>1, <1>8, ClearAtLogoutKeeps, ClientAlone DEF ClearAtLogout
<1>9. ASSUME RevokeAtLogout PROVE Goal
  BY <1>1, <1>9, RevokeAtLogoutKeeps
<1>10. ASSUME Exchange PROVE Goal
  BY <1>1, <1>10, ExchangeKeeps
<1>11. ASSUME AskToken PROVE Goal
  BY <1>1, <1>11, AskKeeps, ClientAlone DEF AskToken
<1>12. ASSUME Straggle PROVE Goal
  BY <1>1, <1>12, StraggleKeeps
<1>13. ASSUME Login \/ LoginRefused \/ LoginAnswered PROVE Goal
  BY <1>1, <1>13, LoginKeeps, LoginRefusedKeeps, LoginAnsweredKeeps
<1>14. ASSUME Logout PROVE Goal
  BY <1>1, <1>14, LogoutKeeps, ClientAlone DEF Logout
<1>15. ASSUME Elsewhere \/ TimePasses PROVE Goal
  BY <1>1, <1>15, ElsewhereKeeps, TimePassesKeeps
<1>16. ASSUME CrashWith({}) PROVE Goal
  BY <1>1, <1>16, CrashKeeps, ClientAlone DEF CrashWith
<1>17. ASSUME UNCHANGED vars PROVE Goal
  <2>1. /\ UNCHANGED <<store, mem, access, task, gate, out, left, stray, requests>>
        /\ UNCHANGED serverVars /\ issued' = issued /\ db' = db
    BY <1>17 DEF vars, clientVars, counters, serverVars
  <2>2. ConsumedIn(db') \subseteq Known
    BY <2>1 DEF Known
  <2>3. ClientInv'
    BY <1>1, <2>1, <2>2, ServerStepKeeps
  <2> QED
    BY <1>1, <2>1, <2>3, ClientAlone
<1>18. Goal
  BY <1>2, <1>3, <1>4, <1>5, <1>6, <1>7, <1>8, <1>9, <1>10, <1>11, <1>12, <1>13, <1>14,
     <1>15, <1>16, <1>17 DEF Next, Running, ClientStep
<1> QED
  BY <1>1, <1>18, ServerInductive DEF Joint

(* So it always is.                                                        *)
LEMMA JointHolds == Spec => []Joint
BY JointInitially, JointInductive, PTL DEF Spec

(* Credentials and the pairs of the server keep their types, and who is    *)
(* signed in has credentials in memory.                                    *)
THEOREM SessionsTyped == Spec => []TypeOK
<1>1. Joint => TypeOK
  <2> SUFFICES ASSUME Joint PROVE TypeOK
    OBVIOUS
  <2>1. ServerTypeOK
    BY DEF Joint, Inv, AccountOK, Sound, Sane, ServerTypeOK, Databases, Rows, Tokens, Accesses
  <2>2. /\ issued \in Nat /\ issued <= MaxPairs /\ MaxPairs \in Nat /\ MaxRequests \in Nat
        /\ requests \in 0..MaxRequests
    BY IssuedIsNat, ClientAssumption DEF Joint, ClientInv, Shapes
  <2>3. ASSUME NEW c, IsCredential(c)
        PROVE  c \in Credentials
    <3>1. CASE c.token = 0
      BY <2>3, <3>1 DEF IsCredential, Credentials, Nothing
    <3>2. CASE c.token # 0
      <4>1. c.token \in Pairs /\ c.req \in 0..MaxRequests
        BY <2>2, <2>3, <3>2 DEF IsCredential, Pairs
      <4> QED
        BY <2>3, <4>1 DEF IsCredential, Credential, Credentials
    <3> QED
      BY <3>1, <3>2
  <2>4. SignedInHasCredentials
    BY NothingHeld DEF Joint, ClientInv, Course, SignedInHasCredentials
  <2>5. access \in 0..MaxPairs
    BY <2>2 DEF Joint, ClientInv, Shapes
  <2> QED
    BY <2>1, <2>3, <2>4, <2>5 DEF TypeOK, Joint, ClientInv, Shapes
<1> QED
  BY <1>1, JointHolds, PTL

(* No honest client is taken for a thief: whatever answers are lost,       *)
(* requests delayed or repeated, writes of the secure store failed and     *)
(* restarts made, no session of the account ends as a replay.              *)
THEOREM HonestyIsRewarded == Spec => []HonestSessionKept
<1>1. Joint => HonestSessionKept
  BY DEF Joint, Honest, HonestSessionKept
<1> QED
  BY <1>1, JointHolds, PTL

(* A server that answers such a client keeps its own promises.             *)
THEOREM SessionsServed ==
    Spec => [](RotationIsAChain /\ LiveSessionsAreProved /\ SessionLimits)
<1>1. Joint => RotationIsAChain
  BY DEF Joint, Inv, Sound, Sane, RotationIsAChain, RetriesAnswered, OneCurrent,
         Answers, HasAnswer, Used, Unforked
<1>2. Joint => LiveSessionsAreProved
  BY DEF Joint, Inv, Sound, Sane, LiveSessionsAreProved, Proved
<1>3. Joint => SessionLimits
  BY DEF Joint, Inv, Sound, Sane, SessionLimits, OnePerInstallation, Within
<1> QED
  BY <1>1, <1>2, <1>3, JointHolds, PTL

(* After a logout that completed nothing puts credentials back, not a      *)
(* refresh that was in progress, nor a restart, nor a failed write.        *)
THEOREM NobodyReturns == Spec => []LeftForGood
<1>1. Joint => LeftForGood
  BY NothingHeld DEF Joint, ClientInv, Gone, LeftForGood
<1> QED
  BY <1>1, JointHolds, PTL

=============================================================================
