---------------------------- MODULE SyncServer ------------------------------
(***************************************************************************)
(* One server database (class Store) and the transaction that answers one  *)
(* v2 exchange (Store.sync_v2).  The transaction runs under the store's    *)
(* lock and a BEGIN IMMEDIATE, so it is one step; every refusal is raised  *)
(* inside it and rolls all of it back.                                     *)
(*                                                                         *)
(* The revision of a change group is its position in log (AUTOINCREMENT    *)
(* rolled back with its transaction leaves no gap).  A payload hash is the *)
(* payload.  Byte limits appear only as a page that may be shorter than    *)
(* PageLimit.  An ack's "applied"/"duplicate" status is left out: a device *)
(* compares it only when a mutation it already holds an ack for is acked   *)
(* again, and such a mutation is in no batch (ack_revision IS NULL).       *)
(***************************************************************************)
EXTENDS EntityTable, SequencesExt

CONSTANTS MutationIds,   \* ids of client mutations and of internal groups
          InternalIds,   \* those of "bootstrap:..." and "v1:..." groups
          PageLimit,     \* groups per response: the request's "limit"
          CacheLimit     \* MAX_V2_REQUEST_CACHE

ASSUME ServerAssumption ==
    /\ InternalIds \subseteq MutationIds
    /\ PageLimit \in Nat \ {0} /\ CacheLimit \in Nat

VARIABLES serverId,    \* sync_meta.server_id; 0 is a client's empty pin
          log,         \* v2_change_groups
          receipts,    \* v2_mutations: id -> revision and payload
          cache,       \* v2_requests, oldest first
          activated    \* sync_meta.v2_activated

serverVars == <<entities, serverId, log, receipts, cache, activated>>

(* What a reader holds who applied the first n groups of a log in order.   *)
Replayed(l, n) == FoldLeft(Overlay, << >>, [r \in 1..n |-> l[r].changes])

EntitiesAt(n) == Replayed(log, n)

(* A request is [id, serverId, cursor, mutations]; a mutation is           *)
(* [id, changes].  validate_v2_request refuses an id used twice in one.    *)
WellFormed(req) ==
    \A p, q \in DOMAIN req.mutations :
        req.mutations[p].id = req.mutations[q].id => p = q

(* A request validate_v2_request lets through.                             *)
IsRequest(req) ==
    /\ req.cursor \in Nat
    /\ Len(req.mutations) \in Nat
    /\ DOMAIN req.mutations = 1..Len(req.mutations)
    /\ WellFormed(req)
    /\ \A p \in DOMAIN req.mutations : /\ req.mutations[p].id \in MutationIds
                                       /\ IsCollection(req.mutations[p].changes)

(* Mutation of FreshPositions: receipts are not consulted.                 *)
EveryPosition(req) == DOMAIN req.mutations

FreshPositions(req) ==
    {p \in DOMAIN req.mutations : req.mutations[p].id \notin DOMAIN receipts}

(* What the transaction adds at position p: nothing for a duplicate.       *)
NewChanges(req, p) ==
    IF p \in FreshPositions(req) THEN req.mutations[p].changes ELSE << >>

(* Mutation of EntitiesBefore: the table keeps what the client sent rather *)
(* than the canonical group.                                               *)
UncanonicalBefore(req, p) ==
    FoldLeft(Overlay, entities, [q \in 1..(p - 1) |-> NewChanges(req, q)])

(* The entities just before position p of the request is recorded.         *)
EntitiesBefore(req, p) ==
    FoldLeft(RecordedEntities, entities,
             [q \in 1..(p - 1) |-> NewChanges(req, q)])

ReusesMutationId(req) ==
    \E p \in DOMAIN req.mutations :
        LET m == req.mutations[p] IN
        IF m.id \in DOMAIN receipts
        THEN receipts[m.id].payload # m.changes
        ELSE \E r \in DOMAIN log : log[r].mutation = m.id

Unacceptable(req) ==
    \E p \in FreshPositions(req) :
        MovesCopy(EntitiesBefore(req, p), req.mutations[p].changes)

Cached(req) == \E n \in DOMAIN cache : cache[n].request.id = req.id
CachedEntry(req) == cache[CHOOSE n \in DOMAIN cache : cache[n].request.id = req.id]

(* Mutation of Verdict: a device that is up to date is refused.            *)
VerdictOffByOne(req) ==
    IF req.serverId \notin {0, serverId} THEN "server_mismatch"
    ELSE IF req.cursor >= Len(log) /\ log # << >> THEN "cursor_invalid"
    ELSE IF ReusesMutationId(req) THEN "mutation_id_reused"
    ELSE IF Unacceptable(req) THEN "invalid_request"
    ELSE "ok"

(* The stable error code of a refused request, or "ok", in the order the   *)
(* transaction checks.                                                     *)
Verdict(req) ==
    IF req.serverId \notin {0, serverId} THEN "server_mismatch"
    ELSE IF Cached(req) /\ CachedEntry(req).request = req THEN "replayed"
    ELSE IF Cached(req) THEN "request_id_reused"
    ELSE IF req.cursor > Len(log) THEN "cursor_invalid"
    ELSE IF ReusesMutationId(req) THEN "mutation_id_reused"
    ELSE IF Unacceptable(req) THEN "invalid_request"
    ELSE "ok"

(* The strictly increasing enumerations of a set of positions: one.        *)
Enumerations(S) ==
    {f \in [1..Cardinality(S) -> S] :
        /\ \A j, k \in DOMAIN f : j < k => f[j] < f[k]
        /\ \A p \in S : \E k \in DOMAIN f : f[k] = p}

(* One page after the request's cursor.  A page holds at least one group   *)
(* when there is one, at most PageLimit, and fewer when the bytes run out. *)
PageSizes(l, req) ==
    IF req.cursor = Len(l) THEN {0}
    ELSE {n \in 1..PageLimit : req.cursor + n <= Len(l)}

(* Mutation of Page: only a page filled to its limit announces another,    *)
(* though the bytes may have run out first.                                *)
FullPageHasMore(l, rcpts, req, n) ==
    [serverId |-> serverId,
     acks |-> [m \in {req.mutations[p].id : p \in DOMAIN req.mutations} |->
                  rcpts[m].revision],
     cursor |-> req.cursor,
     groups |-> SubSeq(l, req.cursor + 1, req.cursor + n),
     nextCursor |-> req.cursor + n,
     hasMore |-> n = PageLimit /\ req.cursor + n < Len(l)]

(* Mutation of Page: every page claims to be the last.                     *)
NeverHasMore(l, rcpts, req, n) ==
    [FullPageHasMore(l, rcpts, req, n) EXCEPT !.hasMore = FALSE]

Page(l, rcpts, req, n) ==
    [serverId |-> serverId,
     acks |-> [m \in {req.mutations[p].id : p \in DOMAIN req.mutations} |->
                  rcpts[m].revision],
     cursor |-> req.cursor,
     groups |-> SubSeq(l, req.cursor + 1, req.cursor + n),
     nextCursor |-> req.cursor + n,
     hasMore |-> req.cursor + n < Len(l)]

(* Storing a response, then pruning the oldest ones by count, age or size. *)
(* A pull-only request of a tenant is not stored at all.                   *)
CacheResponse(req, response) ==
    LET stored == Append(cache, [request |-> req, response |-> response])
    IN \/ \E keep \in 0..Len(stored) :
            /\ keep <= CacheLimit
            /\ keep = 0 => CacheLimit = 0
            /\ cache' = SubSeq(stored, Len(stored) - keep + 1, Len(stored))
       \/ req.mutations = << >> /\ UNCHANGED cache

(* The committed transaction: every new mutation gets the next revision, a *)
(* group and a receipt; the page of size n is the answer.                  *)
Commit(req, n) ==
    /\ Verdict(req) = "ok"
    /\ \E order \in Enumerations(FreshPositions(req)) :
         LET fresh(k) == req.mutations[order[k]] IN
         /\ log' = log \o
              [k \in DOMAIN order |->
                 [mutation |-> fresh(k).id,
                  changes |-> CanonicalizeGroup(EntitiesBefore(req, order[k]),
                                                fresh(k).changes)]]
         /\ receipts' =
              [m \in DOMAIN receipts \cup {fresh(k).id : k \in DOMAIN order} |->
                 IF m \in DOMAIN receipts THEN receipts[m]
                 ELSE LET k == CHOOSE k \in DOMAIN order : fresh(k).id = m
                      IN [revision |-> Len(log) + k,
                          payload |-> fresh(k).changes]]
    /\ entities' = EntitiesBefore(req, Len(req.mutations) + 1)
    /\ activated' = (activated \/ req.mutations # << >>)
    /\ n \in PageSizes(log', req)
    /\ CacheResponse(req, Page(log', receipts', req, n))
    /\ UNCHANGED serverId

(* Legacy history enters the log under an internal id and leaves no        *)
(* receipt; once v2 is active a v1 write that would change anything is     *)
(* refused.                                                                *)
RecordInternalGroup(m) ==
    /\ ~activated
    /\ m.id \in InternalIds
    /\ \A r \in DOMAIN log : log[r].mutation # m.id
    /\ ~MovesCopy(entities, m.changes)
    /\ log' = Append(log, [mutation |-> m.id,
                           changes |-> CanonicalizeGroup(entities, m.changes)])
    /\ entities' = RecordedEntities(entities, m.changes)
    /\ UNCHANGED <<serverId, receipts, cache, activated>>

(* A database file that does not exist yet, or no longer: _initialize      *)
(* creates an empty one with an identity of its own.                       *)
EmptyDatabase(id) ==
    /\ entities = << >> /\ log = << >> /\ receipts = << >> /\ cache = << >>
    /\ activated = FALSE /\ serverId = id

(* Mutations of ReplaceDatabase: the receipts of the old database survive; *)
(* the new database keeps the identity of the old one.                     *)
ReplaceButReceipts ==
    /\ entities' = << >> /\ log' = << >> /\ cache' = << >>
    /\ activated' = FALSE /\ serverId' = serverId + 1
    /\ UNCHANGED receipts

ReplaceUnnoticed ==
    /\ entities' = << >> /\ log' = << >> /\ receipts' = << >> /\ cache' = << >>
    /\ activated' = FALSE
    /\ UNCHANGED serverId

ReplaceDatabase ==
    /\ entities' = << >> /\ log' = << >> /\ receipts' = << >> /\ cache' = << >>
    /\ activated' = FALSE /\ serverId' = serverId + 1

-----------------------------------------------------------------------------
(* What holds of one database, whoever its clients are.                    *)

Groups(l) == [mutation: MutationIds, changes: {l[r].changes : r \in DOMAIN l}]

HistoryTyped ==
    /\ log \in Seq(Groups(log))
    /\ DOMAIN receipts \subseteq MutationIds
    /\ \A m \in DOMAIN receipts : receipts[m].revision \in Nat

(* A mutation is recorded at most once, whatever is retried, reordered or  *)
(* evicted from the request cache, and an internal group never shares its  *)
(* id with a client mutation.                                              *)
RecordedOnce ==
    \A r, s \in DOMAIN log : log[r].mutation = log[s].mutation => r = s

(* A receipt names the group that carries its mutation, and exactly the    *)
(* client mutations of the log have one.                                   *)
ReceiptsMatchLog ==
    /\ \A m \in DOMAIN receipts : /\ receipts[m].revision \in DOMAIN log
                                   /\ log[receipts[m].revision].mutation = m
    /\ \A r \in DOMAIN log :
          log[r].mutation \in DOMAIN receipts \/ log[r].mutation \in InternalIds

(* The entity table is what a reader who applies the delivered groups in   *)
(* order gets: canonicalization never changes a row outside its group.     *)
EntitiesReplayLog == entities = EntitiesAt(Len(log))

(* A deletion that loses to another device's active copy keeps the user    *)
(* fields the server had (docs/sync-v2.md, conflict and deletion policy).  *)
SurvivorKeepsUserFields ==
    \A m \in DOMAIN receipts : \A i \in DOMAIN receipts[m].payload \cap Issues :
        LET r == receipts[m].revision
            before == EntitiesAt(r - 1)
        IN /\ receipts[m].payload[i].deleted
           /\ Live(before, i)
           /\ ~log[r].changes[i].deleted
           => log[r].changes[i].value = before[i].value

(* A page acknowledges exactly the request's mutations, each at a revision *)
(* that carries it, delivers the groups that follow the request's cursor   *)
(* without a gap, and announces more when an acknowledged group is beyond. *)
PageIsHistory(req, page) ==
    LET sent == {req.mutations[p].id : p \in DOMAIN req.mutations}
    IN /\ DOMAIN page.acks = sent
       /\ page.cursor = req.cursor
       /\ page.nextCursor \in page.cursor..Len(log)
       /\ page.groups = SubSeq(log, page.cursor + 1, page.nextCursor)
       /\ \A m \in sent : /\ page.acks[m] \in DOMAIN log
                          /\ log[page.acks[m]].mutation = m
                          /\ page.acks[m] <= page.nextCursor \/ page.hasMore
=============================================================================
