---------------------------- MODULE SyncProtocol ----------------------------
(***************************************************************************)
(* Devices and their server: the offline-first exchange of sync v2.        *)
(*                                                                         *)
(* A device (LocalDatabase, SyncService, HttpSyncV2Transport) writes its   *)
(* rows and its outbox in one transaction, prepares a batch in another,    *)
(* sends it, and applies the answer in a third; between them the user may  *)
(* write, the answer may be lost, the app may die, and a request given up  *)
(* by its sender may still reach the server later, after newer ones.       *)
(* SyncServer is the other side.                                           *)
(***************************************************************************)
EXTENDS SyncServer, LocalCollection

CONSTANTS Devices,
          BatchLimit,      \* mutations per request
          MaxUpload,       \* changes per request, unless one mutation has more
          ComicInputs,     \* flat comics a user may save
          CopyInputs,      \* copies with the rows a user may save of them
          BarcodeInputs,   \* issues a user may link a barcode to
          MaxWrites,       \* bound: user writes
          MaxLosses,       \* bound: exchanges given up by their device
          MaxRebinds,      \* bound: confirmed server rebinds
          MaxServerId      \* bound: databases the server goes through

(* Every request id is a fresh UUID, so between devices and server the     *)
(* request cache never hits; SyncEndpoint is where it does.                *)
ASSUME ProtocolAssumption ==
    /\ CacheLimit = 0
    /\ BatchLimit \in Nat \ {0} /\ MaxUpload \in Nat \ {0}
    /\ ComicInputs \subseteq FlatComics
    /\ CopyInputs \subseteq Copies \X CopyData /\ BarcodeInputs \subseteq Issues

VARIABLES local,      \* the device's domain rows
          outbox,     \* sync_outbox by sequence: [id, changes, ack], ack 0 is NULL
          versions,   \* sync_entity_versions
          state,      \* the sync_state row
          minted,     \* how many mutation ids the device has generated
          request,    \* the exchange in flight, of which there is at most one
          response,   \* its answer on the way back
          stray,      \* requests given up that may still reach the server
          rebinding,  \* devices whose confirmed rebind is yet to be written
          spent       \* how much of each bound is used

deviceVars == <<local, outbox, versions, state, minted>>
wireVars == <<request, response, stray>>
vars == <<serverVars, deviceVars, wireVars, rebinding, spent>>

Nothing == << >>   \* no request, no response
Idle(d) == request[d] = Nothing

(* Mutation of FreshState: a rebind does not ask for a new full export.    *)
SeededState == [serverId |-> 0, cursor |-> 0, baseline |-> FALSE,
                bootstrapped |-> FALSE, seeded |-> TRUE]

FreshState == [serverId |-> 0, cursor |-> 0, baseline |-> FALSE,
               bootstrapped |-> FALSE, seeded |-> FALSE]

Init ==
    /\ EmptyDatabase(1)
    /\ local = [d \in Devices |-> << >>]
    /\ outbox = [d \in Devices |-> << >>]
    /\ versions = [d \in Devices |-> << >>]
    /\ state = [d \in Devices |-> FreshState]
    /\ minted = [d \in Devices |-> 0]
    /\ request = [d \in Devices |-> Nothing]
    /\ response = [d \in Devices |-> Nothing]
    /\ stray = [d \in Devices |-> {}]
    /\ rebinding = {}
    /\ spent = [writes |-> 0, losses |-> 0, rebinds |-> 0]

-----------------------------------------------------------------------------
(* The outbox.                                                             *)

Queued(box) == UNION {DOMAIN box[n].changes : n \in DOMAIN box}
Unacked(box) == {n \in DOMAIN box : box[n].ack = 0}

(* The rows at the positions in S, in the order of their sequence numbers. *)
RowsAt(box, S) ==
    LET place(p) == Cardinality({q \in S : q <= p})
    IN [k \in 1..Cardinality(S) |-> box[CHOOSE p \in S : place(p) = k]]

(* groups of changes appended under fresh ids (_insertOutboxMutations).    *)
Enqueued(d, box, first, groups) ==
    box \o [n \in DOMAIN groups |->
              [id |-> <<d, first + n>>, changes |-> groups[n], ack |-> 0]]

(* One user transaction: the rows, and the mutations they cause.           *)
Write(d, after, difference) ==
    LET groups == IF difference = << >> THEN << >> ELSE Chunks(difference)
    IN /\ spent.writes < MaxWrites
       /\ spent' = [spent EXCEPT !.writes = @ + 1]
       /\ local' = [local EXCEPT ![d] = after]
       /\ outbox' = [outbox EXCEPT ![d] = Enqueued(d, @, minted[d], groups)]
       /\ minted' = [minted EXCEPT ![d] = @ + Len(groups)]
       /\ UNCHANGED <<serverVars, versions, state, wireVars, rebinding>>

SaveComic(d, i, comic) ==
    LET after == UpsertComic(local[d], i, comic)
    IN Write(d, after, WireDifference(local[d], after))

SaveCopy(d, k, row) ==
    LET after == SaveCopyRow(local[d], k, row)
        only(c) == Restrict(c, {k} \cap DOMAIN c)
    IN /\ ~MovesCopy(local[d], Row(k, row))
       /\ Write(d, after, WireDifference(only(local[d]), only(after)))

SaveBarcode(d, b, i) ==
    LET after == Overlay(local[d], Row(b, [issue |-> i, deleted |-> FALSE]))
    IN Write(d, after, WireDifference(local[d], after))

-----------------------------------------------------------------------------
(* Preparing an exchange.  The first time, everything local is staged in   *)
(* the outbox, where it protects its rows from the baseline; until the     *)
(* baseline is complete the request only pulls; a baseline that ended at   *)
(* revision zero stages the collection once more.                          *)

Seed(d, box, count) ==
    Enqueued(d, box, count, FullSnapshot(local[d], Queued(box)))

(* The oldest unacknowledged mutations that fit a request; at least one.   *)
UpTo(box, n) == {p \in Unacked(box) : p <= n}
ChangesUpTo(box, n) ==
    UNION {{p} \X DOMAIN box[p].changes : p \in UpTo(box, n)}

Fitting(box) ==
    {n \in Unacked(box) :
       /\ Cardinality(UpTo(box, n)) <= BatchLimit
       /\ UpTo(box, n) # {n} => Cardinality(ChangesUpTo(box, n)) <= MaxUpload}

Batch(box) ==
    LET rows == RowsAt(box, Fitting(box))
    IN [k \in DOMAIN rows |-> [id |-> rows[k].id, changes |-> rows[k].changes]]

Prepare(d) ==
    LET s == state[d]
        staged == IF s.seeded THEN outbox[d] ELSE Seed(d, outbox[d], minted[d])
        count == minted[d] + Len(staged) - Len(outbox[d])
        restage == s.baseline /\ ~s.bootstrapped /\ s.cursor = 0
        box == IF restage THEN Seed(d, staged, count) ELSE staged
    IN /\ Idle(d)
       /\ outbox' = [outbox EXCEPT ![d] = box]
       /\ minted' = [minted EXCEPT ![d] = @ + Len(box) - Len(outbox[d])]
       /\ state' = [state EXCEPT ![d].seeded = TRUE,
                                 ![d].bootstrapped = @ \/ s.baseline]
       /\ request' = [request EXCEPT ![d] =
             [id |-> d, serverId |-> s.serverId, cursor |-> s.cursor,
              mutations |-> IF s.baseline THEN Batch(box) ELSE << >>]]
       /\ UNCHANGED <<serverVars, local, versions, response, stray, rebinding,
                      spent>>

-----------------------------------------------------------------------------
(* The server's side of an exchange.                                       *)

Serve(d) ==
    /\ request[d] # Nothing /\ response[d] = Nothing
    /\ \/ \E n \in 0..PageLimit :
            /\ Commit(request[d], n)
            /\ response' = [response EXCEPT ![d] =
                              Page(log', receipts', request[d], n)]
       \/ /\ Verdict(request[d]) \notin {"ok", "replayed"}
          /\ response' = [response EXCEPT ![d] =
                            [refused |-> Verdict(request[d])]]
          /\ UNCHANGED serverVars
    /\ UNCHANGED <<deviceVars, request, stray, rebinding, spent>>

(* A request its device no longer waits for: processed, answer discarded.  *)
ServeStray(d) ==
    \E req \in stray[d] :
        /\ \/ \E n \in 0..PageLimit : Commit(req, n)
           \/ Verdict(req) \notin {"ok", "replayed"} /\ UNCHANGED serverVars
        /\ stray' = [stray EXCEPT ![d] = @ \ {req}]
        /\ UNCHANGED <<deviceVars, request, response, rebinding, spent>>

(* A timeout, a broken connection or the death of the app: the device has  *)
(* only its database, a rebind not yet written dies with the app, and the  *)
(* request may or may not arrive some day.                                 *)
GiveUp(d) ==
    /\ ~Idle(d) /\ spent.losses < MaxLosses
    /\ spent' = [spent EXCEPT !.losses = @ + 1]
    /\ request' = [request EXCEPT ![d] = Nothing]
    /\ response' = [response EXCEPT ![d] = Nothing]
    /\ stray' = [stray EXCEPT ![d] =
                   @ \cup (IF response[d] = Nothing THEN {request[d]} ELSE {})]
    /\ rebinding' \in {rebinding, rebinding \ {d}}
    /\ UNCHANGED <<serverVars, deviceVars>>

-----------------------------------------------------------------------------
(* Applying an answer.                                                     *)

Position(box, m) == CHOOSE n \in DOMAIN box : box[n].id = m
IsQueued(box, m) == \E n \in DOMAIN box : box[n].id = m

(* The checks of HttpSyncV2Transport._validateExchange: the request's      *)
(* mutations are all acknowledged, after the cursor, each at the group     *)
(* that carries it or beyond a page that has more.                         *)
ValidExchange(req, page) ==
    /\ req.serverId \in {0, page.serverId}
    /\ page.nextCursor = req.cursor + Len(page.groups)
    /\ page.hasMore => page.groups # << >>
    /\ DOMAIN page.acks = {req.mutations[p].id : p \in DOMAIN req.mutations}
    /\ \A m \in DOMAIN page.acks :
          /\ page.acks[m] > req.cursor
          /\ page.acks[m] <= page.nextCursor =>
                page.groups[page.acks[m] - req.cursor].mutation = m
          /\ page.acks[m] > page.nextCursor => page.hasMore

(* The outbox with the page's acknowledgements recorded.                   *)
Acknowledged(box, page) ==
    [n \in DOMAIN box |->
       IF box[n].id \in DOMAIN page.acks
       THEN [box[n] EXCEPT !.ack = page.acks[box[n].id]] ELSE box[n]]

(* Mutations of ProtectsLocal: a mutation acknowledged beyond the page no  *)
(* longer protects its rows; it still does at its own revision.            *)
ProtectsUnacked(box, k, revision) ==
    \E n \in DOMAIN box : k \in DOMAIN box[n].changes /\ box[n].ack = 0

ProtectsOwnGroup(box, k, revision) ==
    \E n \in DOMAIN box : k \in DOMAIN box[n].changes
                          /\ (box[n].ack = 0 \/ box[n].ack >= revision)

(* A local mutation that the group at this revision does not include yet   *)
(* (_hasNewerLocalMutation); the changes of a group it leaves to apply.    *)
ProtectsLocal(box, k, revision) ==
    \E n \in DOMAIN box : k \in DOMAIN box[n].changes
                          /\ (box[n].ack = 0 \/ box[n].ack > revision)

KnownRevision(vs, k) == IF k \in DOMAIN vs THEN vs[k] ELSE 0

AppliedKeys(box, vs, group, revision) ==
    {k \in DOMAIN group.changes : KnownRevision(vs, k) < revision
                                  /\ ~ProtectsLocal(box, k, revision)}

(* The checks inside the applying transaction, against the database as it  *)
(* is now rather than as it was when the request left.                     *)
ApplicablePage(d, page) ==
    LET box == Acknowledged(outbox[d], page)
        cursor == state[d].cursor
    IN /\ state[d].serverId \in {0, page.serverId}
       /\ page.nextCursor = cursor + Len(page.groups)
       /\ \A m \in DOMAIN page.acks :
             /\ page.acks[m] > cursor
             /\ IsQueued(outbox[d], m)
             /\ outbox[d][Position(outbox[d], m)].ack \in {0, page.acks[m]}
       /\ \A n, p \in DOMAIN box : box[n].ack # 0 /\ box[n].ack = box[p].ack => n = p
       /\ ~page.hasMore => \A n \in DOMAIN box : box[n].ack <= page.nextCursor
       /\ \A n \in DOMAIN box, g \in DOMAIN page.groups :
             box[n].ack # 0 =>
               (box[n].ack = cursor + g <=> box[n].id = page.groups[g].mutation)
       /\ \A g \in DOMAIN page.groups :
             ~MovesCopy(local[d], Restrict(page.groups[g].changes,
                AppliedKeys(box, versions[d], page.groups[g], cursor + g)))

(* The answer is a page, and passes both layers of checks.                 *)
Accepted(d, page) ==
    "refused" \notin DOMAIN page /\ ValidExchange(request[d], page)
                                /\ ApplicablePage(d, page)

(* One group of a page, at its revision: the rows and versions after it,   *)
(* and the issues whose copies have been changed so far.                   *)
ApplyGroup(acc, g) ==
    LET changes == g.group.changes
        keys == AppliedKeys(g.box, acc.versions, g.group, g.revision)
        newer == {k \in DOMAIN changes : KnownRevision(acc.versions, k) < g.revision}
    IN [rows |-> ApplyRows(acc.rows, changes, keys),
        versions |-> Overlay(acc.versions, [k \in newer |-> g.revision]),
        issues |-> acc.issues \cup {changes[k].issue : k \in keys \cap Copies}]

(* The rows and versions after every group of the page; then the flags of  *)
(* the issues whose copies the page changed.                               *)
ApplyGroups(d, box, page) ==
    LET done == FoldLeft(ApplyGroup,
                  [rows |-> local[d], versions |-> versions[d], issues |-> {}],
                  [g \in DOMAIN page.groups |->
                     [group |-> page.groups[g], revision |-> page.cursor + g,
                      box |-> box]])
    IN [rows |-> RecomputeFlags(done.rows, done.issues), versions |-> done.versions]

(* Mutation of Passed: an acknowledgement is enough.                       *)
PassedWhenAcked(m, cursor) == m.ack # 0

(* An outbox row whose group the cursor has reached is deleted.            *)
Passed(m, cursor) == m.ack # 0 /\ m.ack <= cursor

(* One transaction: acknowledgements, rows, versions, cursor, and the      *)
(* outbox rows the new cursor has passed.                                  *)
Apply(d) ==
    LET page == response[d]
        box == Acknowledged(outbox[d], page)
        result == ApplyGroups(d, box, page)
    IN /\ page # Nothing /\ Accepted(d, page)
       /\ local' = [local EXCEPT ![d] = result.rows]
       /\ versions' = [versions EXCEPT ![d] = result.versions]
       /\ outbox' = [outbox EXCEPT ![d] =
             RowsAt(box, {n \in DOMAIN box : ~Passed(box[n], page.nextCursor)})]
       /\ state' = [state EXCEPT ![d].serverId = page.serverId,
             ![d].cursor = page.nextCursor, ![d].baseline = @ \/ ~page.hasMore,
             ![d].bootstrapped = @ \/ (~page.hasMore /\ page.nextCursor > 0)]
       /\ request' = [request EXCEPT ![d] = Nothing]
       /\ response' = [response EXCEPT ![d] = Nothing]
       /\ UNCHANGED <<serverVars, minted, stray, rebinding, spent>>

(* A refusal, or an answer that fails a check: the sync ends with an error *)
(* and changes nothing.                                                    *)
Reject(d) ==
    /\ response[d] # Nothing /\ ~Accepted(d, response[d])
    /\ request' = [request EXCEPT ![d] = Nothing]
    /\ response' = [response EXCEPT ![d] = Nothing]
    /\ UNCHANGED <<serverVars, deviceVars, stray, rebinding, spent>>

-----------------------------------------------------------------------------
(* The user confirms a rebind ("Poveži drugi ili novi server"), refused    *)
(* while a sync is active; the check is made before an await, so that a    *)
(* timer may start an exchange before the rebind is written.               *)
ConfirmRebind(d) ==
    /\ Idle(d) /\ spent.rebinds < MaxRebinds
    /\ spent' = [spent EXCEPT !.rebinds = @ + 1]
    /\ rebinding' = rebinding \cup {d}
    /\ UNCHANGED <<serverVars, deviceVars, wireVars>>

(* The server's identity, cursor, versions and acknowledgements are        *)
(* forgotten; the rows and the outbox stay.                                *)
Rebind(d) ==
    /\ d \in rebinding
    /\ rebinding' = rebinding \ {d}
    /\ outbox' = [outbox EXCEPT ![d] =
                    [n \in DOMAIN @ |-> [@[n] EXCEPT !.ack = 0]]]
    /\ versions' = [versions EXCEPT ![d] = << >>]
    /\ state' = [state EXCEPT ![d] = FreshState]
    /\ UNCHANGED <<serverVars, local, minted, wireVars, spent>>

LoseDatabase ==
    /\ serverId < MaxServerId
    /\ ReplaceDatabase
    /\ UNCHANGED <<deviceVars, wireVars, rebinding, spent>>

UserWrite(d) ==
    \/ \E i \in Issues, comic \in ComicInputs : SaveComic(d, i, comic)
    \/ \E edit \in CopyInputs : SaveCopy(d, edit[1], edit[2])
    \/ \E b \in Barcodes, i \in BarcodeInputs : SaveBarcode(d, b, i)

(* What the app and the network do of themselves with an exchange.         *)
Exchange(d) == Prepare(d) \/ Serve(d) \/ Apply(d) \/ Reject(d)

Next ==
    \/ \E d \in Devices : \/ UserWrite(d) \/ Exchange(d)
                          \/ ServeStray(d) \/ GiveUp(d)
                          \/ ConfirmRebind(d) \/ Rebind(d)
    \/ LoseDatabase

(* The timers of SyncCoordinator start a sync again and again, and each    *)
(* exchange gets through unless it is given up; users owe nothing, and a   *)
(* stray request may never arrive.  Some step of Exchange(d) is always     *)
(* enabled, and each changes the request or its answer, so this is         *)
(* fairness of whichever step is due.                                      *)
Fairness == \A d \in Devices : []<><<Exchange(d)>>_<<request[d], response[d]>>

Spec == Init /\ [][Next]_vars
FairSpec == Spec /\ Fairness
=============================================================================
