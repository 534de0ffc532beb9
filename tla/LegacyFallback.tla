--------------------------- MODULE LegacyFallback ---------------------------
(***************************************************************************)
(* Moving from sync v1 to sync v2.  An upgraded app tries v2, and while    *)
(* the server does not know that route yet falls back to v1, which carries *)
(* one flat row per issue and lets the later timestamp win.  One day the   *)
(* server is upgraded as well; from then on v2 may be activated at any     *)
(* time, by this device or another one of the account.                     *)
(*                                                                         *)
(* The device marks a fallback in its database before the request leaves:  *)
(* the cursor, and how much of the outbox the request stands for.  v1 rows *)
(* carry updated_at, so that this module adds the clock and the stamps to  *)
(* SyncProtocol; what it adds to its actions is the other half of the same *)
(* transaction.  Clocks agree.                                             *)
(***************************************************************************)
EXTENDS SyncProperties

CONSTANTS ElsewhereComics,  \* flat comics other devices of the account save
          SharedComic,      \* a flat comic from before the app's upgrade
          OldComics,        \* what its user had made of it since the last sync
          MaxElsewhere,     \* bound: writes of other devices
          MaxTroubles,      \* bound: exchanges given up and rebinds together
          MaxClock          \* bound: the clock

ASSUME LegacyAssumption == MaxClock \in Nat \ {0} /\ MaxElsewhere \in Nat

VARIABLES clock,
          comics,     \* the server's table comics: issue -> [comic, at]
          routed,     \* the server has the v2 route
          legacy,     \* the v1 columns of sync_state, and the preferences' cursor
          stamp,      \* updated_at of the device's rows
          visits,     \* how much of MaxElsewhere is used
          edits       \* history variable: the last user edit of each row, and
                      \* whether v1 has decided about it

legacyVars == <<clock, comics, routed, legacy, stamp, visits, edits>>
allVars == <<vars, legacyVars>>

UnmarkedState == [pending |-> FALSE, since |-> 0, prefix |-> 0]
Marked(d) == legacy[d].mark.pending
Cutover(d) == Max({legacy[d].cursor, legacy[d].prefs})

-----------------------------------------------------------------------------
(* Flat rows.                                                              *)

(* The flat comic of a device's issue (_comicProjection).                  *)
FlatComic(c, i) ==
    [owned |-> c[i].owned, duplicate |-> c[i].duplicate,
     deleted |-> c[i].deleted, value |-> c[i].value,
     copyValue |-> IF PrimaryOf(c, i) \in DOMAIN c THEN c[PrimaryOf(c, i)].value
                   ELSE DefaultValue]

(* The entities a flat comic stands for (_v1_changes).                     *)
LegacyChanges(i, comic) ==
    LET on == comic.owned /\ ~comic.deleted
        twice == comic.duplicate /\ ~comic.deleted
        copy(active, gone, v) ==
            [issue |-> i, active |-> active, deleted |-> gone, value |-> v]
    IN Overlay(Row(i, [deleted |-> comic.deleted, owned |-> comic.owned,
                       wanted |-> ~comic.owned /\ ~comic.deleted,
                       duplicate |-> comic.duplicate, value |-> comic.value]),
         Overlay(Row(PrimaryCopy[i], copy(on, comic.deleted, comic.copyValue)),
                 Row(SecondaryCopy[i],
                     copy(twice /\ comic.owned, ~twice, DefaultValue))))

(* The flat comic of the server's entities (_refresh_v1_projection).       *)
ProjectedComic(c, i) ==
    LET kept == {k \in CopiesOf(c, i) : ~c[k].deleted}
        on == ActiveCopies(c, i)
        first == IF on # {} THEN on ELSE kept
    IN [owned |-> on # {}, duplicate |-> SeveralActive(c, i),
        deleted |-> i \notin DOMAIN c \/ c[i].deleted,
        value |-> EntryOf(c, i).value,
        copyValue |-> IF first = {} THEN DefaultValue ELSE c[FirstCopy(first)].value]

(* The entries of a v2 group, projected one by one: a row's time always    *)
(* moves on.                                                               *)
IssueOf(changes, k) == IF k \in Issues THEN k ELSE changes[k].issue

Projection(groups, after) ==
    LET hits(i) == {r \in DOMAIN groups : \E k \in DOMAIN groups[r].changes :
                                             IssueOf(groups[r].changes, k) = i}
        known == {i \in Issues : hits(i) # {}
                                 /\ (i \in DOMAIN after \/ i \in DOMAIN comics)}
        before(i) == IF i \in DOMAIN comics THEN comics[i].at ELSE 0
    IN [i \in known |-> [comic |-> ProjectedComic(after, i),
                         at |-> Max({clock, before(i) + 1})
                                  + Cardinality(hits(i)) - 1]]

ProjectCommit ==
    comics' = Overlay(comics,
                Projection(SubSeq(log', Len(log) + 1, Len(log')), entities'))

-----------------------------------------------------------------------------
(* The server.                                                             *)

(* Rows as groups of the history, under ids derived from their content.    *)
WithLegacyGroups(kind, rows) ==
    LET add(acc, i) ==
          LET changes == LegacyChanges(i, rows[i].comic)
          IN [log |-> Append(acc.log,
                        [mutation |-> <<kind, i, rows[i]>>,
                         changes |-> CanonicalizeGroup(acc.entities, changes)]),
              entities |-> RecordedEntities(acc.entities, changes)]
    IN FoldLeft(add, [log |-> log, entities |-> entities],
                SetToSeq(DOMAIN rows))

(* Rows of a request that are later than the server's.                     *)
Later(rows) ==
    {i \in DOMAIN rows : i \in DOMAIN comics => rows[i].at > comics[i].at}

(* The v1 endpoint takes the later rows; once v2 is active it takes none,  *)
(* and refuses a request that has any.  A server without v2 keeps the flat *)
(* rows only.                                                              *)
V1Refuses(rows) == activated /\ Later(rows) # {}

TakeRows(rows) ==
    LET later == Restrict(rows, Later(rows))
        after == WithLegacyGroups("v1", later)
    IN /\ ~V1Refuses(rows)
       /\ comics' = Overlay(comics, later)
       /\ IF routed THEN log' = after.log /\ entities' = after.entities
          ELSE UNCHANGED <<log, entities>>
       /\ UNCHANGED <<serverId, receipts, cache, activated>>

(* Its answer: the rows changed since the cursor, and the server's time.   *)
V1Answer(since) ==
    [rows |-> Restrict(comics', {i \in DOMAIN comics' : comics'[i].at > since}),
     time |-> Max({clock} \cup {comics'[i].at : i \in DOMAIN comics'})]

(* The server is upgraded: its flat rows become the first groups of the    *)
(* history (_bootstrap_v1).                                                *)
UpgradeServer ==
    LET after == WithLegacyGroups("bootstrap", comics)
    IN /\ ~routed /\ routed' = TRUE
       /\ log' = after.log /\ entities' = after.entities
       /\ UNCHANGED <<serverId, receipts, cache, activated, deviceVars, wireVars,
                      rebinding, spent, clock, comics, legacy, stamp, visits,
                      edits>>

(* Another device of the account saves a flat comic: through v1 while it   *)
(* may, or as an up-to-date v2 device.                                     *)
Elsewhere(i, comic) ==
    LET rows == Row(i, [comic |-> comic, at |-> clock])
        after == UpsertComic(entities, i, comic)
        count == Cardinality({r \in DOMAIN log : log[r].mutation[1] = "elsewhere"})
        req == [id |-> "elsewhere", serverId |-> serverId, cursor |-> Len(log),
                mutations |-> <<[id |-> <<"elsewhere", count + 1>>,
                                 changes |-> WireDifference(entities, after)]>>]
    IN /\ visits < MaxElsewhere
       /\ visits' = visits + 1
       /\ \/ Later(rows) # {} /\ TakeRows(rows)
          \/ /\ routed /\ WireDifference(entities, after) # << >>
             /\ \E n \in 0..PageLimit : Commit(req, n)
             /\ ProjectCommit
       /\ UNCHANGED <<deviceVars, wireVars, rebinding, spent, clock, routed,
                      legacy, stamp, edits>>

-----------------------------------------------------------------------------
(* The user's writes: SyncProtocol's, with the time of the rows.           *)

(* A copy's or a barcode's time moves on (_monotonicTimestamp).            *)
NextStamp(d, k) == IF k \in DOMAIN stamp[d] THEN Max({clock, stamp[d][k] + 1}) ELSE clock

Saved(d, keys, at) ==
    LET enqueued == Queued(SubSeq(outbox'[d], Len(outbox[d]) + 1, Len(outbox'[d])))
    IN /\ stamp' = [stamp EXCEPT ![d] =
                      IF state[d].serverId # 0 THEN @
                      ELSE Overlay(@, [k \in keys |-> at])]
       /\ edits' = [edits EXCEPT ![d] = Overlay(@,
                      [k \in enqueued |-> [row |-> local'[d][k], at |-> at,
                                       settled |-> FALSE]])]
       /\ UNCHANGED <<clock, comics, routed, legacy, visits>>

(* The rows an upsert of a flat comic writes.                              *)
Written(c, i, comic) ==
    LET others == OtherCopies(c, i)
        second == IF others # {} THEN {FirstCopy(others)} ELSE {SecondaryCopy[i]}
    IN {i, PrimaryOf(c, i)}
         \cup (IF comic.duplicate THEN second ELSE {})
         \cup (IF comic.deleted \/ ~comic.duplicate THEN others ELSE {})

SaveLegacyComic(d, i, comic) ==
    SaveComic(d, i, comic) /\ Saved(d, Written(local[d], i, comic), clock)

SaveLegacyCopy(d, k, row) ==
    SaveCopy(d, k, row) /\ Saved(d, {k, row.issue}, NextStamp(d, row.issue))

LinkBarcode(d, b, i) == SaveBarcode(d, b, i) /\ Saved(d, {b}, NextStamp(d, b))

-----------------------------------------------------------------------------
(* The history variable: v1 has decided about an edit once the server has  *)
(* read a row that carries it, whether it was the later one or not, or a   *)
(* later row has replaced it on the device.  Entries are compared in the   *)
(* user's fields, the rest of them is derived.                             *)

SameEdit(k, row, e) == IF k \in Issues THEN row.value = e.row.value ELSE row = e.row

EditedIssue(k, e) == IF k \in Issues THEN k ELSE e.row.issue

(* The flat comic of e's issue has the edit.                               *)
Carries(comic, k, e) ==
    LET changes == LegacyChanges(EditedIssue(k, e), comic)
    IN k \in DOMAIN changes /\ SameEdit(k, changes[k], e)

CarriedBy(rows, k, e) ==
    LET i == EditedIssue(k, e)
    IN i \in DOMAIN rows /\ rows[i].at >= e.at /\ Carries(rows[i].comic, k, e)

Settle(d, decided(_, _)) ==
    edits' = [edits EXCEPT ![d] =
                [k \in DOMAIN @ |->
                   [@[k] EXCEPT !.settled = @ \/ decided(k, edits[d][k])]]]

ReadBy(d, rows) == LET carried(k, e) == CarriedBy(rows, k, e) IN Settle(d, carried)

-----------------------------------------------------------------------------
(* Preparing an exchange.                                                  *)

(* Mutation of CleanKeys: what v1 cannot represent goes unnoticed.         *)
CleanByTime(d) == {k \in DOMAIN local[d] : stamp[d][k] <= Cutover(d)}

(* Rows a cutover leaves to the server's baseline: not written since the   *)
(* last v1 exchange, and nothing v1 could not represent.                   *)
CleanKeys(d) ==
    {k \in DOMAIN local[d] \ Barcodes :
        /\ stamp[d][k] <= Cutover(d)
        /\ k \in Copies =>
             LET i == local[d][k].issue
             IN \/ k = PrimaryCopy[i]
                \/ k = SecondaryCopy[i] /\ local[d][k].value = DefaultValue}

(* What prepareSyncV2 leaves out of the staging: nothing for a device that *)
(* has no v1 cursor or was rebound.                                        *)
Kept(d) == IF legacy[d].full \/ Cutover(d) = 0 THEN {} ELSE CleanKeys(d)

(* prepareSyncV2: SyncProtocol's Prepare, but for what is staged first.    *)
PrepareV2(d) ==
    LET s == state[d]
        staged == IF s.seeded THEN outbox[d]
                  ELSE Enqueued(d, outbox[d], minted[d],
                         FullSnapshot(local[d], Queued(outbox[d]) \cup Kept(d)))
        count == minted[d] + Len(staged) - Len(outbox[d])
        restage == s.baseline /\ ~s.bootstrapped /\ s.cursor = 0
        box == IF restage THEN Seed(d, staged, count) ELSE staged
    IN /\ Idle(d) /\ ~Marked(d)
       /\ outbox' = [outbox EXCEPT ![d] = box]
       /\ minted' = [minted EXCEPT ![d] = @ + Len(box) - Len(outbox[d])]
       /\ state' = [state EXCEPT ![d].seeded = TRUE,
                                 ![d].bootstrapped = @ \/ s.baseline]
       /\ legacy' = [legacy EXCEPT ![d].full = @ /\ s.seeded]
       /\ request' = [request EXCEPT ![d] =
             [id |-> d, serverId |-> s.serverId, cursor |-> s.cursor,
              mutations |-> IF s.baseline THEN Batch(box) ELSE << >>]]
       /\ UNCHANGED <<serverVars, local, versions, response, stray, rebinding,
                      spent, clock, comics, routed, stamp, visits, edits>>

(* The server of before has no such route.                                 *)
IsV1(message) == "since" \in DOMAIN message

NotFound(d) ==
    /\ ~routed /\ request[d] # Nothing /\ ~IsV1(request[d])
    /\ response[d] = Nothing
    /\ response' = [response EXCEPT ![d] = [refused |-> "not_found"]]
    /\ UNCHANGED <<serverVars, deviceVars, request, stray, rebinding, spent,
                   legacyVars>>

-----------------------------------------------------------------------------
(* The fallback.                                                           *)

(* prepareV1Fallback: the marker, and the rows written since the cursor or *)
(* waiting in the outbox.  A marked device asks from the marked cursor.    *)
MarkFallback(d) ==
    LET since == IF Marked(d) THEN legacy[d].mark.since ELSE Cutover(d)
        threshold == IF since = 0 THEN -1 ELSE since
        queued == Queued(outbox[d])
        chosen == {i \in Issues \cap DOMAIN local[d] :
                     \/ stamp[d][i] > threshold
                     \/ i \in queued
                     \/ CopiesOf(local[d], i) \cap queued # {}}
    IN /\ state[d].serverId = 0 /\ ~state[d].baseline
       /\ legacy' = [legacy EXCEPT ![d].mark =
             [pending |-> TRUE, since |-> since, prefix |-> Len(outbox[d])]]
       /\ request' = [request EXCEPT ![d] =
             [since |-> since,
              rows |-> [i \in chosen |-> [comic |-> FlatComic(local[d], i),
                                          at |-> stamp[d][i]]]]]
       /\ response' = [response EXCEPT ![d] = Nothing]
       /\ UNCHANGED <<serverVars, deviceVars, stray, rebinding, spent,
                      clock, comics, routed, stamp, visits, edits>>

(* v2 is not there; or a fallback was interrupted, which comes first.      *)
FallBack(d) == response[d] = [refused |-> "not_found"] /\ MarkFallback(d)
RetryFallback(d) == Idle(d) /\ Marked(d) /\ MarkFallback(d)

ServeV1(d) ==
    /\ request[d] # Nothing /\ IsV1(request[d]) /\ response[d] = Nothing
    /\ \/ /\ TakeRows(request[d].rows) /\ ReadBy(d, request[d].rows)
          /\ response' = [response EXCEPT ![d] = V1Answer(request[d].since)]
       \/ /\ V1Refuses(request[d].rows)
          /\ response' = [response EXCEPT ![d] = [refused |-> "v1_read_only"]]
          /\ UNCHANGED <<serverVars, comics, edits>>
    /\ UNCHANGED <<deviceVars, request, stray, rebinding, spent, clock, routed,
                   legacy, stamp, visits>>

(* Ids are fresh UUIDs: for the model, the ids after the last that is in   *)
(* use.  A cutover staged again and again does not count them up.          *)
LastId(d, box) ==
    LET sent == UNION {{req.mutations[p].id : p \in DOMAIN req.mutations} :
                         req \in {req \in stray[d] : ~IsV1(req)}}
        used == {box[n].id : n \in DOMAIN box} \cup sent
                  \cup {log[r].mutation : r \in DOMAIN log}
    IN Max({0} \cup {id[2] : id \in {id \in used : id[1] = d}})

(* The rows of an answer that are later than the device's are merged, and  *)
(* enqueue nothing (_mergeRemoteIntoTransaction).                          *)
Merged(d, rows) ==
    LET newer == {i \in DOMAIN rows :
                    i \in DOMAIN local[d] => stamp[d][i] < rows[i].at}
        merge(acc, i) ==
          [rows |-> UpsertComic(acc.rows, i, rows[i].comic),
           stamp |-> Overlay(acc.stamp,
              [k \in Written(acc.rows, i, rows[i].comic) |-> rows[i].at])]
    IN FoldLeft(merge, [rows |-> local[d], stamp |-> stamp[d]], SetToSeq(newer))

(* Mutation of Unconfirmed: nothing is left of the outbox.                 *)
Cleared(d) == << >>

(* The part of the outbox that was written since the request left.         *)
Unconfirmed(d) == SubSeq(outbox[d], legacy[d].mark.prefix + 1, Len(outbox[d]))

(* completeV1Fallback: the answer, the part of the outbox it stands for,   *)
(* the cursor.  The preferences are told next, unless the app dies.        *)
CompleteFallback(d) ==
    LET answer == response[d]
        merged == Merged(d, answer.rows)
        mark == legacy[d].mark
        cursor == Max({answer.time, legacy[d].cursor})
        replaced(k, e) == merged.stamp[k] > stamp[d][k]
    IN /\ answer # Nothing /\ "time" \in DOMAIN answer
       /\ mark.pending /\ state[d].serverId = 0 /\ ~state[d].baseline
       /\ local' = [local EXCEPT ![d] = merged.rows]
       /\ stamp' = [stamp EXCEPT ![d] = merged.stamp]
       /\ outbox' = [outbox EXCEPT ![d] = Unconfirmed(d)]
       /\ minted' = [minted EXCEPT ![d] = LastId(d, outbox'[d])]
       /\ versions' = [versions EXCEPT ![d] = << >>]
       /\ state' = [state EXCEPT ![d] = FreshState]
       /\ \E prefs \in {legacy[d].prefs, answer.time} :
             legacy' = [legacy EXCEPT ![d] =
                [mark |-> UnmarkedState, cursor |-> cursor, prefs |-> prefs,
                 full |-> FALSE]]
       /\ Settle(d, replaced)
       /\ request' = [request EXCEPT ![d] = Nothing]
       /\ response' = [response EXCEPT ![d] = Nothing]
       /\ UNCHANGED <<serverVars, stray, rebinding, spent, clock, comics,
                      routed, visits>>

(* promotePendingV1FallbackToV2: v2 was activated meanwhile; the whole     *)
(* outbox stays.                                                           *)
Promote(d) ==
    LET mark == legacy[d].mark
    IN /\ response[d] = [refused |-> "v1_read_only"]
       /\ mark.pending /\ state[d].serverId = 0 /\ ~state[d].baseline
       /\ versions' = [versions EXCEPT ![d] = << >>]
       /\ state' = [state EXCEPT ![d] = FreshState]
       /\ legacy' = [legacy EXCEPT ![d].mark = UnmarkedState, ![d].full = FALSE,
                        ![d].cursor = Max({mark.since, @})]
       /\ request' = [request EXCEPT ![d] = Nothing]
       /\ response' = [response EXCEPT ![d] = Nothing]
       /\ UNCHANGED <<serverVars, local, outbox, minted, stray, rebinding, spent,
                      clock, comics, routed, stamp, visits, edits>>

-----------------------------------------------------------------------------
(* The v2 exchange of SyncProtocol.  Once a page is applied the device is  *)
(* pinned and nothing asks for a stamp again: they are forgotten.          *)

ServeV2(d) ==
    /\ routed /\ request[d] # Nothing /\ ~IsV1(request[d])
    /\ Serve(d) /\ ProjectCommit
    /\ UNCHANGED <<clock, routed, legacy, stamp, visits, edits>>

ApplyV2(d) ==
    /\ response[d] # Nothing /\ "time" \notin DOMAIN response[d]
    /\ Apply(d)
    /\ stamp' = [stamp EXCEPT ![d] = << >>]
    /\ UNCHANGED <<clock, comics, routed, legacy, visits, edits>>

(* What ends a sync with an error: a refusal it does not handle, an answer *)
(* that fails a check, a fallback that a rebind has unmarked.              *)
Handled(d) ==
    /\ state[d].serverId = 0
    /\ \/ response[d] = [refused |-> "not_found"]
       \/ Marked(d) /\ response[d] = [refused |-> "v1_read_only"]

RejectLegacy(d) ==
    /\ response[d] # Nothing
    /\ IF "time" \in DOMAIN response[d]
       THEN /\ ~Marked(d)
            /\ request' = [request EXCEPT ![d] = Nothing]
            /\ response' = [response EXCEPT ![d] = Nothing]
            /\ UNCHANGED <<serverVars, deviceVars, stray, rebinding, spent>>
       ELSE ~Handled(d) /\ Reject(d)
    /\ UNCHANGED legacyVars

(* A late request that its device gave up.                                 *)
ServeLate(d) ==
    /\ \E req \in stray[d] :
          /\ stray' = [stray EXCEPT ![d] = @ \ {req}]
          /\ IF IsV1(req)
             THEN \/ TakeRows(req.rows) /\ ReadBy(d, req.rows)
                  \/ V1Refuses(req.rows) /\ UNCHANGED <<serverVars, comics, edits>>
             ELSE /\ \/ /\ routed /\ \E n \in 0..PageLimit : Commit(req, n)
                        /\ ProjectCommit
                     \/ /\ ~routed \/ Verdict(req) \notin {"ok", "replayed"}
                        /\ UNCHANGED <<serverVars, comics>>
                  /\ UNCHANGED edits
    /\ UNCHANGED <<deviceVars, request, response, rebinding, spent, clock, routed,
                   legacy, stamp, visits>>

Troubles == spent.losses + spent.rebinds

GiveUpLegacy(d) ==
    Troubles < MaxTroubles /\ GiveUp(d) /\ UNCHANGED legacyVars

-----------------------------------------------------------------------------
(* Rebinding (resetServerBinding): the database forgets the server and the *)
(* marker and will export everything; the preferences follow, unless the   *)
(* app dies in between.                                                    *)
RebindLegacy(d) ==
    /\ state[d].serverId = 0 /\ Rebind(d)
    /\ \E prefs \in {legacy[d].prefs, 0} :
          legacy' = [legacy EXCEPT ![d] =
             [mark |-> UnmarkedState, cursor |-> 0, prefs |-> prefs, full |-> TRUE]]
    /\ UNCHANGED <<clock, comics, routed, stamp, visits, edits>>

(* Bound: of an account that is not on v2 yet; SyncProtocol has the others.*)
ConfirmLegacyRebind(d) ==
    /\ ~routed /\ Troubles < MaxTroubles
    /\ ConfirmRebind(d) /\ UNCHANGED legacyVars

(* Bound: the clock stops when every device is pinned to v2, which never   *)
(* compares times.                                                         *)
Tick ==
    /\ clock < MaxClock /\ clock' = clock + 1
    /\ \E d \in Devices : state[d].serverId = 0
    /\ UNCHANGED <<vars, comics, routed, legacy, stamp, visits, edits>>

-----------------------------------------------------------------------------
(* An app of before v2 was upgraded: it has no outbox, and a flat comic it *)
(* shares with the server since time 1, perhaps edited at time 2 without a *)
(* sync, which counts as a write.  Or it is newly installed.               *)
OldApp(i, comic) == UpsertComic(<< >>, i, comic)

LegacyInit ==
    /\ EmptyDatabase(1) /\ routed = FALSE
    /\ outbox = [d \in Devices |-> << >>]
    /\ versions = [d \in Devices |-> << >>]
    /\ state = [d \in Devices |-> FreshState]
    /\ minted = [d \in Devices |-> 0]
    /\ request = [d \in Devices |-> Nothing]
    /\ response = [d \in Devices |-> Nothing]
    /\ stray = [d \in Devices |-> {}]
    /\ rebinding = {}
    /\ clock = 2 /\ visits = 0
    /\ \E i \in Issues :
         /\ comics = Row(i, [comic |-> SharedComic, at |-> 1])
         /\ \E age \in [Devices -> 0..2], last \in OldComics :
              LET rows(d) == IF age[d] = 0 THEN << >>
                             ELSE OldApp(i, IF age[d] = 1 THEN SharedComic ELSE last)
              IN /\ spent = [writes |-> Cardinality({d \in Devices : age[d] = 2}),
                             losses |-> 0, rebinds |-> 0]
                 /\ local = [d \in Devices |-> rows(d)]
                 /\ stamp = [d \in Devices |-> [k \in DOMAIN rows(d) |-> age[d]]]
                 /\ edits = [d \in Devices |->
                      [k \in DOMAIN WireDifference(OldApp(i, SharedComic), rows(d)) |->
                         [row |-> rows(d)[k], at |-> 2, settled |-> FALSE]]]
                 /\ legacy = [d \in Devices |->
                      [mark |-> UnmarkedState, cursor |-> 0, full |-> FALSE,
                       prefs |-> IF age[d] = 0 THEN 0 ELSE 1]]

LegacyWrite(d) ==
    \/ \E i \in Issues, comic \in ComicInputs : SaveLegacyComic(d, i, comic)
    \/ \E edit \in CopyInputs : SaveLegacyCopy(d, edit[1], edit[2])
    \/ \E b \in Barcodes, i \in BarcodeInputs : LinkBarcode(d, b, i)

LegacyExchange(d) ==
    \/ PrepareV2(d) \/ NotFound(d)
    \/ FallBack(d) \/ RetryFallback(d) \/ ServeV1(d)
    \/ CompleteFallback(d) \/ Promote(d)
    \/ ServeV2(d) \/ ApplyV2(d) \/ RejectLegacy(d)

LegacyNext ==
    \/ \E d \in Devices : \/ LegacyWrite(d) \/ LegacyExchange(d)
                          \/ GiveUpLegacy(d) \/ ServeLate(d)
                          \/ ConfirmLegacyRebind(d)
                          \/ RebindLegacy(d)
    \/ \E i \in Issues, comic \in ElsewhereComics : Elsewhere(i, comic)
    \/ UpgradeServer
    \/ Tick

LegacySpec == LegacyInit /\ [][LegacyNext]_allVars

(* As in SyncProtocol, syncs are repeated and not all are given up: some   *)
(* step that moves the exchange is taken again and again.  And somebody    *)
(* upgrades the server one day.                                            *)
ExchangeMoves(d) ==
    /\ <<request[d], response[d]>>' # <<request[d], response[d]>>
    /\ UNCHANGED spent

LegacyFairSpec ==
    /\ LegacySpec
    /\ \A d \in Devices : []<><<ExchangeMoves(d)>>_allVars
    /\ <>routed

-----------------------------------------------------------------------------
(* What becomes of an edit.                                                *)

Shown(d, k, e) == k \in DOMAIN local[d] /\ SameEdit(k, local[d][k], e)

InHistory(k, e) ==
    \E r \in DOMAIN log : k \in DOMAIN log[r].changes
                          /\ SameEdit(k, log[r].changes[k], e)

(* v1 has decided about it; one that is still on the device the server has *)
(* only if a flat row can express it.                                      *)
InFlatRows(d, k, e) ==
    /\ e.settled
    /\ Shown(d, k, e) => Carries(FlatComic(local[d], EditedIssue(k, e)), k, e)

(* The next v2 request will stage it.                                      *)
ToBeStaged(d, k, e) ==
    /\ Shown(d, k, e) /\ ~state[d].seeded
    /\ k \notin Kept(d)

(* No edit of a user is lost on the way from v1 to v2: until the server    *)
(* has read it, or a later row has come in its place, it waits in the      *)
(* outbox or will be staged there, whenever the app dies, answers are lost *)
(* or the server is upgraded (docs/sync-v2.md, compatibility rollout).     *)
NoEditIsLost ==
    \A d \in Devices : \A k \in DOMAIN edits[d] :
        LET e == edits[d][k]
        IN \/ InHistory(k, e)
           \/ k \in Queued(outbox[d]) \/ InFlatRows(d, k, e) \/ ToBeStaged(d, k, e)
=============================================================================
