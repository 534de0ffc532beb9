--------------------------- MODULE SyncProperties ---------------------------
(***************************************************************************)
(* What the exchange of SyncProtocol promises its users.                   *)
(***************************************************************************)
EXTENDS SyncProtocol

(* The database a device follows is the one the server has now.            *)
Follows(d) == state[d].serverId = serverId

(* Nothing queued concerns key k or, when k is an issue, a copy of it.     *)
Settled(d, k) ==
    LET touched == Queued(outbox[d])
    IN /\ k \notin touched
       /\ k \in Issues => CopiesOf(local[d], k) \cap touched = {}

SameRow(c1, c2, k) ==
    (k \in DOMAIN c1 <=> k \in DOMAIN c2) /\ (k \in DOMAIN c1 => c1[k] = c2[k])

(* Every copy is of one issue for good (the ids of copies are UUIDs, those *)
(* of migrated copies derived from their issue), and no copy a user saves  *)
(* is both on the shelf and deleted (the app computes active as owned and  *)
(* not deleted): home says of which issue.                                 *)
IsHome(home) ==
    /\ \A edit \in CopyInputs : /\ edit[2].issue = home[edit[1]]
                                /\ edit[2].deleted => ~edit[2].active
    /\ \A i \in Issues : home[PrimaryCopy[i]] = i /\ home[SecondaryCopy[i]] = i

CopiesHaveHomes == \E home \in [Copies -> Issues] : IsHome(home)

-----------------------------------------------------------------------------
(* Every row of the device is a collection row, and every queued mutation  *)
(* has an id of the device and respects the protocol's limit.              *)
TypeOK ==
    /\ rebinding \subseteq Devices
    /\ \A d \in Devices :
        /\ IsCollection(local[d])
        /\ state[d].cursor \in Nat /\ state[d].serverId \in 0..serverId
        /\ minted[d] \in Nat
        /\ \A n \in DOMAIN outbox[d] :
              /\ outbox[d][n].id \in {d} \X (1..minted[d])
              /\ IsCollection(outbox[d][n].changes)
              /\ Cardinality(DOMAIN outbox[d][n].changes) \in 1..MaxChanges

(* No answer of the server the device follows is ever refused: neither the *)
(* server's checks nor the two layers of checks in the app can turn a lost *)
(* response, a retry or a late request into a permanent error.             *)
ExchangesSucceed ==
    \A d \in Devices : LET page == response[d] IN
        page # Nothing =>
            \/ Accepted(d, page)
            \/ "refused" \in DOMAIN page /\ page.refused = "server_mismatch"

(* A device shows exactly what the server held at the device's cursor, for *)
(* every key no queued mutation of its own concerns: no group is skipped,  *)
(* applied twice or overwritten by an older one.                           *)
ReplicaAgrees ==
    \A d \in Devices : LET held == EntitiesAt(state[d].cursor) IN
        Follows(d) /\ state[d].seeded =>
            \A k \in Keys : Settled(d, k) => SameRow(local[d], held, k)

(* The user fields of an entry differ from those of the server's history   *)
(* only while a mutation of that entry is queued, though changes to its    *)
(* copies upload no entry (_wireDifference): no rating or note is dropped  *)
(* as a mere derived change.                                               *)
UserFieldsAgree ==
    \A d \in Devices : LET held == EntitiesAt(state[d].cursor) IN
        Follows(d) /\ state[d].seeded =>
            \A i \in Issues \ Queued(outbox[d]) :
                EntryOf(local[d], i).value = EntryOf(held, i).value

(* A device's deletion of an entry loses only to a copy on the shelf that  *)
(* some other device has told the server of, also when the limit on        *)
(* changes splits the deletion (docs/sync-v2.md, conflict and deletion     *)
(* policy).                                                                *)
DeletionIsObservedRemove ==
    \A r \in DOMAIN log :
        LET m == log[r].mutation
            sent == receipts[m].payload
        IN \A i \in DOMAIN sent \cap Issues :
            sent[i].deleted /\ ~log[r].changes[i].deleted =>
                \E k \in ActiveCopies(EntitiesAt(r), i) : \E s \in 1..r :
                    k \in DOMAIN log[s].changes /\ log[s].mutation[1] # m[1]

(* While a user's edit waits in the outbox, no remote group overwrites it: *)
(* the row shows the latest queued value, of an entry its user fields.     *)
PendingEditVisible ==
    \A d \in Devices : \A n \in DOMAIN outbox[d] :
        \A k \in DOMAIN outbox[d][n].changes :
            (\A p \in DOMAIN outbox[d] :
                k \in DOMAIN outbox[d][p].changes => p <= n)
            => IF k \in Issues
               THEN local[d][k].value = outbox[d][n].changes[k].value
               ELSE local[d][k] = outbox[d][n].changes[k]

(* "Active, non-deleted copies are authoritative for owned/duplicate state"*)
(* (LocalDatabase.saveCopy), on the device as they are on the server.      *)
LocalDerivedFlags ==
    \A d \in Devices : \A i \in DOMAIN local[d] \cap Issues :
        ~local[d][i].deleted =>
            /\ local[d][i].owned <=> ActiveCopies(local[d], i) # {}
            /\ local[d][i].duplicate <=> SeveralActive(local[d], i)

-----------------------------------------------------------------------------
(* The protocol implements one shared history: see SharedHistory.          *)
Abstract == INSTANCE SharedHistory WITH
    Mutations <- MutationIds,
    history <- [r \in DOMAIN log |-> log[r].mutation],
    queued <- [d \in Devices |-> {outbox[d][n].id : n \in DOMAIN outbox[d]}],
    seen <- [d \in Devices |-> state[d].cursor]

SharesOneHistory == Abstract!HistorySpec

(* Once users stop writing, every device empties its outbox and all hold   *)
(* what the server holds.                                                  *)
EventuallyConverged ==
    <>[](\A d \in Devices : /\ outbox[d] = << >>
                            /\ state[d].cursor = Len(log)
                            /\ local[d] = entities)
=============================================================================
