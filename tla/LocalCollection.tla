-------------------------- MODULE LocalCollection ---------------------------
(***************************************************************************)
(* What one transaction of the app's LocalDatabase does to the domain rows *)
(* of a device and to its outbox: the user's writes, the wire difference   *)
(* they enqueue, the seeding of a full snapshot, and the application of a  *)
(* remote group.  A device's rows are a collection as in CopyAuthority.    *)
(* Timestamps, issue hints, covers and the bundled catalog are left out:   *)
(* every issue is a known one, and sync v2 never compares device clocks.   *)
(***************************************************************************)
EXTENDS CopyAuthority, SequencesExt

CONSTANTS PrimaryCopy,    \* migratedCopyId(issue, 0): the same on every device
          SecondaryCopy,  \* migratedCopyId(issue, 1)
          Rank,           \* the order "ordinal, id" of the copies of an issue
          MaxChanges      \* _maximumChangesPerMutation

ASSUME LocalAssumption ==
    /\ IsFiniteSet(Keys)
    /\ PrimaryCopy \in [Issues -> Copies] /\ SecondaryCopy \in [Issues -> Copies]
    /\ Rank \in [Copies -> Nat]
    /\ \A j, k \in Copies : Rank[j] = Rank[k] => j = k
    /\ MaxChanges \in Nat \ {0}

(* The comics of the v1 form: an entry, and the copy it stands for.        *)
FlatComics == [owned: BOOLEAN, duplicate: BOOLEAN, deleted: BOOLEAN,
               value: Values, copyValue: Values]

Row(k, data) == [x \in {k} |-> data]
FirstCopy(S) == CHOOSE k \in S : \A j \in S : Rank[k] <= Rank[j]
EntryOf(c, i) == IF i \in DOMAIN c THEN c[i] ELSE DefaultEntry

(* The flags derived from the copies on the shelf, for an entry whose      *)
(* deleted field is already decided.                                       *)
WithDerivedFlags(entry, c, i) ==
    LET on == ActiveCopies(c, i) # {}
    IN [entry EXCEPT !.owned = on, !.wanted = ~on /\ ~entry.deleted,
                     !.duplicate = SeveralActive(c, i)]

-----------------------------------------------------------------------------
(* The copy a flat comic stands for: an active one first, then by order.   *)
PrimaryOf(c, i) ==
    IF ActiveCopies(c, i) # {} THEN FirstCopy(ActiveCopies(c, i))
    ELSE IF CopiesOf(c, i) # {} THEN FirstCopy(CopiesOf(c, i))
    ELSE PrimaryCopy[i]

OtherCopies(c, i) == CopiesOf(c, i) \ {PrimaryOf(c, i)}

(* Saving a flat comic: the entry, the primary copy, and either a second   *)
(* copy (a duplicate) or a tombstone for every other one; deleting the     *)
(* comic tombstones them all.                                              *)
UpsertComic(c, i, comic) ==
    LET on == comic.owned /\ ~comic.deleted
        gone(k) == [c[k] EXCEPT !.active = FALSE, !.deleted = TRUE]
        state(v) == [issue |-> i, active |-> on, deleted |-> comic.deleted,
                     value |-> v]
        others == OtherCopies(c, i)
        entry == Row(i, [deleted |-> comic.deleted, owned |-> comic.owned,
                         wanted |-> ~comic.owned /\ ~comic.deleted,
                         duplicate |-> comic.duplicate, value |-> comic.value])
        primary == Row(PrimaryOf(c, i), state(comic.copyValue))
        second == IF others # {}
                  THEN Row(FirstCopy(others), state(c[FirstCopy(others)].value))
                  ELSE Row(SecondaryCopy[i], state(DefaultValue))
        tombstones == [k \in others |-> gone(k)]
        rest == IF ~comic.duplicate THEN tombstones
                ELSE IF comic.deleted THEN Overlay(second, tombstones) ELSE second
    IN Overlay(c, Overlay(entry, Overlay(primary, rest)))

(* Saving one copy recomputes the entry; an active copy revives it.        *)
SaveCopyRow(c, k, row) ==
    LET after == Overlay(c, Row(k, row))
        old == EntryOf(c, row.issue)
        entry == [old EXCEPT !.deleted = @ /\ ActiveCopies(after, row.issue) = {}]
    IN Overlay(after, Row(row.issue, WithDerivedFlags(entry, after, row.issue)))

(* Keys of after whose wire entity differs from before, without an entry   *)
(* of which only derived fields changed along with a copy: the server      *)
(* recomputes those, and sending them could overwrite newer user fields.   *)
Dirty(before, after) ==
    {k \in DOMAIN after : k \in DOMAIN before => before[k] # after[k]}

(* Mutation of OnlyDerivedChanged: user fields are not compared.           *)
NeverDeletedOrRevived(before, after, i) ==
    ~after[i].deleted /\ ~EntryOf(before, i).deleted

OnlyDerivedChanged(before, after, i) ==
    /\ ~after[i].deleted
    /\ ~EntryOf(before, i).deleted
    /\ after[i].value = EntryOf(before, i).value

WireDifference(before, after) ==
    LET dirty == Dirty(before, after)
    IN Restrict(after, {k \in dirty :
         ~ /\ k \in Issues
           /\ CopiesOf(after, k) \cap dirty # {}
           /\ OnlyDerivedChanged(before, after, k)})

(* One outbox mutation per MaxChanges changes, a collection tombstone in   *)
(* the last one: it must not reach the server before the copies it buried. *)
(* Mutation of InWireOrder: tombstones travel first.                       *)
TombstonesFirst(changes) ==
    LET tombs == {k \in DOMAIN changes \cap Issues : changes[k].deleted}
    IN SetToSeq(tombs) \o SetToSeq(DOMAIN changes \ tombs)

InWireOrder(changes) ==
    LET tombs == {k \in DOMAIN changes \cap Issues : changes[k].deleted}
    IN SetToSeq(DOMAIN changes \ tombs) \o SetToSeq(tombs)

Chunks(changes) ==
    LET order == InWireOrder(changes)
        count == (Len(order) + MaxChanges - 1) \div MaxChanges
    IN [n \in 1..count |->
          Restrict(changes,
                   ToSet(SubSeq(order, (n - 1) * MaxChanges + 1,
                                IF n * MaxChanges < Len(order)
                                THEN n * MaxChanges ELSE Len(order))))]

(* The groups of changes a full snapshot enqueues: per issue, then per     *)
(* barcode, whatever the outbox does not already hold.                     *)
SnapshotKeys(c) ==
    LET ofIssue(i) == ({i} \cap DOMAIN c) \cup CopiesOf(c, i)
        issues == SetToSeq(Issues)
        barcodes == SetToSeq(Barcodes \cap DOMAIN c)
    IN [n \in DOMAIN issues |-> ofIssue(issues[n])]
         \o [n \in DOMAIN barcodes |-> {barcodes[n]}]

FullSnapshot(c, queued) ==
    FoldLeft(\o, << >>, [n \in DOMAIN SnapshotKeys(c) |->
                          Chunks(Restrict(c, SnapshotKeys(c)[n] \ queued))])

-----------------------------------------------------------------------------
(* Applying those changes of a remote group that no newer local mutation   *)
(* protects: a copy loses its active flag with its tombstone, and every    *)
(* issue whose copies changed gets its flags recomputed afterwards.        *)
AppliedRow(data, k) ==
    IF k \in Copies THEN [data EXCEPT !.active = @ /\ ~data.deleted] ELSE data

ApplyRows(c, changes, keys) ==
    Overlay(c, [k \in DOMAIN changes \cap keys |-> AppliedRow(changes[k], k)])

RecomputeFlags(c, issues) ==
    Overlay(c, [i \in issues |-> WithDerivedFlags(EntryOf(c, i), c, i)])
=============================================================================
