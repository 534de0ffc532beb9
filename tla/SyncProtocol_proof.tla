------------------------- MODULE SyncProtocol_proof -------------------------
(***************************************************************************)
(* Proofs about devices and their server: what every device and every      *)
(* message between them is (ProtocolType), that the history of the server  *)
(* is as sound with devices for clients as with any others                 *)
(* (HistoryOfDevices), that devices that stay with one database share one  *)
(* history (ImplementsSharedHistory), and that such a device shows what is *)
(* queued in its outbox (PendingEditsShow).  The last section says when    *)
(* rows agree with a history, and that writes keep it so, for              *)
(* ReplicaAgreement_proof.                                                 *)
(***************************************************************************)
EXTENDS SyncProperties, SyncServer_proof

-----------------------------------------------------------------------------
(* The rows at some positions, in their order.                             *)
LEMMA RowsInOrder ==
    ASSUME NEW box, Sequence(box), NEW S \in SUBSET DOMAIN box
    PROVE  LET rows == RowsAt(box, S) IN
           /\ Sequence(rows)
           /\ \E f : /\ DOMAIN f = DOMAIN rows
                     /\ \A k \in DOMAIN rows : f[k] \in S /\ rows[k] = box[f[k]]
                     /\ \A j, k \in DOMAIN rows : j < k => f[j] < f[k]
                     /\ \A p \in S : \E k \in DOMAIN rows : f[k] = p
<1> DEFINE n == Cardinality(S)
           f == [k \in 1..n |-> CHOOSE p \in S : Cardinality({q \in S : q <= p}) = k]
           rows == [k \in 1..n |-> box[f[k]]]
<1>1. Len(box) \in Nat /\ DOMAIN box = 1..Len(box)
  BY SequenceShape
<1>2. S \subseteq Nat /\ IsFiniteSet(S)
  <2>1. IsFiniteSet(DOMAIN box) /\ S \subseteq Nat
    BY <1>1, FS_Interval
  <2> QED
    BY <2>1, FS_Subset
<1>3. n \in Nat
  BY <1>2, FS_CardinalityType
<1>4. OrdersPlaces(f, S)
  BY <1>2, PlacesInOrder
<1>5. RowsAt(box, S) = rows
  BY DEF RowsAt
<1>6. DOMAIN f = 1..n /\ DOMAIN rows = 1..n /\ \A k \in 1..n : rows[k] = box[f[k]]
  OBVIOUS
<1> HIDE DEF f
<1>7. rows \in [1..n -> ToSet(box)]
  BY <1>4, <1>6 DEF OrdersPlaces, ToSet
<1> HIDE DEF rows
<1>8. Sequence(rows)
  BY <1>3, <1>7, FunctionIsSequence
<1>9. /\ DOMAIN f = DOMAIN rows
      /\ \A k \in DOMAIN rows : f[k] \in S /\ rows[k] = box[f[k]]
      /\ \A j, k \in DOMAIN rows : j < k => f[j] < f[k]
      /\ \A p \in S : \E k \in DOMAIN rows : f[k] = p
  BY <1>4, <1>6 DEF OrdersPlaces
<1> QED
  BY <1>5, <1>8, <1>9

-----------------------------------------------------------------------------
(* What a device's transactions do to its rows keeps them a collection.    *)
LEMMA RestrictIsCollection ==
    ASSUME NEW c, IsCollection(c), NEW S, S \subseteq DOMAIN c
    PROVE  IsCollection(Restrict(c, S))
BY DEF IsCollection, Restrict

(* Some of the rows of a collection.                                       *)
PartOf(part, c) == DOMAIN part \subseteq DOMAIN c /\ \A k \in DOMAIN part : part[k] = c[k]

(* A restriction is a part.                                                *)
LEMMA RestrictIsPart ==
    ASSUME NEW c, NEW S, S \subseteq DOMAIN c
    PROVE  PartOf(Restrict(c, S), c)
BY DEF PartOf, Restrict

(* A part of a part is a part.                                             *)
LEMMA PartOfPart ==
    ASSUME NEW a, NEW b, NEW c, PartOf(a, b), PartOf(b, c)
    PROVE  PartOf(a, c)
BY DEF PartOf

(* Two rows of key k say the same: of an entry, the same user fields.      *)
Alike(k, a, b) == IF k \in Issues THEN a.value = b.value ELSE a = b

(* Every row of before is still in after, and says the same unless some    *)
(* change has its key.                                                     *)
Covers(before, after, changed) ==
    \A k \in DOMAIN before :
        k \in DOMAIN after /\ (Alike(k, before[k], after[k]) \/ k \in changed)

(* One well-typed row is a collection.                                     *)
LEMMA RowIsCollection ==
    ASSUME NEW k \in Keys, NEW data,
           k \in Issues => data \in EntryData,
           k \in Copies => data \in CopyData,
           k \in Barcodes => data \in BarcodeData
    PROVE  IsCollection(Row(k, data))
BY DEF IsCollection, Row

(* An entry, stored or by default, is well typed.                          *)
LEMMA EntryIsTyped ==
    ASSUME NEW c, IsCollection(c), NEW i \in Issues
    PROVE  EntryOf(c, i) \in EntryData
<1>1. DefaultEntry \in EntryData
  BY CollectionAssumption DEF CollectionAssumption, DefaultEntry, EntryData
<1> QED
  BY <1>1 DEF EntryOf, IsCollection

(* Recomputing the flags of an entry keeps its type.                       *)
LEMMA FlagsAreTyped ==
    ASSUME NEW e \in EntryData, NEW c, NEW i
    PROVE  WithDerivedFlags(e, c, i) \in EntryData
<1> DEFINE on == ActiveCopies(c, i) # {}
<1>1. on \in BOOLEAN /\ SeveralActive(c, i) \in BOOLEAN
  BY DEF SeveralActive
<1>2. (~on /\ ~e.deleted) \in BOOLEAN
  OBVIOUS
<1> QED
  BY <1>1, <1>2 DEF WithDerivedFlags, EntryData

(* A set of copies has a first one.                                        *)
LEMMA FirstCopyIsOne ==
    ASSUME NEW S, S \subseteq Copies, S # {}
    PROVE  FirstCopy(S) \in S
<1> DEFINE ranks == {Rank[k] : k \in S}
<1>1. ranks \subseteq Nat /\ ranks # {}
  BY LocalAssumption DEF LocalAssumption
<1> HIDE DEF ranks
<1>2. PICK x \in ranks : \A y \in ranks : ~(<<y, x>> \in OpToRel(<, Nat))
  BY <1>1, NatLessThanWellFounded, WFMin
<1>3. \A y \in ranks : ~(y < x)
  BY <1>1, <1>2 DEF OpToRel
<1>4. \A y \in ranks : x <= y
  BY <1>1, <1>3
<1>5. \E k \in S : \A j \in S : Rank[k] <= Rank[j]
  BY <1>4 DEF ranks
<1> QED
  BY <1>5 DEF FirstCopy

(* The copy through which a flat comic is written is a copy.               *)
LEMMA PrimaryIsCopy ==
    ASSUME NEW c, NEW i \in Issues
    PROVE  PrimaryOf(c, i) \in Copies
<1>1. ActiveCopies(c, i) \subseteq Copies /\ CopiesOf(c, i) \subseteq Copies
  BY DEF ActiveCopies, CopiesOf
<1>2. PrimaryCopy[i] \in Copies
  BY LocalAssumption DEF LocalAssumption
<1> QED
  BY <1>1, <1>2, FirstCopyIsOne DEF PrimaryOf

(* Saving a flat comic (UpsertComic) leaves a collection.                  *)
LEMMA SavedComicIsCollection ==
    ASSUME NEW c, IsCollection(c), NEW i \in Issues, NEW comic \in FlatComics
    PROVE  IsCollection(UpsertComic(c, i, comic))
<1> DEFINE on == comic.owned /\ ~comic.deleted
           gone(k) == [c[k] EXCEPT !.active = FALSE, !.deleted = TRUE]
           st(v) == [issue |-> i, active |-> on, deleted |-> comic.deleted,
                     value |-> v]
           others == OtherCopies(c, i)
           entry == Row(i, [deleted |-> comic.deleted, owned |-> comic.owned,
                            wanted |-> ~comic.owned /\ ~comic.deleted,
                            duplicate |-> comic.duplicate, value |-> comic.value])
           primary == Row(PrimaryOf(c, i), st(comic.copyValue))
           second == IF others # {}
                     THEN Row(FirstCopy(others), st(c[FirstCopy(others)].value))
                     ELSE Row(SecondaryCopy[i], st(DefaultValue))
           tombstones == [k \in others |-> gone(k)]
           rest == IF ~comic.duplicate THEN tombstones
                   ELSE IF comic.deleted THEN Overlay(second, tombstones) ELSE second
<1>0. /\ comic.owned \in BOOLEAN /\ comic.duplicate \in BOOLEAN
      /\ comic.deleted \in BOOLEAN /\ comic.value \in Values /\ comic.copyValue \in Values
  BY DEF FlatComics
<1>1. i \in Keys /\ i \notin Copies /\ i \notin Barcodes
  BY CollectionAssumption DEF Keys, CollectionAssumption
<1>2. \A k \in Copies : k \in Keys /\ k \notin Issues /\ k \notin Barcodes
  BY CollectionAssumption DEF Keys, CollectionAssumption
<1>3. \A v \in Values : st(v) \in CopyData
  BY <1>0 DEF CopyData
<1>4. IsCollection(entry)
  <2>1. (~comic.owned /\ ~comic.deleted) \in BOOLEAN
    OBVIOUS
  <2>2. [deleted |-> comic.deleted, owned |-> comic.owned,
         wanted |-> ~comic.owned /\ ~comic.deleted,
         duplicate |-> comic.duplicate, value |-> comic.value] \in EntryData
    BY <1>0, <2>1 DEF EntryData
  <2> QED
    BY <1>1, <2>2, RowIsCollection
<1>5. IsCollection(primary)
  <2>1. PrimaryOf(c, i) \in Copies
    BY PrimaryIsCopy
  <2>2. st(comic.copyValue) \in CopyData
    BY <1>0, <1>3
  <2> HIDE DEF st
  <2> QED
    BY <1>2, <2>1, <2>2, RowIsCollection
<1>6. others \subseteq Copies /\ others \subseteq DOMAIN c
      /\ \A k \in others : c[k] \in CopyData
  BY DEF OtherCopies, CopiesOf, IsCollection
<1>7. IsCollection(second)
  <2>1. CASE others # {}
    <3>1. FirstCopy(others) \in others
      BY <1>6, <2>1, FirstCopyIsOne
    <3>2. c[FirstCopy(others)].value \in Values
      BY <1>6, <3>1 DEF CopyData
    <3>3. st(c[FirstCopy(others)].value) \in CopyData
      BY <1>3, <3>2
    <3> HIDE DEF st, others
    <3>4. IsCollection(Row(FirstCopy(others), st(c[FirstCopy(others)].value)))
      BY <1>2, <1>6, <3>1, <3>3, RowIsCollection
    <3> QED
      BY <2>1, <3>4
  <2>2. CASE others = {}
    <3>1. SecondaryCopy[i] \in Copies /\ DefaultValue \in Values
      BY LocalAssumption, CollectionAssumption
         DEF LocalAssumption, CollectionAssumption
    <3>2. st(DefaultValue) \in CopyData
      BY <1>3, <3>1
    <3> HIDE DEF st
    <3>3. IsCollection(Row(SecondaryCopy[i], st(DefaultValue)))
      BY <1>2, <3>1, <3>2, RowIsCollection
    <3> QED
      BY <2>2, <3>3
  <2> QED
    BY <2>1, <2>2
<1>8. IsCollection(tombstones)
  <2>1. \A k \in others : gone(k) \in CopyData
    BY <1>6 DEF CopyData
  <2> HIDE DEF gone, others
  <2> QED
    BY <1>2, <1>6, <2>1 DEF IsCollection
<1>9. UpsertComic(c, i, comic) = Overlay(c, Overlay(entry, Overlay(primary, rest)))
  BY DEF UpsertComic
<1> HIDE DEF entry, primary, second, tombstones
<1>10. IsCollection(rest)
  BY <1>7, <1>8, OverlayIsCollection
<1> HIDE DEF rest
<1> QED
  BY <1>4, <1>5, <1>9, <1>10, OverlayIsCollection

(* Saving a copy row (SaveCopyRow) leaves a collection.                    *)
LEMMA SavedCopyIsCollection ==
    ASSUME NEW c, IsCollection(c), NEW k \in Copies, NEW row \in CopyData
    PROVE  IsCollection(SaveCopyRow(c, k, row))
<1> DEFINE after == Overlay(c, Row(k, row))
           old == EntryOf(c, row.issue)
           entry == [old EXCEPT !.deleted = @ /\ ActiveCopies(after, row.issue) = {}]
<1>1. /\ k \in Keys /\ k \notin Issues /\ k \notin Barcodes
      /\ row.issue \in Issues /\ row.issue \in Keys
      /\ row.issue \notin Copies /\ row.issue \notin Barcodes
  BY CollectionAssumption DEF Keys, CollectionAssumption, CopyData
<1>2. IsCollection(after)
  BY <1>1, RowIsCollection, OverlayIsCollection
<1>3. old \in EntryData
  BY <1>1, EntryIsTyped
<1>4. entry \in EntryData
  <2>1. (old.deleted /\ ActiveCopies(after, row.issue) = {}) \in BOOLEAN
    OBVIOUS
  <2> HIDE DEF old, after
  <2> QED
    BY <1>3, <2>1 DEF EntryData
<1> HIDE DEF entry, old, after
<1>5. WithDerivedFlags(entry, after, row.issue) \in EntryData
  BY <1>4, FlagsAreTyped
<1>6. IsCollection(Row(row.issue, WithDerivedFlags(entry, after, row.issue)))
  BY <1>1, <1>5, RowIsCollection
<1>7. SaveCopyRow(c, k, row)
        = Overlay(after, Row(row.issue, WithDerivedFlags(entry, after, row.issue)))
  BY DEF SaveCopyRow, entry, old, after
<1> QED
  BY <1>2, <1>6, <1>7, OverlayIsCollection

(* What a transaction uploads is part of the collection it leaves.         *)
LEMMA DifferenceIsCollection ==
    ASSUME NEW before, NEW after, IsCollection(after)
    PROVE  IsCollection(WireDifference(before, after))
BY RestrictIsCollection DEF WireDifference, Dirty

(* A difference leaves out only rows that say what they said.              *)
LEMMA DifferenceCovers ==
    ASSUME NEW before, IsCollection(before), NEW after, DOMAIN before \subseteq DOMAIN after
    PROVE  /\ PartOf(WireDifference(before, after), after)
           /\ Covers(before, after, DOMAIN WireDifference(before, after))
<1> DEFINE D == {k \in Dirty(before, after) :
                   ~ /\ k \in Issues
                     /\ CopiesOf(after, k) \cap Dirty(before, after) # {}
                     /\ OnlyDerivedChanged(before, after, k)}
<1>1. WireDifference(before, after) = Restrict(after, D)
  BY DEF WireDifference
<1>2. D \subseteq DOMAIN after
  BY DEF Dirty
<1>3. ASSUME NEW k \in DOMAIN before, k \notin D
      PROVE  Alike(k, before[k], after[k])
  <2>1. CASE k \notin Dirty(before, after)
    BY <2>1 DEF Dirty, Alike
  <2>2. CASE k \in Dirty(before, after)
    <3>1. k \in Issues /\ OnlyDerivedChanged(before, after, k)
      BY <1>3, <2>2
    <3> QED
      BY <3>1 DEF OnlyDerivedChanged, EntryOf, Alike
  <2> QED
    BY <2>1, <2>2
<1> HIDE DEF D
<1>4. DOMAIN Restrict(after, D) = D
  BY DEF Restrict
<1>5. PartOf(Restrict(after, D), after)
  BY <1>2, RestrictIsPart
<1> QED
  BY <1>1, <1>3, <1>4, <1>5 DEF Covers

(* What saving a copy uploads leaves out nothing either: of the other rows *)
(* only the flags of its entry change.                                     *)
LEMMA CopyDifferenceCovers ==
    ASSUME NEW c, IsCollection(c), NEW k \in Copies, NEW row \in CopyData
    PROVE  LET after == SaveCopyRow(c, k, row)
               only(e) == Restrict(e, {k} \cap DOMAIN e)
               difference == WireDifference(only(c), only(after))
           IN /\ IsCollection(difference) /\ PartOf(difference, after)
              /\ Covers(c, after, DOMAIN difference)
<1> DEFINE after == SaveCopyRow(c, k, row)
           only(e) == Restrict(e, {k} \cap DOMAIN e)
           difference == WireDifference(only(c), only(after))
           middle == Overlay(c, Row(k, row))
           old == EntryOf(c, row.issue)
           entry == [old EXCEPT !.deleted = @ /\ ActiveCopies(middle, row.issue) = {}]
           flags == WithDerivedFlags(entry, middle, row.issue)
<1>1. k \notin Issues /\ row.issue \in Issues
  BY CollectionAssumption DEF CollectionAssumption, CopyData
<1>2. IsCollection(after)
  BY SavedCopyIsCollection
<1>3. after = Overlay(middle, Row(row.issue, flags))
  BY DEF SaveCopyRow
<1>4. flags.value = old.value
  <2>1. old \in EntryData
    BY <1>1, EntryIsTyped
  <2> HIDE DEF old, middle
  <2>2. entry.value = old.value /\ DOMAIN entry = DOMAIN old
    BY <2>1 DEF EntryData
  <2> HIDE DEF entry
  <2> QED
    BY <2>1, <2>2 DEF WithDerivedFlags, EntryData
<1> HIDE DEF flags, entry
<1>5. /\ DOMAIN c \subseteq DOMAIN after /\ k \in DOMAIN after
      /\ \A j \in DOMAIN c : j # k /\ j # row.issue => after[j] = c[j]
      /\ row.issue \in DOMAIN c => after[row.issue].value = c[row.issue].value
  <2>1. /\ DOMAIN middle = DOMAIN c \cup {k}
        /\ \A j \in DOMAIN c : j # k => middle[j] = c[j]
    BY DEF Overlay, Row
  <2> HIDE DEF middle
  <2>2. /\ DOMAIN after = DOMAIN middle \cup {row.issue} /\ after[row.issue] = flags
        /\ \A j \in DOMAIN middle : j # row.issue => after[j] = middle[j]
    BY <1>3 DEF Overlay, Row
  <2> HIDE DEF after
  <2>3. row.issue \in DOMAIN c => old = c[row.issue]
    BY DEF EntryOf
  <2> HIDE DEF old
  <2> QED
    BY <1>4, <2>1, <2>2, <2>3
<1> HIDE DEF after, middle, old
<1> DEFINE a == only(c)
           b == only(after)
<1>6. /\ IsCollection(a) /\ IsCollection(b) /\ PartOf(b, after)
      /\ DOMAIN a = {k} \cap DOMAIN c /\ DOMAIN b = {k}
      /\ \A j \in DOMAIN a : a[j] = c[j]
  BY <1>2, <1>5, RestrictIsCollection, RestrictIsPart DEF Restrict
<1> HIDE DEF a, b
<1> DEFINE diff == WireDifference(a, b)
<1>7. IsCollection(diff) /\ PartOf(diff, b) /\ Covers(a, b, DOMAIN diff)
  BY <1>6, DifferenceIsCollection, DifferenceCovers
<1> HIDE DEF diff
<1>8. PartOf(diff, after)
  BY <1>6, <1>7, PartOfPart
<1>9. Covers(c, after, DOMAIN diff)
  <2> SUFFICES ASSUME NEW j \in DOMAIN c
               PROVE  Alike(j, c[j], after[j]) \/ j \in DOMAIN diff
    BY <1>5 DEF Covers
  <2>1. CASE j = k
    <3>1. j \in DOMAIN a /\ j \in DOMAIN b /\ a[j] = c[j] /\ b[j] = after[j]
      BY <1>6, <2>1 DEF PartOf
    <3> QED
      BY <1>7, <3>1 DEF Covers
  <2>2. CASE j # k /\ j = row.issue
    BY <1>1, <1>5, <2>2 DEF Alike
  <2>3. CASE j # k /\ j # row.issue
    BY <1>5, <2>3 DEF Alike
  <2> QED
    BY <2>1, <2>2, <2>3
<1> QED
  BY <1>7, <1>8, <1>9 DEF diff, a, b, after

(* Recomputing the flags of some issues leaves a collection.               *)
LEMMA FlagsKeepCollection ==
    ASSUME NEW c, IsCollection(c), NEW S, S \subseteq Issues
    PROVE  IsCollection(RecomputeFlags(c, S))
<1>1. \A i \in S : WithDerivedFlags(EntryOf(c, i), c, i) \in EntryData
  BY EntryIsTyped, FlagsAreTyped
<1> DEFINE flags == [i \in S |-> WithDerivedFlags(EntryOf(c, i), c, i)]
<1>2. IsCollection(flags)
  BY <1>1, CollectionAssumption DEF IsCollection, Keys, CollectionAssumption
<1> HIDE DEF flags
<1>3. IsCollection(Overlay(c, flags))
  BY <1>2, OverlayIsCollection
<1> QED
  BY <1>3 DEF RecomputeFlags, flags

(* Applying remote rows to a collection leaves a collection.               *)
LEMMA AppliedIsCollection ==
    ASSUME NEW c, IsCollection(c), NEW changes, IsCollection(changes), NEW keys
    PROVE  IsCollection(ApplyRows(c, changes, keys))
<1> DEFINE applied == [k \in DOMAIN changes \cap keys |-> AppliedRow(changes[k], k)]
<1>1. \A k \in DOMAIN changes \cap keys :
         /\ k \in Copies => AppliedRow(changes[k], k) \in CopyData
         /\ k \notin Copies => AppliedRow(changes[k], k) = changes[k]
  <2> TAKE k \in DOMAIN changes \cap keys
  <2>1. CASE k \in Copies
    <3>1. changes[k] \in CopyData
      BY <2>1 DEF IsCollection
    <3>2. (changes[k].active /\ ~changes[k].deleted) \in BOOLEAN
      OBVIOUS
    <3> QED
      BY <2>1, <3>1, <3>2 DEF AppliedRow, CopyData
  <2> QED
    BY <2>1 DEF AppliedRow
<1>2. IsCollection(applied)
  BY <1>1, CollectionAssumption DEF IsCollection, CollectionAssumption
<1> HIDE DEF applied
<1>3. IsCollection(Overlay(c, applied))
  BY <1>2, OverlayIsCollection
<1> QED
  BY <1>3 DEF ApplyRows, applied

-----------------------------------------------------------------------------
(* The groups of changes that are queued.                                  *)
Uploadable(c) == IsCollection(c) /\ Cardinality(DOMAIN c) \in 1..MaxChanges

Uploads(groups) ==
    Sequence(groups) /\ \A n \in DOMAIN groups : Uploadable(groups[n])

UploadsOf(groups, c) ==
    Uploads(groups) /\ \A n \in DOMAIN groups : PartOf(groups[n], c)

(* A collection has finitely many keys.                                    *)
LEMMA KeysAreFinite ==
    ASSUME NEW c, IsCollection(c), NEW S, S \subseteq DOMAIN c
    PROVE  IsFiniteSet(S)
BY LocalAssumption, FS_Subset DEF LocalAssumption, IsCollection

(* The order of an upload enumerates keys of the collection.               *)
LEMMA WireOrderShape ==
    ASSUME NEW c, IsCollection(c)
    PROVE  /\ Sequence(InWireOrder(c))
           /\ \A n \in DOMAIN InWireOrder(c) : InWireOrder(c)[n] \in DOMAIN c
           /\ \A k \in DOMAIN c : \E n \in DOMAIN InWireOrder(c) : InWireOrder(c)[n] = k
<1> DEFINE tombs == {k \in DOMAIN c \cap Issues : c[k].deleted}
           rest == DOMAIN c \ tombs
<1>1. IsFiniteSet(tombs) /\ IsFiniteSet(rest)
  BY KeysAreFinite
<1>2. tombs \subseteq DOMAIN c /\ rest \subseteq DOMAIN c
  OBVIOUS
<1>3. InWireOrder(c) = SetToSeq(rest) \o SetToSeq(tombs)
  BY DEF InWireOrder
<1> HIDE DEF tombs, rest
<1>4. /\ Sequence(SetToSeq(rest)) /\ SetToSeq(rest) \in [1..Cardinality(rest) -> rest]
      /\ Sequence(SetToSeq(tombs)) /\ SetToSeq(tombs) \in [1..Cardinality(tombs) -> tombs]
  BY <1>1, SetSequence
<1>5. /\ \A n \in DOMAIN SetToSeq(rest) : SetToSeq(rest)[n] \in DOMAIN c
      /\ \A n \in DOMAIN SetToSeq(tombs) : SetToSeq(tombs)[n] \in DOMAIN c
      /\ \A k \in DOMAIN c : \/ \E n \in DOMAIN SetToSeq(rest) : SetToSeq(rest)[n] = k
                             \/ \E n \in DOMAIN SetToSeq(tombs) : SetToSeq(tombs)[n] = k
  <2>1. \A k \in DOMAIN c : k \in rest \/ k \in tombs
    BY DEF rest
  <2> QED
    BY <1>1, <1>2, <1>4, <2>1, SetSequence
<1> DEFINE a == SetToSeq(rest)
           b == SetToSeq(tombs)
<1> HIDE DEF a, b
<1>6. /\ Sequence(a) /\ Sequence(b) /\ \A n \in DOMAIN a : a[n] \in DOMAIN c
      /\ \A n \in DOMAIN b : b[n] \in DOMAIN c
      /\ \A k \in DOMAIN c : (\E n \in DOMAIN a : a[n] = k) \/ \E n \in DOMAIN b : b[n] = k
  BY <1>4, <1>5 DEF a, b
<1>7. Sequence(a \o b) /\ \A n \in DOMAIN (a \o b) : (a \o b)[n] \in DOMAIN c
  BY <1>6, SequenceShape, Concatenated
<1>8. ASSUME NEW k \in DOMAIN c PROVE \E n \in DOMAIN (a \o b) : (a \o b)[n] = k
  <2>1. /\ Len(a) \in Nat /\ DOMAIN a = 1..Len(a) /\ Len(b) \in Nat /\ DOMAIN b = 1..Len(b)
        /\ DOMAIN (a \o b) = 1..(Len(a) + Len(b))
        /\ \A n \in 1..Len(a) : (a \o b)[n] = a[n]
        /\ \A n \in 1..Len(b) : (a \o b)[Len(a) + n] = b[n]
    BY <1>6, SequenceShape, Concatenated
  <2>2. \A n \in 1..Len(a) : n \in DOMAIN (a \o b)
    BY <2>1
  <2>3. \A n \in 1..Len(b) : Len(a) + n \in DOMAIN (a \o b)
    BY <2>1
  <2> QED
    BY <1>6, <2>1, <2>2, <2>3
<1> QED
  BY <1>3, <1>7, <1>8 DEF a, b

(* The bounds of the n-th chunk of a sequence.                             *)
LEMMA ChunkBounds ==
    ASSUME NEW L \in Nat, NEW M \in Nat \ {0}, NEW n \in 1..((L + M - 1) \div M)
    PROVE  /\ (n - 1) * M \in Nat /\ n * M = (n - 1) * M + M /\ (n - 1) * M < L
<1> DEFINE q == (L + M - 1) \div M
<1>1. q \in Int /\ q * M <= L + M - 1
  OBVIOUS
<1>2. n \in Int /\ 1 <= n /\ n <= q
  BY <1>1
<1> HIDE DEF q
<1>3. n * M <= q * M
  BY <1>1, <1>2
<1>4. n * M = (n - 1) * M + M /\ (n - 1) * M \in Nat /\ n * M \in Nat
  BY <1>2
<1> QED
  BY <1>1, <1>3, <1>4

(* Chunks never makes a mutation that is empty or beyond the limit.        *)
LEMMA ChunksAreUploads ==
    ASSUME NEW c, IsCollection(c)
    PROVE  UploadsOf(Chunks(c), c)
<1> DEFINE order == InWireOrder(c)
           count == (Len(order) + MaxChanges - 1) \div MaxChanges
           first(n) == (n - 1) * MaxChanges + 1
           last(n) == IF n * MaxChanges < Len(order) THEN n * MaxChanges ELSE Len(order)
           chunk(n) == Restrict(c, ToSet(SubSeq(order, first(n), last(n))))
<1>0. MaxChanges \in Nat \ {0}
  BY LocalAssumption DEF LocalAssumption
<1>1. Sequence(order) /\ \A n \in DOMAIN order : order[n] \in DOMAIN c
  BY WireOrderShape
<1>2. Len(order) \in Nat /\ DOMAIN order = 1..Len(order)
  BY <1>1, SequenceShape
<1>3. Chunks(c) = [n \in 1..count |-> chunk(n)]
  BY DEF Chunks
<1> HIDE DEF order
<1>4. count \in Nat
  <2>1. Len(order) + MaxChanges - 1 \in Nat
    BY <1>0, <1>2
  <2> QED
    BY <1>0, <2>1
<1>5. ASSUME NEW n \in 1..count
      PROVE  Uploadable(chunk(n)) /\ PartOf(chunk(n), c)
  <2>1. n \in Nat
    BY <1>4
  <2>2. /\ (n - 1) * MaxChanges \in Nat /\ (n - 1) * MaxChanges < Len(order)
        /\ n * MaxChanges = (n - 1) * MaxChanges + MaxChanges
    BY <1>0, <1>2, ChunkBounds
  <2> DEFINE a == first(n)
             b == last(n)
  <2>3. /\ a \in Int /\ b \in Int /\ a >= 1 /\ b <= Len(order) /\ a <= b
        /\ b - a + 1 <= MaxChanges
    BY <1>0, <1>2, <2>2
  <2> HIDE DEF first, last
  <2>4. \A i \in a..b : order[i] \in DOMAIN c
    BY <1>1, <1>2, <2>3
  <2> HIDE DEF a, b
  <2> DEFINE part == SubSeq(order, a, b)
  <2>5. part \in Seq(DOMAIN c) /\ Len(part) = b - a + 1
    BY <2>3, <2>4, SubSeqProperties
  <2>6. ToSet(part) \subseteq DOMAIN c /\ Sequence(part) /\ part # << >>
    <3>1. /\ Len(part) \in Nat /\ DOMAIN part = 1..Len(part)
          /\ part \in [1..Len(part) -> DOMAIN c]
      BY <2>5, LenProperties
    <3>2. Sequence(part)
      BY <3>1, FunctionIsSequence
    <3>3. Len(part) # 0
      BY <2>3, <2>5
    <3> HIDE DEF part
    <3> QED
      BY <3>1, <3>2, <3>3, EmptySeq DEF ToSet
  <2>7. IsCollection(Restrict(c, ToSet(part))) /\ PartOf(Restrict(c, ToSet(part)), c)
    BY <2>6, RestrictIsCollection, RestrictIsPart
  <2>8. Cardinality(ToSet(part)) \in 1..MaxChanges
    <3>1. Cardinality(ToSet(part)) \in 1..Len(part) /\ Len(part) <= MaxChanges
      BY <2>3, <2>5, <2>6, FewElements
    <3>2. Len(part) \in Nat
      BY <2>3, <2>5
    <3> HIDE DEF part
    <3> QED
      BY <1>0, <3>1, <3>2
  <2>9. chunk(n) = Restrict(c, ToSet(part)) /\ DOMAIN chunk(n) = ToSet(part)
    BY DEF a, b, Restrict
  <2> HIDE DEF part, chunk
  <2> QED
    BY <2>7, <2>8, <2>9 DEF Uploadable
<1> HIDE DEF count, chunk
<1>6. [n \in 1..count |-> chunk(n)] \in [1..count -> {chunk(n) : n \in 1..count}]
  OBVIOUS
<1>7. Sequence([n \in 1..count |-> chunk(n)])
  BY <1>4, <1>6, FunctionIsSequence
<1> QED
  BY <1>3, <1>5, <1>7 DEF UploadsOf, Uploads

(* What has a place in the order is in the chunk of that place.            *)
LEMMA PlacedInChunk ==
    ASSUME NEW c, IsCollection(c), NEW i \in DOMAIN InWireOrder(c)
    PROVE  \E n \in DOMAIN Chunks(c) :
              /\ InWireOrder(c)[i] \in DOMAIN Chunks(c)[n]
              /\ n \in Nat /\ (n - 1) * MaxChanges < i
<1> DEFINE order == InWireOrder(c)
           L == Len(order)
           M == MaxChanges
           k == order[i]
           count == (L + M - 1) \div M
           first(n) == (n - 1) * M + 1
           last(n) == IF n * M < L THEN n * M ELSE L
<1>0. M \in Nat \ {0}
  BY LocalAssumption DEF LocalAssumption
<1>1. Sequence(order) /\ i \in DOMAIN order
  BY WireOrderShape
<1>2. L \in Nat /\ DOMAIN order = 1..L /\ i \in 1..L
  BY <1>1, SequenceShape
<1>3. Chunks(c) = [n \in 1..count |->
                     Restrict(c, ToSet(SubSeq(order, first(n), last(n))))]
  BY DEF Chunks
<1>4. k = order[i] /\ k = InWireOrder(c)[i] /\ M = MaxChanges
  OBVIOUS
<1> HIDE DEF order, L, M, k
<1> DEFINE q == (i - 1) \div M
           n == q + 1
<1>5. q \in Nat /\ q * M <= i - 1 /\ i - 1 < q * M + M
  <2>1. i - 1 \in Nat
    BY <1>2
  <2> QED
    BY <1>0, <2>1
<1>6. /\ (n - 1) * M = q * M /\ n * M = q * M + M /\ q * M \in Nat
  BY <1>0, <1>5
<1>7. n \in 1..count
  <2>1. /\ count \in Int /\ count * M <= L + M - 1 /\ L + M - 1 < count * M + M
    BY <1>0, <1>2
  <2> HIDE DEF count, q
  <2>2. n * M < count * M + M
    BY <1>0, <1>2, <1>5, <1>6, <2>1
  <2>3. n * M < (count + 1) * M
    BY <1>0, <2>1, <2>2
  <2>4. n < count + 1
    BY <1>0, <1>5, <2>1, <2>3
  <2> QED
    BY <1>5, <2>1, <2>4
<1>8. i \in first(n)..last(n) /\ first(n) \in Nat \ {0} /\ last(n) \in 0..L
  <2> HIDE DEF q
  <2> QED
    BY <1>0, <1>2, <1>5, <1>6
<1> DEFINE a == first(n)
           b == last(n)
<1>9. k \in ToSet(SubSeq(order, a, b))
  <2> HIDE DEF a, b, first, last, n, q
  <2>1. i \in a..b /\ a \in Nat \ {0} /\ b \in 0..L
    BY <1>8 DEF a, b
  <2>2. SubSeq(order, a, b) = [j \in 1..(b - a + 1) |-> order[a + j - 1]]
    BY <2>1
  <2>3. (i - a + 1) \in 1..(b - a + 1) /\ a + (i - a + 1) - 1 = i
    BY <1>2, <2>1
  <2>4. SubSeq(order, a, b)[i - a + 1] = k /\ i - a + 1 \in DOMAIN SubSeq(order, a, b)
    BY <1>4, <2>2, <2>3
  <2> QED
    BY <2>4 DEF ToSet
<1>10. Chunks(c)[n] = Restrict(c, ToSet(SubSeq(order, a, b)))
  <2> HIDE DEF first, last, count, n
  <2> QED
    BY <1>3, <1>7
<1>11. k \in DOMAIN Chunks(c)[n]
  <2> HIDE DEF a, b, n
  <2> QED
    BY <1>9, <1>10 DEF Restrict
<1>12. n \in DOMAIN Chunks(c)
  <2> HIDE DEF first, last, count, n
  <2> QED
    BY <1>3, <1>7
<1>13. n \in Nat /\ (n - 1) * M < i
  <2>1. n \in Nat
    BY <1>5
  <2>2. q * M < i
    BY <1>2, <1>5, <1>6
  <2> QED
    BY <1>6, <2>1, <2>2
<1> QED
  <2> HIDE DEF n
  <2> QED
    BY <1>4, <1>11, <1>12, <1>13

(* Chunks leaves out no change.                                            *)
LEMMA ChunksCover ==
    ASSUME NEW c, IsCollection(c), NEW k \in DOMAIN c
    PROVE  \E n \in DOMAIN Chunks(c) : k \in DOMAIN Chunks(c)[n]
<1>1. PICK i \in DOMAIN InWireOrder(c) : InWireOrder(c)[i] = k
  BY WireOrderShape
<1>2. \E n \in DOMAIN Chunks(c) : InWireOrder(c)[i] \in DOMAIN Chunks(c)[n]
  BY PlacedInChunk
<1> QED
  BY <1>1, <1>2

(* Every element of one sequence is one of the other.                      *)
Comprises(all, part) == \A j \in DOMAIN part : \E p \in DOMAIN all : all[p] = part[j]

(* Two sequences of uploads, one after the other.                          *)
LEMMA JoinedUploads ==
    ASSUME NEW c, NEW a, NEW b, UploadsOf(a, c), UploadsOf(b, c)
    PROVE  /\ UploadsOf(a \o b, c)
           /\ Comprises(a \o b, a) /\ Comprises(a \o b, b)
<1>1. Sequence(a) /\ Sequence(b)
  BY DEF UploadsOf, Uploads
<1>2. UploadsOf(a \o b, c)
  BY Concatenated, SequenceShape DEF UploadsOf, Uploads
<1>3. /\ DOMAIN a = 1..Len(a) /\ Len(a) \in Nat /\ DOMAIN b = 1..Len(b) /\ Len(b) \in Nat
      /\ DOMAIN (a \o b) = 1..(Len(a) + Len(b))
      /\ \A i \in 1..Len(a) : (a \o b)[i] = a[i]
      /\ \A i \in 1..Len(b) : (a \o b)[Len(a) + i] = b[i]
  BY <1>1, Concatenated, SequenceShape
<1>4. ASSUME NEW j \in DOMAIN a PROVE j \in DOMAIN (a \o b)
  BY <1>3
<1>5. ASSUME NEW j \in DOMAIN b PROVE Len(a) + j \in DOMAIN (a \o b)
  BY <1>3
<1> QED
  BY <1>2, <1>3, <1>4, <1>5 DEF Comprises

Joining == INSTANCE FoldLeftTheorems WITH Op <- \o

(* FoldLeft of concatenation is the fold FoldLeftTheorems is about.        *)
LEMMA JoinUnfolds ==
    ASSUME NEW f
    PROVE  FoldLeft(\o, << >>, f) = Joining!Fold(<< >>, f)
BY DEF FoldLeft, MapThenFoldSet, Max, Joining!Fold, Joining!FoldLeft,
       Joining!MapThenFoldSet, Joining!Max

(* Any number of sequences of uploads, one after the other.                *)
LEMMA AllJoined ==
    ASSUME NEW c, NEW n \in Nat, NEW f, DOMAIN f = 1..n, \A k \in 1..n : UploadsOf(f[k], c)
    PROVE  LET all == FoldLeft(\o, << >>, f) IN
           UploadsOf(all, c) /\ \A k \in 1..n : Comprises(all, f[k])
<1> DEFINE part(k) == [j \in 1..k |-> f[j]]
           Holds(all, k) == UploadsOf(all, c) /\ \A i \in 1..k : Comprises(all, f[i])
           S == {k \in Nat : k <= n => Holds(Joining!Fold(<< >>, part(k)), k)}
<1>1. 0 \in S
  <2>1. Joining!Fold(<< >>, part(0)) = << >>
    BY Joining!FoldOfNone, DOMAIN part(0) = {}
  <2> QED
    BY <2>1, NoneIsSequence DEF UploadsOf, Uploads
<1> HIDE DEF Holds
<1>2. ASSUME NEW k \in Nat, k \in S PROVE k + 1 \in S
  <2> SUFFICES ASSUME k + 1 <= n PROVE Holds(Joining!Fold(<< >>, part(k + 1)), k + 1)
    OBVIOUS
  <2>1. /\ DOMAIN part(k + 1) = 1..k + 1 /\ DOMAIN part(k) = 1..k
        /\ \A i \in 1..k : part(k)[i] = part(k + 1)[i]
        /\ part(k + 1)[k + 1] = f[k + 1]
    OBVIOUS
  <2>2. Holds(Joining!Fold(<< >>, part(k)), k) /\ UploadsOf(f[k + 1], c)
    BY <1>2
  <2> DEFINE p == part(k)
             q == part(k + 1)
  <2>3. DOMAIN q = 1..k + 1 /\ DOMAIN p = 1..k /\ (\A i \in 1..k : p[i] = q[i])
        /\ q[k + 1] = f[k + 1] /\ Holds(Joining!Fold(<< >>, p), k)
    BY <2>1, <2>2
  <2> HIDE DEF p, q
  <2>4. Joining!Fold(<< >>, q) = Joining!Fold(<< >>, p) \o q[k + 1]
    BY <2>3, Joining!FoldOfNext, ZenonT(40)
  <2>5. PICK a, b, all : /\ a = Joining!Fold(<< >>, p) /\ b = f[k + 1]
                         /\ all = Joining!Fold(<< >>, q) /\ all = a \o b
    BY <2>3, <2>4
  <2>6. Holds(a, k) /\ UploadsOf(a, c) /\ UploadsOf(b, c)
    BY <2>2, <2>3, <2>5 DEF Holds
  <2>7. UploadsOf(all, c) /\ Comprises(all, a) /\ Comprises(all, b)
    BY <2>5, <2>6, JoinedUploads
  <2>8. ASSUME NEW i \in 1..(k + 1)
        PROVE  Comprises(all, f[i])
    <3>1. CASE i \in 1..k
      <4>1. Comprises(a, f[i])
        BY <2>6, <3>1 DEF Holds
      <4> QED
        BY <2>7, <4>1 DEF Comprises
    <3>2. CASE i = k + 1
      BY <2>5, <2>7, <3>2
    <3> QED
      BY <3>1, <3>2
  <2>9. Holds(all, k + 1)
    BY <2>7, <2>8 DEF Holds
  <2> QED
    BY <2>5, <2>9 DEF q
<1>3. n \in S
  <2> HIDE DEF S
  <2> QED
    BY <1>1, <1>2, Replaying!NatSetInduction
<1>4. Joining!Fold(<< >>, f) = Joining!Fold(<< >>, part(n))
  <2> DEFINE q == part(n)
  <2>1. DOMAIN q = 1..n /\ \A i \in 1..n : f[i] = q[i]
    OBVIOUS
  <2> HIDE DEF q
  <2>2. Joining!Fold(<< >>, f) = Joining!Fold(<< >>, q)
    BY <2>1, Joining!FoldOfSame
  <2> QED
    BY <2>2 DEF q
<1>5. Holds(Joining!Fold(<< >>, f), n)
  <2> HIDE DEF part
  <2> QED
    BY <1>3, <1>4
<1>6. FoldLeft(\o, << >>, f) = Joining!Fold(<< >>, f)
  BY JoinUnfolds
<1> HIDE DEF part
<1> QED
  BY <1>5, <1>6 DEF Holds

(* A full export consists of mutations within the limit, and leaves out    *)
(* nothing that is not queued.                                             *)
LEMMA SnapshotIsUploads ==
    ASSUME NEW c, IsCollection(c), NEW queued
    PROVE  LET all == FullSnapshot(c, queued) IN
           /\ UploadsOf(all, c)
           /\ \A k \in DOMAIN c \ queued : \E n \in DOMAIN all : k \in DOMAIN all[n]
<1> DEFINE ofIssue(i) == ({i} \cap DOMAIN c) \cup CopiesOf(c, i)
           issues == SetToSeq(Issues)
           barcodes == SetToSeq(Barcodes \cap DOMAIN c)
           a == [n \in DOMAIN issues |-> ofIssue(issues[n])]
           b == [n \in DOMAIN barcodes |-> {barcodes[n]}]
           keys == SnapshotKeys(c)
           groups == [n \in DOMAIN keys |-> Chunks(Restrict(c, keys[n] \ queued))]
<1>1. IsFiniteSet(Issues) /\ IsFiniteSet(Barcodes \cap DOMAIN c)
  BY LocalAssumption, FS_Subset DEF LocalAssumption, Keys
<1>2. /\ Sequence(issues) /\ Sequence(barcodes)
      /\ barcodes \in [1..Cardinality(Barcodes \cap DOMAIN c) -> Barcodes \cap DOMAIN c]
  BY <1>1, SetSequence
<1>3. /\ \A i \in Issues : \E n \in DOMAIN issues : issues[n] = i
      /\ \A k \in Barcodes \cap DOMAIN c : \E n \in DOMAIN barcodes : barcodes[n] = k
  BY <1>1, SetSequence
<1> HIDE DEF issues, barcodes
<1>4. /\ Len(issues) \in Nat /\ DOMAIN issues = 1..Len(issues)
      /\ Len(barcodes) \in Nat /\ DOMAIN barcodes = 1..Len(barcodes)
  BY <1>2, SequenceShape
<1>5. Sequence(a) /\ DOMAIN a = 1..Len(issues) /\ \A n \in DOMAIN a : a[n] \subseteq DOMAIN c
  <2>1. a \in [1..Len(issues) -> SUBSET DOMAIN c]
    BY <1>4 DEF CopiesOf
  <2> HIDE DEF a
  <2> QED
    BY <1>4, <2>1, FunctionIsSequence
<1>6. Sequence(b) /\ DOMAIN b = 1..Len(barcodes) /\ \A n \in DOMAIN b : b[n] \subseteq DOMAIN c
  <2>1. b \in [1..Len(barcodes) -> SUBSET DOMAIN c]
    BY <1>2, <1>4
  <2> HIDE DEF b
  <2> QED
    BY <1>4, <2>1, FunctionIsSequence
<1>7. keys = a \o b
  BY DEF SnapshotKeys, issues, barcodes
<1>8. /\ \A k \in DOMAIN c \ Barcodes : \E n \in DOMAIN a : k \in a[n]
      /\ \A k \in DOMAIN c \cap Barcodes : \E n \in DOMAIN b : k \in b[n]
  <2>1. ASSUME NEW k \in DOMAIN c \ Barcodes
        PROVE  \E i \in Issues : k \in ofIssue(i)
    <3>1. CASE k \in Issues
      BY <3>1
    <3>2. CASE k \in Copies
      BY <3>2 DEF CopiesOf, IsCollection, CopyData
    <3> QED
      BY <3>1, <3>2 DEF IsCollection, Keys
  <2> HIDE DEF ofIssue
  <2> QED
    BY <1>3, <2>1
<1> HIDE DEF a, b, keys
<1>9. Sequence(keys) /\ \A n \in DOMAIN keys : keys[n] \subseteq DOMAIN c
  BY <1>5, <1>6, <1>7, Concatenated, SequenceShape
<1>10. \A k \in DOMAIN c : \E n \in DOMAIN keys : k \in keys[n]
  <2>1. /\ DOMAIN keys = 1..(Len(a) + Len(b)) /\ Len(a) \in Nat /\ Len(b) \in Nat
        /\ DOMAIN a = 1..Len(a) /\ DOMAIN b = 1..Len(b)
        /\ \A i \in 1..Len(a) : keys[i] = a[i]
        /\ \A i \in 1..Len(b) : keys[Len(a) + i] = b[i]
    BY <1>5, <1>6, <1>7, Concatenated, SequenceShape
  <2>2. \A n \in DOMAIN a : n \in DOMAIN keys /\ keys[n] = a[n]
    BY <2>1
  <2>3. \A n \in DOMAIN b : Len(a) + n \in DOMAIN keys /\ keys[Len(a) + n] = b[n]
    BY <2>1
  <2> QED
    BY <1>8, <2>2, <2>3
<1>11. Len(keys) \in Nat /\ DOMAIN keys = 1..Len(keys)
  BY <1>9, SequenceShape
<1>12. DOMAIN groups = 1..Len(keys) /\ \A n \in 1..Len(keys) : UploadsOf(groups[n], c)
  <2> SUFFICES ASSUME NEW n \in 1..Len(keys) PROVE UploadsOf(groups[n], c)
    BY <1>11
  <2> DEFINE part == Restrict(c, keys[n] \ queued)
  <2>1. IsCollection(part) /\ PartOf(part, c) /\ groups[n] = Chunks(part)
    BY <1>9, <1>11, RestrictIsCollection, RestrictIsPart
  <2> HIDE DEF part, groups
  <2>2. UploadsOf(groups[n], part)
    BY <2>1, ChunksAreUploads
  <2> QED
    BY <2>1, <2>2, PartOfPart DEF UploadsOf, Uploads
<1>13. FullSnapshot(c, queued) = FoldLeft(\o, << >>, groups)
  BY DEF FullSnapshot, keys
<1>14. ASSUME NEW k \in DOMAIN c \ queued
       PROVE  \E n \in 1..Len(keys) : \E j \in DOMAIN groups[n] : k \in DOMAIN groups[n][j]
  <2>1. PICK n \in DOMAIN keys : k \in keys[n]
    BY <1>10
  <2> DEFINE part == Restrict(c, keys[n] \ queued)
  <2>2. IsCollection(part) /\ k \in DOMAIN part /\ groups[n] = Chunks(part)
    BY <1>9, <2>1, RestrictIsCollection DEF Restrict
  <2> HIDE DEF part, groups
  <2> QED
    BY <1>11, <2>1, <2>2, ChunksCover
<1> HIDE DEF groups
<1>15. PICK all : all = FullSnapshot(c, queued)
  OBVIOUS
<1>16. /\ UploadsOf(all, c)
       /\ \A n \in 1..Len(keys) : Comprises(all, groups[n])
  BY <1>11, <1>12, <1>13, <1>15, AllJoined
<1>17. \A k \in DOMAIN c \ queued : \E n \in DOMAIN all : k \in DOMAIN all[n]
  BY <1>14, <1>16 DEF Comprises
<1> QED
  BY <1>15, <1>16, <1>17

-----------------------------------------------------------------------------
(* The outbox of a device that has generated m ids: ids of its own, in the *)
(* order they were generated.                                              *)
IsMutation(d, m, row) ==
    /\ row = [id |-> row.id, changes |-> row.changes, ack |-> row.ack]
    /\ \E k \in 1..m : row.id = <<d, k>>
    /\ row.ack \in Nat /\ Uploadable(row.changes)

IsOutbox(d, m, box) ==
    /\ Sequence(box)
    /\ \A n \in DOMAIN box : IsMutation(d, m, box[n])
    /\ \A n, p \in DOMAIN box : n < p => box[n].id[2] < box[p].id[2]

Ids(box) == {box[n].id : n \in DOMAIN box}

(* The outbox new of a device that has generated n ids is box, of when it  *)
(* had generated m, followed by the rows generated since.                  *)
Extends(d, m, box, n, new) ==
    /\ n \in Nat /\ m <= n
    /\ Sequence(new) /\ Len(new) = Len(box) + (n - m)
    /\ \A p \in 1..Len(box) : new[p] = box[p]
    /\ \A k \in 1..(n - m) :
          /\ new[Len(box) + k]
               = [id |-> <<d, m + k>>, changes |-> new[Len(box) + k].changes, ack |-> 0]
          /\ Uploadable(new[Len(box) + k].changes)

(* The rows that new adds to box are parts of the collection c.            *)
Adds(box, new, c) ==
    \A p \in DOMAIN new \ DOMAIN box : PartOf(new[p].changes, c)

(* The keys of the rows that new adds to box.                              *)
Added(box, new) == UNION {DOMAIN new[p].changes : p \in DOMAIN new \ DOMAIN box}

(* Enqueued appends a row for each group, under the next ids.              *)
LEMMA EnqueuedRows ==
    ASSUME NEW d, NEW m \in Nat, NEW box, Sequence(box), NEW groups, Uploads(groups)
    PROVE  /\ Extends(d, m, box, m + Len(groups), Enqueued(d, box, m, groups))
           /\ Len(Enqueued(d, box, m, groups)) - Len(box) = Len(groups)
           /\ \A k \in DOMAIN groups :
                Enqueued(d, box, m, groups)[Len(box) + k].changes = groups[k]
<1> DEFINE row(n) == [id |-> <<d, m + n>>, changes |-> groups[n], ack |-> 0]
           rows == [n \in DOMAIN groups |-> row(n)]
           new == box \o rows
<1>1. /\ Len(groups) \in Nat /\ DOMAIN groups = 1..Len(groups)
      /\ Len(box) \in Nat /\ DOMAIN box = 1..Len(box)
  BY SequenceShape DEF Uploads
<1>2. rows \in [1..Len(groups) -> {row(n) : n \in 1..Len(groups)}]
  BY <1>1
<1>3. \A n \in 1..Len(groups) : rows[n] = row(n) /\ Uploadable(groups[n])
  BY <1>1 DEF Uploads
<1> HIDE DEF rows
<1>4. Sequence(rows) /\ Len(rows) = Len(groups)
  BY <1>1, <1>2, FunctionIsSequence
<1>5. /\ Sequence(new) /\ Len(new) = Len(box) + Len(groups)
      /\ \A p \in 1..Len(box) : new[p] = box[p]
      /\ \A k \in 1..Len(groups) : new[Len(box) + k] = rows[k]
  BY <1>4, Concatenated
<1>6. Enqueued(d, box, m, groups) = new
  BY DEF Enqueued, rows
<1> HIDE DEF new
<1>7. \A k \in 1..Len(groups) :
          /\ new[Len(box) + k]
               = [id |-> <<d, m + k>>, changes |-> new[Len(box) + k].changes, ack |-> 0]
          /\ Uploadable(new[Len(box) + k].changes)
          /\ new[Len(box) + k].changes = groups[k]
  <2> SUFFICES ASSUME NEW k \in 1..Len(groups)
               PROVE  /\ new[Len(box) + k]
                           = [id |-> <<d, m + k>>, changes |-> new[Len(box) + k].changes,
                              ack |-> 0]
                      /\ Uploadable(new[Len(box) + k].changes)
                      /\ new[Len(box) + k].changes = groups[k]
    OBVIOUS
  <2>1. new[Len(box) + k] = row(k) /\ Uploadable(groups[k])
    BY <1>3, <1>5
  <2>2. new[Len(box) + k].changes = groups[k]
    BY <2>1
  <2> QED
    BY <2>1, <2>2
<1>8. m + Len(groups) \in Nat /\ m <= m + Len(groups) /\ (m + Len(groups)) - m = Len(groups)
  BY <1>1
<1>9. Extends(d, m, box, m + Len(groups), new)
  BY <1>5, <1>7, <1>8 DEF Extends
<1>10. \A k \in DOMAIN groups : new[Len(box) + k].changes = groups[k]
  BY <1>1, <1>7
<1>11. Len(new) - Len(box) = Len(groups)
  BY <1>1, <1>5
<1> QED
  BY <1>6, <1>9, <1>10, <1>11, Zenon

(* Enqueued extends an outbox.                                             *)
LEMMA EnqueuedExtends ==
    ASSUME NEW d, NEW m \in Nat, NEW box, Sequence(box), NEW groups, Uploads(groups)
    PROVE  /\ Extends(d, m, box, m + Len(groups), Enqueued(d, box, m, groups))
           /\ Len(Enqueued(d, box, m, groups)) - Len(box) = Len(groups)
BY EnqueuedRows

(* What Enqueued appends is what it was given.                             *)
LEMMA EnqueuedAdds ==
    ASSUME NEW d, NEW m \in Nat, NEW box, Sequence(box), NEW c, NEW groups,
           UploadsOf(groups, c)
    PROVE  LET new == Enqueued(d, box, m, groups) IN
           /\ Adds(box, new, c)
           /\ \A n \in DOMAIN groups : DOMAIN groups[n] \subseteq Added(box, new)
<1> DEFINE new == Enqueued(d, box, m, groups)
<1>1. /\ Sequence(new) /\ Len(new) = Len(box) + Len(groups)
      /\ \A k \in DOMAIN groups : new[Len(box) + k].changes = groups[k]
  <2>1. /\ Extends(d, m, box, m + Len(groups), new)
        /\ \A k \in DOMAIN groups : new[Len(box) + k].changes = groups[k]
        /\ Len(new) - Len(box) = Len(groups)
    <3>1. Uploads(groups)
      BY DEF UploadsOf
    <3>2. /\ Extends(d, m, box, m + Len(groups), Enqueued(d, box, m, groups))
          /\ Len(Enqueued(d, box, m, groups)) - Len(box) = Len(groups)
          /\ \A k \in DOMAIN groups :
               Enqueued(d, box, m, groups)[Len(box) + k].changes = groups[k]
      BY <3>1, EnqueuedRows
    <3> QED
      BY <3>2
  <2>2. Len(box) \in Nat /\ Len(new) \in Nat /\ Len(groups) \in Nat
    BY <2>1, SequenceShape DEF Extends, UploadsOf, Uploads
  <2> HIDE DEF new
  <2> QED
    BY <2>1, <2>2 DEF Extends
<1> HIDE DEF new
<1>2. /\ Len(box) \in Nat /\ DOMAIN box = 1..Len(box)
      /\ DOMAIN new = 1..Len(new) /\ Len(groups) \in Nat /\ DOMAIN groups = 1..Len(groups)
  BY <1>1, SequenceShape DEF UploadsOf, Uploads
<1>3. Adds(box, new, c)
  <2> SUFFICES ASSUME NEW p \in DOMAIN new \ DOMAIN box
               PROVE  PartOf(new[p].changes, c)
    BY DEF Adds
  <2> DEFINE k == p - Len(box)
  <2>1. k \in DOMAIN groups /\ Len(box) + k = p
    BY <1>1, <1>2
  <2> HIDE DEF k
  <2> QED
    BY <1>1, <2>1 DEF UploadsOf, Uploads
<1>4. ASSUME NEW n \in DOMAIN groups PROVE DOMAIN groups[n] \subseteq Added(box, new)
  <2>1. Len(box) + n \in DOMAIN new \ DOMAIN box
    BY <1>1, <1>2
  <2> QED
    BY <1>1, <2>1 DEF Added
<1> QED
  BY <1>3, <1>4 DEF new

(* An outbox extends itself.                                               *)
LEMMA NothingExtends ==
    ASSUME NEW d, NEW m \in Nat, NEW box, Sequence(box)
    PROVE  Extends(d, m, box, m, box)
BY SequenceShape DEF Extends

(* Extending an outbox twice extends it.                                   *)
LEMMA ExtendsTwice ==
    ASSUME NEW d, NEW m \in Nat, NEW a, Sequence(a), NEW n, NEW b, NEW o, NEW c,
           Extends(d, m, a, n, b), Extends(d, n, b, o, c)
    PROVE  Extends(d, m, a, o, c)
<1>1. /\ n \in Nat /\ o \in Nat /\ m <= n /\ n <= o /\ Len(a) \in Nat
      /\ Len(b) = Len(a) + (n - m) /\ Len(c) = Len(b) + (o - n)
      /\ Sequence(c)
  BY SequenceShape DEF Extends
<1>2. \A p \in 1..Len(a) : c[p] = a[p]
  BY <1>1 DEF Extends
<1>3. ASSUME NEW k \in 1..(o - m)
      PROVE  /\ c[Len(a) + k]
                  = [id |-> <<d, m + k>>, changes |-> c[Len(a) + k].changes, ack |-> 0]
             /\ Uploadable(c[Len(a) + k].changes)
  <2>1. CASE k <= n - m
    <3>1. k \in 1..(n - m) /\ Len(a) + k \in 1..Len(b)
      BY <1>1, <2>1
    <3>2. c[Len(a) + k] = b[Len(a) + k]
      BY <3>1 DEF Extends
    <3> QED
      BY <3>1, <3>2 DEF Extends
  <2>2. CASE k > n - m
    <3> DEFINE j == k - (n - m)
    <3>1. j \in 1..(o - n) /\ Len(b) + j = Len(a) + k /\ n + j = m + k
      BY <1>1, <2>2
    <3> HIDE DEF j
    <3>2. /\ c[Len(b) + j]
               = [id |-> <<d, n + j>>, changes |-> c[Len(b) + j].changes, ack |-> 0]
          /\ Uploadable(c[Len(b) + j].changes)
      BY <3>1 DEF Extends
    <3> QED
      BY <3>1, <3>2
  <2> QED
    BY <1>1, <2>1, <2>2
<1> QED
  BY <1>1, <1>2, <1>3 DEF Extends

(* Adding parts of a collection twice adds parts of it.                    *)
LEMMA AddsTwice ==
    ASSUME NEW a, NEW b, NEW c, NEW new, Adds(a, b, c), Adds(b, new, c),
           \A p \in DOMAIN b : new[p] = b[p]
    PROVE  Adds(a, new, c)
BY DEF Adds

(* An extended outbox keeps its rows.                                      *)
LEMMA ExtendedRows ==
    ASSUME NEW d, NEW m \in Nat, NEW box, Sequence(box), NEW n, NEW new,
           Extends(d, m, box, n, new)
    PROVE  DOMAIN box \subseteq DOMAIN new /\ \A p \in DOMAIN box : new[p] = box[p]
<1>1. Len(box) \in Nat /\ DOMAIN box = 1..Len(box)
  BY SequenceShape
<1>2. Sequence(new) /\ Len(new) = Len(box) + (n - m) /\ n \in Nat /\ m <= n
      /\ \A p \in 1..Len(box) : new[p] = box[p]
  BY DEF Extends
<1>3. DOMAIN new = 1..Len(new)
  BY <1>2, SequenceShape
<1> QED
  BY <1>1, <1>2, <1>3

(* What an extended outbox queues.                                         *)
LEMMA ExtendedQueue ==
    ASSUME NEW d, NEW m \in Nat, NEW box, Sequence(box), NEW n, NEW new,
           Extends(d, m, box, n, new)
    PROVE  Queued(new) = Queued(box) \cup Added(box, new)
<1>1. DOMAIN box \subseteq DOMAIN new /\ \A p \in DOMAIN box : new[p] = box[p]
  BY ExtendedRows
<1>2. Queued(box) \cup Added(box, new) \subseteq Queued(new)
  BY <1>1 DEF Queued, Added
<1>3. Queued(new) \subseteq Queued(box) \cup Added(box, new)
  BY <1>1 DEF Queued, Added
<1> QED
  BY <1>2, <1>3

(* An extended outbox is an outbox; its new ids are the ones generated     *)
(* since.                                                                  *)
LEMMA ExtendedOutbox ==
    ASSUME NEW d, NEW m \in Nat, NEW box, IsOutbox(d, m, box), NEW n, NEW new,
           Extends(d, m, box, n, new)
    PROVE  /\ IsOutbox(d, n, new)
           /\ Ids(new) = Ids(box) \cup {<<d, k>> : k \in (m + 1)..n}
<1>1. /\ Len(box) \in Nat /\ DOMAIN box = 1..Len(box) /\ n \in Nat /\ m <= n
      /\ DOMAIN new = 1..Len(new) /\ Len(new) = Len(box) + (n - m)
  BY SequenceShape DEF IsOutbox, Extends
<1>2. ASSUME NEW p \in DOMAIN new
      PROVE  \/ p \in DOMAIN box /\ new[p] = box[p]
             \/ /\ p \notin DOMAIN box /\ p - Len(box) \in 1..(n - m)
                /\ new[p] = [id |-> <<d, m + (p - Len(box))>>,
                             changes |-> new[p].changes, ack |-> 0]
                /\ Uploadable(new[p].changes)
  <2>1. CASE p <= Len(box)
    BY <1>1, <2>1 DEF Extends
  <2>2. CASE p > Len(box)
    <3> DEFINE k == p - Len(box)
    <3>1. k \in 1..(n - m) /\ Len(box) + k = p /\ p \notin DOMAIN box
      BY <1>1, <2>2
    <3> HIDE DEF k
    <3>2. /\ new[Len(box) + k]
               = [id |-> <<d, m + k>>, changes |-> new[Len(box) + k].changes, ack |-> 0]
          /\ Uploadable(new[Len(box) + k].changes)
      BY <3>1 DEF Extends
    <3> QED
      BY <3>1, <3>2 DEF k
  <2> QED
    BY <1>1, <2>1, <2>2
<1>3. ASSUME NEW p \in DOMAIN new PROVE IsMutation(d, n, new[p])
  <2>1. CASE p \in DOMAIN box /\ new[p] = box[p]
    <3>1. IsMutation(d, m, box[p])
      BY <2>1 DEF IsOutbox
    <3>2. 1..m \subseteq 1..n
      BY <1>1
    <3> QED
      BY <2>1, <3>1, <3>2 DEF IsMutation
  <2>2. CASE ~(p \in DOMAIN box /\ new[p] = box[p])
    <3> DEFINE k == m + (p - Len(box))
    <3>1. /\ k \in 1..n /\ Uploadable(new[p].changes)
          /\ new[p] = [id |-> <<d, k>>, changes |-> new[p].changes, ack |-> 0]
      BY <1>1, <1>2, <2>2
    <3> HIDE DEF k
    <3> QED
      BY <3>1 DEF IsMutation
  <2> QED
    BY <2>1, <2>2
<1>4. ASSUME NEW p \in DOMAIN new, NEW q \in DOMAIN new, p < q
      PROVE  new[p].id[2] < new[q].id[2]
  <2>1. CASE q \in DOMAIN box
    <3>1. p \in DOMAIN box
      BY <1>1, <1>4, <2>1
    <3> QED
      BY <1>2, <1>4, <2>1, <3>1 DEF IsOutbox
  <2>2. CASE q \notin DOMAIN box /\ p \in DOMAIN box
    <3>1. new[q].id = <<d, m + (q - Len(box))>> /\ q - Len(box) \in 1..(n - m)
      BY <1>2, <2>2
    <3>2. PICK k \in 1..m : new[p].id = <<d, k>>
      BY <1>2, <2>2 DEF IsOutbox, IsMutation
    <3> QED
      BY <1>1, <3>1, <3>2
  <2>3. CASE q \notin DOMAIN box /\ p \notin DOMAIN box
    <3>1. /\ new[q].id = <<d, m + (q - Len(box))>> /\ q - Len(box) \in 1..(n - m)
          /\ new[p].id = <<d, m + (p - Len(box))>> /\ p - Len(box) \in 1..(n - m)
      BY <1>2, <2>3
    <3> QED
      BY <1>1, <1>4, <3>1, SMTT(30)
  <2> QED
    BY <2>1, <2>2, <2>3
<1>5. Ids(new) \subseteq Ids(box) \cup {<<d, k>> : k \in (m + 1)..n}
  <2> SUFFICES ASSUME NEW p \in DOMAIN new, new[p].id \notin Ids(box)
               PROVE  new[p].id \in {<<d, k>> : k \in (m + 1)..n}
    BY DEF Ids
  <2>1. new[p].id = <<d, m + (p - Len(box))>> /\ p - Len(box) \in 1..(n - m)
    BY <1>2 DEF Ids
  <2>2. m + (p - Len(box)) \in (m + 1)..n
    BY <1>1, <2>1
  <2> QED
    BY <2>1, <2>2
<1>6. Ids(box) \subseteq Ids(new)
  <2> SUFFICES ASSUME NEW p \in DOMAIN box PROVE box[p].id \in Ids(new)
    BY DEF Ids
  <2>1. p \in DOMAIN new /\ new[p] = box[p]
    BY <1>1 DEF Extends
  <2> QED
    BY <2>1 DEF Ids
<1>7. ASSUME NEW k \in (m + 1)..n PROVE <<d, k>> \in Ids(new)
  <2> DEFINE j == k - m
  <2>1. j \in 1..(n - m) /\ m + j = k /\ Len(box) + j \in DOMAIN new
    BY <1>1
  <2> HIDE DEF j
  <2> DEFINE c == new[Len(box) + j].changes
  <2> HIDE DEF c
  <2>0. new[Len(box) + j] = [id |-> <<d, m + j>>, changes |-> c, ack |-> 0]
    BY <2>1 DEF Extends, c
  <2>2. new[Len(box) + j].id = <<d, m + j>>
    BY <2>0
  <2>3. PICK q \in DOMAIN new : q = Len(box) + j
    BY <2>1
  <2>4. new[q].id \in Ids(new)
    BY DEF Ids
  <2> QED
    BY <2>1, <2>2, <2>3, <2>4
<1>8. IsOutbox(d, n, new)
  BY <1>3, <1>4 DEF IsOutbox, Extends
<1>9. Ids(new) = Ids(box) \cup {<<d, k>> : k \in (m + 1)..n}
  BY <1>5, <1>6, <1>7
<1> QED
  BY <1>8, <1>9

(* Every id a device generates is one of the server's client mutations.    *)
FreshIds == \A d \in Devices : \A k \in Nat \ {0} : <<d, k>> \in MutationIds

(* A copy of the outbox in which only acknowledgements differ.             *)
LEMMA ReackedOutbox ==
    ASSUME NEW d, NEW m, NEW box, IsOutbox(d, m, box), NEW a,
           \A n \in DOMAIN box : a[n] \in Nat, NEW new,
           new = [n \in DOMAIN box |->
                    [id |-> box[n].id, changes |-> box[n].changes, ack |-> a[n]]]
    PROVE  IsOutbox(d, m, new) /\ Len(new) = Len(box)
<1>1. Len(box) \in Nat /\ DOMAIN box = 1..Len(box)
  BY SequenceShape DEF IsOutbox
<1>2. new \in [1..Len(box) -> ToSet(new)] /\ DOMAIN new = DOMAIN box
  BY <1>1 DEF ToSet
<1>3. Sequence(new) /\ Len(new) = Len(box)
  BY <1>1, <1>2, FunctionIsSequence
<1>4. ASSUME NEW n \in DOMAIN new
      PROVE  IsMutation(d, m, new[n]) /\ new[n].id = box[n].id
  BY <1>4 DEF IsOutbox, IsMutation
<1> QED
  BY <1>2, <1>3, <1>4 DEF IsOutbox

(* Recording acknowledgements changes acknowledgements only.               *)
LEMMA AcknowledgedOutbox ==
    ASSUME NEW d, NEW m, NEW box, IsOutbox(d, m, box), NEW page,
           \A i \in DOMAIN page.acks : page.acks[i] \in Nat
    PROVE  /\ IsOutbox(d, m, Acknowledged(box, page))
           /\ DOMAIN Acknowledged(box, page) = DOMAIN box
           /\ \A n \in DOMAIN box :
                Acknowledged(box, page)[n]
                  = [id |-> box[n].id, changes |-> box[n].changes,
                     ack |-> IF box[n].id \in DOMAIN page.acks
                             THEN page.acks[box[n].id] ELSE box[n].ack]
<1> DEFINE a == [n \in DOMAIN box |-> IF box[n].id \in DOMAIN page.acks
                                      THEN page.acks[box[n].id] ELSE box[n].ack]
           new == [n \in DOMAIN box |->
                    [id |-> box[n].id, changes |-> box[n].changes, ack |-> a[n]]]
<1>1. \A n \in DOMAIN box :
         box[n] = [id |-> box[n].id, changes |-> box[n].changes, ack |-> box[n].ack]
         /\ box[n].ack \in Nat
  BY DEF IsOutbox, IsMutation
<1>2. \A n \in DOMAIN box : a[n] \in Nat
  BY <1>1
<1>3. ASSUME NEW n \in DOMAIN box
      PROVE  Acknowledged(box, page)[n] = new[n]
  <2>1. Acknowledged(box, page)[n]
          = IF box[n].id \in DOMAIN page.acks
            THEN [box[n] EXCEPT !.ack = page.acks[box[n].id]] ELSE box[n]
    BY DEF Acknowledged
  <2>2. [box[n] EXCEPT !.ack = page.acks[box[n].id]]
          = [id |-> box[n].id, changes |-> box[n].changes, ack |-> page.acks[box[n].id]]
    BY <1>1
  <2> QED
    BY <1>1, <2>1, <2>2
<1>4. Acknowledged(box, page) = new
  <2>1. Acknowledged(box, page) = [n \in DOMAIN box |-> Acknowledged(box, page)[n]]
    BY DEF Acknowledged
  <2>2. new = [n \in DOMAIN box |-> new[n]]
    OBVIOUS
  <2> HIDE DEF new
  <2> QED
    BY <1>3, <2>1, <2>2
<1>5. IsOutbox(d, m, new)
  <2> HIDE DEF a
  <2> QED
    BY <1>2, ReackedOutbox
<1> QED
  BY <1>3, <1>4, <1>5

(* A rebind that forgets the acknowledgements leaves an outbox.            *)
LEMMA ForgottenOutbox ==
    ASSUME NEW d, NEW m, NEW box, IsOutbox(d, m, box)
    PROVE  IsOutbox(d, m, [n \in DOMAIN box |-> [box[n] EXCEPT !.ack = 0]])
<1> DEFINE a == [n \in DOMAIN box |-> 0]
           new == [n \in DOMAIN box |-> [box[n] EXCEPT !.ack = 0]]
<1>1. new = [n \in DOMAIN box |->
               [id |-> box[n].id, changes |-> box[n].changes, ack |-> a[n]]]
  BY DEF IsOutbox, IsMutation
<1>2. \A n \in DOMAIN box : a[n] \in Nat
  OBVIOUS
<1> HIDE DEF a, new
<1>3. IsOutbox(d, m, new)
  BY <1>1, <1>2, ReackedOutbox
<1> QED
  BY <1>3 DEF new

(* Deleting rows of an outbox leaves an outbox of the others, in their     *)
(* order.                                                                  *)
LEMMA PartOfOutbox ==
    ASSUME NEW d, NEW m, NEW box, IsOutbox(d, m, box), NEW S \in SUBSET DOMAIN box
    PROVE  /\ IsOutbox(d, m, RowsAt(box, S))
           /\ Ids(RowsAt(box, S)) = {box[p].id : p \in S}
           /\ \A k \in DOMAIN RowsAt(box, S) : \E p \in S : RowsAt(box, S)[k] = box[p]
<1> DEFINE rows == RowsAt(box, S)
<1>1. PICK f : /\ Sequence(rows) /\ DOMAIN f = DOMAIN rows
               /\ \A k \in DOMAIN rows : f[k] \in S /\ rows[k] = box[f[k]]
               /\ \A j, k \in DOMAIN rows : j < k => f[j] < f[k]
               /\ \A p \in S : \E k \in DOMAIN rows : f[k] = p
  BY RowsInOrder DEF IsOutbox
<1> HIDE DEF rows
<1>2. \A k \in DOMAIN rows : f[k] \in DOMAIN box
  BY <1>1
<1>3. IsOutbox(d, m, rows)
  BY <1>1, <1>2 DEF IsOutbox
<1>4. Ids(rows) = {box[p].id : p \in S}
  BY <1>1 DEF Ids
<1> QED
  BY <1>1, <1>3, <1>4 DEF rows

-----------------------------------------------------------------------------
(* The batch of a request.                                                 *)
BatchIds(box) == {box[p].id : p \in Fitting(box)}

(* A batch is what validate_v2_request lets through, and holds exactly the *)
(* mutations that fit.                                                     *)
LEMMA BatchIsRequest ==
    ASSUME FreshIds, NEW d \in Devices, NEW m \in Nat, NEW box, IsOutbox(d, m, box),
           NEW s, NEW c \in Nat
    PROVE  /\ IsRequest([id |-> d, serverId |-> s, cursor |-> c,
                         mutations |-> Batch(box)])
           /\ {Batch(box)[k].id : k \in DOMAIN Batch(box)} = BatchIds(box)
<1> DEFINE rows == RowsAt(box, Fitting(box))
           batch == [k \in DOMAIN rows |-> [id |-> rows[k].id, changes |-> rows[k].changes]]
           req == [id |-> d, serverId |-> s, cursor |-> c, mutations |-> batch]
<1>1. Fitting(box) \in SUBSET DOMAIN box
  BY DEF Fitting, Unacked
<1>2. IsOutbox(d, m, rows) /\ Ids(rows) = BatchIds(box)
  BY <1>1, PartOfOutbox DEF BatchIds
<1>3. Batch(box) = batch
  BY DEF Batch
<1> HIDE DEF rows
<1>4. Len(rows) \in Nat /\ DOMAIN rows = 1..Len(rows)
  BY <1>2, SequenceShape DEF IsOutbox
<1>5. batch \in [1..Len(rows) -> ToSet(batch)] /\ DOMAIN batch = 1..Len(rows)
  BY <1>4 DEF ToSet
<1>6. \A k \in DOMAIN batch : batch[k].id = rows[k].id /\ batch[k].changes = rows[k].changes
  OBVIOUS
<1> HIDE DEF batch
<1>7. Len(batch) \in Nat /\ DOMAIN batch = 1..Len(batch) /\ DOMAIN batch = DOMAIN rows
  BY <1>4, <1>5, FunctionIsSequence
<1>8. \A p, q \in DOMAIN batch : batch[p].id = batch[q].id => p = q
  <2> SUFFICES ASSUME NEW p \in DOMAIN batch, NEW q \in DOMAIN batch,
                      batch[p].id = batch[q].id, p # q
               PROVE  FALSE
    OBVIOUS
  <2>1. p \in DOMAIN rows /\ q \in DOMAIN rows /\ (p < q \/ q < p)
    BY <1>4, <1>7
  <2>2. (p < q => rows[p].id[2] < rows[q].id[2])
        /\ (q < p => rows[q].id[2] < rows[p].id[2])
    BY <1>2, <2>1 DEF IsOutbox
  <2>3. rows[p].id = rows[q].id /\ rows[p].id[2] \in Nat
    <3>1. PICK k \in 1..m : rows[p].id = <<d, k>>
      BY <1>2, <2>1 DEF IsOutbox, IsMutation
    <3> QED
      BY <1>6, <3>1
  <2> QED
    BY <2>1, <2>2, <2>3
<1>9. \A p \in DOMAIN batch : batch[p].id \in MutationIds /\ IsCollection(batch[p].changes)
  <2> SUFFICES ASSUME NEW p \in DOMAIN batch
               PROVE  batch[p].id \in MutationIds /\ IsCollection(batch[p].changes)
    OBVIOUS
  <2>1. IsMutation(d, m, rows[p])
    BY <1>2, <1>7 DEF IsOutbox
  <2>2. PICK k \in 1..m : rows[p].id = <<d, k>>
    BY <2>1 DEF IsMutation
  <2>3. <<d, k>> \in MutationIds
    BY <2>2 DEF FreshIds
  <2> QED
    BY <1>6, <2>1, <2>2, <2>3 DEF IsMutation, Uploadable
<1>10. req.cursor = c /\ req.mutations = batch
  OBVIOUS
<1> HIDE DEF req
<1>11. IsRequest(req)
  BY <1>7, <1>8, <1>9, <1>10 DEF IsRequest, WellFormed
<1>12. {batch[k].id : k \in DOMAIN batch} = Ids(rows)
  BY <1>6, <1>7 DEF Ids
<1> QED
  BY <1>2, <1>3, <1>11, <1>12 DEF req

(* A request without mutations only pulls.                                 *)
LEMMA PullIsRequest ==
    ASSUME NEW d, NEW s, NEW c \in Nat
    PROVE  IsRequest([id |-> d, serverId |-> s, cursor |-> c, mutations |-> << >>])
<1> DEFINE req == [id |-> d, serverId |-> s, cursor |-> c, mutations |-> << >>]
<1>1. req.cursor = c /\ req.mutations = << >>
  OBVIOUS
<1> HIDE DEF req
<1>2. IsRequest(req)
  BY <1>1, NoneIsSequence DEF IsRequest, WellFormed
<1> QED
  BY <1>2 DEF req

(* What fits a request still does when the outbox has grown.               *)
LEMMA FittingGrows ==
    ASSUME NEW d, NEW m \in Nat, NEW box, Sequence(box), NEW n, NEW new,
           Extends(d, m, box, n, new)
    PROVE  BatchIds(box) \subseteq BatchIds(new)
<1>1. /\ Len(box) \in Nat /\ DOMAIN box = 1..Len(box) /\ n \in Nat /\ m <= n
      /\ DOMAIN new = 1..Len(new) /\ Len(new) = Len(box) + (n - m)
      /\ \A p \in 1..Len(box) : new[p] = box[p]
  BY SequenceShape DEF Extends
<1>2. ASSUME NEW p \in DOMAIN box
      PROVE  /\ UpTo(new, p) = UpTo(box, p) /\ ChangesUpTo(new, p) = ChangesUpTo(box, p)
             /\ p \in DOMAIN new /\ new[p] = box[p]
  <2>1. \A q \in DOMAIN new : q <= p => q \in DOMAIN box
    BY <1>1
  <2>2. UpTo(new, p) = UpTo(box, p)
    BY <1>1, <2>1 DEF UpTo, Unacked
  <2>3. \A q \in UpTo(box, p) : new[q] = box[q]
    BY <1>1 DEF UpTo, Unacked
  <2>4. ChangesUpTo(new, p) = ChangesUpTo(box, p)
    BY <2>2, <2>3 DEF ChangesUpTo
  <2> QED
    BY <1>1, <2>2, <2>4
<1>3. ASSUME NEW p \in Fitting(box) PROVE p \in Fitting(new) /\ new[p].id = box[p].id
  <2>1. p \in DOMAIN box
    BY DEF Fitting, Unacked
  <2> QED
    BY <1>2, <2>1 DEF Fitting, Unacked
<1> QED
  BY <1>3 DEF BatchIds

-----------------------------------------------------------------------------
(* Devices and their exchanges, typed.                                     *)
StateTyped(s) ==
    s \in [serverId: 0..serverId, cursor: Nat, baseline: BOOLEAN,
           bootstrapped: BOOLEAN, seeded: BOOLEAN]

DeviceTyped(d) ==
    /\ IsCollection(local[d]) /\ StateTyped(state[d])
    /\ minted[d] \in Nat /\ IsOutbox(d, minted[d], outbox[d])

PageTyped(page) ==
    /\ page.serverId \in 0..serverId /\ page.nextCursor \in Nat
    /\ Sequence(page.groups)
    /\ \A g \in DOMAIN page.groups : IsCollection(page.groups[g].changes)
    /\ \A m \in DOMAIN page.acks : page.acks[m] \in Nat

IsPage(page) == page # Nothing /\ "refused" \notin DOMAIN page

WireTyped(d) ==
    /\ request[d] # Nothing => IsRequest(request[d])
    /\ \A req \in stray[d] : IsRequest(req)
    /\ IsPage(response[d]) => PageTyped(response[d])

ByDevice(f) == f = [d \in Devices |-> f[d]]

Domains ==
    /\ ByDevice(local) /\ ByDevice(outbox) /\ ByDevice(versions) /\ ByDevice(state)
    /\ ByDevice(minted) /\ ByDevice(request) /\ ByDevice(response) /\ ByDevice(stray)

Typed ==
    /\ HistorySound /\ serverId \in Nat /\ rebinding \subseteq Devices /\ Domains
    /\ \A d \in Devices : DeviceTyped(d) /\ WireTyped(d)

(* A step of device d leaves what other devices have alone.                *)
OthersKept(d, new, old) == new = [e \in Devices |-> IF e = d THEN new[d] ELSE old[e]]

(* What does not change is kept at every device.                           *)
LEMMA KeptAtDevice ==
    ASSUME NEW d \in Devices, NEW old, ByDevice(old)
    PROVE  OthersKept(d, old, old)
BY DEF OthersKept, ByDevice

OnlyDevice(d) ==
    /\ OthersKept(d, local', local) /\ OthersKept(d, outbox', outbox)
    /\ OthersKept(d, versions', versions) /\ OthersKept(d, state', state)
    /\ OthersKept(d, minted', minted) /\ OthersKept(d, request', request)
    /\ OthersKept(d, response', response) /\ OthersKept(d, stray', stray)

(* A step that changes one device and keeps its types keeps all types.     *)
LEMMA DeviceStep ==
    ASSUME Typed, NEW d \in Devices, OnlyDevice(d), HistorySound', serverId' \in Nat,
           serverId <= serverId', rebinding' \subseteq Devices,
           DeviceTyped(d)', WireTyped(d)'
    PROVE  Typed'
<1>1. Domains'
  BY DEF OnlyDevice, OthersKept, Domains, ByDevice
<1>2. ASSUME NEW e \in Devices, e # d
      PROVE  /\ local'[e] = local[e] /\ outbox'[e] = outbox[e] /\ state'[e] = state[e]
             /\ minted'[e] = minted[e] /\ request'[e] = request[e]
             /\ response'[e] = response[e] /\ stray'[e] = stray[e]
  BY <1>2 DEF OnlyDevice, OthersKept
<1>3. 0..serverId \subseteq 0..serverId'
  BY DEF Typed
<1>4. ASSUME NEW e \in Devices, e # d
      PROVE  DeviceTyped(e)'
  <2>1. DeviceTyped(e)
    BY DEF Typed
  <2>2. StateTyped(state[e])'
    BY <1>2, <1>3, <1>4, <2>1 DEF DeviceTyped, StateTyped
  <2> QED
    BY <1>2, <1>4, <2>1, <2>2 DEF DeviceTyped, IsCollection
<1>5. ASSUME NEW e \in Devices, e # d
      PROVE  WireTyped(e)'
  <2>1. WireTyped(e)
    BY DEF Typed
  <2>2. IsPage(response[e])' => PageTyped(response[e])'
    BY <1>2, <1>3, <1>5, <2>1 DEF WireTyped, IsPage, PageTyped, IsCollection
  <2> QED
    BY <1>2, <1>5, <2>1, <2>2 DEF WireTyped, IsRequest
<1> QED
  BY <1>1, <1>4, <1>5 DEF Typed

-----------------------------------------------------------------------------
(* A transaction that only adds mutations to the outbox of a device.       *)
Edits(d) ==
    /\ OthersKept(d, local', local) /\ IsCollection(local'[d])
    /\ OthersKept(d, outbox', outbox) /\ OthersKept(d, minted', minted)
    /\ Extends(d, minted[d], outbox[d], minted'[d], outbox'[d])
    /\ Adds(outbox[d], outbox'[d], local'[d])
    /\ Covers(local[d], local'[d], Added(outbox[d], outbox'[d]))
    /\ UNCHANGED <<serverVars, versions, response, stray, rebinding>>

(* A user transaction (Write) only adds mutations.                         *)
LEMMA WriteEdits ==
    ASSUME Typed, NEW d \in Devices, NEW after, IsCollection(after),
           NEW difference, IsCollection(difference), PartOf(difference, after),
           Covers(local[d], after, DOMAIN difference), Write(d, after, difference)
    PROVE  /\ Edits(d) /\ UNCHANGED <<state, request>>
           /\ local'[d] = after /\ DOMAIN difference \subseteq Added(outbox[d], outbox'[d])
<1> DEFINE groups == IF difference = << >> THEN << >> ELSE Chunks(difference)
<1>0. /\ UploadsOf(groups, difference)
      /\ \A k \in DOMAIN difference : \E n \in DOMAIN groups : k \in DOMAIN groups[n]
  <2>1. CASE difference = << >>
    BY <2>1, NoneIsSequence DEF UploadsOf, Uploads
  <2>2. CASE difference # << >>
    <3>1. groups = Chunks(difference)
      BY <2>2
    <3> HIDE DEF groups
    <3> QED
      BY <3>1, ChunksAreUploads, ChunksCover
  <2> QED
    BY <2>1, <2>2
<1> HIDE DEF groups
<1>1. UploadsOf(groups, after) /\ Uploads(groups)
  BY <1>0, PartOfPart DEF UploadsOf, Uploads
<1>2. /\ local' = [local EXCEPT ![d] = after]
      /\ outbox' = [outbox EXCEPT ![d] = Enqueued(d, @, minted[d], groups)]
      /\ minted' = [minted EXCEPT ![d] = @ + Len(groups)]
      /\ UNCHANGED <<serverVars, versions, wireVars, state, rebinding>>
  BY DEF Write, groups
<1>3. /\ ByDevice(local) /\ ByDevice(outbox) /\ ByDevice(minted)
      /\ minted[d] \in Nat /\ Sequence(outbox[d])
  BY DEF Typed, Domains, DeviceTyped, IsOutbox
<1>4. OthersKept(d, local', local) /\ local'[d] = after
  BY <1>2, <1>3 DEF OthersKept, ByDevice
<1>5. /\ OthersKept(d, outbox', outbox)
      /\ outbox'[d] = Enqueued(d, outbox[d], minted[d], groups)
  BY <1>2, <1>3 DEF OthersKept, ByDevice
<1>6. OthersKept(d, minted', minted) /\ minted'[d] = minted[d] + Len(groups)
  BY <1>2, <1>3 DEF OthersKept, ByDevice
<1>7. Extends(d, minted[d], outbox[d], minted'[d], outbox'[d])
  BY <1>1, <1>3, <1>5, <1>6, EnqueuedExtends
<1>8. /\ Adds(outbox[d], outbox'[d], after)
      /\ \A n \in DOMAIN groups : DOMAIN groups[n] \subseteq Added(outbox[d], outbox'[d])
  BY <1>1, <1>3, <1>5, EnqueuedAdds
<1>9. DOMAIN difference \subseteq Added(outbox[d], outbox'[d])
  BY <1>0, <1>8
<1>10. Covers(local[d], after, Added(outbox[d], outbox'[d]))
  BY <1>9 DEF Covers
<1> QED
  BY <1>2, <1>4, <1>5, <1>6, <1>7, <1>8, <1>9, <1>10 DEF Edits, wireVars

(* So does each of the user's writes.                                      *)
LEMMA UserWriteEdits ==
    ASSUME Typed, NEW d \in Devices, UserWrite(d)
    PROVE  Edits(d) /\ UNCHANGED <<state, request>>
<1>0. IsCollection(local[d])
  BY DEF Typed, DeviceTyped
<1>1. ASSUME NEW i \in Issues, NEW comic \in ComicInputs, SaveComic(d, i, comic)
      PROVE  Edits(d) /\ UNCHANGED <<state, request>>
  <2> DEFINE after == UpsertComic(local[d], i, comic)
  <2>1. comic \in FlatComics
    BY ProtocolAssumption DEF ProtocolAssumption
  <2>2. IsCollection(after)
    BY <1>0, <2>1, SavedComicIsCollection
  <2>3. IsCollection(WireDifference(local[d], after))
    BY <2>2, DifferenceIsCollection
  <2>4. Write(d, after, WireDifference(local[d], after))
    BY <1>1 DEF SaveComic
  <2>5. DOMAIN local[d] \subseteq DOMAIN after
    BY DEF UpsertComic, Overlay
  <2> HIDE DEF after
  <2> QED
    BY <1>0, <2>2, <2>3, <2>4, <2>5, DifferenceCovers, WriteEdits
<1>2. ASSUME NEW edit \in CopyInputs, SaveCopy(d, edit[1], edit[2])
      PROVE  Edits(d) /\ UNCHANGED <<state, request>>
  <2> DEFINE k == edit[1]
             row == edit[2]
             after == SaveCopyRow(local[d], k, row)
             only(c) == Restrict(c, {k} \cap DOMAIN c)
             difference == WireDifference(only(local[d]), only(after))
  <2>1. k \in Copies /\ row \in CopyData
    BY ProtocolAssumption DEF ProtocolAssumption
  <2>2. IsCollection(after)
    BY <1>0, <2>1, SavedCopyIsCollection
  <2>3. Write(d, after, difference)
    BY <1>2 DEF SaveCopy
  <2>4. /\ IsCollection(difference) /\ PartOf(difference, after)
        /\ Covers(local[d], after, DOMAIN difference)
    BY <1>0, <2>1, CopyDifferenceCovers
  <2> HIDE DEF k, row, after, only, difference
  <2> QED
    BY <2>2, <2>3, <2>4, WriteEdits
<1>3. ASSUME NEW b \in Barcodes, NEW i \in BarcodeInputs, SaveBarcode(d, b, i)
      PROVE  Edits(d) /\ UNCHANGED <<state, request>>
  <2> DEFINE row == [issue |-> i, deleted |-> FALSE]
             after == Overlay(local[d], Row(b, row))
  <2>1. row \in BarcodeData
    BY ProtocolAssumption DEF ProtocolAssumption, BarcodeData
  <2>2. b \in Keys /\ b \notin Issues /\ b \notin Copies
    BY CollectionAssumption DEF CollectionAssumption, Keys
  <2> HIDE DEF row
  <2>3. IsCollection(Row(b, row))
    BY <2>1, <2>2, RowIsCollection
  <2>4. IsCollection(after)
    BY <1>0, <2>3, OverlayIsCollection
  <2>5. Write(d, after, WireDifference(local[d], after))
    BY <1>3 DEF SaveBarcode, row
  <2>6. DOMAIN local[d] \subseteq DOMAIN after
    BY DEF Overlay
  <2> HIDE DEF after
  <2>7. IsCollection(WireDifference(local[d], after))
    BY <2>4, DifferenceIsCollection
  <2> QED
    BY <1>0, <2>4, <2>5, <2>6, <2>7, DifferenceCovers, WriteEdits
<1> QED
  BY <1>1, <1>2, <1>3 DEF UserWrite

(* Staging the collection adds mutations under the next ids.               *)
LEMMA SeedExtends ==
    ASSUME Typed, NEW d \in Devices, NEW box, Sequence(box), NEW m \in Nat
    PROVE  LET new == Seed(d, box, m)
           IN /\ Extends(d, m, box, m + Len(new) - Len(box), new)
              /\ Adds(box, new, local[d]) /\ DOMAIN local[d] \subseteq Queued(new)
<1> DEFINE groups == FullSnapshot(local[d], Queued(box))
<1>1. UploadsOf(groups, local[d]) /\ Uploads(groups)
  BY SnapshotIsUploads DEF Typed, DeviceTyped, UploadsOf
<1>0. \A k \in DOMAIN local[d] \ Queued(box) : \E n \in DOMAIN groups : k \in DOMAIN groups[n]
  BY SnapshotIsUploads DEF Typed, DeviceTyped
<1>2. Seed(d, box, m) = Enqueued(d, box, m, groups)
  BY DEF Seed
<1> HIDE DEF groups
<1> DEFINE new == Enqueued(d, box, m, groups)
<1>3. Extends(d, m, box, m + Len(groups), new) /\ Len(new) - Len(box) = Len(groups)
  BY <1>1, EnqueuedExtends
<1>4. Len(new) \in Nat /\ Len(box) \in Nat /\ Len(groups) \in Nat
  BY <1>1, <1>3, SequenceShape DEF UploadsOf, Uploads, Extends
<1> HIDE DEF new
<1>5. m + Len(new) - Len(box) = m + Len(groups)
  BY <1>3, <1>4
<1>6. Extends(d, m, box, m + Len(new) - Len(box), new)
  BY <1>3, <1>5
<1>7. Adds(box, new, local[d])
  BY <1>1, EnqueuedAdds DEF new
<1>8. \A n \in DOMAIN groups : DOMAIN groups[n] \subseteq Added(box, new)
  BY <1>1, EnqueuedAdds DEF new
<1>9. Queued(new) = Queued(box) \cup Added(box, new)
  BY <1>3, ExtendedQueue
<1>10. DOMAIN local[d] \subseteq Queued(new)
  <2> SUFFICES ASSUME NEW k \in DOMAIN local[d], k \notin Queued(box) PROVE k \in Added(box, new)
    BY <1>9
  <2>1. PICK n \in DOMAIN groups : k \in DOMAIN groups[n]
    BY <1>0
  <2> QED
    BY <1>8, <2>1
<1> QED
  BY <1>2, <1>6, <1>7, <1>10 DEF new

(* Preparing an exchange adds mutations at most twice, and sends the batch *)
(* of the outbox it leaves.                                                *)
LEMMA PrepareEdits ==
    ASSUME Typed, NEW d \in Devices, Prepare(d)
    PROVE  LET s == state[d] IN
           /\ Edits(d) /\ request[d] = Nothing
           /\ OthersKept(d, state', state) /\ StateTyped(state'[d])
           /\ state'[d].serverId = s.serverId /\ state'[d].cursor = s.cursor
           /\ state'[d].baseline = s.baseline /\ state'[d].seeded
           /\ s.seeded \/ DOMAIN local[d] \subseteq Queued(outbox'[d])
           /\ OthersKept(d, request', request)
           /\ request'[d] = [id |-> d, serverId |-> s.serverId, cursor |-> s.cursor,
                             mutations |-> IF s.baseline THEN Batch(outbox'[d]) ELSE << >>]
<1> DEFINE s == state[d]
           staged == IF s.seeded THEN outbox[d] ELSE Seed(d, outbox[d], minted[d])
           count == minted[d] + Len(staged) - Len(outbox[d])
           restage == s.baseline /\ ~s.bootstrapped /\ s.cursor = 0
           box == IF restage THEN Seed(d, staged, count) ELSE staged
<1>1. /\ request[d] = Nothing
      /\ outbox' = [outbox EXCEPT ![d] = box]
      /\ minted' = [minted EXCEPT ![d] = @ + Len(box) - Len(outbox[d])]
      /\ state' = [state EXCEPT ![d].seeded = TRUE,
                                ![d].bootstrapped = @ \/ s.baseline]
      /\ request' = [request EXCEPT ![d] =
            [id |-> d, serverId |-> s.serverId, cursor |-> s.cursor,
             mutations |-> IF s.baseline THEN Batch(box) ELSE << >>]]
      /\ UNCHANGED <<serverVars, local, versions, response, stray, rebinding>>
  BY DEF Prepare, Idle
<1>2. /\ Domains /\ minted[d] \in Nat /\ Sequence(outbox[d])
      /\ StateTyped(s) /\ IsCollection(local[d])
  BY DEF Typed, DeviceTyped, IsOutbox
<1>3. /\ Extends(d, minted[d], outbox[d], count, staged) /\ Adds(outbox[d], staged, local[d])
      /\ s.seeded \/ DOMAIN local[d] \subseteq Queued(staged)
  <2>1. CASE s.seeded
    <3>1. staged = outbox[d] /\ Len(outbox[d]) \in Nat
      BY <1>2, <2>1, SequenceShape
    <3>2. count = minted[d]
      <4> HIDE DEF staged
      <4> QED
        BY <1>2, <3>1
    <3> HIDE DEF count, staged
    <3> QED
      BY <1>2, <2>1, <3>1, <3>2, NothingExtends DEF Adds
  <2>2. CASE ~s.seeded
    <3>1. staged = Seed(d, outbox[d], minted[d])
      BY <2>2
    <3> HIDE DEF staged
    <3> QED
      BY <1>2, <3>1, SeedExtends
  <2> QED
    BY <2>1, <2>2
<1> HIDE DEF staged, count
<1>4. /\ Sequence(staged) /\ count \in Nat /\ Len(outbox[d]) \in Nat /\ Len(staged) \in Nat
      /\ Len(staged) = Len(outbox[d]) + (count - minted[d])
  BY <1>2, <1>3, SequenceShape DEF Extends
<1> DEFINE final == count + Len(box) - Len(staged)
<1>5. Extends(d, count, staged, final, box) /\ Adds(staged, box, local[d])
  <2>1. CASE restage
    <3>1. box = Seed(d, staged, count)
      BY <2>1
    <3> HIDE DEF box
    <3> QED
      BY <1>4, <3>1, SeedExtends
  <2>2. CASE ~restage
    <3>1. box = staged
      BY <2>2
    <3>2. final = count
      BY <1>4, <3>1
    <3> HIDE DEF final, box
    <3> QED
      BY <1>4, <3>1, <3>2, NothingExtends DEF Adds
  <2> QED
    BY <2>1, <2>2
<1>6. Len(box) \in Nat
  BY <1>5, SequenceShape DEF Extends
<1> HIDE DEF box
<1>7. final = minted[d] + Len(box) - Len(outbox[d])
  BY <1>2, <1>4, <1>6, SMTT(30)
<1>8. Extends(d, minted[d], outbox[d], final, box)
  <2> HIDE DEF final
  <2> QED
    BY <1>2, <1>3, <1>5, ExtendsTwice
<1>9. OthersKept(d, outbox', outbox) /\ outbox'[d] = box
  BY <1>1, <1>2 DEF Domains, OthersKept, ByDevice
<1>10. OthersKept(d, minted', minted) /\ minted'[d] = final
  BY <1>1, <1>2, <1>7 DEF Domains, OthersKept, ByDevice
<1>11. OthersKept(d, local', local) /\ local'[d] = local[d]
  BY <1>1, <1>2, KeptAtDevice DEF Domains
<1>12. /\ OthersKept(d, request', request)
       /\ request'[d] = [id |-> d, serverId |-> s.serverId, cursor |-> s.cursor,
                         mutations |-> IF s.baseline THEN Batch(box) ELSE << >>]
  <2> HIDE DEF s
  <2> QED
    BY <1>1, <1>2 DEF Domains, OthersKept, ByDevice
<1>13. /\ OthersKept(d, state', state)
       /\ state'[d] = [s EXCEPT !.seeded = TRUE, !.bootstrapped = @ \/ s.baseline]
  BY <1>1, <1>2 DEF Domains, ByDevice, OthersKept
<1>14. /\ StateTyped(state'[d]) /\ state'[d].serverId = s.serverId
       /\ state'[d].cursor = s.cursor /\ state'[d].baseline = s.baseline
       /\ state'[d].seeded
  <2>1. (s.bootstrapped \/ s.baseline) \in BOOLEAN
    OBVIOUS
  <2> HIDE DEF s
  <2> QED
    BY <1>2, <1>13, <2>1 DEF StateTyped
<1>15. Edits(d)
  <2> HIDE DEF final
  <2>1. Adds(outbox[d], box, local[d])
    <3>1. \A p \in DOMAIN staged : box[p] = staged[p]
      BY <1>4, <1>5, SequenceShape DEF Extends
    <3> QED
      BY <1>3, <1>5, <3>1, AddsTwice
  <2>2. \A added : Covers(local[d], local[d], added)
    BY DEF Covers, Alike
  <2> QED
    BY <1>1, <1>2, <1>8, <1>9, <1>10, <1>11, <2>1, <2>2 DEF Edits
<1>16. s.seeded \/ DOMAIN local[d] \subseteq Queued(outbox'[d])
  <2>1. Queued(staged) \subseteq Queued(box)
    <3>1. PICK b, s1, n : b = box /\ s1 = staged /\ n = final
      OBVIOUS
    <3>2. Extends(d, count, s1, n, b) /\ Sequence(s1) /\ count \in Nat
      BY <1>4, <1>5, <3>1
    <3> HIDE DEF final
    <3>3. Queued(b) = Queued(s1) \cup Added(s1, b)
      BY <3>2, ExtendedQueue
    <3> QED
      BY <3>1, <3>3
  <2> QED
    BY <1>3, <1>9, <2>1
<1> QED
  BY <1>1, <1>9, <1>12, <1>13, <1>14, <1>15, <1>16

Applying == INSTANCE FoldLeftTheorems WITH Op <- ApplyGroup

(* What a commit leaves behind, and the page it answers with.              *)
LEMMA CommittedPage ==
    ASSUME HistorySound, serverId \in Nat, NEW req, IsRequest(req), NEW n, Commit(req, n),
           NEW page, page = Page(log', receipts', req, n)
    PROVE  /\ HistorySound' /\ serverId' = serverId
           /\ PageIsHistory(req, page)' /\ PageTyped(page)' /\ IsPage(page)
<1>1. HistorySound' /\ serverId' = serverId
  BY CommitKeepsHistory DEF Commit
<1>2. /\ Grows
      /\ \A p \in DOMAIN req.mutations : req.mutations[p].id \in DOMAIN receipts'
  BY CommitGrows DEF HistorySound
<1>3. Len(log') \in Nat /\ DOMAIN log' = 1..Len(log')
  <2>1. log' \in Seq(Groups(log'))
    BY <1>2 DEF Grows
  <2> QED
    BY <2>1, LenProperties
<1>4. req.cursor \in Nat /\ req.cursor <= Len(log')
  <2>1. ~(req.cursor > Len(log)) /\ req.cursor \in Nat
    BY DEF Commit, Verdict, IsRequest
  <2>2. Len(log) <= Len(log') /\ Len(log) \in Nat
    BY <1>2, LogShape DEF Grows, Continues, HistorySound
  <2> QED
    BY <1>3, <2>1, <2>2
<1>5. PageIsHistory(req, page)'
  <2>1. n \in PageSizes(log', req)
    BY DEF Commit
  <2> QED
    BY <1>1, <1>2, <1>4, <2>1, ComputedPage DEF HistorySound
<1>6. /\ page.serverId = serverId /\ IsPage(page)
      /\ DOMAIN page.acks = {req.mutations[p].id : p \in DOMAIN req.mutations}
  BY DEF Page, IsPage, Nothing
<1>7. /\ page.cursor = req.cursor /\ page.nextCursor \in page.cursor..Len(log')
      /\ page.groups = SubSeq(log', page.cursor + 1, page.nextCursor)
      /\ \A m \in DOMAIN page.acks : page.acks[m] \in DOMAIN log'
  BY <1>5, <1>6 DEF PageIsHistory
<1>8. page.nextCursor \in Nat /\ page.cursor <= page.nextCursor
      /\ page.nextCursor <= Len(log')
  BY <1>3, <1>4, <1>7
<1>9. /\ Sequence(page.groups)
      /\ \A g \in DOMAIN page.groups : IsCollection(page.groups[g].changes)
  <2>0. PICK a, b : a = page.cursor /\ b = page.nextCursor
    OBVIOUS
  <2>1. a \in Nat /\ b \in Nat /\ a <= b /\ page.groups = SubSeq(log', a + 1, b)
    BY <1>4, <1>7, <1>8, <2>0
  <2>2. /\ Sequence(page.groups) /\ DOMAIN page.groups = 1..(b - a)
        /\ \A g \in 1..(b - a) : page.groups[g] = log'[a + g]
    BY <2>1, Window
  <2>3. \A r \in DOMAIN log' : IsCollection(log'[r].changes)
    BY <1>1 DEF HistorySound, HistoryReplays, GroupsAreRows, IsCollection
  <2>4. \A g \in 1..(b - a) : a + g \in DOMAIN log'
    BY <1>3, <1>8, <2>0, <2>1
  <2> QED
    BY <2>2, <2>3, <2>4
<1>10. PageTyped(page)'
  <2>1. \A m \in DOMAIN page.acks : page.acks[m] \in Nat
    BY <1>3, <1>7
  <2>2. page.serverId \in 0..serverId'
    BY <1>1, <1>6
  <2> QED
    BY <1>8, <1>9, <2>1, <2>2 DEF PageTyped, IsCollection
<1> QED
  BY <1>1, <1>5, <1>6, <1>10

-----------------------------------------------------------------------------
(* The fold over a page is the fold FoldLeftTheorems is about.             *)
LEMMA ApplyingUnfolds ==
    ASSUME NEW base, NEW groups
    PROVE  FoldLeft(ApplyGroup, base, groups) = Applying!Fold(base, groups)
BY DEF FoldLeft, MapThenFoldSet, Max, Applying!Fold, Applying!FoldLeft,
       Applying!MapThenFoldSet, Applying!Max

(* The fold over the groups of a page, one more group at a time.           *)
Pages(box, page) ==
    [g \in DOMAIN page.groups |->
       [group |-> page.groups[g], revision |-> page.cursor + g, box |-> box]]

AppliedUpTo(base, box, page, n) ==
    Applying!Fold(base, [g \in 1..n |-> Pages(box, page)[g]])

(* A device to which no group has been applied.                            *)
LEMMA AppliedNone ==
    ASSUME NEW base, NEW box, NEW page
    PROVE  AppliedUpTo(base, box, page, 0) = base
<1> DEFINE none == [g \in 1..0 |-> Pages(box, page)[g]]
<1>1. DOMAIN none = {}
  OBVIOUS
<1> HIDE DEF none
<1>2. Applying!Fold(base, none) = base
  BY <1>1, Applying!FoldOfNone
<1> QED
  BY <1>2 DEF AppliedUpTo, none

(* One group more.                                                         *)
LEMMA AppliedNext ==
    ASSUME NEW base, NEW box, NEW page, NEW n \in Nat
    PROVE  AppliedUpTo(base, box, page, n + 1)
             = ApplyGroup(AppliedUpTo(base, box, page, n), Pages(box, page)[n + 1])
<1> DEFINE before == [g \in 1..n |-> Pages(box, page)[g]]
           seq == [g \in 1..n + 1 |-> Pages(box, page)[g]]
<1>1. /\ DOMAIN before = 1..n /\ DOMAIN seq = 1..n + 1
      /\ \A i \in 1..n : before[i] = seq[i]
      /\ seq[n + 1] = Pages(box, page)[n + 1]
  OBVIOUS
<1> HIDE DEF before, seq
<1>2. Applying!Fold(base, seq) = ApplyGroup(Applying!Fold(base, before), seq[n + 1])
  BY <1>1, Applying!FoldOfNext
<1> QED
  BY <1>1, <1>2 DEF AppliedUpTo, before, seq

(* All groups of a page.                                                   *)
LEMMA AppliedAll ==
    ASSUME NEW base, NEW box, NEW page, Sequence(page.groups)
    PROVE  FoldLeft(ApplyGroup, base, Pages(box, page))
             = AppliedUpTo(base, box, page, Len(page.groups))
<1> DEFINE seq == Pages(box, page)
           other == [g \in 1..Len(page.groups) |-> Pages(box, page)[g]]
<1>1. Len(page.groups) \in Nat /\ DOMAIN page.groups = 1..Len(page.groups)
  BY SequenceShape
<1>2. /\ DOMAIN seq = 1..Len(page.groups) /\ DOMAIN other = 1..Len(page.groups)
      /\ \A i \in 1..Len(page.groups) : seq[i] = other[i]
  BY <1>1 DEF Pages
<1> HIDE DEF seq, other
<1>3. Applying!Fold(base, seq) = Applying!Fold(base, other)
  BY <1>1, <1>2, Applying!FoldOfSame
<1> QED
  BY <1>3, ApplyingUnfolds DEF AppliedUpTo, seq, other

(* An applied page leaves a collection.                                    *)
LEMMA AppliedUpToIsCollection ==
    ASSUME NEW base, IsCollection(base.rows), base.issues \subseteq Issues,
           NEW box, NEW page, NEW m \in Nat, DOMAIN page.groups = 1..m,
           \A g \in DOMAIN page.groups : IsCollection(page.groups[g].changes)
    PROVE  LET done == AppliedUpTo(base, box, page, m)
           IN IsCollection(done.rows) /\ done.issues \subseteq Issues
<1> DEFINE Good(acc) == IsCollection(acc.rows) /\ acc.issues \subseteq Issues
           S == {n \in Nat : n <= m => Good(AppliedUpTo(base, box, page, n))}
<1>1. 0 \in S
  BY AppliedNone
<1>2. ASSUME NEW n \in Nat, n \in S PROVE n + 1 \in S
  <2> SUFFICES ASSUME n + 1 <= m PROVE Good(AppliedUpTo(base, box, page, n + 1))
    OBVIOUS
  <2> DEFINE acc == AppliedUpTo(base, box, page, n)
             g == Pages(box, page)[n + 1]
             changes == g.group.changes
             keys == AppliedKeys(g.box, acc.versions, g.group, g.revision)
  <2>1. Good(acc)
    BY <1>2
  <2>2. n + 1 \in DOMAIN page.groups
    OBVIOUS
  <2>3. IsCollection(changes)
    BY <2>2 DEF Pages
  <2>4. keys \subseteq DOMAIN changes
    BY DEF AppliedKeys
  <2> HIDE DEF acc, g
  <2>5. /\ ApplyGroup(acc, g).rows = ApplyRows(acc.rows, changes, keys)
        /\ ApplyGroup(acc, g).issues
             = acc.issues \cup {changes[k].issue : k \in keys \cap Copies}
    BY DEF ApplyGroup
  <2> HIDE DEF changes, keys
  <2>6. IsCollection(ApplyRows(acc.rows, changes, keys))
    BY <2>1, <2>3, AppliedIsCollection
  <2>7. {changes[k].issue : k \in keys \cap Copies} \subseteq Issues
    BY <2>3, <2>4 DEF IsCollection, CopyData
  <2>8. Good(ApplyGroup(acc, g))
    BY <2>1, <2>5, <2>6, <2>7
  <2> HIDE DEF Good
  <2> QED
    BY <2>8, AppliedNext DEF acc, g
<1>3. m \in S
  <2> HIDE DEF S
  <2> QED
    BY <1>1, <1>2, Replaying!NatSetInduction
<1> QED
  BY <1>3

(* An applied page leaves a collection.                                    *)
LEMMA AppliedPageIsCollection ==
    ASSUME NEW d, IsCollection(local[d]), NEW box, NEW page, Sequence(page.groups),
           \A g \in DOMAIN page.groups : IsCollection(page.groups[g].changes)
    PROVE  IsCollection(ApplyGroups(d, box, page).rows)
<1> DEFINE base == [rows |-> local[d], versions |-> versions[d], issues |-> {}]
           done == FoldLeft(ApplyGroup, base, Pages(box, page))
<1>1. Len(page.groups) \in Nat /\ DOMAIN page.groups = 1..Len(page.groups)
  BY SequenceShape
<1>2. IsCollection(base.rows) /\ base.issues \subseteq Issues
  OBVIOUS
<1>3. ApplyGroups(d, box, page).rows = RecomputeFlags(done.rows, done.issues)
  BY DEF ApplyGroups, Pages
<1> HIDE DEF base
<1>4. done = AppliedUpTo(base, box, page, Len(page.groups))
  BY AppliedAll
<1> HIDE DEF done
<1>5. IsCollection(done.rows) /\ done.issues \subseteq Issues
  BY <1>1, <1>2, <1>4, AppliedUpToIsCollection
<1> QED
  BY <1>3, <1>5, FlagsKeepCollection

-----------------------------------------------------------------------------
(* Every step keeps the types.                                             *)
LEMMA WireKept ==
    ASSUME Typed, UNCHANGED <<deviceVars, wireVars>>, HistorySound', serverId' \in Nat,
           serverId <= serverId', rebinding' \subseteq Devices
    PROVE  Typed'
<1>1. Domains'
  BY DEF Typed, Domains, ByDevice, deviceVars, wireVars
<1>2. 0..serverId \subseteq 0..serverId'
  BY DEF Typed
<1>3. ASSUME NEW d \in Devices PROVE DeviceTyped(d)' /\ WireTyped(d)'
  <2>1. DeviceTyped(d) /\ WireTyped(d)
    BY DEF Typed
  <2>2. DeviceTyped(d)'
    BY <1>2, <2>1 DEF DeviceTyped, StateTyped, IsCollection, deviceVars
  <2>3. WireTyped(d)'
    BY <1>2, <2>1 DEF WireTyped, IsPage, PageTyped, IsCollection, IsRequest, wireVars
  <2> QED
    BY <2>2, <2>3
<1> QED
  BY <1>1, <1>3 DEF Typed

(* Adding mutations, and perhaps preparing an exchange, keeps the types.   *)
LEMMA EditsKeepTyped ==
    ASSUME Typed, NEW d \in Devices, Edits(d),
           OthersKept(d, state', state), StateTyped(state[d])',
           OthersKept(d, request', request),
           request'[d] # Nothing => IsRequest(request[d])'
    PROVE  Typed'
<1>1. /\ Domains /\ DeviceTyped(d) /\ WireTyped(d) /\ serverId \in Nat
      /\ rebinding \subseteq Devices /\ HistorySound
  BY DEF Typed
<1>2. OnlyDevice(d)
  BY <1>1, KeptAtDevice DEF Edits, OnlyDevice, Domains
<1>3. HistorySound' /\ serverId' = serverId /\ rebinding' = rebinding
  BY <1>1, HistoryUnchanged DEF Edits, serverVars
<1>4. minted'[d] \in Nat /\ IsOutbox(d, minted'[d], outbox'[d])
  BY <1>1, ExtendedOutbox DEF Edits, Extends, DeviceTyped
<1>5. DeviceTyped(d)'
  BY <1>4 DEF DeviceTyped, Edits, IsCollection
<1>6. WireTyped(d)'
  BY <1>1, <1>3 DEF Edits, WireTyped, IsPage, PageTyped, IsCollection, IsRequest
<1> QED
  BY <1>1, <1>2, <1>3, <1>5, <1>6, DeviceStep

(* A user's write keeps the types.                                         *)
LEMMA UserWriteKeepsTyped ==
    ASSUME Typed, NEW d \in Devices, UserWrite(d)
    PROVE  Typed'
<1>1. Edits(d) /\ UNCHANGED <<state, request>>
  BY UserWriteEdits
<1>2. /\ Domains /\ StateTyped(state[d]) /\ serverId' = serverId
      /\ request[d] # Nothing => IsRequest(request[d])
  BY <1>1 DEF Typed, DeviceTyped, WireTyped, Edits, serverVars
<1>3. OthersKept(d, state', state) /\ OthersKept(d, request', request)
  BY <1>1, <1>2, KeptAtDevice DEF Domains
<1>4. StateTyped(state[d])' /\ (request'[d] # Nothing => IsRequest(request[d])')
  BY <1>1, <1>2 DEF StateTyped, IsRequest
<1> QED
  BY <1>1, <1>3, <1>4, EditsKeepTyped

(* Preparing an exchange keeps the types.                                  *)
LEMMA PrepareKeepsTyped ==
    ASSUME FreshIds, Typed, NEW d \in Devices, Prepare(d)
    PROVE  Typed'
<1> DEFINE s == state[d]
<1>1. /\ Edits(d)
      /\ OthersKept(d, state', state) /\ StateTyped(state'[d])
      /\ OthersKept(d, request', request)
      /\ request'[d] = [id |-> d, serverId |-> s.serverId, cursor |-> s.cursor,
                        mutations |-> IF s.baseline THEN Batch(outbox'[d]) ELSE << >>]
  BY PrepareEdits
<1>2. serverId' = serverId /\ s.cursor \in Nat /\ DeviceTyped(d)
  BY <1>1 DEF Edits, serverVars, Typed, DeviceTyped, StateTyped
<1> HIDE DEF s
<1>3. minted'[d] \in Nat /\ IsOutbox(d, minted'[d], outbox'[d])
  BY <1>1, <1>2, ExtendedOutbox DEF Edits, Extends, DeviceTyped
<1>4. PICK m, box : m = minted'[d] /\ box = outbox'[d]
  OBVIOUS
<1>5. PICK req : req = request'[d]
  OBVIOUS
<1>6. IsRequest(req)
  <2>1. CASE s.baseline
    <3>1. req = [id |-> d, serverId |-> s.serverId, cursor |-> s.cursor,
                 mutations |-> Batch(box)]
      BY <1>1, <1>4, <1>5, <2>1
    <3>2. m \in Nat /\ IsOutbox(d, m, box)
      BY <1>3, <1>4
    <3> QED
      BY <1>2, <3>1, <3>2, BatchIsRequest
  <2>2. CASE ~s.baseline
    <3>1. req = [id |-> d, serverId |-> s.serverId, cursor |-> s.cursor,
                 mutations |-> << >>]
      BY <1>1, <1>5, <2>2
    <3> QED
      BY <1>2, <3>1, PullIsRequest
  <2> QED
    BY <2>1, <2>2
<1>7. IsRequest(request[d])'
  BY <1>5, <1>6 DEF IsRequest
<1>8. StateTyped(state[d])'
  BY <1>1, <1>2 DEF StateTyped
<1> QED
  BY <1>1, <1>7, <1>8, EditsKeepTyped

(* Serving a request, or refusing it, keeps the types.                     *)
LEMMA ServeKeepsTyped ==
    ASSUME Typed, NEW d \in Devices, Serve(d)
    PROVE  Typed'
<1>1. /\ IsRequest(request[d]) /\ HistorySound /\ serverId \in Nat /\ Domains
      /\ DeviceTyped(d) /\ WireTyped(d) /\ rebinding \subseteq Devices
  BY DEF Typed, WireTyped, Serve
<1>2. /\ OthersKept(d, response', response)
      /\ UNCHANGED <<deviceVars, request, stray, rebinding>>
  BY <1>1 DEF Serve, Domains, OthersKept, ByDevice
<1>3. OnlyDevice(d)
  BY <1>1, <1>2, KeptAtDevice DEF OnlyDevice, Domains, deviceVars
<1>4. /\ HistorySound' /\ serverId' = serverId
      /\ IsPage(response[d])' => PageTyped(response[d])'
  <2>1. CASE \E n \in 0..PageLimit :
               /\ Commit(request[d], n)
               /\ response' = [response EXCEPT ![d] =
                                 Page(log', receipts', request[d], n)]
    <3>1. PICK n \in 0..PageLimit :
               /\ Commit(request[d], n)
               /\ response' = [response EXCEPT ![d] =
                                 Page(log', receipts', request[d], n)]
      BY <2>1
    <3>2. PICK page : page = Page(log', receipts', request[d], n)
      OBVIOUS
    <3>3. HistorySound' /\ serverId' = serverId /\ PageTyped(page)'
      BY <1>1, <3>1, <3>2, CommittedPage
    <3>4. response'[d] = page
      BY <1>1, <3>1, <3>2 DEF Domains, ByDevice
    <3> QED
      BY <3>3, <3>4 DEF PageTyped, IsCollection
  <2>2. CASE /\ response' = [response EXCEPT ![d] = [refused |-> Verdict(request[d])]]
             /\ UNCHANGED serverVars
    <3>1. response'[d] = [refused |-> Verdict(request[d])]
      BY <1>1, <2>2 DEF Domains, ByDevice
    <3>2. ~IsPage(response[d])'
      BY <3>1 DEF IsPage
    <3> QED
      BY <1>1, <2>2, <3>2, HistoryUnchanged DEF serverVars
  <2> QED
    BY <2>1, <2>2 DEF Serve
<1>5. DeviceTyped(d)'
  BY <1>1, <1>2, <1>4 DEF DeviceTyped, StateTyped, IsCollection, deviceVars
<1>6. WireTyped(d)'
  BY <1>1, <1>2, <1>4 DEF WireTyped, IsRequest
<1> QED
  BY <1>1, <1>2, <1>3, <1>4, <1>5, <1>6, DeviceStep

(* So does a late request.                                                 *)
LEMMA ServeStrayKeepsTyped ==
    ASSUME Typed, NEW d \in Devices, ServeStray(d)
    PROVE  Typed'
<1>1. /\ HistorySound /\ serverId \in Nat /\ Domains
      /\ DeviceTyped(d) /\ WireTyped(d) /\ rebinding \subseteq Devices
  BY DEF Typed
<1>2. PICK req \in stray[d] :
        /\ \/ \E n \in 0..PageLimit : Commit(req, n)
           \/ Verdict(req) \notin {"ok", "replayed"} /\ UNCHANGED serverVars
        /\ stray' = [stray EXCEPT ![d] = @ \ {req}]
        /\ UNCHANGED <<deviceVars, request, response, rebinding>>
  BY DEF ServeStray
<1>3. OthersKept(d, stray', stray) /\ stray'[d] \subseteq stray[d]
  BY <1>1, <1>2 DEF Domains, OthersKept, ByDevice
<1>4. OnlyDevice(d)
  BY <1>1, <1>2, <1>3, KeptAtDevice DEF OnlyDevice, Domains, deviceVars
<1>5. HistorySound' /\ serverId' = serverId
  <2>1. CASE \E n \in 0..PageLimit : Commit(req, n)
    <3>1. IsRequest(req)
      BY <1>1 DEF WireTyped
    <3> QED
      BY <1>1, <2>1, <3>1, CommitKeepsHistory DEF Commit
  <2>2. CASE UNCHANGED serverVars
    BY <1>1, <2>2, HistoryUnchanged DEF serverVars
  <2> QED
    BY <1>2, <2>1, <2>2
<1>6. DeviceTyped(d)'
  BY <1>1, <1>2, <1>5 DEF DeviceTyped, StateTyped, IsCollection, deviceVars
<1>7. WireTyped(d)'
  BY <1>1, <1>2, <1>3, <1>5 DEF WireTyped, IsPage, PageTyped, IsCollection, IsRequest
<1> QED
  BY <1>1, <1>2, <1>4, <1>5, <1>6, <1>7, DeviceStep

(* Giving an exchange up keeps the types.                                  *)
LEMMA GiveUpKeepsTyped ==
    ASSUME Typed, NEW d \in Devices, GiveUp(d)
    PROVE  Typed'
<1>1. /\ HistorySound /\ serverId \in Nat /\ Domains
      /\ DeviceTyped(d) /\ WireTyped(d) /\ rebinding \subseteq Devices
  BY DEF Typed
<1>2. /\ request[d] # Nothing
      /\ UNCHANGED <<serverVars, deviceVars>> /\ rebinding' \subseteq rebinding
      /\ OthersKept(d, request', request) /\ request'[d] = Nothing
      /\ OthersKept(d, response', response) /\ response'[d] = Nothing
      /\ OthersKept(d, stray', stray) /\ stray'[d] \subseteq stray[d] \cup {request[d]}
  BY <1>1 DEF GiveUp, Idle, Domains, OthersKept, ByDevice
<1>3. OnlyDevice(d)
  BY <1>1, <1>2, KeptAtDevice DEF OnlyDevice, Domains, deviceVars
<1>4. HistorySound' /\ serverId' = serverId
  BY <1>1, <1>2, HistoryUnchanged DEF serverVars
<1>5. DeviceTyped(d)'
  BY <1>1, <1>2, <1>4 DEF DeviceTyped, StateTyped, IsCollection, deviceVars
<1>6. WireTyped(d)'
  BY <1>1, <1>2 DEF WireTyped, IsPage, IsRequest
<1> QED
  BY <1>1, <1>2, <1>3, <1>4, <1>5, <1>6, DeviceStep

(* The page a device accepts, and what its application does.               *)
LEMMA ApplyIsTransaction ==
    ASSUME Typed, NEW d \in Devices, Apply(d)
    PROVE  LET page == response[d]
               box == Acknowledged(outbox[d], page)
           IN /\ IsPage(page) /\ PageTyped(page) /\ Accepted(d, page)
              /\ OthersKept(d, local', local)
              /\ local'[d] = ApplyGroups(d, box, page).rows
              /\ OthersKept(d, versions', versions)
              /\ versions'[d] = ApplyGroups(d, box, page).versions
              /\ OthersKept(d, outbox', outbox)
              /\ outbox'[d] =
                   RowsAt(box, {n \in DOMAIN box : ~Passed(box[n], page.nextCursor)})
              /\ OthersKept(d, state', state)
              /\ state'[d] =
                   [state[d] EXCEPT !.serverId = page.serverId, !.cursor = page.nextCursor,
                                    !.baseline = @ \/ ~page.hasMore,
                                    !.bootstrapped = @ \/ (~page.hasMore
                                                           /\ page.nextCursor > 0)]
              /\ OthersKept(d, request', request) /\ request'[d] = Nothing
              /\ OthersKept(d, response', response) /\ response'[d] = Nothing
              /\ UNCHANGED <<serverVars, minted, stray, rebinding>>
<1> DEFINE page == response[d]
           box == Acknowledged(outbox[d], page)
           rows == ApplyGroups(d, box, page).rows
           vs == ApplyGroups(d, box, page).versions
           kept == RowsAt(box, {n \in DOMAIN box : ~Passed(box[n], page.nextCursor)})
           next == [state[d] EXCEPT !.serverId = page.serverId, !.cursor = page.nextCursor,
                                    !.baseline = @ \/ ~page.hasMore,
                                    !.bootstrapped = @ \/ (~page.hasMore
                                                           /\ page.nextCursor > 0)]
<1>1. Domains /\ WireTyped(d)
  BY DEF Typed
<1>2. /\ page # Nothing /\ Accepted(d, page)
      /\ local' = [local EXCEPT ![d] = rows]
      /\ versions' = [versions EXCEPT ![d] = vs]
      /\ outbox' = [outbox EXCEPT ![d] = kept]
      /\ request' = [request EXCEPT ![d] = Nothing]
      /\ response' = [response EXCEPT ![d] = Nothing]
      /\ UNCHANGED <<serverVars, minted, stray, rebinding>>
  BY DEF Apply
<1>3. OthersKept(d, state', state) /\ state'[d] = next
  <2> HIDE DEF page
  <2>1. state' = [state EXCEPT ![d].serverId = page.serverId,
             ![d].cursor = page.nextCursor, ![d].baseline = @ \/ ~page.hasMore,
             ![d].bootstrapped = @ \/ (~page.hasMore /\ page.nextCursor > 0)]
    BY DEF Apply, page
  <2> QED
    BY <1>1, <2>1 DEF Domains, OthersKept, ByDevice
<1>4. IsPage(page) /\ PageTyped(page)
  BY <1>1, <1>2 DEF IsPage, Accepted, WireTyped
<1> HIDE DEF rows, vs, kept, next
<1>5. /\ OthersKept(d, local', local) /\ local'[d] = rows
      /\ OthersKept(d, versions', versions) /\ versions'[d] = vs
      /\ OthersKept(d, outbox', outbox) /\ outbox'[d] = kept
  BY <1>1, <1>2 DEF Domains, OthersKept, ByDevice
<1>6. /\ OthersKept(d, request', request) /\ request'[d] = Nothing
      /\ OthersKept(d, response', response) /\ response'[d] = Nothing
  BY <1>1, <1>2 DEF Domains, OthersKept, ByDevice
<1> QED
  BY <1>2, <1>3, <1>4, <1>5, <1>6 DEF rows, vs, kept, next

(* Applying a page keeps the types.                                        *)
LEMMA ApplyKeepsTyped ==
    ASSUME Typed, NEW d \in Devices, Apply(d)
    PROVE  Typed'
<1> DEFINE page == response[d]
           box == Acknowledged(outbox[d], page)
           passed == {n \in DOMAIN box : ~Passed(box[n], page.nextCursor)}
<1>1. /\ HistorySound /\ serverId \in Nat /\ Domains
      /\ DeviceTyped(d) /\ WireTyped(d) /\ rebinding \subseteq Devices
  BY DEF Typed
<1>2. /\ IsPage(page) /\ PageTyped(page)
      /\ OthersKept(d, local', local)
      /\ local'[d] = ApplyGroups(d, box, page).rows
      /\ OthersKept(d, versions', versions)
      /\ OthersKept(d, outbox', outbox) /\ outbox'[d] = RowsAt(box, passed)
      /\ OthersKept(d, state', state)
      /\ state'[d] = [state[d] EXCEPT !.serverId = page.serverId,
                                      !.cursor = page.nextCursor,
                                      !.baseline = @ \/ ~page.hasMore,
                                      !.bootstrapped = @ \/ (~page.hasMore
                                                           /\ page.nextCursor > 0)]
      /\ OthersKept(d, request', request) /\ request'[d] = Nothing
      /\ OthersKept(d, response', response) /\ response'[d] = Nothing
      /\ UNCHANGED <<serverVars, minted, stray, rebinding>>
  BY ApplyIsTransaction
<1> HIDE DEF page
<1>3. OnlyDevice(d)
  BY <1>1, <1>2, KeptAtDevice DEF OnlyDevice, Domains
<1>4. HistorySound' /\ serverId' = serverId
  BY <1>1, <1>2, HistoryUnchanged DEF serverVars
<1>5. IsCollection(local'[d])
  BY <1>1, <1>2, AppliedPageIsCollection DEF DeviceTyped, PageTyped
<1>6. IsOutbox(d, minted[d], outbox'[d])
  <2>1. IsOutbox(d, minted[d], box)
    BY <1>1, <1>2, AcknowledgedOutbox DEF DeviceTyped, PageTyped
  <2> HIDE DEF box
  <2>2. passed \in SUBSET DOMAIN box
    OBVIOUS
  <2> HIDE DEF passed
  <2> QED
    BY <1>2, <2>1, <2>2, PartOfOutbox
<1>7. StateTyped(state'[d])
  <2>1. /\ (state[d].baseline \/ ~page.hasMore) \in BOOLEAN
        /\ (state[d].bootstrapped \/ (~page.hasMore /\ page.nextCursor > 0)) \in BOOLEAN
    OBVIOUS
  <2>2. page.serverId \in 0..serverId /\ page.nextCursor \in Nat /\ StateTyped(state[d])
    BY <1>1, <1>2 DEF PageTyped, DeviceTyped
  <2> QED
    BY <1>2, <2>1, <2>2 DEF StateTyped
<1>8. DeviceTyped(d)'
  BY <1>1, <1>2, <1>4, <1>5, <1>6, <1>7 DEF DeviceTyped, StateTyped, IsCollection
<1>9. WireTyped(d)'
  BY <1>1, <1>2 DEF WireTyped, IsPage, IsRequest
<1> QED
  BY <1>1, <1>2, <1>3, <1>4, <1>8, <1>9, DeviceStep

(* Rejecting an answer keeps the types.                                    *)
LEMMA RejectKeepsTyped ==
    ASSUME Typed, NEW d \in Devices, Reject(d)
    PROVE  Typed'
<1>1. /\ HistorySound /\ serverId \in Nat /\ Domains
      /\ DeviceTyped(d) /\ WireTyped(d) /\ rebinding \subseteq Devices
  BY DEF Typed
<1>2. /\ UNCHANGED <<serverVars, deviceVars, stray, rebinding>>
      /\ OthersKept(d, request', request) /\ request'[d] = Nothing
      /\ OthersKept(d, response', response) /\ response'[d] = Nothing
  BY <1>1 DEF Reject, Domains, OthersKept, ByDevice
<1>3. OnlyDevice(d)
  BY <1>1, <1>2, KeptAtDevice DEF OnlyDevice, Domains, deviceVars
<1>4. HistorySound' /\ serverId' = serverId
  BY <1>1, <1>2, HistoryUnchanged DEF serverVars
<1>5. DeviceTyped(d)'
  BY <1>1, <1>2, <1>4 DEF DeviceTyped, StateTyped, IsCollection, deviceVars
<1>6. WireTyped(d)'
  BY <1>1, <1>2 DEF WireTyped, IsPage, IsRequest
<1> QED
  BY <1>1, <1>2, <1>3, <1>4, <1>5, <1>6, DeviceStep

(* A rebind keeps the types.                                               *)
LEMMA RebindKeepsTyped ==
    ASSUME Typed, NEW d \in Devices, Rebind(d)
    PROVE  Typed'
<1> DEFINE box == [n \in DOMAIN outbox[d] |-> [outbox[d][n] EXCEPT !.ack = 0]]
<1>1. /\ HistorySound /\ serverId \in Nat /\ Domains
      /\ DeviceTyped(d) /\ WireTyped(d) /\ rebinding \subseteq Devices
  BY DEF Typed
<1>2. /\ UNCHANGED <<serverVars, local, minted, wireVars>> /\ rebinding' \subseteq rebinding
      /\ outbox' = [outbox EXCEPT ![d] = box]
      /\ versions' = [versions EXCEPT ![d] = << >>]
      /\ state' = [state EXCEPT ![d] = FreshState]
  BY DEF Rebind
<1> HIDE DEF box
<1>3. /\ OthersKept(d, outbox', outbox) /\ outbox'[d] = box
      /\ OthersKept(d, versions', versions)
      /\ OthersKept(d, state', state) /\ state'[d] = FreshState
  BY <1>1, <1>2 DEF Domains, OthersKept, ByDevice
<1>4. OnlyDevice(d)
  BY <1>1, <1>2, <1>3, KeptAtDevice DEF OnlyDevice, Domains, wireVars
<1>5. HistorySound' /\ serverId' = serverId
  BY <1>1, <1>2, HistoryUnchanged DEF serverVars
<1>6. IsOutbox(d, minted[d], box)
  BY <1>1, ForgottenOutbox DEF DeviceTyped, box
<1>7. StateTyped(FreshState)
  BY <1>1 DEF FreshState, StateTyped
<1>8. DeviceTyped(d)'
  BY <1>1, <1>2, <1>3, <1>5, <1>6, <1>7 DEF DeviceTyped, StateTyped, IsCollection
<1>9. WireTyped(d)'
  BY <1>1, <1>2, <1>5 DEF WireTyped, IsPage, PageTyped, IsCollection, IsRequest, wireVars
<1> QED
  BY <1>1, <1>2, <1>4, <1>5, <1>8, <1>9, DeviceStep

(* The loss of the server's database keeps the types.                      *)
LEMMA LoseKeepsTyped ==
    ASSUME Typed, LoseDatabase
    PROVE  Typed'
<1>1. /\ serverId' = serverId + 1 /\ serverId \in Nat /\ rebinding \subseteq Devices
      /\ UNCHANGED <<deviceVars, wireVars, rebinding>>
      /\ entities' = << >> /\ log' = << >> /\ receipts' = << >>
  BY DEF LoseDatabase, ReplaceDatabase, Typed
<1>2. HistorySound'
  <2>1. (entities = << >> /\ log = << >> /\ receipts = << >>)'
    BY <1>1
  <2> QED
    BY <2>1, EmptyHistory, PTL
<1> QED
  BY <1>1, <1>2, WireKept

(* The types hold at first.                                                *)
LEMMA InitIsTyped ==
    ASSUME Init
    PROVE  Typed
<1>1. HistorySound /\ serverId = 1 /\ rebinding = {}
  BY EmptyHistory DEF Init, EmptyDatabase
<1>2. Domains
  BY DEF Init, Domains, ByDevice
<1>3. ASSUME NEW d \in Devices PROVE DeviceTyped(d) /\ WireTyped(d)
  <2>1. /\ local[d] = << >> /\ outbox[d] = << >> /\ state[d] = FreshState
        /\ minted[d] = 0 /\ request[d] = Nothing /\ response[d] = Nothing
        /\ stray[d] = {}
    BY DEF Init
  <2>2. IsCollection(<< >>)
    BY NothingIsCollection
  <2>3. IsOutbox(d, 0, << >>)
    BY NoneIsSequence DEF IsOutbox
  <2>4. StateTyped(FreshState)
    BY <1>1 DEF FreshState, StateTyped
  <2> QED
    BY <2>1, <2>2, <2>3, <2>4 DEF DeviceTyped, WireTyped, IsPage
<1> QED
  BY <1>1, <1>2, <1>3 DEF Typed

(* Every step keeps the types.                                             *)
LEMMA NextKeepsTyped ==
    ASSUME FreshIds, Typed, [Next]_vars
    PROVE  Typed'
<1>1. CASE UNCHANGED vars
  <2>1. /\ UNCHANGED <<deviceVars, wireVars, rebinding, serverVars>>
        /\ HistorySound /\ serverId \in Nat /\ rebinding \subseteq Devices
    BY <1>1 DEF vars, Typed
  <2>2. HistorySound' /\ serverId' = serverId
    BY <2>1, HistoryUnchanged DEF serverVars
  <2> QED
    BY <2>1, <2>2, WireKept
<1>2. ASSUME NEW d \in Devices, ConfirmRebind(d) PROVE Typed'
  <2>1. /\ UNCHANGED <<deviceVars, wireVars, serverVars>>
        /\ HistorySound /\ serverId \in Nat /\ rebinding' \subseteq Devices
    BY <1>2 DEF ConfirmRebind, Typed
  <2>2. HistorySound' /\ serverId' = serverId
    BY <2>1, HistoryUnchanged DEF serverVars
  <2> QED
    BY <2>1, <2>2, WireKept
<1>3. ASSUME NEW d \in Devices, Exchange(d) PROVE Typed'
  BY <1>3, PrepareKeepsTyped, ServeKeepsTyped, ApplyKeepsTyped, RejectKeepsTyped
     DEF Exchange
<1> QED
  BY <1>1, <1>2, <1>3, UserWriteKeepsTyped, ServeStrayKeepsTyped, GiveUpKeepsTyped,
     RebindKeepsTyped, LoseKeepsTyped DEF Next

(* In every reachable state the rows of each device are a collection, its  *)
(* outbox holds uploadable mutations under ids of its own in the order it  *)
(* generated them, and each request on its way is one the server's         *)
(* validation lets through; the server's history is sound.                 *)
THEOREM DevicesTyped == FreshIds => (Spec => []Typed)
<1> SUFFICES ASSUME FreshIds PROVE Spec => []Typed
  OBVIOUS
<1>1. Init => Typed
  BY InitIsTyped
<1>2. Typed /\ [Next]_vars => Typed'
  BY NextKeepsTyped
<1> QED
  BY <1>1, <1>2, PTL DEF Spec

(* The type invariant the runs check.                                      *)
THEOREM ProtocolType == FreshIds => (Spec => []TypeOK)
<1> SUFFICES ASSUME FreshIds PROVE Spec => []TypeOK
  OBVIOUS
<1>1. Typed => TypeOK
  <2> SUFFICES ASSUME Typed, NEW d \in Devices
               PROVE  /\ IsCollection(local[d])
                      /\ state[d].cursor \in Nat /\ state[d].serverId \in 0..serverId
                      /\ minted[d] \in Nat
                      /\ \A n \in DOMAIN outbox[d] :
                            /\ outbox[d][n].id \in {d} \X (1..minted[d])
                            /\ IsCollection(outbox[d][n].changes)
                            /\ Cardinality(DOMAIN outbox[d][n].changes) \in 1..MaxChanges
    BY DEF Typed, TypeOK
  <2>1. DeviceTyped(d)
    BY DEF Typed
  <2>2. ASSUME NEW n \in DOMAIN outbox[d]
        PROVE  /\ outbox[d][n].id \in {d} \X (1..minted[d])
               /\ IsCollection(outbox[d][n].changes)
               /\ Cardinality(DOMAIN outbox[d][n].changes) \in 1..MaxChanges
    <3>1. IsMutation(d, minted[d], outbox[d][n])
      BY <2>1 DEF DeviceTyped, IsOutbox
    <3> QED
      BY <3>1 DEF IsMutation, Uploadable
  <2> QED
    BY <2>1, <2>2 DEF DeviceTyped, StateTyped
<1> QED
  BY <1>1, DevicesTyped, PTL

(* The history properties hold with devices for clients, too.              *)
THEOREM HistoryOfDevices ==
    FreshIds => (Spec => [](RecordedOnce /\ ReceiptsMatchLog /\ EntitiesReplayLog
                              /\ DerivedFlagsAgree))
<1> SUFFICES ASSUME FreshIds
             PROVE  Spec => [](RecordedOnce /\ ReceiptsMatchLog /\ EntitiesReplayLog
                                 /\ DerivedFlagsAgree)
  OBVIOUS
<1>1. Typed => RecordedOnce /\ ReceiptsMatchLog /\ EntitiesReplayLog /\ DerivedFlagsAgree
  BY DEF Typed, HistorySound, HistoryReplays
<1> QED
  BY <1>1, DevicesTyped, PTL

-----------------------------------------------------------------------------
(* One server, and devices that stay with it.                              *)
Sent(req) == {req.mutations[p].id : p \in DOMAIN req.mutations}
InFlight(req) == IF req = Nothing THEN {} ELSE Sent(req)
Straying(strays) == UNION {Sent(req) : req \in strays}

(* Unacknowledged mutations the server has recorded or may yet record.     *)
Exposed(box, recorded, req, strays) ==
    {box[n].id : n \in Unacked(box)}
      \cap (recorded \cup InFlight(req) \cup Straying(strays))

SentAreKnown(box, recorded, req, strays) ==
    InFlight(req) \cup Straying(strays) \subseteq Ids(box) \cup recorded

AcksAreHistory(box, l) ==
    \A n \in DOMAIN box : box[n].ack # 0 =>
        box[n].ack \in DOMAIN l /\ l[box[n].ack].mutation = box[n].id

PastIsGone(box, l, cursor) ==
    /\ cursor <= Len(l)
    /\ \A r \in 1..cursor : l[r].mutation \notin Ids(box)

(* The next batch of an idle device, the one on its way of another, holds  *)
(* every mutation that is exposed; before the baseline is complete there   *)
(* is none.                                                                *)
ExposedIsNext(box, recorded, req, strays, baseline) ==
    LET exposed == Exposed(box, recorded, req, strays)
    IN /\ exposed \subseteq BatchIds(box)
       /\ req # Nothing => exposed \subseteq Sent(req)
       /\ ~baseline => exposed = {}

PinnedAt(d) ==
    /\ SentAreKnown(outbox[d], DOMAIN receipts, request[d], stray[d])
    /\ AcksAreHistory(outbox[d], log)
    /\ PastIsGone(outbox[d], log, state[d].cursor)
    /\ ExposedIsNext(outbox[d], DOMAIN receipts, request[d], stray[d],
                     state[d].baseline)

PageKnown(d) ==
    IsPage(response[d]) => request[d] # Nothing /\ PageIsHistory(request[d], response[d])

Generated(recorded, count) ==
    \A m \in recorded : \E e \in Devices : \E k \in 1..count[e] : m = <<e, k>>

Pinned ==
    /\ rebinding = {} /\ serverId = 1
    /\ spent = [writes |-> spent.writes, losses |-> spent.losses, rebinds |-> 0]
    /\ Generated(DOMAIN receipts, minted)
    /\ \A r \in DOMAIN log : log[r].mutation \in DOMAIN receipts
    /\ \A d \in Devices : PinnedAt(d) /\ PageKnown(d)

-----------------------------------------------------------------------------
(* New mutations are exposed only once they are sent.                      *)
LEMMA EditedPin ==
    ASSUME NEW d, NEW m \in Nat, NEW box, IsOutbox(d, m, box), NEW n, NEW new,
           Extends(d, m, box, n, new), NEW recorded, NEW req, NEW strays, NEW l,
           NEW cursor, NEW baseline,
           \A k \in (m + 1)..n : <<d, k>> \notin recorded,
           \A r \in 1..cursor : l[r].mutation \in recorded,
           SentAreKnown(box, recorded, req, strays), AcksAreHistory(box, l),
           PastIsGone(box, l, cursor), ExposedIsNext(box, recorded, req, strays, baseline)
    PROVE  /\ SentAreKnown(new, recorded, req, strays) /\ AcksAreHistory(new, l)
           /\ PastIsGone(new, l, cursor)
           /\ ExposedIsNext(new, recorded, req, strays, baseline)
<1> DEFINE fresh == {<<d, k>> : k \in (m + 1)..n}
           out == recorded \cup InFlight(req) \cup Straying(strays)
<1>1. /\ IsOutbox(d, n, new) /\ Ids(new) = Ids(box) \cup fresh /\ n \in Nat /\ m <= n
  <2>1. n \in Nat /\ m <= n
    BY DEF Extends
  <2>2. IsOutbox(d, n, new) /\ Ids(new) = Ids(box) \cup {<<d, k>> : k \in (m + 1)..n}
    BY ExtendedOutbox
  <2> QED
    BY <2>1, <2>2
<1>2. Ids(box) \cap fresh = {}
  <2> SUFFICES ASSUME NEW p \in DOMAIN box, NEW k \in (m + 1)..n, box[p].id = <<d, k>>
               PROVE  FALSE
    BY DEF Ids
  <2>1. PICK j \in 1..m : box[p].id = <<d, j>>
    BY DEF IsOutbox, IsMutation
  <2>2. j = k
    BY <2>1
  <2> QED
    BY <1>1, <2>2
<1>3. fresh \cap recorded = {}
  OBVIOUS
<1> HIDE DEF fresh
<1>4. fresh \cap out = {}
  BY <1>2, <1>3 DEF SentAreKnown
<1>5. ASSUME NEW p \in DOMAIN new
      PROVE  \/ p \in DOMAIN box /\ new[p] = box[p]
             \/ new[p].ack = 0 /\ new[p].id \in fresh
  <2>0. /\ Len(box) \in Nat /\ DOMAIN box = 1..Len(box)
        /\ DOMAIN new = 1..Len(new) /\ Len(new) = Len(box) + (n - m)
    BY SequenceShape DEF IsOutbox, Extends
  <2>1. CASE p <= Len(box)
    BY <1>1, <2>0, <2>1 DEF Extends
  <2>2. CASE p > Len(box)
    <3> DEFINE k == p - Len(box)
    <3>1. k \in 1..(n - m) /\ Len(box) + k = p /\ m + k \in (m + 1)..n
      BY <1>1, <2>0, <2>2
    <3> HIDE DEF k
    <3> DEFINE c == new[Len(box) + k].changes
    <3> HIDE DEF c
    <3>2. new[Len(box) + k] = [id |-> <<d, m + k>>, changes |-> c, ack |-> 0]
      BY <3>1 DEF Extends, c
    <3>3. new[p].ack = 0 /\ new[p].id = <<d, m + k>>
      BY <3>1, <3>2
    <3> QED
      BY <3>1, <3>3 DEF fresh
  <2> QED
    BY <2>0, <2>1, <2>2
<1>6. SentAreKnown(new, recorded, req, strays)
  BY <1>1 DEF SentAreKnown
<1>7. AcksAreHistory(new, l)
  BY <1>5 DEF AcksAreHistory
<1>8. PastIsGone(new, l, cursor)
  BY <1>1, <1>3 DEF PastIsGone
<1>9. Exposed(new, recorded, req, strays) \subseteq Exposed(box, recorded, req, strays)
  BY <1>4, <1>5 DEF Exposed, Unacked
<1>10. BatchIds(box) \subseteq BatchIds(new)
  BY FittingGrows DEF IsOutbox
<1>11. ExposedIsNext(new, recorded, req, strays, baseline)
  BY <1>9, <1>10 DEF ExposedIsNext
<1> QED
  BY <1>6, <1>7, <1>8, <1>11

(* A batch that leaves an idle device holds whatever was exposed.          *)
LEMMA SentPin ==
    ASSUME NEW box, NEW recorded, NEW strays, NEW l, NEW cursor, NEW baseline,
           NEW req, req # Nothing,
           baseline => Sent(req) = BatchIds(box), ~baseline => Sent(req) = {},
           SentAreKnown(box, recorded, Nothing, strays),
           ExposedIsNext(box, recorded, Nothing, strays, baseline)
    PROVE  /\ SentAreKnown(box, recorded, req, strays)
           /\ ExposedIsNext(box, recorded, req, strays, baseline)
<1>1. BatchIds(box) \subseteq Ids(box)
  BY DEF BatchIds, Ids, Fitting, Unacked
<1>2. SentAreKnown(box, recorded, req, strays)
  BY <1>1 DEF SentAreKnown, InFlight
<1>3. Exposed(box, recorded, req, strays)
        \subseteq Exposed(box, recorded, Nothing, strays) \cup Sent(req)
  BY DEF Exposed, InFlight
<1>4. ExposedIsNext(box, recorded, req, strays, baseline)
  <2>1. CASE baseline = TRUE
    BY <1>3, <2>1 DEF ExposedIsNext
  <2>2. CASE baseline # TRUE
    BY <1>3 DEF ExposedIsNext
  <2> QED
    BY <2>1, <2>2
<1> QED
  BY <1>2, <1>4

(* What is no longer on its way is less exposed.                           *)
LEMMA LostPin ==
    ASSUME NEW box, NEW recorded, NEW req, NEW strays, NEW baseline, NEW req2, NEW strays2,
           InFlight(req2) \cup Straying(strays2) \subseteq InFlight(req) \cup Straying(strays),
           req2 = req \/ req2 = Nothing,
           SentAreKnown(box, recorded, req, strays),
           ExposedIsNext(box, recorded, req, strays, baseline)
    PROVE  /\ SentAreKnown(box, recorded, req2, strays2)
           /\ ExposedIsNext(box, recorded, req2, strays2, baseline)
<1>1. SentAreKnown(box, recorded, req2, strays2)
  BY DEF SentAreKnown
<1>2. Exposed(box, recorded, req2, strays2) \subseteq Exposed(box, recorded, req, strays)
  BY DEF Exposed
<1> QED
  BY <1>1, <1>2 DEF ExposedIsNext

(* The server goes on, recording mutations that were on their way.         *)
LEMMA GrownPin ==
    ASSUME NEW l, NEW l2, Len(l) \in Nat, Len(l2) \in Nat, DOMAIN l = 1..Len(l),
           DOMAIN l2 = 1..Len(l2), Continues(l, l2),
           NEW recorded, NEW more, recorded \subseteq more,
           NEW box, NEW req, NEW strays, NEW cursor \in Nat, NEW baseline,
           \A m \in Ids(box) : m \in more => m \in recorded \cup InFlight(req) \cup Straying(strays),
           SentAreKnown(box, recorded, req, strays), AcksAreHistory(box, l),
           PastIsGone(box, l, cursor), ExposedIsNext(box, recorded, req, strays, baseline)
    PROVE  /\ SentAreKnown(box, more, req, strays) /\ AcksAreHistory(box, l2)
           /\ PastIsGone(box, l2, cursor)
           /\ ExposedIsNext(box, more, req, strays, baseline)
<1>1. SentAreKnown(box, more, req, strays)
  BY DEF SentAreKnown
<1>2. AcksAreHistory(box, l2)
  BY DEF AcksAreHistory, Continues
<1>3. PastIsGone(box, l2, cursor)
  BY DEF PastIsGone, Continues
<1>4. Exposed(box, more, req, strays) \subseteq Exposed(box, recorded, req, strays)
  <2>1. {box[n].id : n \in Unacked(box)} \subseteq Ids(box)
    BY DEF Unacked, Ids
  <2> QED
    BY <2>1 DEF Exposed
<1> QED
  BY <1>1, <1>2, <1>3, <1>4 DEF ExposedIsNext

(* Mutations are queued where they were generated.                         *)
LEMMA QueuedAtHome ==
    ASSUME Typed, NEW d \in Devices, NEW m \in Ids(outbox[d])
    PROVE  \E k \in 1..minted[d] : m = <<d, k>>
<1>1. IsOutbox(d, minted[d], outbox[d])
  BY DEF Typed, DeviceTyped
<1>2. PICK n \in DOMAIN outbox[d] : m = outbox[d][n].id
  BY DEF Ids
<1> QED
  BY <1>1, <1>2 DEF IsOutbox, IsMutation

(* No mutation is queued at two devices.                                   *)
LEMMA OneHome ==
    ASSUME Typed, NEW d \in Devices, NEW e \in Devices,
           NEW m, m \in Ids(outbox[d]), m \in Ids(outbox[e])
    PROVE  d = e
<1>1. (\E k \in 1..minted[d] : m = <<d, k>>) /\ (\E k \in 1..minted[e] : m = <<e, k>>)
  BY QueuedAtHome
<1> QED
  BY <1>1

(* A commit records mutations that were sent and are still queued.         *)
LEMMA CommitRecords ==
    ASSUME Typed, Pinned, NEW d \in Devices, NEW req, IsRequest(req),
           Sent(req) \subseteq Ids(outbox[d]) \cup DOMAIN receipts,
           NEW n, Commit(req, n)
    PROVE  /\ Grows
           /\ DOMAIN receipts' \ DOMAIN receipts \subseteq Sent(req) \cap Ids(outbox[d])
           /\ Generated(DOMAIN receipts', minted)
           /\ \A r \in DOMAIN log' : log'[r].mutation \in DOMAIN receipts'
           /\ Len(log') \in Nat /\ DOMAIN log' = 1..Len(log')
<1>1. Grows /\ Len(log) \in Nat /\ DOMAIN log = 1..Len(log)
  BY CommitGrows, LogIndices DEF Typed, HistorySound
<1>2. Len(log') \in Nat /\ DOMAIN log' = 1..Len(log')
  <2>1. log' \in Seq(Groups(log'))
    BY <1>1 DEF Grows
  <2> QED
    BY <2>1, LenProperties
<1>3. DOMAIN receipts' \ DOMAIN receipts \subseteq Sent(req)
  <2>1. PICK order \in Enumerations(FreshPositions(req)) :
          DOMAIN receipts' = DOMAIN receipts
                               \cup {req.mutations[order[k]].id : k \in DOMAIN order}
    BY DEF Commit
  <2>2. \A k \in DOMAIN order : order[k] \in DOMAIN req.mutations
    BY DEF Enumerations, FreshPositions
  <2> QED
    BY <2>1, <2>2 DEF Sent
<1>4. DOMAIN receipts' \ DOMAIN receipts \subseteq Sent(req) \cap Ids(outbox[d])
  BY <1>3
<1>5. Generated(DOMAIN receipts', minted)
  <2> SUFFICES ASSUME NEW m \in DOMAIN receipts'
               PROVE  \E e \in Devices : \E k \in 1..minted[e] : m = <<e, k>>
    BY DEF Generated
  <2>1. CASE m \in DOMAIN receipts
    BY <2>1 DEF Pinned, Generated
  <2>2. CASE m \notin DOMAIN receipts
    BY <1>4, <2>2, QueuedAtHome
  <2> QED
    BY <2>1, <2>2
<1>6. ASSUME NEW r \in DOMAIN log' PROVE log'[r].mutation \in DOMAIN receipts'
  <2>1. CASE r <= Len(log)
    <3>1. r \in DOMAIN log /\ log'[r] = log[r]
      BY <1>1, <1>2, <2>1 DEF Grows, Continues
    <3>2. log[r].mutation \in DOMAIN receipts
      BY <3>1 DEF Pinned
    <3> QED
      BY <1>1, <3>1, <3>2 DEF Grows
  <2>2. CASE r > Len(log)
    <3>1. r \in Len(log) + 1..Len(log')
      BY <1>1, <1>2, <2>2
    <3> QED
      BY <1>1, <3>1 DEF Grows
  <2> QED
    BY <1>1, <1>2, <2>1, <2>2
<1> QED
  BY <1>1, <1>2, <1>4, <1>5, <1>6

(* An accepted page leaves the device's history, and its outbox without    *)
(* the mutations it has now seen recorded.                                 *)
LEMMA AppliedOutbox ==
    ASSUME Typed, Pinned, NEW d \in Devices, Apply(d)
    PROVE  LET next == response[d].nextCursor
           IN /\ next \in state[d].cursor..Len(log) /\ state'[d].cursor = next
              /\ Ids(outbox'[d]) = Ids(outbox[d]) \ {log[r].mutation : r \in 1..next}
              /\ SentAreKnown(outbox'[d], DOMAIN receipts, Nothing, stray[d])
              /\ AcksAreHistory(outbox'[d], log)
              /\ PastIsGone(outbox'[d], log, next)
              /\ \A b : ExposedIsNext(outbox'[d], DOMAIN receipts, Nothing, stray[d], b)
<1> DEFINE page == response[d]
           req == request[d]
           old == outbox[d]
           box == Acknowledged(old, page)
           next == page.nextCursor
           kept == {n \in DOMAIN box : ~Passed(box[n], next)}
           past == {log[r].mutation : r \in 1..next}
<1>1. /\ HistorySound /\ DeviceTyped(d) /\ PinnedAt(d) /\ PageKnown(d)
      /\ IsOutbox(d, minted[d], old) /\ state[d].cursor \in Nat
      /\ DOMAIN state[d] = {"serverId", "cursor", "baseline", "bootstrapped", "seeded"}
  BY DEF Typed, Pinned, DeviceTyped, StateTyped
<1>2. Len(log) \in Nat /\ DOMAIN log = 1..Len(log)
  BY <1>1, LogIndices
<1>3. /\ IsPage(page) /\ PageTyped(page) /\ Accepted(d, page)
      /\ outbox'[d] = RowsAt(box, kept)
      /\ state'[d] = [state[d] EXCEPT !.serverId = page.serverId, !.cursor = next,
                                      !.baseline = @ \/ ~page.hasMore,
                                      !.bootstrapped = @ \/ (~page.hasMore /\ next > 0)]
  BY ApplyIsTransaction
<1>4. req # Nothing /\ PageIsHistory(req, page)
  BY <1>1, <1>3 DEF PageKnown
<1> HIDE DEF page, req, old
<1>5. /\ next = req.cursor + Len(page.groups) /\ DOMAIN page.acks = Sent(req)
      /\ next = state[d].cursor + Len(page.groups)
  BY <1>3 DEF Accepted, ValidExchange, ApplicablePage, req, Sent
<1>6. /\ next \in req.cursor..Len(log)
      /\ \A m \in DOMAIN page.acks : page.acks[m] \in DOMAIN log
                                     /\ log[page.acks[m]].mutation = m
  BY <1>4, <1>5 DEF PageIsHistory, Sent
<1>7. next \in state[d].cursor..Len(log) /\ next \in Nat
  <2>1. Len(page.groups) \in Nat
    BY <1>3, SequenceShape DEF PageTyped
  <2>2. next \in Int /\ next <= Len(log)
    BY <1>2, <1>3, <1>6 DEF PageTyped
  <2> QED
    BY <1>1, <1>2, <1>5, <2>1, <2>2
<1>8. /\ IsOutbox(d, minted[d], box) /\ DOMAIN box = DOMAIN old
      /\ \A n \in DOMAIN old :
           box[n] = [id |-> old[n].id, changes |-> old[n].changes,
                     ack |-> IF old[n].id \in DOMAIN page.acks
                             THEN page.acks[old[n].id] ELSE old[n].ack]
  BY <1>1, <1>3, AcknowledgedOutbox DEF PageTyped
<1> HIDE DEF box
<1>9. \A n \in DOMAIN box : /\ box[n].id = old[n].id /\ n \in DOMAIN old
                           /\ box[n].ack = IF old[n].id \in DOMAIN page.acks
                                           THEN page.acks[old[n].id] ELSE old[n].ack
  BY <1>8
<1>10. AcksAreHistory(box, log)
  BY <1>1, <1>6, <1>9 DEF AcksAreHistory, PinnedAt, old
<1>11. ASSUME NEW n \in DOMAIN box, box[n].ack = 0,
              box[n].id \in DOMAIN receipts \cup InFlight(req) \cup Straying(stray[d])
       PROVE  FALSE
  <2>1. \A m \in DOMAIN page.acks : page.acks[m] # 0
    BY <1>2, <1>6
  <2>2. old[n].id \notin Sent(req) /\ old[n].ack = 0 /\ n \in DOMAIN old
    BY <1>5, <1>9, <1>11, <2>1
  <2>3. old[n].id \in Exposed(old, DOMAIN receipts, req, stray[d])
    BY <1>9, <1>11, <2>2 DEF Exposed, Unacked
  <2> QED
    BY <1>1, <1>4, <2>2, <2>3 DEF PinnedAt, ExposedIsNext, old, req
<1>12. ASSUME NEW n \in DOMAIN box
       PROVE  Passed(box[n], next) <=> box[n].id \in past
  <2>1. ASSUME Passed(box[n], next) PROVE box[n].id \in past
    <3>1. box[n].ack \in DOMAIN log /\ log[box[n].ack].mutation = box[n].id
          /\ box[n].ack <= next
      BY <1>10, <2>1 DEF AcksAreHistory, Passed
    <3>2. box[n].ack \in 1..next
      BY <1>2, <1>7, <3>1
    <3> QED
      BY <3>1, <3>2
  <2>2. ASSUME NEW r \in 1..next, box[n].id = log[r].mutation PROVE Passed(box[n], next)
    <3>1. r \in DOMAIN log
      BY <1>1, <1>2, <1>7
    <3>2. box[n].ack # 0
      <4>1. log[r].mutation \in DOMAIN receipts
        BY <3>1 DEF Pinned
      <4> QED
        BY <1>11, <2>2, <4>1
    <3>3. box[n].ack = r
      BY <1>1, <1>10, <2>2, <3>1, <3>2 DEF AcksAreHistory, HistorySound, RecordedOnce
    <3> QED
      BY <1>7, <3>2, <3>3 DEF Passed
  <2> QED
    BY <2>1, <2>2
<1> HIDE DEF past
<1>13. kept \in SUBSET DOMAIN box
  OBVIOUS
<1> DEFINE new == RowsAt(box, kept)
<1>14. /\ Ids(new) = {box[p].id : p \in kept}
       /\ \A k \in DOMAIN new : \E p \in kept : new[k] = box[p]
  <2> HIDE DEF kept
  <2> QED
    BY <1>8, <1>13, PartOfOutbox
<1> HIDE DEF new
<1>15. Ids(new) = Ids(old) \ past
  <2>1. Ids(old) = {box[p].id : p \in DOMAIN box}
    BY <1>8, <1>9 DEF Ids
  <2> QED
    BY <1>12, <1>14, <2>1
<1>16. past \subseteq DOMAIN receipts
  <2>1. 1..next \subseteq DOMAIN log
    BY <1>1, <1>2, <1>7
  <2> QED
    BY <2>1 DEF past, Pinned
<1>17. SentAreKnown(new, DOMAIN receipts, Nothing, stray[d])
  BY <1>1, <1>15, <1>16 DEF SentAreKnown, InFlight, PinnedAt, old
<1>18. AcksAreHistory(new, log)
  BY <1>10, <1>14 DEF AcksAreHistory
<1>19. PastIsGone(new, log, next)
  BY <1>2, <1>7, <1>15 DEF PastIsGone, past
<1>20. Exposed(new, DOMAIN receipts, Nothing, stray[d]) = {}
  <2> SUFFICES ASSUME NEW k \in DOMAIN new, new[k].ack = 0,
                      new[k].id \in DOMAIN receipts \cup Straying(stray[d])
               PROVE  FALSE
    BY DEF Exposed, Unacked, InFlight
  <2>1. PICK p \in kept : new[k] = box[p]
    BY <1>14
  <2> QED
    BY <1>11, <1>13, <2>1
<1>21. \A b : ExposedIsNext(new, DOMAIN receipts, Nothing, stray[d], b)
  BY <1>20 DEF ExposedIsNext
<1>22. state'[d].cursor = next
  BY <1>1, <1>3
<1> QED
  BY <1>3, <1>7, <1>15, <1>17, <1>18, <1>19, <1>21, <1>22 DEF new, old, past, page

NoRebinds(s) == s = [writes |-> s.writes, losses |-> s.losses, rebinds |-> 0]

(* What is history of an unchanged log stays history; so does a page known *)
(* to be.                                                                  *)
LEMMA PageStays ==
    ASSUME NEW e, request'[e] = request[e], response'[e] = response[e], PageKnown(e),
           \A q, page : PageIsHistory(q, page) /\ IsRequest(q) => PageIsHistory(q, page)',
           request[e] # Nothing => IsRequest(request[e])
    PROVE  PageKnown(e)'
<1>1. PICK q, page : q = request[e] /\ page = response[e]
  OBVIOUS
<1>2. CASE IsPage(page)
  <2>1. q # Nothing /\ PageIsHistory(q, page)
    BY <1>1, <1>2 DEF PageKnown
  <2>2. PageIsHistory(q, page)'
    BY <1>1, <2>1
  <2>3. request'[e] = q /\ response'[e] = page
    BY <1>1
  <2>4. PageIsHistory(request[e], response[e])'
    BY <2>2, <2>3 DEF PageIsHistory
  <2> QED
    BY <2>1, <2>3, <2>4 DEF PageKnown
<1>3. CASE ~IsPage(page)
  BY <1>1, <1>3 DEF PageKnown, IsPage
<1> QED
  BY <1>2, <1>3

(* A page of history stays one while the log rests.                        *)
LEMMA UnchangedHistory ==
    ASSUME UNCHANGED log, NEW q, NEW page, PageIsHistory(q, page)
    PROVE  PageIsHistory(q, page)'
BY DEF PageIsHistory

(* No rebind is under way, and the server has the database it began with.  *)
LEMMA PinnedShape ==
    ASSUME Pinned
    PROVE  rebinding = {} /\ serverId = 1 /\ NoRebinds(spent)
BY DEF Pinned, NoRebinds

(* A step of one device while the server rests.                            *)
LEMMA QuietStep ==
    ASSUME Typed, Pinned, NEW d \in Devices, OnlyDevice(d), UNCHANGED serverVars,
           rebinding' = {}, NoRebinds(spent'),
           minted'[d] \in Nat, minted[d] <= minted'[d], PinnedAt(d)', PageKnown(d)'
    PROVE  Pinned'
<1>1. UNCHANGED <<log, receipts, serverId>>
  BY DEF serverVars
<1>2. ASSUME NEW e \in Devices, e # d
      PROVE  /\ outbox'[e] = outbox[e] /\ state'[e] = state[e] /\ minted'[e] = minted[e]
             /\ request'[e] = request[e] /\ response'[e] = response[e]
             /\ stray'[e] = stray[e]
  BY <1>2 DEF OnlyDevice, OthersKept
<1>3. Generated(DOMAIN receipts, minted')
  <2> SUFFICES ASSUME NEW m \in DOMAIN receipts
               PROVE  \E e \in Devices : \E k \in 1..minted'[e] : m = <<e, k>>
    BY DEF Generated
  <2>1. PICK e \in Devices : \E k \in 1..minted[e] : m = <<e, k>>
    BY DEF Pinned, Generated
  <2>2. minted[e] \in Nat /\ minted'[e] \in Nat /\ minted[e] <= minted'[e]
    BY <1>2 DEF Typed, DeviceTyped
  <2>3. 1..minted[e] \subseteq 1..minted'[e]
    BY <2>2
  <2> QED
    BY <2>1, <2>3
<1>4. ASSUME NEW e \in Devices PROVE PinnedAt(e)' /\ PageKnown(e)'
  <2>1. CASE e = d
    BY <2>1
  <2>2. CASE e # d
    <3>1. PinnedAt(e) /\ PageKnown(e)
      BY DEF Pinned
    <3>2. PinnedAt(e)'
      BY <1>1, <1>2, <2>2, <3>1 DEF PinnedAt
    <3>3. request[e] # Nothing => IsRequest(request[e])
      BY DEF Typed, WireTyped
    <3>4. PageKnown(e)'
      BY <1>1, <1>2, <2>2, <3>1, <3>3, UnchangedHistory, PageStays
    <3> QED
      BY <3>2, <3>4
  <2> QED
    BY <2>1, <2>2
<1>5. serverId = 1 /\ \A r \in DOMAIN log : log[r].mutation \in DOMAIN receipts
  BY DEF Pinned
<1>6. Generated(DOMAIN receipts, minted)'
  BY <1>1, <1>3 DEF Generated
<1>7. NoRebinds(spent)'
  BY DEF NoRebinds
<1> QED
  BY <1>1, <1>4, <1>5, <1>6, <1>7 DEF Pinned, NoRebinds

(* A transaction that adds mutations exposes none of them.                 *)
LEMMA EditsArePinned ==
    ASSUME Typed, Pinned, NEW d \in Devices, Edits(d)
    PROVE  /\ SentAreKnown(outbox'[d], DOMAIN receipts, request[d], stray[d])
           /\ AcksAreHistory(outbox'[d], log)
           /\ PastIsGone(outbox'[d], log, state[d].cursor)
           /\ ExposedIsNext(outbox'[d], DOMAIN receipts, request[d], stray[d],
                            state[d].baseline)
<1>1. /\ PinnedAt(d) /\ minted[d] \in Nat /\ IsOutbox(d, minted[d], outbox[d])
      /\ Extends(d, minted[d], outbox[d], minted'[d], outbox'[d])
      /\ HistorySound /\ state[d].cursor \in Nat
  BY DEF Typed, DeviceTyped, StateTyped, Pinned, Edits
<1>2. \A k \in (minted[d] + 1)..minted'[d] : <<d, k>> \notin DOMAIN receipts
  <2> SUFFICES ASSUME NEW k \in (minted[d] + 1)..minted'[d], <<d, k>> \in DOMAIN receipts
               PROVE  FALSE
    OBVIOUS
  <2>0. PICK e \in Devices : \E j \in 1..minted[e] : <<d, k>> = <<e, j>>
    BY DEF Pinned, Generated
  <2>1. PICK j \in 1..minted[e] : <<d, k>> = <<e, j>>
    BY <2>0
  <2>2. e = d /\ j = k
    BY <2>1
  <2> QED
    BY <1>1, <2>1, <2>2 DEF Extends
<1>3. \A r \in 1..state[d].cursor : log[r].mutation \in DOMAIN receipts
  <2>1. 1..state[d].cursor \subseteq DOMAIN log
    BY <1>1, LogIndices DEF PinnedAt, PastIsGone
  <2> QED
    BY <2>1 DEF Pinned
<1>4. PICK m, n, box, new, c, b, l, recorded, req, strays :
        /\ m = minted[d] /\ n = minted'[d] /\ box = outbox[d] /\ new = outbox'[d]
        /\ c = state[d].cursor /\ b = state[d].baseline /\ l = log
        /\ recorded = DOMAIN receipts /\ req = request[d] /\ strays = stray[d]
  OBVIOUS
<1>5. /\ m \in Nat /\ IsOutbox(d, m, box) /\ Extends(d, m, box, n, new)
      /\ \A k \in (m + 1)..n : <<d, k>> \notin recorded
      /\ \A r \in 1..c : l[r].mutation \in recorded
      /\ SentAreKnown(box, recorded, req, strays)
      /\ AcksAreHistory(box, l) /\ PastIsGone(box, l, c)
      /\ ExposedIsNext(box, recorded, req, strays, b)
  BY <1>1, <1>2, <1>3, <1>4 DEF PinnedAt
<1>6. /\ SentAreKnown(new, recorded, req, strays) /\ AcksAreHistory(new, l)
      /\ PastIsGone(new, l, c) /\ ExposedIsNext(new, recorded, req, strays, b)
  BY <1>5, EditedPin
<1> QED
  BY <1>4, <1>6

(* A user's write keeps Pinned.                                            *)
LEMMA UserWriteKeepsPinned ==
    ASSUME Typed, Pinned, NEW d \in Devices, UserWrite(d)
    PROVE  Pinned'
<1>1. Edits(d) /\ UNCHANGED <<state, request>>
  BY UserWriteEdits
<1>2. spent' = [spent EXCEPT !.writes = @ + 1]
  BY DEF UserWrite, SaveComic, SaveCopy, SaveBarcode, Write
<1>3. NoRebinds(spent') /\ rebinding' = {}
  BY <1>1, <1>2, PinnedShape DEF NoRebinds, Edits
<1>4. Domains /\ minted[d] \in Nat
  BY DEF Typed, DeviceTyped
<1>5. OnlyDevice(d) /\ UNCHANGED serverVars
  BY <1>1, <1>4, KeptAtDevice DEF Edits, OnlyDevice, Domains
<1>6. minted'[d] \in Nat /\ minted[d] <= minted'[d]
  BY <1>1 DEF Edits, Extends
<1>7. PinnedAt(d)'
  BY <1>1, EditsArePinned DEF PinnedAt, Edits, serverVars
<1>8. PageKnown(d)'
  <2>1. PageKnown(d)
    BY DEF Pinned
  <2> QED
    BY <1>1, <2>1 DEF PageKnown, IsPage, PageIsHistory, Edits, serverVars
<1> QED
  BY <1>3, <1>5, <1>6, <1>7, <1>8, QuietStep

(* Preparing an exchange keeps Pinned: the batch it sends holds all that   *)
(* is exposed.                                                             *)
LEMMA PrepareKeepsPinned ==
    ASSUME FreshIds, Typed, Pinned, NEW d \in Devices, Prepare(d)
    PROVE  Pinned'
<1> DEFINE s == state[d]
<1>1. /\ Edits(d) /\ request[d] = Nothing
      /\ OthersKept(d, state', state)
      /\ state'[d].cursor = s.cursor /\ state'[d].baseline = s.baseline
      /\ OthersKept(d, request', request)
      /\ request'[d] = [id |-> d, serverId |-> s.serverId, cursor |-> s.cursor,
                        mutations |-> IF s.baseline THEN Batch(outbox'[d]) ELSE << >>]
  BY PrepareEdits
<1>2. UNCHANGED <<spent, serverVars, response, stray>> /\ rebinding' = {}
      /\ NoRebinds(spent')
  BY PinnedShape DEF Prepare
<1>3. /\ Domains /\ DeviceTyped(d)
      /\ IsPage(response[d]) => request[d] # Nothing
      /\ s.cursor \in Nat
  BY DEF Typed, Pinned, PageKnown, DeviceTyped, StateTyped
<1> HIDE DEF s
<1>4. OnlyDevice(d)
  BY <1>1, <1>3, KeptAtDevice DEF Edits, OnlyDevice, Domains
<1>5. minted'[d] \in Nat /\ minted[d] <= minted'[d]
      /\ IsOutbox(d, minted'[d], outbox'[d])
  BY <1>1, <1>3, ExtendedOutbox DEF Edits, Extends, DeviceTyped
<1>6. /\ SentAreKnown(outbox'[d], DOMAIN receipts, Nothing, stray[d])
      /\ AcksAreHistory(outbox'[d], log)
      /\ PastIsGone(outbox'[d], log, s.cursor)
      /\ ExposedIsNext(outbox'[d], DOMAIN receipts, Nothing, stray[d], s.baseline)
  BY <1>1, EditsArePinned DEF s
<1>7. PICK m, box, req : m = minted'[d] /\ box = outbox'[d] /\ req = request'[d]
  OBVIOUS
<1>8. /\ req # Nothing
      /\ s.baseline => Sent(req) = BatchIds(box)
      /\ ~s.baseline => Sent(req) = {}
  <2>1. CASE s.baseline
    <3>1. req = [id |-> d, serverId |-> s.serverId, cursor |-> s.cursor,
                 mutations |-> Batch(box)]
      BY <1>1, <1>7, <2>1
    <3>2. {Batch(box)[k].id : k \in DOMAIN Batch(box)} = BatchIds(box)
      BY <1>3, <1>5, <1>7, BatchIsRequest
    <3>3. req.mutations = Batch(box) /\ req # Nothing
      BY <3>1 DEF Nothing
    <3> QED
      BY <2>1, <3>2, <3>3 DEF Sent
  <2>2. CASE ~s.baseline
    <3>1. req = [id |-> d, serverId |-> s.serverId, cursor |-> s.cursor,
                 mutations |-> << >>]
      BY <1>1, <1>7, <2>2
    <3>2. req.mutations = << >> /\ req # Nothing
      BY <3>1 DEF Nothing
    <3> QED
      BY <2>2, <3>2, NoneIsSequence DEF Sent
  <2> QED
    BY <2>1, <2>2
<1>9. /\ SentAreKnown(box, DOMAIN receipts, req, stray[d])
      /\ ExposedIsNext(box, DOMAIN receipts, req, stray[d], s.baseline)
  <2>1. /\ SentAreKnown(box, DOMAIN receipts, Nothing, stray[d])
        /\ ExposedIsNext(box, DOMAIN receipts, Nothing, stray[d], s.baseline)
    BY <1>6, <1>7
  <2> QED
    BY <1>8, <2>1, SentPin
<1>10. PinnedAt(d)'
  BY <1>1, <1>2, <1>6, <1>7, <1>9 DEF PinnedAt, serverVars
<1>11. PageKnown(d)'
  BY <1>1, <1>2, <1>3 DEF PageKnown, IsPage
<1> QED
  BY <1>2, <1>4, <1>5, <1>10, <1>11, QuietStep

(* The page of the exchange under way is history, and stays so.            *)
LEMMA CommitKeepsPinned ==
    ASSUME Typed, Typed', Pinned, NEW d \in Devices, NEW req, IsRequest(req),
           Sent(req) \subseteq InFlight(request[d]) \cup Straying(stray[d]),
           NEW n, Commit(req, n), UNCHANGED <<outbox, state, request, minted>>,
           OthersKept(d, stray', stray), stray'[d] \subseteq stray[d],
           OthersKept(d, response', response),
           rebinding' = {}, NoRebinds(spent'), serverId' = 1,
           response'[d] = response[d] \/ PageKnown(d)'
    PROVE  Pinned'
<1>1. /\ PinnedAt(d) /\ Sent(req) \subseteq Ids(outbox[d]) \cup DOMAIN receipts
  BY DEF Pinned, PinnedAt, SentAreKnown
<1>2. /\ Grows
      /\ DOMAIN receipts' \ DOMAIN receipts \subseteq Sent(req) \cap Ids(outbox[d])
      /\ Generated(DOMAIN receipts', minted)
      /\ \A r \in DOMAIN log' : log'[r].mutation \in DOMAIN receipts'
      /\ Len(log') \in Nat /\ DOMAIN log' = 1..Len(log')
  BY <1>1, CommitRecords
<1>3. /\ Len(log) \in Nat /\ DOMAIN log = 1..Len(log)
      /\ HistoryTyped /\ HistoryTyped' /\ Continues(log, log')
      /\ DOMAIN receipts \subseteq DOMAIN receipts'
  BY <1>2, LogIndices DEF Typed, HistorySound, Grows
<1>4. ASSUME NEW e \in Devices PROVE PinnedAt(e)'
  <2>1. PinnedAt(e) /\ state[e].cursor \in Nat
    BY DEF Pinned, Typed, DeviceTyped, StateTyped
  <2>2. \A m \in Ids(outbox[e]) : m \in DOMAIN receipts' =>
           m \in DOMAIN receipts \cup InFlight(request[e]) \cup Straying(stray[e])
    <3> SUFFICES ASSUME NEW m \in Ids(outbox[e]), m \in DOMAIN receipts',
                        m \notin DOMAIN receipts
                 PROVE  m \in InFlight(request[e]) \cup Straying(stray[e])
      OBVIOUS
    <3>1. m \in Sent(req) /\ m \in Ids(outbox[d])
      BY <1>2
    <3>2. e = d
      BY <3>1, OneHome
    <3> QED
      BY <3>1, <3>2
  <2>3. /\ SentAreKnown(outbox[e], DOMAIN receipts', request[e], stray[e])
        /\ AcksAreHistory(outbox[e], log')
        /\ PastIsGone(outbox[e], log', state[e].cursor)
        /\ ExposedIsNext(outbox[e], DOMAIN receipts', request[e], stray[e],
                         state[e].baseline)
    <3>1. PICK l, l2, recorded, more, box, q, strays, c, b :
             /\ l = log /\ l2 = log' /\ recorded = DOMAIN receipts
             /\ more = DOMAIN receipts' /\ box = outbox[e] /\ q = request[e]
             /\ strays = stray[e] /\ c = state[e].cursor /\ b = state[e].baseline
      OBVIOUS
    <3>2. /\ Len(l) \in Nat /\ Len(l2) \in Nat /\ DOMAIN l = 1..Len(l)
          /\ DOMAIN l2 = 1..Len(l2) /\ Continues(l, l2) /\ recorded \subseteq more
      BY <1>2, <1>3, <3>1
    <3>3. /\ \A m \in Ids(box) : m \in more =>
                 m \in recorded \cup InFlight(q) \cup Straying(strays)
          /\ SentAreKnown(box, recorded, q, strays)
          /\ AcksAreHistory(box, l) /\ PastIsGone(box, l, c) /\ c \in Nat
          /\ ExposedIsNext(box, recorded, q, strays, b)
      BY <2>1, <2>2, <3>1 DEF PinnedAt
    <3>4. /\ SentAreKnown(box, more, q, strays) /\ AcksAreHistory(box, l2)
          /\ PastIsGone(box, l2, c) /\ ExposedIsNext(box, more, q, strays, b)
      BY <3>2, <3>3, GrownPin
    <3> QED
      BY <3>1, <3>4
  <2>4. stray'[e] \subseteq stray[e]
    BY DEF OthersKept
  <2>5. InFlight(request[e]) \cup Straying(stray'[e])
          \subseteq InFlight(request[e]) \cup Straying(stray[e])
    BY <2>4 DEF Straying
  <2>6. /\ SentAreKnown(outbox[e], DOMAIN receipts', request[e], stray'[e])
        /\ ExposedIsNext(outbox[e], DOMAIN receipts', request[e], stray'[e],
                         state[e].baseline)
    BY <2>3, <2>5, LostPin
  <2> QED
    BY <2>3, <2>6 DEF PinnedAt
<1>5. ASSUME NEW e \in Devices PROVE PageKnown(e)'
  <2>1. CASE response'[e] = response[e]
    <3>1. PageKnown(e) /\ (request[e] # Nothing => IsRequest(request[e]))
      BY DEF Pinned, Typed, WireTyped
    <3>2. \A q, page : PageIsHistory(q, page) /\ IsRequest(q) => PageIsHistory(q, page)'
      BY <1>3, PagesPersist
    <3> QED
      BY <2>1, <3>1, <3>2, PageStays
  <2>2. CASE response'[e] # response[e]
    <3>1. e = d
      BY <2>2 DEF OthersKept
    <3> QED
      BY <2>2, <3>1
  <2> QED
    BY <2>1, <2>2
<1>6. Generated(DOMAIN receipts, minted)' /\ NoRebinds(spent)'
  BY <1>2 DEF Generated, NoRebinds
<1> QED
  BY <1>2, <1>4, <1>5, <1>6 DEF Pinned, NoRebinds

(* A step of the wire and its server leaves the device's database alone.   *)
LEMMA SmallerWire ==
    ASSUME Typed, Pinned, NEW d \in Devices, UNCHANGED <<deviceVars, serverVars>>,
           OthersKept(d, request', request), OthersKept(d, response', response),
           OthersKept(d, stray', stray), rebinding' = {}, NoRebinds(spent'),
           InFlight(request'[d]) \cup Straying(stray'[d])
             \subseteq InFlight(request[d]) \cup Straying(stray[d]),
           request'[d] = request[d] \/ request'[d] = Nothing, PageKnown(d)'
    PROVE  Pinned'
<1>1. Domains /\ minted[d] \in Nat /\ PinnedAt(d)
  BY DEF Typed, DeviceTyped, Pinned
<1>2. OnlyDevice(d)
  BY <1>1, KeptAtDevice DEF OnlyDevice, Domains, deviceVars
<1>3. /\ SentAreKnown(outbox[d], DOMAIN receipts, request'[d], stray'[d])
      /\ ExposedIsNext(outbox[d], DOMAIN receipts, request'[d], stray'[d],
                       state[d].baseline)
  <2>1. PICK box, recorded, b, req, req2, strays, strays2 :
          /\ box = outbox[d] /\ recorded = DOMAIN receipts /\ b = state[d].baseline
          /\ req = request[d] /\ req2 = request'[d]
          /\ strays = stray[d] /\ strays2 = stray'[d]
    OBVIOUS
  <2>2. /\ InFlight(req2) \cup Straying(strays2) \subseteq InFlight(req) \cup Straying(strays)
        /\ req2 = req \/ req2 = Nothing
        /\ SentAreKnown(box, recorded, req, strays)
        /\ ExposedIsNext(box, recorded, req, strays, b)
    BY <1>1, <2>1 DEF PinnedAt
  <2>3. /\ SentAreKnown(box, recorded, req2, strays2)
        /\ ExposedIsNext(box, recorded, req2, strays2, b)
    BY <2>2, LostPin
  <2> QED
    BY <2>1, <2>3
<1>4. PinnedAt(d)'
  BY <1>1, <1>3 DEF PinnedAt, deviceVars, serverVars
<1>5. minted'[d] \in Nat /\ minted[d] <= minted'[d]
  BY <1>1 DEF deviceVars
<1> QED
  BY <1>2, <1>4, <1>5, QuietStep

(* Serving a request keeps Pinned, and its answer is a page of the         *)
(* history.                                                                *)
LEMMA ServeKeepsPinned ==
    ASSUME Typed, Pinned, NEW d \in Devices, Serve(d)
    PROVE  Pinned'
<1>1. /\ request[d] # Nothing /\ IsRequest(request[d]) /\ HistorySound
      /\ serverId \in Nat /\ Domains /\ Typed'
  BY ServeKeepsTyped DEF Typed, WireTyped, Serve
<1>2. /\ UNCHANGED <<deviceVars, request, stray, rebinding, spent>>
      /\ OthersKept(d, response', response)
  BY <1>1 DEF Serve, Domains, OthersKept, ByDevice
<1>3. /\ OthersKept(d, stray', stray) /\ OthersKept(d, request', request)
      /\ rebinding' = {} /\ NoRebinds(spent') /\ serverId = 1
  BY <1>1, <1>2, PinnedShape, KeptAtDevice DEF Domains
<1>4. CASE \E n \in 0..PageLimit :
             /\ Commit(request[d], n)
             /\ response' = [response EXCEPT ![d] =
                               Page(log', receipts', request[d], n)]
  <2>1. PICK n \in 0..PageLimit :
             /\ Commit(request[d], n)
             /\ response' = [response EXCEPT ![d] =
                               Page(log', receipts', request[d], n)]
    BY <1>4
  <2>2. PICK page : page = Page(log', receipts', request[d], n)
    OBVIOUS
  <2>3. PICK req : req = request[d]
    OBVIOUS
  <2>4. /\ serverId' = serverId /\ PageIsHistory(req, page)'
        /\ IsRequest(req) /\ Commit(req, n)
    <3>1. IsRequest(req) /\ Commit(req, n) /\ page = Page(log', receipts', req, n)
      BY <1>1, <2>1, <2>2, <2>3
    <3> QED
      BY <1>1, <3>1, CommittedPage
  <2>5. response'[d] = page /\ request'[d] = req
    BY <1>1, <1>2, <2>1, <2>2, <2>3 DEF Domains, ByDevice
  <2>6. PageKnown(d)'
    <3>1. PageIsHistory(request[d], response[d])'
      BY <2>4, <2>5 DEF PageIsHistory
    <3>2. request'[d] # Nothing
      BY <1>1, <2>3, <2>5
    <3> QED
      BY <3>1, <3>2 DEF PageKnown
  <2>7. Sent(req) \subseteq InFlight(request[d]) \cup Straying(stray[d])
    BY <1>1, <2>3 DEF InFlight
  <2> QED
    BY <1>1, <1>2, <1>3, <2>4, <2>6, <2>7, CommitKeepsPinned DEF deviceVars
<1>5. CASE /\ response' = [response EXCEPT ![d] = [refused |-> Verdict(request[d])]]
           /\ UNCHANGED serverVars
  <2>1. response'[d] = [refused |-> Verdict(request[d])]
    BY <1>1, <1>5 DEF Domains, ByDevice
  <2>2. PageKnown(d)'
    BY <2>1 DEF PageKnown, IsPage
  <2> QED
    BY <1>2, <1>3, <1>5, <2>2, SmallerWire
<1> QED
  BY <1>4, <1>5 DEF Serve

(* A late request keeps Pinned: what it still records is in the next       *)
(* batch.                                                                  *)
LEMMA ServeStrayKeepsPinned ==
    ASSUME Typed, Pinned, NEW d \in Devices, ServeStray(d)
    PROVE  Pinned'
<1>1. /\ HistorySound /\ serverId \in Nat /\ Domains /\ Typed' /\ PageKnown(d)
      /\ \A req \in stray[d] : IsRequest(req)
  BY ServeStrayKeepsTyped DEF Typed, WireTyped, Pinned
<1>2. PICK req \in stray[d] :
        /\ \/ \E n \in 0..PageLimit : Commit(req, n)
           \/ Verdict(req) \notin {"ok", "replayed"} /\ UNCHANGED serverVars
        /\ stray' = [stray EXCEPT ![d] = @ \ {req}]
        /\ UNCHANGED <<deviceVars, request, response, rebinding, spent>>
  BY DEF ServeStray
<1>3. /\ OthersKept(d, stray', stray) /\ stray'[d] = stray[d] \ {req}
      /\ OthersKept(d, request', request) /\ OthersKept(d, response', response)
      /\ rebinding' = {} /\ NoRebinds(spent') /\ serverId = 1
  BY <1>1, <1>2, PinnedShape, KeptAtDevice DEF Domains, OthersKept, ByDevice
<1>4. IsRequest(req) /\ Straying(stray'[d]) \subseteq Straying(stray[d])
      /\ Sent(req) \subseteq Straying(stray[d])
  BY <1>1, <1>2, <1>3 DEF Straying
<1>5. ASSUME NEW n \in 0..PageLimit, Commit(req, n)
      PROVE  Pinned'
  <2>1. serverId' = 1
    BY <1>3, <1>5 DEF Commit
  <2> QED
    BY <1>1, <1>2, <1>3, <1>4, <1>5, <2>1, CommitKeepsPinned DEF deviceVars
<1>6. ASSUME UNCHANGED serverVars
      PROVE  Pinned'
  <2>1. PageKnown(d)'
    BY <1>1, <1>2, <1>6 DEF PageKnown, IsPage, PageIsHistory, serverVars
  <2> QED
    BY <1>2, <1>3, <1>4, <1>6, <2>1, SmallerWire
<1> QED
  BY <1>2, <1>5, <1>6

(* A request given up leaves its mutations exposed, and they were already. *)
LEMMA GiveUpKeepsPinned ==
    ASSUME Typed, Pinned, NEW d \in Devices, GiveUp(d)
    PROVE  Pinned'
<1>1. Domains /\ rebinding = {} /\ NoRebinds(spent)
  BY PinnedShape DEF Typed
<1>2. /\ request[d] # Nothing
      /\ spent' = [spent EXCEPT !.losses = @ + 1]
      /\ request' = [request EXCEPT ![d] = Nothing]
      /\ response' = [response EXCEPT ![d] = Nothing]
      /\ stray' = [stray EXCEPT ![d] =
                     @ \cup (IF response[d] = Nothing THEN {request[d]} ELSE {})]
      /\ rebinding' = {}
      /\ UNCHANGED <<serverVars, deviceVars>>
  BY <1>1 DEF GiveUp, Idle
<1>3. /\ OthersKept(d, request', request) /\ request'[d] = Nothing
      /\ OthersKept(d, response', response) /\ response'[d] = Nothing
      /\ OthersKept(d, stray', stray) /\ stray'[d] \subseteq stray[d] \cup {request[d]}
  BY <1>1, <1>2 DEF Domains, OthersKept, ByDevice
<1>4. NoRebinds(spent')
  BY <1>1, <1>2 DEF NoRebinds
<1>5. InFlight(request'[d]) \cup Straying(stray'[d])
        \subseteq InFlight(request[d]) \cup Straying(stray[d])
  BY <1>2, <1>3 DEF InFlight, Straying
<1>6. PageKnown(d)'
  BY <1>3 DEF PageKnown, IsPage
<1> QED
  BY <1>2, <1>3, <1>4, <1>5, <1>6, SmallerWire

(* Rejecting an answer keeps Pinned.                                       *)
LEMMA RejectKeepsPinned ==
    ASSUME Typed, Pinned, NEW d \in Devices, Reject(d)
    PROVE  Pinned'
<1>1. Domains /\ rebinding = {} /\ NoRebinds(spent)
  BY PinnedShape DEF Typed
<1>2. /\ request' = [request EXCEPT ![d] = Nothing]
      /\ response' = [response EXCEPT ![d] = Nothing]
      /\ UNCHANGED <<serverVars, deviceVars, stray, rebinding, spent>>
  BY DEF Reject
<1>3. /\ OthersKept(d, request', request) /\ request'[d] = Nothing
      /\ OthersKept(d, response', response) /\ response'[d] = Nothing
      /\ OthersKept(d, stray', stray) /\ stray'[d] = stray[d]
  BY <1>1, <1>2, KeptAtDevice DEF Domains, OthersKept, ByDevice
<1>4. InFlight(request'[d]) \cup Straying(stray'[d])
        \subseteq InFlight(request[d]) \cup Straying(stray[d])
  BY <1>3 DEF InFlight
<1>5. PageKnown(d)' /\ rebinding' = {} /\ NoRebinds(spent')
  BY <1>1, <1>2, <1>3 DEF PageKnown, IsPage
<1> QED
  BY <1>2, <1>3, <1>4, <1>5, SmallerWire

(* Applying a page keeps Pinned.                                           *)
LEMMA ApplyKeepsPinned ==
    ASSUME Typed, Pinned, NEW d \in Devices, Apply(d)
    PROVE  Pinned'
<1>1. Domains /\ minted[d] \in Nat /\ rebinding = {} /\ NoRebinds(spent)
  BY PinnedShape DEF Typed, DeviceTyped
<1>2. /\ OthersKept(d, local', local) /\ OthersKept(d, versions', versions)
      /\ OthersKept(d, outbox', outbox) /\ OthersKept(d, state', state)
      /\ OthersKept(d, request', request) /\ request'[d] = Nothing
      /\ OthersKept(d, response', response) /\ response'[d] = Nothing
      /\ UNCHANGED <<serverVars, minted, stray, rebinding>>
  BY ApplyIsTransaction
<1>3. UNCHANGED spent
  BY DEF Apply
<1>4. OnlyDevice(d)
  BY <1>1, <1>2, KeptAtDevice DEF OnlyDevice, Domains
<1>5. /\ SentAreKnown(outbox'[d], DOMAIN receipts, Nothing, stray[d])
      /\ AcksAreHistory(outbox'[d], log)
      /\ PastIsGone(outbox'[d], log, state'[d].cursor)
      /\ ExposedIsNext(outbox'[d], DOMAIN receipts, Nothing, stray[d], state'[d].baseline)
  BY AppliedOutbox
<1>6. PinnedAt(d)'
  BY <1>2, <1>5 DEF PinnedAt, serverVars
<1>7. PageKnown(d)'
  BY <1>2 DEF PageKnown, IsPage
<1>8. minted'[d] \in Nat /\ minted[d] <= minted'[d] /\ rebinding' = {} /\ NoRebinds(spent')
  BY <1>1, <1>2, <1>3
<1> QED
  BY <1>2, <1>4, <1>6, <1>7, <1>8, QuietStep

(* Pinned holds at first.                                                  *)
LEMMA InitIsPinned ==
    ASSUME Init
    PROVE  Pinned
<1>1. /\ rebinding = {} /\ serverId = 1 /\ DOMAIN receipts = {} /\ Len(log) = 0
      /\ DOMAIN log = {}
      /\ spent = [writes |-> 0, losses |-> 0, rebinds |-> 0]
  BY NoneIsSequence DEF Init, EmptyDatabase
<1>2. spent = [writes |-> spent.writes, losses |-> spent.losses, rebinds |-> 0]
  BY <1>1
<1>3. ASSUME NEW d \in Devices PROVE PinnedAt(d) /\ PageKnown(d)
  <2>1. /\ outbox[d] = << >> /\ state[d].cursor = 0 /\ request[d] = Nothing
        /\ response[d] = Nothing /\ stray[d] = {}
    BY DEF Init, FreshState
  <2>2. DOMAIN outbox[d] = {}
    BY <2>1, NoneIsSequence
  <2>3. Exposed(outbox[d], DOMAIN receipts, request[d], stray[d]) = {}
    BY <2>2 DEF Exposed, Unacked
  <2>4. /\ SentAreKnown(outbox[d], DOMAIN receipts, request[d], stray[d])
        /\ AcksAreHistory(outbox[d], log)
        /\ ExposedIsNext(outbox[d], DOMAIN receipts, request[d], stray[d],
                         state[d].baseline)
    BY <2>1, <2>2, <2>3 DEF SentAreKnown, InFlight, Straying, AcksAreHistory, ExposedIsNext
  <2>5. PastIsGone(outbox[d], log, state[d].cursor)
    BY <1>1, <2>1 DEF PastIsGone
  <2> QED
    BY <2>1, <2>4, <2>5 DEF PinnedAt, PageKnown, IsPage
<1> QED
  BY <1>1, <1>2, <1>3 DEF Pinned, Generated

(* No device ever leaves its server, and the server keeps its database.    *)
OneServer == MaxRebinds = 0 /\ MaxServerId = 1

(* Every step of devices that stay with their server keeps Pinned.         *)
LEMMA NextKeepsPinned ==
    ASSUME FreshIds, OneServer, Typed, Pinned, [Next]_vars
    PROVE  Pinned'
<1>1. CASE UNCHANGED vars
  <2>1. UNCHANGED <<log, receipts, serverId, outbox, state, request, response, stray,
                    minted, rebinding, spent>>
    BY <1>1 DEF vars, serverVars, deviceVars, wireVars
  <2> QED
    BY <2>1 DEF Pinned, PinnedAt, PageKnown, IsPage, PageIsHistory, Generated
<1>2. ASSUME NEW d \in Devices, ConfirmRebind(d) \/ Rebind(d)
      PROVE  FALSE
  BY <1>2, PinnedShape DEF ConfirmRebind, Rebind, NoRebinds, OneServer
<1>3. ASSUME LoseDatabase PROVE FALSE
  BY <1>3, PinnedShape DEF LoseDatabase, OneServer
<1>4. ASSUME NEW d \in Devices, Exchange(d) PROVE Pinned'
  BY <1>4, PrepareKeepsPinned, ServeKeepsPinned, ApplyKeepsPinned, RejectKeepsPinned
     DEF Exchange
<1> QED
  BY <1>1, <1>2, <1>3, <1>4, UserWriteKeepsPinned, ServeStrayKeepsPinned,
     GiveUpKeepsPinned DEF Next

-----------------------------------------------------------------------------
(* The mapping to the shared history.                                      *)
Mutations(l) == [r \in DOMAIN l |-> l[r].mutation]
Waiting == [d \in Devices |-> Ids(outbox[d])]
Seen == [d \in Devices |-> state[d].cursor]

(* The initial states are initial states of the shared history.            *)
LEMMA MappedInit ==
    ASSUME Init
    PROVE  Abstract!InitHistory
<1>1. [r \in DOMAIN log |-> log[r].mutation] = << >>
  <2>1. DOMAIN log = {}
    BY NoneIsSequence DEF Init, EmptyDatabase
  <2> QED
    BY <2>1
<1>2. ASSUME NEW d \in Devices
      PROVE  {outbox[d][n].id : n \in DOMAIN outbox[d]} = {} /\ state[d].cursor = 0
  BY NoneIsSequence DEF Init, FreshState
<1> QED
  BY <1>1, <1>2 DEF Abstract!InitHistory

(* Mutations that have just been generated are nobody else's.              *)
LEMMA EditIsMapped ==
    ASSUME FreshIds, Typed, Pinned, NEW d \in Devices, Edits(d), Seen' = Seen
    PROVE  Abstract!Edit(d)
<1> DEFINE new == {<<d, k>> : k \in (minted[d] + 1)..minted'[d]}
<1>1. /\ minted[d] \in Nat /\ minted'[d] \in Nat
      /\ Ids(outbox'[d]) = Ids(outbox[d]) \cup new
      /\ OthersKept(d, outbox', outbox) /\ UNCHANGED log
  <2>1. /\ minted[d] \in Nat /\ IsOutbox(d, minted[d], outbox[d])
        /\ Extends(d, minted[d], outbox[d], minted'[d], outbox'[d])
        /\ OthersKept(d, outbox', outbox) /\ UNCHANGED log
    BY DEF Typed, DeviceTyped, Edits, serverVars
  <2>2. Ids(outbox'[d]) = Ids(outbox[d]) \cup new
    BY <2>1, ExtendedOutbox
  <2> QED
    BY <2>1, <2>2 DEF Extends
<1>2. new \subseteq MutationIds
  <2>1. (minted[d] + 1)..minted'[d] \subseteq Nat \ {0}
    BY <1>1
  <2> QED
    BY <2>1 DEF FreshIds
<1>3. ASSUME NEW k \in (minted[d] + 1)..minted'[d], NEW e \in Devices,
             <<d, k>> \in DOMAIN receipts \/ <<d, k>> \in Ids(outbox[e])
      PROVE  FALSE
  <2>1. \E f \in Devices : \E j \in 1..minted[f] : <<d, k>> = <<f, j>>
    BY <1>3, QueuedAtHome DEF Pinned, Generated
  <2>2. PICK f \in Devices : \E j \in 1..minted[f] : <<d, k>> = <<f, j>>
    BY <2>1
  <2>3. PICK j \in 1..minted[f] : <<d, k>> = <<f, j>>
    BY <2>2
  <2>4. f = d /\ j = k
    BY <2>3
  <2> QED
    BY <1>1, <2>3, <2>4
<1>4. \A r \in DOMAIN log : log[r].mutation \in DOMAIN receipts
  BY DEF Pinned
<1>5. new \cap Abstract!Used = {}
  BY <1>3, <1>4 DEF Abstract!Used, Abstract!ToSet, Ids
<1>6. Waiting' = [Waiting EXCEPT ![d] = @ \cup new]
  <2> HIDE DEF new
  <2> QED
    BY <1>1 DEF Waiting, OthersKept
<1> HIDE DEF new
<1> QED
  BY <1>1, <1>2, <1>5, <1>6 DEF Abstract!Edit, Waiting, Seen, Ids

(* The server appends, each once, mutations of one queue.                  *)
LEMMA AppendedOnce ==
    ASSUME NEW l, NEW l2, Len(l) \in Nat, Len(l2) \in Nat, DOMAIN l = 1..Len(l),
           DOMAIN l2 = 1..Len(l2), Continues(l, l2), NEW Q,
           \A r \in Len(l) + 1..Len(l2) : l2[r].mutation \in Q,
           \A r, s \in Len(l) + 1..Len(l2) : l2[r].mutation = l2[s].mutation => r = s
    PROVE  \E s \in SetToAllKPermutations(Q) : Mutations(l2) = Mutations(l) \o s
<1> DEFINE n == Len(l2) - Len(l)
           s == [k \in 1..n |-> l2[Len(l) + k].mutation]
           S == {s[k] : k \in 1..n}
<1>1. n \in Nat /\ Len(l) + n = Len(l2)
  BY DEF Continues
<1>2. \A k \in 1..n : Len(l) + k \in Len(l) + 1..Len(l2)
  BY <1>1
<1>3. S \subseteq Q
  BY <1>2
<1>4. \A j, k \in 1..n : s[j] = s[k] => j = k
  <2> SUFFICES ASSUME NEW j \in 1..n, NEW k \in 1..n, s[j] = s[k] PROVE j = k
    OBVIOUS
  <2>1. Len(l) + j = Len(l) + k
    <3> HIDE DEF n
    <3> QED
      BY <1>2
  <2> HIDE DEF n, s
  <2> QED
    BY <1>1, <2>1
<1> HIDE DEF n
<1>5. s \in [1..n -> S]
  OBVIOUS
<1>6. Cardinality(S) = n
  <2>1. s \in Bijection(1..n, S)
    <3>1. \A t \in S : \E k \in 1..n : s[k] = t
      OBVIOUS
    <3> HIDE DEF S, s
    <3>2. s \in Surjection(1..n, S)
      BY <1>5, <3>1 DEF Surjection
    <3>3. s \in Injection(1..n, S)
      BY <1>4, <1>5 DEF Injection, IsInjective
    <3> QED
      BY <3>2, <3>3 DEF Bijection
  <2> HIDE DEF S, s
  <2> QED
    BY <1>1, <2>1, FS_CountingElements DEF ExistsBijection
<1>7. s \in SetToAllKPermutations(Q)
  <2> HIDE DEF S, s
  <2>1. s \in SetToSeqs(S)
    BY <1>4, <1>5, <1>6 DEF SetToSeqs
  <2> QED
    BY <1>3, <2>1 DEF SetToAllKPermutations
<1>8. Mutations(l2) = Mutations(l) \o s
  <2> DEFINE a == Mutations(l)
             c == a \o s
  <2>1. Sequence(a) /\ Len(a) = Len(l)
    <3>1. a \in [1..Len(l) -> {a[r] : r \in DOMAIN a}]
      BY DEF Mutations
    <3> HIDE DEF a
    <3> QED
      BY <3>1, FunctionIsSequence
  <2>2. Sequence(s) /\ Len(s) = n
    <3> HIDE DEF S, s
    <3> QED
      BY <1>1, <1>5, FunctionIsSequence
  <2> HIDE DEF a, s
  <2>3. /\ Sequence(c) /\ DOMAIN c = 1..Len(l2)
        /\ \A r \in 1..Len(l) : c[r] = a[r]
        /\ \A k \in 1..n : c[Len(l) + k] = s[k]
    <3>1. /\ Sequence(c) /\ DOMAIN c = 1..(Len(a) + Len(s))
          /\ \A r \in 1..Len(a) : c[r] = a[r]
          /\ \A k \in 1..Len(s) : c[Len(a) + k] = s[k]
      BY <2>1, <2>2, Concatenated, SMTT(30)
    <3> HIDE DEF c
    <3> QED
      BY <1>1, <2>1, <2>2, <3>1
  <2> HIDE DEF c
  <2>4. ASSUME NEW r \in 1..Len(l2) PROVE Mutations(l2)[r] = c[r]
    <3>1. Mutations(l2)[r] = l2[r].mutation
      BY DEF Mutations
    <3>2. CASE r <= Len(l)
      <4>1. r \in 1..Len(l)
        BY <3>2
      <4>2. a[r] = l[r].mutation /\ l2[r] = l[r]
        BY <4>1 DEF Mutations, Continues, a
      <4> QED
        BY <2>3, <3>1, <4>1, <4>2
    <3>3. CASE r > Len(l)
      <4> DEFINE k == r - Len(l)
      <4>1. k \in 1..n /\ Len(l) + k = r
        BY <1>1, <3>3
      <4> HIDE DEF k
      <4>2. s[k] = l2[r].mutation
        BY <4>1 DEF s
      <4> QED
        BY <2>3, <3>1, <4>1, <4>2
    <3> QED
      BY <3>2, <3>3
  <2>5. Mutations(l2) = [r \in 1..Len(l2) |-> Mutations(l2)[r]]
    BY DEF Mutations
  <2>6. c = [r \in 1..Len(l2) |-> c[r]]
    BY <2>3, SequenceShape
  <2>7. Mutations(l2) = c
    BY <2>4, <2>5, <2>6
  <2> QED
    BY <2>7 DEF a, c
<1> HIDE DEF s
<1> QED
  BY <1>7, <1>8

(* A commit publishes mutations of the device that sent the request.       *)
LEMMA CommitIsMapped ==
    ASSUME Typed, Pinned, NEW d \in Devices, NEW req, IsRequest(req),
           Sent(req) \subseteq InFlight(request[d]) \cup Straying(stray[d]),
           NEW n, Commit(req, n), UNCHANGED <<outbox, state>>
    PROVE  Abstract!Publish(d)
<1> DEFINE Q == Ids(outbox[d]) \ {log[r].mutation : r \in DOMAIN log}
<1>1. Sent(req) \subseteq Ids(outbox[d]) \cup DOMAIN receipts
  BY DEF Pinned, PinnedAt, SentAreKnown
<1>2. /\ Grows
      /\ DOMAIN receipts' \ DOMAIN receipts \subseteq Sent(req) \cap Ids(outbox[d])
      /\ Len(log') \in Nat /\ DOMAIN log' = 1..Len(log')
      /\ Len(log) \in Nat /\ DOMAIN log = 1..Len(log)
  BY <1>1, CommitRecords, LogIndices DEF Typed
<1>3. \A r \in Len(log) + 1..Len(log') : log'[r].mutation \in Q
  BY <1>2 DEF Grows
<1>4. \A r, s \in Len(log) + 1..Len(log') : log'[r].mutation = log'[s].mutation => r = s
  BY <1>2 DEF Grows
<1>5. PICK l, l2 : l = log /\ l2 = log'
  OBVIOUS
<1> HIDE DEF Q
<1>6. PICK s \in SetToAllKPermutations(Q) : Mutations(l2) = Mutations(l) \o s
  <2>1. Continues(l, l2)
    BY <1>2, <1>5 DEF Grows
  <2> QED
    BY <1>2, <1>3, <1>4, <1>5, <2>1, AppendedOnce
<1>7. Mutations(log)' = Mutations(log) \o s
  BY <1>5, <1>6 DEF Mutations
<1>8. Abstract!SetToAllKPermutations(Q) = SetToAllKPermutations(Q)
  <2>1. \A S : Abstract!Cardinality(S) = Cardinality(S)
    BY DEF Abstract!Cardinality, Cardinality, Abstract!IsFiniteSet, IsFiniteSet
  <2>2. \A S : Abstract!SetToSeqs(S) = SetToSeqs(S)
    BY <2>1 DEF Abstract!SetToSeqs, SetToSeqs
  <2> QED
    BY <2>2 DEF Abstract!SetToAllKPermutations, SetToAllKPermutations
<1>9. Q = Waiting[d] \ Abstract!ToSet(Mutations(log))
  BY DEF Q, Waiting, Abstract!ToSet, Mutations
<1>10. Waiting' = Waiting /\ Seen' = Seen
  BY DEF Waiting, Seen, Ids
<1> QED
  BY <1>6, <1>7, <1>8, <1>9, <1>10 DEF Abstract!Publish, Waiting, Seen, Mutations, Ids

(* An accepted page moves its device forward in the history.               *)
LEMMA ApplyIsMapped ==
    ASSUME Typed, Pinned, NEW d \in Devices, Apply(d)
    PROVE  Abstract!Observe(d)
<1> DEFINE n == response[d].nextCursor
           past == {log[r].mutation : r \in 1..n}
<1>1. /\ n \in state[d].cursor..Len(log) /\ state'[d].cursor = n
      /\ Ids(outbox'[d]) = Ids(outbox[d]) \ past
      /\ OthersKept(d, outbox', outbox) /\ OthersKept(d, state', state)
      /\ UNCHANGED log
  BY AppliedOutbox, ApplyIsTransaction DEF serverVars
<1>2. /\ Len(log) \in Nat /\ DOMAIN log = 1..Len(log) /\ state[d].cursor \in Nat
      /\ n \in Nat
  <2>1. Len(log) \in Nat /\ DOMAIN log = 1..Len(log) /\ state[d].cursor \in Nat
    BY LogIndices DEF Typed, DeviceTyped, StateTyped
  <2> HIDE DEF n
  <2> QED
    BY <1>1, <2>1
<1> HIDE DEF n
<1> DEFINE h == Mutations(log)
<1>3. Sequence(h) /\ Len(h) = Len(log)
  <2>1. h \in [1..Len(log) -> {h[r] : r \in DOMAIN h}]
    BY <1>2 DEF Mutations
  <2> HIDE DEF h
  <2> QED
    BY <1>2, <2>1, FunctionIsSequence
<1>4. \A r \in 1..n : h[r] = log[r].mutation
  BY <1>1, <1>2 DEF Mutations
<1> HIDE DEF h
<1>5. Abstract!ToSet(SubSeq(h, 1, n)) = past
  <2>1. SubSeq(h, 1, n) = [r \in 1..n |-> h[r]]
    BY <1>1, <1>2, <1>3 DEF Sequence
  <2> QED
    BY <1>4, <2>1 DEF Abstract!ToSet
<1> HIDE DEF past
<1>6. Waiting' = [Waiting EXCEPT ![d] = @ \ Abstract!ToSet(SubSeq(h, 1, n))]
  BY <1>1, <1>5 DEF Waiting, OthersKept
<1>7. Seen' = [Seen EXCEPT ![d] = n] /\ n \in Seen[d]..Len(h)
  BY <1>1, <1>3 DEF Seen, OthersKept
<1>8. h' = h
  BY <1>1 DEF h, Mutations
<1> QED
  BY <1>6, <1>7, <1>8 DEF Abstract!Observe, Waiting, Seen, h, Mutations, Ids

Mapped == Abstract!NextHistory \/ UNCHANGED <<Mutations(log), Waiting, Seen>>

(* Steps that touch neither log nor outboxes nor cursors are invisible.    *)
LEMMA RestIsMapped ==
    ASSUME UNCHANGED <<log, outbox, state>>
    PROVE  Mapped
BY DEF Mapped, Mutations, Waiting, Seen, Ids

(* Every step is a step of the shared history or invisible in it.          *)
LEMMA StepIsMapped ==
    ASSUME FreshIds, OneServer, Typed, Pinned, [Next]_vars
    PROVE  Mapped
<1>1. CASE UNCHANGED vars
  BY <1>1, RestIsMapped DEF vars, serverVars, deviceVars
<1>2. ASSUME NEW d \in Devices, UserWrite(d)
      PROVE  Mapped
  <2>1. Edits(d) /\ Seen' = Seen
    BY <1>2, UserWriteEdits DEF Seen
  <2> QED
    BY <2>1, EditIsMapped DEF Mapped, Abstract!NextHistory
<1>3. ASSUME NEW d \in Devices, Prepare(d)
      PROVE  Mapped
  <2>1. Edits(d) /\ OthersKept(d, state', state) /\ state'[d].cursor = state[d].cursor
    BY <1>3, PrepareEdits
  <2>2. Seen' = Seen
    BY <2>1 DEF Seen, OthersKept
  <2> QED
    BY <2>1, <2>2, EditIsMapped DEF Mapped, Abstract!NextHistory
<1>4. ASSUME NEW d \in Devices, Serve(d)
      PROVE  Mapped
  <2>1. /\ request[d] # Nothing /\ IsRequest(request[d])
        /\ UNCHANGED <<outbox, state>>
        /\ (\E n \in 0..PageLimit : Commit(request[d], n)) \/ UNCHANGED log
    BY <1>4 DEF Serve, Typed, WireTyped, deviceVars, serverVars
  <2>2. ASSUME NEW n \in 0..PageLimit, Commit(request[d], n)
        PROVE  Abstract!Publish(d)
    <3>1. PICK req : req = request[d]
      OBVIOUS
    <3>2. /\ IsRequest(req) /\ Commit(req, n)
          /\ Sent(req) \subseteq InFlight(request[d]) \cup Straying(stray[d])
      BY <2>1, <2>2, <3>1 DEF InFlight
    <3> QED
      BY <2>1, <3>2, CommitIsMapped
  <2> QED
    BY <2>1, <2>2, RestIsMapped DEF Mapped, Abstract!NextHistory
<1>5. ASSUME NEW d \in Devices, ServeStray(d)
      PROVE  Mapped
  <2>1. PICK req \in stray[d] :
          /\ (\E n \in 0..PageLimit : Commit(req, n)) \/ UNCHANGED log
          /\ UNCHANGED <<outbox, state>>
    BY <1>5 DEF ServeStray, deviceVars, serverVars
  <2>2. IsRequest(req) /\ Sent(req) \subseteq InFlight(request[d]) \cup Straying(stray[d])
    BY DEF Typed, WireTyped, Straying
  <2>3. ASSUME NEW n \in 0..PageLimit, Commit(req, n)
        PROVE  Abstract!Publish(d)
    BY <2>1, <2>2, <2>3, CommitIsMapped
  <2> QED
    BY <2>1, <2>3, RestIsMapped DEF Mapped, Abstract!NextHistory
<1>6. ASSUME NEW d \in Devices, Apply(d)
      PROVE  Mapped
  BY <1>6, ApplyIsMapped DEF Mapped, Abstract!NextHistory
<1>7. ASSUME NEW d \in Devices, GiveUp(d) \/ Reject(d)
      PROVE  Mapped
  BY <1>7, RestIsMapped DEF GiveUp, Reject, deviceVars, serverVars
<1>8. ASSUME NEW d \in Devices, ConfirmRebind(d) \/ Rebind(d)
      PROVE  FALSE
  BY <1>8, PinnedShape DEF ConfirmRebind, Rebind, NoRebinds, OneServer
<1>9. ASSUME LoseDatabase PROVE FALSE
  BY <1>9, PinnedShape DEF LoseDatabase, OneServer
<1> QED
  BY <1>1, <1>2, <1>3, <1>4, <1>5, <1>6, <1>7, <1>8, <1>9 DEF Next, Exchange

(* Devices that stay with one database of one server share one history:    *)
(* whatever is lost, retried or late, each mutation they queue joins it at *)
(* most once, each follows it without a gap, and a mutation leaves its     *)
(* queue exactly when the device has passed it.                            *)
THEOREM ImplementsSharedHistory == FreshIds /\ OneServer => (Spec => SharesOneHistory)
<1> SUFFICES ASSUME FreshIds, OneServer PROVE Spec => SharesOneHistory
  OBVIOUS
<1>1. Init => Typed /\ Pinned /\ Abstract!InitHistory
  BY InitIsTyped, InitIsPinned, MappedInit
<1>2. Typed /\ Pinned /\ [Next]_vars => Typed' /\ Pinned'
  BY NextKeepsTyped, NextKeepsPinned
<1>3. Typed /\ Pinned /\ [Next]_vars
        => Abstract!NextHistory \/ UNCHANGED Abstract!historyVars
  BY StepIsMapped DEF Mapped, Mutations, Waiting, Seen, Ids, Abstract!historyVars
<1> QED
  BY <1>1, <1>2, <1>3, PTL DEF Spec, SharesOneHistory, Abstract!HistorySpec

-----------------------------------------------------------------------------
(* A device's mutations become history in the order it made them: one that *)
(* is still queued is never overtaken by a later one, in the log...        *)
QueueOrder(box, l) ==
    \A r \in DOMAIN l : \A m, o \in Ids(box) :
        m[2] < o[2] /\ l[r].mutation = o => \E s \in 1..(r - 1) : l[s].mutation = m

(* ... or in a request that may yet reach the server.                      *)
SentOrder(box, recorded, req) ==
    \A q \in DOMAIN req.mutations : \A m, o \in Ids(box) :
        m[2] < o[2] /\ req.mutations[q].id = o =>
            m \in recorded \/ \E j \in 1..(q - 1) : req.mutations[j].id = m

OrderedAt(d) ==
    /\ QueueOrder(outbox[d], log)
    /\ request[d] # Nothing => SentOrder(outbox[d], DOMAIN receipts, request[d])
    /\ \A req \in stray[d] : SentOrder(outbox[d], DOMAIN receipts, req)

Ordered == \A d \in Devices : OrderedAt(d)

(* The order is that of the ids, whichever of them are left.               *)
LEMMA FewerInOrder ==
    ASSUME NEW box, NEW new, Ids(new) \subseteq Ids(box), NEW l, QueueOrder(box, l)
    PROVE  QueueOrder(new, l)
BY DEF QueueOrder

(* So is the order of a request.                                           *)
LEMMA FewerSentInOrder ==
    ASSUME NEW box, NEW new, Ids(new) \subseteq Ids(box), NEW recorded, NEW more,
           recorded \subseteq more, NEW req, SentOrder(box, recorded, req)
    PROVE  SentOrder(new, more, req)
BY DEF SentOrder

(* What is older than a mutation that is not new is not new.               *)
LEMMA OlderIds ==
    ASSUME NEW d, NEW m \in Nat, NEW box, IsOutbox(d, m, box), NEW n, NEW new,
           Extends(d, m, box, n, new), NEW x \in Ids(new), NEW o \in Ids(new),
           x[2] < o[2], \A k \in (m + 1)..n : o # <<d, k>>
    PROVE  x \in Ids(box) /\ o \in Ids(box)
<1>1. Ids(new) = Ids(box) \cup {<<d, k>> : k \in (m + 1)..n} /\ n \in Nat
  <2>1. n \in Nat
    BY DEF Extends
  <2>2. IsOutbox(d, n, new) /\ Ids(new) = Ids(box) \cup {<<d, k>> : k \in (m + 1)..n}
    BY ExtendedOutbox
  <2> QED
    BY <2>1, <2>2
<1>2. o \in Ids(box)
  BY <1>1
<1>3. PICK j \in 1..m : o = <<d, j>>
  BY <1>2 DEF Ids, IsOutbox, IsMutation
<1>4. ASSUME NEW k \in (m + 1)..n, x = <<d, k>> PROVE FALSE
  <2>1. k < j
    BY <1>3, <1>4
  <2> QED
    BY <1>1, <2>1
<1> QED
  BY <1>1, <1>2, <1>4

(* New mutations come last.                                                *)
LEMMA GrownInOrder ==
    ASSUME NEW d, NEW m \in Nat, NEW box, IsOutbox(d, m, box), NEW n, NEW new,
           Extends(d, m, box, n, new), NEW recorded, NEW l,
           \A k \in (m + 1)..n : <<d, k>> \notin recorded,
           \A r \in DOMAIN l : l[r].mutation \in recorded, QueueOrder(box, l)
    PROVE  QueueOrder(new, l)
<1> SUFFICES ASSUME NEW r \in DOMAIN l, NEW x \in Ids(new), NEW o \in Ids(new),
                    x[2] < o[2], l[r].mutation = o
             PROVE  \E s \in 1..(r - 1) : l[s].mutation = x
  BY DEF QueueOrder
<1>1. \A k \in (m + 1)..n : o # <<d, k>>
  OBVIOUS
<1>2. x \in Ids(box) /\ o \in Ids(box)
  <2>1. PICK a : a = o
    OBVIOUS
  <2>2. a \in Ids(new) /\ x[2] < a[2] /\ \A k \in (m + 1)..n : a # <<d, k>>
    BY <1>1, <2>1
  <2> QED
    BY <2>1, <2>2, OlderIds
<1> QED
  BY <1>2 DEF QueueOrder

(* In the order of a request, too.                                         *)
LEMMA GrownSentInOrder ==
    ASSUME NEW d, NEW m \in Nat, NEW box, IsOutbox(d, m, box), NEW n, NEW new,
           Extends(d, m, box, n, new), NEW recorded, NEW req,
           \A k \in (m + 1)..n : <<d, k>> \notin recorded,
           Sent(req) \subseteq Ids(box) \cup recorded, SentOrder(box, recorded, req)
    PROVE  SentOrder(new, recorded, req)
<1> SUFFICES ASSUME NEW q \in DOMAIN req.mutations, NEW x \in Ids(new), NEW o \in Ids(new),
                    x[2] < o[2], req.mutations[q].id = o
             PROVE  x \in recorded \/ \E j \in 1..(q - 1) : req.mutations[j].id = x
  BY DEF SentOrder
<1>1. \A k \in (m + 1)..n : o # <<d, k>>
  <2> SUFFICES ASSUME NEW k \in (m + 1)..n, o = <<d, k>> PROVE FALSE
    OBVIOUS
  <2>1. o \in Ids(box)
    BY DEF Sent
  <2>2. PICK j \in 1..m : o = <<d, j>>
    BY <2>1 DEF Ids, IsOutbox, IsMutation
  <2> QED
    BY <2>2
<1>2. x \in Ids(box) /\ o \in Ids(box)
  BY <1>1, OlderIds
<1> QED
  BY <1>2 DEF SentOrder

(* What is older than a mutation that fits a request fits it, too.         *)
LEMMA OlderFits ==
    ASSUME NEW d, NEW m, NEW box, IsOutbox(d, m, box), NEW n \in Fitting(box),
           NEW p \in Unacked(box), p < n
    PROVE  p \in Fitting(box)
<1>1. Len(box) \in Nat /\ DOMAIN box = 1..Len(box)
  BY SequenceShape DEF IsOutbox
<1>2. n \in Unacked(box) /\ Unacked(box) \subseteq DOMAIN box
  BY DEF Fitting, Unacked
<1>3. UpTo(box, p) \subseteq UpTo(box, n) /\ p \in UpTo(box, n) /\ p # n
  BY <1>1, <1>2 DEF UpTo
<1>4. ChangesUpTo(box, p) \subseteq ChangesUpTo(box, n)
  BY <1>3 DEF ChangesUpTo
<1>5. IsFiniteSet(UpTo(box, n))
  <2>1. UpTo(box, n) \in SUBSET (1..Len(box)) /\ IsFiniteSet(1..Len(box))
    BY <1>1, FS_Interval DEF UpTo, Unacked
  <2> QED
    BY <2>1, FS_Subset
<1>6. IsFiniteSet(ChangesUpTo(box, n))
  <2>1. IsFiniteSet(UpTo(box, n) \X Keys)
    BY <1>5, LocalAssumption, FS_Product DEF LocalAssumption
  <2>2. ChangesUpTo(box, n) \in SUBSET (UpTo(box, n) \X Keys)
    <3>1. \A q \in UpTo(box, n) : DOMAIN box[q].changes \subseteq Keys /\ q \in UpTo(box, n)
      BY DEF UpTo, Unacked, IsOutbox, IsMutation, Uploadable, IsCollection
    <3>2. \A q \in UpTo(box, n) :
             {q} \X DOMAIN box[q].changes \subseteq UpTo(box, n) \X Keys
      BY <3>1
    <3> QED
      BY <3>2 DEF ChangesUpTo
  <2> QED
    BY <2>1, <2>2, FS_Subset
<1>7. /\ Cardinality(UpTo(box, p)) <= Cardinality(UpTo(box, n))
      /\ Cardinality(ChangesUpTo(box, p)) <= Cardinality(ChangesUpTo(box, n))
      /\ Cardinality(UpTo(box, n)) \in Nat /\ Cardinality(ChangesUpTo(box, n)) \in Nat
      /\ Cardinality(UpTo(box, p)) \in Nat /\ Cardinality(ChangesUpTo(box, p)) \in Nat
  <2>1. IsFiniteSet(UpTo(box, p)) /\ IsFiniteSet(ChangesUpTo(box, p))
    BY <1>3, <1>4, <1>5, <1>6, FS_Subset
  <2> QED
    BY <1>3, <1>4, <1>5, <1>6, <2>1, FS_Subset, FS_CardinalityType
<1>8. /\ Cardinality(UpTo(box, n)) <= BatchLimit
      /\ Cardinality(ChangesUpTo(box, n)) <= MaxUpload
  <2>1. UpTo(box, n) # {n}
    BY <1>3
  <2> QED
    BY <2>1 DEF Fitting
<1>9. BatchLimit \in Nat /\ MaxUpload \in Nat
  BY ProtocolAssumption DEF ProtocolAssumption
<1> QED
  BY <1>7, <1>8, <1>9 DEF Fitting

(* A batch holds its mutations in their order, after all older ones the    *)
(* server has not acknowledged.                                            *)
LEMMA BatchInOrder ==
    ASSUME NEW d, NEW m, NEW box, IsOutbox(d, m, box), NEW recorded,
           \A n \in DOMAIN box : box[n].ack # 0 => box[n].id \in recorded,
           NEW req, req.mutations = Batch(box)
    PROVE  SentOrder(box, recorded, req)
<1> DEFINE rows == RowsAt(box, Fitting(box))
<1>0. Len(box) \in Nat /\ DOMAIN box = 1..Len(box)
  BY SequenceShape DEF IsOutbox
<1>1. Fitting(box) \in SUBSET DOMAIN box /\ Sequence(box)
  BY DEF Fitting, Unacked, IsOutbox
<1>2. PICK f : /\ Sequence(rows) /\ DOMAIN f = DOMAIN rows
               /\ \A k \in DOMAIN rows : f[k] \in Fitting(box) /\ rows[k] = box[f[k]]
               /\ \A j, k \in DOMAIN rows : j < k => f[j] < f[k]
               /\ \A p \in Fitting(box) : \E k \in DOMAIN rows : f[k] = p
  <2> HIDE DEF rows
  <2>1. PICK S : S = Fitting(box)
    OBVIOUS
  <2>2. rows = RowsAt(box, S) /\ S \in SUBSET DOMAIN box
    BY <1>1, <2>1 DEF rows
  <2> QED
    BY <1>1, <2>1, <2>2, RowsInOrder
<1>3. /\ DOMAIN req.mutations = DOMAIN rows
      /\ \A k \in DOMAIN rows : req.mutations[k].id = rows[k].id
  BY DEF Batch
<1> HIDE DEF rows
<1>4. DOMAIN rows = 1..Len(rows) /\ Len(rows) \in Nat
  BY <1>2, SequenceShape
<1> SUFFICES ASSUME NEW q \in DOMAIN req.mutations, NEW x \in Ids(box), NEW o \in Ids(box),
                    x[2] < o[2], req.mutations[q].id = o, x \notin recorded
             PROVE  \E j \in 1..(q - 1) : req.mutations[j].id = x
  BY DEF SentOrder
<1>5. PICK p \in DOMAIN box : box[p].id = x
  BY DEF Ids
<1>6. PICK i \in Fitting(box) : i = f[q] /\ i \in DOMAIN box /\ box[i].id = o
  BY <1>1, <1>2, <1>3
<1>7. p < i
  <2>1. \A t \in DOMAIN box : box[t].id[2] \in Nat
    <3> SUFFICES ASSUME NEW t \in DOMAIN box PROVE box[t].id[2] \in Nat
      OBVIOUS
    <3>1. PICK k \in 1..m : box[t].id = <<d, k>>
      BY DEF IsOutbox, IsMutation
    <3> QED
      BY <3>1
  <2>2. ~(i < p) /\ i # p
    <3>1. i < p => box[i].id[2] < box[p].id[2]
      BY <1>5, <1>6 DEF IsOutbox
    <3>2. box[i].id[2] \in Nat /\ box[p].id[2] \in Nat /\ box[p].id[2] < box[i].id[2]
      BY <1>5, <1>6, <2>1
    <3> QED
      BY <3>1, <3>2
  <2> QED
    BY <1>0, <1>5, <1>6, <2>2
<1>8. p \in Fitting(box)
  <2>1. p \in Unacked(box)
    BY <1>5 DEF Unacked
  <2> QED
    BY <1>6, <1>7, <2>1, OlderFits
<1>9. PICK j \in DOMAIN rows : f[j] = p
  BY <1>2, <1>8
<1>10. q \in DOMAIN rows /\ j # q /\ ~(q < j)
  <2>1. q \in DOMAIN rows
    BY <1>3
  <2>2. ~(i < p) /\ i # p
    BY <1>0, <1>5, <1>6, <1>7
  <2> QED
    BY <1>2, <1>6, <1>9, <2>1, <2>2
<1>11. j \in 1..(q - 1) /\ req.mutations[j].id = x
  BY <1>2, <1>3, <1>4, <1>5, <1>9, <1>10
<1> QED
  BY <1>11

(* What is not its device's alone keeps the order of every device.         *)
LEMMA OrderedStep ==
    ASSUME Ordered, NEW d \in Devices, OthersKept(d, outbox', outbox),
           OthersKept(d, request', request), OthersKept(d, stray', stray),
           UNCHANGED <<log, receipts>>, OrderedAt(d)'
    PROVE  Ordered'
<1> SUFFICES ASSUME NEW e \in Devices, e # d PROVE OrderedAt(e)'
  BY DEF Ordered
<1>1. /\ outbox'[e] = outbox[e] /\ request'[e] = request[e] /\ stray'[e] = stray[e]
      /\ OrderedAt(e)
  BY DEF OthersKept, Ordered
<1>2. PICK box, req, strays, l, recorded :
        /\ box = outbox[e] /\ req = request[e] /\ strays = stray[e] /\ l = log
        /\ recorded = DOMAIN receipts
  OBVIOUS
<1>3. /\ QueueOrder(box, l) /\ (req # Nothing => SentOrder(box, recorded, req))
      /\ \A q \in strays : SentOrder(box, recorded, q)
  BY <1>1, <1>2 DEF OrderedAt
<1>4. /\ outbox'[e] = box /\ request'[e] = req /\ stray'[e] = strays /\ log' = l
      /\ DOMAIN receipts' = recorded
  BY <1>1, <1>2
<1> QED
  BY <1>3, <1>4 DEF OrderedAt

(* New mutations come after those the server holds or may yet receive.     *)
LEMMA EditsInOrder ==
    ASSUME Typed, Pinned, Ordered, NEW d \in Devices, Edits(d)
    PROVE  /\ QueueOrder(outbox'[d], log)
           /\ request[d] # Nothing => SentOrder(outbox'[d], DOMAIN receipts, request[d])
           /\ \A req \in stray[d] : SentOrder(outbox'[d], DOMAIN receipts, req)
<1>1. /\ PinnedAt(d) /\ minted[d] \in Nat /\ IsOutbox(d, minted[d], outbox[d])
      /\ Extends(d, minted[d], outbox[d], minted'[d], outbox'[d])
      /\ OrderedAt(d) /\ \A r \in DOMAIN log : log[r].mutation \in DOMAIN receipts
  BY DEF Typed, DeviceTyped, Pinned, Edits, Ordered
<1>2. \A k \in (minted[d] + 1)..minted'[d] : <<d, k>> \notin DOMAIN receipts
  <2> SUFFICES ASSUME NEW k \in (minted[d] + 1)..minted'[d], <<d, k>> \in DOMAIN receipts
               PROVE  FALSE
    OBVIOUS
  <2>0. PICK e \in Devices : \E j \in 1..minted[e] : <<d, k>> = <<e, j>>
    BY DEF Pinned, Generated
  <2>1. PICK j \in 1..minted[e] : <<d, k>> = <<e, j>>
    BY <2>0
  <2>2. e = d /\ j = k
    BY <2>1
  <2> QED
    BY <1>1, <2>1, <2>2 DEF Extends
<1>3. PICK m, n, box, new, l, recorded, req, strays :
        /\ m = minted[d] /\ n = minted'[d] /\ box = outbox[d] /\ new = outbox'[d]
        /\ l = log /\ recorded = DOMAIN receipts /\ req = request[d] /\ strays = stray[d]
  OBVIOUS
<1>4. /\ m \in Nat /\ IsOutbox(d, m, box) /\ Extends(d, m, box, n, new)
      /\ \A k \in (m + 1)..n : <<d, k>> \notin recorded
  BY <1>1, <1>2, <1>3
<1>5. /\ \A r \in DOMAIN l : l[r].mutation \in recorded
      /\ QueueOrder(box, l) /\ (req # Nothing => SentOrder(box, recorded, req))
      /\ \A q \in strays : SentOrder(box, recorded, q)
  BY <1>1, <1>3 DEF OrderedAt
<1>6. /\ req # Nothing => Sent(req) \subseteq Ids(box) \cup recorded
      /\ \A q \in strays : Sent(q) \subseteq Ids(box) \cup recorded
  BY <1>1, <1>3 DEF PinnedAt, SentAreKnown, InFlight, Straying
<1>7. QueueOrder(new, l)
  BY <1>4, <1>5, GrownInOrder
<1>8. ASSUME NEW q, Sent(q) \subseteq Ids(box) \cup recorded, SentOrder(box, recorded, q)
      PROVE  SentOrder(new, recorded, q)
  BY <1>4, <1>8, GrownSentInOrder
<1>9. /\ req # Nothing => SentOrder(new, recorded, req)
      /\ \A q \in strays : SentOrder(new, recorded, q)
  BY <1>5, <1>6, <1>8
<1> QED
  BY <1>3, <1>7, <1>9

(* A user's write keeps the order.                                         *)
LEMMA UserWriteKeepsOrdered ==
    ASSUME Typed, Pinned, Ordered, NEW d \in Devices, UserWrite(d)
    PROVE  Ordered'
<1>1. Edits(d) /\ UNCHANGED <<state, request>>
  BY UserWriteEdits
<1>2. /\ OthersKept(d, outbox', outbox) /\ UNCHANGED <<log, receipts, request, stray>>
  BY <1>1 DEF Edits, serverVars
<1>3. OthersKept(d, request', request) /\ OthersKept(d, stray', stray)
  BY <1>2, KeptAtDevice DEF Typed, Domains
<1>4. OrderedAt(d)'
  BY <1>1, <1>2, EditsInOrder DEF OrderedAt
<1> QED
  BY <1>2, <1>3, <1>4, OrderedStep

(* So does the batch an exchange is prepared with.                         *)
LEMMA PrepareKeepsOrdered ==
    ASSUME Typed, Pinned, Ordered, NEW d \in Devices, Prepare(d)
    PROVE  Ordered'
<1> DEFINE s == state[d]
<1>1. /\ Edits(d) /\ request[d] = Nothing /\ OthersKept(d, request', request)
      /\ request'[d] = [id |-> d, serverId |-> s.serverId, cursor |-> s.cursor,
                        mutations |-> IF s.baseline THEN Batch(outbox'[d]) ELSE << >>]
  BY PrepareEdits
<1> HIDE DEF s
<1>2. /\ OthersKept(d, outbox', outbox) /\ UNCHANGED <<log, receipts, stray>>
  <2>1. UNCHANGED stray
    BY DEF Prepare
  <2> QED
    BY <1>1, <2>1 DEF Edits, serverVars
<1>3. OthersKept(d, stray', stray)
  BY <1>2, KeptAtDevice DEF Typed, Domains
<1>4. PICK m, box, req, recorded :
        m = minted'[d] /\ box = outbox'[d] /\ req = request'[d] /\ recorded = DOMAIN receipts
  OBVIOUS
<1>5. IsOutbox(d, m, box)
  <2>1. minted[d] \in Nat /\ IsOutbox(d, minted[d], outbox[d])
    BY DEF Typed, DeviceTyped
  <2> QED
    BY <1>1, <1>4, <2>1, ExtendedOutbox DEF Edits
<1>6. \A n \in DOMAIN box : box[n].ack # 0 => box[n].id \in recorded
  <2>1. AcksAreHistory(outbox'[d], log)
    BY <1>1, EditsArePinned
  <2>2. \A r \in DOMAIN log : log[r].mutation \in DOMAIN receipts
    BY DEF Pinned
  <2> QED
    BY <1>4, <2>1, <2>2 DEF AcksAreHistory
<1>7. SentOrder(box, recorded, req)
  <2>1. CASE s.baseline
    <3>1. req.mutations = Batch(box)
      BY <1>1, <1>4, <2>1
    <3> QED
      BY <1>5, <1>6, <3>1, BatchInOrder
  <2>2. CASE ~s.baseline
    <3>1. req.mutations = << >>
      BY <1>1, <1>4, <2>2
    <3> QED
      BY <3>1, NoneIsSequence DEF SentOrder
  <2> QED
    BY <2>1, <2>2
<1>8. OrderedAt(d)'
  BY <1>1, <1>2, <1>4, <1>7, EditsInOrder DEF OrderedAt
<1> QED
  BY <1>1, <1>2, <1>3, <1>8, OrderedStep

(* A commit records the new mutations of a request in the request's order. *)
LEMMA CommitInOrder ==
    ASSUME Typed, NEW req, IsRequest(req), NEW n, Commit(req, n), NEW box,
           QueueOrder(box, log), SentOrder(box, DOMAIN receipts, req)
    PROVE  QueueOrder(box, log')
<1>1. /\ HistoryTyped /\ ReceiptsMatchLog /\ Len(log) \in Nat /\ DOMAIN log = 1..Len(log)
  BY LogIndices DEF Typed, HistorySound
<1> DEFINE F == FreshPositions(req)
           C == Cardinality(F)
<1>2. /\ Grows
      /\ \E order \in Enumerations(F) : Appends(req, order)
  BY <1>1, CommitGrows
<1>3. PICK order \in Enumerations(F) : Appends(req, order)
  BY <1>2
<1>4. /\ DOMAIN order = 1..C
      /\ \A k \in DOMAIN order : order[k] \in F
      /\ \A j, k \in DOMAIN order : j < k => order[j] < order[k]
      /\ \A p \in F : \E k \in DOMAIN order : order[k] = p
  BY DEF Enumerations
<1>5. /\ Len(log') = Len(log) + C
      /\ \A k \in 1..C : log'[Len(log) + k].mutation = req.mutations[order[k]].id
  BY <1>3 DEF Appends
<1>6. /\ F \subseteq DOMAIN req.mutations
      /\ \A p \in DOMAIN req.mutations \ F : req.mutations[p].id \in DOMAIN receipts
      /\ DOMAIN req.mutations = 1..Len(req.mutations) /\ Len(req.mutations) \in Nat
  BY DEF FreshPositions, IsRequest
<1>7. C \in Nat
  <2>1. IsFiniteSet(1..Len(req.mutations)) /\ F \in SUBSET (1..Len(req.mutations))
    BY <1>6, FS_Interval
  <2> HIDE DEF F
  <2>2. IsFiniteSet(F)
    BY <2>1, FS_Subset
  <2> QED
    BY <2>2, FS_CardinalityType
<1> HIDE DEF F, C
<1>8. /\ \A r \in 1..Len(log) : log'[r] = log[r]
      /\ DOMAIN log' = 1..Len(log')
  <2>1. log' \in Seq(Groups(log'))
    BY <1>2 DEF Grows
  <2> QED
    BY <1>2, <2>1, LenProperties DEF Grows, Continues
<1> SUFFICES ASSUME NEW r \in DOMAIN log', NEW x \in Ids(box), NEW o \in Ids(box),
                    x[2] < o[2], log'[r].mutation = o
             PROVE  \E s \in 1..(r - 1) : log'[s].mutation = x
  BY DEF QueueOrder
<1>9. CASE r \in DOMAIN log
  <2>1. PICK s \in 1..(r - 1) : log[s].mutation = x
    BY <1>1, <1>8, <1>9 DEF QueueOrder
  <2>2. s \in 1..Len(log)
    BY <1>1, <1>9
  <2> QED
    BY <1>8, <2>1, <2>2
<1>10. CASE r \notin DOMAIN log
  <2>1. PICK k \in 1..C : r = Len(log) + k
    <3>1. r - Len(log) \in 1..C /\ r = Len(log) + (r - Len(log))
      BY <1>1, <1>5, <1>7, <1>8, <1>10
    <3> QED
      BY <3>1
  <2>2. PICK q \in F : q = order[k] /\ req.mutations[q].id = o
    BY <1>4, <1>5, <2>1
  <2>3. CASE x \in DOMAIN receipts
    <3>1. PICK s \in DOMAIN log : log[s].mutation = x
      BY <1>1, <2>3 DEF ReceiptsMatchLog
    <3>2. s \in 1..Len(log) /\ s \in 1..(r - 1)
      BY <1>1, <1>7, <2>1
    <3> QED
      BY <1>8, <3>1, <3>2
  <2>4. CASE x \notin DOMAIN receipts
    <3>1. PICK j \in 1..(q - 1) : req.mutations[j].id = x
      BY <1>6, <2>2, <2>4 DEF SentOrder
    <3>2. j \in F /\ j < q
      BY <1>6, <2>2, <2>4, <3>1
    <3>3. PICK i \in 1..C : order[i] = j
      BY <1>4, <3>2
    <3>4. i < k
      <4>1. ~(k < i) /\ i # k
        BY <1>4, <1>6, <2>2, <3>2, <3>3
      <4> QED
        BY <1>7, <4>1
    <3>5. log'[Len(log) + i].mutation = x /\ Len(log) + i \in 1..(r - 1)
      BY <1>1, <1>5, <1>7, <2>1, <3>1, <3>3, <3>4
    <3> QED
      BY <3>5
  <2> QED
    BY <2>3, <2>4
<1> QED
  BY <1>9, <1>10

(* A request of one device carries nothing another device still waits for. *)
LEMMA SentElsewhere ==
    ASSUME Typed, Pinned, Ordered, NEW d \in Devices, NEW req,
           Sent(req) \subseteq Ids(outbox[d]) \cup DOMAIN receipts,
           SentOrder(outbox[d], DOMAIN receipts, req), NEW e \in Devices
    PROVE  SentOrder(outbox[e], DOMAIN receipts, req)
<1> SUFFICES ASSUME NEW q \in DOMAIN req.mutations, NEW x \in Ids(outbox[e]),
                    NEW o \in Ids(outbox[e]), x[2] < o[2], req.mutations[q].id = o
             PROVE  x \in DOMAIN receipts \/ \E j \in 1..(q - 1) : req.mutations[j].id = x
  BY DEF SentOrder
<1>1. /\ ReceiptsMatchLog /\ Len(log) \in Nat /\ DOMAIN log = 1..Len(log)
      /\ \A r \in DOMAIN log : log[r].mutation \in DOMAIN receipts
      /\ QueueOrder(outbox[e], log)
  BY LogIndices DEF Typed, HistorySound, Pinned, Ordered, OrderedAt
<1>2. CASE o \in Ids(outbox[d])
  <2>1. d = e
    BY <1>2, OneHome
  <2> QED
    BY <2>1 DEF SentOrder
<1>3. CASE o \in DOMAIN receipts
  <2>1. PICK r \in DOMAIN log : log[r].mutation = o
    BY <1>1, <1>3 DEF ReceiptsMatchLog
  <2>2. PICK s \in 1..(r - 1) : log[s].mutation = x
    BY <1>1, <2>1 DEF QueueOrder
  <2>3. s \in DOMAIN log
    BY <1>1, <2>1
  <2> QED
    BY <1>1, <2>2, <2>3
<1> QED
  BY <1>2, <1>3 DEF Sent

(* A commit keeps the order of every device.                               *)
LEMMA CommitKeepsOrdered ==
    ASSUME Typed, Pinned, Ordered, NEW d \in Devices, NEW req, IsRequest(req),
           Sent(req) \subseteq InFlight(request[d]) \cup Straying(stray[d]),
           SentOrder(outbox[d], DOMAIN receipts, req),
           NEW n, Commit(req, n), UNCHANGED <<outbox, request>>,
           \A e \in Devices : stray'[e] \subseteq stray[e]
    PROVE  Ordered'
<1>1. Sent(req) \subseteq Ids(outbox[d]) \cup DOMAIN receipts
  BY DEF Pinned, PinnedAt, SentAreKnown
<1>2. DOMAIN receipts \subseteq DOMAIN receipts'
  BY <1>1, CommitRecords DEF Grows
<1> SUFFICES ASSUME NEW e \in Devices PROVE OrderedAt(e)'
  BY DEF Ordered
<1>3. OrderedAt(e)
  BY DEF Ordered
<1>4. QueueOrder(outbox[e], log')
  <2>1. PICK box : box = outbox[e]
    OBVIOUS
  <2>2. QueueOrder(box, log) /\ SentOrder(box, DOMAIN receipts, req)
    BY <1>1, <1>3, <2>1, SentElsewhere DEF OrderedAt
  <2>3. QueueOrder(box, log')
    BY <2>2, CommitInOrder
  <2> QED
    BY <2>1, <2>3
<1>5. PICK recorded, more : recorded = DOMAIN receipts /\ more = DOMAIN receipts'
  OBVIOUS
<1>6. \A q : SentOrder(outbox[e], recorded, q) => SentOrder(outbox[e], more, q)
  BY <1>2, <1>5, FewerSentInOrder
<1>7. /\ request[e] # Nothing => SentOrder(outbox[e], more, request[e])
      /\ \A q \in stray'[e] : SentOrder(outbox[e], more, q)
  BY <1>3, <1>5, <1>6 DEF OrderedAt
<1> QED
  BY <1>4, <1>5, <1>7 DEF OrderedAt

(* A step that only takes away from what is on its way, or from an outbox, *)
(* keeps the order.                                                        *)
LEMMA LessInOrder ==
    ASSUME Typed, Ordered, NEW d \in Devices, UNCHANGED <<log, receipts>>,
           OthersKept(d, outbox', outbox), Ids(outbox'[d]) \subseteq Ids(outbox[d]),
           OthersKept(d, request', request), OthersKept(d, stray', stray),
           request'[d] = request[d] \/ request'[d] = Nothing,
           stray'[d] \subseteq stray[d]
             \cup (IF request[d] = Nothing THEN {} ELSE {request[d]})
    PROVE  Ordered'
<1>1. OrderedAt(d)
  BY DEF Ordered
<1>2. PICK box, new, req, strays, more, l, recorded :
        /\ box = outbox[d] /\ new = outbox'[d] /\ req = request[d] /\ strays = stray[d]
        /\ more = stray'[d] /\ l = log /\ recorded = DOMAIN receipts
  OBVIOUS
<1>3. /\ QueueOrder(box, l) /\ (req # Nothing => SentOrder(box, recorded, req))
      /\ \A q \in strays : SentOrder(box, recorded, q)
      /\ Ids(new) \subseteq Ids(box)
  BY <1>1, <1>2 DEF OrderedAt
<1>4. QueueOrder(new, l)
  BY <1>3, FewerInOrder
<1>5. \A q : SentOrder(box, recorded, q) => SentOrder(new, recorded, q)
  BY <1>3, FewerSentInOrder
<1>6. /\ req # Nothing => SentOrder(new, recorded, req)
      /\ \A q \in more : SentOrder(new, recorded, q)
  BY <1>2, <1>3, <1>5
<1>7. OrderedAt(d)'
  BY <1>2, <1>4, <1>6 DEF OrderedAt
<1> QED
  BY <1>7, OrderedStep

(* Serving a request keeps the order.                                      *)
LEMMA ServeKeepsOrdered ==
    ASSUME Typed, Pinned, Ordered, NEW d \in Devices, Serve(d)
    PROVE  Ordered'
<1>1. /\ request[d] # Nothing /\ IsRequest(request[d])
      /\ UNCHANGED <<outbox, request, stray>>
      /\ (\E n \in 0..PageLimit : Commit(request[d], n)) \/ UNCHANGED <<log, receipts>>
      /\ SentOrder(outbox[d], DOMAIN receipts, request[d])
  BY DEF Serve, Typed, WireTyped, deviceVars, serverVars, Ordered, OrderedAt
<1>2. ASSUME NEW n \in 0..PageLimit, Commit(request[d], n) PROVE Ordered'
  <2>1. PICK req : req = request[d]
    OBVIOUS
  <2>2. /\ IsRequest(req) /\ Commit(req, n) /\ SentOrder(outbox[d], DOMAIN receipts, req)
        /\ Sent(req) \subseteq InFlight(request[d]) \cup Straying(stray[d])
    BY <1>1, <1>2, <2>1 DEF InFlight
  <2> QED
    BY <1>1, <2>2, CommitKeepsOrdered
<1>3. ASSUME UNCHANGED <<log, receipts>> PROVE Ordered'
  BY <1>1, <1>3 DEF Ordered, OrderedAt
<1> QED
  BY <1>1, <1>2, <1>3

(* So does serving a request that comes late.                              *)
LEMMA ServeStrayKeepsOrdered ==
    ASSUME Typed, Pinned, Ordered, NEW d \in Devices, ServeStray(d)
    PROVE  Ordered'
<1>1. PICK req \in stray[d] :
        /\ (\E n \in 0..PageLimit : Commit(req, n)) \/ UNCHANGED <<log, receipts>>
        /\ stray' = [stray EXCEPT ![d] = @ \ {req}]
        /\ UNCHANGED <<outbox, request>>
  BY DEF ServeStray, deviceVars, serverVars
<1>2. /\ IsRequest(req) /\ Sent(req) \subseteq InFlight(request[d]) \cup Straying(stray[d])
      /\ SentOrder(outbox[d], DOMAIN receipts, req) /\ Domains
  BY DEF Typed, WireTyped, Straying, Ordered, OrderedAt
<1>3. \A e \in Devices : stray'[e] \subseteq stray[e]
  BY <1>1, <1>2 DEF Domains, ByDevice
<1>4. ASSUME NEW n \in 0..PageLimit, Commit(req, n) PROVE Ordered'
  BY <1>1, <1>2, <1>3, <1>4, CommitKeepsOrdered
<1>5. ASSUME UNCHANGED <<log, receipts>> PROVE Ordered'
  BY <1>1, <1>3, <1>5 DEF Ordered, OrderedAt
<1> QED
  BY <1>1, <1>4, <1>5

(* Giving an exchange up, or rejecting its answer, keeps the order.        *)
LEMMA EndedKeepsOrdered ==
    ASSUME Typed, Ordered, NEW d \in Devices, GiveUp(d) \/ Reject(d)
    PROVE  Ordered'
<1>1. Domains
  BY DEF Typed
<1>2. /\ UNCHANGED <<log, receipts, outbox>>
      /\ request' = [request EXCEPT ![d] = Nothing]
      /\ UNCHANGED stray
         \/ /\ request[d] # Nothing
            /\ stray' = [stray EXCEPT ![d] =
                 @ \cup (IF response[d] = Nothing THEN {request[d]} ELSE {})]
  BY DEF GiveUp, Idle, Reject, deviceVars, serverVars
<1>3. /\ OthersKept(d, request', request) /\ request'[d] = Nothing
      /\ OthersKept(d, stray', stray)
      /\ stray'[d] \subseteq stray[d]
           \cup (IF request[d] = Nothing THEN {} ELSE {request[d]})
  BY <1>1, <1>2, KeptAtDevice DEF Domains, OthersKept, ByDevice
<1>4. OthersKept(d, outbox', outbox) /\ Ids(outbox'[d]) \subseteq Ids(outbox[d])
  BY <1>1, <1>2, KeptAtDevice DEF Domains
<1> QED
  BY <1>2, <1>3, <1>4, LessInOrder

(* Applying a page only takes mutations away.                              *)
LEMMA ApplyKeepsOrdered ==
    ASSUME Typed, Pinned, Ordered, NEW d \in Devices, Apply(d)
    PROVE  Ordered'
<1>1. /\ OthersKept(d, outbox', outbox) /\ OthersKept(d, request', request)
      /\ request'[d] = Nothing /\ UNCHANGED <<log, receipts, stray>>
  BY ApplyIsTransaction DEF serverVars
<1>2. Ids(outbox'[d]) \subseteq Ids(outbox[d])
  BY AppliedOutbox
<1>3. OthersKept(d, stray', stray)
  BY <1>1, KeptAtDevice DEF Typed, Domains
<1> QED
  BY <1>1, <1>2, <1>3, LessInOrder

(* The order holds at first.                                               *)
LEMMA InitIsOrdered ==
    ASSUME Init
    PROVE  Ordered
<1>1. /\ DOMAIN log = {}
      /\ \A d \in Devices : request[d] = Nothing /\ stray[d] = {}
  BY NoneIsSequence DEF Init, EmptyDatabase
<1> QED
  BY <1>1 DEF Ordered, OrderedAt, QueueOrder

(* Every step of devices that stay with their server keeps the order.      *)
LEMMA NextKeepsOrdered ==
    ASSUME FreshIds, OneServer, Typed, Pinned, Ordered, [Next]_vars
    PROVE  Ordered'
<1>1. CASE UNCHANGED vars
  <2>1. UNCHANGED <<log, receipts, outbox, request, stray>>
    BY <1>1 DEF vars, serverVars, deviceVars, wireVars
  <2> QED
    BY <2>1 DEF Ordered, OrderedAt
<1>2. ASSUME NEW d \in Devices, ConfirmRebind(d) \/ Rebind(d)
      PROVE  FALSE
  BY <1>2, PinnedShape DEF ConfirmRebind, Rebind, NoRebinds, OneServer
<1>3. ASSUME LoseDatabase PROVE FALSE
  BY <1>3, PinnedShape DEF LoseDatabase, OneServer
<1>4. ASSUME NEW d \in Devices, Exchange(d) PROVE Ordered'
  BY <1>4, PrepareKeepsOrdered, ServeKeepsOrdered, ApplyKeepsOrdered, EndedKeepsOrdered
     DEF Exchange
<1> QED
  BY <1>1, <1>2, <1>3, <1>4, UserWriteKeepsOrdered, ServeStrayKeepsOrdered,
     EndedKeepsOrdered DEF Next

-----------------------------------------------------------------------------
(* A row with a queued mutation newer than every group of a page is left   *)
(* as it is by all of them.                                                *)
LEMMA ProtectedIsKept ==
    ASSUME NEW base, NEW box, NEW page, page.cursor \in Nat, NEW m \in Nat,
           DOMAIN page.groups = 1..m,
           NEW n \in DOMAIN box, box[n].ack \in Nat,
           box[n].ack = 0 \/ box[n].ack > page.cursor + m,
           NEW k \in DOMAIN box[n].changes, k \in DOMAIN base.rows
    PROVE  LET rows == AppliedUpTo(base, box, page, m).rows
           IN k \in DOMAIN rows /\ rows[k] = base.rows[k]
<1> DEFINE Kept(rows) == k \in DOMAIN rows /\ rows[k] = base.rows[k]
           S == {i \in Nat : i <= m => Kept(AppliedUpTo(base, box, page, i).rows)}
<1>1. 0 \in S
  BY AppliedNone
<1>2. ASSUME NEW i \in Nat, i \in S PROVE i + 1 \in S
  <2> SUFFICES ASSUME i + 1 <= m PROVE Kept(AppliedUpTo(base, box, page, i + 1).rows)
    OBVIOUS
  <2> DEFINE acc == AppliedUpTo(base, box, page, i)
             g == Pages(box, page)[i + 1]
             changes == g.group.changes
             keys == AppliedKeys(g.box, acc.versions, g.group, g.revision)
  <2>1. Kept(acc.rows)
    BY <1>2
  <2>2. g.box = box /\ g.revision = page.cursor + (i + 1)
    BY DEF Pages
  <2>3. k \notin keys
    <3>1. ProtectsLocal(box, k, page.cursor + (i + 1))
      BY DEF ProtectsLocal
    <3> QED
      BY <2>2, <3>1 DEF AppliedKeys
  <2> HIDE DEF acc, g
  <2>4. ApplyGroup(acc, g).rows = ApplyRows(acc.rows, changes, keys)
    BY DEF ApplyGroup
  <2> HIDE DEF changes, keys
  <2>5. Kept(ApplyRows(acc.rows, changes, keys))
    BY <2>1, <2>3 DEF ApplyRows, Overlay
  <2>6. Kept(ApplyGroup(acc, g).rows)
    BY <2>4, <2>5
  <2> HIDE DEF Kept
  <2> QED
    BY <2>6, AppliedNext DEF acc, g
<1>3. m \in S
  <2> HIDE DEF S
  <2> QED
    BY <1>1, <1>2, Replaying!NatSetInduction
<1> QED
  BY <1>3

(* Recomputed flags leave the user fields of an entry, and every other     *)
(* row.                                                                    *)
LEMMA FlagsSayTheSame ==
    ASSUME NEW c, IsCollection(c), NEW S, S \subseteq Issues, NEW k \in DOMAIN c
    PROVE  LET after == RecomputeFlags(c, S)
           IN k \in DOMAIN after /\ Alike(k, c[k], after[k])
<1> DEFINE flags == [i \in S |-> WithDerivedFlags(EntryOf(c, i), c, i)]
           after == Overlay(c, flags)
<1>1. RecomputeFlags(c, S) = after
  BY DEF RecomputeFlags
<1>2. k \in DOMAIN after
  BY DEF Overlay
<1>3. CASE k \in S
  <2>1. after[k] = WithDerivedFlags(EntryOf(c, k), c, k)
    BY <1>2, <1>3 DEF Overlay
  <2>2. EntryOf(c, k) = c[k] /\ EntryOf(c, k) \in EntryData
    BY <1>3, EntryIsTyped DEF EntryOf
  <2>3. PICK e : e = c[k]
    OBVIOUS
  <2>4. WithDerivedFlags(e, c, k).value = e.value
    BY <2>2, <2>3 DEF WithDerivedFlags, EntryData
  <2> HIDE DEF after
  <2> QED
    BY <1>1, <1>2, <1>3, <2>1, <2>2, <2>3, <2>4 DEF Alike
<1>4. CASE k \notin S
  <2>1. after[k] = c[k]
    BY <1>2, <1>4 DEF Overlay
  <2> QED
    BY <1>1, <1>2, <2>1 DEF Alike
<1> QED
  BY <1>3, <1>4

(* A whole page leaves such a row saying what it said.                     *)
LEMMA PageSaysTheSame ==
    ASSUME NEW d, IsCollection(local[d]), NEW box, NEW page, page.cursor \in Nat,
           Sequence(page.groups),
           \A g \in DOMAIN page.groups : IsCollection(page.groups[g].changes),
           NEW n \in DOMAIN box, box[n].ack \in Nat,
           box[n].ack = 0 \/ box[n].ack > page.cursor + Len(page.groups),
           NEW k \in DOMAIN box[n].changes, k \in DOMAIN local[d]
    PROVE  LET after == ApplyGroups(d, box, page).rows
           IN k \in DOMAIN after /\ Alike(k, local[d][k], after[k])
<1> DEFINE base == [rows |-> local[d], versions |-> versions[d], issues |-> {}]
           done == FoldLeft(ApplyGroup, base, Pages(box, page))
<1>1. Len(page.groups) \in Nat /\ DOMAIN page.groups = 1..Len(page.groups)
  BY SequenceShape
<1>2. base.rows = local[d] /\ IsCollection(base.rows) /\ base.issues \subseteq Issues
  OBVIOUS
<1>3. ApplyGroups(d, box, page).rows = RecomputeFlags(done.rows, done.issues)
  BY DEF ApplyGroups, Pages
<1> HIDE DEF base
<1>4. done = AppliedUpTo(base, box, page, Len(page.groups))
  BY AppliedAll
<1> HIDE DEF done
<1>5. IsCollection(done.rows) /\ done.issues \subseteq Issues
  BY <1>1, <1>2, <1>4, AppliedUpToIsCollection
<1>6. k \in DOMAIN done.rows /\ done.rows[k] = local[d][k]
  BY <1>1, <1>2, <1>4, ProtectedIsKept
<1>7. PICK rows, issues : rows = done.rows /\ issues = done.issues
  OBVIOUS
<1>8. k \in DOMAIN RecomputeFlags(rows, issues)
      /\ Alike(k, rows[k], RecomputeFlags(rows, issues)[k])
  BY <1>5, <1>6, <1>7, FlagsSayTheSame
<1> QED
  BY <1>3, <1>6, <1>7, <1>8

-----------------------------------------------------------------------------
(* The rows c of a device show the latest queued value of every key.       *)
Shown(c, box) ==
    \A n \in DOMAIN box : \A k \in DOMAIN box[n].changes :
        (\A p \in DOMAIN box : k \in DOMAIN box[p].changes => p <= n)
        => k \in DOMAIN c /\ Alike(k, c[k], box[n].changes[k])

PendingShown == \A d \in Devices : Shown(local[d], outbox[d])

(* New mutations are taken from the rows they leave, which differ from the *)
(* rows before only where a new mutation says so.                          *)
LEMMA ShownAfterEdit ==
    ASSUME NEW d, NEW m \in Nat, NEW box, Sequence(box), NEW n, NEW new,
           Extends(d, m, box, n, new), NEW c, NEW after, Adds(box, new, after),
           Covers(c, after, Added(box, new)), Shown(c, box)
    PROVE  Shown(after, new)
<1>1. /\ Len(box) \in Nat /\ DOMAIN box = 1..Len(box) /\ n \in Nat /\ m <= n
      /\ DOMAIN new = 1..Len(new) /\ Len(new) = Len(box) + (n - m)
      /\ \A p \in 1..Len(box) : new[p] = box[p]
  BY SequenceShape DEF Extends
<1> SUFFICES ASSUME NEW i \in DOMAIN new, NEW k \in DOMAIN new[i].changes,
                    \A p \in DOMAIN new : k \in DOMAIN new[p].changes => p <= i
             PROVE  k \in DOMAIN after /\ Alike(k, after[k], new[i].changes[k])
  BY DEF Shown
<1>2. CASE i \notin DOMAIN box
  <2>1. PartOf(new[i].changes, after)
    BY <1>2 DEF Adds
  <2>2. k \in DOMAIN after /\ new[i].changes[k] = after[k]
    BY <2>1 DEF PartOf
  <2> QED
    BY <2>2 DEF Alike
<1>3. CASE i \in DOMAIN box
  <2>1. new[i] = box[i] /\ DOMAIN box \subseteq DOMAIN new
    BY <1>1, <1>3
  <2>2. k \in DOMAIN c /\ Alike(k, c[k], box[i].changes[k])
    <3>1. \A p \in DOMAIN box : k \in DOMAIN box[p].changes => p <= i
      BY <1>1, <2>1
    <3> QED
      BY <1>3, <2>1, <3>1 DEF Shown
  <2>3. k \notin Added(box, new)
    <3> SUFFICES ASSUME NEW p \in DOMAIN new \ DOMAIN box, k \in DOMAIN new[p].changes
                 PROVE  FALSE
      BY DEF Added
    <3> QED
      BY <1>1, <1>3
  <2>4. k \in DOMAIN after /\ Alike(k, c[k], after[k])
    BY <2>2, <2>3 DEF Covers
  <2> QED
    BY <2>1, <2>2, <2>4, Zenon DEF Alike
<1> QED
  BY <1>2, <1>3

(* A transaction that adds mutations keeps what is queued in sight.        *)
LEMMA EditsAreShown ==
    ASSUME Typed, PendingShown, NEW d \in Devices, Edits(d)
    PROVE  PendingShown'
<1>1. /\ minted[d] \in Nat /\ Sequence(outbox[d]) /\ Shown(local[d], outbox[d])
      /\ OthersKept(d, local', local) /\ OthersKept(d, outbox', outbox)
  BY DEF Typed, DeviceTyped, IsOutbox, PendingShown, Edits
<1>2. PICK m, n, box, new, c, after :
        /\ m = minted[d] /\ n = minted'[d] /\ box = outbox[d] /\ new = outbox'[d]
        /\ c = local[d] /\ after = local'[d]
  OBVIOUS
<1>3. /\ Extends(d, m, box, n, new) /\ Adds(box, new, after)
      /\ Covers(c, after, Added(box, new)) /\ Shown(c, box)
      /\ m \in Nat /\ Sequence(box)
  BY <1>1, <1>2 DEF Edits
<1>4. Shown(after, new)
  BY <1>3, ShownAfterEdit
<1>5. \A e \in Devices : e # d => local'[e] = local[e] /\ outbox'[e] = outbox[e]
  BY <1>1 DEF OthersKept
<1>6. \A e \in Devices : Shown(local'[e], outbox'[e])
  BY <1>2, <1>4, <1>5 DEF PendingShown
<1> QED
  BY <1>6 DEF PendingShown

(* An accepted page leaves every row with a mutation still queued: the     *)
(* latest one of a row is not deleted from the outbox before earlier ones. *)
LEMMA ApplyIsShown ==
    ASSUME Typed, Pinned, Ordered, PendingShown, NEW d \in Devices, Apply(d)
    PROVE  PendingShown'
<1> DEFINE page == response[d]
           old == outbox[d]
           box == Acknowledged(old, page)
           next == page.nextCursor
           kept == {n \in DOMAIN box : ~Passed(box[n], next)}
           new == RowsAt(box, kept)
           past == {log[r].mutation : r \in 1..next}
<1>1. /\ DeviceTyped(d) /\ PageKnown(d) /\ IsCollection(local[d])
      /\ IsOutbox(d, minted[d], old) /\ HistorySound
      /\ QueueOrder(old, log) /\ Shown(local[d], old)
      /\ request[d] # Nothing => IsRequest(request[d])
  BY DEF Typed, Pinned, DeviceTyped, WireTyped, Ordered, OrderedAt, PendingShown
<1>2. /\ IsPage(page) /\ PageTyped(page) /\ Accepted(d, page)
      /\ OthersKept(d, local', local) /\ local'[d] = ApplyGroups(d, box, page).rows
      /\ OthersKept(d, outbox', outbox) /\ outbox'[d] = new
  BY ApplyIsTransaction
<1>3. /\ request[d] # Nothing /\ PageIsHistory(request[d], page)
      /\ next = request[d].cursor + Len(page.groups)
  BY <1>1, <1>2 DEF PageKnown, Accepted, ValidExchange
<1>4. Ids(new) = Ids(old) \ past /\ next <= Len(log) /\ next \in Nat
  <2>1. Ids(outbox'[d]) = Ids(outbox[d]) \ past /\ next \in state[d].cursor..Len(log)
    BY AppliedOutbox
  <2>2. Len(log) \in Nat /\ state[d].cursor \in Nat
    BY <1>1, LogIndices DEF DeviceTyped, StateTyped
  <2> QED
    BY <1>2, <2>1, <2>2
<1> HIDE DEF page, old, past
<1>5. /\ page.cursor \in Nat /\ next = page.cursor + Len(page.groups)
      /\ Sequence(page.groups)
      /\ \A g \in DOMAIN page.groups : IsCollection(page.groups[g].changes)
  BY <1>1, <1>2, <1>3 DEF PageIsHistory, IsRequest, PageTyped
<1>6. /\ IsOutbox(d, minted[d], box) /\ DOMAIN box = DOMAIN old
      /\ \A n \in DOMAIN old : box[n].id = old[n].id /\ box[n].changes = old[n].changes
  <2>1. \A i \in DOMAIN page.acks : page.acks[i] \in Nat
    BY <1>2 DEF PageTyped
  <2> HIDE DEF box
  <2>2. PICK m, b : m = minted[d] /\ b = old
    OBVIOUS
  <2>3. /\ IsOutbox(d, m, Acknowledged(b, page))
        /\ DOMAIN Acknowledged(b, page) = DOMAIN b
        /\ \A n \in DOMAIN b :
             Acknowledged(b, page)[n]
               = [id |-> b[n].id, changes |-> b[n].changes,
                  ack |-> IF b[n].id \in DOMAIN page.acks
                          THEN page.acks[b[n].id] ELSE b[n].ack]
    BY <1>1, <2>1, <2>2, AcknowledgedOutbox
  <2> QED
    BY <2>2, <2>3 DEF box
<1> HIDE DEF box
<1>7. Sequence(box) /\ kept \in SUBSET DOMAIN box
  BY <1>6 DEF IsOutbox
<1>8. PICK f : /\ Sequence(new) /\ DOMAIN f = DOMAIN new
               /\ \A j \in DOMAIN new : f[j] \in kept /\ new[j] = box[f[j]]
               /\ \A j, k \in DOMAIN new : j < k => f[j] < f[k]
               /\ \A p \in kept : \E j \in DOMAIN new : f[j] = p
  <2>1. PICK S : S = kept
    OBVIOUS
  <2>2. new = RowsAt(box, S) /\ S \in SUBSET DOMAIN box
    BY <1>7, <2>1
  <2> HIDE DEF kept, new
  <2> QED
    BY <1>7, <2>1, <2>2, RowsInOrder
<1>9. /\ DOMAIN new = 1..Len(new) /\ Len(new) \in Nat
      /\ DOMAIN box = 1..Len(box) /\ Len(box) \in Nat
  <2> HIDE DEF new
  <2> QED
    BY <1>7, <1>8, SequenceShape
<1>10. \A p \in DOMAIN box : box[p].id[2] \in Nat /\ box[p].ack \in Nat
  <2> SUFFICES ASSUME NEW p \in DOMAIN box PROVE box[p].id[2] \in Nat /\ box[p].ack \in Nat
    OBVIOUS
  <2>1. PICK k \in 1..minted[d] : box[p].id = <<d, k>>
    BY <1>6 DEF IsOutbox, IsMutation
  <2>2. box[p].ack \in Nat
    BY <1>6 DEF IsOutbox, IsMutation
  <2> QED
    BY <2>1, <2>2
<1>11. ASSUME NEW p \in DOMAIN box, p \notin kept PROVE box[p].id \in past
  <2>1. box[p].id \in Ids(old) /\ box[p].id \notin Ids(new)
    <3>1. box[p].id \in Ids(old)
      BY <1>6 DEF Ids
    <3>2. ASSUME NEW j \in DOMAIN new, new[j].id = box[p].id PROVE FALSE
      <4>1. f[j] \in DOMAIN box /\ box[f[j]].id = box[p].id /\ f[j] # p
        BY <1>7, <1>8, <1>11, <3>2
      <4>2. f[j] < p \/ p < f[j]
        BY <1>9, <4>1
      <4>3. box[f[j]].id[2] < box[p].id[2] \/ box[p].id[2] < box[f[j]].id[2]
        BY <1>6, <4>1, <4>2 DEF IsOutbox
      <4> QED
        BY <1>10, <4>1, <4>3
    <3> QED
      BY <3>1, <3>2 DEF Ids
  <2> QED
    BY <1>4, <2>1
<1> HIDE DEF kept, new
<1>12. Shown(local'[d], new)
  <2> SUFFICES ASSUME NEW i \in DOMAIN new, NEW k \in DOMAIN new[i].changes,
                      \A p \in DOMAIN new : k \in DOMAIN new[p].changes => p <= i
               PROVE  k \in DOMAIN local'[d]
                      /\ Alike(k, local'[d][k], new[i].changes[k])
    BY DEF Shown
  <2>1. PICK n \in DOMAIN box : n = f[i] /\ n \in kept /\ new[i] = box[n]
    BY <1>7, <1>8
  <2>2. ASSUME NEW p \in DOMAIN old, k \in DOMAIN old[p].changes, ~(p <= n) PROVE FALSE
    <3>1. p \in DOMAIN box /\ n < p /\ k \in DOMAIN box[p].changes
      BY <1>6, <1>9, <2>2
    <3>2. CASE p \in kept
      <4>1. PICK j \in DOMAIN new : f[j] = p /\ new[j] = box[p]
        BY <1>8, <3>2
      <4>2. j <= i
        BY <3>1, <4>1
      <4>3. ~(n < p)
        <5>1. j \in Nat /\ i \in Nat /\ n \in Nat /\ p \in Nat
          BY <1>9, <3>1
        <5>2. j < i => f[j] < f[i]
          BY <1>8
        <5> QED
          BY <2>1, <4>1, <4>2, <5>1, <5>2
      <4> QED
        BY <3>1, <4>3
    <3>3. CASE p \notin kept
      <4>1. PICK r \in 1..next : log[r].mutation = box[p].id
        BY <1>11, <3>1, <3>3 DEF past
      <4>2. box[n].id[2] < box[p].id[2] /\ box[n].id \in Ids(old) /\ box[p].id \in Ids(old)
        BY <1>6, <3>1 DEF IsOutbox, Ids
      <4>3. r \in DOMAIN log
        BY <1>1, <1>4, LogIndices
      <4>4. PICK s \in 1..(r - 1) : log[s].mutation = box[n].id
        BY <1>1, <4>1, <4>2, <4>3 DEF QueueOrder
      <4>5. box[n].id \in past
        <5>1. s \in 1..next
          BY <1>4
        <5> QED
          BY <4>4, <5>1 DEF past
      <4>6. box[n].id \in Ids(new)
        BY <2>1 DEF Ids
      <4> QED
        BY <1>4, <4>5, <4>6
    <3> QED
      BY <3>2, <3>3
  <2>3. /\ k \in DOMAIN box[n].changes /\ k \in DOMAIN local[d]
        /\ Alike(k, local[d][k], new[i].changes[k])
    <3>1. n \in DOMAIN old /\ k \in DOMAIN old[n].changes /\ new[i].changes = old[n].changes
      BY <1>6, <2>1
    <3>2. \A p \in DOMAIN old : k \in DOMAIN old[p].changes => p <= n
      BY <2>2
    <3>3. k \in DOMAIN local[d] /\ Alike(k, local[d][k], old[n].changes[k])
      BY <1>1, <3>1, <3>2 DEF Shown
    <3> QED
      BY <1>6, <3>1, <3>3
  <2>4. box[n].ack \in Nat /\ (box[n].ack = 0 \/ box[n].ack > page.cursor + Len(page.groups))
    BY <1>4, <1>5, <1>10, <2>1 DEF kept, Passed
  <2>5. k \in DOMAIN local'[d] /\ Alike(k, local[d][k], local'[d][k])
    BY <1>1, <1>2, <1>5, <2>3, <2>4, PageSaysTheSame
  <2> QED
    BY <2>3, <2>5, Zenon DEF Alike
<1>13. \A e \in Devices : e # d => local'[e] = local[e] /\ outbox'[e] = outbox[e]
  BY <1>2 DEF OthersKept
<1>14. \A e \in Devices : Shown(local'[e], outbox'[e])
  BY <1>2, <1>12, <1>13 DEF PendingShown
<1> QED
  BY <1>14 DEF PendingShown

(* Nothing is queued at first.                                             *)
LEMMA InitIsShown ==
    ASSUME Init
    PROVE  PendingShown
BY NoneIsSequence DEF Init, PendingShown, Shown

(* Every step of devices that stay with their server keeps what is queued  *)
(* in sight.                                                               *)
LEMMA NextKeepsShown ==
    ASSUME OneServer, Typed, Pinned, Ordered, PendingShown, [Next]_vars
    PROVE  PendingShown'
<1>1. ASSUME UNCHANGED <<local, outbox>> PROVE PendingShown'
  BY <1>1 DEF PendingShown
<1>2. CASE UNCHANGED vars
  BY <1>1, <1>2 DEF vars, deviceVars
<1>3. ASSUME NEW d \in Devices, UserWrite(d) PROVE PendingShown'
  BY <1>3, UserWriteEdits, EditsAreShown
<1>4. ASSUME NEW d \in Devices, Exchange(d) PROVE PendingShown'
  <2>1. CASE Prepare(d)
    BY <2>1, PrepareEdits, EditsAreShown
  <2>2. CASE Serve(d) \/ Reject(d)
    BY <1>1, <2>2 DEF Serve, Reject, deviceVars
  <2>3. CASE Apply(d)
    BY <2>3, ApplyIsShown
  <2> QED
    BY <1>4, <2>1, <2>2, <2>3 DEF Exchange
<1>5. ASSUME NEW d \in Devices, ServeStray(d) \/ GiveUp(d) PROVE PendingShown'
  BY <1>1, <1>5 DEF ServeStray, GiveUp, deviceVars
<1>6. ASSUME NEW d \in Devices, ConfirmRebind(d) \/ Rebind(d)
      PROVE  FALSE
  BY <1>6, PinnedShape DEF ConfirmRebind, Rebind, NoRebinds, OneServer
<1>7. ASSUME LoseDatabase PROVE FALSE
  BY <1>7, PinnedShape DEF LoseDatabase, OneServer
<1> QED
  BY <1>2, <1>3, <1>4, <1>5, <1>6, <1>7 DEF Next

(* No remote group, late answer or recomputed flag hides an edit that      *)
(* waits in the outbox of a device that stays with its server: its row     *)
(* shows the latest queued value, of an entry its user fields.             *)
THEOREM PendingEditsShow == FreshIds /\ OneServer => (Spec => []PendingEditVisible)
<1> SUFFICES ASSUME FreshIds, OneServer PROVE Spec => []PendingEditVisible
  OBVIOUS
<1>1. Init => Typed /\ Pinned /\ Ordered /\ PendingShown
  BY InitIsTyped, InitIsPinned, InitIsOrdered, InitIsShown
<1>2. Typed /\ Pinned /\ Ordered /\ PendingShown /\ [Next]_vars
        => (Typed /\ Pinned /\ Ordered /\ PendingShown)'
  BY NextKeepsTyped, NextKeepsPinned, NextKeepsOrdered, NextKeepsShown
<1>3. PendingShown => PendingEditVisible
  BY DEF PendingShown, Shown, PendingEditVisible, Alike
<1> QED
  BY <1>1, <1>2, <1>3, PTL DEF Spec

-----------------------------------------------------------------------------
(* What a device shows and what its server holds: the lemmas about rows    *)
(* alone that ReplicaAgreement_proof rests on.                             *)

(* The entry has the flags of the copies it is saved along with.           *)
Resaved(before, after, i) ==
    LET old == EntryOf(before, i)
        entry == [old EXCEPT !.deleted = @ /\ ActiveCopies(before, i) = {}]
    IN /\ CopiesOf(before, i) # {} /\ i \in DOMAIN after
       /\ after[i] = WithDerivedFlags(entry, before, i)

(* A row that changes is among the changed keys; an entry of which only    *)
(* the flags change has a copy that is, or is merely saved again.          *)
Tells(before, after, changed) ==
    /\ \A k \in Keys \ Issues : k \notin changed => SameRow(before, after, k)
    /\ \A i \in Issues : i \notin changed =>
          EntryOf(before, i).value = EntryOf(after, i).value
    /\ \A i \in Issues :
          i \notin changed /\ CopiesOf(after, i) \cap changed = {} =>
            SameRow(before, after, i) \/ Resaved(before, after, i)

(* What is told by less is told by more.                                   *)
LEMMA MoreTells ==
    ASSUME NEW before, NEW after, NEW changed, Tells(before, after, changed),
           NEW more, changed \subseteq more
    PROVE  Tells(before, after, more)
<1>1. \A k \in Keys : k \notin more => k \notin changed
  OBVIOUS
<1>2. \A i \in Issues : CopiesOf(after, i) \cap more = {} => CopiesOf(after, i) \cap changed = {}
  OBVIOUS
<1>3. Issues \subseteq Keys
  BY DEF Keys
<1> QED
  BY <1>1, <1>2, <1>3 DEF Tells

(* The wire difference of two collections tells them apart.                *)
LEMMA DifferenceTells ==
    ASSUME NEW before, NEW after, DOMAIN before \subseteq DOMAIN after
    PROVE  Tells(before, after, DOMAIN WireDifference(before, after))
<1> DEFINE dirty == Dirty(before, after)
           D == {k \in dirty : ~ /\ k \in Issues
                                 /\ CopiesOf(after, k) \cap dirty # {}
                                 /\ OnlyDerivedChanged(before, after, k)}
<1>1. DOMAIN WireDifference(before, after) = D
  BY DEF WireDifference, Restrict
<1>2. \A k : k \notin dirty => SameRow(before, after, k)
  BY DEF Dirty, SameRow
<1>3. dirty \subseteq DOMAIN after
  BY DEF Dirty
<1>4. \A k \in Keys \ Issues : k \notin D => SameRow(before, after, k)
  BY <1>2
<1>5. ASSUME NEW i \in Issues, i \notin D
      PROVE  EntryOf(before, i).value = EntryOf(after, i).value
  <2>1. CASE i \notin dirty
    <3>1. SameRow(before, after, i)
      BY <1>2, <2>1
    <3> QED
      BY <3>1 DEF SameRow, EntryOf
  <2>2. CASE i \in dirty
    <3>1. OnlyDerivedChanged(before, after, i) /\ i \in DOMAIN after
      BY <1>3, <1>5, <2>2
    <3> QED
      BY <3>1 DEF OnlyDerivedChanged, EntryOf
  <2> QED
    BY <2>1, <2>2
<1>6. ASSUME NEW i \in Issues, i \notin D, CopiesOf(after, i) \cap D = {}
      PROVE  SameRow(before, after, i)
  <2>1. CopiesOf(after, i) \cap dirty \subseteq D
    <3>1. CopiesOf(after, i) \cap Issues = {}
      BY CollectionAssumption DEF CollectionAssumption, CopiesOf
    <3> QED
      BY <3>1
  <2>2. CopiesOf(after, i) \cap dirty = {}
    BY <1>6, <2>1
  <2>3. i \notin dirty
    BY <1>6, <2>2
  <2> QED
    BY <1>2, <2>3
<1> HIDE DEF D, dirty
<1> QED
  BY <1>1, <1>4, <1>5, <1>6 DEF Tells

(* So does what saving a copy uploads.                                     *)
LEMMA CopyDifferenceTells ==
    ASSUME NEW c, IsCollection(c), NEW k \in Copies, NEW row \in CopyData
    PROVE  LET after == SaveCopyRow(c, k, row)
               only(e) == Restrict(e, {k} \cap DOMAIN e)
           IN Tells(c, after, DOMAIN WireDifference(only(c), only(after)))
<1> DEFINE middle == Overlay(c, Row(k, row))
           issue == row.issue
           old == EntryOf(c, issue)
           entry == [old EXCEPT !.deleted = @ /\ ActiveCopies(middle, issue) = {}]
           flags == WithDerivedFlags(entry, middle, issue)
           after == SaveCopyRow(c, k, row)
           only(e) == Restrict(e, {k} \cap DOMAIN e)
           diff == WireDifference(only(c), only(after))
<1>1. k \notin Issues /\ issue \in Issues /\ issue # k /\ issue \notin Copies
  BY CollectionAssumption DEF CollectionAssumption, CopyData
<1>2. after = Overlay(middle, Row(issue, flags))
  BY DEF SaveCopyRow
<1>3. flags.value = old.value
  <2>1. old \in EntryData
    BY <1>1, EntryIsTyped
  <2> HIDE DEF old, middle
  <2>2. entry.value = old.value /\ DOMAIN entry = DOMAIN old
    BY <2>1 DEF EntryData
  <2> HIDE DEF entry
  <2> QED
    BY <2>1, <2>2 DEF WithDerivedFlags, EntryData
<1>4. /\ DOMAIN middle = DOMAIN c \cup {k} /\ middle[k] = row
      /\ \A j \in DOMAIN c : j # k => middle[j] = c[j]
  BY DEF Overlay, Row
<1> HIDE DEF flags, middle
<1>5. /\ DOMAIN after = DOMAIN middle \cup {issue} /\ after[issue] = flags
      /\ \A j \in DOMAIN middle : j # issue => after[j] = middle[j]
  BY <1>2 DEF Overlay, Row
<1> HIDE DEF after
<1>6. \A j : j # k /\ j # issue => SameRow(c, after, j)
  BY <1>4, <1>5 DEF SameRow
<1>7. EntryOf(after, issue) = flags
  BY <1>5 DEF EntryOf
<1>8. DOMAIN diff \subseteq {k} /\ (k \notin DOMAIN diff => SameRow(c, after, k))
  <2>1. DOMAIN only(c) = {k} \cap DOMAIN c /\ DOMAIN only(after) = {k}
    BY <1>4, <1>5 DEF Restrict
  <2>2. (k \in DOMAIN c => only(c)[k] = c[k]) /\ only(after)[k] = after[k]
    BY <1>4, <1>5 DEF Restrict
  <2> HIDE DEF only
  <2>3. Dirty(only(c), only(after)) \subseteq {k}
    BY <2>1 DEF Dirty
  <2>4. DOMAIN diff = Dirty(only(c), only(after))
    BY <1>1, <2>3 DEF WireDifference, Restrict
  <2>5. k \notin Dirty(only(c), only(after)) => SameRow(c, after, k)
    BY <2>1, <2>2, <1>4, <1>5 DEF Dirty, SameRow
  <2> QED
    BY <2>3, <2>4, <2>5
<1> HIDE DEF diff
<1>9. \A j \in Keys \ Issues : j \notin DOMAIN diff => SameRow(c, after, j)
  BY <1>1, <1>6, <1>8
<1>10. \A i \in Issues : EntryOf(c, i).value = EntryOf(after, i).value
  <2> TAKE i \in Issues
  <2>1. CASE i = issue
    BY <1>3, <1>7, <2>1
  <2>2. CASE i # issue
    <3>1. SameRow(c, after, i)
      BY <1>1, <1>6, <2>2
    <3> QED
      BY <3>1 DEF SameRow, EntryOf
  <2> QED
    BY <2>1, <2>2
<1>11. ASSUME CopiesOf(after, issue) \cap DOMAIN diff = {}
       PROVE  Resaved(c, after, issue)
  <2>1. k \in CopiesOf(after, issue)
    BY <1>1, <1>4, <1>5 DEF CopiesOf
  <2>2. SameRow(c, after, k)
    BY <1>8, <1>11, <2>1
  <2>3. k \in DOMAIN c /\ c[k] = row
    BY <1>1, <1>4, <1>5, <2>2 DEF SameRow
  <2>4. k \in CopiesOf(c, issue)
    BY <2>3 DEF CopiesOf
  <2>5. CopiesOf(middle, issue) = CopiesOf(c, issue)
    BY <1>4, <2>3 DEF CopiesOf
  <2>6. ActiveCopies(middle, issue) = ActiveCopies(c, issue)
    BY <1>4, <2>3, <2>5 DEF ActiveCopies, CopiesOf
  <2>7. SeveralActive(middle, issue) = SeveralActive(c, issue)
    BY <2>6 DEF SeveralActive
  <2>8. WithDerivedFlags(entry, middle, issue) = WithDerivedFlags(entry, c, issue)
    <3> HIDE DEF entry
    <3> QED
      BY <2>6, <2>7 DEF WithDerivedFlags
  <2>9. entry = [old EXCEPT !.deleted = @ /\ ActiveCopies(c, issue) = {}]
    BY <2>6
  <2> HIDE DEF entry, old
  <2> QED
    BY <1>5, <2>4, <2>8, <2>9 DEF Resaved, old, flags
<1>12. ASSUME NEW i \in Issues, CopiesOf(after, i) \cap DOMAIN diff = {}
       PROVE  SameRow(c, after, i) \/ Resaved(c, after, i)
  BY <1>1, <1>6, <1>11, <1>12
<1> QED
  BY <1>9, <1>10, <1>12 DEF Tells, diff, after

-----------------------------------------------------------------------------
(* The assignment of copies to issues, and rows that respect it.             *)
Home == CHOOSE home \in [Copies -> Issues] : IsHome(home)

Tidy(c) ==
    \A k \in DOMAIN c \cap Copies : c[k].issue = Home[k] /\ (c[k].deleted => ~c[k].active)

(* There is such an assignment, and Home is one.                           *)
LEMMA HomeIsOne ==
    ASSUME CopiesHaveHomes
    PROVE  IsHome(Home)
BY DEF CopiesHaveHomes, Home

(* A part of tidy rows is tidy.                                            *)
LEMMA TidyPart ==
    ASSUME NEW c, Tidy(c), NEW part, PartOf(part, c)
    PROVE  Tidy(part)
BY DEF Tidy, PartOf

(* Tidy rows over tidy rows are tidy.                                      *)
LEMMA TidyOverlay ==
    ASSUME NEW a, NEW b, Tidy(a), Tidy(b)
    PROVE  Tidy(Overlay(a, b))
BY DEF Tidy, Overlay

(* What is keyed by issues only holds no copy.                             *)
LEMMA TidyEntries ==
    ASSUME NEW c, DOMAIN c \subseteq Issues \cup Barcodes
    PROVE  Tidy(c)
BY CollectionAssumption DEF Tidy, CollectionAssumption

(* No row is tidy.                                                         *)
LEMMA TidyNothing == Tidy(<< >>)
BY NoneIsSequence, TidyEntries

(* One tidy row.                                                           *)
LEMMA TidyRow ==
    ASSUME NEW k, NEW row, row.issue = Home[k], row.deleted => ~row.active
    PROVE  Tidy(Row(k, row))
BY DEF Tidy, Row

(* A group copies its mutation's rows and adds entries.                    *)
LEMMA TidyGroup ==
    ASSUME NEW c, NEW changes, Tidy(changes)
    PROVE  Tidy(CanonicalizeGroup(c, changes))
<1> DEFINE entries == [i \in AffectedIssues(changes) |-> CanonicalEntry(c, changes, i)]
<1>1. CanonicalizeGroup(c, changes) = Overlay(changes, entries)
  BY DEF CanonicalizeGroup
<1>2. DOMAIN entries \subseteq Issues \cup Barcodes
  BY DEF AffectedIssues
<1> HIDE DEF entries
<1> QED
  BY <1>1, <1>2, TidyEntries, TidyOverlay

(* Recomputing flags moves no copy.                                        *)
LEMMA TidyFlags ==
    ASSUME NEW c, Tidy(c), NEW S, S \subseteq Issues
    PROVE  Tidy(RecomputeFlags(c, S))
<1> DEFINE flags == [i \in S |-> WithDerivedFlags(EntryOf(c, i), c, i)]
<1>1. RecomputeFlags(c, S) = Overlay(c, flags) /\ DOMAIN flags \subseteq Issues \cup Barcodes
  BY DEF RecomputeFlags
<1> HIDE DEF flags
<1> QED
  BY <1>1, TidyEntries, TidyOverlay

(* A history of tidy groups makes tidy rows.                               *)
LEMMA TidyReplay ==
    ASSUME NEW l, NEW n \in Nat, \A r \in 1..n : Tidy(l[r].changes)
    PROVE  Tidy(Replayed(l, n))
<1> DEFINE S == {k \in Nat : k <= n => Tidy(Replayed(l, k))}
<1>1. 0 \in S
  BY ReplayedNone, TidyNothing
<1>2. ASSUME NEW k \in Nat, k \in S PROVE k + 1 \in S
  <2> SUFFICES ASSUME k + 1 <= n PROVE Tidy(Replayed(l, k + 1))
    OBVIOUS
  <2>1. Tidy(Replayed(l, k)) /\ Tidy(l[k + 1].changes)
    BY <1>2
  <2> QED
    BY <2>1, ReplayedNext, TidyOverlay
<1>3. n \in S
  <2> HIDE DEF S
  <2> QED
    BY <1>1, <1>2, Replaying!NatSetInduction
<1> QED
  BY <1>3

(* The copies a flat comic touches are those of its issue.                 *)
LEMMA SavedComicIsTidy ==
    ASSUME CopiesHaveHomes, NEW c, Tidy(c), NEW i \in Issues, NEW comic
    PROVE  Tidy(UpsertComic(c, i, comic))
<1> DEFINE on == comic.owned /\ ~comic.deleted
           gone(k) == [c[k] EXCEPT !.active = FALSE, !.deleted = TRUE]
           st(v) == [issue |-> i, active |-> on, deleted |-> comic.deleted,
                     value |-> v]
           others == OtherCopies(c, i)
           entry == Row(i, [deleted |-> comic.deleted, owned |-> comic.owned,
                            wanted |-> ~comic.owned /\ ~comic.deleted,
                            duplicate |-> comic.duplicate, value |-> comic.value])
           primary == Row(PrimaryOf(c, i), st(comic.copyValue))
           second == IF others # {}
                     THEN Row(FirstCopy(others), st(c[FirstCopy(others)].value))
                     ELSE Row(SecondaryCopy[i], st(DefaultValue))
           tombstones == [k \in others |-> gone(k)]
           rest == IF ~comic.duplicate THEN tombstones
                   ELSE IF comic.deleted THEN Overlay(second, tombstones) ELSE second
<1>1. \A v : st(v).issue = i /\ (st(v).deleted => ~st(v).active)
  OBVIOUS
<1> HIDE DEF st
<1>2. Tidy(entry)
  BY TidyEntries DEF Row
<1>3. /\ CopiesOf(c, i) \subseteq Copies /\ CopiesOf(c, i) \subseteq DOMAIN c
      /\ \A k \in CopiesOf(c, i) : Home[k] = i
      /\ ActiveCopies(c, i) \subseteq CopiesOf(c, i)
  BY DEF CopiesOf, ActiveCopies, Tidy
<1>4. Home[PrimaryCopy[i]] = i /\ Home[SecondaryCopy[i]] = i
  BY HomeIsOne DEF IsHome
<1>5. Home[PrimaryOf(c, i)] = i
  <2>1. ActiveCopies(c, i) # {} => FirstCopy(ActiveCopies(c, i)) \in ActiveCopies(c, i)
    BY <1>3, FirstCopyIsOne
  <2>2. CopiesOf(c, i) # {} => FirstCopy(CopiesOf(c, i)) \in CopiesOf(c, i)
    BY <1>3, FirstCopyIsOne
  <2> QED
    BY <1>3, <1>4, <2>1, <2>2 DEF PrimaryOf
<1>6. Tidy(primary)
  BY <1>1, <1>5, TidyRow
<1>7. others \subseteq CopiesOf(c, i)
  BY DEF OtherCopies
<1> HIDE DEF others
<1>8. Tidy(second)
  <2>1. CASE others # {}
    <3>1. FirstCopy(others) \in others
      BY <1>3, <1>7, <2>1, FirstCopyIsOne
    <3>2. Home[FirstCopy(others)] = i
      BY <1>3, <1>7, <3>1
    <3>3. Tidy(Row(FirstCopy(others), st(c[FirstCopy(others)].value)))
      BY <1>1, <3>2, TidyRow
    <3> QED
      BY <2>1, <3>3
  <2>2. CASE others = {}
    <3>1. Tidy(Row(SecondaryCopy[i], st(DefaultValue)))
      BY <1>1, <1>4, TidyRow
    <3> QED
      BY <2>2, <3>1
  <2> QED
    BY <2>1, <2>2
<1>9. Tidy(tombstones)
  <2>1. SUFFICES ASSUME NEW k \in others
                 PROVE  gone(k).issue = Home[k] /\ (gone(k).deleted => ~gone(k).active)
    BY DEF Tidy
  <2>2. k \in DOMAIN c \cap Copies /\ Home[k] = i /\ c[k].issue = i
    BY <1>3, <1>7 DEF CopiesOf
  <2> QED
    BY <2>2
<1>10. UpsertComic(c, i, comic) = Overlay(c, Overlay(entry, Overlay(primary, rest)))
  BY DEF UpsertComic, st, others
<1> HIDE DEF entry, primary, second, tombstones
<1>11. Tidy(rest)
  BY <1>8, <1>9, TidyOverlay
<1> HIDE DEF rest
<1> QED
  BY <1>2, <1>6, <1>10, <1>11, TidyOverlay

(* Saving a copy a user may save leaves the rows tidy.                     *)
LEMMA SavedCopyIsTidy ==
    ASSUME CopiesHaveHomes, NEW c, Tidy(c), NEW edit \in CopyInputs
    PROVE  Tidy(SaveCopyRow(c, edit[1], edit[2]))
<1> DEFINE after == Overlay(c, Row(edit[1], edit[2]))
           issue == edit[2].issue
           old == EntryOf(c, issue)
           entry == [old EXCEPT !.deleted = @ /\ ActiveCopies(after, issue) = {}]
           flags == WithDerivedFlags(entry, after, issue)
<1>1. edit[2].issue = Home[edit[1]] /\ (edit[2].deleted => ~edit[2].active)
  BY HomeIsOne DEF IsHome
<1>2. issue \in Issues
  BY ProtocolAssumption DEF ProtocolAssumption, CopyData
<1>3. Tidy(after)
  BY <1>1, TidyRow, TidyOverlay
<1>4. SaveCopyRow(c, edit[1], edit[2]) = Overlay(after, Row(issue, flags))
  BY DEF SaveCopyRow
<1> HIDE DEF after, flags
<1>5. Tidy(Row(issue, flags))
  BY <1>2, TidyEntries DEF Row
<1> QED
  BY <1>3, <1>4, <1>5, TidyOverlay

(* A user's write tells of every row it changes, and keeps copies at home. *)
LEMMA UserWriteTells ==
    ASSUME CopiesHaveHomes, Typed, NEW d \in Devices, UserWrite(d)
    PROVE  /\ Tells(local[d], local'[d], Added(outbox[d], outbox'[d]))
           /\ Tidy(local[d]) => Tidy(local'[d])
<1> DEFINE Goal == /\ Tells(local[d], local'[d], Added(outbox[d], outbox'[d]))
                   /\ Tidy(local[d]) => Tidy(local'[d])
<1>0. IsCollection(local[d])
  BY DEF Typed, DeviceTyped
<1>1. ASSUME NEW after, NEW difference, IsCollection(after), IsCollection(difference),
             PartOf(difference, after), Covers(local[d], after, DOMAIN difference),
             Write(d, after, difference), Tells(local[d], after, DOMAIN difference),
             Tidy(local[d]) => Tidy(after)
      PROVE  Goal
  <2>1. /\ local'[d] = after
        /\ DOMAIN difference \subseteq Added(outbox[d], outbox'[d])
    BY <1>1, WriteEdits
  <2> QED
    BY <1>1, <2>1, MoreTells
<1>2. ASSUME NEW i \in Issues, NEW comic \in ComicInputs, SaveComic(d, i, comic)
      PROVE  Goal
  <2> DEFINE after == UpsertComic(local[d], i, comic)
  <2>1. comic \in FlatComics
    BY ProtocolAssumption DEF ProtocolAssumption
  <2>2. IsCollection(after)
    BY <1>0, <2>1, SavedComicIsCollection
  <2>3. Write(d, after, WireDifference(local[d], after))
    BY <1>2 DEF SaveComic
  <2>4. DOMAIN local[d] \subseteq DOMAIN after
    BY DEF UpsertComic, Overlay
  <2>5. Tidy(local[d]) => Tidy(after)
    BY SavedComicIsTidy
  <2> HIDE DEF after, Goal
  <2> QED
    BY <1>0, <1>1, <2>2, <2>3, <2>4, <2>5, DifferenceIsCollection, DifferenceCovers,
       DifferenceTells
<1>3. ASSUME NEW edit \in CopyInputs, SaveCopy(d, edit[1], edit[2])
      PROVE  Goal
  <2> DEFINE k == edit[1]
             row == edit[2]
             after == SaveCopyRow(local[d], k, row)
             only(c) == Restrict(c, {k} \cap DOMAIN c)
             difference == WireDifference(only(local[d]), only(after))
  <2>1. k \in Copies /\ row \in CopyData
    BY ProtocolAssumption DEF ProtocolAssumption
  <2>2. IsCollection(after)
    BY <1>0, <2>1, SavedCopyIsCollection
  <2>3. Write(d, after, difference)
    BY <1>3 DEF SaveCopy
  <2>4. Tidy(local[d]) => Tidy(after)
    BY SavedCopyIsTidy
  <2> HIDE DEF k, row
  <2>5. /\ IsCollection(difference) /\ PartOf(difference, after)
        /\ Covers(local[d], after, DOMAIN difference)
    BY <1>0, <2>1, CopyDifferenceCovers
  <2>6. Tells(local[d], after, DOMAIN difference)
    BY <1>0, <2>1, CopyDifferenceTells
  <2> HIDE DEF after, only, difference, Goal
  <2> QED
    BY <1>1, <2>2, <2>3, <2>4, <2>5, <2>6
<1>4. ASSUME NEW b \in Barcodes, NEW i \in BarcodeInputs, SaveBarcode(d, b, i)
      PROVE  Goal
  <2> DEFINE row == [issue |-> i, deleted |-> FALSE]
             after == Overlay(local[d], Row(b, row))
  <2>1. row \in BarcodeData
    BY ProtocolAssumption DEF ProtocolAssumption, BarcodeData
  <2>2. b \in Keys /\ b \notin Issues /\ b \notin Copies
    BY CollectionAssumption DEF CollectionAssumption, Keys
  <2> HIDE DEF row
  <2>3. IsCollection(Row(b, row)) /\ Tidy(Row(b, row))
    <3>1. DOMAIN Row(b, row) \subseteq Issues \cup Barcodes
      BY DEF Row
    <3> QED
      BY <2>1, <2>2, <3>1, RowIsCollection, TidyEntries
  <2>4. IsCollection(after) /\ (Tidy(local[d]) => Tidy(after))
    BY <1>0, <2>3, OverlayIsCollection, TidyOverlay
  <2>5. Write(d, after, WireDifference(local[d], after))
    BY <1>4 DEF SaveBarcode, row
  <2>6. DOMAIN local[d] \subseteq DOMAIN after
    BY DEF Overlay
  <2> HIDE DEF after, Goal
  <2> QED
    BY <1>0, <1>1, <2>4, <2>5, <2>6, DifferenceIsCollection, DifferenceCovers,
       DifferenceTells
<1> QED
  BY <1>2, <1>3, <1>4 DEF UserWrite

-----------------------------------------------------------------------------
(* The rows c of a device agree with what the history held at its cursor,  *)
(* up to what its outbox queues: the state properties of SyncProperties at *)
(* one device.                                                             *)
Agrees(c, box, held) ==
    /\ \A k \in Keys \ Issues : k \notin Queued(box) => SameRow(c, held, k)
    /\ \A i \in Issues : i \notin Queued(box) =>
          EntryOf(c, i).value = EntryOf(held, i).value
    /\ \A i \in Issues :
          i \notin Queued(box) /\ CopiesOf(c, i) \cap Queued(box) = {} =>
            SameRow(c, held, i)

(* Two collections that say the same of the copies of an issue.            *)
LEMMA SameCopies ==
    ASSUME NEW c, Tidy(c), NEW e, Tidy(e), NEW i \in Issues,
           \A k \in Copies : Home[k] = i => SameRow(c, e, k)
    PROVE  /\ CopiesOf(c, i) = CopiesOf(e, i)
           /\ ActiveCopies(c, i) = ActiveCopies(e, i)
           /\ SeveralActive(c, i) = SeveralActive(e, i)
<1>1. \A k \in CopiesOf(c, i) : k \in CopiesOf(e, i) /\ c[k] = e[k]
  BY DEF CopiesOf, Tidy, SameRow
<1>2. \A k \in CopiesOf(e, i) : k \in CopiesOf(c, i) /\ c[k] = e[k]
  BY DEF CopiesOf, Tidy, SameRow
<1>3. CopiesOf(c, i) = CopiesOf(e, i)
  BY <1>1, <1>2
<1>4. ActiveCopies(c, i) = ActiveCopies(e, i)
  BY <1>1, <1>3 DEF ActiveCopies
<1>5. SeveralActive(c, i) = SeveralActive(e, i)
  BY <1>4 DEF SeveralActive
<1> QED
  BY <1>3, <1>4, <1>5

(* Where an entry agrees with its copies, deriving its flags again changes *)
(* nothing.                                                                *)
LEMMA DerivedAlready ==
    ASSUME NEW e, IsCollection(e), FlagsAgree(e), NEW i \in Issues, i \in DOMAIN e, NEW c,
           ActiveCopies(c, i) = ActiveCopies(e, i),
           SeveralActive(c, i) = SeveralActive(e, i)
    PROVE  WithDerivedFlags(e[i], c, i) = e[i]
<1>1. PICK r : r = e[i] /\ r \in EntryData
  BY DEF IsCollection
<1>2. /\ r.owned <=> ActiveCopies(c, i) # {}
      /\ r.duplicate <=> SeveralActive(c, i)
      /\ r.wanted <=> ~r.owned /\ ~r.deleted
  BY <1>1 DEF FlagsAgree
<1>3. PICK several : several = SeveralActive(c, i) /\ several \in BOOLEAN
  BY DEF SeveralActive
<1>4. r.owned = (ActiveCopies(c, i) # {}) /\ r.duplicate = several
      /\ r.wanted = (ActiveCopies(c, i) = {} /\ ~r.deleted)
  BY <1>1, <1>2, <1>3 DEF EntryData
<1>5. [r EXCEPT !.owned = (ActiveCopies(c, i) # {}),
                !.wanted = ~(ActiveCopies(c, i) # {}) /\ ~r.deleted,
                !.duplicate = several] = r
  BY <1>1, <1>4 DEF EntryData
<1> QED
  BY <1>1, <1>3, <1>5 DEF WithDerivedFlags

(* A user's write keeps the agreement: what it changes it queues, but for  *)
(* flags it derives anew, which say what the history says.                 *)
LEMMA ToldAgrees ==
    ASSUME NEW c, IsCollection(c), Tidy(c), NEW after, Tidy(after),
           DOMAIN c \subseteq DOMAIN after, NEW held, IsCollection(held), Tidy(held),
           FlagsAgree(held), NEW box, Queued(box) \subseteq DOMAIN c, Agrees(c, box, held),
           NEW changed, Tells(c, after, changed),
           NEW new, Queued(new) = Queued(box) \cup changed
    PROVE  Agrees(after, new, held)
<1>1. \A k \in Keys \ Issues : k \notin Queued(new) => SameRow(after, held, k)
  BY DEF Agrees, Tells, SameRow
<1>2. \A i \in Issues : i \notin Queued(new) =>
          EntryOf(after, i).value = EntryOf(held, i).value
  BY DEF Agrees, Tells
<1>3. ASSUME NEW i \in Issues, i \notin Queued(new), CopiesOf(after, i) \cap Queued(new) = {}
      PROVE  SameRow(after, held, i)
  <2>1. CopiesOf(c, i) \subseteq CopiesOf(after, i)
    BY DEF CopiesOf, Tidy
  <2>2. i \notin Queued(box) /\ CopiesOf(c, i) \cap Queued(box) = {}
    BY <1>3, <2>1
  <2>3. SameRow(c, held, i)
    BY <2>2 DEF Agrees
  <2>4. i \notin changed /\ CopiesOf(after, i) \cap changed = {}
    BY <1>3
  <2>5. CASE SameRow(c, after, i)
    BY <2>3, <2>5 DEF SameRow
  <2>6. CASE Resaved(c, after, i)
    <3>1. \A k \in Copies : Home[k] = i => SameRow(c, held, k)
      <4> SUFFICES ASSUME NEW k \in Copies, Home[k] = i PROVE SameRow(c, held, k)
        OBVIOUS
      <4>1. k \notin Queued(box)
        BY <2>2 DEF CopiesOf, Tidy
      <4>2. k \in Keys \ Issues
        BY CollectionAssumption DEF Keys
      <4> QED
        BY <4>1, <4>2 DEF Agrees
    <3>2. /\ CopiesOf(c, i) = CopiesOf(held, i)
          /\ ActiveCopies(c, i) = ActiveCopies(held, i)
          /\ SeveralActive(c, i) = SeveralActive(held, i)
      BY <3>1, SameCopies
    <3>3. i \in DOMAIN held /\ CopiesOf(c, i) # {} /\ i \in DOMAIN after
      BY <2>6, <3>2 DEF Resaved, FlagsAgree
    <3>4. i \in DOMAIN c /\ c[i] = held[i]
      BY <2>3, <3>3 DEF SameRow
    <3>5. PICK r : r = held[i] /\ r \in EntryData
      BY <3>3 DEF IsCollection
    <3>6. r.deleted => ActiveCopies(c, i) = {}
      BY <3>2, <3>3, <3>5 DEF FlagsAgree
    <3>7. (r.deleted /\ ActiveCopies(c, i) = {}) = r.deleted
      BY <3>5, <3>6 DEF EntryData
    <3>8. [r EXCEPT !.deleted = @ /\ ActiveCopies(c, i) = {}] = r
      BY <3>5, <3>7 DEF EntryData
    <3>9. EntryOf(c, i) = r
      BY <3>4, <3>5 DEF EntryOf
    <3>10. after[i] = WithDerivedFlags(r, c, i)
      BY <2>6, <3>8, <3>9 DEF Resaved
    <3>11. after[i] = held[i]
      BY <3>2, <3>3, <3>5, <3>10, DerivedAlready
    <3> QED
      BY <3>3, <3>11 DEF SameRow
  <2> QED
    BY <2>4, <2>5, <2>6 DEF Tells
<1> QED
  BY <1>1, <1>2, <1>3 DEF Agrees

=============================================================================
