--------------------------- MODULE SyncServer_proof ---------------------------
(***************************************************************************)
(* One server database, for every set of issues, copies and values and     *)
(* every request: the copy authority, the log a transaction appends to and *)
(* the receipts that point into it, that the table is what replaying the   *)
(* log gives, and what the groups of the log hold.  SyncEndpoint_proof and *)
(* SyncProtocol_proof build on it.                                         *)
(***************************************************************************)
EXTENDS SyncServer, SequenceTheorems, FiniteSetTheorems, TLAPS

Replaying == INSTANCE FoldLeftTheorems WITH Op <- Overlay
Recording == INSTANCE FoldLeftTheorems WITH Op <- RecordedEntities

-----------------------------------------------------------------------------
(* The entity table.                                                       *)

(* Canonicalization writes only collection entries: the copies after it    *)
(* are those of the stored rows overlaid with the uploaded ones.           *)
LEMMA CanonicalizationKeepsCopies ==
    ASSUME NEW c, NEW changes, NEW i \in Issues
    PROVE  /\ CopiesOf(RecordedEntities(c, changes), i)
                = CopiesOf(Overlay(c, changes), i)
           /\ ActiveCopies(RecordedEntities(c, changes), i)
                = ActiveCopies(Overlay(c, changes), i)
           /\ SeveralActive(RecordedEntities(c, changes), i)
                <=> SeveralActive(Overlay(c, changes), i)
<1> DEFINE new == RecordedEntities(c, changes)
           after == Overlay(c, changes)
<1>1. AffectedIssues(changes) \cap Copies = {}
  BY CollectionAssumption DEF AffectedIssues
<1>2. /\ DOMAIN new \cap Copies = DOMAIN after \cap Copies
      /\ \A k \in DOMAIN after \cap Copies : new[k] = after[k]
  BY <1>1 DEF RecordedEntities, CanonicalizeGroup, Overlay
<1>3. CopiesOf(new, i) = CopiesOf(after, i)
  BY <1>2 DEF CopiesOf
<1>4. ActiveCopies(new, i) = ActiveCopies(after, i)
  BY <1>2, <1>3 DEF ActiveCopies, CopiesOf
<1> QED
  BY <1>3, <1>4 DEF SeveralActive

(* An issue the mutation does not touch keeps its entry and its copies.    *)
LEMMA UntouchedIssueKeepsRows ==
    ASSUME NEW c, NEW changes, ~MovesCopy(c, changes),
           NEW i \in Issues, i \notin AffectedIssues(changes)
    PROVE  LET new == RecordedEntities(c, changes) IN
           /\ i \in DOMAIN new <=> i \in DOMAIN c
           /\ i \in DOMAIN c => new[i] = c[i]
           /\ CopiesOf(new, i) = CopiesOf(c, i)
           /\ ActiveCopies(new, i) = ActiveCopies(c, i)
           /\ SeveralActive(new, i) <=> SeveralActive(c, i)
<1> DEFINE new == RecordedEntities(c, changes)
           after == Overlay(c, changes)
<1>1. i \notin DOMAIN changes /\ CopiesOf(changes, i) = {}
  BY DEF AffectedIssues
<1>2. (i \in DOMAIN new <=> i \in DOMAIN c) /\ (i \in DOMAIN c => new[i] = c[i])
  BY <1>1 DEF RecordedEntities, CanonicalizeGroup, Overlay
<1>3. \A k \in CopiesOf(c, i) \cup CopiesOf(after, i) :
          k \notin DOMAIN changes
  BY <1>1 DEF MovesCopy, CopiesOf, Overlay
<1>4. CopiesOf(after, i) = CopiesOf(c, i)
  BY <1>3 DEF CopiesOf, Overlay
<1>5. ActiveCopies(after, i) = ActiveCopies(c, i)
  BY <1>3, <1>4 DEF ActiveCopies, CopiesOf, Overlay
<1> QED
  BY <1>2, <1>4, <1>5, CanonicalizationKeepsCopies DEF SeveralActive

(* A touched issue gets the canonical entry.                               *)
LEMMA TouchedIssueGetsCanonicalEntry ==
    ASSUME NEW c, NEW changes,
           NEW i \in Issues, i \in AffectedIssues(changes)
    PROVE  /\ i \in DOMAIN RecordedEntities(c, changes)
           /\ RecordedEntities(c, changes)[i] = CanonicalEntry(c, changes, i)
BY DEF RecordedEntities, CanonicalizeGroup, Overlay

(* The entry requested by, or appended to, a well-typed mutation is one.   *)
LEMMA RequestedEntryType ==
    ASSUME NEW c, IsCollection(c), NEW changes, IsCollection(changes),
           NEW i \in Issues
    PROVE  RequestedEntry(c, changes, i) \in EntryData
<1>1. DefaultEntry \in EntryData
  BY CollectionAssumption DEF DefaultEntry, EntryData
<1> QED
  BY <1>1 DEF RequestedEntry, IsCollection

LEMMA CanonicalEntryType ==
    ASSUME NEW c, IsCollection(c), NEW changes, IsCollection(changes),
           NEW i \in Issues
    PROVE  CanonicalEntry(c, changes, i) \in EntryData
<1> DEFINE requested == RequestedEntry(c, changes, i)
           survivor == IF requested.deleted /\ i \in DOMAIN c /\ ~c[i].deleted
                       THEN c[i] ELSE requested
<1>1. requested \in EntryData
  BY RequestedEntryType
<1>2. survivor \in EntryData
  BY <1>1 DEF IsCollection
<1>3. SeveralActive(Overlay(c, changes), i) \in BOOLEAN
  BY DEF SeveralActive
<1> HIDE DEF requested, survivor
<1>4. \A a, s \in BOOLEAN :
        /\ [requested EXCEPT !.owned = FALSE, !.duplicate = FALSE,
                             !.wanted = FALSE] \in EntryData
        /\ [survivor EXCEPT !.deleted = FALSE, !.owned = a,
                            !.duplicate = s, !.wanted = ~a] \in EntryData
  BY <1>1, <1>2 DEF EntryData
<1>5. (ActiveCopies(Overlay(c, changes), i) # {}) \in BOOLEAN
  OBVIOUS
<1> QED
  BY <1>3, <1>4, <1>5 DEF CanonicalEntry, requested, survivor

(* What the canonical entry says of the copies after the mutation.         *)
LEMMA CanonicalEntryAgrees ==
    ASSUME NEW c, IsCollection(c), NEW changes, IsCollection(changes),
           NEW i \in Issues
    PROVE  LET e == CanonicalEntry(c, changes, i)
               after == Overlay(c, changes)
           IN /\ e.owned <=> ActiveCopies(after, i) # {}
              /\ e.duplicate <=> SeveralActive(after, i)
              /\ e.wanted <=> ~e.owned /\ ~e.deleted
              /\ e.deleted => ~e.owned
<1> DEFINE after == Overlay(c, changes)
           requested == RequestedEntry(c, changes, i)
           survivor == IF requested.deleted /\ i \in DOMAIN c /\ ~c[i].deleted
                       THEN c[i] ELSE requested
           active == ActiveCopies(after, i) # {}
<1>1. requested \in EntryData /\ survivor \in EntryData
  BY RequestedEntryType DEF IsCollection
<1>2. ~active => ~SeveralActive(after, i)
  BY DEF SeveralActive
<1>3. SeveralActive(after, i) \in BOOLEAN /\ active \in BOOLEAN
  BY DEF SeveralActive
<1>4. CASE requested.deleted /\ ~active
  <2>1. CanonicalEntry(c, changes, i)
          = [requested EXCEPT !.owned = FALSE, !.duplicate = FALSE,
                              !.wanted = FALSE]
    BY <1>4 DEF CanonicalEntry
  <2> QED
    BY <2>1, <1>1, <1>2, <1>4 DEF EntryData
<1>5. CASE ~(requested.deleted /\ ~active)
  <2>1. CanonicalEntry(c, changes, i)
          = [survivor EXCEPT !.deleted = FALSE, !.owned = active,
                             !.duplicate = SeveralActive(after, i),
                             !.wanted = ~active]
    BY <1>5 DEF CanonicalEntry
  <2> HIDE DEF active, survivor
  <2> QED
    BY <2>1, <1>1, <1>3 DEF EntryData, active
<1> QED
  BY <1>4, <1>5

(* Recording a mutation keeps the table a collection.                      *)
LEMMA RecordingKeepsType ==
    ASSUME NEW c, IsCollection(c), NEW changes, IsCollection(changes)
    PROVE  IsCollection(RecordedEntities(c, changes))
<1> DEFINE new == RecordedEntities(c, changes)
<1>1. AffectedIssues(changes) \subseteq Issues
  BY DEF AffectedIssues
<1>2. DOMAIN new = DOMAIN c \cup DOMAIN changes \cup AffectedIssues(changes)
  BY DEF RecordedEntities, CanonicalizeGroup, Overlay
<1>3. DOMAIN new \subseteq Keys
  BY <1>1, <1>2 DEF IsCollection, Keys
<1>4. ASSUME NEW i \in DOMAIN new \cap Issues PROVE new[i] \in EntryData
  <2>1. CASE i \in AffectedIssues(changes)
    BY <2>1, CanonicalEntryType, TouchedIssueGetsCanonicalEntry
  <2>2. CASE i \notin AffectedIssues(changes)
    BY <2>2, <1>2 DEF RecordedEntities, CanonicalizeGroup, Overlay,
                      IsCollection, AffectedIssues
  <2> QED
    BY <2>1, <2>2
<1>5. ASSUME NEW k \in DOMAIN new \cap (Copies \cup Barcodes)
      PROVE  new[k] = IF k \in DOMAIN changes THEN changes[k] ELSE c[k]
  BY <1>1, <1>2, CollectionAssumption
     DEF RecordedEntities, CanonicalizeGroup, Overlay
<1>6. ASSUME NEW k \in DOMAIN new \cap (Copies \cup Barcodes)
      PROVE  k \in DOMAIN changes \/ k \in DOMAIN c
  BY <1>1, <1>2, CollectionAssumption
<1>7. \A k \in DOMAIN new \cap Copies : new[k] \in CopyData
  BY <1>5, <1>6 DEF IsCollection
<1>8. \A k \in DOMAIN new \cap Barcodes : new[k] \in BarcodeData
  BY <1>5, <1>6 DEF IsCollection
<1> QED
  BY <1>3, <1>4, <1>7, <1>8 DEF IsCollection

(* A partial map built per kind of entity is a collection.                 *)
LEMMA GroupsAreCollections ==
    ASSUME NEW changes \in Snapshots(Issues, Copies, Barcodes)
    PROVE  IsCollection(changes)
<1>1. PICK e \in PartialMaps(Issues, EntryData),
           k \in PartialMaps(Copies, CopyData),
           b \in PartialMaps(Barcodes, BarcodeData) :
           changes = Overlay(Overlay(e, k), b)
  BY DEF Snapshots
<1>2. PICK I \in SUBSET Issues, C \in SUBSET Copies, B \in SUBSET Barcodes :
           e \in [I -> EntryData] /\ k \in [C -> CopyData]
           /\ b \in [B -> BarcodeData]
  BY DEF PartialMaps
<1>3. DOMAIN changes = I \cup C \cup B
  BY <1>1, <1>2 DEF Overlay
<1>4. \A x \in DOMAIN changes \cap Issues : x \in I /\ changes[x] = e[x]
  BY <1>1, <1>2, <1>3, CollectionAssumption DEF Overlay
<1>5. \A x \in DOMAIN changes \cap Copies : x \in C /\ changes[x] = k[x]
  BY <1>1, <1>2, <1>3, CollectionAssumption DEF Overlay
<1>6. \A x \in DOMAIN changes \cap Barcodes : x \in B /\ changes[x] = b[x]
  BY <1>1, <1>2, <1>3, CollectionAssumption DEF Overlay
<1> QED
  BY <1>2, <1>3, <1>4, <1>5, <1>6 DEF IsCollection, Keys

(* Recording an acceptable mutation keeps every derived flag right.         *)
LEMMA RecordingKeepsFlags ==
    ASSUME NEW c, IsCollection(c), FlagsAgree(c),
           NEW changes, IsCollection(changes), ~MovesCopy(c, changes)
    PROVE  FlagsAgree(RecordedEntities(c, changes))
<1> DEFINE new == RecordedEntities(c, changes)
<1>1. ASSUME NEW i \in Issues
      PROVE  /\ i \in DOMAIN new =>
                  /\ new[i].owned <=> ActiveCopies(new, i) # {}
                  /\ new[i].duplicate <=> SeveralActive(new, i)
                  /\ new[i].wanted <=> ~new[i].owned /\ ~new[i].deleted
                  /\ new[i].deleted => ~new[i].owned
             /\ CopiesOf(new, i) # {} => i \in DOMAIN new
  <2> HIDE DEF new
  <2>1. CASE i \in AffectedIssues(changes)
    BY <2>1, CanonicalEntryAgrees, TouchedIssueGetsCanonicalEntry,
       CanonicalizationKeepsCopies DEF new
  <2>2. CASE i \notin AffectedIssues(changes)
    BY <2>2, UntouchedIssueKeepsRows DEF new, FlagsAgree
  <2> QED
    BY <2>1, <2>2
<1> QED
  BY <1>1 DEF FlagsAgree

(* A table without rows is one.                                            *)
LEMMA NothingIsCollection == IsCollection(<< >>) /\ FlagsAgree(<< >>)
BY DEF IsCollection, FlagsAgree, CopiesOf

(* The table always holds well-typed snapshots.                            *)
THEOREM EntitiesType == EntitiesSpec => []EntitiesTypeOK
<1>1. InitEntities => EntitiesTypeOK
  BY DEF InitEntities, EntitiesTypeOK, IsCollection
<1>2. EntitiesTypeOK /\ [NextEntities]_entities => EntitiesTypeOK'
  <2> SUFFICES ASSUME EntitiesTypeOK, [NextEntities]_entities
               PROVE  EntitiesTypeOK'
    OBVIOUS
  <2>1. CASE UNCHANGED entities
    BY <2>1 DEF EntitiesTypeOK
  <2>2. CASE NextEntities
    <3>1. PICK changes \in Snapshots(Issues, Copies, Barcodes) :
              RecordMutation(changes)
      BY <2>2 DEF NextEntities
    <3>2. IsCollection(changes)
      BY GroupsAreCollections
    <3> QED
      BY <3>1, <3>2, RecordingKeepsType DEF RecordMutation, EntitiesTypeOK
  <2> QED
    BY <2>1, <2>2
<1> QED
  BY <1>1, <1>2, PTL DEF EntitiesSpec

(* An entry's derived flags always agree with the copies on its shelf.     *)
THEOREM DerivedFlags == EntitiesSpec => []DerivedFlagsAgree
<1>1. InitEntities => DerivedFlagsAgree
  BY NothingIsCollection DEF InitEntities, DerivedFlagsAgree
<1>2. EntitiesTypeOK /\ DerivedFlagsAgree /\ [NextEntities]_entities
        => DerivedFlagsAgree'
  <2> SUFFICES ASSUME EntitiesTypeOK, DerivedFlagsAgree,
                      [NextEntities]_entities
               PROVE  DerivedFlagsAgree'
    OBVIOUS
  <2>1. CASE UNCHANGED entities
    BY <2>1 DEF DerivedFlagsAgree
  <2>2. CASE NextEntities
    <3>1. PICK changes \in Snapshots(Issues, Copies, Barcodes) :
              RecordMutation(changes)
      BY <2>2 DEF NextEntities
    <3> QED
      BY <3>1, GroupsAreCollections, RecordingKeepsFlags
         DEF RecordMutation, EntitiesTypeOK, DerivedFlagsAgree
  <2> QED
    BY <2>1, <2>2
<1> QED
  BY <1>1, <1>2, EntitiesType, PTL DEF EntitiesSpec

(* A live entry is hidden only once no active copy of it is left.          *)
THEOREM ObservedRemoveHolds == EntitiesSpec => ObservedRemove
<1>1. EntitiesTypeOK /\ EntitiesTypeOK' /\ DerivedFlagsAgree'
        /\ [NextEntities]_entities
        => [\A i \in Issues : Live(entities, i) =>
              \/ Live(entities', i)
              \/ ActiveCopies(entities', i) = {}]_entities
  <2> SUFFICES ASSUME EntitiesTypeOK', DerivedFlagsAgree', NextEntities,
                      NEW i \in Issues, Live(entities, i)
               PROVE  Live(entities', i) \/ ActiveCopies(entities', i) = {}
    OBVIOUS
  <2>1. i \in DOMAIN entities'
    BY DEF NextEntities, RecordMutation, RecordedEntities, Overlay, Live
  <2> QED
    BY <2>1 DEF DerivedFlagsAgree, FlagsAgree, Live, EntitiesTypeOK,
                IsCollection, EntryData
<1> QED
  BY <1>1, EntitiesType, DerivedFlags, PTL DEF EntitiesSpec, ObservedRemove

-----------------------------------------------------------------------------
(* The log and the receipts.                                               *)

(* m continues l: the same groups at the same revisions, perhaps more.     *)
Continues(l, m) ==
    Len(l) <= Len(m) /\ \A r \in 1..Len(l) : m[r] = l[r]

(* A sequence of groups is typed by its own groups.                        *)
LEMMA TypedByItself ==
    ASSUME NEW S, NEW l \in Seq(S),
           \A r \in 1..Len(l) : l[r] \in [mutation: MutationIds, changes: {l[r].changes}]
    PROVE  l \in Seq(Groups(l))
<1>1. /\ Len(l) \in Nat /\ DOMAIN l = 1..Len(l) /\ l \in [1..Len(l) -> S]
  BY LenProperties
<1>2. \A r \in 1..Len(l) : l[r] \in Groups(l)
  BY <1>1 DEF Groups
<1>3. l \in [1..Len(l) -> Groups(l)]
  BY <1>1, <1>2
<1> QED
  BY <1>1, <1>3, SeqDef

(* Every group of a typed log has a mutation id.                           *)
LEMMA LogShape ==
    ASSUME HistoryTyped
    PROVE  /\ Len(log) \in Nat /\ DOMAIN log = 1..Len(log)
           /\ \A r \in 1..Len(log) :
                log[r] \in [mutation: MutationIds, changes: {log[r].changes}]
<1>1. log \in Seq(Groups(log))
  BY DEF HistoryTyped
<1>2. Len(log) \in Nat /\ DOMAIN log = 1..Len(log)
  BY <1>1, LenProperties
<1>3. ASSUME NEW r \in 1..Len(log)
      PROVE  log[r] \in [mutation: MutationIds, changes: {log[r].changes}]
  <2>1. log[r] \in Groups(log)
    BY <1>1, ElementOfSeq
  <2> QED
    BY <2>1 DEF Groups
<1> QED
  BY <1>2, <1>3

(* Sequences that agree on a window have the same subsequence there.       *)
LEMMA SameWindow ==
    ASSUME NEW l, NEW m, NEW a \in Int, NEW b \in Int,
           \A i \in a..b : m[i] = l[i]
    PROVE  SubSeq(l, a, b) = SubSeq(m, a, b)
<1> DEFINE S == {l[i] : i \in a..b}
<1>1. \A i \in a..b : l[i] \in S /\ m[i] \in S
  OBVIOUS
<1> HIDE DEF S
<1>2. /\ SubSeq(l, a, b) \in Seq(S)
      /\ Len(SubSeq(l, a, b)) = IF a <= b THEN b - a + 1 ELSE 0
      /\ \A i \in 1..(b - a + 1) : SubSeq(l, a, b)[i] = l[a + i - 1]
  BY <1>1, SubSeqProperties
<1>3. /\ SubSeq(m, a, b) \in Seq(S)
      /\ Len(SubSeq(m, a, b)) = IF a <= b THEN b - a + 1 ELSE 0
      /\ \A i \in 1..(b - a + 1) : SubSeq(m, a, b)[i] = m[a + i - 1]
  BY <1>1, SubSeqProperties
<1>4. \A i \in 1..Len(SubSeq(l, a, b)) : SubSeq(l, a, b)[i] = SubSeq(m, a, b)[i]
  BY <1>2, <1>3
<1> QED
  BY <1>2, <1>3, <1>4, SeqEqual

(* A log that continues another has it as a prefix.                        *)
LEMMA ContinuationHasPrefix ==
    ASSUME NEW l, NEW m, Len(l) \in Nat, Continues(l, m)
    PROVE  IsPrefix(l, m)
<1>1. \A i \in 1..Len(l) : m[i] = l[i]
  BY DEF Continues
<1>2. SubSeq(l, 1, Len(l)) = SubSeq(m, 1, Len(l))
  BY <1>1, SameWindow
<1> QED
  BY <1>2 DEF IsPrefix, Continues

(* A page of the history stays one while the history only grows.           *)
LEMMA PagesPersist ==
    ASSUME HistoryTyped, HistoryTyped', Continues(log, log'), NEW req, IsRequest(req),
           NEW page, PageIsHistory(req, page)
    PROVE  PageIsHistory(req, page)'
<1> DEFINE a == page.cursor + 1
           b == page.nextCursor
<1>0. page.cursor \in Nat
  BY DEF IsRequest, PageIsHistory
<1>1. /\ Len(log) \in Nat /\ DOMAIN log = 1..Len(log)
      /\ Len(log') \in Nat /\ DOMAIN log' = 1..Len(log')
  <2>1. log \in Seq(Groups(log)) /\ log' \in Seq(Groups(log)')
    BY DEF HistoryTyped
  <2> QED
    BY <2>1, LenProperties
<1>2. b \in page.cursor..Len(log) /\ b \in page.cursor..Len(log')
  BY <1>0, <1>1 DEF PageIsHistory, Continues
<1>3. SubSeq(log, a, b) = SubSeq(log', a, b)
  <2>1. a \in Int /\ b \in Int /\ \A i \in a..b : log'[i] = log[i]
    BY <1>0, <1>1, <1>2 DEF Continues
  <2> HIDE DEF a, b
  <2> QED
    BY <2>1, SameWindow
<1>4. \A r \in DOMAIN log : r \in DOMAIN log' /\ log'[r] = log[r]
  BY <1>1 DEF Continues
<1> QED
  BY <1>2, <1>3, <1>4 DEF PageIsHistory
-----------------------------------------------------------------------------
(* What one committed exchange does to log and receipts: the log continues *)
(* with mutations it did not hold, and each new receipt names the one new  *)
(* group of its mutation.                                                  *)
Grows ==
    /\ Continues(log, log')
    /\ log' \in Seq(Groups(log'))
    /\ DOMAIN receipts' \subseteq MutationIds
    /\ \A m \in DOMAIN receipts : m \in DOMAIN receipts' /\ receipts'[m] = receipts[m]
    /\ \A m \in DOMAIN receipts' \ DOMAIN receipts :
          /\ receipts'[m].revision \in Len(log) + 1..Len(log')
          /\ log'[receipts'[m].revision].mutation = m
          /\ \A r \in DOMAIN log : log[r].mutation # m
    /\ \A r \in Len(log) + 1..Len(log') :
          /\ log'[r].mutation \in DOMAIN receipts' \ DOMAIN receipts
          /\ receipts'[log'[r].mutation].revision = r

(* The new groups and receipts, in the order of the positions they have.   *)
Appends(req, order) ==
    /\ Len(log') = Len(log) + Cardinality(FreshPositions(req))
    /\ \A k \in 1..Cardinality(FreshPositions(req)) :
         LET m == req.mutations[order[k]] IN
         /\ log'[Len(log) + k].mutation = m.id
         /\ log'[Len(log) + k].changes
              = CanonicalizeGroup(EntitiesBefore(req, order[k]), m.changes)
         /\ receipts'[m.id] = [revision |-> Len(log) + k, payload |-> m.changes]

(* The end of a range of positions.                                        *)
LEMMA SameEnd == \A m, n \in Nat : 1..m = 1..n => m = n
OBVIOUS

LEMMA CommitGrows ==
    ASSUME HistoryTyped, NEW req, IsRequest(req), NEW n, Commit(req, n)
    PROVE  /\ Grows
           /\ \A p \in DOMAIN req.mutations : req.mutations[p].id \in DOMAIN receipts'
           /\ \E order \in Enumerations(FreshPositions(req)) : Appends(req, order)
<1> DEFINE F == FreshPositions(req)
           id(p) == req.mutations[p].id
           N == Len(log)
<1>1. PICK order \in Enumerations(F) :
        /\ log' = log \o [k \in DOMAIN order |->
             [mutation |-> id(order[k]),
              changes |-> CanonicalizeGroup(EntitiesBefore(req, order[k]),
                                            req.mutations[order[k]].changes)]]
        /\ receipts' =
             [m \in DOMAIN receipts \cup {id(order[k]) : k \in DOMAIN order} |->
                IF m \in DOMAIN receipts THEN receipts[m]
                ELSE LET k == CHOOSE k \in DOMAIN order : id(order[k]) = m
                     IN [revision |-> N + k,
                         payload |-> req.mutations[order[k]].changes]]
  BY DEF Commit
<1>2. /\ F \subseteq 1..Len(req.mutations)
      /\ \A p \in DOMAIN req.mutations : id(p) \in MutationIds
      /\ \A p, q \in DOMAIN req.mutations : id(p) = id(q) => p = q
      /\ DOMAIN req.mutations = 1..Len(req.mutations) /\ Len(req.mutations) \in Nat
      /\ \A p \in F : id(p) \notin DOMAIN receipts
      /\ \A p \in DOMAIN req.mutations \ F : id(p) \in DOMAIN receipts
      /\ \A p \in F : p \in DOMAIN req.mutations
  BY DEF IsRequest, FreshPositions, WellFormed
<1>3. Cardinality(F) \in Nat
  <2>1. IsFiniteSet(1..Len(req.mutations))
    BY <1>2, FS_Interval
  <2> HIDE DEF F
  <2>2. IsFiniteSet(F)
    BY <1>2, <2>1, FS_Subset
  <2> QED
    BY <2>2, FS_CardinalityType
<1>4. /\ DOMAIN order = 1..Cardinality(F)
      /\ \A k \in DOMAIN order : order[k] \in F
      /\ \A j, k \in DOMAIN order : j < k => order[j] < order[k]
      /\ \A p \in F : \E k \in DOMAIN order : order[k] = p
  BY DEF Enumerations
<1>5. \A j, k \in DOMAIN order : id(order[j]) = id(order[k]) => j = k
  <2>1. SUFFICES ASSUME NEW j \in DOMAIN order, NEW k \in DOMAIN order,
                        id(order[j]) = id(order[k])
                 PROVE  j = k
    OBVIOUS
  <2>2. order[j] = order[k] /\ order[j] \in Nat
    BY <1>2, <1>4, <2>1
  <2> QED
    BY <1>3, <1>4, <2>2
<1>6. \A p \in F : \A r \in DOMAIN log : log[r].mutation # id(p)
  <2>1. ~ReusesMutationId(req)
    BY DEF Commit, Verdict
  <2> QED
    BY <1>2, <2>1 DEF ReusesMutationId
<1> DEFINE new == [k \in DOMAIN order |->
             [mutation |-> id(order[k]),
              changes |-> CanonicalizeGroup(EntitiesBefore(req, order[k]),
                                            req.mutations[order[k]].changes)]]
           C == Cardinality(F)
           T == {new[k] : k \in 1..C}
<1>7. new \in Seq(T) /\ Len(new) = C
  <2>1. new \in [1..C -> T]
    BY <1>4
  <2>2. new \in Seq(T)
    BY <1>3, <2>1, SeqDef
  <2>3. C \in Nat
    BY <1>3
  <2> HIDE DEF new, T, C
  <2>4. Len(new) \in Nat /\ DOMAIN new = 1..Len(new)
    BY <2>2, LenProperties
  <2>5. DOMAIN new = 1..C
    BY <2>1
  <2> QED
    BY <2>2, <2>3, <2>4, <2>5, SameEnd, Zenon
<1>8. /\ Len(log) \in Nat /\ DOMAIN log = 1..N
      /\ \A r \in 1..N :
           log[r] \in [mutation: MutationIds, changes: {log[r].changes}]
  BY LogShape
<1>9. /\ log' \in Seq(Groups(log) \cup T) /\ Len(log') = N + C
      /\ \A r \in 1..N : log'[r] = log[r]
      /\ \A k \in 1..C : log'[N + k] = new[k]
  <2>1. log \in Seq(Groups(log) \cup T) /\ new \in Seq(Groups(log) \cup T)
    BY <1>7, SeqMonotonic DEF HistoryTyped
  <2>2. log' = log \o new
    BY <1>1
  <2> HIDE DEF new, T, C
  <2>3. /\ log' \in Seq(Groups(log) \cup T) /\ Len(log') = N + C
        /\ \A i \in 1..N + C : log'[i] = IF i <= N THEN log[i] ELSE new[i - N]
    BY <1>7, <2>1, <2>2, ConcatProperties
  <2>4. C \in Nat
    BY <1>3 DEF C
  <2> QED
    BY <1>8, <2>3, <2>4
<1>10. \A k \in 1..C :
          /\ log'[N + k].mutation = id(order[k])
          /\ log'[N + k] \in [mutation: MutationIds, changes: {log'[N + k].changes}]
  <2>1. ASSUME NEW k \in 1..C
        PROVE  /\ new[k].mutation = id(order[k])
               /\ new[k] \in [mutation: MutationIds, changes: {new[k].changes}]
    <3>1. order[k] \in DOMAIN req.mutations /\ id(order[k]) \in MutationIds
      BY <1>2, <1>4
    <3>2. new[k] = [mutation |-> id(order[k]),
                    changes |-> CanonicalizeGroup(EntitiesBefore(req, order[k]),
                                                  req.mutations[order[k]].changes)]
      BY <1>4
    <3> QED
      BY <3>1, <3>2
  <2> HIDE DEF new, C, T
  <2> QED
    BY <1>9, <2>1
<1>11. log' \in Seq(Groups(log'))
  <2>1. C \in Nat
    BY <1>3
  <2> HIDE DEF new, C, T, id
  <2>2. \A r \in 1..Len(log') :
           log'[r] \in [mutation: MutationIds, changes: {log'[r].changes}]
    <3>1. SUFFICES ASSUME NEW r \in 1..Len(log')
                   PROVE  log'[r] \in [mutation: MutationIds, changes: {log'[r].changes}]
      OBVIOUS
    <3>2. CASE r \in 1..N
      BY <1>8, <1>9, <3>2
    <3>3. CASE r \notin 1..N
      <4>1. r - N \in 1..C /\ N + (r - N) = r
        BY <1>8, <1>9, <2>1, <3>1, <3>3
      <4> QED
        BY <1>10, <4>1
    <3> QED
      BY <3>2, <3>3
  <2> QED
    BY <1>9, <2>2, TypedByItself
<1>12. Continues(log, log')
  BY <1>3, <1>8, <1>9 DEF Continues
<1>13. /\ DOMAIN receipts' = DOMAIN receipts \cup {id(order[k]) : k \in DOMAIN order}
       /\ \A m \in DOMAIN receipts : receipts'[m] = receipts[m]
       /\ \A k \in DOMAIN order : id(order[k]) \notin DOMAIN receipts
  <2> HIDE DEF new, C, T, id, N, F
  <2> QED
    BY <1>1, <1>2, <1>4
<1>14. \A k \in DOMAIN order :
         receipts'[id(order[k])]
           = [revision |-> N + k, payload |-> req.mutations[order[k]].changes]
  <2>1. SUFFICES ASSUME NEW k \in DOMAIN order
                 PROVE  receipts'[id(order[k])]
                          = [revision |-> N + k,
                             payload |-> req.mutations[order[k]].changes]
    OBVIOUS
  <2>2. (CHOOSE j \in DOMAIN order : id(order[j]) = id(order[k])) = k
    BY <1>5, <2>1
  <2> HIDE DEF id, N, F
  <2> QED
    BY <1>1, <1>13, <2>2
<1>22. ASSUME NEW k \in DOMAIN order
       PROVE  receipts'[id(order[k])].revision = N + k
  <2>1. PICK receipt : /\ receipt = receipts'[id(order[k])]
                       /\ receipt = [revision |-> N + k,
                                     payload |-> req.mutations[order[k]].changes]
    BY <1>14
  <2>2. receipt.revision = N + k
    BY <2>1
  <2> QED
    BY <2>1, <2>2
<1>15. DOMAIN receipts' \subseteq MutationIds
  BY <1>2, <1>4, <1>13 DEF HistoryTyped
<1>16. ASSUME NEW m \in DOMAIN receipts' \ DOMAIN receipts
       PROVE  /\ receipts'[m].revision \in Len(log) + 1..Len(log')
              /\ log'[receipts'[m].revision].mutation = m
              /\ \A r \in DOMAIN log : log[r].mutation # m
  <2>1. PICK k \in DOMAIN order : id(order[k]) = m
    BY <1>13
  <2>2. receipts'[m].revision = N + k /\ k \in 1..C
    BY <1>4, <1>22, <2>1
  <2>3. order[k] \in F
    BY <1>4
  <2> QED
    BY <1>3, <1>6, <1>8, <1>9, <1>10, <2>1, <2>2, <2>3
<1>17. ASSUME NEW r \in Len(log) + 1..Len(log')
       PROVE  /\ log'[r].mutation \in DOMAIN receipts' \ DOMAIN receipts
              /\ receipts'[log'[r].mutation].revision = r
  <2>1. r - N \in 1..C /\ N + (r - N) = r
    BY <1>3, <1>8, <1>9
  <2>2. log'[r].mutation = id(order[r - N])
    BY <1>10, <2>1
  <2>3. r - N \in DOMAIN order
    BY <1>4, <2>1
  <2> QED
    BY <1>13, <1>22, <2>1, <2>2, <2>3
<1>18. \A p \in DOMAIN req.mutations : req.mutations[p].id \in DOMAIN receipts'
  BY <1>2, <1>4, <1>13
<1>19. \A m \in DOMAIN receipts : m \in DOMAIN receipts'
  BY <1>13
<1>20. Grows
  BY <1>11, <1>12, <1>13, <1>15, <1>16, <1>17, <1>19 DEF Grows
<1>21. Appends(req, order)
  <2>1. \A k \in 1..C : new[k].changes
          = CanonicalizeGroup(EntitiesBefore(req, order[k]),
                              req.mutations[order[k]].changes)
    BY <1>4
  <2> HIDE DEF new, T
  <2> QED
    BY <1>4, <1>9, <1>10, <1>14, <2>1 DEF Appends
<1> QED
  BY <1>18, <1>20, <1>21

(* Growing keeps each mutation recorded once and each receipt in place.    *)
LEMMA GrowthKeepsHistory ==
    ASSUME HistoryTyped, RecordedOnce, ReceiptsMatchLog, Grows
    PROVE  /\ RecordedOnce' /\ ReceiptsMatchLog'
           /\ \A m \in DOMAIN receipts' : receipts'[m].revision \in Nat
<1>1. /\ Len(log) \in Nat /\ DOMAIN log = 1..Len(log)
      /\ Len(log') \in Nat /\ DOMAIN log' = 1..Len(log')
  BY LogShape, LenProperties DEF Grows
<1>2. \A r \in DOMAIN log' : r \in DOMAIN log \/ r \in Len(log) + 1..Len(log')
  BY <1>1
<1>3. \A r \in DOMAIN log : log'[r] = log[r] /\ r \in DOMAIN log'
  BY <1>1 DEF Grows, Continues
<1>4. \A m \in DOMAIN receipts' : /\ receipts'[m].revision \in DOMAIN log'
                                 /\ log'[receipts'[m].revision].mutation = m
  <2>1. SUFFICES ASSUME NEW m \in DOMAIN receipts'
                 PROVE  /\ receipts'[m].revision \in DOMAIN log'
                        /\ log'[receipts'[m].revision].mutation = m
    OBVIOUS
  <2>2. CASE m \in DOMAIN receipts
    BY <1>3, <2>2 DEF Grows, ReceiptsMatchLog
  <2>3. CASE m \notin DOMAIN receipts
    BY <1>1, <2>3 DEF Grows
  <2> QED
    BY <2>2, <2>3
<1>5. RecordedOnce'
  <2>1. SUFFICES ASSUME NEW r \in DOMAIN log', NEW s \in DOMAIN log',
                        log'[r].mutation = log'[s].mutation
                 PROVE  r = s
    BY DEF RecordedOnce
  <2>2. CASE r \in DOMAIN log /\ s \in DOMAIN log
    BY <1>3, <2>1, <2>2 DEF RecordedOnce
  <2>3. CASE r \notin DOMAIN log /\ s \notin DOMAIN log
    BY <1>2, <2>1, <2>3 DEF Grows
  <2>4. CASE r \in DOMAIN log /\ s \notin DOMAIN log
    BY <1>2, <1>3, <2>1, <2>4 DEF Grows
  <2>5. CASE r \notin DOMAIN log /\ s \in DOMAIN log
    BY <1>2, <1>3, <2>1, <2>5 DEF Grows
  <2> QED
    BY <2>2, <2>3, <2>4, <2>5
<1>6. \A r \in DOMAIN log' :
         log'[r].mutation \in DOMAIN receipts' \/ log'[r].mutation \in InternalIds
  BY <1>2, <1>3 DEF Grows, ReceiptsMatchLog
<1>7. \A m \in DOMAIN receipts' : receipts'[m].revision \in Nat
  BY <1>1, <1>4
<1> QED
  BY <1>4, <1>5, <1>6, <1>7 DEF ReceiptsMatchLog
(* The page a commit computes is a page of the history it leaves behind.   *)
LEMMA ComputedPage ==
    ASSUME HistoryTyped', ReceiptsMatchLog', NEW req, IsRequest(req), NEW n, NEW page,
           page = Page(log', receipts', req, n),
           req.cursor <= Len(log'), n \in PageSizes(log', req),
           \A p \in DOMAIN req.mutations : req.mutations[p].id \in DOMAIN receipts'
    PROVE  PageIsHistory(req, page)'
<1>1. req.cursor \in Nat
  BY DEF IsRequest
<1>2. Len(log') \in Nat
  BY LenProperties DEF HistoryTyped
<1>3. req.cursor + n \in req.cursor..Len(log')
  BY <1>1, <1>2, ServerAssumption DEF PageSizes, ServerAssumption
<1> DEFINE sent == {req.mutations[p].id : p \in DOMAIN req.mutations}
<1>4. \A m \in sent : /\ receipts'[m].revision \in DOMAIN log'
                     /\ log'[receipts'[m].revision].mutation = m
  BY DEF HistoryTyped, ReceiptsMatchLog
<1>5. /\ page.cursor = req.cursor /\ page.nextCursor = req.cursor + n
      /\ page.groups = SubSeq(log', req.cursor + 1, req.cursor + n)
      /\ page.acks = [m \in sent |-> receipts'[m].revision]
      /\ req.cursor + n < Len(log') => page.hasMore
  BY DEF Page
<1>6. \A m \in sent : page.acks[m] <= page.nextCursor \/ page.hasMore
  <2>1. \A r \in DOMAIN log' : r \in 1..Len(log')
    BY LenProperties DEF HistoryTyped
  <2>2. n \in Int
    BY ServerAssumption DEF PageSizes, ServerAssumption
  <2> HIDE DEF sent
  <2>3. SUFFICES ASSUME NEW m \in sent
                 PROVE  page.acks[m] <= page.nextCursor \/ page.hasMore
    OBVIOUS
  <2>4. page.acks[m] \in 1..Len(log')
    BY <1>4, <1>5, <2>1
  <2> QED
    BY <1>1, <1>2, <1>5, <2>2, <2>4
<1>7. DOMAIN page.acks = sent
  BY <1>5
<1>8. \A m \in sent : page.acks[m] \in DOMAIN log' /\ log'[page.acks[m]].mutation = m
  BY <1>4, <1>5
<1> QED
  BY <1>3, <1>5, <1>6, <1>7, <1>8 DEF PageIsHistory

-----------------------------------------------------------------------------
(* Replaying the log.                                                      *)

LEMMA ReplayedNone ==
    ASSUME NEW l
    PROVE  Replayed(l, 0) = << >>
<1> DEFINE seq == [r \in 1..0 |-> l[r].changes]
<1>1. DOMAIN seq = {}
  OBVIOUS
<1>2. Replayed(l, 0) = Replaying!Fold(<< >>, seq)
  BY DEF Replayed, FoldLeft, MapThenFoldSet, Max, Replaying!Fold,
         Replaying!FoldLeft, Replaying!MapThenFoldSet, Replaying!Max
<1> HIDE DEF seq
<1> QED
  BY <1>1, <1>2, Replaying!FoldOfNone

LEMMA ReplayedNext ==
    ASSUME NEW l, NEW n \in Nat
    PROVE  Replayed(l, n + 1) = Overlay(Replayed(l, n), l[n + 1].changes)
<1> DEFINE seq == [r \in 1..n + 1 |-> l[r].changes]
           before == [r \in 1..n |-> l[r].changes]
<1>1. /\ DOMAIN seq = 1..n + 1 /\ DOMAIN before = 1..n
      /\ \A i \in 1..n : before[i] = seq[i]
      /\ seq[n + 1] = l[n + 1].changes
  OBVIOUS
<1>2. /\ Replayed(l, n + 1) = Replaying!Fold(<< >>, seq)
      /\ Replayed(l, n) = Replaying!Fold(<< >>, before)
  BY DEF Replayed, FoldLeft, MapThenFoldSet, Max, Replaying!Fold,
         Replaying!FoldLeft, Replaying!MapThenFoldSet, Replaying!Max
<1> HIDE DEF seq, before
<1>3. Replaying!Fold(<< >>, seq) = Overlay(Replaying!Fold(<< >>, before), seq[n + 1])
  BY <1>1, Replaying!FoldOfNext
<1> QED
  BY <1>1, <1>2, <1>3

(* A reader who has applied n groups does not care what follows.           *)
LEMMA ReplayedSame ==
    ASSUME NEW l, NEW m, NEW n \in Nat, \A r \in 1..n : m[r] = l[r]
    PROVE  Replayed(m, n) = Replayed(l, n)
<1> DEFINE seq == [r \in 1..n |-> l[r].changes]
           other == [r \in 1..n |-> m[r].changes]
<1>1. /\ DOMAIN seq = 1..n /\ DOMAIN other = 1..n
      /\ \A i \in 1..n : seq[i] = other[i]
  OBVIOUS
<1>2. Replayed(l, n) = Replaying!Fold(<< >>, seq) /\ Replayed(m, n) = Replaying!Fold(<< >>, other)
  BY DEF Replayed, FoldLeft, MapThenFoldSet, Max, Replaying!Fold,
         Replaying!FoldLeft, Replaying!MapThenFoldSet, Replaying!Max
<1> HIDE DEF seq, other
<1>3. Replaying!Fold(<< >>, seq) = Replaying!Fold(<< >>, other)
  BY <1>1, Replaying!FoldOfSame
<1> QED
  BY <1>2, <1>3

LEMMA EntitiesBeforeFirst ==
    ASSUME NEW req
    PROVE  EntitiesBefore(req, 1) = entities
<1> DEFINE seq == [q \in 1..(1 - 1) |-> NewChanges(req, q)]
<1>1. DOMAIN seq = {}
  OBVIOUS
<1>2. EntitiesBefore(req, 1) = Recording!Fold(entities, seq)
  BY DEF EntitiesBefore, FoldLeft, MapThenFoldSet, Max, Recording!Fold,
         Recording!FoldLeft, Recording!MapThenFoldSet, Recording!Max
<1> HIDE DEF seq
<1> QED
  BY <1>1, <1>2, Recording!FoldOfNone

LEMMA EntitiesBeforeNext ==
    ASSUME NEW req, NEW p \in Nat
    PROVE  EntitiesBefore(req, p + 2)
             = RecordedEntities(EntitiesBefore(req, p + 1), NewChanges(req, p + 1))
<1> DEFINE seq == [q \in 1..((p + 2) - 1) |-> NewChanges(req, q)]
           before == [q \in 1..((p + 1) - 1) |-> NewChanges(req, q)]
<1>1. /\ DOMAIN seq = 1..p + 1 /\ DOMAIN before = 1..p
      /\ \A i \in 1..p : before[i] = seq[i]
      /\ seq[p + 1] = NewChanges(req, p + 1)
  OBVIOUS
<1>2. /\ EntitiesBefore(req, p + 2) = Recording!Fold(entities, seq)
      /\ EntitiesBefore(req, p + 1) = Recording!Fold(entities, before)
  BY DEF EntitiesBefore, FoldLeft, MapThenFoldSet, Max, Recording!Fold,
         Recording!FoldLeft, Recording!MapThenFoldSet, Recording!Max
<1> HIDE DEF seq, before
<1>3. Recording!Fold(entities, seq)
        = RecordedEntities(Recording!Fold(entities, before), seq[p + 1])
  BY <1>1, Recording!FoldOfNext
<1> QED
  BY <1>1, <1>2, <1>3

(* The rows of a table and of a mutation are rows of the table after it.   *)
LEMMA OverlayIsCollection ==
    ASSUME NEW c, IsCollection(c), NEW changes, IsCollection(changes)
    PROVE  IsCollection(Overlay(c, changes))
BY DEF Overlay, IsCollection

LEMMA GroupIsCollection ==
    ASSUME NEW c, IsCollection(c), NEW changes, IsCollection(changes)
    PROVE  IsCollection(CanonicalizeGroup(c, changes))
<1> DEFINE derived == [i \in AffectedIssues(changes) |-> CanonicalEntry(c, changes, i)]
<1>1. \A i \in AffectedIssues(changes) : i \in Issues /\ derived[i] \in EntryData
  BY CanonicalEntryType DEF AffectedIssues
<1>2. DOMAIN derived = AffectedIssues(changes)
  OBVIOUS
<1> HIDE DEF derived
<1>3. IsCollection(derived)
  BY <1>1, <1>2, CollectionAssumption DEF IsCollection, Keys
<1> QED
  BY <1>3, OverlayIsCollection DEF CanonicalizeGroup, derived

(* What a log of collections replays to is one.                            *)
LEMMA ReplayedIsCollection ==
    ASSUME NEW l, NEW n \in Nat, \A r \in 1..n : IsCollection(l[r].changes)
    PROVE  IsCollection(Replayed(l, n))
<1> DEFINE S == {k \in Nat : k <= n => IsCollection(Replayed(l, k))}
<1>1. 0 \in S
  BY ReplayedNone, NothingIsCollection
<1>2. ASSUME NEW k \in Nat, k \in S PROVE k + 1 \in S
  <2> SUFFICES ASSUME k + 1 <= n PROVE IsCollection(Replayed(l, k + 1))
    OBVIOUS
  <2>1. IsCollection(Replayed(l, k)) /\ IsCollection(l[k + 1].changes)
    BY <1>2
  <2> QED
    BY <2>1, ReplayedNext, OverlayIsCollection
<1>3. n \in S
  BY <1>1, <1>2, Replaying!NatSetInduction
<1> QED
  BY <1>3

(* A duplicate adds nothing to a table.                                    *)
LEMMA NothingRecorded ==
    ASSUME NEW c, c = << >> \/ \E d, e : c = Overlay(d, e)
    PROVE  RecordedEntities(c, << >>) = c
<1>1. AffectedIssues(<< >>) = {}
  BY DEF AffectedIssues, CopiesOf
<1>2. DOMAIN CanonicalizeGroup(c, << >>) = {}
  BY <1>1 DEF CanonicalizeGroup, Overlay
<1>3. c = [k \in DOMAIN c |-> c[k]]
  <2>1. CASE c = << >>
    BY <2>1
  <2>2. CASE \E d, e : c = Overlay(d, e)
    <3>1. PICK d, e : c = Overlay(d, e)
      BY <2>2
    <3>2. \A f, D : f = [k \in D |-> f[k]] => f = [k \in DOMAIN f |-> f[k]]
      OBVIOUS
    <3>3. c = [k \in DOMAIN d \cup DOMAIN e |-> c[k]]
      BY <3>1 DEF Overlay
    <3> QED
      BY <3>2, <3>3
  <2> QED
    BY <2>1, <2>2
<1> QED
  BY <1>2, <1>3 DEF RecordedEntities, Overlay

LEMMA ReplayedIsTable ==
    ASSUME NEW l, NEW n \in Nat
    PROVE  RecordedEntities(Replayed(l, n), << >>) = Replayed(l, n)
<1>1. CASE n = 0
  BY <1>1, ReplayedNone, NothingRecorded
<1>2. CASE n # 0
  <2>1. n - 1 \in Nat /\ n = (n - 1) + 1
    BY <1>2
  <2>2. Replayed(l, n) = Overlay(Replayed(l, n - 1), l[n].changes)
    BY <2>1, ReplayedNext
  <2> QED
    BY <2>2, NothingRecorded
<1> QED
  BY <1>1, <1>2

-----------------------------------------------------------------------------
(* Every receipt belongs to a group canonicalized against what a reader    *)
(* held just before it.                                                    *)
ReceiptsAreCanonical ==
    \A m \in DOMAIN receipts :
        /\ IsCollection(receipts[m].payload)
        /\ log[receipts[m].revision].changes
             = CanonicalizeGroup(EntitiesAt(receipts[m].revision - 1),
                                 receipts[m].payload)

GroupsAreRows == \A r \in DOMAIN log : IsCollection(log[r].changes)

HistoryReplays ==
    /\ EntitiesReplayLog /\ GroupsAreRows /\ ReceiptsAreCanonical
    /\ IsCollection(entities) /\ DerivedFlagsAgree

(* A log that continues another replays to the same tables as far as it.   *)
LEMMA ReplayPersists ==
    ASSUME NEW l, NEW m, Len(l) \in Nat, Continues(l, m)
    PROVE  \A n \in 0..Len(l) : Replayed(m, n) = Replayed(l, n)
<1> SUFFICES ASSUME NEW n \in 0..Len(l) PROVE Replayed(m, n) = Replayed(l, n)
  OBVIOUS
<1>1. \A r \in 1..n : m[r] = l[r]
  BY DEF Continues
<1> QED
  BY <1>1, ReplayedSame

(* Just before a position of a committed request the table is what the new *)
(* log replays to as far as the groups of the earlier positions.           *)
LEMMA CommitReplays ==
    ASSUME HistoryTyped, HistoryReplays, NEW req, IsRequest(req), NEW n, Commit(req, n),
           NEW order \in Enumerations(FreshPositions(req)), Appends(req, order),
           Continues(log, log')
    PROVE  \A p \in 0..Len(req.mutations) :
             LET c == EntitiesBefore(req, p + 1) IN
             /\ IsCollection(c) /\ FlagsAgree(c)
             /\ \E j \in 0..Cardinality(FreshPositions(req)) :
                  /\ \A k \in DOMAIN order : order[k] <= p <=> k <= j
                  /\ c = Replayed(log', Len(log) + j)
<1> DEFINE M == Len(req.mutations)
           N == Len(log)
           F == FreshPositions(req)
           C == Cardinality(F)
           B(p) == EntitiesBefore(req, p + 1)
           Reached(p, j) == /\ \A k \in DOMAIN order : order[k] <= p <=> k <= j
                            /\ B(p) = Replayed(log', N + j)
           Good(p) == /\ IsCollection(B(p)) /\ FlagsAgree(B(p))
                      /\ \E j \in 0..C : Reached(p, j)
           S == {p \in Nat : p <= M => Good(p)}
<1>1. /\ M \in Nat /\ DOMAIN req.mutations = 1..M /\ N \in Nat
      /\ \A p \in 1..M : IsCollection(req.mutations[p].changes)
  BY LogShape DEF IsRequest
<1>2. C \in Nat /\ F \subseteq 1..M
  <2>1. IsFiniteSet(1..M) /\ F \subseteq 1..M
    BY <1>1, FS_Interval DEF FreshPositions
  <2> HIDE DEF F, M
  <2> QED
    BY <2>1, FS_Subset, FS_CardinalityType
<1>3. /\ DOMAIN order = 1..C
      /\ \A k \in DOMAIN order : order[k] \in F
      /\ \A j, k \in DOMAIN order : j < k => order[j] < order[k]
      /\ \A p \in F : \E k \in DOMAIN order : order[k] = p
  BY DEF Enumerations
<1>4. \A k \in 1..C :
         log'[N + k].changes
           = CanonicalizeGroup(EntitiesBefore(req, order[k]),
                               req.mutations[order[k]].changes)
  BY DEF Appends
<1>5. \A p \in F : ~MovesCopy(EntitiesBefore(req, p), req.mutations[p].changes)
  BY DEF Commit, Verdict, Unacceptable
<1>6. 0 \in S
  <2>1. B(0) = entities
    BY EntitiesBeforeFirst
  <2>2. \A k \in DOMAIN order : order[k] <= 0 <=> k <= 0
    BY <1>1, <1>2, <1>3
  <2>3. Replayed(log', N) = Replayed(log, N)
    BY <1>1, ReplayPersists
  <2>4. Reached(0, 0)
    BY <1>1, <2>1, <2>2, <2>3 DEF HistoryReplays, EntitiesReplayLog, EntitiesAt
  <2> HIDE DEF Reached, B
  <2> QED
    BY <1>2, <2>1, <2>4 DEF HistoryReplays, DerivedFlagsAgree
<1>7. ASSUME NEW p \in Nat, p \in S PROVE p + 1 \in S
  <2> SUFFICES ASSUME p + 1 <= M PROVE Good(p + 1)
    OBVIOUS
  <2>1. Good(p) /\ p + 1 \in 1..M
    BY <1>1, <1>7
  <2>2. PICK j \in 0..C : Reached(p, j)
    BY <2>1
  <2>3. B(p + 1) = RecordedEntities(B(p), NewChanges(req, p + 1))
    BY EntitiesBeforeNext
  <2>4. CASE p + 1 \in F
    <3> DEFINE changes == req.mutations[p + 1].changes
    <3>1. NewChanges(req, p + 1) = changes /\ IsCollection(changes)
          /\ ~MovesCopy(B(p), changes)
      BY <1>1, <1>5, <2>1, <2>4 DEF NewChanges
    <3>2. IsCollection(B(p + 1)) /\ FlagsAgree(B(p + 1))
      <4> HIDE DEF B, changes, Reached
      <4> QED
        BY <2>1, <2>3, <3>1, RecordingKeepsType, RecordingKeepsFlags
    <3>3. PICK k \in DOMAIN order : order[k] = p + 1
      BY <1>3, <2>4
    <3>4. k = j + 1
      <4>1. \A i \in DOMAIN order : order[i] \in Nat
        BY <1>2, <1>3
      <4>2. ~(k <= j)
        BY <2>2, <3>3
      <4>3. k \in 1..C /\ j \in Nat /\ j + 1 <= k
        BY <1>2, <1>3, <4>2
      <4>4. j + 1 \in DOMAIN order
        BY <1>2, <1>3, <4>3
      <4>5. ~(order[j + 1] <= p)
        BY <2>2, <4>3, <4>4
      <4>6. ~(j + 1 < k)
        BY <1>3, <3>3, <4>1, <4>4, <4>5
      <4> QED
        BY <4>3, <4>6
    <3>5. \A i \in DOMAIN order : order[i] <= p + 1 <=> i <= j + 1
      <4>1. SUFFICES ASSUME NEW i \in DOMAIN order
                     PROVE  order[i] <= p + 1 <=> i <= j + 1
        OBVIOUS
      <4>2. order[i] \in Nat /\ i \in Nat /\ j \in Nat
        BY <1>2, <1>3
      <4>3. order[i] <= p <=> i <= j
        BY <2>2
      <4>4. order[i] = p + 1 <=> i = j + 1
        BY <1>3, <3>3, <3>4, <4>2
      <4> QED
        BY <4>2, <4>3, <4>4
    <3>6. B(p + 1) = Replayed(log', N + (j + 1))
      <4>1. log'[N + (j + 1)].changes = CanonicalizeGroup(B(p), changes)
        BY <1>3, <1>4, <3>3, <3>4
      <4>2. N + j \in Nat /\ N + (j + 1) = (N + j) + 1
        BY <1>1
      <4>3. Replayed(log', N + (j + 1))
              = Overlay(Replayed(log', N + j), log'[N + (j + 1)].changes)
        BY <4>2, ReplayedNext
      <4> QED
        BY <2>2, <2>3, <3>1, <4>1, <4>3 DEF RecordedEntities
    <3>7. j + 1 \in 0..C
      BY <1>2, <1>3, <3>4
    <3>8. Reached(p + 1, j + 1)
      BY <3>5, <3>6
    <3> HIDE DEF Reached, B
    <3> QED
      BY <3>2, <3>7, <3>8
  <2>5. CASE p + 1 \notin F
    <3>1. B(p + 1) = B(p)
      BY <1>1, <2>2, <2>3, <2>5, ReplayedIsTable DEF NewChanges
    <3>2. \A i \in DOMAIN order : order[i] <= p + 1 <=> i <= j
      <4>1. \A i \in DOMAIN order : order[i] \in Nat /\ order[i] # p + 1
        BY <1>2, <1>3, <2>5
      <4> QED
        BY <2>2, <4>1
    <3>3. Reached(p + 1, j)
      BY <2>2, <3>1, <3>2
    <3> HIDE DEF Reached, B
    <3> QED
      BY <2>1, <3>1, <3>3
  <2> QED
    BY <2>4, <2>5
<1>8. Nat \subseteq S
  <2> HIDE DEF S
  <2> QED
    BY <1>6, <1>7, Replaying!NatSetInduction
<1>9. \A p \in 0..M : Good(p)
  BY <1>1, <1>8
<1> QED
  BY <1>9

(* A commit leaves a table that replays the log, with canonical receipts.  *)
LEMMA CommitKeepsReplay ==
    ASSUME HistoryTyped, ReceiptsMatchLog, HistoryReplays,
           NEW req, IsRequest(req), NEW n, Commit(req, n)
    PROVE  HistoryReplays'
<1> DEFINE N == Len(log)
           M == Len(req.mutations)
           F == FreshPositions(req)
           C == Cardinality(F)
<1>1. Grows
  BY CommitGrows
<1>2. PICK order \in Enumerations(F) : Appends(req, order)
  BY CommitGrows
<1>3. /\ N \in Nat /\ DOMAIN log = 1..N
      /\ Len(log') = N + C /\ DOMAIN log' = 1..N + C
      /\ \A r \in 1..N : log'[r] = log[r]
      /\ Continues(log, log')
  BY <1>1, <1>2, LogShape, LenProperties DEF Grows, Continues, Appends
<1>4. /\ M \in Nat /\ DOMAIN req.mutations = 1..M /\ F \subseteq 1..M
      /\ \A p \in 1..M : IsCollection(req.mutations[p].changes)
  BY DEF IsRequest, FreshPositions
<1>5. C \in Nat
  <2>1. IsFiniteSet(1..M)
    BY <1>4, FS_Interval
  <2> HIDE DEF F, M
  <2> QED
    BY <1>4, <2>1, FS_Subset, FS_CardinalityType
<1>6. /\ DOMAIN order = 1..C
      /\ \A k \in DOMAIN order : order[k] \in F
      /\ \A j, k \in DOMAIN order : j < k => order[j] < order[k]
      /\ \A p \in F : \E k \in DOMAIN order : order[k] = p
  BY DEF Enumerations
<1>7. \A k \in 1..C :
         /\ log'[N + k].changes
              = CanonicalizeGroup(EntitiesBefore(req, order[k]),
                                  req.mutations[order[k]].changes)
         /\ log'[N + k].mutation = req.mutations[order[k]].id
         /\ receipts'[req.mutations[order[k]].id]
              = [revision |-> N + k, payload |-> req.mutations[order[k]].changes]
  BY <1>2 DEF Appends
<1>8. \A p \in 0..M :
         /\ IsCollection(EntitiesBefore(req, p + 1)) /\ FlagsAgree(EntitiesBefore(req, p + 1))
         /\ \E j \in 0..C :
              /\ \A k \in DOMAIN order : order[k] <= p <=> k <= j
              /\ EntitiesBefore(req, p + 1) = Replayed(log', N + j)
  BY <1>2, <1>3, CommitReplays
<1>9. EntitiesReplayLog' /\ IsCollection(entities)' /\ DerivedFlagsAgree'
  <2>1. entities' = EntitiesBefore(req, M + 1)
    BY DEF Commit
  <2>2. PICK j \in 0..C : /\ \A k \in DOMAIN order : order[k] <= M <=> k <= j
                         /\ EntitiesBefore(req, M + 1) = Replayed(log', N + j)
    <3>1. M \in 0..M
      BY <1>4
    <3> HIDE DEF M, N, C, F
    <3> QED
      BY <1>8, <3>1
  <2>3. j = C
    <3>1. CASE C = 0
      BY <1>5, <3>1
    <3>2. CASE C # 0
      <4>1. C \in DOMAIN order /\ order[C] <= M
        BY <1>4, <1>5, <1>6, <3>2
      <4> QED
        BY <1>5, <2>2, <4>1
    <3> QED
      BY <3>1, <3>2
  <2>4. entities' = Replayed(log', Len(log'))
    BY <1>3, <2>1, <2>2, <2>3
  <2>5. IsCollection(entities') /\ FlagsAgree(entities')
    BY <1>4, <1>8, <2>1
  <2> QED
    BY <2>4, <2>5 DEF EntitiesReplayLog, EntitiesAt, DerivedFlagsAgree, FlagsAgree,
                      IsCollection, ActiveCopies, CopiesOf, SeveralActive
<1>10. ASSUME NEW k \in 1..C
       PROVE  /\ EntitiesBefore(req, order[k]) = Replayed(log', N + k - 1)
              /\ IsCollection(EntitiesBefore(req, order[k]))
              /\ IsCollection(req.mutations[order[k]].changes)
  <2>1. order[k] \in 1..M /\ order[k] - 1 \in 0..M /\ (order[k] - 1) + 1 = order[k]
    BY <1>4, <1>6
  <2>2. PICK j \in 0..C :
           /\ \A i \in DOMAIN order : order[i] <= order[k] - 1 <=> i <= j
           /\ EntitiesBefore(req, order[k]) = Replayed(log', N + j)
    BY <1>8, <2>1
  <2>3. j = k - 1
    <3>1. ~(k <= j)
      BY <1>6, <2>1, <2>2
    <3>2. CASE k = 1
      BY <1>5, <3>1, <3>2
    <3>3. CASE k # 1
      <4>1. k - 1 \in DOMAIN order /\ k - 1 < k
        BY <1>5, <1>6, <3>3
      <4>2. order[k - 1] \in Nat /\ order[k - 1] < order[k]
        BY <1>4, <1>6, <4>1
      <4>3. k - 1 <= j
        BY <2>1, <2>2, <4>1, <4>2
      <4> QED
        BY <1>5, <3>1, <4>3
    <3> QED
      BY <3>2, <3>3
  <2>4. N + j = N + k - 1
    BY <1>3, <1>5, <2>3
  <2> QED
    BY <1>4, <1>8, <2>1, <2>2, <2>4
<1>11. GroupsAreRows'
  <2>1. SUFFICES ASSUME NEW r \in 1..N + C PROVE IsCollection(log'[r].changes)
    BY <1>3 DEF GroupsAreRows, IsCollection
  <2>2. CASE r \in 1..N
    BY <1>3, <2>2 DEF HistoryReplays, GroupsAreRows
  <2>3. CASE r \notin 1..N
    <3>1. r - N \in 1..C /\ N + (r - N) = r
      BY <1>3, <1>5, <2>3
    <3> QED
      BY <1>7, <1>10, <3>1, GroupIsCollection
  <2> QED
    BY <2>2, <2>3
<1>12. ReceiptsAreCanonical'
  <2>1. SUFFICES ASSUME NEW m \in DOMAIN receipts'
                 PROVE  /\ IsCollection(receipts'[m].payload)
                        /\ log'[receipts'[m].revision].changes
                             = CanonicalizeGroup(Replayed(log', receipts'[m].revision - 1),
                                                 receipts'[m].payload)
    BY DEF ReceiptsAreCanonical, EntitiesAt, IsCollection
  <2>2. CASE m \in DOMAIN receipts
    <3>1. receipts'[m] = receipts[m]
      BY <1>1, <2>2 DEF Grows
    <3>2. receipts[m].revision \in 1..N
      BY <1>3, <2>2 DEF ReceiptsMatchLog
    <3>3. Replayed(log', receipts[m].revision - 1) = Replayed(log, receipts[m].revision - 1)
      BY <1>3, <3>2, ReplayPersists
    <3> QED
      BY <1>3, <2>2, <3>1, <3>2, <3>3 DEF HistoryReplays, ReceiptsAreCanonical, EntitiesAt
  <2>3. CASE m \notin DOMAIN receipts
    <3>1. PICK k \in 1..C : N + k = receipts'[m].revision /\ log'[N + k].mutation = m
      <4>1. /\ receipts'[m].revision \in N + 1..N + C
            /\ log'[receipts'[m].revision].mutation = m
        BY <1>1, <1>3, <2>3 DEF Grows
      <4>2. /\ receipts'[m].revision - N \in 1..C
            /\ N + (receipts'[m].revision - N) = receipts'[m].revision
        BY <1>3, <1>5, <4>1
      <4> QED
        BY <4>1, <4>2
    <3>2. receipts'[m] = [revision |-> N + k, payload |-> req.mutations[order[k]].changes]
      BY <1>7, <3>1
    <3>3. receipts'[m].payload = req.mutations[order[k]].changes
      BY <3>2
    <3>4. log'[N + k].changes
            = CanonicalizeGroup(Replayed(log', N + k - 1), req.mutations[order[k]].changes)
      BY <1>7, <1>10
    <3>5. IsCollection(req.mutations[order[k]].changes)
      BY <1>10
    <3>6. PICK revision, payload : /\ revision = receipts'[m].revision
                                   /\ payload = receipts'[m].payload
      OBVIOUS
    <3>7. revision = N + k /\ payload = req.mutations[order[k]].changes
      BY <3>1, <3>3, <3>6
    <3>8. log'[revision].changes = CanonicalizeGroup(Replayed(log', revision - 1), payload)
      BY <3>4, <3>7
    <3> QED
      BY <3>5, <3>6, <3>7, <3>8
  <2> QED
    BY <2>2, <2>3
<1> QED
  BY <1>9, <1>11, <1>12 DEF HistoryReplays

(* So does a legacy group.                                                 *)
LEMMA InternalKeepsReplay ==
    ASSUME HistoryTyped, ReceiptsMatchLog, HistoryReplays,
           NEW m, IsCollection(m.changes), RecordInternalGroup(m)
    PROVE  HistoryReplays'
<1> DEFINE g == [mutation |-> m.id, changes |-> CanonicalizeGroup(entities, m.changes)]
           N == Len(log)
<1>1. /\ log' = Append(log, g) /\ receipts' = receipts
      /\ entities' = RecordedEntities(entities, m.changes)
      /\ ~MovesCopy(entities, m.changes)
  BY DEF RecordInternalGroup
<1>2. IsCollection(entities) /\ FlagsAgree(entities)
  BY DEF HistoryReplays, DerivedFlagsAgree
<1>3. IsCollection(entities)' /\ DerivedFlagsAgree'
  <2>1. IsCollection(entities') /\ FlagsAgree(entities')
    BY <1>1, <1>2, RecordingKeepsType, RecordingKeepsFlags
  <2> QED
    BY <2>1 DEF DerivedFlagsAgree, FlagsAgree, IsCollection, ActiveCopies, CopiesOf,
                SeveralActive
<1>4. /\ g.changes = CanonicalizeGroup(entities, m.changes)
      /\ IsCollection(g.changes)
  BY <1>2, GroupIsCollection
<1> HIDE DEF g
<1>5. /\ N \in Nat /\ DOMAIN log = 1..N
      /\ Len(log') = N + 1 /\ DOMAIN log' = 1..N + 1
      /\ \A r \in 1..N : log'[r] = log[r]
      /\ log'[N + 1] = g
  <2>1. log \in Seq(Groups(log) \cup {g})
    BY SeqMonotonic DEF HistoryTyped
  <2> QED
    BY <1>1, <2>1, AppendProperties, LenProperties
<1>6. Continues(log, log')
  BY <1>5 DEF Continues
<1>7. Replayed(log', N) = entities
  BY <1>5, <1>6, ReplayPersists DEF HistoryReplays, EntitiesReplayLog, EntitiesAt
<1>8. EntitiesReplayLog'
  <2>1. Replayed(log', N + 1) = Overlay(entities, g.changes)
    BY <1>5, <1>7, ReplayedNext
  <2> QED
    BY <1>1, <1>4, <1>5, <2>1 DEF EntitiesReplayLog, EntitiesAt, RecordedEntities
<1>9. GroupsAreRows'
  <2>1. SUFFICES ASSUME NEW r \in 1..N + 1 PROVE IsCollection(log'[r].changes)
    BY <1>5 DEF GroupsAreRows, IsCollection
  <2>2. CASE r \in 1..N
    BY <1>5, <2>2 DEF HistoryReplays, GroupsAreRows
  <2>3. CASE r = N + 1
    BY <1>4, <1>5, <2>3
  <2> QED
    BY <1>5, <2>2, <2>3
<1>10. ReceiptsAreCanonical'
  <2>1. SUFFICES ASSUME NEW x \in DOMAIN receipts
                 PROVE  /\ IsCollection(receipts[x].payload)
                        /\ log'[receipts[x].revision].changes
                             = CanonicalizeGroup(Replayed(log', receipts[x].revision - 1),
                                                 receipts[x].payload)
    BY <1>1 DEF ReceiptsAreCanonical, EntitiesAt, IsCollection
  <2>2. receipts[x].revision \in 1..N
    BY <1>5 DEF ReceiptsMatchLog
  <2>3. Replayed(log', receipts[x].revision - 1) = Replayed(log, receipts[x].revision - 1)
    BY <1>5, <1>6, <2>2, ReplayPersists
  <2> QED
    BY <1>5, <2>2, <2>3 DEF HistoryReplays, ReceiptsAreCanonical, EntitiesAt
<1> QED
  BY <1>3, <1>8, <1>9, <1>10 DEF HistoryReplays

(* Nothing is recorded in an empty database.                               *)
LEMMA EmptyReplays ==
    ASSUME entities = << >>, log = << >>, receipts = << >>
    PROVE  HistoryReplays
<1>1. Len(log) = 0 /\ DOMAIN log = {} /\ DOMAIN receipts = {}
  BY EmptySeq
<1>2. EntitiesReplayLog
  BY <1>1, ReplayedNone DEF EntitiesReplayLog, EntitiesAt
<1> QED
  BY <1>1, <1>2, NothingIsCollection
     DEF HistoryReplays, GroupsAreRows, ReceiptsAreCanonical, DerivedFlagsAgree

(* A canonical entry that survives a deletion has the stored user fields.  *)
LEMMA CanonicalMeansSurvivor ==
    ASSUME HistoryTyped, ReceiptsMatchLog, HistoryReplays
    PROVE  SurvivorKeepsUserFields
<1> SUFFICES ASSUME NEW m \in DOMAIN receipts,
                    NEW i \in DOMAIN receipts[m].payload \cap Issues,
                    receipts[m].payload[i].deleted,
                    Live(EntitiesAt(receipts[m].revision - 1), i),
                    ~log[receipts[m].revision].changes[i].deleted
             PROVE  log[receipts[m].revision].changes[i].value
                      = EntitiesAt(receipts[m].revision - 1)[i].value
  BY DEF SurvivorKeepsUserFields
<1> DEFINE r == receipts[m].revision
           before == EntitiesAt(r - 1)
           changes == receipts[m].payload
           entry == log[r].changes[i]
<1>1. r \in 1..Len(log) /\ Len(log) \in Nat
  BY LogShape DEF ReceiptsMatchLog
<1>2. IsCollection(changes) /\ log[r].changes = CanonicalizeGroup(before, changes)
  BY DEF HistoryReplays, ReceiptsAreCanonical
<1>3. IsCollection(before)
  <2>1. r - 1 \in Nat /\ \A s \in 1..r - 1 : IsCollection(log[s].changes)
    BY <1>1, LogShape DEF HistoryReplays, GroupsAreRows
  <2> HIDE DEF r
  <2> QED
    BY <2>1, ReplayedIsCollection DEF EntitiesAt
<1>4. entry = CanonicalEntry(before, changes, i)
  BY <1>2 DEF CanonicalizeGroup, AffectedIssues, Overlay
<1>5. RequestedEntry(before, changes, i) = changes[i]
  BY DEF RequestedEntry
<1>6. changes[i] \in EntryData /\ before[i] \in EntryData /\ i \in DOMAIN before
      /\ ~before[i].deleted /\ changes[i].deleted /\ ~entry.deleted
  BY <1>2, <1>3 DEF IsCollection, Live
<1> HIDE DEF before, changes, entry
<1>7. ~(changes[i].deleted /\ ~(ActiveCopies(Overlay(before, changes), i) # {}))
  <2>1. SUFFICES ASSUME ActiveCopies(Overlay(before, changes), i) = {}
                 PROVE  FALSE
    OBVIOUS
  <2>2. entry = [changes[i] EXCEPT !.owned = FALSE, !.duplicate = FALSE, !.wanted = FALSE]
    BY <1>4, <1>5, <1>6, <2>1 DEF CanonicalEntry
  <2>3. entry.deleted = changes[i].deleted
    BY <1>6, <2>2 DEF EntryData
  <2> QED
    BY <1>6, <2>3
<1>8. PICK o, s, w : entry = [before[i] EXCEPT !.deleted = FALSE, !.owned = o,
                                              !.duplicate = s, !.wanted = w]
  BY <1>4, <1>5, <1>6, <1>7 DEF CanonicalEntry
<1>9. entry.value = before[i].value
  BY <1>6, <1>8 DEF EntryData
<1> QED
  BY <1>9 DEF entry, before

-----------------------------------------------------------------------------
(* All of it, for the modules in which the server has clients.             *)
HistorySound ==
    HistoryTyped /\ RecordedOnce /\ ReceiptsMatchLog /\ HistoryReplays

LEMMA CommitKeepsHistory ==
    ASSUME HistorySound, NEW req, IsRequest(req), NEW n, Commit(req, n)
    PROVE  HistorySound'
<1>1. Grows
  BY CommitGrows DEF HistorySound
<1>2. /\ RecordedOnce' /\ ReceiptsMatchLog'
      /\ \A m \in DOMAIN receipts' : receipts'[m].revision \in Nat
  BY <1>1, GrowthKeepsHistory DEF HistorySound
<1>3. HistoryTyped'
  BY <1>1, <1>2 DEF HistoryTyped, Grows, Groups
<1>4. HistoryReplays'
  BY CommitKeepsReplay DEF HistorySound
<1> QED
  BY <1>2, <1>3, <1>4 DEF HistorySound

(* A legacy group is one more, under an id of its own and with no receipt. *)
LEMMA InternalKeepsHistory ==
    ASSUME HistorySound, NEW m, IsCollection(m.changes), RecordInternalGroup(m)
    PROVE  HistorySound' /\ Continues(log, log')
<1> DEFINE g == [mutation |-> m.id, changes |-> CanonicalizeGroup(entities, m.changes)]
           N == Len(log)
<1>2. /\ log' = Append(log, g) /\ g.mutation \in InternalIds
      /\ g \in [mutation: MutationIds, changes: {g.changes}]
      /\ \A r \in DOMAIN log : log[r].mutation # g.mutation
      /\ UNCHANGED receipts
  BY ServerAssumption DEF ServerAssumption, RecordInternalGroup
<1> HIDE DEF g
<1>3. /\ N \in Nat /\ DOMAIN log = 1..N
      /\ \A r \in 1..N :
           log[r] \in [mutation: MutationIds, changes: {log[r].changes}]
  BY LogShape DEF HistorySound
<1>4. /\ log' \in Seq(Groups(log) \cup {g}) /\ Len(log') = N + 1
      /\ DOMAIN log' = 1..N + 1
      /\ \A r \in 1..N : log'[r] = log[r]
      /\ log'[N + 1] = g
  <2>1. log \in Seq(Groups(log) \cup {g})
    BY SeqMonotonic DEF HistorySound, HistoryTyped
  <2> QED
    BY <1>2, <2>1, AppendProperties, LenProperties
<1>5. Continues(log, log')
  BY <1>3, <1>4 DEF Continues
<1>6. HistoryTyped'
  <2>1. \A r \in 1..Len(log') :
           log'[r] \in [mutation: MutationIds, changes: {log'[r].changes}]
    BY <1>2, <1>3, <1>4
  <2>2. log' \in Seq(Groups(log'))
    BY <1>4, <2>1, TypedByItself
  <2> QED
    BY <1>2, <2>2 DEF HistorySound, HistoryTyped, Groups
<1>7. RecordedOnce' /\ ReceiptsMatchLog'
  BY <1>2, <1>3, <1>4 DEF HistorySound, HistoryTyped, RecordedOnce, ReceiptsMatchLog
<1>8. HistoryReplays'
  BY InternalKeepsReplay DEF HistorySound
<1> QED
  BY <1>5, <1>6, <1>7, <1>8 DEF HistorySound

LEMMA HistoryUnchanged ==
    ASSUME HistorySound, UNCHANGED <<entities, log, receipts>>
    PROVE  HistorySound'
<1>1. HistoryTyped' /\ RecordedOnce' /\ ReceiptsMatchLog'
  BY DEF HistorySound, HistoryTyped, Groups, RecordedOnce, ReceiptsMatchLog
<1>2. EntitiesReplayLog' /\ GroupsAreRows' /\ ReceiptsAreCanonical'
  BY DEF HistorySound, HistoryReplays, EntitiesReplayLog, GroupsAreRows,
         ReceiptsAreCanonical, EntitiesAt, IsCollection
<1>3. IsCollection(entities)' /\ DerivedFlagsAgree'
  BY DEF HistorySound, HistoryReplays, DerivedFlagsAgree, FlagsAgree, IsCollection,
         ActiveCopies, CopiesOf, SeveralActive
<1> QED
  BY <1>1, <1>2, <1>3 DEF HistorySound, HistoryReplays

LEMMA EmptyHistory ==
    entities = << >> /\ log = << >> /\ receipts = << >> => HistorySound
<1> SUFFICES ASSUME entities = << >>, log = << >>, receipts = << >>
             PROVE  HistorySound
  OBVIOUS
<1>1. /\ << >> \in Seq(Groups(log)) /\ DOMAIN << >> = {}
  BY EmptySeq
<1>2. HistoryTyped /\ RecordedOnce /\ ReceiptsMatchLog
  BY <1>1 DEF HistoryTyped, RecordedOnce, ReceiptsMatchLog
<1> QED
  BY <1>2, EmptyReplays DEF HistorySound

-----------------------------------------------------------------------------
(* Sequences, of whatever elements.                                        *)

(* A sequence of whatever its elements are.                                *)
Sequence(s) == s \in Seq({s[i] : i \in DOMAIN s})

(* The indices and elements of a sequence.                                 *)
LEMMA SequenceShape ==
    ASSUME NEW s, Sequence(s)
    PROVE  Len(s) \in Nat /\ DOMAIN s = 1..Len(s) /\ s \in [1..Len(s) -> ToSet(s)]
BY LenProperties DEF Sequence, ToSet

(* A function on 1..n is a sequence of length n.                           *)
LEMMA FunctionIsSequence ==
    ASSUME NEW n \in Nat, NEW S, NEW f \in [1..n -> S]
    PROVE  Sequence(f) /\ Len(f) = n /\ DOMAIN f = 1..n
<1> DEFINE T == {f[i] : i \in DOMAIN f}
<1>1. f \in [1..n -> T] /\ DOMAIN f = 1..n
  OBVIOUS
<1> HIDE DEF T
<1>2. f \in Seq(T)
  BY <1>1, SeqDef
<1>3. Len(f) \in Nat /\ DOMAIN f = 1..Len(f)
  BY <1>2, LenProperties
<1>4. Len(f) = n
  <2>1. 1..n = 1..Len(f)
    BY <1>1, <1>3
  <2>2. ~(n < Len(f))
    BY <1>3, <2>1, Len(f) \in 1..Len(f) <=> Len(f) >= 1
  <2>3. ~(Len(f) < n)
    BY <1>3, <2>1, n \in 1..n <=> n >= 1
  <2> QED
    BY <1>3, <2>2, <2>3
<1> QED
  BY <1>1, <1>2, <1>4 DEF T, Sequence

(* The empty sequence.                                                     *)
LEMMA NoneIsSequence == Sequence(<< >>) /\ Len(<< >>) = 0 /\ DOMAIN << >> = {}
BY EmptySeq DEF Sequence

(* The elements of a concatenation, at their places.                       *)
LEMMA Concatenated ==
    ASSUME NEW a, NEW b, Sequence(a), Sequence(b)
    PROVE  /\ Sequence(a \o b)
           /\ Len(a \o b) = Len(a) + Len(b)
           /\ DOMAIN (a \o b) = 1..(Len(a) + Len(b))
           /\ \A i \in 1..Len(a) : (a \o b)[i] = a[i]
           /\ \A i \in 1..Len(b) : (a \o b)[Len(a) + i] = b[i]
           /\ \A i \in DOMAIN (a \o b) :
                \/ i \in 1..Len(a)
                \/ i - Len(a) \in 1..Len(b) /\ i = Len(a) + (i - Len(a))
<1> DEFINE S == ToSet(a) \cup ToSet(b)
<1>1. a \in Seq(S) /\ b \in Seq(S)
  BY SeqMonotonic DEF Sequence, ToSet
<1>2. Len(a) \in Nat /\ Len(b) \in Nat
  BY SequenceShape
<1> HIDE DEF S
<1>3. /\ a \o b \in Seq(S) /\ Len(a \o b) = Len(a) + Len(b)
      /\ \A i \in 1 .. Len(a) + Len(b) :
            (a \o b)[i] = IF i <= Len(a) THEN a[i] ELSE b[i - Len(a)]
  BY <1>1, ConcatProperties
<1>4. a \o b \in [1..(Len(a) + Len(b)) -> S]
  BY <1>3, LenProperties
<1>5. Sequence(a \o b) /\ DOMAIN (a \o b) = 1..(Len(a) + Len(b))
  <2> DEFINE c == a \o b
             n == Len(a) + Len(b)
  <2>1. n \in Nat /\ c \in [1..n -> S]
    BY <1>2, <1>4
  <2> HIDE DEF c, n
  <2>2. Sequence(c) /\ DOMAIN c = 1..n
    BY <2>1, FunctionIsSequence
  <2> QED
    BY <2>2 DEF c, n
<1> QED
  BY <1>2, <1>3, <1>5

(* f enumerates S in increasing order.                                     *)
OrdersPlaces(f, S) ==
    /\ DOMAIN f = 1..Cardinality(S)
    /\ \A k \in DOMAIN f : f[k] \in S
    /\ \A j, k \in DOMAIN f : j < k => f[j] < f[k]
    /\ \A p \in S : \E k \in DOMAIN f : f[k] = p

(* Positions, in their order: the k-th is the one with k up to it.         *)
LEMMA PlacesInOrder ==
    ASSUME NEW S, IsFiniteSet(S), \A p \in S : p \in Nat
    PROVE  OrdersPlaces([k \in 1..Cardinality(S) |->
                           CHOOSE p \in S : Cardinality({q \in S : q <= p}) = k], S)
<1> DEFINE upTo(p) == {q \in S : q <= p}
           place == [p \in S |-> Cardinality(upTo(p))]
           n == Cardinality(S)
           f == [k \in 1..n |-> CHOOSE p \in S : Cardinality(upTo(p)) = k]
<1>1. IsFiniteSet(S) /\ n \in Nat
  BY FS_CardinalityType
<1>2. \A p \in S : p \in Nat
  OBVIOUS
<1>3. ASSUME NEW p \in S
      PROVE  /\ IsFiniteSet(upTo(p)) /\ upTo(p) \subseteq S
             /\ Cardinality(upTo(p)) \in 1..n
  <2>1. IsFiniteSet(upTo(p)) /\ Cardinality(upTo(p)) <= n
    BY <1>1, FS_Subset
  <2>2. Cardinality(upTo(p)) \in Nat /\ Cardinality(upTo(p)) # 0
    <3>1. p \in upTo(p)
      BY <1>2
    <3> HIDE DEF upTo
    <3> QED
      BY <2>1, <3>1, FS_EmptySet, FS_CardinalityType
  <2> HIDE DEF n
  <2> QED
    BY <1>1, <2>1, <2>2
<1>4. ASSUME NEW p \in S, NEW q \in S, p < q
      PROVE  Cardinality(upTo(p)) < Cardinality(upTo(q))
  <2>1. upTo(p) \in SUBSET upTo(q) /\ q \in upTo(q) /\ q \notin upTo(p)
    BY <1>2, <1>4
  <2>2. /\ IsFiniteSet(upTo(q)) /\ Cardinality(upTo(p)) \in 1..n
        /\ Cardinality(upTo(q)) \in 1..n
    BY <1>3
  <2> HIDE DEF upTo, n
  <2>3. Cardinality(upTo(p)) <= Cardinality(upTo(q))
        /\ Cardinality(upTo(p)) # Cardinality(upTo(q))
    BY <2>1, <2>2, FS_Subset
  <2> QED
    BY <1>1, <2>2, <2>3
<1>5. place \in [S -> 1..n] /\ \A p, q \in S : p < q => place[p] < place[q]
  <2> HIDE DEF upTo, n
  <2> QED
    BY <1>3, <1>4
<1> HIDE DEF place
<1>6. place \in Injection(S, 1..n)
  <2> HIDE DEF n
  <2>1. \A p, q \in S : place[p] = place[q] => p = q
    <3> SUFFICES ASSUME NEW p \in S, NEW q \in S, place[p] = place[q], p # q
                 PROVE  FALSE
      OBVIOUS
    <3>1. p < q \/ q < p
      BY <1>2
    <3> QED
      BY <1>1, <1>5, <3>1
  <2> QED
    BY <1>5, <2>1 DEF Injection, IsInjective
<1>7. place \in Surjection(S, 1..n)
  <2>1. IsFiniteSet(1..n) /\ Cardinality(1..n) = n
    <3> HIDE DEF n
    <3> QED
      BY <1>1, FS_Interval
  <2> QED
    BY <1>6, <2>1, FS_Injection
<1> HIDE DEF n
<1>8. \A k \in 1..n : f[k] \in S /\ place[f[k]] = k
  <2> SUFFICES ASSUME NEW k \in 1..n PROVE f[k] \in S /\ place[f[k]] = k
    OBVIOUS
  <2>1. \E p \in S : place[p] = k
    BY <1>7 DEF Surjection
  <2>2. \E p \in S : Cardinality(upTo(p)) = k
    BY <2>1 DEF place
  <2>3. f[k] \in S /\ Cardinality(upTo(f[k])) = k
    <3> HIDE DEF upTo
    <3> QED
      BY <2>2
  <2> QED
    BY <2>3 DEF place
<1>9. DOMAIN f = 1..n
  OBVIOUS
<1> HIDE DEF f
<1>10. \A j, k \in 1..n : j < k => f[j] < f[k]
  <2> SUFFICES ASSUME NEW j \in 1..n, NEW k \in 1..n, j < k PROVE f[j] < f[k]
    OBVIOUS
  <2>1. f[j] # f[k] /\ ~(f[k] < f[j])
    BY <1>1, <1>5, <1>8
  <2> QED
    BY <1>2, <1>8, <2>1
<1>11. \A p \in S : place[p] \in 1..n /\ f[place[p]] = p
  <2> SUFFICES ASSUME NEW p \in S PROVE place[p] \in 1..n /\ f[place[p]] = p
    OBVIOUS
  <2>1. place[p] \in 1..n
    BY <1>5
  <2>2. f[place[p]] \in S /\ place[f[place[p]]] = place[p]
    BY <1>8, <2>1
  <2> QED
    BY <1>6, <2>1, <2>2 DEF Injection, IsInjective
<1>12. OrdersPlaces(f, S)
  BY <1>8, <1>9, <1>10, <1>11 DEF OrdersPlaces, n
<1> QED
  BY <1>12 DEF f, n

(* SetToSeq enumerates a finite set.                                       *)
LEMMA SetSequence ==
    ASSUME NEW S, IsFiniteSet(S)
    PROVE  /\ Sequence(SetToSeq(S))
           /\ SetToSeq(S) \in [1..Cardinality(S) -> S]
           /\ \A x \in S : \E n \in DOMAIN SetToSeq(S) : SetToSeq(S)[n] = x
<1>1. Cardinality(S) \in Nat /\ ExistsBijection(1..Cardinality(S), S)
  BY FS_CardinalityType
<1>2. \E f : f \in [1..Cardinality(S) -> S] /\ IsInjective(f)
  BY <1>1 DEF ExistsBijection, Bijection, Injection, IsInjective
<1>3. SetToSeq(S) \in [1..Cardinality(S) -> S] /\ IsInjective(SetToSeq(S))
  BY <1>2 DEF SetToSeq
<1>4. SetToSeq(S) \in Surjection(1..Cardinality(S), S)
  <2>1. SetToSeq(S) \in Injection(1..Cardinality(S), S)
    BY <1>3 DEF Injection
  <2>2. Cardinality(1..Cardinality(S)) = Cardinality(S)
    BY <1>1, FS_Interval
  <2> QED
    BY <2>1, <2>2, FS_Injection
<1> QED
  BY <1>1, <1>3, <1>4, FunctionIsSequence DEF Surjection

(* A sequence has no more elements than positions.                         *)
LEMMA FewElements ==
    ASSUME NEW s, Sequence(s), s # << >>
    PROVE  /\ IsFiniteSet(ToSet(s)) /\ Cardinality(ToSet(s)) \in 1..Len(s)
<1>1. Len(s) \in Nat /\ DOMAIN s = 1..Len(s) /\ s \in [1..Len(s) -> ToSet(s)]
  BY SequenceShape
<1>2. s \in Surjection(1..Len(s), ToSet(s))
  BY <1>1 DEF Surjection, ToSet
<1>3. IsFiniteSet(1..Len(s)) /\ Cardinality(1..Len(s)) = Len(s)
  BY <1>1, FS_Interval
<1>4. IsFiniteSet(ToSet(s)) /\ Cardinality(ToSet(s)) <= Len(s)
  BY <1>2, <1>3, FS_Surjection
<1>5. Len(s) # 0
  BY <1>1, EmptySeq DEF Sequence
<1>6. ToSet(s) # {}
  <2>1. 1 \in DOMAIN s
    BY <1>1, <1>5
  <2> QED
    BY <2>1 DEF ToSet
<1>7. Cardinality(ToSet(s)) \in Nat /\ Cardinality(ToSet(s)) # 0
  BY <1>4, <1>6, FS_EmptySet, FS_CardinalityType
<1> QED
  BY <1>1, <1>4, <1>7

(* A window of a sequence.                                                 *)
LEMMA Window ==
    ASSUME NEW l, NEW a \in Nat, NEW b \in Nat, a <= b
    PROVE  LET w == SubSeq(l, a + 1, b) IN
           /\ Sequence(w) /\ Len(w) = b - a /\ DOMAIN w = 1..(b - a)
           /\ \A g \in 1..(b - a) : w[g] = l[a + g]
<1> DEFINE S == {l[i] : i \in a + 1..b}
           w == SubSeq(l, a + 1, b)
           c == a + 1
<1>1. \A i \in c..b : l[i] \in S
  OBVIOUS
<1>2. c \in Int /\ b \in Int
  OBVIOUS
<1> HIDE DEF S
<1>3. /\ w \in Seq(S)
      /\ Len(w) = IF c <= b THEN b - c + 1 ELSE 0
      /\ \A g \in 1..(b - c + 1) : w[g] = l[c + g - 1]
  <2> HIDE DEF c
  <2>1. w = SubSeq(l, c, b)
    BY DEF c
  <2> HIDE DEF w
  <2> QED
    BY <1>1, <1>2, <2>1, SubSeqProperties
<1> HIDE DEF w
<1>4. Len(w) = b - a /\ \A g \in 1..(b - a) : w[g] = l[a + g]
  <2>1. b - c + 1 = b - a /\ Len(w) = b - a
    BY <1>3
  <2>2. \A g \in 1..(b - a) : c + g - 1 = a + g
    OBVIOUS
  <2> HIDE DEF c
  <2> QED
    BY <1>3, <2>1, <2>2
<1>5. w \in [1..(b - a) -> S]
  BY <1>3, <1>4, LenProperties
<1>6. Sequence(w) /\ DOMAIN w = 1..(b - a)
  BY <1>5, FunctionIsSequence, b - a \in Nat
<1> QED
  BY <1>4, <1>6 DEF w

-----------------------------------------------------------------------------
(* What a sound history holds, group by group.                             *)

(* The revisions of a sound history.                                       *)
LEMMA LogIndices ==
    ASSUME HistorySound
    PROVE  Len(log) \in Nat /\ DOMAIN log = 1..Len(log)
BY LogShape DEF HistorySound

(* At every revision the entries of the history said what its copies said. *)
FlagsOfHistory == \A n \in 0..Len(log) : FlagsAgree(EntitiesAt(n))

(* How many mutations of a request are new.                                *)
LEMMA FreshCount ==
    ASSUME NEW req, IsRequest(req)
    PROVE  Cardinality(FreshPositions(req)) \in Nat
<1>1. Len(req.mutations) \in Nat /\ FreshPositions(req) \subseteq 1..Len(req.mutations)
  BY DEF IsRequest, FreshPositions
<1>2. IsFiniteSet(1..Len(req.mutations))
  BY <1>1, FS_Interval
<1>3. IsFiniteSet(FreshPositions(req))
  BY <1>1, <1>2, FS_Subset
<1> QED
  BY <1>3, FS_CardinalityType

(* A request's mutations each leave such an entry table.                   *)
LEMMA CommitKeepsFlags ==
    ASSUME HistorySound, FlagsOfHistory, NEW req, IsRequest(req), NEW n, Commit(req, n)
    PROVE  FlagsOfHistory'
<1>1. PICK order \in Enumerations(FreshPositions(req)) : Appends(req, order)
  BY CommitGrows DEF HistorySound
<1>2. Continues(log, log')
  BY CommitGrows DEF HistorySound, Grows
<1>3. \A p \in 0..Len(req.mutations) :
         LET c == EntitiesBefore(req, p + 1) IN
         /\ IsCollection(c) /\ FlagsAgree(c)
         /\ \E j \in 0..Cardinality(FreshPositions(req)) :
              /\ \A k \in DOMAIN order : order[k] <= p <=> k <= j
              /\ c = Replayed(log', Len(log) + j)
  BY <1>1, <1>2, CommitReplays DEF HistorySound
<1>4. Len(log) \in Nat
  BY LogIndices
<1>5. \A r \in 0..Len(log) : Replayed(log', r) = Replayed(log, r)
  BY <1>2, <1>4, ReplayPersists
<1> DEFINE count == Cardinality(FreshPositions(req))
<1>6. Len(log') = Len(log) + count
  BY <1>1 DEF Appends
<1>7. /\ order \in [1..count -> FreshPositions(req)]
      /\ \A j, k \in DOMAIN order : j < k => order[j] < order[k]
  BY <1>1 DEF Enumerations
<1>8. /\ DOMAIN req.mutations = 1..Len(req.mutations) /\ Len(req.mutations) \in Nat
      /\ FreshPositions(req) \subseteq 1..Len(req.mutations)
  BY DEF IsRequest, FreshPositions
<1>9. count \in Nat
  BY FreshCount
<1> HIDE DEF count
<1>10. ASSUME NEW j \in 1..count PROVE FlagsAgree(Replayed(log', Len(log) + j))
  <2>1. order[j] \in 1..Len(req.mutations) /\ DOMAIN order = 1..count
    BY <1>7, <1>8
  <2>2. order[j] \in 0..Len(req.mutations)
    BY <1>8, <2>1
  <2>3. PICK i \in 0..count :
          /\ \A k \in DOMAIN order : order[k] <= order[j] <=> k <= i
          /\ FlagsAgree(Replayed(log', Len(log) + i))
    BY <1>3, <2>2 DEF count
  <2>4. j <= i
    BY <1>8, <2>1, <2>3
  <2>5. ASSUME j < i PROVE FALSE
    <3>1. i \in DOMAIN order
      BY <1>9, <2>1, <2>5
    <3>2. order[i] <= order[j] /\ order[j] < order[i]
      BY <1>7, <2>1, <2>3, <2>5, <3>1
    <3>3. order[i] \in Nat /\ order[j] \in Nat
      BY <1>7, <1>8, <2>1, <3>1
    <3> QED
      BY <3>2, <3>3
  <2>6. i = j
    BY <1>9, <2>4, <2>5
  <2> QED
    BY <2>3, <2>6
<1>11. ASSUME NEW r \in 0..Len(log') PROVE FlagsAgree(Replayed(log', r))
  <2>1. CASE r \in 0..Len(log)
    BY <1>5, <2>1 DEF FlagsOfHistory, EntitiesAt
  <2>2. CASE r \notin 0..Len(log)
    <3>1. r - Len(log) \in 1..count /\ Len(log) + (r - Len(log)) = r
      BY <1>4, <1>6, <1>9, <2>2
    <3> QED
      BY <1>10, <3>1
  <2> QED
    BY <2>1, <2>2
<1> QED
  BY <1>11 DEF FlagsOfHistory, EntitiesAt

(* Every copy in a group comes with the entry of its issue.                *)
Closed(changes) == \A k \in DOMAIN changes \cap Copies : changes[k].issue \in DOMAIN changes

(* What a recorded group carries: every key of the mutation it records,    *)
(* and the entry of every copy.                                            *)
LEMMA GroupCarries ==
    ASSUME NEW c, NEW changes, IsCollection(changes)
    PROVE  /\ DOMAIN changes \subseteq DOMAIN CanonicalizeGroup(c, changes)
           /\ Closed(CanonicalizeGroup(c, changes))
<1> DEFINE group == CanonicalizeGroup(c, changes)
<1>1. /\ DOMAIN group = DOMAIN changes \cup AffectedIssues(changes)
      /\ \A k \in DOMAIN changes : k \notin AffectedIssues(changes) => group[k] = changes[k]
  BY DEF CanonicalizeGroup, Overlay
<1>2. AffectedIssues(changes) \subseteq Issues
  BY DEF AffectedIssues
<1> HIDE DEF group
<1>3. ASSUME NEW k \in DOMAIN group \cap Copies PROVE group[k].issue \in DOMAIN group
  <2>1. k \in DOMAIN changes \cap Copies /\ k \notin AffectedIssues(changes)
    BY <1>1, <1>2, CollectionAssumption
  <2>2. group[k] = changes[k] /\ changes[k].issue \in Issues
    BY <1>1, <2>1 DEF IsCollection, CopyData
  <2>3. changes[k].issue \in AffectedIssues(changes)
    BY <2>1, <2>2 DEF AffectedIssues, CopiesOf
  <2> QED
    BY <1>1, <2>2, <2>3
<1> QED
  BY <1>1, <1>3 DEF Closed, group

(* A recorded group carries the keys of its mutation and the entries of its *)
(* copies.                                                                 *)
LEMMA LogCarries ==
    ASSUME HistorySound, NEW r \in DOMAIN log, log[r].mutation \in DOMAIN receipts
    PROVE  /\ IsCollection(log[r].changes) /\ Closed(log[r].changes)
           /\ DOMAIN receipts[log[r].mutation].payload \subseteq DOMAIN log[r].changes
<1> DEFINE m == log[r].mutation
<1>1. receipts[m].revision = r
  BY DEF HistorySound, ReceiptsMatchLog, RecordedOnce
<1>2. /\ IsCollection(receipts[m].payload)
      /\ log[r].changes = CanonicalizeGroup(EntitiesAt(r - 1), receipts[m].payload)
  BY <1>1 DEF HistorySound, HistoryReplays, ReceiptsAreCanonical
<1>3. IsCollection(log[r].changes)
  BY DEF HistorySound, HistoryReplays, GroupsAreRows
<1> QED
  BY <1>2, <1>3, GroupCarries

(* What the history held at a revision is a collection.                    *)
LEMMA HeldIsCollection ==
    ASSUME HistorySound, NEW n \in 0..Len(log)
    PROVE  IsCollection(EntitiesAt(n))
<1>1. n \in Nat /\ \A r \in 1..n : IsCollection(log[r].changes)
  BY LogIndices DEF HistorySound, HistoryReplays, GroupsAreRows
<1> QED
  BY <1>1, ReplayedIsCollection DEF EntitiesAt

(* Group s is the latest of the first n that carries key k.                *)
Latest(l, n, k, s) ==
    /\ s \in 1..n /\ k \in DOMAIN l[s].changes
    /\ \A t \in (s + 1)..n : k \notin DOMAIN l[t].changes

(* A replayed row is that of the latest group that carries it.             *)
LEMMA ReplayedLatest ==
    ASSUME NEW l, NEW n \in Nat
    PROVE  /\ \A k \in DOMAIN Replayed(l, n) : \E s :
                Latest(l, n, k, s) /\ Replayed(l, n)[k] = l[s].changes[k]
           /\ \A s \in 1..n : DOMAIN l[s].changes \subseteq DOMAIN Replayed(l, n)
<1> DEFINE Holds(j) ==
             /\ \A k \in DOMAIN Replayed(l, j) : \E s :
                  Latest(l, j, k, s) /\ Replayed(l, j)[k] = l[s].changes[k]
             /\ \A s \in 1..j : DOMAIN l[s].changes \subseteq DOMAIN Replayed(l, j)
           S == {j \in Nat : Holds(j)}
<1>1. 0 \in S
  BY ReplayedNone
<1>2. ASSUME NEW j \in Nat, j \in S PROVE j + 1 \in S
  <2>1. Holds(j) /\ j + 1 \in Nat
    BY <1>2
  <2>2. PICK c, new : c = Replayed(l, j) /\ new = Replayed(l, j + 1)
    OBVIOUS
  <2>3. new = Overlay(c, l[j + 1].changes)
    BY <2>2, ReplayedNext
  <2>4. /\ DOMAIN new = DOMAIN c \cup DOMAIN l[j + 1].changes
        /\ \A k \in DOMAIN new :
             new[k] = IF k \in DOMAIN l[j + 1].changes THEN l[j + 1].changes[k] ELSE c[k]
    BY <2>3 DEF Overlay
  <2>5. ASSUME NEW k \in DOMAIN new
        PROVE  \E s : Latest(l, j + 1, k, s) /\ new[k] = l[s].changes[k]
    <3>1. CASE k \in DOMAIN l[j + 1].changes
      <4>1. Latest(l, j + 1, k, j + 1)
        BY <3>1 DEF Latest
      <4> QED
        BY <2>4, <3>1, <4>1
    <3>2. CASE k \notin DOMAIN l[j + 1].changes
      <4>1. k \in DOMAIN c /\ new[k] = c[k]
        BY <2>4, <3>2
      <4>2. PICK s : Latest(l, j, k, s) /\ c[k] = l[s].changes[k]
        BY <2>1, <2>2, <4>1
      <4>3. \A t \in (s + 1)..(j + 1) : t \in (s + 1)..j \/ t = j + 1
        BY <4>2 DEF Latest
      <4>4. Latest(l, j + 1, k, s)
        BY <3>2, <4>2, <4>3 DEF Latest
      <4> QED
        BY <4>1, <4>2, <4>4
    <3> QED
      BY <3>1, <3>2
  <2>6. \A s \in 1..(j + 1) : DOMAIN l[s].changes \subseteq DOMAIN new
    <3>1. \A s \in 1..(j + 1) : s \in 1..j \/ s = j + 1
      OBVIOUS
    <3> QED
      BY <2>1, <2>2, <2>4, <3>1
  <2> QED
    BY <2>1, <2>2, <2>5, <2>6
<1> HIDE DEF Holds
<1>3. n \in S
  <2> HIDE DEF S
  <2> QED
    BY <1>1, <1>2, Replaying!NatSetInduction
<1> QED
  BY <1>3 DEF Holds

(* The copies of a recorded group are those of its mutation.               *)
LEMMA CopiesAsSent ==
    ASSUME HistorySound, NEW r \in DOMAIN log, log[r].mutation \in DOMAIN receipts,
           NEW k \in Copies
    PROVE  LET sent == receipts[log[r].mutation].payload IN
           /\ k \in DOMAIN log[r].changes <=> k \in DOMAIN sent
           /\ k \in DOMAIN sent => log[r].changes[k] = sent[k]
<1>1. PICK m, sent, group : /\ m = log[r].mutation /\ sent = receipts[m].payload
                            /\ group = log[r].changes
  OBVIOUS
<1>2. receipts[m].revision = r
  BY <1>1 DEF HistorySound, ReceiptsMatchLog, RecordedOnce
<1>3. group = CanonicalizeGroup(EntitiesAt(r - 1), sent)
  BY <1>1, <1>2 DEF HistorySound, HistoryReplays, ReceiptsAreCanonical
<1>4. k \notin AffectedIssues(sent)
  BY CollectionAssumption DEF AffectedIssues
<1>5. /\ k \in DOMAIN group <=> k \in DOMAIN sent
      /\ k \in DOMAIN sent => group[k] = sent[k]
  BY <1>3, <1>4 DEF CanonicalizeGroup, Overlay
<1> QED
  BY <1>1, <1>5

(* A deletion that was not recorded as one lost to a copy on the shelf.    *)
LEMMA LostToCopy ==
    ASSUME HistorySound, NEW r \in DOMAIN log, log[r].mutation \in DOMAIN receipts,
           NEW i \in DOMAIN receipts[log[r].mutation].payload \cap Issues,
           receipts[log[r].mutation].payload[i].deleted, ~log[r].changes[i].deleted
    PROVE  ActiveCopies(EntitiesAt(r), i) # {}
<1>1. PICK m, sent, group, before, held :
         /\ m = log[r].mutation /\ sent = receipts[m].payload /\ group = log[r].changes
         /\ before = EntitiesAt(r - 1) /\ held = EntitiesAt(r)
  OBVIOUS
<1>2. receipts[m].revision = r
  BY <1>1 DEF HistorySound, ReceiptsMatchLog, RecordedOnce
<1>3. IsCollection(sent) /\ group = CanonicalizeGroup(before, sent)
  BY <1>1, <1>2 DEF HistorySound, HistoryReplays, ReceiptsAreCanonical
<1>4. i \in DOMAIN sent \cap Issues /\ sent[i].deleted /\ ~group[i].deleted
      /\ sent[i] \in EntryData
  BY <1>1, <1>3 DEF IsCollection
<1>5. group[i] = CanonicalEntry(before, sent, i)
  BY <1>3, <1>4 DEF CanonicalizeGroup, AffectedIssues, Overlay
<1>6. RequestedEntry(before, sent, i) = sent[i]
  BY <1>4 DEF RequestedEntry
<1>7. ActiveCopies(Overlay(before, sent), i) # {}
  <2> SUFFICES ASSUME ActiveCopies(Overlay(before, sent), i) = {} PROVE FALSE
    OBVIOUS
  <2>1. group[i] = [sent[i] EXCEPT !.owned = FALSE, !.duplicate = FALSE, !.wanted = FALSE]
    BY <1>4, <1>5, <1>6 DEF CanonicalEntry
  <2>2. group[i].deleted = sent[i].deleted
    BY <1>4, <2>1 DEF EntryData
  <2> QED
    BY <1>4, <2>2
<1>8. held = RecordedEntities(before, sent)
  <2>1. r - 1 \in Nat /\ (r - 1) + 1 = r
    BY LogIndices
  <2>2. Replayed(log, r) = Overlay(Replayed(log, r - 1), log[r].changes)
    BY <2>1, ReplayedNext
  <2> QED
    BY <1>1, <1>3, <2>2 DEF EntitiesAt, RecordedEntities
<1>9. ActiveCopies(held, i) = ActiveCopies(Overlay(before, sent), i)
  BY <1>4, <1>8, CanonicalizationKeepsCopies
<1> QED
  BY <1>1, <1>7, <1>9

=============================================================================
