----------------------- MODULE ReplicaAgreement_proof -----------------------
(***************************************************************************)
(* Proofs about devices that stay with one database and copies that have   *)
(* homes: apart from what is queued a device shows what the server held at *)
(* its cursor (ReplicasAgree, UserFieldsKept), it is never refused         *)
(* (ExchangesDoSucceed), and it deletes only what it has seen              *)
(* (DeletionsAreObservedRemoves).                                          *)
(***************************************************************************)
EXTENDS SyncProtocol_proof

-----------------------------------------------------------------------------
(* The versions a device knows are none beyond its cursor.                 *)
VersionsBy(vs, cursor) == \A k \in DOMAIN vs : vs[k] \in 0..cursor

(* The keys of the first n groups of a page.                               *)
Carried(page, n) == UNION {DOMAIN page.groups[g].changes : g \in 1..n}

(* An outbox the page concerns: a mutation acknowledged within the page    *)
(* concerns keys of the group at its revision only.                        *)
AckedByPage(box, page) ==
    \A n \in DOMAIN box :
        /\ box[n].ack \in Nat
        /\ \A g \in DOMAIN page.groups :
              box[n].ack = page.cursor + g =>
                DOMAIN box[n].changes \subseteq DOMAIN page.groups[g].changes

(* What the first n groups of a page do to the rows they are applied to:   *)
(* they bring every key they carry to what the history holds, unless it is *)
(* protected, and leave every other key as it was.                         *)
Brought(base, box, page, l, n) ==
    LET done == AppliedUpTo(base, box, page, n)
        held == Replayed(l, page.cursor + n)
    IN /\ Tidy(done.rows) /\ DOMAIN base.rows \subseteq DOMAIN done.rows
       /\ VersionsBy(done.versions, page.cursor + n)
       /\ done.issues \subseteq Carried(page, n)
       /\ \A k \in Carried(page, n) :
             ~ProtectsLocal(box, k, page.cursor + n) =>
               k \in DOMAIN done.rows /\ SameRow(done.rows, held, k)
       /\ \A k : k \notin Carried(page, n) =>
             /\ SameRow(base.rows, done.rows, k)
             /\ SameRow(Replayed(l, page.cursor), held, k)

(* One more group carries its own keys.                                    *)
LEMMA CarriedNext ==
    ASSUME NEW page, NEW n \in Nat
    PROVE  Carried(page, n + 1) = Carried(page, n) \cup DOMAIN page.groups[n + 1].changes
<1>1. 1..n + 1 = (1..n) \cup {n + 1}
  OBVIOUS
<1> QED
  BY <1>1 DEF Carried

(* One more group.                                                         *)
LEMMA BroughtNext ==
    ASSUME NEW base, NEW box, NEW page, page.cursor \in Nat, NEW m \in Nat,
           DOMAIN page.groups = 1..m, AckedByPage(box, page), NEW l,
           NEW n \in Nat, n < m, IsCollection(page.groups[n + 1].changes),
           Tidy(page.groups[n + 1].changes), Closed(page.groups[n + 1].changes),
           page.groups[n + 1].changes = l[page.cursor + (n + 1)].changes,
           Brought(base, box, page, l, n)
    PROVE  Brought(base, box, page, l, n + 1)
<1> DEFINE acc == AppliedUpTo(base, box, page, n)
           g == Pages(box, page)[n + 1]
           changes == page.groups[n + 1].changes
           keys == AppliedKeys(box, acc.versions, page.groups[n + 1], page.cursor + (n + 1))
           newer == {k \in DOMAIN changes :
                       KnownRevision(acc.versions, k) < page.cursor + (n + 1)}
           done == AppliedUpTo(base, box, page, n + 1)
           at == page.cursor + n
           held == Replayed(l, at)
           now == Replayed(l, page.cursor + (n + 1))
<1>1. n + 1 \in DOMAIN page.groups /\ at \in Nat /\ page.cursor + (n + 1) = at + 1
  OBVIOUS
<1>2. g.box = box /\ g.revision = at + 1 /\ g.group = page.groups[n + 1]
  BY <1>1 DEF Pages
<1>3. done = ApplyGroup(acc, g)
  BY AppliedNext
<1>4. now = Overlay(held, changes)
  BY <1>1, ReplayedNext
<1> HIDE DEF done, acc, g, held, now
<1>5. /\ done.rows = ApplyRows(acc.rows, changes, keys)
      /\ done.versions = Overlay(acc.versions, [k \in newer |-> at + 1])
      /\ done.issues = acc.issues \cup {changes[k].issue : k \in keys \cap Copies}
  BY <1>1, <1>2, <1>3 DEF ApplyGroup
<1> HIDE DEF at
<1>6. /\ Tidy(acc.rows) /\ DOMAIN base.rows \subseteq DOMAIN acc.rows
      /\ VersionsBy(acc.versions, at) /\ acc.issues \subseteq Carried(page, n)
      /\ \A k \in Carried(page, n) :
             ~ProtectsLocal(box, k, at) => k \in DOMAIN acc.rows /\ SameRow(acc.rows, held, k)
      /\ \A k : k \notin Carried(page, n) =>
             SameRow(base.rows, acc.rows, k) /\ SameRow(Replayed(l, page.cursor), held, k)
  BY DEF Brought, acc, held, at
<1>7. Carried(page, n + 1) = Carried(page, n) \cup DOMAIN changes
  BY CarriedNext
<1>8. newer = DOMAIN changes
  BY <1>1, <1>6 DEF VersionsBy, KnownRevision
<1>9. keys = {k \in DOMAIN changes : ~ProtectsLocal(box, k, at + 1)}
  <2>1. keys = {k \in newer : ~ProtectsLocal(box, k, at + 1)}
    BY <1>1 DEF AppliedKeys
  <2> QED
    BY <1>8, <2>1
<1> HIDE DEF keys, newer, changes
<1>10. /\ DOMAIN done.rows = DOMAIN acc.rows \cup keys
       /\ \A k \in keys : done.rows[k] = AppliedRow(changes[k], k)
       /\ \A k \in DOMAIN acc.rows : k \notin keys => done.rows[k] = acc.rows[k]
  BY <1>5, <1>9 DEF ApplyRows, Overlay
<1>11. ASSUME NEW k \in keys PROVE AppliedRow(changes[k], k) = changes[k]
  <2>1. k \in DOMAIN changes
    BY <1>9
  <2>2. CASE k \in Copies
    <3>1. PICK r : r = changes[k] /\ r \in CopyData /\ (r.deleted => ~r.active)
      BY <2>1, <2>2 DEF IsCollection, Tidy, changes
    <3>2. (r.active /\ ~r.deleted) = r.active
      BY <3>1 DEF CopyData
    <3>3. [r EXCEPT !.active = r.active /\ ~r.deleted] = r
      BY <3>1, <3>2 DEF CopyData
    <3> QED
      BY <2>2, <3>1, <3>3 DEF AppliedRow
  <2>3. CASE k \notin Copies
    BY <2>3 DEF AppliedRow
  <2> QED
    BY <2>2, <2>3
<1>12. DOMAIN now = DOMAIN held \cup DOMAIN changes
       /\ (\A k \in DOMAIN changes : now[k] = changes[k])
       /\ (\A k \in DOMAIN held : k \notin DOMAIN changes => now[k] = held[k])
  BY <1>4 DEF Overlay
<1>13. Tidy(done.rows)
  BY <1>5, <1>6, <1>9, <1>10, <1>11, SMTT(30) DEF Tidy, changes
<1>14. VersionsBy(done.versions, at + 1)
  BY <1>1, <1>5, <1>6, <1>8 DEF VersionsBy, Overlay
<1>15. done.issues \subseteq Carried(page, n + 1)
  BY <1>5, <1>6, <1>7, <1>9 DEF Closed, changes
<1>16. ASSUME NEW k \in Carried(page, n + 1), ~ProtectsLocal(box, k, at + 1)
       PROVE  k \in DOMAIN done.rows /\ SameRow(done.rows, now, k)
  <2>1. CASE k \in DOMAIN changes
    BY <1>9, <1>10, <1>11, <1>12, <1>16, <2>1 DEF SameRow
  <2>2. CASE k \notin DOMAIN changes
    <3>1. ~ProtectsLocal(box, k, at)
      <4> SUFFICES ASSUME NEW p \in DOMAIN box, k \in DOMAIN box[p].changes,
                          box[p].ack = 0 \/ box[p].ack > at
                   PROVE  FALSE
        BY DEF ProtectsLocal
      <4>1. box[p].ack # 0 /\ ~(box[p].ack > at + 1)
        BY <1>16 DEF ProtectsLocal
      <4>2. box[p].ack \in Nat
        BY DEF AckedByPage
      <4>3. box[p].ack = at + 1
        BY <1>1, <4>1, <4>2
      <4> QED
        BY <1>1, <2>2, <4>3 DEF AckedByPage, changes
    <3>2. k \in DOMAIN acc.rows /\ SameRow(acc.rows, held, k)
      BY <1>6, <1>7, <2>2, <3>1
    <3> QED
      BY <1>9, <1>10, <1>12, <2>2, <3>2 DEF SameRow
  <2> QED
    BY <2>1, <2>2
<1>17. ASSUME NEW k, k \notin Carried(page, n + 1)
       PROVE  SameRow(base.rows, done.rows, k) /\ SameRow(Replayed(l, page.cursor), now, k)
  <2>1. k \notin DOMAIN changes /\ k \notin Carried(page, n)
    BY <1>7, <1>17
  <2>2. SameRow(base.rows, acc.rows, k) /\ SameRow(Replayed(l, page.cursor), held, k)
    BY <1>6, <2>1
  <2> QED
    BY <1>9, <1>10, <1>12, <2>1, <2>2 DEF SameRow
<1>18. DOMAIN base.rows \subseteq DOMAIN done.rows
  BY <1>6, <1>10
<1> QED
  BY <1>1, <1>13, <1>14, <1>15, <1>16, <1>17, <1>18 DEF Brought, done, now, at

(* All groups of a page.                                                   *)
LEMMA PageBrings ==
    ASSUME NEW base, base.issues = {}, Tidy(base.rows), NEW box, NEW page, page.cursor \in Nat,
           VersionsBy(base.versions, page.cursor), NEW m \in Nat,
           DOMAIN page.groups = 1..m, AckedByPage(box, page), NEW l,
           \A g \in 1..m : /\ IsCollection(page.groups[g].changes)
                           /\ Tidy(page.groups[g].changes) /\ Closed(page.groups[g].changes)
                           /\ page.groups[g].changes = l[page.cursor + g].changes
    PROVE  Brought(base, box, page, l, m)
<1> DEFINE S == {n \in Nat : n <= m => Brought(base, box, page, l, n)}
<1>1. 0 \in S
  <2>1. AppliedUpTo(base, box, page, 0) = base /\ Carried(page, 0) = {}
        /\ page.cursor + 0 = page.cursor
    BY AppliedNone DEF Carried
  <2> QED
    BY <2>1 DEF Brought, SameRow
<1>2. ASSUME NEW n \in Nat, n \in S PROVE n + 1 \in S
  <2> SUFFICES ASSUME n + 1 <= m PROVE Brought(base, box, page, l, n + 1)
    OBVIOUS
  <2>1. n + 1 \in 1..m /\ n < m /\ Brought(base, box, page, l, n)
    BY <1>2
  <2> HIDE DEF S
  <2> QED
    BY <2>1, BroughtNext
<1>3. m \in S
  <2> HIDE DEF S
  <2> QED
    BY <1>1, <1>2, Replaying!NatSetInduction
<1> QED
  BY <1>3

-----------------------------------------------------------------------------
(* What a page brings agrees with the history at its end, up to what the   *)
(* outbox still queues then.                                               *)
LEMMA PageAgrees ==
    ASSUME NEW base, IsCollection(base.rows), Tidy(base.rows),
           NEW box, Queued(box) \subseteq DOMAIN base.rows,
           NEW page, page.cursor \in Nat, NEW m \in Nat, DOMAIN page.groups = 1..m,
           AckedByPage(box, page),
           \A n \in DOMAIN box : box[n].ack # 0 => box[n].ack > page.cursor,
           \A g \in 1..m : /\ IsCollection(page.groups[g].changes)
                           /\ Closed(page.groups[g].changes) /\ Tidy(page.groups[g].changes),
           NEW l, Agrees(base.rows, box, Replayed(l, page.cursor)),
           NEW held, held = Replayed(l, page.cursor + m),
           IsCollection(held), Tidy(held), FlagsAgree(held),
           NEW done, done = AppliedUpTo(base, box, page, m), Brought(base, box, page, l, m),
           IsCollection(done.rows), done.issues \subseteq Issues,
           NEW new, \A k : k \in Queued(new) <=> ProtectsLocal(box, k, page.cursor + m),
           NEW after, after = RecomputeFlags(done.rows, done.issues)
    PROVE  Agrees(after, new, held)
<1> DEFINE rows == done.rows
           start == Replayed(l, page.cursor)
<1>1. /\ Tidy(rows) /\ DOMAIN base.rows \subseteq DOMAIN rows
      /\ done.issues \subseteq Carried(page, m)
      /\ \A k \in Carried(page, m) : k \notin Queued(new) => k \in DOMAIN rows /\ SameRow(rows, held, k)
      /\ \A k : k \notin Carried(page, m) => SameRow(base.rows, rows, k) /\ SameRow(start, held, k)
  BY DEF Brought
<1>2. ASSUME NEW k, k \notin Carried(page, m), k \notin Queued(new)
      PROVE  k \notin Queued(box)
  <2> SUFFICES ASSUME NEW n \in DOMAIN box, k \in DOMAIN box[n].changes PROVE FALSE
    BY DEF Queued
  <2>1. box[n].ack # 0 /\ ~(box[n].ack > page.cursor + m)
    BY <1>2 DEF ProtectsLocal
  <2>2. box[n].ack \in Nat /\ box[n].ack > page.cursor
    BY <2>1 DEF AckedByPage
  <2>3. box[n].ack - page.cursor \in 1..m /\ box[n].ack = page.cursor + (box[n].ack - page.cursor)
    BY <2>1, <2>2
  <2>4. DOMAIN box[n].changes \subseteq DOMAIN page.groups[box[n].ack - page.cursor].changes
    BY <2>3 DEF AckedByPage
  <2> QED
    BY <1>2, <2>3, <2>4 DEF Carried
<1>3. \A k \in Keys \ Issues : k \notin Queued(new) => SameRow(rows, held, k)
  BY <1>1, <1>2 DEF Agrees, SameRow
<1> HIDE DEF rows, start
<1>4. /\ DOMAIN after = DOMAIN rows \cup done.issues
      /\ \A k \in DOMAIN rows : k \notin done.issues => after[k] = rows[k]
      /\ \A i \in done.issues : after[i] = WithDerivedFlags(EntryOf(rows, i), rows, i)
  BY DEF RecomputeFlags, Overlay, rows
<1>5. \A k \in Keys \ Issues : k \notin Queued(new) => SameRow(after, held, k)
  BY <1>3, <1>4 DEF SameRow
<1>6. ASSUME NEW i \in Issues PROVE EntryOf(after, i).value = EntryOf(rows, i).value
  <2>1. CASE i \in done.issues
    <3>1. PICK e : e = EntryOf(rows, i) /\ e \in EntryData
      BY EntryIsTyped DEF rows
    <3>2. EntryOf(after, i) = WithDerivedFlags(e, rows, i)
      BY <1>4, <2>1, <3>1 DEF EntryOf
    <3>3. WithDerivedFlags(e, rows, i).value = e.value
      BY <3>1 DEF WithDerivedFlags, EntryData
    <3> QED
      BY <3>1, <3>2, <3>3
  <2>2. CASE i \notin done.issues
    BY <1>4, <2>2 DEF EntryOf
  <2> QED
    BY <2>1, <2>2
<1>7. ASSUME NEW i \in Issues, i \notin Queued(new)
      PROVE  EntryOf(rows, i).value = EntryOf(held, i).value
  <2>1. CASE i \in Carried(page, m)
    BY <1>1, <1>7, <2>1 DEF EntryOf, SameRow
  <2>2. CASE i \notin Carried(page, m)
    <3>1. EntryOf(base.rows, i).value = EntryOf(start, i).value
      BY <1>2, <1>7, <2>2 DEF Agrees, start
    <3>2. EntryOf(rows, i) = EntryOf(base.rows, i) /\ EntryOf(held, i) = EntryOf(start, i)
      BY <1>1, <2>2 DEF EntryOf, SameRow
    <3> QED
      BY <3>1, <3>2
  <2> QED
    BY <2>1, <2>2
<1>8. ASSUME NEW i \in Issues, i \notin Queued(new), CopiesOf(after, i) \cap Queued(new) = {}
      PROVE  SameRow(after, held, i)
  <2>1. \A k \in Copies : k \in DOMAIN after <=> k \in DOMAIN rows
    BY <1>4, CollectionAssumption
  <2>2. \A k \in Copies \cap DOMAIN rows : after[k] = rows[k]
    BY <1>4, CollectionAssumption
  <2>3. Queued(new) \subseteq Queued(box)
    BY DEF ProtectsLocal, Queued
  <2>4. ASSUME NEW k \in Copies, Home[k] = i PROVE k \notin Queued(new)
    <3>1. SUFFICES ASSUME k \in Queued(new) PROVE FALSE
      OBVIOUS
    <3>2. k \in DOMAIN rows /\ rows[k].issue = i
      BY <1>1, <2>3, <2>4, <3>1 DEF Tidy
    <3>3. k \in CopiesOf(after, i)
      BY <2>1, <2>2, <3>2 DEF CopiesOf
    <3> QED
      BY <1>8, <3>1, <3>3
  <2>5. \A k \in Copies : k \in Keys \ Issues
    BY CollectionAssumption DEF Keys
  <2>6. \A k \in Copies : Home[k] = i => SameRow(rows, held, k)
    BY <1>3, <2>4, <2>5
  <2>7. /\ CopiesOf(rows, i) = CopiesOf(held, i)
        /\ ActiveCopies(rows, i) = ActiveCopies(held, i)
        /\ SeveralActive(rows, i) = SeveralActive(held, i)
    BY <1>1, <2>6, SameCopies
  <2>8. CASE i \in Carried(page, m)
    <3>1. i \in DOMAIN rows /\ i \in DOMAIN held /\ rows[i] = held[i]
      BY <1>1, <1>8, <2>8 DEF SameRow
    <3>2. CASE i \in done.issues
      <4>1. after[i] = WithDerivedFlags(held[i], rows, i)
        BY <1>4, <3>1, <3>2 DEF EntryOf
      <4>2. after[i] = held[i]
        BY <2>7, <3>1, <4>1, DerivedAlready
      <4> QED
        BY <1>4, <3>1, <4>2 DEF SameRow
    <3>3. CASE i \notin done.issues
      BY <1>4, <3>1, <3>3 DEF SameRow
    <3> QED
      BY <3>2, <3>3
  <2>9. CASE i \notin Carried(page, m)
    <3>1. i \notin done.issues
      BY <1>1, <2>9
    <3>2. i \notin Queued(box)
      BY <1>2, <1>8, <2>9
    <3>3. CopiesOf(base.rows, i) \cap Queued(box) = {}
      <4> SUFFICES ASSUME NEW k \in CopiesOf(base.rows, i), k \in Queued(box) PROVE FALSE
        OBVIOUS
      <4>1. k \in Copies /\ Home[k] = i
        BY DEF CopiesOf, Tidy
      <4>2. k \in Carried(page, m)
        BY <1>2, <2>4, <4>1
      <4>3. PICK g \in 1..m : k \in DOMAIN page.groups[g].changes
        BY <4>2 DEF Carried
      <4>4. i \in DOMAIN page.groups[g].changes
        BY <4>1, <4>3 DEF Closed, Tidy
      <4> QED
        BY <2>9, <4>4 DEF Carried
    <3>4. SameRow(base.rows, start, i)
      BY <3>2, <3>3 DEF Agrees, start
    <3>5. SameRow(rows, held, i)
      BY <1>1, <2>9, <3>4 DEF SameRow
    <3> QED
      BY <1>4, <3>1, <3>5 DEF SameRow
  <2> QED
    BY <2>8, <2>9
<1> QED
  BY <1>5, <1>6, <1>7, <1>8 DEF Agrees

-----------------------------------------------------------------------------
(* The requests of a device that the server may still process.             *)
Asked(req, strays) == strays \cup (IF req = Nothing THEN {} ELSE {req})

TidyAt(c, box, reqs) ==
    /\ Tidy(c) /\ \A n \in DOMAIN box : Tidy(box[n].changes)
    /\ \A req \in reqs : \A p \in DOMAIN req.mutations : Tidy(req.mutations[p].changes)

(* What is queued is what is asked and what is recorded under the same id. *)
SentAs(box, reqs, rcpts) ==
    \A n \in DOMAIN box :
        /\ \A req \in reqs : \A p \in DOMAIN req.mutations :
              req.mutations[p].id = box[n].id => req.mutations[p].changes = box[n].changes
        /\ box[n].id \in DOMAIN rcpts => rcpts[box[n].id].payload = box[n].changes

AgreedAt(d) ==
    /\ TidyAt(local[d], outbox[d], Asked(request[d], stray[d]))
    /\ Queued(outbox[d]) \subseteq DOMAIN local[d]
    /\ SentAs(outbox[d], Asked(request[d], stray[d]), receipts)
    /\ VersionsBy(versions[d], state[d].cursor)
    /\ state[d].seeded \/ (state[d].cursor = 0 /\ request[d] = Nothing)
    /\ state[d].seeded => Agrees(local[d], outbox[d], EntitiesAt(state[d].cursor))

(* The strengthening of ReplicaAgrees and UserFieldsAgree.                 *)
Agreed ==
    /\ FlagsOfHistory /\ \A r \in DOMAIN log : Tidy(log[r].changes)
    /\ \A d \in Devices : AgreedAt(d)

(* A step of one device that leaves the server alone.                      *)
LEMMA AgreedStep ==
    ASSUME Agreed, NEW d \in Devices, UNCHANGED <<log, receipts>>,
           OthersKept(d, local', local), OthersKept(d, outbox', outbox),
           OthersKept(d, versions', versions), OthersKept(d, state', state),
           OthersKept(d, request', request), OthersKept(d, stray', stray), AgreedAt(d)'
    PROVE  Agreed'
<1>1. FlagsOfHistory' /\ \A r \in DOMAIN log' : Tidy(log'[r].changes)
  BY DEF Agreed, FlagsOfHistory, EntitiesAt
<1>2. ASSUME NEW e \in Devices, e # d PROVE AgreedAt(e)'
  <2>1. /\ outbox'[e] = outbox[e] /\ request'[e] = request[e] /\ stray'[e] = stray[e]
        /\ local'[e] = local[e] /\ versions'[e] = versions[e] /\ state'[e] = state[e]
        /\ AgreedAt(e)
    BY <1>2 DEF OthersKept, Agreed
  <2>2. PICK box, req, strays, c, vs, s, l, rcpts :
          /\ box = outbox[e] /\ req = request[e] /\ strays = stray[e] /\ l = log
          /\ c = local[e] /\ vs = versions[e] /\ s = state[e] /\ rcpts = receipts
    OBVIOUS
  <2>3. /\ TidyAt(c, box, Asked(req, strays)) /\ Queued(box) \subseteq DOMAIN c
        /\ SentAs(box, Asked(req, strays), rcpts) /\ VersionsBy(vs, s.cursor)
        /\ s.seeded \/ (s.cursor = 0 /\ req = Nothing)
        /\ s.seeded => Agrees(c, box, Replayed(l, s.cursor))
    BY <2>1, <2>2 DEF AgreedAt, EntitiesAt
  <2>4. /\ outbox'[e] = box /\ request'[e] = req /\ stray'[e] = strays /\ log' = l
        /\ local'[e] = c /\ versions'[e] = vs /\ state'[e] = s /\ receipts' = rcpts
    BY <2>1, <2>2
  <2> QED
    BY <2>3, <2>4 DEF AgreedAt, EntitiesAt
<1> QED
  BY <1>1, <1>2 DEF Agreed

(* An id names at most one row of an outbox.                               *)
LEMMA OneRowPerId ==
    ASSUME NEW d, NEW m, NEW box, IsOutbox(d, m, box),
           NEW n \in DOMAIN box, NEW p \in DOMAIN box, box[n].id = box[p].id
    PROVE  n = p
<1>1. DOMAIN box = 1..Len(box) /\ Len(box) \in Nat
  BY SequenceShape DEF IsOutbox
<1>2. PICK k \in 1..m : box[n].id = <<d, k>>
  BY DEF IsOutbox, IsMutation
<1>3. ~(box[n].id[2] < box[p].id[2]) /\ ~(box[p].id[2] < box[n].id[2])
  BY <1>2
<1>4. ~(n < p) /\ ~(p < n)
  BY <1>3 DEF IsOutbox
<1> QED
  BY <1>1, <1>4

(* The ids of new mutations are known to nobody yet.                       *)
LEMMA NewIdsAreUnknown ==
    ASSUME Typed, Pinned, NEW d \in Devices, Edits(d),
           NEW p \in DOMAIN outbox'[d] \ DOMAIN outbox[d]
    PROVE  /\ outbox'[d][p].id \notin DOMAIN receipts
           /\ outbox'[d][p].id \notin InFlight(request[d]) \cup Straying(stray[d])
<1> DEFINE box == outbox[d]
           new == outbox'[d]
           m == minted[d]
           n == minted'[d]
<1>1. IsOutbox(d, m, box) /\ m \in Nat /\ Extends(d, m, box, n, new)
  BY DEF Typed, DeviceTyped, Edits
<1>2. SentAreKnown(box, DOMAIN receipts, request[d], stray[d])
      /\ Generated(DOMAIN receipts, minted)
  BY DEF Pinned, PinnedAt
<1> HIDE DEF box, new, m, n
<1>3. /\ Len(box) \in Nat /\ DOMAIN box = 1..Len(box) /\ DOMAIN new = 1..Len(new)
      /\ n \in Nat /\ m <= n /\ Len(new) = Len(box) + (n - m)
      /\ \A k \in 1..(n - m) : new[Len(box) + k].id = <<d, m + k>>
  <2>1. Sequence(new) /\ Sequence(box)
    BY <1>1 DEF IsOutbox, Extends
  <2>2. ASSUME NEW k \in 1..(n - m) PROVE new[Len(box) + k].id = <<d, m + k>>
    <3>1. new[Len(box) + k]
            = [id |-> <<d, m + k>>, changes |-> new[Len(box) + k].changes, ack |-> 0]
      BY <1>1 DEF Extends
    <3>2. PICK c : c = new[Len(box) + k].changes
      OBVIOUS
    <3> QED
      BY <3>1, <3>2
  <2> QED
    BY <1>1, <2>1, <2>2, SequenceShape DEF Extends
<1>4. p - Len(box) \in 1..(n - m) /\ Len(box) + (p - Len(box)) = p
  <2>1. p \in 1..Len(new) /\ p \notin 1..Len(box)
    BY <1>3 DEF new, box
  <2> QED
    BY <1>1, <1>3, <2>1
<1>5. PICK k \in 1..(n - m) : new[p].id = <<d, m + k>>
  BY <1>3, <1>4
<1>6. new[p].id \notin DOMAIN receipts
  <2>1. ASSUME NEW e \in Devices, NEW j \in 1..minted[e], new[p].id = <<e, j>> PROVE FALSE
    <3>1. e = d /\ j = m + k
      BY <1>5, <2>1
    <3> QED
      BY <1>1, <1>5, <3>1 DEF m
  <2> QED
    BY <1>2, <2>1 DEF Generated
<1>7. new[p].id \notin Ids(box)
  <2> SUFFICES ASSUME NEW q \in DOMAIN box, box[q].id = new[p].id PROVE FALSE
    BY DEF Ids
  <2>1. PICK j \in 1..m : box[q].id = <<d, j>>
    BY <1>1 DEF IsOutbox, IsMutation
  <2> QED
    BY <1>1, <1>5, <2>1
<1> QED
  BY <1>2, <1>6, <1>7 DEF SentAreKnown, new

(* What edits queue is neither asked nor recorded.                         *)
LEMMA EditsKeepSent ==
    ASSUME Typed, Pinned, NEW d \in Devices, Edits(d), request[d] # Nothing => IsRequest(request[d]),
           SentAs(outbox[d], Asked(request[d], stray[d]), receipts)
    PROVE  SentAs(outbox'[d], Asked(request[d], stray[d]), receipts)
<1>1. /\ DOMAIN outbox[d] \subseteq DOMAIN outbox'[d]
      /\ \A p \in DOMAIN outbox[d] : outbox'[d][p] = outbox[d][p]
  BY ExtendedRows DEF Edits, Typed, DeviceTyped, IsOutbox
<1> SUFFICES ASSUME NEW n \in DOMAIN outbox'[d]
             PROVE  /\ \A req \in Asked(request[d], stray[d]) : \A p \in DOMAIN req.mutations :
                          req.mutations[p].id = outbox'[d][n].id =>
                            req.mutations[p].changes = outbox'[d][n].changes
                    /\ outbox'[d][n].id \in DOMAIN receipts =>
                          receipts[outbox'[d][n].id].payload = outbox'[d][n].changes
  BY DEF SentAs
<1>2. CASE n \in DOMAIN outbox[d]
  BY <1>1, <1>2 DEF SentAs
<1>3. CASE n \notin DOMAIN outbox[d]
  <2>1. /\ outbox'[d][n].id \notin DOMAIN receipts
        /\ outbox'[d][n].id \notin InFlight(request[d]) \cup Straying(stray[d])
    BY <1>3, NewIdsAreUnknown
  <2>2. \A req \in Asked(request[d], stray[d]) : \A p \in DOMAIN req.mutations :
          req.mutations[p].id \in InFlight(request[d]) \cup Straying(stray[d])
    BY DEF Asked, InFlight, Straying, Sent
  <2> QED
    BY <2>1, <2>2
<1> QED
  BY <1>2, <1>3

(* Edits keep what is queued in the rows, and tidy.                        *)
LEMMA EditsAreHeld ==
    ASSUME Typed, NEW d \in Devices, Edits(d), Queued(outbox[d]) \subseteq DOMAIN local[d],
           \A n \in DOMAIN outbox[d] : Tidy(outbox[d][n].changes), Tidy(local'[d])
    PROVE  /\ DOMAIN local[d] \subseteq DOMAIN local'[d]
           /\ Queued(outbox'[d]) = Queued(outbox[d]) \cup Added(outbox[d], outbox'[d])
           /\ Queued(outbox'[d]) \subseteq DOMAIN local'[d]
           /\ \A n \in DOMAIN outbox'[d] : Tidy(outbox'[d][n].changes)
<1>1. /\ DOMAIN outbox[d] \subseteq DOMAIN outbox'[d]
      /\ \A p \in DOMAIN outbox[d] : outbox'[d][p] = outbox[d][p]
  BY ExtendedRows DEF Edits, Typed, DeviceTyped, IsOutbox
<1>2. Queued(outbox'[d]) = Queued(outbox[d]) \cup Added(outbox[d], outbox'[d])
  BY ExtendedQueue DEF Edits, Typed, DeviceTyped, IsOutbox
<1>3. DOMAIN local[d] \subseteq DOMAIN local'[d]
  BY DEF Edits, Covers
<1>4. \A p \in DOMAIN outbox'[d] \ DOMAIN outbox[d] : PartOf(outbox'[d][p].changes, local'[d])
  BY DEF Edits, Adds
<1>5. Added(outbox[d], outbox'[d]) \subseteq DOMAIN local'[d]
  BY <1>4 DEF Added, PartOf
<1>6. ASSUME NEW n \in DOMAIN outbox'[d] PROVE Tidy(outbox'[d][n].changes)
  <2>1. CASE n \in DOMAIN outbox[d]
    BY <1>1, <2>1
  <2>2. CASE n \notin DOMAIN outbox[d]
    BY <1>4, <2>2, TidyPart
  <2> QED
    BY <2>1, <2>2
<1> QED
  BY <1>2, <1>3, <1>5, <1>6

(* A device's history so far, which it agrees with.                        *)
LEMMA HeldAtDevice ==
    ASSUME Typed, Pinned, Agreed, NEW d \in Devices
    PROVE  LET held == EntitiesAt(state[d].cursor) IN
           IsCollection(held) /\ Tidy(held) /\ FlagsAgree(held)
<1> DEFINE n == state[d].cursor
<1>1. HistorySound /\ n \in 0..Len(log) /\ n \in Nat
  BY LogIndices DEF Typed, DeviceTyped, StateTyped, Pinned, PinnedAt, PastIsGone
<1>2. IsCollection(EntitiesAt(n)) /\ FlagsAgree(EntitiesAt(n))
  BY <1>1, HeldIsCollection DEF Agreed, FlagsOfHistory
<1>3. \A r \in 1..n : Tidy(log[r].changes)
  BY <1>1, LogIndices DEF Agreed
<1>4. Tidy(EntitiesAt(n))
  <2> HIDE DEF n
  <2> QED
    BY <1>1, <1>3, TidyReplay DEF EntitiesAt
<1> QED
  BY <1>2, <1>4

(* A user's write keeps the agreement.                                     *)
LEMMA UserWriteKeepsAgreed ==
    ASSUME CopiesHaveHomes, Typed, Pinned, Agreed, NEW d \in Devices, UserWrite(d)
    PROVE  Agreed'
<1>1. Edits(d) /\ UNCHANGED <<state, request>> /\ UNCHANGED <<log, receipts, versions, stray>>
  BY UserWriteEdits DEF Edits, serverVars
<1>2. Tells(local[d], local'[d], Added(outbox[d], outbox'[d])) /\ Tidy(local'[d])
  BY UserWriteTells DEF Agreed, AgreedAt, TidyAt
<1>3. /\ AgreedAt(d) /\ IsCollection(local[d]) /\ Domains
      /\ request[d] # Nothing => IsRequest(request[d])
  BY DEF Agreed, Typed, DeviceTyped, WireTyped
<1>4. /\ DOMAIN local[d] \subseteq DOMAIN local'[d]
      /\ Queued(outbox'[d]) = Queued(outbox[d]) \cup Added(outbox[d], outbox'[d])
      /\ Queued(outbox'[d]) \subseteq DOMAIN local'[d]
      /\ \A n \in DOMAIN outbox'[d] : Tidy(outbox'[d][n].changes)
  BY <1>1, <1>2, <1>3, EditsAreHeld DEF AgreedAt, TidyAt
<1>5. SentAs(outbox'[d], Asked(request[d], stray[d]), receipts)
  BY <1>1, <1>3, EditsKeepSent DEF AgreedAt
<1>6. ASSUME state[d].seeded
      PROVE  Agrees(local'[d], outbox'[d], EntitiesAt(state[d].cursor))
  <2>1. PICK held, c, after, box, new, changed :
          /\ held = EntitiesAt(state[d].cursor) /\ c = local[d] /\ after = local'[d]
          /\ box = outbox[d] /\ new = outbox'[d] /\ changed = Added(outbox[d], outbox'[d])
    OBVIOUS
  <2>2. IsCollection(held) /\ Tidy(held) /\ FlagsAgree(held)
    BY <2>1, HeldAtDevice
  <2>3. /\ IsCollection(c) /\ Tidy(c) /\ Tidy(after) /\ DOMAIN c \subseteq DOMAIN after
        /\ Queued(box) \subseteq DOMAIN c /\ Agrees(c, box, held) /\ Tells(c, after, changed)
        /\ Queued(new) = Queued(box) \cup changed
    BY <1>2, <1>3, <1>4, <1>6, <2>1 DEF AgreedAt, TidyAt
  <2>4. Agrees(after, new, held)
    BY <2>2, <2>3, ToldAgrees
  <2> QED
    BY <2>1, <2>4
<1>7. AgreedAt(d)'
  <2>1. TidyAt(local'[d], outbox'[d], Asked(request[d], stray[d]))
    BY <1>2, <1>3, <1>4 DEF AgreedAt, TidyAt
  <2>2. PICK req, strays, s, rcpts, l : /\ req = request[d] /\ strays = stray[d] /\ s = state[d]
                                        /\ rcpts = receipts /\ l = log
    OBVIOUS
  <2>3. /\ request'[d] = req /\ stray'[d] = strays /\ state'[d] = s /\ versions'[d] = versions[d]
        /\ receipts' = rcpts /\ log' = l
    BY <1>1, <2>2
  <2>4. /\ s.seeded => Agrees(local'[d], outbox'[d], Replayed(l, s.cursor))
        /\ VersionsBy(versions[d], s.cursor)
        /\ s.seeded \/ (s.cursor = 0 /\ req = Nothing)
    BY <1>3, <1>6, <2>2 DEF AgreedAt, EntitiesAt
  <2> QED
    BY <1>4, <1>5, <2>1, <2>2, <2>3, <2>4 DEF AgreedAt, EntitiesAt
<1>8. /\ OthersKept(d, local', local) /\ OthersKept(d, outbox', outbox)
      /\ OthersKept(d, versions', versions) /\ OthersKept(d, state', state)
      /\ OthersKept(d, request', request) /\ OthersKept(d, stray', stray)
  BY <1>1, <1>3, KeptAtDevice DEF Edits, Domains
<1> QED
  BY <1>1, <1>7, <1>8, AgreedStep

-----------------------------------------------------------------------------
(* Whatever more is queued concerns agreement less.                        *)
LEMMA MoreQueuedAgrees ==
    ASSUME NEW c, NEW box, NEW held, Agrees(c, box, held), NEW new,
           Queued(box) \subseteq Queued(new)
    PROVE  Agrees(c, new, held)
<1>1. \A i : CopiesOf(c, i) \cap Queued(new) = {} => CopiesOf(c, i) \cap Queued(box) = {}
  OBVIOUS
<1>2. \A k : k \notin Queued(new) => k \notin Queued(box)
  OBVIOUS
<1> QED
  BY <1>1, <1>2 DEF Agrees

(* A batch sends what is queued.                                           *)
LEMMA BatchAsQueued ==
    ASSUME NEW d, NEW m, NEW box, IsOutbox(d, m, box),
           \A n \in DOMAIN box : Tidy(box[n].changes)
    PROVE  LET batch == Batch(box) IN
           /\ \A p \in DOMAIN batch : Tidy(batch[p].changes)
           /\ \A p \in DOMAIN batch : \A n \in DOMAIN box :
                 batch[p].id = box[n].id => batch[p].changes = box[n].changes
<1> DEFINE rows == RowsAt(box, Fitting(box))
           batch == Batch(box)
<1>1. Fitting(box) \in SUBSET DOMAIN box
  BY DEF Fitting, Unacked
<1>2. \A k \in DOMAIN rows : \E p \in Fitting(box) : rows[k] = box[p]
  BY <1>1, PartOfOutbox
<1>3. batch = [k \in DOMAIN rows |-> [id |-> rows[k].id, changes |-> rows[k].changes]]
  BY DEF Batch
<1> HIDE DEF rows, batch
<1>4. ASSUME NEW p \in DOMAIN batch
      PROVE  \E q \in DOMAIN box : batch[p].id = box[q].id /\ batch[p].changes = box[q].changes
  <2>1. p \in DOMAIN rows /\ batch[p] = [id |-> rows[p].id, changes |-> rows[p].changes]
    BY <1>3
  <2>2. PICK q \in DOMAIN box : rows[p] = box[q]
    BY <1>1, <1>2, <2>1
  <2>3. PICK i, c : i = rows[p].id /\ c = rows[p].changes
    OBVIOUS
  <2> QED
    BY <2>1, <2>2, <2>3
<1>5. ASSUME NEW p \in DOMAIN batch, NEW n \in DOMAIN box, batch[p].id = box[n].id
      PROVE  batch[p].changes = box[n].changes
  <2>1. PICK q \in DOMAIN box : batch[p].id = box[q].id /\ batch[p].changes = box[q].changes
    BY <1>4
  <2>2. q = n
    BY <1>5, <2>1, OneRowPerId
  <2> QED
    BY <2>1, <2>2
<1>6. \A p \in DOMAIN batch : Tidy(batch[p].changes)
  BY <1>4
<1> QED
  BY <1>5, <1>6 DEF batch

(* Preparing an exchange keeps the agreement; of a device that was never   *)
(* seeded it establishes it.                                               *)
LEMMA PrepareKeepsAgreed ==
    ASSUME Typed, Pinned, Agreed, NEW d \in Devices, Prepare(d)
    PROVE  Agreed'
<1> DEFINE box == outbox[d]
           new == outbox'[d]
           c == local[d]
           req == request'[d]
           cursor == state[d].cursor
<1>1. /\ Edits(d) /\ request[d] = Nothing
      /\ OthersKept(d, state', state) /\ state'[d].cursor = cursor /\ state'[d].seeded
      /\ state[d].seeded \/ DOMAIN c \subseteq Queued(new)
      /\ OthersKept(d, request', request)
      /\ req = [id |-> d, serverId |-> state[d].serverId, cursor |-> cursor,
                mutations |-> IF state[d].baseline THEN Batch(new) ELSE << >>]
  BY PrepareEdits
<1>2. UNCHANGED <<log, receipts, local, versions, stray>> /\ local'[d] = c
  BY DEF Prepare, serverVars
<1>3. AgreedAt(d) /\ Domains /\ IsOutbox(d, minted[d], box) /\ Tidy(c)
  BY DEF Agreed, Typed, DeviceTyped, AgreedAt, TidyAt
<1>4. /\ Queued(new) = Queued(box) \cup Added(box, new) /\ Queued(new) \subseteq DOMAIN c
      /\ \A n \in DOMAIN new : Tidy(new[n].changes)
  BY <1>1, <1>2, <1>3, EditsAreHeld DEF AgreedAt, TidyAt
<1>5. SentAs(new, Asked(Nothing, stray[d]), receipts)
  <2>1. SentAs(outbox'[d], Asked(request[d], stray[d]), receipts)
    BY <1>1, <1>3, EditsKeepSent DEF AgreedAt
  <2> QED
    BY <1>1, <2>1
<1>6. IsOutbox(d, minted'[d], new)
  <2>1. Extends(d, minted[d], box, minted'[d], new) /\ minted[d] \in Nat
    BY <1>1 DEF Edits, Typed, DeviceTyped
  <2> QED
    BY <1>3, <2>1, ExtendedOutbox
<1>7. req.mutations = Batch(new) \/ req.mutations = << >>
  <2>1. PICK b : b = Batch(new)
    OBVIOUS
  <2>2. PICK m : m = (IF state[d].baseline THEN b ELSE << >>) /\ (m = b \/ m = << >>)
    OBVIOUS
  <2>3. PICK s, n : s = state[d].serverId /\ n = cursor
    OBVIOUS
  <2>4. req = [id |-> d, serverId |-> s, cursor |-> n, mutations |-> m]
    BY <1>1, <2>1, <2>2, <2>3
  <2> QED
    BY <2>1, <2>2, <2>4
<1> HIDE DEF new, req
<1>8. /\ \A p \in DOMAIN req.mutations : Tidy(req.mutations[p].changes)
      /\ \A p \in DOMAIN req.mutations : \A n \in DOMAIN new :
            req.mutations[p].id = new[n].id => req.mutations[p].changes = new[n].changes
  <2>1. CASE req.mutations = Batch(new)
    BY <1>4, <1>6, <2>1, BatchAsQueued
  <2>2. CASE req.mutations = << >>
    BY <2>2
  <2> QED
    BY <1>7, <2>1, <2>2
<1>9. \A q \in Asked(req, stray[d]) : q = req \/ q \in Asked(Nothing, stray[d])
  BY DEF Asked
<1>10. TidyAt(c, new, Asked(req, stray[d])) /\ SentAs(new, Asked(req, stray[d]), receipts)
  <2>1. \A q \in stray[d] : \A p \in DOMAIN q.mutations : Tidy(q.mutations[p].changes)
    BY <1>3 DEF AgreedAt, TidyAt, Asked
  <2> QED
    BY <1>3, <1>4, <1>5, <1>8, <1>9, <2>1 DEF TidyAt, SentAs, Asked
<1>11. Agrees(c, new, EntitiesAt(cursor))
  <2>1. CASE state[d].seeded
    BY <1>3, <1>4, <2>1, MoreQueuedAgrees DEF AgreedAt
  <2>2. CASE ~state[d].seeded
    <3>1. cursor = 0 /\ DOMAIN c \subseteq Queued(new)
      BY <1>1, <1>3, <2>2 DEF AgreedAt, new
    <3>2. PICK none : none = EntitiesAt(cursor) /\ none = << >> /\ DOMAIN none = {}
      BY <3>1, ReplayedNone DEF EntitiesAt
    <3> QED
      BY <3>1, <3>2 DEF Agrees, SameRow, EntryOf
  <2> QED
    BY <2>1, <2>2
<1>12. AgreedAt(d)'
  <2>1. /\ request'[d] = req /\ stray'[d] = stray[d] /\ outbox'[d] = new
        /\ versions'[d] = versions[d] /\ receipts' = receipts /\ log' = log
    BY <1>2 DEF req, new
  <2>2. /\ VersionsBy(versions[d], cursor)
        /\ Agrees(c, new, Replayed(log, cursor))
    BY <1>3, <1>11 DEF AgreedAt, EntitiesAt
  <2> HIDE DEF cursor
  <2>3. PICK vs, l : vs = versions[d] /\ l = log
    OBVIOUS
  <2>4. VersionsBy(versions'[d], cursor) /\ Agrees(c, new, Replayed(log', cursor))
    BY <2>1, <2>2, <2>3
  <2> QED
    BY <1>1, <1>2, <1>4, <1>10, <2>1, <2>4 DEF AgreedAt, EntitiesAt
<1>13. /\ OthersKept(d, local', local) /\ OthersKept(d, outbox', outbox)
       /\ OthersKept(d, versions', versions) /\ OthersKept(d, stray', stray)
  BY <1>1, <1>2, <1>3, KeptAtDevice DEF Edits, Domains
<1> QED
  BY <1>1, <1>2, <1>12, <1>13, AgreedStep

(* A device that asks less than before.                                    *)
LEMMA FewerAsked ==
    ASSUME NEW c, NEW box, NEW reqs, NEW fewer, fewer \subseteq reqs, NEW rcpts,
           TidyAt(c, box, reqs), SentAs(box, reqs, rcpts)
    PROVE  TidyAt(c, box, fewer) /\ SentAs(box, fewer, rcpts)
BY DEF TidyAt, SentAs

(* Giving an exchange up, or rejecting its answer, changes no row.         *)
LEMMA EndedKeepsAgreed ==
    ASSUME Typed, Agreed, NEW d \in Devices, GiveUp(d) \/ Reject(d)
    PROVE  Agreed'
<1>1. Domains /\ AgreedAt(d)
  BY DEF Typed, Agreed
<1>2. /\ UNCHANGED <<log, receipts, outbox, local, versions, state>>
      /\ request' = [request EXCEPT ![d] = Nothing]
      /\ UNCHANGED stray
         \/ /\ request[d] # Nothing
            /\ stray' = [stray EXCEPT ![d] =
                 @ \cup (IF response[d] = Nothing THEN {request[d]} ELSE {})]
  BY DEF GiveUp, Idle, Reject, deviceVars, serverVars
<1>3. /\ OthersKept(d, request', request) /\ request'[d] = Nothing
      /\ OthersKept(d, stray', stray)
      /\ stray'[d] \subseteq Asked(request[d], stray[d])
  BY <1>1, <1>2, KeptAtDevice DEF Domains, OthersKept, ByDevice, Asked
<1>4. /\ OthersKept(d, local', local) /\ OthersKept(d, outbox', outbox)
      /\ OthersKept(d, versions', versions) /\ OthersKept(d, state', state)
  BY <1>1, <1>2, KeptAtDevice DEF Domains
<1>5. AgreedAt(d)'
  <2>1. PICK req, strays : req = request[d] /\ strays = stray[d]
    OBVIOUS
  <2>2. PICK box, c, vs, s, l, rcpts, fewer :
          /\ box = outbox[d] /\ c = local[d] /\ vs = versions[d] /\ s = state[d]
          /\ l = log /\ rcpts = receipts /\ fewer = stray'[d]
    OBVIOUS
  <2>3. /\ TidyAt(c, box, Asked(req, strays)) /\ Queued(box) \subseteq DOMAIN c
        /\ SentAs(box, Asked(req, strays), rcpts) /\ VersionsBy(vs, s.cursor)
        /\ s.seeded \/ s.cursor = 0
        /\ s.seeded => Agrees(c, box, Replayed(l, s.cursor))
    BY <1>1, <2>1, <2>2 DEF AgreedAt, EntitiesAt
  <2>4. Asked(Nothing, fewer) \subseteq Asked(req, strays)
    BY <1>3, <2>1, <2>2 DEF Asked
  <2>5. TidyAt(c, box, Asked(Nothing, fewer)) /\ SentAs(box, Asked(Nothing, fewer), rcpts)
    BY <2>3, <2>4, FewerAsked
  <2>6. /\ outbox'[d] = box /\ request'[d] = Nothing /\ stray'[d] = fewer /\ log' = l
        /\ local'[d] = c /\ versions'[d] = vs /\ state'[d] = s /\ receipts' = rcpts
    BY <1>2, <1>3, <2>2
  <2> QED
    BY <2>3, <2>5, <2>6 DEF AgreedAt, EntitiesAt
<1> QED
  BY <1>2, <1>3, <1>4, <1>5, AgreedStep

(* What the server records it was asked for, and it tells the past no      *)
(* differently.                                                            *)
LEMMA CommitKeepsAgreed ==
    ASSUME CopiesHaveHomes, Typed, Pinned, Agreed, NEW d \in Devices,
           NEW req, IsRequest(req), req \in Asked(request[d], stray[d]),
           Sent(req) \subseteq InFlight(request[d]) \cup Straying(stray[d]),
           NEW n, Commit(req, n), UNCHANGED <<local, outbox, versions, state, request>>,
           \A e \in Devices : stray'[e] \subseteq stray[e]
    PROVE  Agreed'
<1>1. /\ HistorySound /\ Len(log) \in Nat /\ DOMAIN log = 1..Len(log) /\ Continues(log, log')
      /\ FlagsOfHistory
  BY LogIndices, CommitGrows DEF Typed, HistorySound, Grows, Agreed
<1>2. FlagsOfHistory'
  BY <1>1, CommitKeepsFlags
<1>3. PICK order \in Enumerations(FreshPositions(req)) : Appends(req, order)
  BY <1>1, CommitGrows DEF HistorySound
<1>4. /\ Grows /\ DOMAIN receipts' \ DOMAIN receipts \subseteq Sent(req) \cap Ids(outbox[d])
      /\ Len(log') \in Nat /\ DOMAIN log' = 1..Len(log')
  <2>1. Sent(req) \subseteq Ids(outbox[d]) \cup DOMAIN receipts
    BY DEF Pinned, PinnedAt, SentAreKnown
  <2> QED
    BY <2>1, CommitRecords
<1> DEFINE count == Cardinality(FreshPositions(req))
           at(k) == req.mutations[order[k]]
<1>5. /\ Len(log') = Len(log) + count
      /\ \A k \in 1..count :
           /\ log'[Len(log) + k].mutation = at(k).id
           /\ log'[Len(log) + k].changes = CanonicalizeGroup(EntitiesBefore(req, order[k]), at(k).changes)
           /\ receipts'[at(k).id] = [revision |-> Len(log) + k, payload |-> at(k).changes]
  BY <1>3 DEF Appends
<1>6. \A k \in 1..count : order[k] \in DOMAIN req.mutations
  BY <1>3 DEF Enumerations, FreshPositions
<1>7. count \in Nat
  BY FreshCount
<1> HIDE DEF count
<1>8. ASSUME NEW r \in DOMAIN log' PROVE Tidy(log'[r].changes)
  <2>1. CASE r <= Len(log)
    <3>1. r \in DOMAIN log /\ log'[r] = log[r]
      BY <1>1, <1>4, <2>1 DEF Continues
    <3> QED
      BY <3>1 DEF Agreed
  <2>2. CASE ~(r <= Len(log))
    <3>1. r - Len(log) \in 1..count /\ Len(log) + (r - Len(log)) = r
      BY <1>1, <1>4, <1>5, <1>7, <2>2
    <3>2. PICK k \in 1..count : r = Len(log) + k
      BY <3>1
    <3>3. Tidy(at(k).changes)
      BY <1>6 DEF Agreed, AgreedAt, TidyAt
    <3> QED
      BY <1>5, <3>2, <3>3, TidyGroup
  <2> QED
    BY <2>1, <2>2
<1>9. ASSUME NEW m \in DOMAIN receipts' \ DOMAIN receipts
      PROVE  \E p \in DOMAIN req.mutations :
                req.mutations[p].id = m /\ receipts'[m].payload = req.mutations[p].changes
  <2>1. receipts'[m].revision \in Len(log) + 1..Len(log') /\ log'[receipts'[m].revision].mutation = m
    BY <1>4 DEF Grows
  <2>2. PICK k \in 1..count : receipts'[m].revision = Len(log) + k
    <3>1. PICK r : r = receipts'[m].revision /\ r \in Len(log) + 1..Len(log')
      BY <2>1
    <3>2. r - Len(log) \in 1..count /\ Len(log) + (r - Len(log)) = r
      BY <1>1, <1>4, <1>5, <1>7, <3>1
    <3> QED
      BY <3>1, <3>2
  <2>3. at(k).id = m
    BY <1>5, <2>1, <2>2
  <2>4. receipts'[m] = [revision |-> Len(log) + k, payload |-> at(k).changes]
    BY <1>5, <2>3
  <2> QED
    BY <1>6, <2>3, <2>4
<1>10. ASSUME NEW e \in Devices PROVE AgreedAt(e)'
  <2>1. AgreedAt(e)
    BY DEF Agreed
  <2>2. PICK box, c, vs, s, q, fewer, strays :
          /\ box = outbox[e] /\ c = local[e] /\ vs = versions[e] /\ s = state[e]
          /\ q = request[e] /\ fewer = stray'[e] /\ strays = stray[e]
    OBVIOUS
  <2>3. Asked(q, fewer) \subseteq Asked(q, strays)
    BY <2>2 DEF Asked
  <2>4. TidyAt(c, box, Asked(q, strays)) /\ SentAs(box, Asked(q, strays), receipts)
    BY <2>1, <2>2 DEF AgreedAt
  <2>5. TidyAt(c, box, Asked(q, fewer)) /\ SentAs(box, Asked(q, fewer), receipts)
    BY <2>3, <2>4, FewerAsked
  <2>6. ASSUME NEW i \in DOMAIN box, box[i].id \in DOMAIN receipts'
        PROVE  receipts'[box[i].id].payload = box[i].changes
    <3>1. CASE box[i].id \in DOMAIN receipts
      BY <1>4, <2>5, <3>1 DEF SentAs, Grows
    <3>2. CASE box[i].id \notin DOMAIN receipts
      <4>1. PICK m : m = box[i].id /\ m \in DOMAIN receipts' \ DOMAIN receipts
        BY <2>6, <3>2
      <4>2. m \in Ids(outbox[d]) /\ m \in Ids(outbox[e])
        BY <1>4, <2>2, <4>1 DEF Ids
      <4>3. e = d
        BY <4>2, OneHome
      <4>4. PICK p \in DOMAIN req.mutations :
              req.mutations[p].id = m /\ receipts'[m].payload = req.mutations[p].changes
        BY <1>9, <4>1
      <4>5. req.mutations[p].changes = box[i].changes
        BY <2>2, <2>4, <4>1, <4>3, <4>4 DEF SentAs
      <4> QED
        BY <4>1, <4>4, <4>5
    <3> QED
      BY <3>1, <3>2
  <2>7. SentAs(box, Asked(q, fewer), receipts')
    BY <2>5, <2>6 DEF SentAs
  <2>8. s.cursor \in 0..Len(log)
    BY <1>1, <2>2 DEF Typed, DeviceTyped, StateTyped, Pinned, PinnedAt, PastIsGone
  <2>9. Replayed(log', s.cursor) = Replayed(log, s.cursor)
    BY <1>1, <2>8, ReplayPersists
  <2>10. /\ Queued(box) \subseteq DOMAIN c /\ VersionsBy(vs, s.cursor)
         /\ s.seeded \/ (s.cursor = 0 /\ q = Nothing)
         /\ s.seeded => Agrees(c, box, Replayed(log', s.cursor))
    BY <2>1, <2>2, <2>9 DEF AgreedAt, EntitiesAt
  <2>11. /\ outbox'[e] = box /\ request'[e] = q /\ stray'[e] = fewer
         /\ local'[e] = c /\ versions'[e] = vs /\ state'[e] = s
    BY <2>2
  <2> QED
    BY <2>5, <2>7, <2>10, <2>11 DEF AgreedAt, EntitiesAt
<1> QED
  BY <1>2, <1>8, <1>10 DEF Agreed

-----------------------------------------------------------------------------
(* The queue left behind a page protects what the page did not pass.       *)
LEMMA KeptIsProtected ==
    ASSUME NEW d, NEW m, NEW box, IsOutbox(d, m, box), NEW next \in Nat,
           NEW S \in SUBSET DOMAIN box,
           \A n \in DOMAIN box : n \in S <=> ~Passed(box[n], next),
           NEW new, new = RowsAt(box, S)
    PROVE  /\ \A j \in DOMAIN new : \E n \in DOMAIN box : new[j] = box[n]
           /\ \A k : k \in Queued(new) <=> ProtectsLocal(box, k, next)
<1>1. Sequence(box)
  BY DEF IsOutbox
<1>2. \A n \in S : n \in DOMAIN box /\ (box[n].ack = 0 \/ box[n].ack > next)
  BY DEF IsOutbox, IsMutation, Passed
<1>3. \A n \in DOMAIN box : box[n].ack = 0 \/ box[n].ack > next => n \in S
  BY DEF IsOutbox, IsMutation, Passed
<1>4. PICK f : /\ DOMAIN f = DOMAIN new
               /\ \A j \in DOMAIN new : f[j] \in S /\ new[j] = box[f[j]]
               /\ \A p \in S : \E j \in DOMAIN new : f[j] = p
  <2>1. PICK rows : rows = RowsAt(box, S)
    OBVIOUS
  <2>2. \E f : /\ DOMAIN f = DOMAIN rows
               /\ \A j \in DOMAIN rows : f[j] \in S /\ rows[j] = box[f[j]]
               /\ \A j, k \in DOMAIN rows : j < k => f[j] < f[k]
               /\ \A p \in S : \E j \in DOMAIN rows : f[j] = p
    BY <1>1, <2>1, RowsInOrder
  <2>3. rows = new
    BY <2>1
  <2> QED
    BY <2>2, <2>3, Zenon
<1>5. ASSUME NEW k, k \in Queued(new) PROVE ProtectsLocal(box, k, next)
  <2>1. PICK j \in DOMAIN new : k \in DOMAIN new[j].changes
    BY <1>5 DEF Queued
  <2>2. f[j] \in S /\ new[j] = box[f[j]]
    BY <1>4
  <2> QED
    BY <1>2, <2>1, <2>2 DEF ProtectsLocal
<1>6. ASSUME NEW k, ProtectsLocal(box, k, next) PROVE k \in Queued(new)
  <2>1. PICK n \in DOMAIN box : k \in DOMAIN box[n].changes
                                /\ (box[n].ack = 0 \/ box[n].ack > next)
    BY <1>6 DEF ProtectsLocal
  <2>2. n \in S
    BY <1>3, <2>1
  <2>3. PICK j \in DOMAIN new : f[j] = n
    BY <1>4, <2>2
  <2>4. new[j] = box[n]
    BY <1>4, <2>3
  <2> QED
    BY <2>1, <2>4 DEF Queued
<1>7. ASSUME NEW j \in DOMAIN new PROVE \E n \in DOMAIN box : new[j] = box[n]
  BY <1>2, <1>4
<1> QED
  BY <1>5, <1>6, <1>7

(* What an accepted page is to the device: the revisions that follow its   *)
(* cursor, and answers that name its queued mutations.                     *)
LEMMA AcceptedPage ==
    ASSUME Typed, Pinned, NEW d \in Devices, Apply(d)
    PROVE  LET page == response[d]
               m == Len(page.groups)
           IN /\ request[d] # Nothing /\ page.cursor = state[d].cursor
              /\ m \in Nat /\ page.nextCursor = page.cursor + m /\ page.nextCursor <= Len(log)
              /\ DOMAIN page.groups = 1..m
              /\ \A g \in 1..m : /\ page.cursor + g \in DOMAIN log
                                 /\ page.groups[g] = log[page.cursor + g]
              /\ \A i \in DOMAIN page.acks : page.acks[i] \in Nat /\ page.acks[i] > page.cursor
<1>1. PICK page, req, c, l : page = response[d] /\ req = request[d] /\ c = state[d].cursor /\ l = log
  OBVIOUS
<1>2. /\ IsPage(page) /\ PageTyped(page) /\ Accepted(d, page)
  BY <1>1, ApplyIsTransaction
<1>3. HistorySound /\ PageKnown(d) /\ c \in Nat
  BY <1>1 DEF Typed, Pinned, DeviceTyped, StateTyped
<1>4. Len(l) \in Nat /\ DOMAIN l = 1..Len(l)
  BY <1>1, <1>3, LogIndices
<1>5. req # Nothing /\ PageIsHistory(req, page)
  BY <1>1, <1>2, <1>3 DEF PageKnown
<1>6. IsRequest(req)
  BY <1>1, <1>5 DEF Typed, WireTyped
<1>7. /\ page.cursor = req.cursor /\ page.cursor \in Nat /\ page.nextCursor \in Nat
      /\ page.nextCursor \in page.cursor..Len(l)
      /\ page.groups = SubSeq(l, page.cursor + 1, page.nextCursor)
  BY <1>1, <1>2, <1>5, <1>6 DEF PageIsHistory, IsRequest, PageTyped
<1>8. /\ page.nextCursor = req.cursor + Len(page.groups)
      /\ page.nextCursor = c + Len(page.groups)
      /\ \A i \in DOMAIN page.acks : page.acks[i] > c
  BY <1>1, <1>2 DEF Accepted, ValidExchange, ApplicablePage
<1>9. PICK m : m = Len(page.groups) /\ m \in Nat /\ DOMAIN page.groups = 1..m
  <2>1. PICK w : w = page.groups /\ Sequence(w)
    BY <1>2 DEF PageTyped
  <2>2. Len(w) \in Nat /\ DOMAIN w = 1..Len(w)
    BY <2>1, SequenceShape
  <2> QED
    BY <2>1, <2>2
<1>10. page.cursor = c /\ page.nextCursor = c + m
  <2>1. PICK w, a, b : w = page.groups /\ a = page.cursor /\ b = page.nextCursor
    OBVIOUS
  <2>2. a \in Nat /\ Len(w) = m /\ m \in Nat /\ b = a + Len(w) /\ b = c + Len(w)
    BY <1>7, <1>8, <1>9, <2>1
  <2>3. a = c /\ b = c + m
    BY <1>3, <2>2
  <2> QED
    BY <2>1, <2>3
<1>11. page.nextCursor <= Len(l)
  BY <1>4, <1>7
<1>12. \A g \in 1..m : page.groups[g] = l[page.cursor + g]
  <2>1. PICK b : b = page.nextCursor
    OBVIOUS
  <2>2. b \in Nat /\ c <= b /\ b - c = m
    BY <1>3, <1>9, <1>10, <2>1
  <2>3. \A g \in 1..(b - c) : SubSeq(l, c + 1, b)[g] = l[c + g]
    BY <1>3, <2>2, Window
  <2> QED
    BY <1>7, <1>10, <2>1, <2>2, <2>3
<1>13. \A g \in 1..m : page.cursor + g \in DOMAIN l
  BY <1>3, <1>4, <1>9, <1>10, <1>11
<1>14. \A i \in DOMAIN page.acks : page.acks[i] \in Nat
  BY <1>2 DEF PageTyped
<1> QED
  BY <1>1, <1>5, <1>8, <1>9, <1>10, <1>11, <1>12, <1>13, <1>14

(* The queue as the page answers it: the rows of before, each behind the   *)
(* cursor or unanswered, its changes in the group it is answered with.     *)
LEMMA AnsweredOutbox ==
    ASSUME Typed, Pinned, Agreed, NEW d \in Devices, Apply(d)
    PROVE  LET page == response[d]
               box == Acknowledged(outbox[d], page)
           IN /\ IsOutbox(d, minted[d], box) /\ DOMAIN box = DOMAIN outbox[d]
              /\ \A n \in DOMAIN box : /\ box[n].id = outbox[d][n].id
                                       /\ box[n].changes = outbox[d][n].changes
              /\ AckedByPage(box, page)
              /\ \A n \in DOMAIN box : box[n].ack # 0 => box[n].ack > page.cursor
<1>1. PICK page, old, c, l : page = response[d] /\ old = outbox[d] /\ c = state[d].cursor /\ l = log
  OBVIOUS
<1>2. /\ PageTyped(page) /\ Accepted(d, page)
  BY <1>1, ApplyIsTransaction
<1>3. /\ page.cursor = c /\ DOMAIN page.groups = 1..Len(page.groups)
      /\ \A g \in DOMAIN page.groups : page.cursor + g \in DOMAIN l
                                       /\ page.groups[g] = l[page.cursor + g]
      /\ \A i \in DOMAIN page.acks : page.acks[i] \in Nat /\ page.acks[i] > page.cursor
  BY <1>1, AcceptedPage
<1>4. /\ IsOutbox(d, minted[d], old) /\ HistorySound /\ c \in Nat /\ PinnedAt(d)
      /\ SentAs(old, Asked(request[d], stray[d]), receipts)
  BY <1>1 DEF Typed, DeviceTyped, StateTyped, Pinned, Agreed, AgreedAt
<1>5. PICK mm, box : mm = minted[d] /\ box = Acknowledged(old, page)
  OBVIOUS
<1>6. /\ IsOutbox(d, mm, box) /\ DOMAIN box = DOMAIN old
      /\ \A n \in DOMAIN old :
           box[n] = [id |-> old[n].id, changes |-> old[n].changes,
                     ack |-> IF old[n].id \in DOMAIN page.acks
                             THEN page.acks[old[n].id] ELSE old[n].ack]
  BY <1>3, <1>4, <1>5, AcknowledgedOutbox
<1>7. \A n \in DOMAIN box : box[n].id = old[n].id /\ box[n].changes = old[n].changes
  BY <1>6
<1>8. ASSUME NEW n \in DOMAIN box, box[n].ack # 0
      PROVE  box[n].ack > page.cursor
  <2>1. CASE old[n].id \in DOMAIN page.acks
    BY <1>3, <1>6, <2>1
  <2>2. CASE old[n].id \notin DOMAIN page.acks
    <3>1. box[n].ack = old[n].ack /\ n \in DOMAIN old /\ old[n].ack # 0
      BY <1>6, <1>8, <2>2
    <3>2. old[n].ack \in DOMAIN l /\ l[old[n].ack].mutation = old[n].id /\ old[n].id \in Ids(old)
      BY <1>1, <1>4, <3>1 DEF PinnedAt, AcksAreHistory, Ids
    <3>3. old[n].ack \notin 1..c
      BY <1>1, <1>4, <3>2 DEF PinnedAt, PastIsGone
    <3>4. old[n].ack \in Nat /\ old[n].ack > c
      <4>1. DOMAIN l = 1..Len(l) /\ Len(l) \in Nat
        BY <1>1, <1>4, LogIndices
      <4> QED
        BY <1>4, <3>2, <3>3, <4>1
    <3> QED
      BY <1>3, <3>1, <3>4
  <2> QED
    BY <2>1, <2>2
<1>9. ASSUME NEW n \in DOMAIN box, NEW g \in DOMAIN page.groups, box[n].ack = page.cursor + g
      PROVE  DOMAIN box[n].changes \subseteq DOMAIN page.groups[g].changes
  <2>1. g \in Nat /\ g > 0 /\ box[n].ack # 0
    <3>1. g \in Int /\ g >= 1
      BY <1>3, <1>9
    <3> QED
      BY <1>3, <1>4, <1>9, <3>1
  <2>2. box[n].id = page.groups[g].mutation
    BY <1>1, <1>2, <1>3, <1>5, <1>9, <2>1 DEF Accepted, ApplicablePage
  <2>3. PICK r \in DOMAIN log : r = page.cursor + g /\ page.groups[g] = log[r]
    BY <1>1, <1>3
  <2>4. log[r].mutation \in DOMAIN receipts /\ log[r].mutation = old[n].id /\ n \in DOMAIN old
    BY <1>6, <1>7, <2>2, <2>3 DEF Pinned
  <2>5. receipts[log[r].mutation].payload = old[n].changes
    BY <1>4, <2>4 DEF SentAs
  <2>6. DOMAIN receipts[log[r].mutation].payload \subseteq DOMAIN log[r].changes
    BY <1>4, <2>4, LogCarries
  <2> QED
    BY <1>6, <1>7, <2>3, <2>5, <2>6
<1>10. \A n \in DOMAIN box : box[n].ack \in Nat
  BY <1>6 DEF IsOutbox, IsMutation
<1>11. AckedByPage(box, page)
  BY <1>9, <1>10 DEF AckedByPage
<1> QED
  BY <1>1, <1>5, <1>6, <1>7, <1>8, <1>11

-----------------------------------------------------------------------------
(* Agreeing is a matter of what is queued alone.                           *)
LEMMA SameQueuedAgrees ==
    ASSUME NEW c, NEW old, NEW box, Queued(box) = Queued(old), NEW held, Agrees(c, old, held)
    PROVE  Agrees(c, box, held)
  BY DEF Agrees

(* The same changes are the same queue.                                    *)
LEMMA SameRowsQueued ==
    ASSUME NEW old, NEW box, DOMAIN box = DOMAIN old,
           \A n \in DOMAIN old : box[n].changes = old[n].changes
    PROVE  Queued(box) = Queued(old)
  BY DEF Queued

(* What the rows sent later say is what the rows sent before said.         *)
LEMMA RowsStaySent ==
    ASSUME NEW old, NEW new, \A j \in DOMAIN new : \E n \in DOMAIN old :
              new[j].id = old[n].id /\ new[j].changes = old[n].changes,
           NEW c, NEW reqs, NEW rcpts, TidyAt(c, old, reqs), SentAs(old, reqs, rcpts),
           NEW after, Tidy(after)
    PROVE  TidyAt(after, new, reqs) /\ SentAs(new, reqs, rcpts)
<1>1. \A j \in DOMAIN new : Tidy(new[j].changes)
  BY DEF TidyAt
<1>2. ASSUME NEW j \in DOMAIN new
      PROVE  /\ \A req \in reqs : \A p \in DOMAIN req.mutations :
                  req.mutations[p].id = new[j].id => req.mutations[p].changes = new[j].changes
             /\ new[j].id \in DOMAIN rcpts => rcpts[new[j].id].payload = new[j].changes
  <2>1. PICK n \in DOMAIN old : new[j].id = old[n].id /\ new[j].changes = old[n].changes
    OBVIOUS
  <2> QED
    BY <2>1 DEF SentAs
<1> QED
  BY <1>1, <1>2 DEF TidyAt, SentAs

(* Applying a page brings the device to the history the page ends at.      *)
LEMMA PageBringsDevice ==
    ASSUME CopiesHaveHomes, Typed, Pinned, Agreed, NEW d \in Devices, Apply(d)
    PROVE  LET next == response[d].nextCursor IN
           /\ state[d].seeded /\ Tidy(local'[d])
           /\ DOMAIN local[d] \subseteq DOMAIN local'[d]
           /\ VersionsBy(versions'[d], next)
           /\ Agrees(local'[d], outbox'[d], EntitiesAt(next))
           /\ Queued(outbox'[d]) \subseteq Queued(outbox[d])
           /\ \A j \in DOMAIN outbox'[d] : \E n \in DOMAIN outbox[d] :
                 /\ outbox'[d][j].id = outbox[d][n].id
                 /\ outbox'[d][j].changes = outbox[d][n].changes
<1>1. PICK page, old, c, l, rows, vs, mm :
        /\ page = response[d] /\ old = outbox[d] /\ c = state[d].cursor /\ l = log
        /\ rows = local[d] /\ vs = versions[d] /\ mm = minted[d]
  OBVIOUS
<1>2. PICK box, after, afterwards, new :
        /\ box = Acknowledged(old, page) /\ after = local'[d] /\ afterwards = versions'[d]
        /\ new = outbox'[d]
  OBVIOUS
<1>3. /\ PageTyped(page) /\ after = ApplyGroups(d, box, page).rows
      /\ afterwards = ApplyGroups(d, box, page).versions
      /\ new = RowsAt(box, {n \in DOMAIN box : ~Passed(box[n], page.nextCursor)})
  <2>1. LET p == response[d]
            b == Acknowledged(outbox[d], p)
        IN /\ PageTyped(p) /\ local'[d] = ApplyGroups(d, b, p).rows
           /\ versions'[d] = ApplyGroups(d, b, p).versions
           /\ outbox'[d] = RowsAt(b, {n \in DOMAIN b : ~Passed(b[n], p.nextCursor)})
    BY ApplyIsTransaction
  <2> QED
    BY <1>1, <1>2, <2>1
<1>4. PICK m : m = Len(page.groups)
  OBVIOUS
<1>5. /\ request[d] # Nothing /\ page.cursor = c /\ m \in Nat
      /\ page.nextCursor = page.cursor + m /\ page.nextCursor <= Len(l)
      /\ DOMAIN page.groups = 1..m
      /\ \A g \in 1..m : page.cursor + g \in DOMAIN l /\ page.groups[g] = l[page.cursor + g]
  BY <1>1, <1>4, AcceptedPage
<1>6. /\ IsOutbox(d, mm, box) /\ DOMAIN box = DOMAIN old
      /\ \A n \in DOMAIN box : box[n].id = old[n].id /\ box[n].changes = old[n].changes
      /\ AckedByPage(box, page)
      /\ \A n \in DOMAIN box : box[n].ack # 0 => box[n].ack > page.cursor
  BY <1>1, <1>2, AnsweredOutbox
<1>7. /\ HistorySound /\ c \in Nat /\ IsCollection(rows) /\ Tidy(rows) /\ Queued(old) \subseteq DOMAIN rows
      /\ VersionsBy(vs, c) /\ state[d].seeded /\ Agrees(rows, old, Replayed(l, c))
      /\ \A r \in DOMAIN l : Tidy(l[r].changes)
  BY <1>1, <1>5 DEF Typed, DeviceTyped, StateTyped, Agreed, AgreedAt, TidyAt, EntitiesAt
<1>8. Queued(box) = Queued(old) /\ Agrees(rows, box, Replayed(l, page.cursor))
  BY <1>5, <1>6, <1>7, SameRowsQueued, SameQueuedAgrees
<1>9. ASSUME NEW g \in 1..m
      PROVE  /\ IsCollection(page.groups[g].changes) /\ Closed(page.groups[g].changes)
             /\ Tidy(page.groups[g].changes)
             /\ page.groups[g].changes = l[page.cursor + g].changes
  <2>1. PICK r \in DOMAIN l : r = page.cursor + g /\ page.groups[g] = l[r]
    BY <1>5
  <2>2. l[r].mutation \in DOMAIN receipts
    BY <1>1, <2>1 DEF Pinned
  <2>3. IsCollection(l[r].changes) /\ Closed(l[r].changes)
    BY <1>1, <1>7, <2>1, <2>2, LogCarries
  <2> QED
    BY <1>7, <2>1, <2>3
<1>10. PICK base : base = [rows |-> rows, versions |-> vs, issues |-> {}]
  OBVIOUS
<1>11. PICK done : done = AppliedUpTo(base, box, page, m)
  OBVIOUS
<1>12. base.rows = rows /\ base.versions = vs /\ base.issues = {} /\ base.issues \subseteq Issues
  BY <1>10
<1>13. Brought(base, box, page, l, m)
  <2>1. /\ base.issues = {} /\ Tidy(base.rows) /\ page.cursor \in Nat
        /\ VersionsBy(base.versions, page.cursor)
    BY <1>5, <1>7, <1>12
  <2> QED
    BY <1>5, <1>6, <1>9, <2>1, PageBrings
<1>14. IsCollection(done.rows) /\ done.issues \subseteq Issues
  <2>1. IsCollection(base.rows) /\ \A g \in DOMAIN page.groups : IsCollection(page.groups[g].changes)
    BY <1>5, <1>7, <1>9, <1>12
  <2> QED
    BY <1>5, <1>11, <1>12, <2>1, AppliedUpToIsCollection
<1>15. after = RecomputeFlags(done.rows, done.issues) /\ afterwards = done.versions
  <2>1. PICK all : all = FoldLeft(ApplyGroup, base, Pages(box, page))
    OBVIOUS
  <2>2. ApplyGroups(d, box, page) = [rows |-> RecomputeFlags(all.rows, all.issues), versions |-> all.versions]
    BY <1>1, <1>10, <2>1 DEF ApplyGroups, Pages
  <2>3. all = done
    BY <1>3, <1>4, <1>11, <2>1, AppliedAll DEF PageTyped
  <2> QED
    BY <1>3, <2>2, <2>3
<1>16. /\ Tidy(done.rows) /\ DOMAIN rows \subseteq DOMAIN done.rows
       /\ VersionsBy(done.versions, page.cursor + m)
  BY <1>11, <1>12, <1>13 DEF Brought
<1>17. /\ \A j \in DOMAIN new : \E n \in DOMAIN box : new[j] = box[n]
       /\ \A k : k \in Queued(new) <=> ProtectsLocal(box, k, page.cursor + m)
  <2>1. PICK next : next = page.cursor + m /\ next \in Nat
    BY <1>5, <1>7
  <2>2. PICK S : S = {n \in DOMAIN box : ~Passed(box[n], page.nextCursor)}
    OBVIOUS
  <2>3. /\ S \in SUBSET DOMAIN box /\ new = RowsAt(box, S)
        /\ \A n \in DOMAIN box : n \in S <=> ~Passed(box[n], next)
    BY <1>3, <1>5, <2>1, <2>2
  <2>4. /\ \A j \in DOMAIN new : \E n \in DOMAIN box : new[j] = box[n]
        /\ \A k : k \in Queued(new) <=> ProtectsLocal(box, k, next)
    BY <1>6, <2>1, <2>3, KeptIsProtected
  <2> QED
    BY <2>1, <2>4
<1>18. PICK held : held = Replayed(l, page.cursor + m)
  OBVIOUS
<1>19. IsCollection(held) /\ Tidy(held) /\ FlagsAgree(held)
  <2>1. PICK n : n = page.cursor + m /\ n \in Nat /\ n \in 0..Len(l)
    <3>1. Len(l) \in Nat
      BY <1>1, <1>7, LogIndices
    <3> QED
      BY <1>5, <1>7, <3>1
  <2>2. IsCollection(EntitiesAt(n)) /\ FlagsAgree(EntitiesAt(n))
    BY <1>1, <1>7, <2>1, HeldIsCollection DEF Agreed, FlagsOfHistory
  <2>3. \A r \in 1..n : Tidy(l[r].changes)
    <3>1. DOMAIN l = 1..Len(l) /\ Len(l) \in Nat
      BY <1>1, <1>7, LogIndices
    <3> QED
      BY <1>7, <2>1, <3>1
  <2>4. Tidy(Replayed(l, n))
    BY <2>1, <2>3, TidyReplay
  <2> QED
    BY <1>1, <1>18, <2>1, <2>2, <2>4 DEF EntitiesAt
<1>20. Agrees(after, new, held)
  <2>1. /\ IsCollection(base.rows) /\ Tidy(base.rows) /\ Queued(box) \subseteq DOMAIN base.rows
        /\ page.cursor \in Nat /\ Agrees(base.rows, box, Replayed(l, page.cursor))
    BY <1>5, <1>7, <1>8, <1>12
  <2> QED
    BY <1>5, <1>6, <1>9, <1>11, <1>13, <1>14, <1>15, <1>17, <1>18, <1>19, <2>1, PageAgrees
<1>21. Tidy(after)
  BY <1>14, <1>15, <1>16, TidyFlags
<1>22. DOMAIN rows \subseteq DOMAIN after
  BY <1>15, <1>16 DEF RecomputeFlags, Overlay
<1>23. \A j \in DOMAIN new : \E n \in DOMAIN old :
          new[j].id = old[n].id /\ new[j].changes = old[n].changes
  BY <1>6, <1>17
<1>24. Queued(new) \subseteq Queued(old)
  BY <1>23 DEF Queued
<1>25. VersionsBy(afterwards, page.nextCursor) /\ held = EntitiesAt(page.nextCursor)
  BY <1>1, <1>5, <1>15, <1>16, <1>18 DEF EntitiesAt
<1> QED
  BY <1>1, <1>2, <1>7, <1>20, <1>21, <1>22, <1>23, <1>24, <1>25

(* Applying a page keeps the agreement.                                    *)
LEMMA ApplyKeepsAgreed ==
    ASSUME CopiesHaveHomes, Typed, Pinned, Agreed, NEW d \in Devices, Apply(d)
    PROVE  Agreed'
<1>1. /\ OthersKept(d, local', local) /\ OthersKept(d, versions', versions)
      /\ OthersKept(d, outbox', outbox) /\ OthersKept(d, state', state)
      /\ OthersKept(d, request', request) /\ request'[d] = Nothing
      /\ UNCHANGED <<log, receipts, stray>>
      /\ state'[d].cursor = response[d].nextCursor
  <2>1. state'[d].cursor = response[d].nextCursor
    BY AppliedOutbox
  <2> QED
    BY <2>1, ApplyIsTransaction DEF serverVars
<1>2. OthersKept(d, stray', stray)
  BY <1>1, KeptAtDevice DEF Typed, Domains
<1>3. state'[d].seeded = state[d].seeded
  <2>1. PICK s, page : s = state[d] /\ page = response[d]
    OBVIOUS
  <2>2. state'[d] = [s EXCEPT !.serverId = page.serverId, !.cursor = page.nextCursor,
                              !.baseline = @ \/ ~page.hasMore,
                              !.bootstrapped = @ \/ (~page.hasMore /\ page.nextCursor > 0)]
    BY <2>1, ApplyIsTransaction
  <2>3. DOMAIN s = {"serverId", "cursor", "baseline", "bootstrapped", "seeded"}
    BY <2>1 DEF Typed, DeviceTyped, StateTyped
  <2> QED
    BY <2>1, <2>2, <2>3
<1>4. AgreedAt(d)'
  <2>1. PICK old, c, strays, req, rcpts, l :
          /\ old = outbox[d] /\ c = local[d] /\ strays = stray[d] /\ req = request[d]
          /\ rcpts = receipts /\ l = log
    OBVIOUS
  <2>2. PICK new, after, vs, s : /\ new = outbox'[d] /\ after = local'[d] /\ vs = versions'[d]
                                 /\ s = state'[d]
    OBVIOUS
  <2>3. /\ s.seeded /\ Tidy(after) /\ DOMAIN c \subseteq DOMAIN after
        /\ VersionsBy(vs, s.cursor) /\ Agrees(after, new, Replayed(l, s.cursor))
        /\ Queued(new) \subseteq Queued(old)
        /\ \A j \in DOMAIN new : \E n \in DOMAIN old :
              new[j].id = old[n].id /\ new[j].changes = old[n].changes
    BY <1>1, <1>3, <2>1, <2>2, PageBringsDevice DEF EntitiesAt
  <2>4. /\ TidyAt(c, old, Asked(req, strays)) /\ Queued(old) \subseteq DOMAIN c
        /\ SentAs(old, Asked(req, strays), rcpts)
    BY <2>1 DEF Agreed, AgreedAt
  <2>5. Asked(Nothing, strays) \subseteq Asked(req, strays)
    BY DEF Asked
  <2>6. TidyAt(c, old, Asked(Nothing, strays)) /\ SentAs(old, Asked(Nothing, strays), rcpts)
    BY <2>4, <2>5, FewerAsked
  <2>7. TidyAt(after, new, Asked(Nothing, strays)) /\ SentAs(new, Asked(Nothing, strays), rcpts)
    BY <2>3, <2>6, RowsStaySent
  <2>8. /\ log' = l /\ receipts' = rcpts /\ stray'[d] = strays /\ request'[d] = Nothing
        /\ local'[d] = after /\ outbox'[d] = new /\ versions'[d] = vs /\ state'[d] = s
    BY <1>1, <2>1, <2>2
  <2> QED
    BY <2>3, <2>4, <2>7, <2>8 DEF AgreedAt, EntitiesAt
<1> QED
  BY <1>1, <1>2, <1>4, AgreedStep

-----------------------------------------------------------------------------
(* Serving a request keeps the agreement, whatever becomes of the answer.  *)
LEMMA ServeKeepsAgreed ==
    ASSUME CopiesHaveHomes, Typed, Pinned, Agreed, NEW d \in Devices, Serve(d)
    PROVE  Agreed'
<1>1. /\ request[d] # Nothing /\ IsRequest(request[d])
      /\ UNCHANGED <<local, outbox, versions, state, request, stray>>
      /\ (\E n \in 0..PageLimit : Commit(request[d], n)) \/ UNCHANGED <<log, receipts>>
  BY DEF Serve, Typed, WireTyped, deviceVars, serverVars
<1>2. ASSUME NEW n \in 0..PageLimit, Commit(request[d], n) PROVE Agreed'
  <2>1. PICK req : req = request[d]
    OBVIOUS
  <2>2. /\ IsRequest(req) /\ Commit(req, n) /\ req \in Asked(request[d], stray[d])
        /\ Sent(req) \subseteq InFlight(request[d]) \cup Straying(stray[d])
    BY <1>1, <1>2, <2>1 DEF InFlight, Asked
  <2>3. \A e \in Devices : stray'[e] \subseteq stray[e]
    BY <1>1
  <2> QED
    BY <1>1, <2>2, <2>3, CommitKeepsAgreed
<1>3. ASSUME UNCHANGED <<log, receipts>> PROVE Agreed'
  BY <1>1, <1>3 DEF Agreed, AgreedAt, FlagsOfHistory, EntitiesAt
<1> QED
  BY <1>1, <1>2, <1>3

(* So does serving a request that comes late.                              *)
LEMMA ServeStrayKeepsAgreed ==
    ASSUME CopiesHaveHomes, Typed, Pinned, Agreed, NEW d \in Devices, ServeStray(d)
    PROVE  Agreed'
<1>1. PICK req \in stray[d] :
        /\ (\E n \in 0..PageLimit : Commit(req, n)) \/ UNCHANGED <<log, receipts>>
        /\ stray' = [stray EXCEPT ![d] = @ \ {req}]
        /\ UNCHANGED <<local, outbox, versions, state, request>>
  BY DEF ServeStray, deviceVars, serverVars
<1>2. /\ IsRequest(req) /\ Sent(req) \subseteq InFlight(request[d]) \cup Straying(stray[d])
      /\ req \in Asked(request[d], stray[d]) /\ Domains
  BY DEF Typed, WireTyped, Straying, Asked
<1>3. \A e \in Devices : stray'[e] \subseteq stray[e]
  BY <1>1, <1>2 DEF Domains, ByDevice
<1>4. ASSUME NEW n \in 0..PageLimit, Commit(req, n) PROVE Agreed'
  BY <1>1, <1>2, <1>3, <1>4, CommitKeepsAgreed
<1>5. ASSUME UNCHANGED <<log, receipts>> PROVE Agreed'
  <2>1. FlagsOfHistory' /\ \A r \in DOMAIN log' : Tidy(log'[r].changes)
    BY <1>5 DEF Agreed, FlagsOfHistory, EntitiesAt
  <2>2. ASSUME NEW e \in Devices PROVE AgreedAt(e)'
    <3>1. PICK box, c, vs, s, q, l, rcpts, strays, fewer :
            /\ box = outbox[e] /\ c = local[e] /\ vs = versions[e] /\ s = state[e]
            /\ q = request[e] /\ l = log /\ rcpts = receipts
            /\ strays = stray[e] /\ fewer = stray'[e]
      OBVIOUS
    <3>2. /\ TidyAt(c, box, Asked(q, strays)) /\ Queued(box) \subseteq DOMAIN c
          /\ SentAs(box, Asked(q, strays), rcpts) /\ VersionsBy(vs, s.cursor)
          /\ s.seeded \/ (s.cursor = 0 /\ q = Nothing)
          /\ s.seeded => Agrees(c, box, Replayed(l, s.cursor))
      BY <3>1 DEF Agreed, AgreedAt, EntitiesAt
    <3>3. Asked(q, fewer) \subseteq Asked(q, strays)
      BY <1>3, <3>1 DEF Asked
    <3>4. TidyAt(c, box, Asked(q, fewer)) /\ SentAs(box, Asked(q, fewer), rcpts)
      BY <3>2, <3>3, FewerAsked
    <3>5. /\ outbox'[e] = box /\ local'[e] = c /\ versions'[e] = vs /\ state'[e] = s
          /\ request'[e] = q /\ log' = l /\ receipts' = rcpts /\ stray'[e] = fewer
      BY <1>1, <1>5, <3>1
    <3> QED
      BY <3>2, <3>4, <3>5 DEF AgreedAt, EntitiesAt
  <2> QED
    BY <2>1, <2>2 DEF Agreed
<1> QED
  BY <1>1, <1>4, <1>5

(* At first there is nothing to agree about.                               *)
LEMMA InitIsAgreed ==
    ASSUME Init
    PROVE  Agreed
<1>1. DOMAIN log = {} /\ Len(log) = 0
  BY NoneIsSequence DEF Init, EmptyDatabase
<1>2. FlagsOfHistory
  <2>1. FlagsAgree(Replayed(log, 0))
    BY ReplayedNone, NothingIsCollection
  <2> QED
    BY <1>1, <2>1 DEF FlagsOfHistory, EntitiesAt
<1>3. ASSUME NEW d \in Devices PROVE AgreedAt(d)
  <2>1. /\ local[d] = << >> /\ outbox[d] = << >> /\ versions[d] = << >>
        /\ request[d] = Nothing /\ stray[d] = {} /\ state[d].cursor = 0 /\ ~state[d].seeded
    BY <1>3 DEF Init, FreshState
  <2>2. DOMAIN << >> = {}
    BY NoneIsSequence
  <2> QED
    BY <2>1, <2>2, TidyNothing DEF AgreedAt, TidyAt, SentAs, Asked, VersionsBy, Queued
<1> QED
  BY <1>1, <1>2, <1>3 DEF Agreed

(* Every step of devices that stay with their server keeps the agreement.  *)
LEMMA NextKeepsAgreed ==
    ASSUME OneServer, CopiesHaveHomes, Typed, Pinned, Agreed, [Next]_vars
    PROVE  Agreed'
<1>1. CASE UNCHANGED vars
  <2>1. UNCHANGED serverVars /\ UNCHANGED deviceVars /\ UNCHANGED <<request, stray>>
    BY <1>1 DEF vars, wireVars
  <2> QED
    BY <2>1 DEF serverVars, deviceVars, Agreed, AgreedAt, FlagsOfHistory, EntitiesAt
<1>2. ASSUME NEW d \in Devices, UserWrite(d) PROVE Agreed'
  BY <1>2, UserWriteKeepsAgreed
<1>3. ASSUME NEW d \in Devices, Exchange(d) PROVE Agreed'
  BY <1>3, PrepareKeepsAgreed, ServeKeepsAgreed, ApplyKeepsAgreed, EndedKeepsAgreed DEF Exchange
<1>4. ASSUME NEW d \in Devices, ServeStray(d) \/ GiveUp(d) PROVE Agreed'
  BY <1>4, ServeStrayKeepsAgreed, EndedKeepsAgreed
<1>5. ASSUME NEW d \in Devices, ConfirmRebind(d) \/ Rebind(d)
      PROVE  FALSE
  BY <1>5, PinnedShape DEF ConfirmRebind, Rebind, NoRebinds, OneServer
<1>6. ASSUME LoseDatabase PROVE FALSE
  BY <1>6, PinnedShape DEF LoseDatabase, OneServer
<1> QED
  BY <1>1, <1>2, <1>3, <1>4, <1>5, <1>6 DEF Next

(* The invariant that carries the next two theorems.                       *)
LEMMA DevicesAgree ==
    ASSUME FreshIds, OneServer, CopiesHaveHomes
    PROVE  Spec => []Agreed
<1>1. Init => Typed /\ Pinned /\ Agreed
  BY InitIsTyped, InitIsPinned, InitIsAgreed
<1>2. Typed /\ Pinned /\ Agreed /\ [Next]_vars => (Typed /\ Pinned /\ Agreed)'
  BY NextKeepsTyped, NextKeepsPinned, NextKeepsAgreed
<1> QED
  BY <1>1, <1>2, PTL DEF Spec

(* A device that follows the history of its server and has seeded its      *)
(* queue shows, of every row it has no pending edit of, exactly what the   *)
(* server held at the device's cursor: no page applied around the queue,   *)
(* no late answer and no recomputed flag lets the two drift apart.  Of an  *)
(* issue the flags are derived, so its copies must not be pending either.  *)
THEOREM ReplicasAgree == FreshIds /\ OneServer /\ CopiesHaveHomes => (Spec => []ReplicaAgrees)
<1> SUFFICES ASSUME FreshIds, OneServer, CopiesHaveHomes PROVE Spec => []ReplicaAgrees
  OBVIOUS
<1>1. Agreed => ReplicaAgrees
  BY DEF Agreed, AgreedAt, Agrees, ReplicaAgrees, Settled
<1> QED
  BY <1>1, DevicesAgree, PTL

(* What the user entered for an issue is the server's as well, even while  *)
(* its copies are pending: only the entry's own queued edit may differ.    *)
THEOREM UserFieldsKept == FreshIds /\ OneServer /\ CopiesHaveHomes => (Spec => []UserFieldsAgree)
<1> SUFFICES ASSUME FreshIds, OneServer, CopiesHaveHomes PROVE Spec => []UserFieldsAgree
  OBVIOUS
<1>1. Agreed => UserFieldsAgree
  BY DEF Agreed, AgreedAt, Agrees, UserFieldsAgree
<1> QED
  BY <1>1, DevicesAgree, PTL

-----------------------------------------------------------------------------
(* What a device asks for is about its cursor and its queue.               *)
Current(d) ==
    request[d] # Nothing =>
        /\ request[d].cursor = state[d].cursor /\ request[d].serverId \in {0, 1}
        /\ Sent(request[d]) \subseteq Ids(outbox[d])

(* What it was answered is a page, the last one of them behind everything  *)
(* acknowledged so far.                                                    *)
Answered(d) ==
    LET page == response[d] IN page # Nothing =>
        /\ "refused" \notin DOMAIN page /\ page.serverId = 1
        /\ page.hasMore => page.groups # << >>
        /\ ~page.hasMore => \A n \in DOMAIN outbox[d] : outbox[d][n].ack <= page.nextCursor

Succeeding == cache = << >> /\ \A d \in Devices : Current(d) /\ Answered(d)

(* Tidy rows never ask to move a copy.                                     *)
LEMMA TidyMovesNothing ==
    ASSUME NEW c, Tidy(c), NEW changes, Tidy(changes)
    PROVE  ~MovesCopy(c, changes)
  BY DEF Tidy, MovesCopy

(* Every entry the server is about to compare a mutation with is tidy.     *)
LEMMA TidyBefore ==
    ASSUME NEW req, Tidy(entities), NEW m \in Nat,
           \A p \in 1..m : Tidy(req.mutations[p].changes),
           NEW p \in 1..m
    PROVE  Tidy(EntitiesBefore(req, p))
<1> DEFINE S == {q \in Nat : q < m => Tidy(EntitiesBefore(req, q + 1))}
<1>1. 0 \in S
  BY EntitiesBeforeFirst
<1>2. ASSUME NEW q \in Nat, q \in S PROVE q + 1 \in S
  <2>1. SUFFICES ASSUME q + 1 < m PROVE Tidy(EntitiesBefore(req, q + 2))
    OBVIOUS
  <2>2. PICK c, changes : c = EntitiesBefore(req, q + 1) /\ changes = NewChanges(req, q + 1)
    OBVIOUS
  <2>3. Tidy(c) /\ Tidy(changes)
    <3>1. q + 1 \in 1..m
      BY <2>1
    <3> QED
      BY <1>2, <2>1, <2>2, <3>1, TidyNothing DEF NewChanges
  <2>4. EntitiesBefore(req, q + 2) = RecordedEntities(c, changes)
    BY <2>2, EntitiesBeforeNext
  <2>5. Tidy(RecordedEntities(c, changes))
    BY <2>3, TidyGroup, TidyOverlay DEF RecordedEntities
  <2> QED
    BY <2>4, <2>5
<1>3. p - 1 \in Nat /\ p - 1 < m /\ (p - 1) + 1 = p
  OBVIOUS
<1>4. p - 1 \in S
  <2>1. \A q \in Nat : q \in S
    <3> HIDE DEF S
    <3> QED
      BY <1>1, <1>2, Replaying!NatSetInduction
  <2> QED
    BY <1>3, <2>1
<1> QED
  BY <1>3, <1>4

(* Every page answered is one the device accepts, however long it was on   *)
(* its way and whatever the user wrote meanwhile.                          *)
LEMMA AnswersAreAccepted ==
    ASSUME Typed, Pinned, Agreed, Succeeding, NEW d \in Devices, response[d] # Nothing
    PROVE  Accepted(d, response[d])
<1>1. PICK page, req, old, c, l, id :
        /\ page = response[d] /\ req = request[d] /\ old = outbox[d] /\ c = state[d].cursor
        /\ l = log /\ id = state[d].serverId
  OBVIOUS
<1>2. /\ page # Nothing /\ "refused" \notin DOMAIN page /\ page.serverId = 1
      /\ page.hasMore => page.groups # << >>
      /\ ~page.hasMore => \A n \in DOMAIN old : old[n].ack <= page.nextCursor
  BY <1>1 DEF Succeeding, Answered
<1>3. IsPage(page) /\ PageTyped(page) /\ req # Nothing /\ PageIsHistory(req, page)
  BY <1>1, <1>2 DEF IsPage, Typed, WireTyped, Pinned, PageKnown
<1>4. /\ req.cursor = c /\ req.serverId \in {0, 1} /\ Sent(req) \subseteq Ids(old)
  BY <1>1, <1>3 DEF Succeeding, Current
<1>5. /\ HistorySound /\ IsOutbox(d, minted[d], old) /\ c \in Nat /\ id \in {0, 1}
      /\ PinnedAt(d)
  BY <1>1, PinnedShape DEF Typed, DeviceTyped, StateTyped, Pinned
<1>6. Len(l) \in Nat /\ DOMAIN l = 1..Len(l)
  BY <1>1, <1>5, LogIndices
<1>7. /\ DOMAIN page.acks = Sent(req) /\ page.cursor = c
      /\ page.nextCursor \in c..Len(l) /\ page.groups = SubSeq(l, c + 1, page.nextCursor)
      /\ \A i \in DOMAIN page.acks : /\ page.acks[i] \in DOMAIN l
                                     /\ l[page.acks[i]].mutation = i
                                     /\ page.acks[i] <= page.nextCursor \/ page.hasMore
  BY <1>1, <1>3, <1>4 DEF PageIsHistory, Sent
<1>8. PICK b : b = page.nextCursor /\ b \in Nat /\ c <= b /\ b <= Len(l)
  BY <1>5, <1>6, <1>7
<1>9. /\ Len(page.groups) = b - c /\ DOMAIN page.groups = 1..(b - c)
      /\ \A g \in 1..(b - c) : page.groups[g] = l[c + g]
  <2>1. page.groups = SubSeq(l, c + 1, b)
    BY <1>7, <1>8
  <2> QED
    BY <1>5, <1>8, <2>1, Window
<1>10. ASSUME NEW i \in DOMAIN page.acks PROVE page.acks[i] > c /\ page.acks[i] \in Nat
  <2>1. page.acks[i] \in 1..Len(l) /\ l[page.acks[i]].mutation \in Ids(old)
    BY <1>4, <1>6, <1>7, <1>10
  <2>2. page.acks[i] \notin 1..c
    BY <1>1, <1>5, <2>1 DEF PinnedAt, PastIsGone
  <2> QED
    BY <1>5, <1>6, <2>1, <2>2
<1>11. ValidExchange(req, page)
  <2>1. req.serverId \in {0, page.serverId} /\ page.nextCursor = req.cursor + Len(page.groups)
    BY <1>2, <1>4, <1>5, <1>8, <1>9
  <2>2. ASSUME NEW i \in DOMAIN page.acks, page.acks[i] <= page.nextCursor
        PROVE  page.groups[page.acks[i] - req.cursor].mutation = i
    <3>1. page.acks[i] - c \in 1..(b - c) /\ c + (page.acks[i] - c) = page.acks[i]
      BY <1>5, <1>8, <1>10, <2>2
    <3>2. page.groups[page.acks[i] - c] = l[page.acks[i]]
      BY <1>9, <3>1
    <3> QED
      BY <1>4, <1>7, <3>2
  <2>3. \A i \in DOMAIN page.acks : page.acks[i] > page.nextCursor => page.hasMore
    BY <1>7, <1>8, <1>10
  <2> QED
    BY <1>2, <1>4, <1>7, <1>10, <2>1, <2>2, <2>3 DEF ValidExchange, Sent
<1>12. PICK mm, box : mm = minted[d] /\ box = Acknowledged(old, page)
  OBVIOUS
<1>13. /\ IsOutbox(d, mm, box) /\ DOMAIN box = DOMAIN old
       /\ \A n \in DOMAIN old :
            box[n] = [id |-> old[n].id, changes |-> old[n].changes,
                      ack |-> IF old[n].id \in DOMAIN page.acks
                              THEN page.acks[old[n].id] ELSE old[n].ack]
  BY <1>5, <1>10, <1>12, AcknowledgedOutbox
<1>14. \A n \in DOMAIN box :
          /\ n \in DOMAIN old /\ box[n].id = old[n].id /\ box[n].ack \in Nat
          /\ box[n].ack = IF old[n].id \in DOMAIN page.acks
                          THEN page.acks[old[n].id] ELSE old[n].ack
  BY <1>13 DEF IsOutbox, IsMutation
<1>15. \A n \in DOMAIN old : old[n].ack # 0 =>
          old[n].ack \in DOMAIN l /\ l[old[n].ack].mutation = old[n].id
  BY <1>1, <1>5 DEF PinnedAt, AcksAreHistory
<1>16. \A n \in DOMAIN box : box[n].ack # 0 =>
          box[n].ack \in DOMAIN l /\ l[box[n].ack].mutation = box[n].id
  BY <1>7, <1>14, <1>15
<1>17. \A r, s \in DOMAIN l : l[r].mutation = l[s].mutation => r = s
  BY <1>1, <1>5 DEF HistorySound, RecordedOnce
<1>18. ASSUME NEW i \in DOMAIN page.acks
       PROVE  IsQueued(old, i) /\ old[Position(old, i)].ack \in {0, page.acks[i]}
  <2>1. IsQueued(old, i)
    BY <1>4, <1>7, <1>18 DEF IsQueued, Ids
  <2>2. PICK n : n = Position(old, i) /\ n \in DOMAIN old /\ old[n].id = i
    BY <2>1 DEF IsQueued, Position
  <2>3. old[n].ack # 0 => old[n].ack = page.acks[i]
    BY <1>7, <1>15, <1>17, <1>18, <2>2
  <2> QED
    BY <2>1, <2>2, <2>3
<1>19. ASSUME NEW n \in DOMAIN box, NEW p \in DOMAIN box, box[n].ack # 0, box[n].ack = box[p].ack
       PROVE  n = p
  BY <1>13, <1>16, <1>19, OneRowPerId
<1>20. ASSUME ~page.hasMore, NEW n \in DOMAIN box PROVE box[n].ack <= page.nextCursor
  BY <1>2, <1>7, <1>14, <1>20
<1>21. ASSUME NEW n \in DOMAIN box, NEW g \in DOMAIN page.groups, box[n].ack # 0
       PROVE  box[n].ack = c + g <=> box[n].id = page.groups[g].mutation
  <2>1. c + g \in DOMAIN l /\ page.groups[g] = l[c + g]
    <3>1. g \in 1..(b - c)
      BY <1>9, <1>21
    <3>2. c + g \in 1..Len(l)
      BY <1>5, <1>6, <1>8, <3>1
    <3> QED
      BY <1>6, <1>9, <3>1, <3>2
  <2>2. box[n].ack \in DOMAIN l /\ l[box[n].ack].mutation = box[n].id
    BY <1>16, <1>21
  <2> QED
    BY <1>17, <2>1, <2>2
<1>22. ASSUME NEW g \in DOMAIN page.groups
       PROVE  ~MovesCopy(local[d], Restrict(page.groups[g].changes,
                 AppliedKeys(box, versions[d], page.groups[g], c + g)))
  <2>1. Tidy(local[d]) /\ Tidy(page.groups[g].changes)
    <3>1. g \in 1..(b - c) /\ c + g \in 1..Len(l)
      BY <1>5, <1>6, <1>8, <1>9
    <3>2. Tidy(l[c + g].changes) /\ page.groups[g] = l[c + g]
      BY <1>1, <1>6, <1>9, <3>1 DEF Agreed
    <3> QED
      BY <3>2 DEF Agreed, AgreedAt, TidyAt
  <2>2. PICK changes, S : /\ changes = page.groups[g].changes
                          /\ S = AppliedKeys(box, versions[d], page.groups[g], c + g)
    OBVIOUS
  <2>3. PartOf(Restrict(changes, S), changes)
    BY <2>2, RestrictIsPart DEF AppliedKeys
  <2>4. Tidy(Restrict(changes, S))
    BY <2>1, <2>2, <2>3, TidyPart
  <2> QED
    BY <2>1, <2>2, <2>4, TidyMovesNothing
<1>23. ApplicablePage(d, page)
  <2>1. id \in {0, page.serverId} /\ page.nextCursor = c + Len(page.groups)
    BY <1>2, <1>5, <1>8, <1>9
  <2> QED
    BY <1>1, <1>10, <1>12, <1>18, <1>19, <1>20, <1>21, <1>22, <2>1 DEF ApplicablePage
<1> QED
  BY <1>1, <1>2, <1>11, <1>23 DEF Accepted

-----------------------------------------------------------------------------
(* The server finds nothing wrong with what such a device asks.            *)
LEMMA RequestsAreFine ==
    ASSUME Typed, Pinned, Agreed, Succeeding, NEW d \in Devices, request[d] # Nothing
    PROVE  Verdict(request[d]) = "ok"
<1>1. PICK req : req = request[d]
  OBVIOUS
<1>2. /\ IsRequest(req) /\ req.cursor = state[d].cursor /\ req.serverId \in {0, 1}
      /\ Sent(req) \subseteq Ids(outbox[d]) /\ cache = << >> /\ serverId = 1 /\ HistorySound
  BY <1>1, PinnedShape DEF Typed, WireTyped, Succeeding, Current
<1>3. req.cursor \in Nat /\ req.cursor <= Len(log) /\ Len(log) \in Nat /\ DOMAIN log = 1..Len(log)
  BY <1>2, LogIndices DEF Pinned, PinnedAt, PastIsGone, IsRequest
<1>4. ~Cached(req)
  BY <1>2, NoneIsSequence DEF Cached
<1>5. ~ReusesMutationId(req)
  <2> SUFFICES ASSUME NEW p \in DOMAIN req.mutations
               PROVE  LET m == req.mutations[p] IN
                      /\ m.id \in DOMAIN receipts => receipts[m.id].payload = m.changes
                      /\ m.id \notin DOMAIN receipts =>
                           \A r \in DOMAIN log : log[r].mutation # m.id
    BY DEF ReusesMutationId
  <2>1. PICK n \in DOMAIN outbox[d] : outbox[d][n].id = req.mutations[p].id
    BY <1>2 DEF Sent, Ids
  <2>2. SentAs(outbox[d], Asked(req, stray[d]), receipts) /\ req \in Asked(req, stray[d])
    BY <1>1 DEF Agreed, AgreedAt, Asked
  <2>3. req.mutations[p].changes = outbox[d][n].changes
    BY <2>1, <2>2 DEF SentAs
  <2>4. req.mutations[p].id \in DOMAIN receipts =>
          receipts[req.mutations[p].id].payload = outbox[d][n].changes
    BY <2>1, <2>2 DEF SentAs
  <2>5. \A r \in DOMAIN log : log[r].mutation \in DOMAIN receipts
    BY DEF Pinned
  <2> QED
    BY <2>3, <2>4, <2>5
<1>6. ~Unacceptable(req)
  <2> SUFFICES ASSUME NEW p \in FreshPositions(req)
               PROVE  ~MovesCopy(EntitiesBefore(req, p), req.mutations[p].changes)
    BY DEF Unacceptable
  <2>1. PICK m \in Nat : m = Len(req.mutations) /\ DOMAIN req.mutations = 1..m
    BY <1>2 DEF IsRequest
  <2>2. p \in 1..m /\ \A q \in 1..m : Tidy(req.mutations[q].changes)
    BY <1>1, <2>1 DEF FreshPositions, Agreed, AgreedAt, TidyAt, Asked
  <2>3. Tidy(entities)
    <3>1. entities = Replayed(log, Len(log))
      BY <1>2 DEF HistorySound, HistoryReplays, EntitiesReplayLog, EntitiesAt
    <3>2. \A r \in 1..Len(log) : Tidy(log[r].changes)
      BY <1>3 DEF Agreed
    <3> QED
      BY <1>3, <3>1, <3>2, TidyReplay
  <2>4. Tidy(EntitiesBefore(req, p))
    BY <2>2, <2>3, TidyBefore
  <2> QED
    BY <2>1, <2>2, <2>4, TidyMovesNothing
<1> QED
  BY <1>1, <1>2, <1>3, <1>4, <1>5, <1>6 DEF Verdict

(* A cache that holds nothing caches nothing.                              *)
LEMMA NothingIsCached ==
    ASSUME cache = << >>, NEW req, NEW n, Commit(req, n)
    PROVE  cache' = << >>
<1>1. PICK page : CacheResponse(req, page)
  BY DEF Commit
<1>2. CASE UNCHANGED cache
  BY <1>2
<1>3. ASSUME NEW stored, NEW keep \in 0..Len(stored), keep <= CacheLimit,
             stored = Append(cache, [request |-> req, response |-> page]),
             cache' = SubSeq(stored, Len(stored) - keep + 1, Len(stored))
      PROVE  cache' = << >>
  <2>1. Len(stored) = 1 /\ keep = 0
    BY <1>3, ProtocolAssumption DEF ProtocolAssumption
  <2>2. cache' = SubSeq(stored, 2, 1)
    BY <1>3, <2>1
  <2> QED
    BY <2>2
<1> QED
  BY <1>1, <1>2, <1>3 DEF CacheResponse

(* Devices do not disturb each other's exchanges.                          *)
LEMMA SucceedingStep ==
    ASSUME Succeeding, NEW d \in Devices, cache' = << >>,
           OthersKept(d, outbox', outbox), OthersKept(d, state', state),
           OthersKept(d, request', request), OthersKept(d, response', response),
           Current(d)', Answered(d)'
    PROVE  Succeeding'
<1>1. ASSUME NEW e \in Devices, e # d PROVE Current(e)' /\ Answered(e)'
  BY <1>1, ZenonT(40) DEF OthersKept, Succeeding, Current, Answered
<1> QED
  BY <1>1 DEF Succeeding

(* An edit is queued behind what was sent, unanswered.                     *)
LEMMA EditsSucceed ==
    ASSUME Typed, Succeeding, NEW d \in Devices, UserWrite(d)
    PROVE  Succeeding'
<1>1. Edits(d) /\ UNCHANGED <<state, request>>
  BY UserWriteEdits
<1>2. PICK old, new, m, n : old = outbox[d] /\ new = outbox'[d] /\ m = minted[d] /\ n = minted'[d]
  OBVIOUS
<1>3. Extends(d, m, old, n, new) /\ IsOutbox(d, m, old) /\ m \in Nat
  BY <1>1, <1>2 DEF Edits, Typed, DeviceTyped
<1>4. DOMAIN old = 1..Len(old) /\ Len(old) \in Nat /\ DOMAIN new = 1..Len(new)
  BY <1>3, SequenceShape DEF IsOutbox, Extends
<1>5. \A p \in DOMAIN old : p \in DOMAIN new /\ new[p] = old[p]
  BY <1>3, <1>4 DEF Extends
<1>6. ASSUME NEW p \in DOMAIN new, p \notin DOMAIN old PROVE new[p].ack = 0
  <2>1. PICK k \in 1..(n - m) : p = Len(old) + k
    <3>1. p - Len(old) \in 1..(n - m) /\ p = Len(old) + (p - Len(old))
      BY <1>3, <1>4, <1>6 DEF Extends
    <3> QED
      BY <3>1
  <2>2. new[p] = [id |-> <<d, m + k>>, changes |-> new[p].changes, ack |-> 0]
    BY <1>3, <2>1 DEF Extends
  <2>3. PICK changes : changes = new[p].changes
    OBVIOUS
  <2>4. new[p] = [id |-> <<d, m + k>>, changes |-> changes, ack |-> 0]
    BY <2>2, <2>3
  <2> QED
    BY <2>4
<1>7. Ids(old) \subseteq Ids(new)
  BY <1>5 DEF Ids
<1>8. Current(d)'
  BY <1>1, <1>2, <1>7 DEF Succeeding, Current
<1>9. Answered(d)'
  <2>1. PICK page : page = response[d] /\ response'[d] = page
    BY <1>1 DEF Edits
  <2>2. page # Nothing =>
          /\ "refused" \notin DOMAIN page /\ page.serverId = 1
          /\ page.hasMore => page.groups # << >>
          /\ ~page.hasMore => \A p \in DOMAIN old : old[p].ack <= page.nextCursor
    BY <1>2, <2>1 DEF Succeeding, Answered
  <2>3. ASSUME page # Nothing, ~page.hasMore, NEW p \in DOMAIN new
        PROVE  new[p].ack <= page.nextCursor
    <3>1. page.nextCursor \in Nat
      BY <2>1, <2>2, <2>3 DEF Typed, WireTyped, IsPage, PageTyped
    <3> QED
      BY <1>5, <1>6, <2>2, <2>3, <3>1
  <2>4. outbox'[d] = new
    BY <1>2
  <2> QED
    BY <2>1, <2>2, <2>3, <2>4 DEF Answered
<1> QED
  BY <1>1, <1>8, <1>9, KeptAtDevice, SucceedingStep DEF Edits, Succeeding, serverVars, Typed, Domains

(* A prepared request is about the cursor and the queue of its device.     *)
LEMMA PrepareSucceeds ==
    ASSUME FreshIds, Typed, Pinned, Succeeding, NEW d \in Devices, Prepare(d)
    PROVE  Succeeding'
<1>1. PICK s, req, new : s = state[d] /\ req = request'[d] /\ new = outbox'[d]
  OBVIOUS
<1>2. /\ Edits(d) /\ request[d] = Nothing
      /\ OthersKept(d, state', state) /\ state'[d].cursor = s.cursor
      /\ OthersKept(d, request', request)
      /\ req = [id |-> d, serverId |-> s.serverId, cursor |-> s.cursor,
                mutations |-> IF s.baseline THEN Batch(new) ELSE << >>]
  BY <1>1, PrepareEdits
<1>3. s.serverId \in {0, 1}
  BY <1>1, PinnedShape DEF Typed, DeviceTyped, StateTyped
<1>4. IsOutbox(d, minted'[d], new) /\ minted'[d] \in Nat
  <2>1. Typed'
    BY NextKeepsTyped DEF Next, Exchange
  <2> QED
    BY <1>1, <2>1 DEF Typed, DeviceTyped
<1>5. Sent(req) \subseteq Ids(new)
  <2>1. {Batch(new)[k].id : k \in DOMAIN Batch(new)} \subseteq Ids(new)
    <3>1. {Batch(new)[k].id : k \in DOMAIN Batch(new)} = BatchIds(new)
      BY <1>4, BatchIsRequest, 0 \in Nat
    <3> QED
      BY <3>1 DEF BatchIds, Fitting, Unacked, Ids
  <2>2. CASE s.baseline
    BY <1>2, <2>1, <2>2 DEF Sent
  <2>3. CASE ~s.baseline
    BY <1>2, <2>3, NoneIsSequence DEF Sent
  <2> QED
    BY <2>2, <2>3
<1>6. Current(d)'
  BY <1>1, <1>2, <1>3, <1>5 DEF Current
<1>7. Answered(d)'
  <2>1. response[d] = Nothing
    BY <1>2 DEF Succeeding, Answered, Pinned, PageKnown, IsPage
  <2> QED
    BY <1>2, <2>1 DEF Edits, Answered
<1> QED
  BY <1>2, <1>6, <1>7, KeptAtDevice, SucceedingStep DEF Edits, Succeeding, serverVars, Typed, Domains

(* What a device is answered is a page it will accept.                     *)
LEMMA ServeSucceeds ==
    ASSUME Typed, Pinned, Agreed, Succeeding, NEW d \in Devices, Serve(d)
    PROVE  Succeeding'
<1>1. /\ request[d] # Nothing /\ Verdict(request[d]) = "ok"
      /\ UNCHANGED <<deviceVars, request>> /\ Domains /\ HistorySound /\ PinnedAt(d)
  BY RequestsAreFine DEF Serve, Typed, Pinned
<1>2. PICK req : req = request[d]
  OBVIOUS
<1>3. PICK n \in 0..PageLimit :
        /\ Commit(req, n)
        /\ response' = [response EXCEPT ![d] = Page(log', receipts', req, n)]
  BY <1>1, <1>2 DEF Serve
<1>4. PICK page : page = Page(log', receipts', req, n)
  OBVIOUS
<1>5. OthersKept(d, response', response) /\ response'[d] = page
  BY <1>1, <1>3, <1>4 DEF Domains, ByDevice, OthersKept
<1>6. cache' = << >>
  BY <1>3, NothingIsCached DEF Succeeding
<1>7. IsRequest(req) /\ serverId = 1 /\ serverId' = serverId
  BY <1>1, <1>2, <1>3, PinnedShape DEF Typed, WireTyped, Commit
<1>8. PageIsHistory(req, page)' /\ IsPage(page) /\ PageTyped(page)' /\ Typed' /\ Pinned'
  <2>1. PageIsHistory(req, page)' /\ IsPage(page) /\ PageTyped(page)'
    BY <1>1, <1>3, <1>4, <1>7, CommittedPage
  <2> QED
    BY <2>1, ServeKeepsTyped, ServeKeepsPinned
<1>9. /\ page.serverId = 1 /\ page.cursor = req.cursor /\ page.nextCursor = req.cursor + n
      /\ page.groups = SubSeq(log', req.cursor + 1, req.cursor + n)
      /\ page.hasMore <=> req.cursor + n < Len(log')
  BY <1>4, <1>7 DEF Page
<1>10. req.cursor \in Nat /\ n \in Nat /\ Len(log') \in Nat /\ DOMAIN log' = 1..Len(log')
       /\ n \in PageSizes(log', req)
  <2>1. n \in Nat
    BY ServerAssumption DEF ServerAssumption
  <2>2. Len(log') \in Nat /\ DOMAIN log' = 1..Len(log')
    BY <1>8, LogIndices DEF Typed
  <2> QED
    BY <1>3, <1>7, <2>1, <2>2 DEF IsRequest, Commit
<1>11. page.hasMore => page.groups # << >>
  <2>1. SUFFICES ASSUME page.hasMore PROVE Len(page.groups) = n /\ n > 0
    BY NoneIsSequence
  <2>2. n > 0
    BY <1>9, <1>10, <2>1 DEF PageSizes
  <2>3. PICK a, b : a = req.cursor /\ b = req.cursor + n
    OBVIOUS
  <2>4. a \in Nat /\ b \in Nat /\ a <= b /\ page.groups = SubSeq(log', a + 1, b)
    BY <1>9, <1>10, <2>3
  <2>5. Len(page.groups) = b - a
    BY <2>4, Window
  <2> QED
    BY <1>10, <2>2, <2>3, <2>5
<1>12. ASSUME ~page.hasMore, NEW p \in DOMAIN outbox'[d]
       PROVE  outbox'[d][p].ack <= page.nextCursor
  <2>1. PICK row, c : row = outbox'[d][p] /\ c = page.nextCursor
    OBVIOUS
  <2>2. row.ack \in Nat
    BY <1>8, <2>1 DEF Typed, DeviceTyped, IsOutbox, IsMutation
  <2>3. row.ack # 0 => row.ack \in 1..Len(log')
    BY <1>8, <1>10, <2>1 DEF Pinned, PinnedAt, AcksAreHistory
  <2>4. c \in Nat /\ ~(c < Len(log'))
    BY <1>9, <1>10, <1>12, <2>1
  <2> QED
    BY <1>10, <2>1, <2>2, <2>3, <2>4
<1>13. Current(d)'
  BY <1>1 DEF Succeeding, Current, deviceVars
<1>14. Answered(d)'
  BY <1>5, <1>8, <1>9, <1>11, <1>12 DEF Answered, IsPage
<1>15. /\ OthersKept(d, outbox', outbox) /\ OthersKept(d, state', state)
       /\ OthersKept(d, request', request)
  BY <1>1, KeptAtDevice DEF deviceVars, Domains
<1> QED
  BY <1>5, <1>6, <1>13, <1>14, <1>15, SucceedingStep

(* The end of an exchange leaves nothing to refuse.                        *)
LEMMA EndedSucceeds ==
    ASSUME Typed, Pinned, Succeeding, NEW d \in Devices, GiveUp(d) \/ Reject(d) \/ Apply(d)
    PROVE  Succeeding'
<1>1. /\ cache' = << >> /\ OthersKept(d, outbox', outbox) /\ OthersKept(d, state', state)
      /\ OthersKept(d, request', request) /\ request'[d] = Nothing
      /\ OthersKept(d, response', response) /\ response'[d] = Nothing
  <2>1. CASE GiveUp(d) \/ Reject(d)
    <3>1. /\ UNCHANGED <<cache, outbox, state>> /\ Domains
          /\ request' = [request EXCEPT ![d] = Nothing]
          /\ response' = [response EXCEPT ![d] = Nothing]
      BY <2>1 DEF GiveUp, Reject, Typed, serverVars, deviceVars
    <3> QED
      BY <3>1, KeptAtDevice DEF Succeeding, Domains, ByDevice, OthersKept
  <2>2. CASE Apply(d)
    BY <2>2, ApplyIsTransaction DEF Succeeding, serverVars
  <2> QED
    BY <2>1, <2>2
<1>2. Current(d)' /\ Answered(d)'
  BY <1>1 DEF Current, Answered
<1> QED
  BY <1>1, <1>2, SucceedingStep

(* Every step of devices that stay with their server keeps exchanges       *)
(* succeeding.                                                             *)
LEMMA NextKeepsSucceeding ==
    ASSUME FreshIds, OneServer, Typed, Pinned, Agreed, Succeeding, [Next]_vars
    PROVE  Succeeding'
<1>1. ASSUME UNCHANGED <<outbox, state, request, response>>, cache' = << >> PROVE Succeeding'
  BY <1>1 DEF Succeeding, Current, Answered
<1>2. CASE UNCHANGED vars
  BY <1>1, <1>2 DEF vars, deviceVars, wireVars, serverVars, Succeeding
<1>3. ASSUME NEW d \in Devices, UserWrite(d) PROVE Succeeding'
  BY <1>3, EditsSucceed
<1>4. ASSUME NEW d \in Devices, Exchange(d) PROVE Succeeding'
  BY <1>4, PrepareSucceeds, ServeSucceeds, EndedSucceeds DEF Exchange
<1>5. ASSUME NEW d \in Devices, GiveUp(d) PROVE Succeeding'
  BY <1>5, EndedSucceeds
<1>6. ASSUME NEW d \in Devices, ServeStray(d) PROVE Succeeding'
  <2>1. UNCHANGED <<outbox, state, request, response>>
    BY <1>6 DEF ServeStray, deviceVars
  <2>2. cache' = << >>
    BY <1>6, NothingIsCached DEF ServeStray, serverVars, Succeeding
  <2> QED
    BY <1>1, <2>1, <2>2
<1>7. ASSUME NEW d \in Devices, ConfirmRebind(d) \/ Rebind(d)
      PROVE  FALSE
  BY <1>7, PinnedShape DEF ConfirmRebind, Rebind, NoRebinds, OneServer
<1>8. ASSUME LoseDatabase PROVE FALSE
  BY <1>8, PinnedShape DEF LoseDatabase, OneServer
<1> QED
  BY <1>2, <1>3, <1>4, <1>5, <1>6, <1>7, <1>8 DEF Next

(* No answer is ever refused: no lost response, retry or late request of   *)
(* devices that stay with their server makes the server's checks, those of *)
(* the answer as a whole or those of the applying transaction fail.        *)
THEOREM ExchangesDoSucceed == FreshIds /\ OneServer /\ CopiesHaveHomes => (Spec => []ExchangesSucceed)
<1> SUFFICES ASSUME FreshIds, OneServer, CopiesHaveHomes PROVE Spec => []ExchangesSucceed
  OBVIOUS
<1>1. Init => Typed /\ Pinned /\ Agreed /\ Succeeding
  <2>1. Init => Succeeding
    BY DEF Init, EmptyDatabase, Succeeding, Current, Answered
  <2> QED
    BY <2>1, InitIsTyped, InitIsPinned, InitIsAgreed
<1>2. Typed /\ Pinned /\ Agreed /\ Succeeding /\ [Next]_vars
        => (Typed /\ Pinned /\ Agreed /\ Succeeding)'
  BY NextKeepsTyped, NextKeepsPinned, NextKeepsAgreed, NextKeepsSucceeding
<1>3. Typed /\ Pinned /\ Agreed /\ Succeeding => ExchangesSucceed
  BY AnswersAreAccepted DEF ExchangesSucceed
<1> QED
  BY <1>1, <1>2, <1>3, PTL DEF Spec

-----------------------------------------------------------------------------
(* Deletions and the copies their device has not seen.                     *)

(* The n-th chunk is cut from the n-th part of the order.                  *)
LEMMA ChunkPlaces ==
    ASSUME NEW c, IsCollection(c), NEW n \in DOMAIN Chunks(c), NEW k \in DOMAIN Chunks(c)[n]
    PROVE  /\ n \in Nat
           /\ \E a \in DOMAIN InWireOrder(c) : InWireOrder(c)[a] = k /\ a <= n * MaxChanges
<1> DEFINE order == InWireOrder(c)
           L == Len(order)
           M == MaxChanges
           count == (L + M - 1) \div M
           first(j) == (j - 1) * M + 1
           last(j) == IF j * M < L THEN j * M ELSE L
<1>0. M \in Nat \ {0}
  BY LocalAssumption DEF LocalAssumption
<1>1. L \in Nat /\ DOMAIN order = 1..L
  BY WireOrderShape, SequenceShape
<1>2. Chunks(c) = [j \in 1..count |-> Restrict(c, ToSet(SubSeq(order, first(j), last(j))))]
  BY DEF Chunks
<1> HIDE DEF order, L, M
<1>3. n \in 1..count
  <2> HIDE DEF count, first, last
  <2> QED
    BY <1>2
<1>4. n \in Nat
  <2>1. count \in Int
    BY <1>0, <1>1
  <2> QED
    BY <1>3, <2>1
<1>5. (n - 1) * M \in Nat /\ (n - 1) * M < L /\ n * M \in Nat
  <2>1. (n - 1) * M \in Nat /\ n * M = (n - 1) * M + M /\ (n - 1) * M < L
    BY <1>0, <1>1, <1>3, ChunkBounds
  <2> QED
    BY <1>0, <2>1
<1> DEFINE f == first(n)
           g == last(n)
<1>6. f \in Nat \ {0} /\ g \in Nat /\ g <= L /\ g <= n * M
  BY <1>1, <1>5
<1>7. k \in ToSet(SubSeq(order, f, g))
  <2>1. DOMAIN Chunks(c)[n] = ToSet(SubSeq(order, f, g))
    <3> HIDE DEF count, first, last
    <3> QED
      BY <1>2, <1>3 DEF Restrict
  <2> QED
    BY <2>1
<1> HIDE DEF f, g, first, last, count
<1>8. SubSeq(order, f, g) = [j \in 1..(g - f + 1) |-> order[f + j - 1]]
  BY <1>6
<1>9. PICK j \in 1..(g - f + 1) : order[f + j - 1] = k
  BY <1>7, <1>8 DEF ToSet
<1>10. f + j - 1 \in 1..L /\ f + j - 1 <= n * M
  BY <1>1, <1>5, <1>6, <1>9
<1> QED
  BY <1>1, <1>4, <1>9, <1>10 DEF order, M

(* Tombstones of entries stand behind everything else.                     *)
LEMMA TombstonesLast ==
    ASSUME NEW c, IsCollection(c), NEW k \in DOMAIN c \ Issues
    PROVE  \E n \in DOMAIN InWireOrder(c) :
              /\ InWireOrder(c)[n] = k
              /\ \A p \in DOMAIN InWireOrder(c) :
                    InWireOrder(c)[p] \in Issues /\ c[InWireOrder(c)[p]].deleted => n < p
<1> DEFINE tombs == {j \in DOMAIN c \cap Issues : c[j].deleted}
           rest == DOMAIN c \ tombs
<1>1. IsFiniteSet(tombs) /\ IsFiniteSet(rest) /\ k \in rest
  BY KeysAreFinite
<1>2. \A j \in rest : ~(j \in Issues /\ c[j].deleted)
  OBVIOUS
<1>3. InWireOrder(c) = SetToSeq(rest) \o SetToSeq(tombs)
  BY DEF InWireOrder
<1> HIDE DEF tombs, rest
<1> DEFINE a == SetToSeq(rest)
           b == SetToSeq(tombs)
<1>4. /\ Sequence(a) /\ Sequence(b) /\ a \in [1..Cardinality(rest) -> rest]
      /\ \E n \in DOMAIN a : a[n] = k
  BY <1>1, SetSequence
<1>5. InWireOrder(c) = a \o b /\ \A n \in DOMAIN a : a[n] \in rest
  BY <1>3, <1>4
<1> HIDE DEF a, b
<1>6. /\ Len(a) \in Nat /\ DOMAIN a = 1..Len(a) /\ Len(b) \in Nat
      /\ DOMAIN (a \o b) = 1..(Len(a) + Len(b))
      /\ \A n \in 1..Len(a) : (a \o b)[n] = a[n] /\ a[n] \in rest
  <2>1. Len(a) \in Nat /\ DOMAIN a = 1..Len(a) /\ Len(b) \in Nat
    BY <1>4, SequenceShape
  <2>2. /\ DOMAIN (a \o b) = 1..(Len(a) + Len(b))
        /\ \A n \in 1..Len(a) : (a \o b)[n] = a[n]
    BY <1>4, Concatenated
  <2> QED
    BY <1>5, <2>1, <2>2
<1>7. PICK n \in 1..Len(a) : a[n] = k
  BY <1>4, <1>6
<1>8. ASSUME NEW p \in DOMAIN (a \o b), (a \o b)[p] \in Issues, c[(a \o b)[p]].deleted
      PROVE  n < p
  <2>1. p \notin 1..Len(a)
    BY <1>2, <1>6, <1>8
  <2> QED
    BY <1>6, <1>7, <2>1
<1>9. n \in DOMAIN (a \o b) /\ (a \o b)[n] = k
  BY <1>6, <1>7
<1> QED
  BY <1>5, <1>8, <1>9

(* The chunk of a buried entry follows those of everything else.           *)
LEMMA BuriedLast ==
    ASSUME NEW c, IsCollection(c), NEW n \in DOMAIN Chunks(c),
           NEW i \in DOMAIN Chunks(c)[n] \cap Issues, c[i].deleted, NEW k \in DOMAIN c \ Issues
    PROVE  \E q \in DOMAIN Chunks(c) : q <= n /\ k \in DOMAIN Chunks(c)[q]
<1> DEFINE order == InWireOrder(c)
           M == MaxChanges
<1>0. M \in Nat \ {0}
  BY LocalAssumption DEF LocalAssumption
<1>1. PICK a \in DOMAIN order : n \in Nat /\ order[a] = i /\ a <= n * M
  BY ChunkPlaces
<1>2. PICK b \in DOMAIN order :
         order[b] = k /\ \A p \in DOMAIN order :
                            order[p] \in Issues /\ c[order[p]].deleted => b < p
  BY TombstonesLast
<1>3. b < a
  BY <1>1, <1>2
<1>4. PICK q \in DOMAIN Chunks(c) : k \in DOMAIN Chunks(c)[q] /\ q \in Nat /\ (q - 1) * M < b
  BY <1>2, PlacedInChunk
<1>5. DOMAIN order = 1..Len(order) /\ Len(order) \in Nat
  BY WireOrderShape, SequenceShape
<1> HIDE DEF order, M
<1>6. a \in Nat /\ b \in Nat
  BY <1>1, <1>2, <1>5
<1>7. (q - 1) * M < n * M
  <2>1. (q - 1) * M \in Int /\ n * M \in Int
    BY <1>0, <1>1, <1>4
  <2> QED
    BY <1>1, <1>3, <1>4, <1>6, <2>1
<1>8. q - 1 < n
  BY <1>0, <1>1, <1>4, <1>7
<1>9. q <= n
  BY <1>1, <1>4, <1>8
<1> QED
  BY <1>4, <1>9

-----------------------------------------------------------------------------
(* No deleted entry has a copy on the shelf.                               *)
Bare(c) == \A i \in DOMAIN c \cap Issues : c[i].deleted => ActiveCopies(c, i) = {}

(* Whatever the new rows of an outbox delete has no copy on the shelf, and *)
(* no copy that was taken off for it is in a later one.                    *)
Buries(c, after, box, new) ==
    \A p \in DOMAIN new \ DOMAIN box : \A i \in DOMAIN new[p].changes \cap Issues :
        new[p].changes[i].deleted =>
            /\ ActiveCopies(after, i) = {}
            /\ \A k \in DOMAIN c \cap Copies :
                 \/ k \in DOMAIN after /\ after[k] = c[k]
                 \/ \E q \in DOMAIN new \ DOMAIN box : q <= p /\ k \in DOMAIN new[q].changes

(* A flat comic changes its own entry and takes or gives its own copies;   *)
(* a deleted one takes them all.                                           *)
LEMMA SavedComicBuries ==
    ASSUME NEW c, IsCollection(c), NEW i \in Issues, NEW comic \in FlatComics
    PROVE  LET after == UpsertComic(c, i, comic) IN
           /\ i \in DOMAIN after /\ after[i].deleted = comic.deleted
           /\ comic.deleted => ActiveCopies(after, i) = {}
           /\ \A j \in (DOMAIN after \cap Issues) \ {i} :
                 /\ j \in DOMAIN c /\ after[j] = c[j]
                 /\ ActiveCopies(after, j) \subseteq ActiveCopies(c, j)
<1> DEFINE on == comic.owned /\ ~comic.deleted
           gone(k) == [c[k] EXCEPT !.active = FALSE, !.deleted = TRUE]
           st(v) == [issue |-> i, active |-> on, deleted |-> comic.deleted,
                     value |-> v]
           others == OtherCopies(c, i)
           data == [deleted |-> comic.deleted, owned |-> comic.owned,
                    wanted |-> ~comic.owned /\ ~comic.deleted,
                    duplicate |-> comic.duplicate, value |-> comic.value]
           entry == Row(i, data)
           first == PrimaryOf(c, i)
           primary == Row(first, st(comic.copyValue))
           second == IF others # {}
                     THEN Row(FirstCopy(others), st(c[FirstCopy(others)].value))
                     ELSE Row(SecondaryCopy[i], st(DefaultValue))
           tombstones == [k \in others |-> gone(k)]
           rest == IF ~comic.duplicate THEN tombstones
                   ELSE IF comic.deleted THEN Overlay(second, tombstones) ELSE second
<1>1. \A v : st(v).issue = i /\ (comic.deleted => ~st(v).active)
  OBVIOUS
<1>2. data.deleted = comic.deleted
  OBVIOUS
<1> HIDE DEF st, data
<1>3. /\ others \subseteq DOMAIN c \cap Copies /\ \A k \in others : c[k].issue = i
      /\ \A k \in CopiesOf(c, i) : k = first \/ k \in others
  BY DEF OtherCopies, CopiesOf
<1>4. first \in Copies /\ SecondaryCopy[i] \in Copies
  BY PrimaryIsCopy, LocalAssumption DEF LocalAssumption
<1> HIDE DEF others, first
<1>5. /\ DOMAIN second \subseteq Copies
      /\ \A k \in DOMAIN second : second[k].issue = i /\ (comic.deleted => ~second[k].active)
  <2>1. CASE others # {}
    <3>1. FirstCopy(others) \in Copies
      BY <1>3, <2>1, FirstCopyIsOne
    <3> QED
      BY <1>1, <2>1, <3>1 DEF Row
  <2>2. CASE others = {}
    BY <1>1, <1>4, <2>2 DEF Row
  <2> QED
    BY <2>1, <2>2
<1>6. /\ DOMAIN tombstones = others
      /\ \A k \in others : tombstones[k].issue = i /\ ~tombstones[k].active
  <2> SUFFICES ASSUME NEW k \in others PROVE gone(k).issue = i /\ ~gone(k).active
    OBVIOUS
  <2>1. c[k] \in CopyData /\ c[k].issue = i
    BY <1>3 DEF IsCollection
  <2> QED
    BY <2>1 DEF CopyData
<1> HIDE DEF second, tombstones
<1>7. /\ DOMAIN rest \subseteq Copies
      /\ \A k \in DOMAIN rest : rest[k].issue = i /\ (comic.deleted => ~rest[k].active)
      /\ comic.deleted => others \subseteq DOMAIN rest
  <2>1. CASE ~comic.duplicate
    BY <1>3, <1>6, <2>1
  <2>2. CASE comic.duplicate /\ ~comic.deleted
    BY <1>5, <2>2
  <2>3. CASE comic.duplicate /\ comic.deleted
    <3>1. rest = Overlay(second, tombstones)
      BY <2>3
    <3> HIDE DEF rest
    <3> QED
      BY <1>3, <1>5, <1>6, <3>1 DEF Overlay
  <2> QED
    BY <2>1, <2>2, <2>3 DEF FlatComics
<1>8. UpsertComic(c, i, comic) = Overlay(c, Overlay(entry, Overlay(primary, rest)))
  BY DEF UpsertComic, st, others, first, data, second, tombstones
<1> HIDE DEF rest
<1>9. PICK after : after = UpsertComic(c, i, comic)
  OBVIOUS
<1>10. Issues \cap Copies = {}
  BY CollectionAssumption DEF CollectionAssumption
<1>11. /\ DOMAIN after = DOMAIN c \cup {i, first} \cup DOMAIN rest
       /\ after[i] = data
       /\ \A k \in DOMAIN rest : after[k] = rest[k]
       /\ first \notin DOMAIN rest => after[first] = st(comic.copyValue)
       /\ \A k \in DOMAIN c : k # i /\ k # first /\ k \notin DOMAIN rest => after[k] = c[k]
  <2>1. PICK changes : changes = Overlay(entry, Overlay(primary, rest))
    OBVIOUS
  <2>2. /\ DOMAIN changes = {i, first} \cup DOMAIN rest
        /\ \A k \in DOMAIN rest : changes[k] = rest[k]
        /\ first \notin DOMAIN rest => changes[first] = st(comic.copyValue)
        /\ changes[i] = data
    BY <1>4, <1>7, <1>10, <2>1 DEF Overlay, Row
  <2>3. after = Overlay(c, changes)
    BY <1>8, <1>9, <2>1
  <2> QED
    BY <2>2, <2>3 DEF Overlay
<1>12. /\ \A k \in DOMAIN after \cap Copies :
             \/ k \in DOMAIN rest /\ after[k].issue = i /\ (comic.deleted => ~after[k].active)
             \/ k = first /\ after[k].issue = i /\ (comic.deleted => ~after[k].active)
             \/ k # first /\ k \notin DOMAIN rest /\ k \in DOMAIN c /\ after[k] = c[k]
  BY <1>1, <1>7, <1>10, <1>11
<1>13. i \in DOMAIN after /\ after[i].deleted = comic.deleted
  BY <1>2, <1>11
<1>14. ASSUME comic.deleted, NEW k \in ActiveCopies(after, i) PROVE FALSE
  <2>1. k \in DOMAIN after \cap Copies /\ after[k].issue = i /\ after[k].active
    BY <1>14 DEF ActiveCopies, CopiesOf
  <2>2. k # first /\ k \notin DOMAIN rest /\ k \in DOMAIN c /\ after[k] = c[k]
    BY <1>12, <1>14, <2>1
  <2>3. k \in CopiesOf(c, i)
    BY <2>1, <2>2 DEF CopiesOf
  <2> QED
    BY <1>3, <1>7, <1>14, <2>2, <2>3
<1>15. ASSUME NEW j \in (DOMAIN after \cap Issues) \ {i}
       PROVE  /\ j \in DOMAIN c /\ after[j] = c[j]
              /\ ActiveCopies(after, j) \subseteq ActiveCopies(c, j)
  <2>1. j \in DOMAIN c /\ after[j] = c[j]
    BY <1>4, <1>7, <1>10, <1>11
  <2>2. ASSUME NEW k \in ActiveCopies(after, j) PROVE k \in ActiveCopies(c, j)
    <3>1. k \in DOMAIN after \cap Copies /\ after[k].issue = j
          /\ after[k].active /\ ~after[k].deleted
      BY <2>2 DEF ActiveCopies, CopiesOf
    <3>2. k \in DOMAIN c /\ after[k] = c[k]
      BY <1>12, <3>1
    <3> QED
      BY <3>1, <3>2 DEF ActiveCopies, CopiesOf
  <2> QED
    BY <2>1, <2>2
<1> QED
  BY <1>9, <1>13, <1>14, <1>15

(* Saving a copy revives its entry if the copy is on the shelf.            *)
LEMMA SavedCopyIsBare ==
    ASSUME NEW c, IsCollection(c), Bare(c), NEW k \in Copies, NEW row \in CopyData
    PROVE  Bare(SaveCopyRow(c, k, row))
<1> DEFINE middle == Overlay(c, Row(k, row))
           i == row.issue
           old == EntryOf(c, i)
           entry == [old EXCEPT !.deleted = @ /\ ActiveCopies(middle, i) = {}]
           flags == WithDerivedFlags(entry, middle, i)
           after == Overlay(middle, Row(i, flags))
<1>1. i \in Issues /\ Issues \cap Copies = {}
  BY CollectionAssumption DEF CollectionAssumption, CopyData
<1>2. flags.deleted => ActiveCopies(middle, i) = {}
  <2>1. old \in EntryData
    BY <1>1, EntryIsTyped
  <2> HIDE DEF old, middle
  <2>2. entry.deleted => ActiveCopies(middle, i) = {}
    BY <2>1 DEF EntryData
  <2>3. DOMAIN entry = {"deleted", "owned", "wanted", "duplicate", "value"}
    BY <2>1 DEF EntryData
  <2> HIDE DEF entry
  <2>4. flags.deleted = entry.deleted
    BY <2>3 DEF WithDerivedFlags
  <2> QED
    BY <2>2, <2>4
<1> HIDE DEF flags
<1>3. \A j \in Issues : ActiveCopies(after, j) = ActiveCopies(middle, j)
  <2> HIDE DEF middle
  <2>1. /\ DOMAIN after \cap Copies = DOMAIN middle \cap Copies
        /\ \A m \in DOMAIN middle \cap Copies : after[m] = middle[m]
    BY <1>1 DEF Overlay, Row
  <2> HIDE DEF after
  <2> QED
    BY <2>1 DEF ActiveCopies, CopiesOf
<1>4. ASSUME NEW j \in DOMAIN after \cap Issues, after[j].deleted
      PROVE  ActiveCopies(after, j) = {}
  <2>1. CASE j = i
    <3>1. after[j] = flags
      BY <2>1 DEF Overlay, Row
    <3> QED
      BY <1>1, <1>2, <1>3, <1>4, <2>1, <3>1
  <2>2. CASE j # i
    <3>1. j \in DOMAIN c /\ after[j] = c[j]
      BY <1>1, <2>2 DEF Overlay, Row
    <3>2. ActiveCopies(middle, j) \subseteq ActiveCopies(c, j)
      <4>1. \A m \in DOMAIN middle \cap Copies : m # k => m \in DOMAIN c /\ middle[m] = c[m]
        BY DEF Overlay, Row
      <4>2. middle[k].issue # j
        BY <2>2 DEF Overlay, Row
      <4> HIDE DEF middle
      <4> QED
        BY <4>1, <4>2 DEF ActiveCopies, CopiesOf
    <3> QED
      BY <1>3, <1>4, <3>1, <3>2 DEF Bare
  <2> QED
    BY <2>1, <2>2
<1>5. after = SaveCopyRow(c, k, row)
  BY DEF SaveCopyRow, flags
<1> HIDE DEF after
<1> QED
  BY <1>4, <1>5 DEF Bare

(* Rows of the queue that upload a difference bury what it deletes.        *)
LEMMA ChunksBury ==
    ASSUME NEW d, NEW m \in Nat, NEW box, Sequence(box), NEW groups, NEW c, NEW after,
           NEW difference, IsCollection(difference), UploadsOf(groups, difference),
           \A n \in DOMAIN groups : difference # << >> /\ groups = Chunks(difference),
           \A i \in DOMAIN difference \cap Issues : difference[i].deleted =>
              /\ ActiveCopies(after, i) = {}
              /\ \A k \in DOMAIN c \cap Copies :
                    (k \in DOMAIN after /\ after[k] = c[k]) \/ k \in DOMAIN difference
    PROVE  Buries(c, after, box, Enqueued(d, box, m, groups))
<1> DEFINE new == Enqueued(d, box, m, groups)
<1>1. Sequence(groups) /\ Uploads(groups)
  BY DEF UploadsOf, Uploads
<1>6. /\ Sequence(new) /\ Len(new) - Len(box) = Len(groups)
      /\ \A n \in DOMAIN groups : new[Len(box) + n].changes = groups[n]
  <2>1. /\ Extends(d, m, box, m + Len(groups), new) /\ Len(new) - Len(box) = Len(groups)
        /\ \A n \in DOMAIN groups : new[Len(box) + n].changes = groups[n]
    <3>1. /\ Extends(d, m, box, m + Len(groups), Enqueued(d, box, m, groups))
          /\ Len(Enqueued(d, box, m, groups)) - Len(box) = Len(groups)
          /\ \A k \in DOMAIN groups :
               Enqueued(d, box, m, groups)[Len(box) + k].changes = groups[k]
      BY <1>1, EnqueuedRows
    <3> QED
      BY <3>1
  <2> HIDE DEF new
  <2> QED
    BY <2>1 DEF Extends
<1> HIDE DEF new
<1>7. /\ Len(new) \in Nat /\ DOMAIN new = 1..Len(new) /\ Len(box) \in Nat
      /\ DOMAIN box = 1..Len(box) /\ Len(groups) \in Nat /\ DOMAIN groups = 1..Len(groups)
  <2>1. Len(new) \in Nat /\ DOMAIN new = 1..Len(new)
    BY <1>6, SequenceShape
  <2>2. Len(box) \in Nat /\ DOMAIN box = 1..Len(box)
    BY SequenceShape
  <2>3. Len(groups) \in Nat /\ DOMAIN groups = 1..Len(groups)
    BY <1>1, SequenceShape
  <2> QED
    BY <2>1, <2>2, <2>3
<1>8. \A n \in DOMAIN groups : Len(box) + n \in DOMAIN new \ DOMAIN box
  BY <1>6, <1>7
<1> SUFFICES ASSUME NEW p \in DOMAIN new \ DOMAIN box,
                    NEW i \in DOMAIN new[p].changes \cap Issues, new[p].changes[i].deleted
             PROVE  /\ ActiveCopies(after, i) = {}
                    /\ \A k \in DOMAIN c \cap Copies :
                         \/ k \in DOMAIN after /\ after[k] = c[k]
                         \/ \E q \in DOMAIN new \ DOMAIN box :
                              q <= p /\ k \in DOMAIN new[q].changes
  BY DEF Buries, new
<1>9. PICK n \in DOMAIN groups : p = Len(box) + n
  <2>1. p - Len(box) \in DOMAIN groups /\ p = Len(box) + (p - Len(box))
    BY <1>6, <1>7
  <2> QED
    BY <2>1
<1>10. new[p].changes = groups[n] /\ PartOf(groups[n], difference)
  BY <1>6, <1>9 DEF UploadsOf
<1>11. i \in DOMAIN difference \cap Issues /\ difference[i].deleted
       /\ i \in DOMAIN groups[n] \cap Issues
  BY <1>10 DEF PartOf
<1>12. ASSUME NEW k \in DOMAIN c \cap Copies, k \in DOMAIN difference
       PROVE  \E q \in DOMAIN new \ DOMAIN box : q <= p /\ k \in DOMAIN new[q].changes
  <2>1. k \in DOMAIN difference \ Issues
    BY <1>12, CollectionAssumption DEF CollectionAssumption
  <2>2. groups = Chunks(difference)
    BY <1>9
  <2>3. PICK q \in DOMAIN groups : q <= n /\ k \in DOMAIN groups[q]
    BY <1>11, <2>1, <2>2, BuriedLast
  <2>4. Len(box) + q <= p
    BY <1>7, <1>9, <2>3
  <2> QED
    BY <1>6, <1>8, <2>3, <2>4
<1> QED
  BY <1>11, <1>12

(* A write that uploads what it changes buries what it deletes.            *)
LEMMA WriteBuries ==
    ASSUME Typed, NEW d \in Devices, NEW after, NEW difference, IsCollection(difference),
           Write(d, after, difference),
           \A i \in DOMAIN difference \cap Issues : difference[i].deleted =>
              /\ ActiveCopies(after, i) = {}
              /\ \A k \in DOMAIN local[d] \cap Copies :
                    (k \in DOMAIN after /\ after[k] = local[d][k]) \/ k \in DOMAIN difference
    PROVE  Buries(local[d], after, outbox[d], outbox'[d])
<1>1. PICK groups : groups = IF difference = << >> THEN << >> ELSE Chunks(difference)
  OBVIOUS
<1>2. \A n \in DOMAIN groups : difference # << >> /\ groups = Chunks(difference)
  BY <1>1
<1>3. UploadsOf(groups, difference)
  <2>1. CASE difference = << >>
    BY <1>1, <2>1, NoneIsSequence DEF UploadsOf, Uploads
  <2>2. CASE difference # << >>
    BY <1>1, <2>2, ChunksAreUploads
  <2> QED
    BY <2>1, <2>2
<1>4. ByDevice(outbox) /\ minted[d] \in Nat /\ Sequence(outbox[d])
  BY DEF Typed, Domains, DeviceTyped, IsOutbox
<1>5. outbox' = [outbox EXCEPT ![d] = Enqueued(d, @, minted[d], groups)]
  BY <1>1 DEF Write
<1>6. PICK box, new, c, m :
         box = outbox[d] /\ new = outbox'[d] /\ c = local[d] /\ m = minted[d]
  OBVIOUS
<1>7. m \in Nat /\ Sequence(box) /\ new = Enqueued(d, box, m, groups)
  BY <1>4, <1>5, <1>6 DEF ByDevice
<1>8. \A i \in DOMAIN difference \cap Issues : difference[i].deleted =>
         /\ ActiveCopies(after, i) = {}
         /\ \A k \in DOMAIN c \cap Copies :
               (k \in DOMAIN after /\ after[k] = c[k]) \/ k \in DOMAIN difference
  BY <1>6
<1>9. Buries(c, after, box, Enqueued(d, box, m, groups))
  <2>1. m \in Nat /\ Sequence(box)
    BY <1>7
  <2> QED
    BY <1>2, <1>3, <1>8, <2>1, ChunksBury
<1> QED
  BY <1>6, <1>7, <1>9

(* Every write of a user buries what it deletes.                           *)
LEMMA UserWriteBuries ==
    ASSUME Typed, NEW d \in Devices, UserWrite(d)
    PROVE  /\ Buries(local[d], local'[d], outbox[d], outbox'[d])
           /\ Bare(local[d]) => Bare(local'[d])
<1> DEFINE Goal == /\ Buries(local[d], local'[d], outbox[d], outbox'[d])
                   /\ Bare(local[d]) => Bare(local'[d])
<1>0. IsCollection(local[d]) /\ ByDevice(local)
  BY DEF Typed, DeviceTyped, Domains
<1>1. ASSUME NEW after, NEW difference, Write(d, after, difference),
             Buries(local[d], after, outbox[d], outbox'[d]), Bare(local[d]) => Bare(after)
      PROVE  Goal
  <2>1. local'[d] = after
    BY <1>0, <1>1 DEF Write, ByDevice
  <2> QED
    BY <1>1, <2>1
<1>2. ASSUME NEW i \in Issues, NEW comic \in ComicInputs, SaveComic(d, i, comic)
      PROVE  Goal
  <2>0. comic \in FlatComics
    BY ProtocolAssumption DEF ProtocolAssumption
  <2>1. PICK c, after : c = local[d] /\ after = UpsertComic(c, i, comic)
    OBVIOUS
  <2>2. IsCollection(after) /\ DOMAIN c \subseteq DOMAIN after
    <3>1. DOMAIN c \subseteq DOMAIN after
      BY <2>1 DEF UpsertComic, Overlay
    <3> QED
      BY <1>0, <2>0, <2>1, <3>1, SavedComicIsCollection
  <2>3. /\ i \in DOMAIN after /\ after[i].deleted = comic.deleted
        /\ comic.deleted => ActiveCopies(after, i) = {}
        /\ \A j \in (DOMAIN after \cap Issues) \ {i} :
              /\ j \in DOMAIN c /\ after[j] = c[j]
              /\ ActiveCopies(after, j) \subseteq ActiveCopies(c, j)
    BY <1>0, <2>0, <2>1, SavedComicBuries
  <2>4. PICK difference : difference = WireDifference(c, after)
    OBVIOUS
  <2>5. Write(d, after, difference) /\ IsCollection(difference) /\ PartOf(difference, after)
    BY <1>0, <1>2, <2>1, <2>2, <2>4, DifferenceIsCollection, DifferenceCovers DEF SaveComic
  <2>6. /\ \A k \in DOMAIN difference : k \in Dirty(c, after)
        /\ \A k \in Dirty(c, after) : k \notin Issues => k \in DOMAIN difference
    BY <2>4 DEF WireDifference, Restrict
  <2>7. ASSUME NEW j \in DOMAIN difference \cap Issues, difference[j].deleted
        PROVE  ActiveCopies(after, j) = {}
    <3>1. j \in Dirty(c, after) /\ after[j].deleted
      BY <2>5, <2>6, <2>7 DEF PartOf
    <3>2. j = i
      BY <2>3, <2>7, <3>1 DEF Dirty
    <3> QED
      BY <2>3, <3>1, <3>2
  <2>8. ASSUME NEW k \in DOMAIN c \cap Copies
        PROVE  (k \in DOMAIN after /\ after[k] = c[k]) \/ k \in DOMAIN difference
    <3>1. k \notin Issues
      BY CollectionAssumption DEF CollectionAssumption
    <3> QED
      BY <2>2, <2>6, <3>1 DEF Dirty
  <2>9. Buries(local[d], after, outbox[d], outbox'[d])
    <3>1. \A j \in DOMAIN difference \cap Issues : difference[j].deleted =>
             /\ ActiveCopies(after, j) = {}
             /\ \A k \in DOMAIN local[d] \cap Copies :
                   (k \in DOMAIN after /\ after[k] = local[d][k]) \/ k \in DOMAIN difference
      BY <2>1, <2>7, <2>8
    <3> QED
      BY <2>5, <3>1, WriteBuries
  <2>10. Bare(c) => Bare(after)
    BY <2>3 DEF Bare
  <2> QED
    BY <1>1, <2>1, <2>5, <2>9, <2>10
<1>3. ASSUME NEW edit \in CopyInputs, SaveCopy(d, edit[1], edit[2])
      PROVE  Goal
  <2> DEFINE only(c) == Restrict(c, {edit[1]} \cap DOMAIN c)
  <2>1. PICK k, row, after, difference :
           /\ k = edit[1] /\ row = edit[2] /\ after = SaveCopyRow(local[d], k, row)
           /\ difference = WireDifference(only(local[d]), only(after))
    OBVIOUS
  <2>2. k \in Copies /\ row \in CopyData
    BY <2>1, ProtocolAssumption DEF ProtocolAssumption
  <2>3. IsCollection(after)
    BY <1>0, <2>1, <2>2, SavedCopyIsCollection
  <2>4. Write(d, after, difference)
    BY <1>3, <2>1 DEF SaveCopy
  <2>5. IsCollection(difference)
    BY <1>0, <2>1, <2>2, CopyDifferenceCovers
  <2>6. DOMAIN difference \subseteq {k}
    BY <2>1 DEF WireDifference, Restrict, Dirty
  <2>7. DOMAIN difference \cap Issues = {}
    BY <2>2, <2>6, CollectionAssumption DEF CollectionAssumption
  <2>8. Buries(local[d], after, outbox[d], outbox'[d])
    BY <2>4, <2>5, <2>7, WriteBuries
  <2>9. Bare(local[d]) => Bare(after)
    BY <1>0, <2>1, <2>2, SavedCopyIsBare
  <2> QED
    BY <1>1, <2>4, <2>8, <2>9
<1>4. ASSUME NEW b \in Barcodes, NEW i \in BarcodeInputs, SaveBarcode(d, b, i)
      PROVE  Goal
  <2> DEFINE row == [issue |-> i, deleted |-> FALSE]
  <2>1. PICK c, after, difference :
           /\ c = local[d] /\ after = Overlay(c, Row(b, row))
           /\ difference = WireDifference(c, after)
    OBVIOUS
  <2>2. row \in BarcodeData
    BY ProtocolAssumption DEF ProtocolAssumption, BarcodeData
  <2>3. b \in Keys /\ b \notin Issues /\ b \notin Copies
    BY CollectionAssumption DEF CollectionAssumption, Keys
  <2>4. Write(d, after, difference)
    BY <1>4, <2>1 DEF SaveBarcode
  <2> HIDE DEF row
  <2>5. IsCollection(after)
    BY <1>0, <2>1, <2>2, <2>3, RowIsCollection, OverlayIsCollection
  <2>6. IsCollection(difference)
    BY <2>1, <2>5, DifferenceIsCollection
  <2>7. /\ DOMAIN after = DOMAIN c \cup {b} /\ \A k \in DOMAIN c : k # b => after[k] = c[k]
    BY <2>1 DEF Overlay, Row
  <2>8. DOMAIN difference \cap Issues = {}
    <3>1. DOMAIN difference \subseteq Dirty(c, after)
      BY <2>1 DEF WireDifference, Restrict
    <3>2. Dirty(c, after) \subseteq {b}
      BY <2>7 DEF Dirty
    <3> QED
      BY <2>3, <3>1, <3>2
  <2>9. Buries(local[d], after, outbox[d], outbox'[d])
    BY <2>4, <2>6, <2>8, WriteBuries
  <2>10. Bare(c) => Bare(after)
    <3>1. \A j \in Issues : ActiveCopies(after, j) = ActiveCopies(c, j)
      BY <2>3, <2>7 DEF ActiveCopies, CopiesOf
    <3> QED
      BY <2>3, <2>7, <3>1 DEF Bare
  <2> QED
    BY <1>1, <2>1, <2>4, <2>9, <2>10
<1> QED
  BY <1>2, <1>3, <1>4 DEF UserWrite

-----------------------------------------------------------------------------
(* Every mutation a device has generated is queued or behind its cursor.   *)
Accounted(d, m, box, l, cursor) ==
    \A j \in 1..m : <<d, j>> \in Ids(box) \/ \E r \in 1..cursor : l[r].mutation = <<d, j>>

(* A device's mutations are recorded without a gap.                        *)
Gapless(d, l) ==
    \A r \in DOMAIN l : \A j \in Nat : l[r].mutation = <<d, j>> =>
        \A g \in 1..(j - 1) : \E s \in 1..(r - 1) : l[s].mutation = <<d, g>>

(* What a device has said in each of its m mutations, queued or recorded.  *)
Recalls(d, m, box, rcpts, said) ==
    /\ DOMAIN said = 1..m
    /\ \A n \in DOMAIN box : said[box[n].id[2]] = box[n].changes
    /\ \A j \in 1..m : <<d, j>> \in DOMAIN rcpts => rcpts[<<d, j>>].payload = said[j]

(* Of the first j mutations, h is the last that tells of key k.            *)
LastSaid(said, j, k, h) ==
    /\ h \in 1..j /\ k \in DOMAIN said[h]
    /\ \A g \in (h + 1)..j : k \notin DOMAIN said[g]

(* Another device tells of key k in the first n groups.                    *)
Foreign(d, k, l, n) ==
    \E s \in 1..n : k \in DOMAIN l[s].changes /\ l[s].mutation[1] # d

(* A device deletes an entry only with the copies it has put on the shelf  *)
(* itself, unless others have told of them.                                *)
Observant(d, rcpts, l, said) ==
    \A j \in DOMAIN said : \A i \in DOMAIN said[j] \cap Issues : said[j][i].deleted =>
        \A k, h : LastSaid(said, j, k, h) /\ k \in ActiveCopies(said[h], i) =>
            Foreign(d, k, l, IF <<d, j>> \in DOMAIN rcpts
                             THEN rcpts[<<d, j>>].revision ELSE Len(l))

ObservantAt(d) ==
    /\ Accounted(d, minted[d], outbox[d], log, state[d].cursor)
    /\ Gapless(d, log)
    /\ state[d].cursor = 0 => Bare(local[d])
    /\ \E said : /\ Recalls(d, minted[d], outbox[d], receipts, said)
                 /\ Observant(d, receipts, log, said)

(* The strengthening of DeletionIsObservedRemove.                          *)
Observing == \A d \in Devices : ObservantAt(d)

(* The log has a device's mutations once each and in their order.          *)
LEMMA RecordsInOrder ==
    ASSUME HistorySound, NEW d, Gapless(d, log), NEW r \in DOMAIN log, NEW s \in DOMAIN log,
           NEW j \in Nat \ {0}, NEW g \in Nat \ {0},
           log[r].mutation = <<d, j>>, log[s].mutation = <<d, g>>,
           <<d, j>> \in DOMAIN receipts, <<d, g>> \in DOMAIN receipts
    PROVE  (g = j => s = r) /\ (g < j => s < r)
<1>1. /\ DOMAIN log = 1..Len(log) /\ Len(log) \in Nat
      /\ \A t \in DOMAIN log : log[t].mutation \in DOMAIN receipts =>
                                  receipts[log[t].mutation].revision = t
  BY LogIndices DEF HistorySound, ReceiptsMatchLog, RecordedOnce
<1>2. g = j => s = r
  BY <1>1
<1>3. ASSUME g < j PROVE s < r
  <2>1. g \in 1..(j - 1)
    BY <1>3
  <2>2. PICK t \in 1..(r - 1) : log[t].mutation = <<d, g>>
    BY <2>1 DEF Gapless
  <2>3. t \in DOMAIN log /\ t < r
    BY <1>1, <2>2
  <2>4. t = s
    BY <1>1, <2>2, <2>3
  <2> QED
    BY <2>3, <2>4
<1> QED
  BY <1>2, <1>3

(* A recorded group tells of the copies its device told of.                *)
LEMMA RecordedAsSaid ==
    ASSUME HistorySound, NEW d, NEW m \in Nat, NEW box, NEW said,
           Recalls(d, m, box, receipts, said), NEW r \in DOMAIN log, NEW j \in 1..m,
           log[r].mutation = <<d, j>>, <<d, j>> \in DOMAIN receipts, NEW k \in Copies
    PROVE  /\ k \in DOMAIN log[r].changes <=> k \in DOMAIN said[j]
           /\ k \in DOMAIN said[j] => log[r].changes[k] = said[j][k]
<1>1. receipts[log[r].mutation].payload = said[j] /\ log[r].mutation \in DOMAIN receipts
  BY DEF Recalls
<1>2. LET sent == receipts[log[r].mutation].payload IN
      /\ k \in DOMAIN log[r].changes <=> k \in DOMAIN sent
      /\ k \in DOMAIN sent => log[r].changes[k] = sent[k]
  BY <1>1, CopiesAsSent
<1> QED
  BY <1>1, <1>2

(* What is recorded of a device is among what it has generated.            *)
LEMMA RecordedIsMinted ==
    ASSUME Typed, Pinned, NEW d \in Devices, NEW r \in DOMAIN log, log[r].mutation[1] = d
    PROVE  /\ log[r].mutation \in DOMAIN receipts
           /\ \E j \in 1..minted[d] : log[r].mutation = <<d, j>>
<1>1. log[r].mutation \in DOMAIN receipts /\ Generated(DOMAIN receipts, minted)
  BY DEF Pinned
<1>2. PICK e \in Devices : \E j \in 1..minted[e] : log[r].mutation = <<e, j>>
  BY <1>1 DEF Generated
<1>3. e = d
  BY <1>2
<1> QED
  BY <1>1, <1>2, <1>3

(* The latest group before a device's own that tells of a copy is either   *)
(* another device's, or the last of its own that does.                     *)
LEMMA LatestIsLast ==
    ASSUME Typed, Pinned, NEW d \in Devices, Gapless(d, log), NEW said,
           Recalls(d, minted[d], outbox[d], receipts, said), NEW k \in Copies,
           NEW r \in DOMAIN log, NEW j \in 1..minted[d], log[r].mutation = <<d, j>>,
           NEW s, Latest(log, r, k, s)
    PROVE  \/ Foreign(d, k, log, r)
           \/ \E h \in 1..j : log[s].mutation = <<d, h>> /\ LastSaid(said, j, k, h)
<1>0. minted[d] \in Nat /\ HistorySound
  BY DEF Typed, DeviceTyped
<1>1. DOMAIN log = 1..Len(log) /\ Len(log) \in Nat
  BY <1>0, LogIndices
<1>2. /\ s \in 1..r /\ s \in DOMAIN log /\ k \in DOMAIN log[s].changes
      /\ \A t \in (s + 1)..r : k \notin DOMAIN log[t].changes
  BY <1>1 DEF Latest
<1>3. CASE log[s].mutation[1] # d
  BY <1>2, <1>3 DEF Foreign
<1>4. CASE log[s].mutation[1] = d
  <2>1. PICK h \in 1..minted[d] : log[s].mutation = <<d, h>>
    BY <1>2, <1>4, RecordedIsMinted
  <2>2. <<d, h>> \in DOMAIN receipts /\ <<d, j>> \in DOMAIN receipts
    BY <1>2, <2>1 DEF Pinned
  <2>3. ASSUME j < h PROVE FALSE
    <3>1. r < s
      BY <1>0, <1>2, <2>1, <2>2, <2>3, RecordsInOrder
    <3> QED
      BY <1>1, <1>2, <3>1
  <2>4. h \in 1..j
    BY <1>0, <2>3
  <2>5. k \in DOMAIN said[h]
    BY <1>0, <1>2, <2>1, <2>2, RecordedAsSaid
  <2>6. ASSUME NEW g \in (h + 1)..j PROVE k \notin DOMAIN said[g]
    <3>1. g \in 1..minted[d] /\ h < g /\ g <= j
      BY <1>0, <2>4, <2>6
    <3>2. PICK t \in DOMAIN log : log[t].mutation = <<d, g>> /\ t <= r
      <4>1. CASE g = j
        <5>1. log[r].mutation = <<d, g>> /\ r <= r
          BY <1>1, <4>1
        <5> QED
          BY <5>1
      <4>2. CASE g # j
        <5>1. g \in 1..(j - 1) /\ j \in Nat
          BY <1>0, <3>1, <4>2
        <5>2. PICK t \in 1..(r - 1) : log[t].mutation = <<d, g>>
          BY <5>1 DEF Gapless
        <5> QED
          BY <1>1, <5>2
      <4> QED
        BY <4>1, <4>2
    <3>3. <<d, g>> \in DOMAIN receipts
      BY <3>2 DEF Pinned
    <3>4. s < t
      BY <1>0, <1>2, <2>1, <2>2, <3>1, <3>2, <3>3, RecordsInOrder
    <3>5. t \in (s + 1)..r
      BY <1>1, <1>2, <3>2, <3>4
    <3>6. k \notin DOMAIN log[t].changes
      BY <1>2, <3>5
    <3> QED
      BY <1>0, <3>1, <3>2, <3>3, <3>6, RecordedAsSaid
  <2> QED
    BY <2>1, <2>4, <2>5, <2>6 DEF LastSaid
<1> QED
  BY <1>3, <1>4

(* A device shows a copy as it last told of it, unless others have told of *)
(* it.                                                                     *)
LEMMA ShelfAsSaid ==
    ASSUME Typed, Pinned, PendingShown, Agreed, NEW d \in Devices,
           Accounted(d, minted[d], outbox[d], log, state[d].cursor), Gapless(d, log),
           NEW said, Recalls(d, minted[d], outbox[d], receipts, said),
           NEW k \in Copies, NEW h, LastSaid(said, minted[d], k, h)
    PROVE  \/ k \in DOMAIN local[d] /\ local[d][k] = said[h][k]
           \/ Foreign(d, k, log, Len(log))
<1>1. PICK m, box, c, cursor : /\ m = minted[d] /\ box = outbox[d] /\ c = local[d]
                               /\ cursor = state[d].cursor
  OBVIOUS
<1>2. /\ HistorySound /\ IsOutbox(d, m, box) /\ m \in Nat /\ cursor \in Nat
      /\ Shown(c, box) /\ AgreedAt(d) /\ PinnedAt(d)
  BY <1>1 DEF Typed, DeviceTyped, StateTyped, Pinned, Agreed, PendingShown
<1>3. /\ DOMAIN log = 1..Len(log) /\ Len(log) \in Nat /\ cursor <= Len(log)
      /\ \A r \in 1..cursor : log[r].mutation \notin Ids(box)
      /\ DOMAIN box = 1..Len(box) /\ Len(box) \in Nat
  <2>1. DOMAIN log = 1..Len(log) /\ Len(log) \in Nat
    BY <1>2, LogIndices
  <2>2. DOMAIN box = 1..Len(box) /\ Len(box) \in Nat
    BY <1>2, SequenceShape DEF IsOutbox
  <2> QED
    BY <1>1, <1>2, <2>1, <2>2 DEF PinnedAt, PastIsGone
<1>4. /\ h \in 1..m /\ k \in DOMAIN said[h] /\ k \notin Issues /\ k \in Keys
      /\ \A g \in 1..m : k \in DOMAIN said[g] => g <= h
  <2>1. h \in 1..m /\ k \in DOMAIN said[h] /\ \A g \in (h + 1)..m : k \notin DOMAIN said[g]
    BY <1>1 DEF LastSaid
  <2>2. \A g \in 1..m : g <= h \/ g \in (h + 1)..m
    BY <1>2, <2>1
  <2>3. k \notin Issues /\ k \in Keys
    BY CollectionAssumption DEF CollectionAssumption, Keys
  <2> QED
    BY <2>1, <2>2, <2>3
<1>5. \A n \in DOMAIN box : /\ box[n].id[2] \in 1..m /\ box[n].id = <<d, box[n].id[2]>>
                            /\ said[box[n].id[2]] = box[n].changes
  <2>1. \A n \in DOMAIN box : \E j \in 1..m : box[n].id = <<d, j>>
    BY <1>2 DEF IsOutbox, IsMutation
  <2>2. \A n \in DOMAIN box : said[box[n].id[2]] = box[n].changes
    BY <1>1 DEF Recalls
  <2> QED
    BY <2>1, <2>2
<1>6. CASE <<d, h>> \in Ids(box)
  <2>1. PICK n \in DOMAIN box : box[n].id = <<d, h>>
    BY <1>6 DEF Ids
  <2>2. box[n].changes = said[h] /\ box[n].id[2] = h
    BY <1>5, <2>1
  <2>3. ASSUME NEW p \in DOMAIN box, k \in DOMAIN box[p].changes PROVE p <= n
    <3>1. box[p].id[2] \in 1..m /\ box[p].id[2] <= h
      BY <1>4, <1>5, <2>3
    <3>2. ~(h < box[p].id[2])
      BY <1>4, <3>1
    <3>3. ~(n < p)
      BY <1>2, <2>2, <3>2 DEF IsOutbox
    <3> QED
      BY <1>3, <3>3
  <2>4. k \in DOMAIN c /\ Alike(k, c[k], said[h][k])
    BY <1>2, <1>4, <2>2, <2>3 DEF Shown
  <2> QED
    BY <1>1, <1>4, <2>4 DEF Alike
<1>7. ASSUME NEW r \in 1..cursor, log[r].mutation = <<d, h>>
      PROVE  \/ k \in DOMAIN c /\ c[k] = said[h][k]
             \/ Foreign(d, k, log, Len(log))
  <2>1. r \in DOMAIN log /\ cursor > 0 /\ <<d, h>> \in DOMAIN receipts
    BY <1>2, <1>3, <1>7 DEF Pinned
  <2>2. k \in DOMAIN log[r].changes /\ log[r].changes[k] = said[h][k]
    <3>1. h \in 1..minted[d] /\ minted[d] \in Nat
      BY <1>1, <1>2, <1>4
    <3> QED
      BY <1>2, <1>4, <1>7, <2>1, <3>1, RecordedAsSaid
  <2>3. k \notin Queued(box)
    <3> SUFFICES ASSUME NEW n \in DOMAIN box, k \in DOMAIN box[n].changes PROVE FALSE
      BY DEF Queued
    <3>1. PICK g \in 1..m : box[n].id = <<d, g>> /\ said[g] = box[n].changes
      BY <1>5
    <3>2. g <= h /\ g \in Nat /\ h \in Nat
      BY <1>4, <3>1
    <3>3. <<d, g>> \in Ids(box)
      BY <3>1 DEF Ids
    <3>4. g # h
      BY <1>3, <1>7, <3>3
    <3>5. g \in 1..(h - 1)
      BY <3>1, <3>2, <3>4
    <3>6. PICK t \in 1..(r - 1) : log[t].mutation = <<d, g>>
      BY <1>4, <1>7, <2>1, <3>2, <3>5 DEF Gapless
    <3>7. t \in 1..cursor
      BY <1>2, <3>6
    <3> QED
      BY <1>3, <3>3, <3>6, <3>7
  <2>4. SameRow(c, EntitiesAt(cursor), k)
    <3>1. state[d].seeded
      BY <1>1, <1>2, <2>1 DEF AgreedAt
    <3> QED
      BY <1>1, <1>2, <1>4, <2>3, <3>1 DEF AgreedAt, Agrees
  <2>5. PICK held : held = EntitiesAt(cursor)
    OBVIOUS
  <2>6. /\ k \in DOMAIN held
        /\ \E s : Latest(log, cursor, k, s) /\ held[k] = log[s].changes[k]
    <3>1. /\ \A key \in DOMAIN Replayed(log, cursor) : \E s :
                Latest(log, cursor, key, s) /\ Replayed(log, cursor)[key] = log[s].changes[key]
          /\ \A s \in 1..cursor : DOMAIN log[s].changes \subseteq DOMAIN Replayed(log, cursor)
      BY <1>2, ReplayedLatest
    <3>2. held = Replayed(log, cursor)
      BY <2>5 DEF EntitiesAt
    <3> QED
      BY <1>7, <2>2, <3>1, <3>2
  <2>7. PICK s : Latest(log, cursor, k, s) /\ held[k] = log[s].changes[k]
    BY <2>6
  <2>8. /\ s \in 1..cursor /\ s \in DOMAIN log /\ k \in DOMAIN log[s].changes
        /\ \A t \in (s + 1)..cursor : k \notin DOMAIN log[t].changes
    BY <1>2, <1>3, <2>7 DEF Latest
  <2>9. k \in DOMAIN c /\ c[k] = log[s].changes[k]
    BY <2>4, <2>5, <2>6, <2>7 DEF SameRow
  <2>10. CASE log[s].mutation[1] # d
    <3>1. s \in 1..Len(log)
      BY <1>3, <2>8
    <3> QED
      BY <2>8, <2>10, <3>1 DEF Foreign
  <2>11. CASE log[s].mutation[1] = d
    <3>1. PICK g \in 1..m : log[s].mutation = <<d, g>> /\ <<d, g>> \in DOMAIN receipts
      BY <1>1, <2>8, <2>11, RecordedIsMinted
    <3>2. k \in DOMAIN said[g]
      <4>1. g \in 1..minted[d] /\ minted[d] \in Nat
        BY <1>1, <1>2, <3>1
      <4> QED
        BY <1>2, <2>8, <3>1, <4>1, RecordedAsSaid
    <3>3. g <= h /\ g \in Nat \ {0} /\ h \in Nat \ {0}
      BY <1>4, <3>1, <3>2
    <3>4. (g = h => s = r) /\ (g < h => s < r)
      BY <1>2, <1>7, <2>1, <2>8, <3>1, <3>3, RecordsInOrder
    <3>5. ~(s < r)
      BY <1>2, <2>2, <2>8
    <3>6. s = r
      BY <3>3, <3>4, <3>5
    <3> QED
      BY <2>2, <2>9, <3>6
  <2> QED
    BY <2>10, <2>11
<1>8. CASE \E r \in 1..cursor : log[r].mutation = <<d, h>>
  BY <1>1, <1>7, <1>8
<1>9. <<d, h>> \in Ids(box) \/ \E r \in 1..cursor : log[r].mutation = <<d, h>>
  BY <1>1, <1>4 DEF Accounted
<1> QED
  BY <1>6, <1>8, <1>9

(* The place in the queue of the j-th mutation, of a device that has       *)
(* generated m and queues box.                                             *)
Place(m, box, j) == Len(box) + (j - m)

(* New mutations follow those of before, one for each new id.              *)
Placed(d, m, box, n, new) ==
    /\ n \in Nat /\ m <= n /\ DOMAIN box \subseteq DOMAIN new
    /\ \A p \in DOMAIN box : new[p] = box[p]
    /\ \A j \in (m + 1)..n : /\ Place(m, box, j) \in DOMAIN new \ DOMAIN box
                             /\ new[Place(m, box, j)].id = <<d, j>>
    /\ \A p \in DOMAIN new \ DOMAIN box : \E j \in (m + 1)..n : p = Place(m, box, j)
    /\ \A i \in (m + 1)..n : \A j \in (m + 1)..n :
          i <= j <=> Place(m, box, i) <= Place(m, box, j)

(* Where the queue is extended, its new mutations are so placed.           *)
LEMMA NewPlaces ==
    ASSUME NEW d, NEW m \in Nat, NEW box, IsOutbox(d, m, box), NEW n, NEW new,
           Extends(d, m, box, n, new)
    PROVE  Placed(d, m, box, n, new)
<1>1. /\ Len(box) \in Nat /\ DOMAIN box = 1..Len(box) /\ n \in Nat /\ m <= n
      /\ DOMAIN new = 1..Len(new) /\ Len(new) = Len(box) + (n - m)
  BY SequenceShape DEF IsOutbox, Extends
<1>2. DOMAIN box \subseteq DOMAIN new /\ \A p \in DOMAIN box : new[p] = box[p]
  BY <1>1 DEF Extends
<1>3. PICK b : b = Len(box) /\ b \in Nat
  BY <1>1
<1>4. ASSUME NEW j \in (m + 1)..n
      PROVE  Place(m, box, j) \in DOMAIN new \ DOMAIN box /\ new[Place(m, box, j)].id = <<d, j>>
  <2>1. PICK k \in 1..(n - m) : k = j - m /\ m + k = j
    BY <1>1
  <2>2. new[b + k] = [id |-> <<d, m + k>>, changes |-> new[b + k].changes, ack |-> 0]
    BY <1>3 DEF Extends
  <2>3. PICK c : c = new[b + k].changes
    OBVIOUS
  <2>4. new[b + k].id = <<d, m + k>>
    BY <2>2, <2>3
  <2>5. b + k \in DOMAIN new \ DOMAIN box
    BY <1>1, <1>3
  <2> QED
    BY <1>3, <2>1, <2>4, <2>5 DEF Place
<1>5. ASSUME NEW p \in DOMAIN new \ DOMAIN box
      PROVE  \E j \in (m + 1)..n : p = Place(m, box, j)
  <2>1. m + (p - b) \in (m + 1)..n /\ p = b + ((m + (p - b)) - m)
    BY <1>1, <1>3
  <2> QED
    BY <1>3, <2>1 DEF Place
<1>6. \A i \in (m + 1)..n : \A j \in (m + 1)..n : i <= j <=> Place(m, box, i) <= Place(m, box, j)
  BY <1>1, <1>3 DEF Place
<1> QED
  BY <1>1, <1>2, <1>3, <1>4, <1>5, <1>6 DEF Placed

(* What a device has said once it has queued more.                         *)
Told(said, m, n, box, new) ==
    [j \in 1..n |-> IF j <= m THEN said[j] ELSE new[Place(m, box, j)].changes]

(* Whatever a device queues it recalls.                                    *)
LEMMA EditsAreRecalled ==
    ASSUME Typed, Pinned, NEW d \in Devices, Edits(d),
           NEW said, Recalls(d, minted[d], outbox[d], receipts, said)
    PROVE  Recalls(d, minted'[d], outbox'[d], receipts,
                   Told(said, minted[d], minted'[d], outbox[d], outbox'[d]))
<1>1. PICK m, n, box, new, rcpts : /\ m = minted[d] /\ n = minted'[d] /\ box = outbox[d]
                                   /\ new = outbox'[d] /\ rcpts = receipts
  OBVIOUS
<1>2. /\ m \in Nat /\ IsOutbox(d, m, box) /\ Extends(d, m, box, n, new)
      /\ Recalls(d, m, box, rcpts, said)
  BY <1>1 DEF Typed, DeviceTyped, Edits
<1>3. PICK told : told = Told(said, m, n, box, new)
  OBVIOUS
<1>4. /\ n \in Nat /\ m <= n /\ \A p \in DOMAIN box : new[p] = box[p]
      /\ \A j \in (m + 1)..n : /\ Place(m, box, j) \in DOMAIN new \ DOMAIN box
                               /\ new[Place(m, box, j)].id = <<d, j>>
      /\ \A p \in DOMAIN new \ DOMAIN box : \E j \in (m + 1)..n : p = Place(m, box, j)
  <2>1. Placed(d, m, box, n, new)
    BY <1>2, NewPlaces
  <2> QED
    BY <2>1 DEF Placed
<1>5. /\ DOMAIN told = 1..n /\ \A j \in 1..m : told[j] = said[j]
      /\ \A j \in (m + 1)..n : told[j] = new[Place(m, box, j)].changes
  BY <1>2, <1>3, <1>4 DEF Told
<1>6. \A p \in DOMAIN new : told[new[p].id[2]] = new[p].changes
  <2>1. ASSUME NEW p \in DOMAIN box PROVE told[new[p].id[2]] = new[p].changes
    <3>1. \E j \in 1..m : box[p].id = <<d, j>>
      BY <1>2 DEF IsOutbox, IsMutation
    <3>2. box[p].id[2] \in 1..m /\ said[box[p].id[2]] = box[p].changes
      BY <1>2, <3>1 DEF Recalls
    <3> QED
      BY <1>4, <1>5, <3>2
  <2>2. ASSUME NEW p \in DOMAIN new \ DOMAIN box PROVE told[new[p].id[2]] = new[p].changes
    <3>1. PICK j \in (m + 1)..n : p = Place(m, box, j)
      BY <1>4
    <3>2. new[p].id[2] = j
      BY <1>4, <3>1
    <3> QED
      BY <1>5, <3>1, <3>2
  <2> QED
    BY <2>1, <2>2
<1>7. ASSUME NEW j \in 1..n, <<d, j>> \in DOMAIN rcpts PROVE rcpts[<<d, j>>].payload = told[j]
  <2>1. CASE j \in 1..m
    BY <1>2, <1>5, <1>7, <2>1 DEF Recalls
  <2>2. CASE j \notin 1..m
    <3>1. j \in (m + 1)..n
      BY <1>2, <1>4, <2>2
    <3>2. PICK p \in DOMAIN new \ DOMAIN box : new[p].id = <<d, j>>
      BY <1>4, <3>1
    <3>3. new[p].id \notin DOMAIN rcpts
      BY <1>1, <3>2, NewIdsAreUnknown
    <3> QED
      BY <1>7, <3>2, <3>3
  <2> QED
    BY <2>1, <2>2
<1>8. Recalls(d, n, new, rcpts, told)
  BY <1>5, <1>6, <1>7 DEF Recalls
<1> QED
  BY <1>1, <1>3, <1>8

(* Whatever a device queues, it deletes an entry with the copies it knows. *)
LEMMA EditsAreObservant ==
    ASSUME Typed, Pinned, PendingShown, Agreed, NEW d \in Devices, Edits(d),
           Accounted(d, minted[d], outbox[d], log, state[d].cursor), Gapless(d, log),
           NEW said, Recalls(d, minted[d], outbox[d], receipts, said),
           Observant(d, receipts, log, said),
           Buries(local[d], local'[d], outbox[d], outbox'[d])
    PROVE  Observant(d, receipts, log,
                     Told(said, minted[d], minted'[d], outbox[d], outbox'[d]))
<1>1. PICK m, n, box, new, c, after :
        /\ m = minted[d] /\ n = minted'[d] /\ box = outbox[d]
        /\ new = outbox'[d] /\ c = local[d] /\ after = local'[d]
  OBVIOUS
<1>2. /\ m \in Nat /\ IsOutbox(d, m, box) /\ Extends(d, m, box, n, new)
      /\ Recalls(d, m, box, receipts, said) /\ Buries(c, after, box, new)
      /\ Adds(box, new, after)
  BY <1>1 DEF Typed, DeviceTyped, Edits
<1>3. PICK told : told = Told(said, m, n, box, new)
  OBVIOUS
<1>4. /\ n \in Nat /\ m <= n
      /\ \A j \in (m + 1)..n : /\ Place(m, box, j) \in DOMAIN new \ DOMAIN box
                               /\ new[Place(m, box, j)].id = <<d, j>>
      /\ \A p \in DOMAIN new \ DOMAIN box : \E j \in (m + 1)..n : p = Place(m, box, j)
      /\ \A i \in (m + 1)..n : \A j \in (m + 1)..n :
            i <= j <=> Place(m, box, i) <= Place(m, box, j)
  <2>1. Placed(d, m, box, n, new)
    BY <1>2, NewPlaces
  <2> QED
    BY <2>1 DEF Placed
<1>5. /\ DOMAIN told = 1..n /\ \A j \in 1..m : told[j] = said[j] /\ j \in DOMAIN said
      /\ \A j \in (m + 1)..n : told[j] = new[Place(m, box, j)].changes
  <2>1. DOMAIN said = 1..m
    BY <1>2 DEF Recalls
  <2>2. DOMAIN told = 1..n /\ \A j \in 1..m : told[j] = said[j]
    BY <1>2, <1>3, <1>4 DEF Told
  <2>3. \A j \in (m + 1)..n : told[j] = new[Place(m, box, j)].changes
    BY <1>2, <1>3, <1>4 DEF Told
  <2> QED
    BY <2>1, <2>2, <2>3
<1> SUFFICES ASSUME NEW j \in 1..n, NEW i \in DOMAIN told[j] \cap Issues, told[j][i].deleted,
                    NEW k, NEW h, LastSaid(told, j, k, h), k \in ActiveCopies(told[h], i)
             PROVE  Foreign(d, k, log, IF <<d, j>> \in DOMAIN receipts
                                       THEN receipts[<<d, j>>].revision ELSE Len(log))
  BY <1>1, <1>3, <1>5 DEF Observant
<1>6. /\ h \in 1..j /\ k \in DOMAIN told[h] /\ k \in Copies
      /\ \A g \in (h + 1)..j : k \notin DOMAIN told[g]
  BY DEF LastSaid, ActiveCopies, CopiesOf
<1>7. CASE j \in 1..m
  <2>1. told[j] = said[j] /\ told[h] = said[h] /\ j \in DOMAIN said
    BY <1>2, <1>5, <1>6, <1>7
  <2>2. \A g \in (h + 1)..j : told[g] = said[g]
    BY <1>2, <1>5, <1>6, <1>7
  <2>3. LastSaid(said, j, k, h)
    BY <1>6, <2>1, <2>2 DEF LastSaid
  <2> QED
    BY <2>1, <2>3 DEF Observant
<1>8. CASE j \notin 1..m
  <2>1. j \in (m + 1)..n
    BY <1>2, <1>4, <1>8
  <2>2. PICK p : /\ p = Place(m, box, j) /\ p \in DOMAIN new \ DOMAIN box
                 /\ new[p].id = <<d, j>> /\ told[j] = new[p].changes
    BY <1>4, <1>5, <2>1
  <2>3. <<d, j>> \notin DOMAIN receipts
    BY <1>1, <2>2, NewIdsAreUnknown
  <2>4. /\ ActiveCopies(after, i) = {}
        /\ \A key \in DOMAIN c \cap Copies :
             \/ key \in DOMAIN after /\ after[key] = c[key]
             \/ \E q \in DOMAIN new \ DOMAIN box : q <= p /\ key \in DOMAIN new[q].changes
    BY <1>2, <2>2 DEF Buries
  <2>5. k \in DOMAIN after /\ after[k] = told[h][k] => FALSE
    BY <1>6, <2>4 DEF ActiveCopies, CopiesOf
  <2>6. CASE h \in 1..m
    <3>1. told[h] = said[h] /\ \A g \in (h + 1)..m : told[g] = said[g] /\ g \in (h + 1)..j
      BY <1>2, <1>4, <1>5, <2>1, <2>6
    <3>2. LastSaid(said, m, k, h)
      BY <1>6, <2>6, <3>1 DEF LastSaid
    <3>3. (k \in DOMAIN c /\ c[k] = said[h][k]) \/ Foreign(d, k, log, Len(log))
      BY <1>1, <1>6, <3>2, ShelfAsSaid
    <3>4. ASSUME NEW q \in DOMAIN new \ DOMAIN box, q <= p, k \in DOMAIN new[q].changes
          PROVE  FALSE
      <4>1. PICK g \in (m + 1)..n : q = Place(m, box, g)
        BY <1>4
      <4>2. g <= j /\ told[g] = new[q].changes
        BY <1>4, <1>5, <2>1, <2>2, <3>4, <4>1
      <4>3. g \in (h + 1)..j
        BY <1>2, <1>4, <2>1, <2>6, <4>1, <4>2
      <4> QED
        BY <1>6, <3>4, <4>2, <4>3
    <3> QED
      BY <1>6, <2>3, <2>4, <2>5, <3>1, <3>3, <3>4
  <2>7. CASE h \notin 1..m
    <3>1. h \in (m + 1)..n
      BY <1>2, <1>4, <1>6, <2>1, <2>7
    <3>2. PartOf(told[h], after)
      BY <1>2, <1>4, <1>5, <3>1 DEF Adds
    <3> QED
      BY <1>6, <2>5, <3>2 DEF PartOf
  <2> QED
    BY <2>6, <2>7
<1> QED
  BY <1>7, <1>8

(* A step of one device that leaves the server alone.                      *)
LEMMA ObservingStep ==
    ASSUME Observing, NEW d \in Devices, UNCHANGED <<log, receipts>>,
           OthersKept(d, local', local), OthersKept(d, outbox', outbox),
           OthersKept(d, minted', minted), OthersKept(d, state', state), ObservantAt(d)'
    PROVE  Observing'
<1>1. ASSUME NEW e \in Devices, e # d PROVE ObservantAt(e)'
  <2>1. /\ outbox'[e] = outbox[e] /\ minted'[e] = minted[e] /\ local'[e] = local[e]
        /\ state'[e] = state[e] /\ ObservantAt(e)
    BY <1>1 DEF OthersKept, Observing
  <2>2. PICK box, m, c, s, l, rcpts :
          /\ box = outbox[e] /\ m = minted[e] /\ c = local[e] /\ s = state[e]
          /\ l = log /\ rcpts = receipts
    OBVIOUS
  <2>3. /\ Accounted(e, m, box, l, s.cursor) /\ Gapless(e, l) /\ (s.cursor = 0 => Bare(c))
        /\ \E said : Recalls(e, m, box, rcpts, said) /\ Observant(e, rcpts, l, said)
    BY <2>1, <2>2 DEF ObservantAt
  <2>4. /\ outbox'[e] = box /\ minted'[e] = m /\ local'[e] = c /\ state'[e] = s
        /\ log' = l /\ receipts' = rcpts
    BY <2>1, <2>2
  <2> QED
    BY <2>3, <2>4 DEF ObservantAt
<1> QED
  BY <1>1 DEF Observing

(* A device that adds to its queue stays observant, when what it adds      *)
(* buries what it deletes.                                                 *)
LEMMA EditsKeepObserving ==
    ASSUME Typed, Pinned, PendingShown, Agreed, Observing, NEW d \in Devices, Edits(d),
           OthersKept(d, state', state), state'[d].cursor = state[d].cursor,
           Buries(local[d], local'[d], outbox[d], outbox'[d]),
           state[d].cursor = 0 /\ Bare(local[d]) => Bare(local'[d])
    PROVE  Observing'
<1>1. /\ Accounted(d, minted[d], outbox[d], log, state[d].cursor) /\ Gapless(d, log)
      /\ state[d].cursor = 0 => Bare(local[d])
      /\ \E said : /\ Recalls(d, minted[d], outbox[d], receipts, said)
                   /\ Observant(d, receipts, log, said)
  BY DEF Observing, ObservantAt
<1>2. PICK m, n, box, new, cursor, l, rcpts :
        /\ m = minted[d] /\ n = minted'[d] /\ box = outbox[d] /\ new = outbox'[d]
        /\ cursor = state[d].cursor /\ l = log /\ rcpts = receipts
  OBVIOUS
<1>3. /\ m \in Nat /\ IsOutbox(d, m, box) /\ Extends(d, m, box, n, new)
      /\ log' = l /\ receipts' = rcpts
  BY <1>2 DEF Typed, DeviceTyped, Edits, serverVars
<1>4. Accounted(d, n, new, l, cursor)
  <2>1. Ids(new) = Ids(box) \cup {<<d, k>> : k \in (m + 1)..n}
    BY <1>3, ExtendedOutbox
  <2>2. n \in Nat
    BY <1>3 DEF Extends
  <2> SUFFICES ASSUME NEW j \in 1..n
               PROVE  <<d, j>> \in Ids(new) \/ \E r \in 1..cursor : l[r].mutation = <<d, j>>
    BY DEF Accounted
  <2>3. j \in 1..m \/ j \in (m + 1)..n
    BY <1>3, <2>2
  <2> QED
    BY <1>1, <1>2, <2>1, <2>3 DEF Accounted
<1>5. PICK told : Recalls(d, n, new, rcpts, told) /\ Observant(d, rcpts, l, told)
  <2>1. PICK said : /\ Recalls(d, minted[d], outbox[d], receipts, said)
                    /\ Observant(d, receipts, log, said)
    BY <1>1
  <2>2. PICK told : told = Told(said, m, n, box, new)
    OBVIOUS
  <2>3. Recalls(d, n, new, rcpts, told)
    BY <1>2, <2>1, <2>2, EditsAreRecalled
  <2>4. Observant(d, rcpts, l, told)
    BY <1>1, <1>2, <2>1, <2>2, EditsAreObservant
  <2> QED
    BY <2>3, <2>4
<1>6. ObservantAt(d)'
  <2>1. /\ minted'[d] = n /\ outbox'[d] = new /\ state'[d].cursor = cursor
        /\ log' = l /\ receipts' = rcpts
    BY <1>2, <1>3
  <2>2. Gapless(d, l) /\ (cursor = 0 => Bare(local'[d]))
    BY <1>1, <1>2
  <2> QED
    BY <1>4, <1>5, <2>1, <2>2 DEF ObservantAt
<1> QED
  BY <1>6, ObservingStep DEF Edits, serverVars

(* A user's writes do.                                                     *)
LEMMA UserWriteKeepsObserving ==
    ASSUME Typed, Pinned, PendingShown, Agreed, Observing, NEW d \in Devices, UserWrite(d)
    PROVE  Observing'
<1>1. Edits(d) /\ state' = state
  BY UserWriteEdits
<1>2. OthersKept(d, state', state) /\ state'[d].cursor = state[d].cursor
  BY <1>1, KeptAtDevice DEF Typed, Domains
<1>3. /\ Buries(local[d], local'[d], outbox[d], outbox'[d])
      /\ Bare(local[d]) => Bare(local'[d])
  BY UserWriteBuries
<1> QED
  BY <1>1, <1>2, <1>3, EditsKeepObserving

(* The collection is staged only before the device has any history, while  *)
(* no deleted entry has a copy on the shelf.                               *)
LEMMA PrepareKeepsObserving ==
    ASSUME Typed, Pinned, PendingShown, Agreed, Observing, NEW d \in Devices, Prepare(d)
    PROVE  Observing'
<1>1. /\ Edits(d) /\ OthersKept(d, state', state) /\ state'[d].cursor = state[d].cursor
  BY PrepareEdits
<1>2. local' = local
  BY DEF Prepare
<1>3. Buries(local[d], local'[d], outbox[d], outbox'[d])
  <2>1. CASE state[d].cursor = 0
    <3>1. Bare(local[d])
      BY <2>1 DEF Observing, ObservantAt
    <3>2. PICK c, box, new : c = local[d] /\ box = outbox[d] /\ new = outbox'[d]
      OBVIOUS
    <3>3. Bare(c) /\ Adds(box, new, c) /\ local'[d] = c
      BY <1>1, <1>2, <3>1, <3>2 DEF Edits
    <3>4. Buries(c, c, box, new)
      BY <3>3 DEF Buries, Adds, PartOf, Bare
    <3> QED
      BY <3>2, <3>3, <3>4
  <2>2. CASE state[d].cursor # 0
    <3>1. state[d].seeded
      BY <2>2 DEF Agreed, AgreedAt
    <3>2. outbox'[d] = outbox[d]
      BY <2>2, <3>1 DEF Prepare, Typed, Domains, ByDevice
    <3> QED
      BY <3>2 DEF Buries
  <2> QED
    BY <2>1, <2>2
<1> QED
  BY <1>1, <1>2, <1>3, EditsKeepObserving

(* Giving an exchange up, or rejecting its answer.                         *)
LEMMA EndedKeepsObserving ==
    ASSUME Observing, NEW d \in Devices, GiveUp(d) \/ Reject(d)
    PROVE  Observing'
<1>1. UNCHANGED <<log, receipts, local, outbox, minted, state>>
  BY DEF GiveUp, Reject, serverVars, deviceVars
<1> QED
  BY <1>1 DEF Observing, ObservantAt

(* An empty page leaves the rows as they are.                              *)
LEMMA EmptyPage ==
    ASSUME NEW d, NEW box, NEW page, Sequence(page.groups), Len(page.groups) = 0
    PROVE  LET rows == ApplyGroups(d, box, page).rows IN
           DOMAIN rows = DOMAIN local[d] /\ \A k \in DOMAIN rows : rows[k] = local[d][k]
<1> DEFINE base == [rows |-> local[d], versions |-> versions[d], issues |-> {}]
           done == FoldLeft(ApplyGroup, base, Pages(box, page))
<1>1. ApplyGroups(d, box, page).rows = RecomputeFlags(done.rows, done.issues)
  BY DEF ApplyGroups, Pages
<1>2. done = base
  <2>1. PICK b : b = base
    OBVIOUS
  <2>2. FoldLeft(ApplyGroup, b, Pages(box, page)) = AppliedUpTo(b, box, page, Len(page.groups))
    BY AppliedAll
  <2>3. AppliedUpTo(b, box, page, 0) = b
    BY AppliedNone
  <2> QED
    BY <2>1, <2>2, <2>3
<1> HIDE DEF done
<1>3. done.rows = local[d] /\ done.issues = {}
  BY <1>2
<1> QED
  BY <1>1, <1>3 DEF RecomputeFlags, Overlay

(* Applying a page keeps a device observant.                               *)
LEMMA ApplyKeepsObserving ==
    ASSUME CopiesHaveHomes, Typed, Pinned, Agreed, Observing, NEW d \in Devices, Apply(d)
    PROVE  Observing'
<1>1. /\ OthersKept(d, local', local) /\ OthersKept(d, outbox', outbox)
      /\ OthersKept(d, state', state) /\ UNCHANGED <<log, receipts, minted>>
  BY ApplyIsTransaction DEF serverVars
<1>2. OthersKept(d, minted', minted)
  BY <1>1, KeptAtDevice DEF Typed, Domains
<1>3. /\ Accounted(d, minted[d], outbox[d], log, state[d].cursor) /\ Gapless(d, log)
      /\ state[d].cursor = 0 => Bare(local[d])
      /\ \E said : /\ Recalls(d, minted[d], outbox[d], receipts, said)
                   /\ Observant(d, receipts, log, said)
  BY DEF Observing, ObservantAt
<1>4. PICK m, box, new, cursor, next, l, rcpts :
        /\ m = minted[d] /\ box = outbox[d] /\ new = outbox'[d] /\ cursor = state[d].cursor
        /\ next = response[d].nextCursor /\ l = log /\ rcpts = receipts
  OBVIOUS
<1>5. /\ next \in cursor..Len(l) /\ state'[d].cursor = next
      /\ Ids(new) = Ids(box) \ {l[r].mutation : r \in 1..next}
  BY <1>4, AppliedOutbox
<1>6. cursor \in Nat /\ Len(l) \in Nat
  BY <1>4, LogIndices DEF Typed, DeviceTyped, StateTyped
<1>7. Accounted(d, m, new, l, next)
  <2> SUFFICES ASSUME NEW j \in 1..m
               PROVE  <<d, j>> \in Ids(new) \/ \E r \in 1..next : l[r].mutation = <<d, j>>
    BY DEF Accounted
  <2>1. <<d, j>> \in Ids(box) \/ \E r \in 1..cursor : l[r].mutation = <<d, j>>
    BY <1>3, <1>4 DEF Accounted
  <2>2. 1..cursor \subseteq 1..next
    BY <1>5, <1>6
  <2> QED
    BY <1>5, <2>1, <2>2
<1>8. \A j \in DOMAIN new : \E n \in DOMAIN box :
         new[j].id = box[n].id /\ new[j].changes = box[n].changes
  <2>1. \A j \in DOMAIN outbox'[d] : \E n \in DOMAIN outbox[d] :
           /\ outbox'[d][j].id = outbox[d][n].id
           /\ outbox'[d][j].changes = outbox[d][n].changes
    BY PageBringsDevice
  <2> QED
    BY <1>4, <2>1
<1>9. \A said : Recalls(d, m, box, rcpts, said) => Recalls(d, m, new, rcpts, said)
  BY <1>8 DEF Recalls
<1>10. ASSUME next = 0 PROVE Bare(local'[d])
  <2>1. PICK page, old, c, after : /\ page = response[d] /\ c = local[d] /\ after = local'[d]
                                   /\ old = Acknowledged(outbox[d], page)
    OBVIOUS
  <2>2. after = ApplyGroups(d, old, page).rows /\ PageTyped(page)
    BY <2>1, ApplyIsTransaction
  <2>3. Sequence(page.groups) /\ Len(page.groups) = 0 /\ cursor = 0
    <3>1. PICK w : w = page.groups /\ Sequence(w)
      BY <2>2 DEF PageTyped
    <3>2. Len(w) \in Nat /\ page.nextCursor = page.cursor + Len(w) /\ page.cursor = cursor
      BY <1>4, <2>1, <3>1, AcceptedPage
    <3>3. PICK a, b : a = page.cursor /\ b = page.nextCursor
      OBVIOUS
    <3>4. a = cursor /\ b = 0 /\ b = a + Len(w)
      BY <1>4, <1>10, <2>1, <3>2, <3>3
    <3>5. a = 0 /\ Len(w) = 0
      BY <1>6, <3>2, <3>4
    <3> QED
      BY <3>1, <3>4, <3>5
  <2>4. DOMAIN after = DOMAIN c /\ \A k \in DOMAIN after : after[k] = c[k]
    <3>1. LET rows == ApplyGroups(d, old, page).rows IN
          DOMAIN rows = DOMAIN local[d] /\ \A k \in DOMAIN rows : rows[k] = local[d][k]
      BY <2>3, EmptyPage
    <3> QED
      BY <2>1, <2>2, <3>1
  <2>5. Bare(c)
    BY <1>3, <1>4, <2>1, <2>3
  <2>6. \A i : ActiveCopies(after, i) = ActiveCopies(c, i)
    BY <2>4 DEF ActiveCopies, CopiesOf
  <2>7. Bare(after)
    BY <2>4, <2>5, <2>6 DEF Bare
  <2> QED
    BY <2>1, <2>7
<1>11. ObservantAt(d)'
  <2>1. /\ minted'[d] = m /\ outbox'[d] = new /\ state'[d].cursor = next
        /\ log' = l /\ receipts' = rcpts
    BY <1>1, <1>4, <1>5
  <2>2. /\ Gapless(d, l)
        /\ \E said : Recalls(d, m, new, rcpts, said) /\ Observant(d, rcpts, l, said)
    BY <1>3, <1>4, <1>9
  <2> QED
    BY <1>7, <1>10, <2>1, <2>2 DEF ObservantAt
<1> QED
  BY <1>1, <1>2, <1>11, ObservingStep

(* A commit leaves no gap in a device's part of the log.                   *)
LEMMA CommitLeavesNoGap ==
    ASSUME Typed, Pinned, Typed', Pinned', Ordered', Grows,
           UNCHANGED <<outbox, minted, state>>, NEW d \in Devices,
           Accounted(d, minted[d], outbox[d], log, state[d].cursor), Gapless(d, log)
    PROVE  Gapless(d, log')
<1>1. PICK m, box, cursor, old, l :
        /\ m = minted[d] /\ box = outbox[d] /\ cursor = state[d].cursor
        /\ old = log /\ l = log'
  OBVIOUS
<1>2. /\ minted'[d] = m /\ outbox'[d] = box /\ state'[d].cursor = cursor
  BY <1>1
<1>3. /\ Len(old) \in Nat /\ DOMAIN old = 1..Len(old) /\ Len(l) \in Nat /\ DOMAIN l = 1..Len(l)
      /\ cursor \in Nat /\ m \in Nat /\ cursor <= Len(old) /\ Len(old) <= Len(l)
      /\ \A r \in DOMAIN old : l[r] = old[r]
  <2>1. Len(old) \in Nat /\ DOMAIN old = 1..Len(old)
    BY <1>1, LogIndices DEF Typed
  <2>2. HistorySound'
    BY DEF Typed
  <2>3. Len(l) \in Nat /\ DOMAIN l = 1..Len(l)
    BY <1>1, <2>2, LogShape DEF HistorySound
  <2>4. Len(old) <= Len(l) /\ \A r \in 1..Len(old) : l[r] = old[r]
    BY <1>1 DEF Grows, Continues
  <2>5. cursor \in Nat /\ m \in Nat /\ cursor <= Len(old)
    BY <1>1 DEF Typed, DeviceTyped, StateTyped, Pinned, PinnedAt, PastIsGone
  <2> QED
    BY <2>1, <2>3, <2>4, <2>5
<1>4. /\ QueueOrder(box, l) /\ \A r \in 1..cursor : l[r].mutation \notin Ids(box)
      /\ \A r \in DOMAIN l : \A s \in DOMAIN l : l[r].mutation = l[s].mutation => r = s
  BY <1>1, <1>2 DEF Ordered, OrderedAt, Pinned, PinnedAt, PastIsGone, Typed, HistorySound,
                    RecordedOnce
<1>5. \A r \in DOMAIN l : \E e \in Devices : \E k \in 1..minted[e] : l[r].mutation = <<e, k>>
  BY <1>1 DEF Pinned, Generated
<1> SUFFICES ASSUME NEW r \in DOMAIN l, NEW j \in Nat, l[r].mutation = <<d, j>>,
                    NEW g \in 1..(j - 1)
             PROVE  \E s \in 1..(r - 1) : l[s].mutation = <<d, g>>
  BY <1>1 DEF Gapless
<1>6. j \in 1..m /\ g \in 1..m /\ g < j
  <2>1. PICK e \in Devices : \E k \in 1..minted[e] : l[r].mutation = <<e, k>>
    BY <1>5
  <2>2. j \in 1..m
    BY <1>1, <2>1
  <2> QED
    BY <1>3, <2>2
<1>7. \A i \in 1..m : <<d, i>> \in Ids(box) \/ \E t \in 1..cursor : l[t].mutation = <<d, i>>
  <2>1. \A i \in 1..m : <<d, i>> \in Ids(box) \/ \E t \in 1..cursor : old[t].mutation = <<d, i>>
    BY <1>1 DEF Accounted
  <2>2. \A t \in 1..cursor : l[t] = old[t]
    BY <1>3
  <2> QED
    BY <2>1, <2>2
<1>8. CASE r <= cursor
  <2>1. r \in DOMAIN old /\ old[r].mutation = <<d, j>>
    BY <1>3, <1>8
  <2>2. PICK s \in 1..(r - 1) : old[s].mutation = <<d, g>>
    BY <1>1, <2>1 DEF Gapless
  <2>3. s \in DOMAIN old
    BY <1>3, <2>1, <2>2
  <2> QED
    BY <1>3, <2>2, <2>3
<1>9. CASE cursor < r
  <2>1. <<d, j>> \in Ids(box)
    <3>1. ASSUME NEW t \in 1..cursor, l[t].mutation = <<d, j>> PROVE FALSE
      <4>1. t \in DOMAIN l
        BY <1>3, <3>1
      <4>2. t = r
        BY <1>4, <3>1, <4>1
      <4> QED
        BY <1>3, <1>9, <4>2
    <3> QED
      BY <1>6, <1>7, <3>1
  <2>2. CASE <<d, g>> \in Ids(box)
    <3>1. <<d, g>>[2] < <<d, j>>[2]
      BY <1>6
    <3> QED
      BY <1>4, <2>1, <2>2, <3>1 DEF QueueOrder
  <2>3. CASE \E t \in 1..cursor : l[t].mutation = <<d, g>>
    <3>1. \A t \in 1..cursor : t \in 1..(r - 1)
      BY <1>3, <1>9
    <3> QED
      BY <2>3, <3>1
  <2> QED
    BY <1>6, <1>7, <2>2, <2>3
<1> QED
  BY <1>3, <1>8, <1>9, SMTT(30)

(* What another device has told of remains told.                           *)
LEMMA ForeignStays ==
    ASSUME NEW d, NEW k, NEW l, NEW n \in Nat, Foreign(d, k, l, n),
           NEW new, \A r \in 1..n : new[r] = l[r], NEW p \in Nat, n <= p
    PROVE  Foreign(d, k, new, p)
<1>1. PICK s \in 1..n : k \in DOMAIN l[s].changes /\ l[s].mutation[1] # d
  BY DEF Foreign
<1>2. s \in 1..p
  OBVIOUS
<1> QED
  BY <1>1, <1>2 DEF Foreign

(* What a commit records, the device recalls and has observed.             *)
LEMMA CommitIsObserved ==
    ASSUME Typed, Pinned, Typed', Agreed', Grows, UNCHANGED <<outbox, minted, state>>,
           NEW d \in Devices,
           Accounted(d, minted[d], outbox[d], log, state[d].cursor),
           NEW said, Recalls(d, minted[d], outbox[d], receipts, said),
           Observant(d, receipts, log, said)
    PROVE  /\ Recalls(d, minted[d], outbox[d], receipts', said)
           /\ Observant(d, receipts', log', said)
<1>1. PICK m, box, cursor, old, l, before, rcpts :
        /\ m = minted[d] /\ box = outbox[d] /\ cursor = state[d].cursor
        /\ old = log /\ l = log' /\ before = receipts /\ rcpts = receipts'
  OBVIOUS
<1>2. /\ Len(old) \in Nat /\ DOMAIN old = 1..Len(old) /\ Len(l) \in Nat
      /\ Len(old) <= Len(l) /\ \A r \in 1..Len(old) : l[r] = old[r]
  <2>1. Len(old) \in Nat /\ DOMAIN old = 1..Len(old)
    BY <1>1, LogIndices DEF Typed
  <2>2. HistorySound'
    BY DEF Typed
  <2>3. Len(l) \in Nat
    BY <1>1, <2>2, LogShape DEF HistorySound
  <2> QED
    BY <1>1, <2>1, <2>3 DEF Grows, Continues
<1>3. /\ \A i \in DOMAIN before : i \in DOMAIN rcpts /\ rcpts[i] = before[i]
      /\ \A i \in DOMAIN rcpts \ DOMAIN before : rcpts[i].revision \in Len(old) + 1..Len(l)
  BY <1>1 DEF Grows
<1>4. \A i \in DOMAIN before : before[i].revision \in 1..Len(old)
  BY <1>1, <1>2 DEF Typed, HistorySound, ReceiptsMatchLog
<1>5. /\ DOMAIN said = 1..m /\ \A n \in DOMAIN box : said[box[n].id[2]] = box[n].changes
      /\ \A j \in 1..m : <<d, j>> \in DOMAIN before => before[<<d, j>>].payload = said[j]
  BY <1>1 DEF Recalls
<1>6. \A n \in DOMAIN box : box[n].id \in DOMAIN rcpts => rcpts[box[n].id].payload = box[n].changes
  BY <1>1 DEF Agreed, AgreedAt, SentAs
<1>7. ASSUME NEW j \in 1..m, <<d, j>> \in DOMAIN rcpts PROVE rcpts[<<d, j>>].payload = said[j]
  <2>1. CASE <<d, j>> \in DOMAIN before
    BY <1>3, <1>5, <2>1
  <2>2. CASE <<d, j>> \notin DOMAIN before
    <3>1. ASSUME NEW r \in 1..cursor, old[r].mutation = <<d, j>> PROVE FALSE
      <4>1. r \in DOMAIN old
        BY <1>1, <1>2, <3>1 DEF Pinned, PinnedAt, PastIsGone, Typed, DeviceTyped, StateTyped
      <4> QED
        BY <1>1, <2>2, <3>1, <4>1 DEF Pinned
    <3>2. PICK n \in DOMAIN box : box[n].id = <<d, j>>
      BY <1>1, <3>1 DEF Accounted, Ids
    <3> QED
      BY <1>5, <1>6, <1>7, <3>2
  <2> QED
    BY <2>1, <2>2
<1>8. Recalls(d, m, box, rcpts, said)
  BY <1>5, <1>7 DEF Recalls
<1>9. Observant(d, rcpts, l, said)
  <2> SUFFICES ASSUME NEW j \in DOMAIN said, NEW i \in DOMAIN said[j] \cap Issues,
                      said[j][i].deleted, NEW k, NEW h, LastSaid(said, j, k, h),
                      k \in ActiveCopies(said[h], i)
               PROVE  Foreign(d, k, l, IF <<d, j>> \in DOMAIN rcpts
                                       THEN rcpts[<<d, j>>].revision ELSE Len(l))
    BY DEF Observant
  <2>1. Foreign(d, k, old, IF <<d, j>> \in DOMAIN before
                           THEN before[<<d, j>>].revision ELSE Len(old))
    BY <1>1 DEF Observant
  <2>2. CASE <<d, j>> \in DOMAIN before
    <3>1. PICK n \in 1..Len(old) : n = before[<<d, j>>].revision /\ n \in Nat
      BY <1>2, <1>4, <2>2
    <3>2. Foreign(d, k, old, n) /\ \A r \in 1..n : l[r] = old[r]
      BY <1>2, <2>1, <2>2, <3>1, SMTT(30)
    <3>3. Foreign(d, k, l, n)
      BY <3>1, <3>2 DEF Foreign
    <3>4. <<d, j>> \in DOMAIN rcpts /\ rcpts[<<d, j>>].revision = n
      BY <1>3, <2>2, <3>1
    <3> QED
      BY <3>3, <3>4
  <2>3. CASE <<d, j>> \notin DOMAIN before
    <3>1. PICK n, p : /\ n = Len(old) /\ n \in Nat /\ p \in Nat /\ n <= p
                      /\ p = IF <<d, j>> \in DOMAIN rcpts
                             THEN rcpts[<<d, j>>].revision ELSE Len(l)
      BY <1>2, <1>3, <2>3
    <3>2. Foreign(d, k, old, n) /\ \A r \in 1..n : l[r] = old[r]
      BY <1>2, <2>1, <2>3, <3>1
    <3>3. Foreign(d, k, l, p)
      BY <3>1, <3>2, ForeignStays
    <3> QED
      BY <3>1, <3>3
  <2> QED
    BY <2>2, <2>3
<1> QED
  BY <1>1, <1>8, <1>9

(* Whatever the server records, its devices stay observant.                *)
LEMMA CommitKeepsObserving ==
    ASSUME Typed, Pinned, Observing, Typed', Pinned', Ordered', Agreed', Grows,
           UNCHANGED <<local, outbox, minted, state>>
    PROVE  Observing'
<1> SUFFICES ASSUME NEW d \in Devices PROVE ObservantAt(d)'
  BY DEF Observing
<1>1. /\ Accounted(d, minted[d], outbox[d], log, state[d].cursor) /\ Gapless(d, log)
      /\ state[d].cursor = 0 => Bare(local[d])
  BY DEF Observing, ObservantAt
<1>2. PICK said : /\ Recalls(d, minted[d], outbox[d], receipts, said)
                  /\ Observant(d, receipts, log, said)
  BY DEF Observing, ObservantAt
<1>3. Gapless(d, log')
  BY <1>1, CommitLeavesNoGap
<1>4. PICK m, box, c, s, old, l, rcpts :
        /\ m = minted[d] /\ box = outbox[d] /\ c = local[d] /\ s = state[d]
        /\ old = log /\ l = log' /\ rcpts = receipts'
  OBVIOUS
<1>5. Recalls(d, m, box, rcpts, said) /\ Observant(d, rcpts, l, said)
  BY <1>1, <1>2, <1>4, CommitIsObserved
<1>6. Accounted(d, m, box, l, s.cursor)
  <2>1. \A r \in 1..s.cursor : l[r] = old[r]
    <3>1. s.cursor <= Len(old) /\ s.cursor \in Nat /\ Len(old) \in Nat
      BY <1>4, LogIndices DEF Pinned, PinnedAt, PastIsGone, Typed, DeviceTyped, StateTyped
    <3>2. \A r \in 1..Len(old) : l[r] = old[r]
      BY <1>4 DEF Grows, Continues
    <3> QED
      BY <3>1, <3>2
  <2> QED
    BY <1>1, <1>4, <2>1 DEF Accounted
<1>7. /\ minted'[d] = m /\ outbox'[d] = box /\ local'[d] = c /\ state'[d] = s
      /\ log' = l /\ receipts' = rcpts
  BY <1>4
<1>8. Gapless(d, l) /\ (s.cursor = 0 => Bare(c))
  BY <1>1, <1>3, <1>4
<1> QED
  BY <1>5, <1>6, <1>7, <1>8 DEF ObservantAt

(* Serving a request, in time or late.                                     *)
LEMMA ServingKeepsObserving ==
    ASSUME Typed, Pinned, Observing, Typed', Pinned', Ordered', Agreed', NEW d \in Devices,
           Serve(d) \/ ServeStray(d)
    PROVE  Observing'
<1>1. UNCHANGED <<local, outbox, minted, state>>
  BY DEF Serve, ServeStray, deviceVars
<1>2. (\E req : IsRequest(req) /\ \E n : Commit(req, n)) \/ UNCHANGED <<log, receipts>>
  BY DEF Serve, ServeStray, serverVars, Typed, WireTyped
<1>3. ASSUME NEW req, IsRequest(req), NEW n, Commit(req, n) PROVE Observing'
  <2>1. Grows
    BY <1>3, CommitGrows DEF Typed, HistorySound
  <2> QED
    BY <1>1, <2>1, CommitKeepsObserving
<1>4. CASE UNCHANGED <<log, receipts>>
  BY <1>1, <1>4 DEF Observing, ObservantAt
<1> QED
  BY <1>2, <1>3, <1>4

(* At first nothing is said.                                               *)
LEMMA InitIsObserving ==
    ASSUME Init
    PROVE  Observing
<1> SUFFICES ASSUME NEW d \in Devices PROVE ObservantAt(d)
  BY DEF Observing
<1>1. /\ local[d] = << >> /\ outbox[d] = << >> /\ minted[d] = 0 /\ log = << >>
  BY DEF Init, EmptyDatabase
<1>2. DOMAIN << >> = {}
  BY NoneIsSequence
<1>3. Accounted(d, 0, << >>, << >>, state[d].cursor) /\ Gapless(d, << >>) /\ Bare(<< >>)
  BY <1>2 DEF Accounted, Gapless, Bare
<1>4. Recalls(d, 0, << >>, receipts, << >>) /\ Observant(d, receipts, << >>, << >>)
  BY <1>2 DEF Recalls, Observant
<1> QED
  BY <1>1, <1>3, <1>4 DEF ObservantAt

(* Every step of devices that stay with their server keeps them observant. *)
LEMMA NextKeepsObserving ==
    ASSUME OneServer, CopiesHaveHomes, Typed, Pinned, PendingShown, Agreed, Observing,
           Typed', Pinned', Ordered', Agreed', [Next]_vars
    PROVE  Observing'
<1>1. CASE UNCHANGED vars
  <2>1. UNCHANGED <<log, receipts, local, outbox, minted, state>>
    BY <1>1 DEF vars, serverVars, deviceVars
  <2> QED
    BY <2>1 DEF Observing, ObservantAt
<1>2. ASSUME NEW d \in Devices, UserWrite(d) PROVE Observing'
  BY <1>2, UserWriteKeepsObserving
<1>3. ASSUME NEW d \in Devices, Prepare(d) PROVE Observing'
  BY <1>3, PrepareKeepsObserving
<1>4. ASSUME NEW d \in Devices, Apply(d) PROVE Observing'
  BY <1>4, ApplyKeepsObserving
<1>5. ASSUME NEW d \in Devices, Serve(d) \/ ServeStray(d) PROVE Observing'
  BY <1>5, ServingKeepsObserving
<1>6. ASSUME NEW d \in Devices, GiveUp(d) \/ Reject(d) PROVE Observing'
  BY <1>6, EndedKeepsObserving
<1>7. ASSUME NEW d \in Devices, ConfirmRebind(d) \/ Rebind(d)
      PROVE  FALSE
  BY <1>7, PinnedShape DEF ConfirmRebind, Rebind, NoRebinds, OneServer
<1>8. ASSUME LoseDatabase PROVE FALSE
  BY <1>8, PinnedShape DEF LoseDatabase, OneServer
<1> QED
  BY <1>1, <1>2, <1>3, <1>4, <1>5, <1>6, <1>7, <1>8 DEF Next, Exchange

(* What an observant device deletes loses only to what others tell.        *)
LEMMA ObservingDeletes ==
    ASSUME Typed, Pinned, Observing
    PROVE  DeletionIsObservedRemove
<1> SUFFICES ASSUME NEW r \in DOMAIN log,
                    NEW i \in DOMAIN receipts[log[r].mutation].payload \cap Issues,
                    receipts[log[r].mutation].payload[i].deleted, ~log[r].changes[i].deleted
             PROVE  \E k \in ActiveCopies(EntitiesAt(r), i) : \E s \in 1..r :
                      k \in DOMAIN log[s].changes
                      /\ log[s].mutation[1] # log[r].mutation[1]
  BY DEF DeletionIsObservedRemove
<1>1. HistorySound /\ log[r].mutation \in DOMAIN receipts /\ r \in Nat
  BY LogIndices DEF Typed, Pinned
<1>2. PICK d \in Devices : \E j \in 1..minted[d] : log[r].mutation = <<d, j>>
  BY <1>1 DEF Pinned, Generated
<1>3. PICK j \in 1..minted[d] : log[r].mutation = <<d, j>>
  BY <1>2
<1>4. Gapless(d, log) /\ DeviceTyped(d)
  BY DEF Observing, ObservantAt, Typed
<1>5. PICK said : /\ Recalls(d, minted[d], outbox[d], receipts, said)
                  /\ Observant(d, receipts, log, said)
  BY DEF Observing, ObservantAt
<1>6. /\ receipts[<<d, j>>].payload = said[j] /\ j \in DOMAIN said
      /\ receipts[<<d, j>>].revision = r
  <2>1. receipts[log[r].mutation].revision = r
    BY <1>1 DEF HistorySound, ReceiptsMatchLog, RecordedOnce
  <2> QED
    BY <1>1, <1>3, <1>5, <2>1 DEF Recalls
<1>7. PICK k : k \in ActiveCopies(EntitiesAt(r), i)
  BY <1>1, LostToCopy
<1>8. PICK held : held = EntitiesAt(r) /\ held = Replayed(log, r)
  BY DEF EntitiesAt
<1>9. k \in DOMAIN held /\ k \in Copies
  BY <1>7, <1>8 DEF ActiveCopies, CopiesOf
<1>10. PICK s : Latest(log, r, k, s) /\ held[k] = log[s].changes[k]
  <2>1. \A key \in DOMAIN Replayed(log, r) : \E s :
           Latest(log, r, key, s) /\ Replayed(log, r)[key] = log[s].changes[key]
    BY <1>1, ReplayedLatest
  <2> QED
    BY <1>8, <1>9, <2>1
<1>11. Foreign(d, k, log, r)
  <2>1. CASE \E h \in 1..j : log[s].mutation = <<d, h>> /\ LastSaid(said, j, k, h)
    <3>1. PICK h \in 1..j : log[s].mutation = <<d, h>> /\ LastSaid(said, j, k, h)
      BY <2>1
    <3>2. s \in DOMAIN log /\ h \in 1..minted[d] /\ minted[d] \in Nat
      BY <1>1, <1>4, <1>10, <3>1, LogIndices DEF Latest, DeviceTyped
    <3>3. <<d, h>> \in DOMAIN receipts
      BY <3>1, <3>2 DEF Pinned
    <3>4. k \in DOMAIN said[h] /\ log[s].changes[k] = said[h][k]
      <4>1. k \in DOMAIN said[h]
        BY <3>1 DEF LastSaid
      <4> QED
        BY <1>1, <1>5, <1>9, <3>1, <3>2, <3>3, <4>1, RecordedAsSaid
    <3>5. k \in ActiveCopies(said[h], i)
      BY <1>7, <1>8, <1>10, <3>4 DEF ActiveCopies, CopiesOf
    <3>6. i \in DOMAIN said[j] \cap Issues /\ said[j][i].deleted
      BY <1>3, <1>6
    <3> QED
      BY <1>1, <1>3, <1>5, <1>6, <3>1, <3>5, <3>6 DEF Observant
  <2>2. CASE ~(\E h \in 1..j : log[s].mutation = <<d, h>> /\ LastSaid(said, j, k, h))
    BY <1>3, <1>4, <1>5, <1>9, <1>10, <2>2, LatestIsLast
  <2> QED
    BY <2>1, <2>2
<1> QED
  BY <1>3, <1>7, <1>11 DEF Foreign

(* A deletion is an observed remove: an entry its device deletes comes     *)
(* back at the server only with a copy some other device has told of, no   *)
(* matter how the limit on changes splits the deletion, what a full        *)
(* export stages again, and which requests arrive late or twice.           *)
THEOREM DeletionsAreObservedRemoves ==
    FreshIds /\ OneServer /\ CopiesHaveHomes => (Spec => []DeletionIsObservedRemove)
<1> SUFFICES ASSUME FreshIds, OneServer, CopiesHaveHomes
             PROVE  Spec => []DeletionIsObservedRemove
  OBVIOUS
<1> DEFINE All == Typed /\ Pinned /\ Ordered /\ PendingShown /\ Agreed /\ Observing
<1>1. Init => All
  BY InitIsTyped, InitIsPinned, InitIsOrdered, InitIsShown, InitIsAgreed, InitIsObserving
<1>2. All /\ [Next]_vars => All'
  <2> SUFFICES ASSUME All, [Next]_vars PROVE All'
    OBVIOUS
  <2>1. Typed' /\ Pinned'
    BY NextKeepsTyped, NextKeepsPinned
  <2>2. Ordered' /\ PendingShown'
    BY NextKeepsOrdered, NextKeepsShown
  <2>3. Agreed'
    BY NextKeepsAgreed
  <2>4. Observing'
    BY <2>1, <2>2, <2>3, NextKeepsObserving
  <2> QED
    BY <2>1, <2>2, <2>3, <2>4
<1>3. All => DeletionIsObservedRemove
  BY ObservingDeletes
<1> HIDE DEF All
<1> QED
  BY <1>1, <1>2, <1>3, PTL DEF Spec

=============================================================================
