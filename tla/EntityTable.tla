---------------------------- MODULE EntityTable ----------------------------
(***************************************************************************)
(* The server's v2_entities table on its own, under any sequence of        *)
(* acceptable mutations: one step is one canonicalized and recorded        *)
(* mutation (Store._canonicalize_group, then Store._record_group).         *)
(***************************************************************************)
EXTENDS CopyAuthority

VARIABLE entities   \* v2_entities: entity key -> latest snapshot

(* The mutations a device may upload: snapshots of any set of entities.    *)
PartialMaps(S, T) == UNION {[K -> T] : K \in SUBSET S}

Snapshots(I, C, B) ==
    {Overlay(Overlay(e, k), b) : e \in PartialMaps(I, EntryData),
                                 k \in PartialMaps(C, CopyData),
                                 b \in PartialMaps(B, BarcodeData)} \ {<< >>}

InitEntities == entities = << >>

RecordMutation(changes) ==
    /\ ~MovesCopy(entities, changes)
    /\ entities' = RecordedEntities(entities, changes)

NextEntities ==
    \E changes \in Snapshots(Issues, Copies, Barcodes) : RecordMutation(changes)

EntitiesSpec == InitEntities /\ [][NextEntities]_entities

-----------------------------------------------------------------------------
EntitiesTypeOK == IsCollection(entities)

(* Each entry of c that says exactly which copies are on the shelf.        *)
FlagsAgree(c) ==
    \A i \in Issues :
        /\ i \in DOMAIN c =>
             /\ c[i].owned <=> ActiveCopies(c, i) # {}
             /\ c[i].duplicate <=> SeveralActive(c, i)
             /\ c[i].wanted <=> ~c[i].owned /\ ~c[i].deleted
             /\ c[i].deleted => ~c[i].owned
        /\ CopiesOf(c, i) # {} => i \in DOMAIN c

(* The derived flags of every stored entry say exactly which copies are on *)
(* the shelf: owned iff some copy is active, duplicate iff several are,    *)
(* wanted iff none is, and a deleted entry has no active copy.  Every      *)
(* issue with an active copy has an entry (_normalize_copy_authority       *)
(* appends one).                                                           *)
DerivedFlagsAgree == FlagsAgree(entities)

(* Observed remove: a live entry disappears only when no copy is left on   *)
(* its shelf, so a stale deletion never hides another device's copy.       *)
ObservedRemove ==
    [][\A i \in Issues : Live(entities, i) =>
          \/ Live(entities', i)
          \/ ActiveCopies(entities', i) = {}]_entities
=============================================================================
