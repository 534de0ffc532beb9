--------------------------- MODULE CopyAuthority ---------------------------
(***************************************************************************)
(* What the server stores about a collection, and how it canonicalizes one *)
(* atomic mutation before recording it (Store._canonicalize_group and      *)
(* Store._normalize_copy_authority).                                       *)
(*                                                                         *)
(* A collection is a partial function from entity keys to entity data: an  *)
(* issue keys its collection_entry, a copy its copy row and a barcode its  *)
(* barcode_mapping.  A wire operation "delete" is data with deleted = TRUE *)
(* (_validate_v2_change insists that the two agree).  Everything a user    *)
(* types (rating, notes, condition, prices, loan) is one member of Values; *)
(* timestamps and issue hints decide nothing here and are left out, and so *)
(* is the custom_issue entity, a plain register that no rule below reads.  *)
(***************************************************************************)
EXTENDS Naturals

CONSTANTS Issues,        \* issue ids: each keys one collection_entry
          Copies,        \* ids of physical copies
          Barcodes,      \* normalized barcodes
          Values,        \* abstracted user fields of an entry or a copy
          DefaultValue   \* the user fields of a row nobody edited

ASSUME CollectionAssumption ==
    /\ Issues \cap Copies = {} /\ Issues \cap Barcodes = {}
    /\ Copies \cap Barcodes = {}
    /\ DefaultValue \in Values

Keys == Issues \cup Copies \cup Barcodes

EntryData == [deleted: BOOLEAN, owned: BOOLEAN, wanted: BOOLEAN,
              duplicate: BOOLEAN, value: Values]
CopyData == [issue: Issues, active: BOOLEAN, deleted: BOOLEAN, value: Values]
BarcodeData == [issue: Issues, deleted: BOOLEAN]

(* A set of entity snapshots keyed by entity: the collection a database    *)
(* holds, or the changes of one mutation.  Being a function, it holds an   *)
(* entity at most once, which _canonicalize_group demands of a mutation.   *)
IsCollection(c) ==
    /\ DOMAIN c \subseteq Keys
    /\ \A i \in DOMAIN c \cap Issues : c[i] \in EntryData
    /\ \A k \in DOMAIN c \cap Copies : c[k] \in CopyData
    /\ \A b \in DOMAIN c \cap Barcodes : c[b] \in BarcodeData

(* The rows of base replaced, or joined, by those of changes (an upsert).  *)
Overlay(base, changes) ==
    [k \in DOMAIN base \cup DOMAIN changes |->
        IF k \in DOMAIN changes THEN changes[k] ELSE base[k]]

CopiesOf(c, i) == {k \in DOMAIN c \cap Copies : c[k].issue = i}
ActiveCopies(c, i) == {k \in CopiesOf(c, i) : c[k].active /\ ~c[k].deleted}
SeveralActive(c, i) == \E j, k \in ActiveCopies(c, i) : j # k

DefaultEntry == [deleted |-> FALSE, owned |-> FALSE, wanted |-> TRUE,
                 duplicate |-> FALSE, value |-> DefaultValue]

(* An existing copy may not be re-issued under another issue.  Copies and  *)
(* entries carry the issue_hint that the app always sends with them.       *)
MovesCopy(c, changes) ==
    \E k \in DOMAIN c \cap DOMAIN changes \cap Copies :
        c[k].issue # changes[k].issue

(* The issues whose entry or copies the mutation touches.                  *)
AffectedIssues(changes) ==
    {i \in Issues : i \in DOMAIN changes \/ CopiesOf(changes, i) # {}}

(* The entry the mutation asks for, or the one the server appends when the *)
(* mutation changes only copies.                                           *)
RequestedEntry(c, changes, i) ==
    IF i \in DOMAIN changes THEN changes[i]
    ELSE IF i \in DOMAIN c THEN c[i] ELSE DefaultEntry

(* Mutations of CanonicalEntry: the client's flags are believed, a deletion*)
(* wins over any copy, a surviving entry takes the deleter's user fields.  *)
BelievedEntry(c, changes, i) == RequestedEntry(c, changes, i)

DeletedAnyway(c, changes, i) ==
    LET requested == RequestedEntry(c, changes, i)
    IN IF requested.deleted
       THEN [requested EXCEPT !.owned = FALSE, !.duplicate = FALSE]
       ELSE requested

OverwrittenSurvivor(c, changes, i) ==
    LET after == Overlay(c, changes)
        requested == RequestedEntry(c, changes, i)
        active == ActiveCopies(after, i) # {}
    IN [requested EXCEPT !.deleted = @ /\ ~active, !.owned = active,
                         !.duplicate = SeveralActive(after, i),
                         !.wanted = ~active /\ ~requested.deleted]

(* Active copies are authoritative for the derived fields.  Deleting an    *)
(* entry removes only copies the deleter observed: with an active copy     *)
(* left, the stored entry survives with its own user fields.               *)
CanonicalEntry(c, changes, i) ==
    LET after == Overlay(c, changes)
        requested == RequestedEntry(c, changes, i)
        active == ActiveCopies(after, i) # {}
        survivor == IF requested.deleted /\ i \in DOMAIN c /\ ~c[i].deleted
                    THEN c[i] ELSE requested
    IN IF requested.deleted /\ ~active
       THEN [requested EXCEPT !.owned = FALSE, !.duplicate = FALSE,
                              !.wanted = FALSE]
       ELSE [survivor EXCEPT !.deleted = FALSE, !.owned = active,
                             !.duplicate = SeveralActive(after, i),
                             !.wanted = ~active]

(* The change group the server records for a mutation.                     *)
CanonicalizeGroup(c, changes) ==
    Overlay(changes,
            [i \in AffectedIssues(changes) |-> CanonicalEntry(c, changes, i)])

(* The table after one mutation.                                           *)
RecordedEntities(c, changes) == Overlay(c, CanonicalizeGroup(c, changes))

(* An entry the user sees: stored and not a tombstone.                     *)
Live(c, i) == i \in DOMAIN c /\ ~c[i].deleted
=============================================================================
