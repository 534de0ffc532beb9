--------------------------- MODULE MCSyncProtocol ---------------------------
(* Two devices, one issue with its two migrated copies, one barcode.       *)
EXTENDS SyncProperties, TLC

CONSTANTS d1, d2, i1, c1, c2, b1, v0, v1

MCDevices == {d1, d2}
MCSymmetry == Permutations(MCDevices)
MCIssues == {i1}
MCCopies == {c1, c2}
MCPrimary == [i \in {i1} |-> c1]
MCSecondary == [i \in {i1} |-> c2]
MCRank == [k \in MCCopies |-> IF k = c1 THEN 0 ELSE 1]
MCMutationIds == MCDevices \X (1..4)

Comic(on, twice, gone, v) ==
    [owned |-> on, duplicate |-> twice, deleted |-> gone, value |-> v,
     copyValue |-> v0]
Shelved == [issue |-> i1, active |-> TRUE, deleted |-> FALSE, value |-> v0]
Removed == [issue |-> i1, active |-> FALSE, deleted |-> TRUE, value |-> v0]

MCCopyEdits == MCCopies \X {Shelved, Removed}

(* Two of an issue, with a rating; its deletion.  An owned one; a rating.  *)
FewComics == {Comic(TRUE, TRUE, FALSE, v1), Comic(FALSE, FALSE, TRUE, v0)}
OwnOrRate == {Comic(TRUE, FALSE, FALSE, v0), Comic(FALSE, FALSE, FALSE, v1)}
FewCopyEdits == MCCopies \X {Shelved}

(* The premise of ReplicasAgree holds of these inputs.                     *)
ASSUME EditsHaveHomes == CopiesHaveHomes
=============================================================================
