-------------------------- MODULE MCLegacyFallback --------------------------
(* One device and what others do at the server; one issue, one barcode.    *)
EXTENDS LegacyFallback

CONSTANTS d1, i1, c1, c2, c3, b1, v0, v1, v2

MCDevices == {d1}
MCIssues == {i1}
MCCopies == {c1, c2, c3}
MCPrimary == [i \in {i1} |-> c1]
MCSecondary == [i \in {i1} |-> c2]
MCRank == [k \in MCCopies |-> CASE k = c1 -> 0 [] k = c2 -> 1 [] OTHER -> 2]
MCMutationIds == (MCDevices \cup {"elsewhere"}) \X (1..6)

Comic(on, twice, gone, v) ==
    [owned |-> on, duplicate |-> twice, deleted |-> gone, value |-> v,
     copyValue |-> v0]

MCShared == Comic(TRUE, FALSE, FALSE, v0)
MCOld == {Comic(TRUE, FALSE, FALSE, v1)}
MCInputs == {Comic(TRUE, TRUE, FALSE, v1)}
Copy(on, v) == [issue |-> i1, active |-> on, deleted |-> FALSE, value |-> v]
MCThird == {<<c3, Copy(TRUE, v1)>>}
MCFirst == {<<c1, Copy(FALSE, v0)>>}
MCBoth == Comic(TRUE, TRUE, FALSE, v0)
MCElsewhere == {Comic(TRUE, FALSE, FALSE, v2)}
=============================================================================
