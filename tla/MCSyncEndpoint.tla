--------------------------- MODULE MCSyncEndpoint ---------------------------
(* One issue with two copies.  The requests mix honest retries (the same   *)
(* request again, its mutations under a new request id), stale cursors and *)
(* pins, a batch of two whose second half may already be known, and every  *)
(* kind of reuse the server refuses.                                       *)
EXTENDS SyncEndpoint

CONSTANTS i1, i2, c1, c2, v0, v1

Copy(i, on, gone) == [issue |-> i, active |-> on, deleted |-> gone, value |-> v0]
Entry(gone, v) == [deleted |-> gone, owned |-> FALSE, wanted |-> ~gone,
                   duplicate |-> FALSE, value |-> v]

Shelve(c) == [k \in {c} |-> Copy(i1, TRUE, FALSE)]
Rate == [k \in {i1} |-> Entry(FALSE, v1)]
DeleteAll == [k \in {i1, c1} |-> IF k = i1 THEN Entry(TRUE, v0) ELSE Copy(i1, FALSE, TRUE)]
MoveCopy == [k \in {c1} |-> Copy(i2, TRUE, FALSE)]

Mutation(id, changes) == [id |-> id, changes |-> changes]
Request(id, sid, cur, muts) ==
    [id |-> id, serverId |-> sid, cursor |-> cur, mutations |-> muts]

A == Mutation("a", Shelve(c1))
B == Mutation("b", Rate)
C == Mutation("c", Shelve(c2))
D == Mutation("d", DeleteAll)

MCIssues == {i1, i2}
MCCopies == {c1, c2}
MCValues == {v0, v1}
MCMutationIds == {"a", "b", "c", "d", "x"}
MCInternalIds == {"x"}
MCLegacyGroups == {Mutation("x", [k \in {i1, c1} |->
                                    IF k = i1 THEN Entry(FALSE, v0)
                                    ELSE Copy(i1, TRUE, FALSE)])}

MCRequests ==
    {Request("q1", 0, 0, << >>),
     Request("q1", 0, 0, <<A>>),
     Request("q1", 1, 0, <<A, B>>),
     Request("q2", 1, 0, <<A, B>>),
     Request("q2", 1, 1, <<B, C>>),
     Request("q3", 1, 1, <<D>>),
     Request("q3", 0, 2, <<C, D>>),
     Request("q4", 1, 3, << >>),
     Request("q4", 0, 0, <<B, Mutation("a", MoveCopy)>>),
     Request("q5", 0, 0, <<Mutation("b", Shelve(c2))>>),
     Request("q5", 2, 0, <<Mutation("x", Rate)>>)}
=============================================================================
