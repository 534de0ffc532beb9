---------------------------- MODULE SyncEndpoint ----------------------------
(***************************************************************************)
(* The server alone, answering any sequence of requests: retries, reordered*)
(* and stale deliveries, reused identifiers, requests of a device that     *)
(* knew another database.  reply is the last answer given.                 *)
(***************************************************************************)
EXTENDS SyncServer

CONSTANTS Requests,      \* the requests clients may send, again and again
          LegacyGroups,  \* mutations with an internal id
          MaxServerId    \* bound: databases the server may go through

VARIABLE reply

vars == <<serverVars, reply>>

EndpointAssumption ==
    /\ \A req \in Requests : IsRequest(req)
    /\ \A m \in LegacyGroups : IsCollection(m.changes)

ASSUME EndpointAssumption

NoReply == [request |-> << >>, verdict |-> "none", page |-> << >>]

Answer(req, verdict, page) ==
    reply' = [request |-> req, verdict |-> verdict, page |-> page]

Init == EmptyDatabase(1) /\ reply = NoReply

Accept(req) ==
    \E n \in 0..PageLimit :
        Commit(req, n) /\ Answer(req, "ok", Page(log', receipts', req, n))

Replay(req) ==
    /\ Verdict(req) = "replayed"
    /\ Answer(req, "ok", CachedEntry(req).response)
    /\ UNCHANGED serverVars

Refuse(req) ==
    /\ Verdict(req) \notin {"ok", "replayed"}
    /\ Answer(req, Verdict(req), << >>)
    /\ UNCHANGED serverVars

BridgeLegacyWrite == \E m \in LegacyGroups : RecordInternalGroup(m) /\ UNCHANGED reply

LoseDatabase ==
    serverId < MaxServerId /\ ReplaceDatabase /\ reply' = NoReply

Next == \/ \E req \in Requests : Accept(req) \/ Replay(req) \/ Refuse(req)
        \/ BridgeLegacyWrite
        \/ LoseDatabase

Spec == Init /\ [][Next]_vars

-----------------------------------------------------------------------------
(* Every component of the database has the shape the code gives it.        *)
TypeOK ==
    /\ serverId \in Nat \ {0}
    /\ activated \in BOOLEAN
    /\ HistoryTyped
    /\ Len(cache) <= CacheLimit

(* The last answer is a page of the history as it is now, also when the    *)
(* request cache gave it long after it was computed.                       *)
AnswerIsHistory ==
    reply.verdict = "ok" => PageIsHistory(reply.request, reply.page)

(* Within one database history is never rewritten.                         *)
HistoryIsAppendOnly ==
    [][serverId' = serverId => IsPrefix(log, log')]_vars
=============================================================================
