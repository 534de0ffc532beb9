------------------------- MODULE SyncEndpoint_proof -------------------------
(***************************************************************************)
(* SyncEndpoint for every set of requests and every limit: the log records *)
(* each mutation once and is never rewritten, receipts point into it, and  *)
(* every answer -- computed or cached -- is a gapless page of it.          *)
(***************************************************************************)
EXTENDS SyncEndpoint, SyncServer_proof

(* A cached response is as good as the answer it was.                      *)
CacheIsHistory ==
    /\ cache \in Seq({cache[n] : n \in DOMAIN cache})
    /\ \A n \in DOMAIN cache :
          /\ cache[n].request \in Requests
          /\ PageIsHistory(cache[n].request, cache[n].response)

AnswersRequest == reply.verdict = "ok" => reply.request \in Requests

Inv == /\ TypeOK /\ HistorySound
       /\ CacheIsHistory /\ AnswersRequest /\ AnswerIsHistory

-----------------------------------------------------------------------------
(* The cache after a commit holds old entries and perhaps the new one.     *)
LEMMA CacheEntries ==
    ASSUME NEW req, NEW page, CacheResponse(req, page), Len(cache) <= CacheLimit,
           cache \in Seq({cache[n] : n \in DOMAIN cache})
    PROVE  /\ cache' \in Seq({cache'[n] : n \in DOMAIN cache'})
           /\ Len(cache') <= CacheLimit
           /\ \A n \in DOMAIN cache' :
                \/ cache'[n] = [request |-> req, response |-> page]
                \/ \E j \in DOMAIN cache : cache'[n] = cache[j]
<1> DEFINE e == [request |-> req, response |-> page]
           S == {cache[n] : n \in DOMAIN cache} \cup {e}
           stored == Append(cache, e)
<1>1. cache \in Seq(S) /\ e \in S
  BY SeqMonotonic
<1>2. /\ stored \in Seq(S) /\ Len(cache) \in Nat /\ Len(stored) = Len(cache) + 1
      /\ DOMAIN cache = 1..Len(cache) /\ DOMAIN stored = 1..Len(stored)
      /\ \A i \in 1..Len(cache) : stored[i] = cache[i]
      /\ stored[Len(cache) + 1] = e
  <2> HIDE DEF S, e
  <2> QED
    BY <1>1, AppendProperties, LenProperties
<1>3. \A i \in DOMAIN stored : stored[i] = e \/ \E j \in DOMAIN cache : stored[i] = cache[j]
  <2> HIDE DEF S, e, stored
  <2> QED
    BY <1>2
<1>4. CASE UNCHANGED cache
  BY <1>4
<1>5. CASE \E keep \in 0..Len(stored) :
             /\ keep <= CacheLimit
             /\ cache' = SubSeq(stored, Len(stored) - keep + 1, Len(stored))
  <2>1. PICK keep \in 0..Len(stored) :
             /\ keep <= CacheLimit
             /\ cache' = SubSeq(stored, Len(stored) - keep + 1, Len(stored))
    BY <1>5
  <2> DEFINE a == Len(stored) - keep + 1
             b == Len(stored)
  <2>2. /\ a \in Int /\ b \in Int /\ keep \in Nat
        /\ b - a + 1 = keep /\ (a <= b <=> keep >= 1)
        /\ \A i \in a..b : i \in DOMAIN stored
    BY <1>2
  <2>3. \A i \in a..b : stored[i] \in S
    <3> HIDE DEF S, stored, a, b
    <3> QED
      BY <1>2, <2>2, ElementOfSeq
  <2>4. /\ cache' \in Seq(S) /\ Len(cache') = keep
        /\ \A i \in 1..keep : cache'[i] = stored[a + i - 1]
    <3>1. /\ SubSeq(stored, a, b) \in Seq(S)
          /\ Len(SubSeq(stored, a, b)) = IF a <= b THEN b - a + 1 ELSE 0
          /\ \A i \in 1..(b - a + 1) : SubSeq(stored, a, b)[i] = stored[a + i - 1]
      <4> HIDE DEF S, stored, a, b
      <4> QED
        BY <2>2, <2>3, SubSeqProperties
    <3>2. cache' = SubSeq(stored, a, b)
      BY <2>1
    <3> HIDE DEF S, stored, a, b
    <3> QED
      BY <2>2, <3>1, <3>2
  <2>5. DOMAIN cache' = 1..keep /\ cache' \in [1..keep -> S]
    <3> HIDE DEF S
    <3> QED
      BY <2>4, LenProperties
  <2>6. cache' \in Seq({cache'[n] : n \in DOMAIN cache'})
    <3> DEFINE R == {cache'[n] : n \in DOMAIN cache'}
    <3>1. cache' \in [1..keep -> R]
      <4> HIDE DEF S
      <4> QED
        BY <2>5
    <3>2. keep \in Nat
      BY <2>2
    <3> HIDE DEF R, S, stored, a, b
    <3>3. cache' \in Seq(R)
      BY <3>1, <3>2, SeqDef
    <3> QED
      BY <3>3 DEF R
  <2>7. \A n \in DOMAIN cache' : cache'[n] = stored[a + n - 1] /\ a + n - 1 \in DOMAIN stored
    <3> HIDE DEF S, stored
    <3> QED
      BY <1>2, <2>2, <2>4, <2>5
  <2>8. Len(cache') <= CacheLimit
    BY <2>1, <2>4
  <2> HIDE DEF S, stored, a, b
  <2> QED
    BY <1>3, <2>6, <2>7, <2>8 DEF e
<1> QED
  BY <1>4, <1>5 DEF CacheResponse

-----------------------------------------------------------------------------
LEMMA RequestsAreValid == \A req \in Requests : IsRequest(req)
BY EndpointAssumption DEF EndpointAssumption

(* What a step that only continues the log owes to old answers.            *)
LEMMA AnswersPersist ==
    ASSUME Inv, HistorySound', Continues(log, log')
    PROVE  \A req \in Requests : \A page :
             PageIsHistory(req, page) => PageIsHistory(req, page)'
<1> SUFFICES ASSUME NEW req \in Requests, NEW page, PageIsHistory(req, page)
             PROVE  PageIsHistory(req, page)'
  OBVIOUS
<1> QED
  BY PagesPersist, RequestsAreValid DEF Inv, HistorySound

LEMMA CacheKept ==
    ASSUME Inv, HistorySound', Continues(log, log'), UNCHANGED cache
    PROVE  CacheIsHistory'
<1>1. ASSUME NEW n \in DOMAIN cache
      PROVE  /\ cache[n].request \in Requests
             /\ PageIsHistory(cache[n].request, cache[n].response)'
  <2>1. PICK old, held : old = cache[n].request /\ held = cache[n].response
    OBVIOUS
  <2>2. old \in Requests /\ PageIsHistory(old, held)
    BY <2>1 DEF Inv, CacheIsHistory
  <2>3. PageIsHistory(old, held)'
    BY <2>2, AnswersPersist
  <2>4. cache'[n].request = old /\ cache'[n].response = held
    BY <2>1
  <2>5. PageIsHistory(cache[n].request, cache[n].response)'
    BY <2>3, <2>4 DEF PageIsHistory
  <2> QED
    BY <2>1, <2>2, <2>5
<1> QED
  BY <1>1 DEF Inv, CacheIsHistory

LEMMA ReplyKept ==
    ASSUME Inv, HistorySound', Continues(log, log'), UNCHANGED reply
    PROVE  AnswersRequest' /\ AnswerIsHistory'
<1>1. AnswersRequest'
  BY DEF Inv, AnswersRequest
<1>2. ASSUME reply.verdict = "ok"
      PROVE  PageIsHistory(reply.request, reply.page)'
  <2>1. PICK old, held : old = reply.request /\ held = reply.page
    OBVIOUS
  <2>2. old \in Requests /\ PageIsHistory(old, held)
    BY <1>2, <2>1 DEF Inv, AnswersRequest, AnswerIsHistory
  <2>3. PageIsHistory(old, held)'
    BY <2>2, AnswersPersist
  <2> QED
    BY <2>1, <2>3 DEF PageIsHistory
<1> QED
  BY <1>1, <1>2 DEF AnswerIsHistory

LEMMA AcceptPreserves ==
    ASSUME Inv, NEW req \in Requests, NEW n, Commit(req, n),
           Answer(req, "ok", Page(log', receipts', req, n))
    PROVE  Inv'
<1> DEFINE page == Page(log', receipts', req, n)
<1>0. IsRequest(req)
  BY RequestsAreValid
<1>1. /\ Grows
      /\ \A p \in DOMAIN req.mutations : req.mutations[p].id \in DOMAIN receipts'
  BY <1>0, CommitGrows DEF Inv, HistorySound
<1>2. HistorySound'
  BY <1>0, CommitKeepsHistory DEF Inv
<1>3. /\ cache' \in Seq({cache'[k] : k \in DOMAIN cache'})
      /\ Len(cache') <= CacheLimit
      /\ \A k \in DOMAIN cache' :
           \/ cache'[k] = [request |-> req, response |-> page]
           \/ \E j \in DOMAIN cache : cache'[k] = cache[j]
  <2>1. CacheResponse(req, page) /\ Len(cache) <= CacheLimit
    BY DEF Commit, Inv, TypeOK
  <2>2. cache \in Seq({cache[k] : k \in DOMAIN cache})
    BY DEF Inv, CacheIsHistory
  <2> HIDE DEF page
  <2> QED
    BY <2>1, <2>2, CacheEntries
<1>4. TypeOK'
  <2>1. serverId' = serverId /\ activated' \in BOOLEAN
    BY DEF Commit
  <2>2. HistoryTyped'
    BY <1>2 DEF HistorySound
  <2> QED
    BY <1>3, <2>1, <2>2 DEF Inv, TypeOK
<1>5. PICK pg : pg = page
  OBVIOUS
<1>6. PageIsHistory(req, pg)'
  <2>1. n \in PageSizes(log', req)
    BY DEF Commit
  <2>2. req.cursor <= Len(log')
    <3>1. ~(req.cursor > Len(log)) /\ req.cursor \in Nat
      BY <1>0 DEF Commit, Verdict, IsRequest
    <3>2. Len(log) <= Len(log') /\ Len(log) \in Nat /\ Len(log') \in Nat
      BY <1>1, LogShape, LenProperties DEF Grows, Continues, Inv, HistorySound
    <3> QED
      BY <3>1, <3>2
  <2> QED
    BY <1>0, <1>1, <1>2, <1>5, <2>1, <2>2, ComputedPage DEF HistorySound
<1>7. reply' = [request |-> req, verdict |-> "ok", page |-> pg]
  BY <1>5 DEF Answer
<1>8. AnswerIsHistory' /\ AnswersRequest'
  BY <1>6, <1>7 DEF AnswerIsHistory, AnswersRequest, PageIsHistory
<1>9. CacheIsHistory'
  <2>1. ASSUME NEW k \in DOMAIN cache'
        PROVE  /\ cache'[k].request \in Requests
               /\ PageIsHistory(cache[k].request, cache[k].response)'
    <3>1. CASE cache'[k] = [request |-> req, response |-> pg]
      BY <1>6, <3>1 DEF PageIsHistory
    <3>2. CASE \E j \in DOMAIN cache : cache'[k] = cache[j]
      <4>1. PICK j \in DOMAIN cache : cache'[k] = cache[j]
        BY <3>2
      <4>2. PICK old, held : old = cache[j].request /\ held = cache[j].response
        OBVIOUS
      <4>3. old \in Requests /\ PageIsHistory(old, held)
        BY <4>2 DEF Inv, CacheIsHistory
      <4>4. PageIsHistory(old, held)'
        BY <1>1, <1>2, <4>3, AnswersPersist DEF Grows
      <4>5. cache'[k].request = old /\ cache'[k].response = held
        BY <4>1, <4>2
      <4> QED
        BY <4>3, <4>4, <4>5 DEF PageIsHistory
    <3> QED
      BY <1>3, <1>5, <3>1, <3>2
  <2> HIDE DEF page
  <2> QED
    BY <1>3, <2>1 DEF CacheIsHistory
<1> QED
  BY <1>2, <1>4, <1>8, <1>9 DEF Inv

(* The log of a step that leaves the database alone continues itself.      *)
LEMMA DatabaseUnchanged ==
    ASSUME Inv, UNCHANGED serverVars
    PROVE  TypeOK' /\ HistorySound' /\ Continues(log, log')
<1>1. HistorySound'
  BY HistoryUnchanged DEF Inv, serverVars
<1>2. Continues(log, log')
  BY LogShape DEF Inv, HistorySound, Continues, serverVars
<1> QED
  BY <1>1, <1>2 DEF Inv, TypeOK, HistorySound, serverVars

LEMMA ReplayPreserves ==
    ASSUME Inv, NEW req \in Requests, Replay(req)
    PROVE  Inv'
<1>1. UNCHANGED serverVars
  BY DEF Replay
<1>2. PICK n \in DOMAIN cache : /\ cache[n].request = req
                              /\ reply'.page = cache[n].response
                              /\ reply'.request = req
  <2>1. Cached(req) /\ CachedEntry(req).request = req
    BY DEF Replay, Verdict
  <2>2. CachedEntry(req) \in {cache[n] : n \in DOMAIN cache}
    BY <2>1 DEF Cached, CachedEntry
  <2> QED
    BY <2>1, <2>2 DEF Replay, Answer
<1>3. PageIsHistory(cache[n].request, cache[n].response)
  BY DEF Inv, CacheIsHistory
<1>4. AnswerIsHistory' /\ AnswersRequest'
  BY <1>1, <1>2, <1>3 DEF AnswerIsHistory, AnswersRequest, PageIsHistory, serverVars
<1>5. CacheIsHistory'
  BY <1>1, DatabaseUnchanged, CacheKept DEF serverVars
<1> QED
  BY <1>1, <1>4, <1>5, DatabaseUnchanged DEF Inv

LEMMA RefusePreserves ==
    ASSUME Inv, NEW req \in Requests, Refuse(req)
    PROVE  Inv'
<1>1. UNCHANGED serverVars /\ reply'.verdict # "ok"
  BY DEF Refuse, Answer
<1>2. CacheIsHistory'
  BY <1>1, DatabaseUnchanged, CacheKept DEF serverVars
<1> QED
  BY <1>1, <1>2, DatabaseUnchanged DEF Inv, AnswerIsHistory, AnswersRequest

LEMMA LosePreserves ==
    ASSUME Inv, LoseDatabase
    PROVE  Inv'
<1>1. /\ entities' = << >> /\ log' = << >> /\ receipts' = << >> /\ cache' = << >>
      /\ activated' = FALSE /\ serverId' = serverId + 1
      /\ reply'.verdict # "ok"
  BY DEF LoseDatabase, ReplaceDatabase, NoReply
<1>2. /\ << >> \in Seq({cache'[n] : n \in DOMAIN cache'})
      /\ Len(<< >>) = 0 /\ DOMAIN << >> = {}
  BY EmptySeq
<1>3. HistorySound'
  <2>1. (entities = << >> /\ log = << >> /\ receipts = << >>)'
    BY <1>1
  <2> QED
    BY <2>1, EmptyHistory, PTL
<1>4. TypeOK'
  <2>1. serverId' \in Nat \ {0}
    BY <1>1 DEF Inv, TypeOK
  <2>2. Len(cache') <= CacheLimit
    BY <1>1, <1>2, ServerAssumption DEF ServerAssumption
  <2>3. activated' \in BOOLEAN
    BY <1>1
  <2> QED
    BY <1>3, <2>1, <2>2, <2>3 DEF TypeOK, HistorySound
<1>5. CacheIsHistory'
  BY <1>1, <1>2 DEF CacheIsHistory
<1> QED
  BY <1>1, <1>3, <1>4, <1>5 DEF Inv, AnswerIsHistory, AnswersRequest

LEMMA BridgePreserves ==
    ASSUME Inv, BridgeLegacyWrite
    PROVE  Inv'
<1>1. PICK m \in LegacyGroups : RecordInternalGroup(m)
  BY DEF BridgeLegacyWrite
<1>2. IsCollection(m.changes)
  BY EndpointAssumption DEF EndpointAssumption
<1>3. HistorySound' /\ Continues(log, log')
  BY <1>1, <1>2, InternalKeepsHistory DEF Inv
<1>4. UNCHANGED <<serverId, receipts, cache, activated, reply>>
  BY <1>1 DEF RecordInternalGroup, BridgeLegacyWrite
<1>5. TypeOK'
  BY <1>3, <1>4 DEF Inv, TypeOK, HistorySound
<1> QED
  BY <1>3, <1>4, <1>5, CacheKept, ReplyKept DEF Inv

LEMMA StutterPreserves ==
    ASSUME Inv, UNCHANGED vars
    PROVE  Inv'
BY DatabaseUnchanged, CacheKept, ReplyKept DEF vars, serverVars, Inv

-----------------------------------------------------------------------------
(* The inductive invariant, for every set of requests and every limit.     *)
THEOREM Invariance == Spec => []Inv
<1>1. Init => Inv
  <2>1. SUFFICES ASSUME Init PROVE Inv
    OBVIOUS
  <2>2. /\ entities = << >> /\ log = << >> /\ receipts = << >> /\ cache = << >>
        /\ activated = FALSE /\ serverId = 1 /\ reply.verdict # "ok"
    BY <2>1 DEF Init, EmptyDatabase, NoReply
  <2>3. /\ << >> \in Seq({cache[n] : n \in DOMAIN cache})
        /\ Len(<< >>) = 0 /\ DOMAIN << >> = {}
    BY EmptySeq
  <2>4. HistorySound
    BY <2>2, EmptyHistory
  <2>5. TypeOK
    <3>1. Len(cache) <= CacheLimit
      BY <2>2, <2>3, ServerAssumption DEF ServerAssumption
    <3>2. serverId \in Nat \ {0}
      BY <2>2
    <3>3. activated \in BOOLEAN
      BY <2>2
    <3> QED
      BY <2>4, <3>1, <3>2, <3>3 DEF TypeOK, HistorySound
  <2>6. CacheIsHistory
    BY <2>2, <2>3 DEF CacheIsHistory
  <2> QED
    BY <2>2, <2>4, <2>5, <2>6 DEF Inv, AnswerIsHistory, AnswersRequest
<1>2. Inv /\ [Next]_vars => Inv'
  <2>1. SUFFICES ASSUME Inv, [Next]_vars PROVE Inv'
    OBVIOUS
  <2>2. ASSUME NEW req \in Requests, Accept(req) PROVE Inv'
    <3>1. PICK n \in 0..PageLimit :
            Commit(req, n) /\ Answer(req, "ok", Page(log', receipts', req, n))
      BY <2>2 DEF Accept
    <3> QED
      BY <2>1, <3>1, AcceptPreserves
  <2>3. ASSUME NEW req \in Requests, Replay(req) PROVE Inv'
    BY <2>1, <2>3, ReplayPreserves
  <2>4. ASSUME NEW req \in Requests, Refuse(req) PROVE Inv'
    BY <2>1, <2>4, RefusePreserves
  <2>5. CASE BridgeLegacyWrite
    BY <2>1, <2>5, BridgePreserves
  <2>6. CASE LoseDatabase
    BY <2>1, <2>6, LosePreserves
  <2>7. CASE UNCHANGED vars
    BY <2>1, <2>7, StutterPreserves
  <2> QED
    BY <2>1, <2>2, <2>3, <2>4, <2>5, <2>6, <2>7 DEF Next
<1> QED
  BY <1>1, <1>2, PTL DEF Spec

(* Every component of the database keeps the shape the code gives it.      *)
THEOREM EndpointType == Spec => []TypeOK
<1>1. Inv => TypeOK
  BY DEF Inv
<1> QED
  BY <1>1, Invariance, PTL

(* No retry, reordering, eviction or legacy write records a mutation twice.*)
THEOREM MutationsRecordedOnce == Spec => []RecordedOnce
<1>1. Inv => RecordedOnce
  BY DEF Inv, HistorySound
<1> QED
  BY <1>1, Invariance, PTL

(* Receipts and the groups of client mutations correspond one to one.      *)
THEOREM ReceiptsNameTheirGroups == Spec => []ReceiptsMatchLog
<1>1. Inv => ReceiptsMatchLog
  BY DEF Inv, HistorySound
<1> QED
  BY <1>1, Invariance, PTL

(* Every successful answer, computed or replayed from the request cache, is*)
(* a gapless page of the history as it is now.                             *)
THEOREM AnswersAreHistory == Spec => []AnswerIsHistory
<1>1. Inv => AnswerIsHistory
  BY DEF Inv
<1> QED
  BY <1>1, Invariance, PTL

(* No request rewrites the history of a database that keeps its identity.  *)
THEOREM HistoryGrows == Spec => HistoryIsAppendOnly
<1>1. Inv /\ Inv' /\ [Next]_vars => [serverId' = serverId => IsPrefix(log, log')]_vars
  <2>1. SUFFICES ASSUME Inv, Inv', [Next]_vars, serverId' = serverId
                 PROVE  IsPrefix(log, log')
    OBVIOUS
  <2>2. Len(log) \in Nat
    BY <2>1, LogShape DEF Inv, HistorySound
  <2>3. Continues(log, log')
    <3>1. ASSUME NEW req \in Requests, Accept(req) PROVE Continues(log, log')
      <4>1. PICK n \in 0..PageLimit : Commit(req, n)
        BY <3>1 DEF Accept
      <4> QED
        BY <2>1, <4>1, CommitGrows, RequestsAreValid DEF Inv, HistorySound, Grows
    <3>2. CASE UNCHANGED log
      BY <2>2, <3>2 DEF Continues
    <3>3. CASE BridgeLegacyWrite
      <4>1. PICK m \in LegacyGroups : RecordInternalGroup(m)
        BY <3>3 DEF BridgeLegacyWrite
      <4> QED
        BY <2>1, <4>1, InternalKeepsHistory, EndpointAssumption
           DEF Inv, EndpointAssumption
    <3>4. CASE LoseDatabase
      BY <2>1, <3>4 DEF LoseDatabase, ReplaceDatabase, Inv, TypeOK
    <3> QED
      BY <2>1, <3>1, <3>2, <3>3, <3>4 DEF Next, Replay, Refuse, vars, serverVars
  <2> QED
    BY <2>2, <2>3, ContinuationHasPrefix
<1> QED
  BY <1>1, Invariance, PTL DEF HistoryIsAppendOnly, Spec

(* The table is what replaying the log gives, so a device that applies the *)
(* pages in order holds what the server holds.                             *)
THEOREM TableReplaysLog == Spec => []EntitiesReplayLog
<1>1. Inv => EntitiesReplayLog
  BY DEF Inv, HistorySound, HistoryReplays
<1> QED
  BY <1>1, Invariance, PTL

(* A deletion that loses to an active copy restores the stored user fields.*)
THEOREM SurvivorsKeepUserFields == Spec => []SurvivorKeepsUserFields
<1>1. Inv => SurvivorKeepsUserFields
  BY CanonicalMeansSurvivor DEF Inv, HistorySound
<1> QED
  BY <1>1, Invariance, PTL

(* Batches of several mutations, legacy groups and replaced databases      *)
(* leave every derived flag in agreement with the copies.                  *)
THEOREM FlagsAgreeWithCopies == Spec => []DerivedFlagsAgree
<1>1. Inv => DerivedFlagsAgree
  BY DEF Inv, HistorySound, HistoryReplays
<1> QED
  BY <1>1, Invariance, PTL

(* No exchange, however many mutations it carries, hides a live entry that *)
(* still has an active copy.                                               *)
THEOREM NoCopyIsHidden == Spec => ObservedRemove
<1>1. Inv /\ Inv' /\ [Next]_vars
        => [\A i \in Issues : Live(entities, i) =>
              \/ Live(entities', i)
              \/ ActiveCopies(entities', i) = {}]_entities
  <2>1. SUFFICES ASSUME Inv, Inv', [Next]_vars, entities' # entities,
                        NEW i \in Issues, Live(entities, i)
                 PROVE  Live(entities', i) \/ ActiveCopies(entities', i) = {}
    OBVIOUS
  <2>2. IsCollection(entities') /\ FlagsAgree(entities')
    <3>1. IsCollection(entities)' /\ DerivedFlagsAgree'
      BY <2>1 DEF Inv, HistorySound, HistoryReplays
    <3> QED
      BY <3>1 DEF DerivedFlagsAgree, FlagsAgree, IsCollection, ActiveCopies, CopiesOf,
                  SeveralActive
  <2>3. i \in DOMAIN entities' => Live(entities', i) \/ ActiveCopies(entities', i) = {}
    BY <2>2 DEF FlagsAgree, Live, IsCollection, EntryData
  <2>4. ActiveCopies(entities', i) # {} => i \in DOMAIN entities'
    BY <2>2 DEF FlagsAgree, ActiveCopies
  <2> QED
    BY <2>3, <2>4
<1> QED
  BY <1>1, Invariance, PTL DEF Spec, ObservedRemove
=============================================================================
