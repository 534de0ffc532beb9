------------------------- MODULE TenantStore_proof --------------------------
(***************************************************************************)
(* TenantStore for any number of accounts and threads.  When no account is *)
(* erased by two threads at once: operations and erasures exclude each     *)
(* other, no store outlives its database, and an erased account stays so.  *)
(* Always: accounts and host stay within their limits.                     *)
(***************************************************************************)
EXTENDS TenantStore, FiniteSetTheorems, WellFoundedInduction, TLAPS

(* The same thread makes every erasure.                                    *)
OneEraser == \A c, d \in Erasers : c = d

(* The counter under the lock counts the threads inside the account.       *)
ActiveCounts == \A a \in Accounts : active[a] = Cardinality(Inside(a))

(* From its first step to its last, an erasure keeps its account blocked.  *)
ErasureBlocks ==
    \A c \in Callers : caller[c].pc \in Erasing =>
        c \in Erasers /\ caller[c].account \in blocked

(* While files are being removed, the store is out of the cache.           *)
ErasureForgetsStore ==
    \A c \in Callers : caller[c].pc \in {"unlinking", "sidecars"} =>
        caller[c].account \notin stores

(* The database is gone before its sidecars go.                            *)
ErasureRemoves ==
    \A c \in Callers : At(c, "sidecars") => caller[c].account \notin files

ErasedIsBlocked == erased \subseteq blocked

Inv == /\ TypeOK /\ ActiveCounts /\ ErasureBlocks /\ ErasureForgetsStore
       /\ ErasureRemoves /\ NoWorkDuringErasure /\ StoresHaveDatabases
       /\ ErasedIsBlocked /\ ErasedStaysErased

-----------------------------------------------------------------------------
(* Threads are finitely many, so those inside an account can be counted.   *)
LEMMA InsideFinite ==
    ASSUME NEW a
    PROVE  /\ IsFiniteSet(Inside(a)) /\ Cardinality(Inside(a)) \in Nat
           /\ Cardinality(Inside(a)) = 0 <=> Inside(a) = {}
<1>1. Inside(a) \subseteq Callers
  BY DEF Inside
<1>2. IsFiniteSet(Inside(a))
  BY <1>1, TenantAssumption, FS_Subset DEF TenantAssumption
<1> QED
  BY <1>2, FS_CardinalityType, FS_EmptySet

-----------------------------------------------------------------------------
(* A step that keeps every thread in, or out of, its account.              *)
LEMMA SameInside ==
    ASSUME \A d \in Callers :
              /\ caller'[d].pc \in Working <=> caller[d].pc \in Working
              /\ caller[d].pc \in Working => caller'[d].account = caller[d].account
    PROVE  \A a : Inside(a)' = Inside(a)
BY DEF Inside

(* Where a thread that changes only its own place stands afterwards.       *)
LEMMA OneCallerMoves ==
    ASSUME TypeOK, NEW c \in Callers, NEW call \in Calls,
           call.pc # "idle" => call.account \in Accounts,
           caller' = [caller EXCEPT ![c] = call]
    PROVE  /\ caller' \in [Callers -> Calls]
           /\ caller'[c] = call
           /\ \A d \in Callers \ {c} : caller'[d] = caller[d]
           /\ \A d \in Callers : ~At(d, "idle")' => caller'[d].account \in Accounts
<1>1. caller \in [Callers -> Calls]
  BY DEF TypeOK
<1>2. /\ caller' \in [Callers -> Calls] /\ caller'[c] = call
      /\ \A d \in Callers \ {c} : caller'[d] = caller[d]
  BY <1>1
<1>3. \A d \in Callers : ~At(d, "idle")' => caller'[d].account \in Accounts
  BY <1>2 DEF TypeOK, At
<1> QED
  BY <1>2, <1>3

(* Goto moves the thread and leaves the rest of its call.                  *)
LEMMA GotoMoves ==
    ASSUME TypeOK, NEW c \in Callers, ~At(c, "idle"),
           NEW pc \in Working \cup Erasing, Goto(c, pc)
    PROVE  /\ caller' \in [Callers -> Calls]
           /\ caller'[c].pc = pc
           /\ caller'[c].account = caller[c].account
           /\ caller'[c].reservation = caller[c].reservation
           /\ \A d \in Callers \ {c} : caller'[d] = caller[d]
           /\ \A d \in Callers : ~At(d, "idle")' => caller'[d].account \in Accounts
<1> DEFINE call == [caller[c] EXCEPT !.pc = pc]
<1>1. caller[c] \in Calls /\ caller[c].account \in Accounts
  BY DEF TypeOK
<1>2. /\ call \in Calls /\ call.pc = pc /\ call.account = caller[c].account
      /\ call.reservation = caller[c].reservation
  BY <1>1 DEF Calls
<1>3. caller' = [caller EXCEPT ![c] = call]
  BY DEF Goto
<1> HIDE DEF call
<1> QED
  BY <1>1, <1>2, <1>3, OneCallerMoves

-----------------------------------------------------------------------------
(* A thread moves on inside its account and touches neither the files nor  *)
(* the registry.                                                           *)
LEMMA InsideStep ==
    ASSUME Inv, NEW c \in Callers, caller[c].pc \in Working,
           TypeOK', caller'[c].pc \in Working \ {"working"},
           caller'[c].account = caller[c].account,
           \A d \in Callers \ {c} : caller'[d] = caller[d],
           UNCHANGED <<files, sidecars, registry, erased>>
    PROVE  Inv'
<1>1. \A a : Inside(a)' = Inside(a)
  BY SameInside
<1>2. \A d \in Callers : caller'[d].pc \in Erasing => caller'[d] = caller[d]
  BY DEF Working, Erasing
<1>3. UNCHANGED <<files, sidecars, stores, active, blocked, erased>>
  BY DEF registry
<1>4. ActiveCounts'
  BY <1>1, <1>3 DEF Inv, ActiveCounts
<1>5. ErasureBlocks' /\ ErasureForgetsStore' /\ ErasureRemoves'
  BY <1>2, <1>3 DEF Inv, ErasureBlocks, ErasureForgetsStore, ErasureRemoves, Erasing, At
<1>6. NoWorkDuringErasure'
  BY <1>1, <1>2 DEF Inv, NoWorkDuringErasure, Erasing
<1>7. StoresHaveDatabases'
  BY <1>3 DEF Inv, StoresHaveDatabases, At
<1> QED
  BY <1>3, <1>4, <1>5, <1>6, <1>7 DEF Inv, ErasedIsBlocked, ErasedStaysErased

LEMMA LookPreserves ==
    ASSUME Inv, NEW c \in Callers, LookForDatabase(c)
    PROVE  Inv'
<1>1. PICK pc \in {"leaving", "opening", "reserving"} : Goto(c, pc)
  BY DEF LookForDatabase
<1>2. /\ caller' \in [Callers -> Calls] /\ caller'[c].pc = pc
      /\ caller'[c].account = caller[c].account
      /\ \A d \in Callers \ {c} : caller'[d] = caller[d]
      /\ \A d \in Callers : ~At(d, "idle")' => caller'[d].account \in Accounts
  BY <1>1, GotoMoves DEF Inv, LookForDatabase, At, Working
<1>3. UNCHANGED <<files, sidecars, size, registry, reserved, total, erased>>
  BY DEF LookForDatabase, disk, capacity
<1>4. TypeOK'
  BY <1>2, <1>3 DEF Inv, TypeOK, registry
<1> QED
  BY <1>1, <1>2, <1>3, <1>4, InsideStep DEF LookForDatabase, At, Working

LEMMA ReservePreserves ==
    ASSUME Inv, NEW c \in Callers, NEW r \in Reservations, Reserve(c, r)
    PROVE  Inv'
<1> DEFINE a == caller[c].account
<1>1. /\ At(c, "reserving") /\ caller[c] \in Calls /\ a \in Accounts
      /\ r \in Nat
  BY TenantAssumption DEF Reserve, Inv, TypeOK, At, TenantAssumption
<1>2. UNCHANGED <<files, sidecars, size, registry, erased>>
  BY DEF Reserve, disk
<1>3. /\ TypeOK' /\ caller'[c].pc \in {"opening", "leaving"}
      /\ caller'[c].account = a
      /\ \A d \in Callers \ {c} : caller'[d] = caller[d]
  <2>1. CASE HasRoom(a, r)
    <3> DEFINE call == [caller[c] EXCEPT !.pc = "opening", !.reservation = r]
    <3>1. call \in Calls /\ call.pc = "opening" /\ call.account = a
      BY <1>1 DEF Calls, Working
    <3>2. caller' = [caller EXCEPT ![c] = call]
      BY <2>1 DEF Reserve, Inv, TypeOK
    <3>3. reserved' \in [Accounts -> Int] /\ total' \in Int
      BY <1>1, <2>1 DEF Reserve, Inv, TypeOK
    <3> HIDE DEF call
    <3>4. /\ caller' \in [Callers -> Calls] /\ caller'[c] = call
          /\ \A d \in Callers \ {c} : caller'[d] = caller[d]
          /\ \A d \in Callers : ~At(d, "idle")' => caller'[d].account \in Accounts
      BY <1>1, <3>1, <3>2, OneCallerMoves DEF Inv
    <3> QED
      BY <1>2, <3>1, <3>3, <3>4 DEF Inv, TypeOK, registry
  <2>2. CASE ~HasRoom(a, r)
    <3>1. Goto(c, "leaving") /\ UNCHANGED <<reserved, total>>
      BY <2>2 DEF Reserve, capacity
    <3>2. /\ caller' \in [Callers -> Calls] /\ caller'[c].pc = "leaving"
          /\ caller'[c].account = a
          /\ \A d \in Callers \ {c} : caller'[d] = caller[d]
          /\ \A d \in Callers : ~At(d, "idle")' => caller'[d].account \in Accounts
      BY <1>1, <3>1, GotoMoves DEF Inv, At, Working
    <3> QED
      BY <1>2, <3>1, <3>2 DEF Inv, TypeOK, registry
  <2> QED
    BY <2>1, <2>2
<1> QED
  BY <1>1, <1>2, <1>3, InsideStep DEF At, Working

LEMMA WorkPreserves ==
    ASSUME Inv, NEW c \in Callers, Work(c)
    PROVE  Inv'
<1>1. /\ At(c, "working") /\ caller[c] \in Calls /\ caller[c].account \in Accounts
  BY DEF Work, Inv, TypeOK, At
<1>2. PICK pc \in {"releasing", "leaving"} : Goto(c, pc)
  BY DEF Work, Unwind
<1>3. /\ caller' \in [Callers -> Calls] /\ caller'[c].pc = pc
      /\ caller'[c].account = caller[c].account
      /\ \A d \in Callers \ {c} : caller'[d] = caller[d]
      /\ \A d \in Callers : ~At(d, "idle")' => caller'[d].account \in Accounts
  BY <1>1, <1>2, GotoMoves DEF Inv, At, Working
<1>4. UNCHANGED <<files, sidecars, registry, reserved, total, erased>>
  BY DEF Work, capacity
<1>5. size' \in [Accounts -> Nat]
  <2>1. PICK growth \in 0..caller[c].reservation :
          size' = [size EXCEPT ![caller[c].account] = @ + growth]
    BY DEF Work
  <2>2. growth \in Nat /\ size \in [Accounts -> Nat]
    BY <1>1 DEF Calls, Inv, TypeOK
  <2> QED
    BY <1>1, <2>1, <2>2
<1>6. TypeOK'
  BY <1>3, <1>4, <1>5 DEF Inv, TypeOK, registry
<1> QED
  BY <1>1, <1>3, <1>4, <1>6, InsideStep DEF At, Working

LEMMA ReleasePreserves ==
    ASSUME Inv, NEW c \in Callers, Release(c)
    PROVE  Inv'
<1> DEFINE a == caller[c].account
           call == [caller[c] EXCEPT !.pc = "leaving", !.reservation = 0]
<1>1. At(c, "releasing") /\ caller[c] \in Calls /\ a \in Accounts
  BY DEF Release, Inv, TypeOK, At
<1>2. call \in Calls /\ call.pc = "leaving" /\ call.account = a
  BY <1>1 DEF Calls, Working
<1>3. caller' = [caller EXCEPT ![c] = call]
  BY DEF Release, Inv, TypeOK
<1>4. reserved' \in [Accounts -> Int] /\ total' \in Int
  BY <1>1 DEF Release, Inv, TypeOK, Calls
<1>5. UNCHANGED <<files, sidecars, size, registry, erased>>
  BY DEF Release, disk
<1> HIDE DEF call
<1>6. /\ caller' \in [Callers -> Calls] /\ caller'[c] = call
      /\ \A d \in Callers \ {c} : caller'[d] = caller[d]
      /\ \A d \in Callers : ~At(d, "idle")' => caller'[d].account \in Accounts
  BY <1>1, <1>2, <1>3, OneCallerMoves DEF Inv
<1>7. TypeOK'
  BY <1>4, <1>5, <1>6 DEF Inv, TypeOK, registry
<1> QED
  BY <1>1, <1>2, <1>5, <1>6, <1>7, InsideStep DEF At, Working

-----------------------------------------------------------------------------
(* Opening is the one step that creates files: of an account that is not   *)
(* blocked, so that no erasure is under way there nor has returned.        *)
LEMMA CacheLimited ==
    ASSUME TypeOK, NEW a \in Accounts, NEW kept \in Kept(stores \ {a})
    PROVE  /\ kept \subseteq stores \ {a}
           /\ Cardinality(kept \cup {a}) <= MaxCachedStores
<1> DEFINE others == stores \ {a}
<1>1. IsFiniteSet(others) /\ Cardinality(others) \in Nat /\ MaxCachedStores \in Nat
  <2>1. IsFiniteSet(others)
    BY TenantAssumption, FS_Subset DEF TypeOK, TenantAssumption
  <2> QED
    BY <2>1, FS_CardinalityType, TenantAssumption DEF TenantAssumption
<1>2. /\ kept \subseteq others
      /\ Cardinality(kept) < MaxCachedStores
  BY <1>1, TenantAssumption DEF Kept, TenantAssumption
<1>3. IsFiniteSet(kept) /\ Cardinality(kept) \in Nat
  BY <1>1, <1>2, FS_Subset, FS_CardinalityType
<1>4. Cardinality(kept \cup {a}) = Cardinality(kept) + 1
  <2>1. a \notin kept
    BY <1>2
  <2> QED
    BY <1>3, <2>1, FS_AddElement
<1> QED
  BY <1>1, <1>2, <1>3, <1>4

LEMMA OpenPreserves ==
    ASSUME Inv, NEW c \in Callers, OpenStore(c)
    PROVE  Inv'
<1> DEFINE a == caller[c].account
<1>1. At(c, "opening") /\ caller[c] \in Calls /\ a \in Accounts
  BY DEF OpenStore, Inv, TypeOK, At
<1>2. UNCHANGED <<size, active, blocked, reserved, total, erased>>
  BY DEF OpenStore, capacity
<1>3. CASE a \in blocked
  <2>1. PICK pc \in {"releasing", "leaving"} : Goto(c, pc)
    BY <1>3 DEF OpenStore, Unwind
  <2>2. UNCHANGED <<files, sidecars, stores>>
    BY <1>3 DEF OpenStore
  <2>3. /\ caller' \in [Callers -> Calls] /\ caller'[c].pc = pc
        /\ caller'[c].account = a
        /\ \A d \in Callers \ {c} : caller'[d] = caller[d]
        /\ \A d \in Callers : ~At(d, "idle")' => caller'[d].account \in Accounts
    BY <1>1, <2>1, GotoMoves DEF Inv, At, Working
  <2>4. TypeOK' /\ UNCHANGED registry
    BY <1>2, <2>2, <2>3 DEF Inv, TypeOK, registry
  <2> QED
    BY <1>1, <1>2, <2>1, <2>2, <2>3, <2>4, InsideStep DEF At, Working
<1>4. CASE a \notin blocked
  <2>1. PICK pc \in {"working", "releasing", "leaving"} : Goto(c, pc)
    BY <1>4 DEF OpenStore, Unwind
  <2>2. /\ stores' \subseteq stores \cup {a}
        /\ Cardinality(stores') <= MaxCachedStores
        /\ a \in stores' \/ pc = "working" => a \in files'
    <3>1. CASE \E kept \in Kept(stores \ {a}) : stores' = kept \cup {a}
      <4>1. PICK kept \in Kept(stores \ {a}) : stores' = kept \cup {a}
        BY <3>1
      <4>2. /\ kept \subseteq stores \ {a}
            /\ Cardinality(stores') <= MaxCachedStores
        BY <1>1, <4>1, CacheLimited DEF Inv
      <4>3. a \in stores => a \in files
        BY DEF Inv, StoresHaveDatabases
      <4> QED
        BY <1>4, <4>1, <4>2, <4>3 DEF OpenStore
    <3>2. CASE UNCHANGED stores /\ a \notin stores /\ Unwind(c)
      <4>1. caller'[c].pc # "working" /\ caller'[c].pc = pc
        BY <1>1, <2>1, <3>2, GotoMoves DEF Unwind, Inv, At, Working
      <4> QED
        BY <3>2, <4>1 DEF Inv, TypeOK
    <3> QED
      BY <1>4, <3>1, <3>2 DEF OpenStore
  <2>3. /\ files \subseteq files' /\ files' \subseteq files \cup {a}
        /\ sidecars' \subseteq sidecars \cup {a}
    BY <1>4 DEF OpenStore
  <2>4. /\ caller' \in [Callers -> Calls] /\ caller'[c].pc = pc
        /\ caller'[c].account = a
        /\ \A d \in Callers \ {c} : caller'[d] = caller[d]
        /\ \A d \in Callers : ~At(d, "idle")' => caller'[d].account \in Accounts
    BY <1>1, <2>1, GotoMoves DEF Inv, At, Working
  <2>5. TypeOK'
    BY <1>1, <1>2, <2>1, <2>2, <2>3, <2>4 DEF Inv, TypeOK
  <2>6. \A b : Inside(b)' = Inside(b)
    BY <1>1, <2>4, SameInside DEF At, Working
  <2>7. \A d \in Callers : caller'[d].pc \in Erasing =>
            caller'[d] = caller[d] /\ caller[d].account # a
    BY <1>4, <2>4 DEF Inv, ErasureBlocks, Erasing
  <2>8. ActiveCounts'
    BY <1>2, <2>6 DEF Inv, ActiveCounts
  <2>9. ErasureBlocks' /\ ErasureForgetsStore' /\ ErasureRemoves'
    BY <1>2, <2>1, <2>2, <2>3, <2>7
       DEF Inv, ErasureBlocks, ErasureForgetsStore, ErasureRemoves, Erasing, At
  <2>10. NoWorkDuringErasure'
    BY <2>6, <2>7 DEF Inv, NoWorkDuringErasure, Erasing
  <2>11. StoresHaveDatabases'
    BY <2>2, <2>3, <2>4 DEF Inv, StoresHaveDatabases, At
  <2>12. ErasedIsBlocked' /\ ErasedStaysErased'
    BY <1>2, <1>4, <2>3 DEF Inv, ErasedIsBlocked, ErasedStaysErased
  <2> QED
    BY <2>5, <2>8, <2>9, <2>10, <2>11, <2>12 DEF Inv
<1> QED
  BY <1>3, <1>4

LEMMA EnterPreserves ==
    ASSUME Inv, NEW c \in Callers, NEW a \in Accounts,
           NEW op \in {"pull", "write", "export"}, Enter(c, a, op)
    PROVE  Inv'
<1> DEFINE call == [pc |-> "looking", op |-> op, account |-> a, reservation |-> 0]
<1>1. /\ At(c, "idle") /\ a \notin blocked
      /\ active' = [active EXCEPT ![a] = @ + 1]
      /\ caller' = [caller EXCEPT ![c] = call]
      /\ UNCHANGED <<files, sidecars, size, stores, blocked, reserved, total, erased>>
  BY DEF Enter, disk, capacity
<1>2. call \in Calls /\ call.pc = "looking" /\ call.account = a
  BY DEF Calls, Working
<1> HIDE DEF call
<1>3. /\ caller' \in [Callers -> Calls] /\ caller'[c] = call
      /\ \A d \in Callers \ {c} : caller'[d] = caller[d]
      /\ \A d \in Callers : ~At(d, "idle")' => caller'[d].account \in Accounts
  BY <1>1, <1>2, OneCallerMoves DEF Inv
<1>4. TypeOK'
  BY <1>1, <1>3 DEF Inv, TypeOK
<1>5. /\ Inside(a)' = Inside(a) \cup {c} /\ c \notin Inside(a)
      /\ \A b \in Accounts \ {a} : Inside(b)' = Inside(b)
  BY <1>1, <1>2, <1>3 DEF Inside, At, Working
<1>6. ActiveCounts'
  <2>1. Cardinality(Inside(a)') = Cardinality(Inside(a)) + 1
    BY <1>5, InsideFinite, FS_AddElement
  <2> QED
    BY <1>1, <1>5, <2>1 DEF Inv, TypeOK, ActiveCounts
<1>7. \A d \in Callers : caller'[d].pc \in Erasing =>
          caller'[d] = caller[d] /\ caller[d].account # a
  BY <1>1, <1>2, <1>3 DEF Inv, ErasureBlocks, Erasing
<1>8. ErasureBlocks' /\ ErasureForgetsStore' /\ ErasureRemoves'
  BY <1>1, <1>7 DEF Inv, ErasureBlocks, ErasureForgetsStore, ErasureRemoves, Erasing, At
<1>9. NoWorkDuringErasure'
  <2>1. SUFFICES ASSUME NEW d \in Callers,
                        caller'[d].pc \in {"unlinking", "sidecars"}
                 PROVE  Inside(caller[d].account)' = {}
    BY DEF NoWorkDuringErasure
  <2>2. PICK b \in Accounts \ {a} : caller'[d] = caller[d] /\ caller[d].account = b
    BY <1>7, <2>1 DEF Inv, TypeOK, At, Erasing
  <2>3. Inside(b) = {}
    BY <2>1, <2>2 DEF Inv, NoWorkDuringErasure
  <2> QED
    BY <1>5, <2>2, <2>3
<1>10. StoresHaveDatabases'
  BY <1>1, <1>2, <1>3 DEF Inv, StoresHaveDatabases, At
<1> QED
  BY <1>1, <1>4, <1>6, <1>8, <1>9, <1>10 DEF Inv, ErasedIsBlocked, ErasedStaysErased

LEMMA LeavePreserves ==
    ASSUME Inv, NEW c \in Callers, Leave(c)
    PROVE  Inv'
<1>0. PICK a \in Accounts : a = caller[c].account
  BY DEF Leave, Inv, TypeOK, At
<1>1. /\ At(c, "leaving")
      /\ active' = [active EXCEPT ![a] = @ - 1]
      /\ caller' = [caller EXCEPT ![c] = NotCalling]
      /\ UNCHANGED <<files, sidecars, size, stores, blocked, reserved, total, erased>>
  BY <1>0 DEF Leave, disk, capacity
<1>2. NotCalling \in Calls /\ NotCalling.pc = "idle"
  BY DEF Calls, NotCalling
<1>3. /\ caller' \in [Callers -> Calls] /\ caller'[c] = NotCalling
      /\ \A d \in Callers \ {c} : caller'[d] = caller[d]
      /\ \A d \in Callers : ~At(d, "idle")' => caller'[d].account \in Accounts
  BY <1>1, <1>2, OneCallerMoves DEF Inv
<1>4. /\ Inside(a)' = Inside(a) \ {c} /\ c \in Inside(a)
      /\ \A b \in Accounts \ {a} : Inside(b)' = Inside(b)
  BY <1>0, <1>1, <1>2, <1>3 DEF Inside, At, Working
<1>5. /\ Cardinality(Inside(a)') = Cardinality(Inside(a)) - 1
      /\ Cardinality(Inside(a)') \in Nat
  BY <1>4, InsideFinite, FS_RemoveElement, FS_CardinalityType
<1>6. ActiveCounts' /\ active' \in [Accounts -> Nat]
  BY <1>1, <1>4, <1>5 DEF Inv, TypeOK, ActiveCounts
<1>7. TypeOK'
  BY <1>1, <1>3, <1>6 DEF Inv, TypeOK
<1>8. \A d \in Callers : caller'[d].pc \in Erasing => caller'[d] = caller[d]
  BY <1>2, <1>3 DEF Erasing
<1>9. ErasureBlocks' /\ ErasureForgetsStore' /\ ErasureRemoves'
  BY <1>1, <1>8 DEF Inv, ErasureBlocks, ErasureForgetsStore, ErasureRemoves, Erasing, At
<1>10. NoWorkDuringErasure'
  <2>1. \A b \in Accounts : Inside(b)' \subseteq Inside(b)
    BY <1>4
  <2> QED
    BY <1>8, <2>1 DEF Inv, TypeOK, At, NoWorkDuringErasure, Erasing
<1>11. StoresHaveDatabases'
  BY <1>1, <1>2, <1>3 DEF Inv, StoresHaveDatabases, At
<1> QED
  BY <1>1, <1>6, <1>7, <1>9, <1>10, <1>11 DEF Inv, ErasedIsBlocked, ErasedStaysErased

-----------------------------------------------------------------------------
LEMMA BeginErasePreserves ==
    ASSUME Inv, NEW c \in Callers, NEW a \in Accounts, BeginErase(c, a)
    PROVE  Inv'
<1> DEFINE call == [pc |-> "draining", op |-> "erase", account |-> a,
                    reservation |-> 0]
<1>1. /\ At(c, "idle") /\ c \in Erasers /\ blocked' = blocked \cup {a}
      /\ caller' = [caller EXCEPT ![c] = call]
      /\ UNCHANGED <<files, sidecars, size, stores, active, reserved, total, erased>>
  BY DEF BeginErase, disk, capacity
<1>2. call \in Calls /\ call.pc = "draining" /\ call.account = a
  BY DEF Calls, Erasing
<1> HIDE DEF call
<1>3. /\ caller' \in [Callers -> Calls] /\ caller'[c] = call
      /\ \A d \in Callers \ {c} : caller'[d] = caller[d]
      /\ \A d \in Callers : ~At(d, "idle")' => caller'[d].account \in Accounts
  BY <1>1, <1>2, OneCallerMoves DEF Inv
<1>4. TypeOK'
  BY <1>1, <1>3 DEF Inv, TypeOK
<1>5. \A b : Inside(b)' = Inside(b)
  BY <1>1, <1>2, <1>3, SameInside DEF At, Working
<1>6. ActiveCounts'
  BY <1>1, <1>5 DEF Inv, ActiveCounts
<1>7. ErasureBlocks' /\ ErasureForgetsStore' /\ ErasureRemoves'
  BY <1>1, <1>2, <1>3
     DEF Inv, ErasureBlocks, ErasureForgetsStore, ErasureRemoves, Erasing, At
<1>8. NoWorkDuringErasure' /\ StoresHaveDatabases'
  BY <1>1, <1>2, <1>3, <1>5 DEF Inv, NoWorkDuringErasure, StoresHaveDatabases, At
<1> QED
  BY <1>1, <1>4, <1>6, <1>7, <1>8 DEF Inv, ErasedIsBlocked, ErasedStaysErased

(* An empty count lets the erasure go on only when nobody is inside.       *)
LEMMA DrainPreserves ==
    ASSUME Inv, NEW c \in Callers, Drain(c)
    PROVE  Inv'
<1>0. PICK a \in Accounts : a = caller[c].account
  BY DEF Drain, Drained, Inv, TypeOK, At
<1>1. /\ At(c, "draining") /\ active[a] = 0
      /\ stores' = stores \ {a} /\ Goto(c, "unlinking")
      /\ UNCHANGED <<files, sidecars, size, active, blocked, reserved, total, erased>>
  BY <1>0 DEF Drain, Drained, disk, capacity
<1>2. /\ caller' \in [Callers -> Calls] /\ caller'[c].pc = "unlinking"
      /\ caller'[c].account = a
      /\ \A d \in Callers \ {c} : caller'[d] = caller[d]
      /\ \A d \in Callers : ~At(d, "idle")' => caller'[d].account \in Accounts
  BY <1>0, <1>1, GotoMoves DEF Inv, At, Erasing
<1>3. TypeOK'
  <2>1. Cardinality(stores') <= MaxCachedStores
    <3>1. IsFiniteSet(stores)
      BY TenantAssumption, FS_Subset DEF Inv, TypeOK, TenantAssumption
    <3>2. stores' \subseteq stores
      BY <1>1
    <3>3. Cardinality(stores') <= Cardinality(stores) /\ IsFiniteSet(stores')
      BY <3>1, <3>2, FS_Subset
    <3>4. Cardinality(stores') \in Nat /\ Cardinality(stores) \in Nat
      BY <3>1, <3>3, FS_CardinalityType
    <3> QED
      BY <3>3, <3>4, TenantAssumption DEF Inv, TypeOK, TenantAssumption
  <2> QED
    BY <1>1, <1>2, <2>1 DEF Inv, TypeOK
<1>4. \A b : Inside(b)' = Inside(b)
  BY <1>1, <1>2, SameInside DEF At, Working
<1>5. ActiveCounts' /\ Inside(a)' = {}
  <2>1. Cardinality(Inside(a)) = 0
    BY <1>1 DEF Inv, ActiveCounts
  <2>2. Inside(a)' = {}
    BY <1>4, <2>1, InsideFinite
  <2> QED
    BY <1>1, <1>4, <2>2 DEF Inv, ActiveCounts
<1>6. ErasureBlocks' /\ ErasureForgetsStore' /\ ErasureRemoves'
  BY <1>0, <1>1, <1>2
     DEF Inv, ErasureBlocks, ErasureForgetsStore, ErasureRemoves, Erasing, At
<1>7. NoWorkDuringErasure'
  BY <1>0, <1>2, <1>4, <1>5 DEF Inv, NoWorkDuringErasure
<1>8. StoresHaveDatabases'
  BY <1>1, <1>2 DEF Inv, StoresHaveDatabases, At
<1> QED
  BY <1>1, <1>3, <1>5, <1>6, <1>7, <1>8 DEF Inv, ErasedIsBlocked, ErasedStaysErased

LEMMA UnlinkDatabasePreserves ==
    ASSUME Inv, NEW c \in Callers, UnlinkDatabase(c)
    PROVE  Inv'
<1> DEFINE a == caller[c].account
<1>1. /\ At(c, "unlinking") /\ a \in Accounts
      /\ files' = files \ {a} /\ Goto(c, "sidecars")
      /\ UNCHANGED <<sidecars, stores, active, blocked, reserved, total, erased>>
  BY DEF UnlinkDatabase, registry, capacity, Inv, TypeOK, At
<1>2. size' \in [Accounts -> Nat]
  <2>1. PICK left \in 0..size[a] : size' = [size EXCEPT ![a] = left]
    BY DEF UnlinkDatabase
  <2> QED
    BY <1>1, <2>1 DEF Inv, TypeOK
<1>3. /\ caller' \in [Callers -> Calls] /\ caller'[c].pc = "sidecars"
      /\ caller'[c].account = a
      /\ \A d \in Callers \ {c} : caller'[d] = caller[d]
      /\ \A d \in Callers : ~At(d, "idle")' => caller'[d].account \in Accounts
  BY <1>1, GotoMoves DEF Inv, At, Erasing
<1>4. TypeOK'
  BY <1>1, <1>2, <1>3 DEF Inv, TypeOK
<1>5. \A b : Inside(b)' = Inside(b)
  BY <1>1, <1>3, SameInside DEF At, Working
<1>6. ActiveCounts'
  BY <1>1, <1>5 DEF Inv, ActiveCounts
<1>7. ErasureBlocks' /\ ErasureForgetsStore' /\ ErasureRemoves'
  BY <1>1, <1>3
     DEF Inv, ErasureBlocks, ErasureForgetsStore, ErasureRemoves, Erasing, At
<1>8. NoWorkDuringErasure'
  BY <1>1, <1>3, <1>5 DEF Inv, NoWorkDuringErasure, At
<1>9. StoresHaveDatabases'
  <2>1. a \notin stores /\ Inside(a) = {}
    BY <1>1 DEF Inv, ErasureForgetsStore, NoWorkDuringErasure, At
  <2>2. \A d \in Callers : At(d, "working")' =>
            At(d, "working") /\ caller'[d] = caller[d] /\ caller[d].account # a
    BY <1>3, <2>1 DEF At, Inside, Working
  <2> QED
    BY <1>1, <2>1, <2>2 DEF Inv, StoresHaveDatabases
<1> QED
  BY <1>1, <1>4, <1>6, <1>7, <1>8, <1>9 DEF Inv, ErasedIsBlocked, ErasedStaysErased

(* A thread that ends its erasure is idle, and the others stand still.     *)
LEMMA ErasureEnds ==
    ASSUME Inv, NEW c \in Callers, caller[c].pc \in Erasing,
           caller' = [caller EXCEPT ![c] = NotCalling],
           UNCHANGED <<files, stores, active>>
    PROVE  /\ caller' \in [Callers -> Calls]
           /\ \A d \in Callers : ~At(d, "idle")' => caller'[d].account \in Accounts
           /\ caller'[c].pc = "idle"
           /\ \A d \in Callers \ {c} : caller'[d] = caller[d]
           /\ ActiveCounts' /\ ErasureForgetsStore' /\ ErasureRemoves'
           /\ NoWorkDuringErasure' /\ StoresHaveDatabases'
<1>1. NotCalling \in Calls /\ NotCalling.pc = "idle"
  BY DEF Calls, NotCalling
<1>2. /\ caller' \in [Callers -> Calls] /\ caller'[c] = NotCalling
      /\ \A d \in Callers \ {c} : caller'[d] = caller[d]
      /\ \A d \in Callers : ~At(d, "idle")' => caller'[d].account \in Accounts
  BY <1>1, OneCallerMoves DEF Inv
<1>3. \A b : Inside(b)' = Inside(b)
  BY <1>1, <1>2, SameInside DEF Erasing, Working
<1>4. ActiveCounts' /\ NoWorkDuringErasure'
  BY <1>1, <1>2, <1>3 DEF Inv, ActiveCounts, NoWorkDuringErasure
<1>5. ErasureForgetsStore' /\ ErasureRemoves' /\ StoresHaveDatabases'
  BY <1>1, <1>2 DEF Inv, ErasureForgetsStore, ErasureRemoves, StoresHaveDatabases, At
<1> QED
  BY <1>1, <1>2, <1>4, <1>5

LEMMA UnlinkSidecarsPreserves ==
    ASSUME Inv, NEW c \in Callers, UnlinkSidecars(c)
    PROVE  Inv'
<1> DEFINE a == caller[c].account
<1>1. /\ At(c, "sidecars") /\ a \in Accounts
      /\ sidecars' = sidecars \ {a} /\ erased' = erased \cup {a}
      /\ size' = [size EXCEPT ![a] = 0]
      /\ caller' = [caller EXCEPT ![c] = NotCalling]
      /\ UNCHANGED <<files, stores, active, blocked, reserved, total>>
  BY DEF UnlinkSidecars, registry, capacity, Inv, TypeOK, At
<1>2. /\ caller' \in [Callers -> Calls]
      /\ \A d \in Callers : ~At(d, "idle")' => caller'[d].account \in Accounts
      /\ caller'[c].pc = "idle"
      /\ \A d \in Callers \ {c} : caller'[d] = caller[d]
      /\ ActiveCounts' /\ ErasureForgetsStore' /\ ErasureRemoves'
      /\ NoWorkDuringErasure' /\ StoresHaveDatabases'
  BY <1>1, ErasureEnds DEF At, Erasing
<1>3. TypeOK'
  BY <1>1, <1>2 DEF Inv, TypeOK
<1>4. ErasureBlocks'
  BY <1>1, <1>2 DEF Inv, ErasureBlocks, Erasing
<1>5. a \in blocked /\ a \notin files
  BY <1>1 DEF Inv, ErasureBlocks, ErasureRemoves, At, Erasing
<1>6. ErasedIsBlocked' /\ ErasedStaysErased'
  BY <1>1, <1>5 DEF Inv, ErasedIsBlocked, ErasedStaysErased
<1> QED
  BY <1>2, <1>3, <1>4, <1>6 DEF Inv

(* A failed erasure unblocks its account, which no other thread is erasing *)
(* and whose erasure has not returned before: a file of it is still there. *)
LEMMA FailErasePreserves ==
    ASSUME OneEraser, Inv, NEW c \in Callers, FailErase(c)
    PROVE  Inv'
<1> DEFINE a == caller[c].account
<1>1. /\ caller[c].pc \in Erasing /\ a \in files \cup sidecars
      /\ blocked' = blocked \ {a}
      /\ caller' = [caller EXCEPT ![c] = NotCalling]
      /\ UNCHANGED <<files, sidecars, size, stores, active, reserved, total, erased>>
  BY DEF FailErase, disk, capacity, At, Erasing
<1>2. /\ caller' \in [Callers -> Calls]
      /\ \A d \in Callers : ~At(d, "idle")' => caller'[d].account \in Accounts
      /\ caller'[c].pc = "idle"
      /\ \A d \in Callers \ {c} : caller'[d] = caller[d]
      /\ ActiveCounts' /\ ErasureForgetsStore' /\ ErasureRemoves'
      /\ NoWorkDuringErasure' /\ StoresHaveDatabases'
  BY <1>1, ErasureEnds
<1>3. TypeOK'
  BY <1>1, <1>2 DEF Inv, TypeOK
<1>4. \A d \in Callers : caller'[d].pc \notin Erasing
  <2>1. \A d \in Callers : caller[d].pc \in Erasing => d = c
    BY <1>1 DEF Inv, ErasureBlocks, OneEraser
  <2> QED
    BY <1>2, <2>1 DEF Erasing
<1>5. ErasureBlocks'
  BY <1>4 DEF ErasureBlocks
<1>6. ErasedIsBlocked' /\ ErasedStaysErased'
  BY <1>1 DEF Inv, ErasedIsBlocked, ErasedStaysErased
<1> QED
  BY <1>2, <1>3, <1>5, <1>6 DEF Inv

-----------------------------------------------------------------------------
(* A process that has just started is in an account with no thread.        *)
LEMMA NobodyCalls ==
    ASSUME files \subseteq Accounts, sidecars \subseteq Accounts,
           size \in [Accounts -> Nat],
           stores = {}, active = [a \in Accounts |-> 0], blocked = {},
           reserved = [a \in Accounts |-> 0], total = 0,
           caller = [c \in Callers |-> NotCalling], erased = {}
    PROVE  Inv
<1>1. \A c \in Callers : caller[c] = NotCalling /\ caller[c].pc = "idle"
  BY DEF NotCalling
<1>2. NotCalling \in Calls
  BY DEF Calls, NotCalling
<1>3. TypeOK
  BY <1>1, <1>2, FS_EmptySet, TenantAssumption DEF TypeOK, At, TenantAssumption
<1>4. \A a : Inside(a) = {}
  BY <1>1 DEF Inside, Working
<1>5. ActiveCounts
  BY <1>4, FS_EmptySet DEF ActiveCounts
<1> QED
  BY <1>1, <1>3, <1>4, <1>5
     DEF Inv, ErasureBlocks, ErasureForgetsStore, ErasureRemoves, NoWorkDuringErasure,
         StoresHaveDatabases, ErasedIsBlocked, ErasedStaysErased, At, Erasing

LEMMA RestartPreserves ==
    ASSUME Inv, Restart
    PROVE  Inv'
<1>1. UNCHANGED <<files, sidecars, size>>
  BY DEF Restart, disk
<1>2. /\ files' \subseteq Accounts /\ sidecars' \subseteq Accounts
      /\ size' \in [Accounts -> Nat]
  BY <1>1 DEF Inv, TypeOK
<1>3. /\ stores' = {} /\ active' = [a \in Accounts |-> 0] /\ blocked' = {}
      /\ reserved' = [a \in Accounts |-> 0] /\ total' = 0
      /\ caller' = [c \in Callers |-> NotCalling] /\ erased' = {}
  BY DEF Restart
<1>4. \A c \in Callers : caller'[c] = NotCalling /\ caller'[c].pc = "idle"
  BY <1>3 DEF NotCalling
<1>5. NotCalling \in Calls
  BY DEF Calls, NotCalling
<1>6. TypeOK'
  BY <1>2, <1>3, <1>4, <1>5, FS_EmptySet, TenantAssumption
     DEF TypeOK, At, TenantAssumption
<1>7. \A a : Inside(a)' = {}
  BY <1>4 DEF Inside, Working
<1>8. ActiveCounts'
  BY <1>3, <1>7, FS_EmptySet DEF ActiveCounts
<1> QED
  BY <1>3, <1>4, <1>6, <1>7, <1>8
     DEF Inv, ErasureBlocks, ErasureForgetsStore, ErasureRemoves, NoWorkDuringErasure,
         StoresHaveDatabases, ErasedIsBlocked, ErasedStaysErased, At, Erasing

LEMMA StutterPreserves ==
    ASSUME Inv, UNCHANGED vars
    PROVE  Inv'
<1>1. UNCHANGED <<files, sidecars, size, stores, active, blocked, reserved, total,
                  caller, erased>>
  BY DEF vars, disk, registry, capacity
<1>2. \A a : Inside(a)' = Inside(a)
  BY <1>1 DEF Inside
<1> QED
  BY <1>1, <1>2 DEF Inv, TypeOK, ActiveCounts, ErasureBlocks, ErasureForgetsStore,
     ErasureRemoves, NoWorkDuringErasure, StoresHaveDatabases, ErasedIsBlocked,
     ErasedStaysErased, At

(* With at most one thread that erases, Inv is an invariant.               *)
THEOREM TenantInvariance ==
    ASSUME OneEraser
    PROVE  Spec => []Inv
<1>1. Init => Inv
  BY NobodyCalls DEF Init
<1>2. Inv /\ [Next]_vars => Inv'
  <2> SUFFICES ASSUME Inv, [Next]_vars
               PROVE  Inv'
    OBVIOUS
  <2>1. CASE \E c \in Callers : Proceed(c)
    BY <2>1, LookPreserves, ReservePreserves, OpenPreserves, WorkPreserves,
       ReleasePreserves, LeavePreserves, DrainPreserves, UnlinkDatabasePreserves,
       UnlinkSidecarsPreserves, FailErasePreserves DEF Proceed
  <2>2. CASE \E c \in Callers, a \in Accounts : BeginErase(c, a)
    BY <2>2, BeginErasePreserves
  <2>3. CASE \E c \in Callers, a \in Accounts, op \in {"pull", "write", "export"} :
               Enter(c, a, op)
    BY <2>3, EnterPreserves
  <2>4. CASE Restart
    BY <2>4, RestartPreserves
  <2>5. CASE UNCHANGED vars
    BY <2>5, StutterPreserves
  <2> QED
    BY <2>1, <2>2, <2>3, <2>4, <2>5 DEF Next
<1> QED
  BY <1>1, <1>2, PTL DEF Spec

(* The registry keeps its shape, and the cache its limit.                  *)
THEOREM TenantType ==
    ASSUME OneEraser
    PROVE  Spec => []TypeOK
<1>1. Inv => TypeOK
  BY DEF Inv
<1> QED
  BY <1>1, TenantInvariance, PTL

(* Files are never removed under an operation, for any number of threads.  *)
THEOREM OperationsExcludeErasure ==
    ASSUME OneEraser
    PROVE  Spec => []NoWorkDuringErasure
<1>1. Inv => NoWorkDuringErasure
  BY DEF Inv
<1> QED
  BY <1>1, TenantInvariance, PTL

(* No Store outlives its database, also when an erasure fails half-way.    *)
THEOREM StoresKeepDatabases ==
    ASSUME OneEraser
    PROVE  Spec => []StoresHaveDatabases
<1>1. Inv => StoresHaveDatabases
  BY DEF Inv
<1> QED
  BY <1>1, TenantInvariance, PTL

(* Nothing recreates the files of an account whose erasure has returned.   *)
THEOREM ErasureIsFinal ==
    ASSUME OneEraser
    PROVE  Spec => []ErasedStaysErased
<1>1. Inv => ErasedStaysErased
  BY DEF Inv
<1> QED
  BY <1>1, TenantInvariance, PTL

-----------------------------------------------------------------------------
(* Sums over finite sets.  MapThenSumSet is a recursive function on the    *)
(* subsets of the set, which takes elements off in the order of Pick.      *)
Pick(s) == CHOOSE x \in s : TRUE
Sum(f, S) == MapThenSumSet(LAMBDA x : f[x], S)
Partial(g, f, S) ==
    g = [s \in SUBSET S |-> IF s = {} THEN 0 ELSE f[Pick(s)] + g[s \ {Pick(s)}]]

(* What holds of a subset whenever it holds of the smaller ones holds of   *)
(* all.                                                                    *)
LEMMA SubsetInduction ==
    ASSUME NEW U, IsFiniteSet(U), NEW P,
           \A s \in SUBSET U :
              (\A r \in SUBSET U : Cardinality(r) < Cardinality(s) => r \in P) => s \in P
    PROVE  \A s \in SUBSET U : s \in P
<1> DEFINE T == {Cardinality(s) : s \in {r \in SUBSET U : r \notin P}}
<1> SUFFICES ASSUME T # {} PROVE FALSE
  OBVIOUS
<1>1. \A s \in SUBSET U : Cardinality(s) \in Nat
  BY FS_Subset, FS_CardinalityType
<1>2. T \subseteq Nat
  BY <1>1
<1>3. PICK n \in T : \A m \in T : ~(<<m, n>> \in OpToRel(<, Nat))
  <2> HIDE DEF T
  <2> QED
    BY <1>2, NatLessThanWellFounded, WFMin
<1>4. PICK s \in SUBSET U : s \notin P /\ n = Cardinality(s)
  OBVIOUS
<1>5. PICK r \in SUBSET U : Cardinality(r) < Cardinality(s) /\ r \notin P
  BY <1>4
<1>6. Cardinality(r) \in T /\ <<Cardinality(r), n>> \in OpToRel(<, Nat)
  BY <1>1, <1>4, <1>5 DEF OpToRel
<1> QED
  BY <1>3, <1>6

LEMMA PickSmaller ==
    ASSUME NEW U, IsFiniteSet(U), NEW s \in SUBSET U, NEW x \in s
    PROVE  s \ {x} \in SUBSET U /\ Cardinality(s \ {x}) < Cardinality(s)
<1>1. IsFiniteSet(s) /\ Cardinality(s) \in Nat
  BY FS_Subset, FS_CardinalityType
<1>2. Cardinality(s \ {x}) = Cardinality(s) - 1
  BY <1>1, FS_RemoveElement
<1> QED
  BY <1>1, <1>2

(* Partial sums do not depend on the set they are taken in.                *)
LEMMA PartialsAgree ==
    ASSUME NEW U, IsFiniteSet(U), NEW f, NEW S \in SUBSET U, NEW T \in SUBSET U,
           NEW g, NEW h, Partial(g, f, S), Partial(h, f, T)
    PROVE  \A s \in SUBSET U : s \in SUBSET S /\ s \in SUBSET T => g[s] = h[s]
<1> DEFINE P == {s \in SUBSET U : s \in SUBSET S /\ s \in SUBSET T => g[s] = h[s]}
<1>1. ASSUME NEW s \in SUBSET U,
             \A r \in SUBSET U : Cardinality(r) < Cardinality(s) => r \in P
      PROVE  s \in P
  <2> SUFFICES ASSUME s \in SUBSET S, s \in SUBSET T PROVE g[s] = h[s]
    OBVIOUS
  <2>1. /\ g[s] = IF s = {} THEN 0 ELSE f[Pick(s)] + g[s \ {Pick(s)}]
        /\ h[s] = IF s = {} THEN 0 ELSE f[Pick(s)] + h[s \ {Pick(s)}]
    BY DEF Partial
  <2>2. CASE s # {}
    <3>1. Pick(s) \in s
      BY <2>2 DEF Pick
    <3>2. s \ {Pick(s)} \in P
      BY <1>1, <3>1, PickSmaller
    <3> QED
      BY <2>1, <2>2, <3>2
  <2> QED
    BY <2>1, <2>2
<1> HIDE DEF P
<1>2. \A s \in SUBSET U : s \in P
  BY <1>1, SubsetInduction
<1> QED
  BY <1>2 DEF P

LEMMA PartialsExist ==
    ASSUME NEW U, IsFiniteSet(U), NEW f
    PROVE  \A s \in SUBSET U : \E g : Partial(g, f, s)
<1> DEFINE P == {s \in SUBSET U : \E g : Partial(g, f, s)}
           part(r) == CHOOSE g : Partial(g, f, r)
<1>1. ASSUME NEW s \in SUBSET U,
             \A r \in SUBSET U : Cardinality(r) < Cardinality(s) => r \in P
      PROVE  s \in P
  <2> DEFINE rest(r) == r \ {Pick(r)}
             h == [r \in SUBSET s |->
                     IF r = {} THEN 0 ELSE f[Pick(r)] + part(rest(r))[rest(r)]]
  <2>1. ASSUME NEW r \in SUBSET s, r # {}
        PROVE  /\ rest(r) \in SUBSET s /\ rest(r) \in SUBSET U
               /\ Partial(part(rest(r)), f, rest(r))
    <3>1. Pick(r) \in r /\ r \in SUBSET U
      BY <2>1 DEF Pick
    <3>2. rest(r) \in SUBSET U /\ Cardinality(rest(r)) < Cardinality(r)
      BY <3>1, PickSmaller
    <3>3. Cardinality(r) <= Cardinality(s) /\ Cardinality(s) \in Nat
          /\ Cardinality(r) \in Nat /\ Cardinality(rest(r)) \in Nat
      BY <3>1, <3>2, FS_Subset, FS_CardinalityType
    <3>4. Cardinality(rest(r)) < Cardinality(s)
      <4> HIDE DEF rest
      <4> QED
        BY <3>2, <3>3
    <3>5. rest(r) \in P
      BY <1>1, <3>2, <3>4
    <3> QED
      BY <3>2, <3>5
  <2>2. ASSUME NEW r \in SUBSET s, r # {}
        PROVE  h[rest(r)] = part(rest(r))[rest(r)]
    <3> DEFINE q == rest(r)
    <3>1. q \in SUBSET s /\ q \in SUBSET U /\ Partial(part(q), f, q)
      BY <2>1, <2>2
    <3> HIDE DEF q
    <3>2. part(q)[q] = IF q = {} THEN 0 ELSE f[Pick(q)] + part(q)[rest(q)]
      <4> HIDE DEF part
      <4> QED
        BY <3>1 DEF Partial
    <3>3. CASE q = {}
      BY <3>1, <3>2, <3>3 DEF q
    <3>4. CASE q # {}
      <4>1. rest(q) \in SUBSET U /\ Partial(part(rest(q)), f, rest(q))
            /\ rest(q) \in SUBSET q /\ rest(q) \in SUBSET rest(q)
        BY <2>1, <3>1, <3>4
      <4>2. part(rest(q))[rest(q)] = part(q)[rest(q)]
        <5> HIDE DEF part, rest
        <5> QED
          BY <3>1, <4>1, PartialsAgree
      <4>3. h[q] = f[Pick(q)] + part(rest(q))[rest(q)]
        <5> HIDE DEF part
        <5> QED
          BY <3>1, <3>4
      <4>4. h[q] = part(q)[q]
        BY <3>2, <3>4, <4>2, <4>3
      <4> QED
        BY <4>4 DEF q
    <3> QED
      BY <3>3, <3>4
  <2>3. ASSUME NEW r \in SUBSET s
        PROVE  h[r] = IF r = {} THEN 0 ELSE f[Pick(r)] + h[rest(r)]
    <3>1. h[r] = IF r = {} THEN 0 ELSE f[Pick(r)] + part(rest(r))[rest(r)]
      <4> HIDE DEF part, rest
      <4> QED
        OBVIOUS
    <3> HIDE DEF h, part
    <3> QED
      BY <2>2, <3>1
  <2>4. h = [r \in SUBSET s |-> h[r]]
    <3> HIDE DEF part, rest
    <3> QED
      OBVIOUS
  <2>5. Partial(h, f, s)
    <3> HIDE DEF h
    <3> QED
      BY <2>3, <2>4 DEF Partial
  <2> HIDE DEF h
  <2> QED
    BY <2>5
<1> HIDE DEF P
<1>2. \A s \in SUBSET U : s \in P
  BY <1>1, SubsetInduction
<1> QED
  BY <1>2 DEF P

(* MapThenSumSet is the last of the partial sums.                          *)
LEMMA SumIsPartial ==
    ASSUME NEW S, IsFiniteSet(S), NEW f, NEW g, Partial(g, f, S)
    PROVE  Sum(f, S) = g[S]
<1> DEFINE iter == CHOOSE h : h = [s \in SUBSET S |->
                     IF s = {} THEN 0 ELSE f[Pick(s)] + h[s \ {Pick(s)}]]
<1>1. Sum(f, S) = iter[S]
  BY DEF Sum, MapThenSumSet, MapThenFoldSet, Pick
<1>2. iter = CHOOSE h : Partial(h, f, S)
  BY DEF Partial
<1>3. Partial(iter, f, S)
  <2> HIDE DEF iter
  <2> QED
    BY <1>2
<1> HIDE DEF iter
<1> QED
  BY <1>1, <1>3, PartialsAgree

(* Nothing sums to 0; otherwise one element and the others.                *)
LEMMA SumOfNone == ASSUME NEW f PROVE Sum(f, {}) = 0
<1>1. IsFiniteSet({})
  BY FS_EmptySet
<1>2. PICK g : Partial(g, f, {})
  BY <1>1, PartialsExist
<1> QED
  BY <1>1, <1>2, SumIsPartial, ZenonT(40) DEF Partial

LEMMA SumOfPick ==
    ASSUME NEW S, IsFiniteSet(S), S # {}, NEW f
    PROVE  Pick(S) \in S /\ Sum(f, S) = f[Pick(S)] + Sum(f, S \ {Pick(S)})
<1> DEFINE rest == S \ {Pick(S)}
<1>1. Pick(S) \in S /\ rest \in SUBSET S /\ IsFiniteSet(rest)
  BY FS_Subset DEF Pick
<1>2. PICK g : Partial(g, f, S)
  BY PartialsExist
<1>3. PICK h : Partial(h, f, rest)
  BY <1>1, PartialsExist
<1>4. g[rest] = h[rest]
  <2> HIDE DEF rest
  <2> QED
    BY <1>1, <1>2, <1>3, PartialsAgree
<1>5. g[S] = f[Pick(S)] + g[rest]
  BY <1>2 DEF Partial
<1> HIDE DEF rest
<1>6. Sum(f, S) = g[S] /\ Sum(f, rest) = h[rest]
  BY <1>1, <1>2, <1>3, SumIsPartial
<1> QED
  BY <1>1, <1>4, <1>5, <1>6 DEF rest

(* A sum of integers is one, and does not depend on the order.             *)
LEMMA SumIsInteger ==
    ASSUME NEW S, IsFiniteSet(S), NEW f, \A x \in S : f[x] \in Int
    PROVE  \A s \in SUBSET S : Sum(f, s) \in Int
<1> DEFINE P == {s \in SUBSET S : Sum(f, s) \in Int}
<1>1. ASSUME NEW s \in SUBSET S,
             \A r \in SUBSET S : Cardinality(r) < Cardinality(s) => r \in P
      PROVE  s \in P
  <2>1. CASE s = {}
    BY <2>1, SumOfNone
  <2>2. CASE s # {}
    <3>1. IsFiniteSet(s)
      BY FS_Subset
    <3>2. Pick(s) \in s /\ Sum(f, s) = f[Pick(s)] + Sum(f, s \ {Pick(s)})
      BY <2>2, <3>1, SumOfPick
    <3>3. s \ {Pick(s)} \in P
      BY <1>1, <3>2, PickSmaller
    <3> QED
      BY <3>2, <3>3
  <2> QED
    BY <2>1, <2>2
<1> HIDE DEF P
<1>2. \A s \in SUBSET S : s \in P
  BY <1>1, SubsetInduction
<1> QED
  BY <1>2 DEF P

LEMMA SumOfOne ==
    ASSUME NEW S, IsFiniteSet(S), NEW f, \A x \in S : f[x] \in Int
    PROVE  \A s \in SUBSET S : \A x \in s : Sum(f, s) = f[x] + Sum(f, s \ {x})
<1> DEFINE P == {s \in SUBSET S : \A x \in s : Sum(f, s) = f[x] + Sum(f, s \ {x})}
<1>1. ASSUME NEW s \in SUBSET S,
             \A r \in SUBSET S : Cardinality(r) < Cardinality(s) => r \in P
      PROVE  s \in P
  <2> SUFFICES ASSUME NEW x \in s PROVE Sum(f, s) = f[x] + Sum(f, s \ {x})
    OBVIOUS
  <2>1. PICK p : p = Pick(s)
    OBVIOUS
  <2>2. p \in s /\ Sum(f, s) = f[p] + Sum(f, s \ {p})
    BY <2>1, FS_Subset, SumOfPick
  <2>3. CASE x # p
    <3>1. s \ {p} \in P /\ s \ {x} \in P
      BY <1>1, <2>2, PickSmaller
    <3>2. Sum(f, s \ {p}) = f[x] + Sum(f, (s \ {p}) \ {x})
      BY <2>3, <3>1
    <3>3. Sum(f, s \ {x}) = f[p] + Sum(f, (s \ {x}) \ {p})
      BY <2>2, <2>3, <3>1
    <3>4. (s \ {p}) \ {x} = (s \ {x}) \ {p}
      OBVIOUS
    <3>5. PICK rest \in Int : rest = Sum(f, (s \ {x}) \ {p})
      BY SumIsInteger
    <3>6. f[x] \in Int /\ f[p] \in Int
      BY <2>2
    <3>7. Sum(f, s \ {p}) = f[x] + rest /\ Sum(f, s \ {x}) = f[p] + rest
      BY <3>2, <3>3, <3>4, <3>5
    <3> QED
      BY <2>2, <3>6, <3>7
  <2> QED
    BY <2>2, <2>3
<1> HIDE DEF P
<1>2. \A s \in SUBSET S : s \in P
  BY <1>1, SubsetInduction
<1> QED
  BY <1>2 DEF P

(* Sums grow with what is summed.                                          *)
LEMMA SumIsMonotonic ==
    ASSUME NEW S, IsFiniteSet(S), NEW f, NEW g,
           \A x \in S : f[x] \in Int /\ g[x] \in Int /\ f[x] <= g[x]
    PROVE  Sum(f, S) <= Sum(g, S)
<1> DEFINE P == {s \in SUBSET S : Sum(f, s) <= Sum(g, s)}
<1>1. ASSUME NEW s \in SUBSET S,
             \A r \in SUBSET S : Cardinality(r) < Cardinality(s) => r \in P
      PROVE  s \in P
  <2>1. CASE s = {}
    <3>1. Sum(f, s) = 0 /\ Sum(g, s) = 0
      BY <2>1, SumOfNone
    <3> QED
      BY <3>1
  <2>2. CASE s # {}
    <3>1. PICK p : p = Pick(s)
      OBVIOUS
    <3>2. /\ p \in s /\ Sum(f, s) = f[p] + Sum(f, s \ {p})
          /\ Sum(g, s) = g[p] + Sum(g, s \ {p})
      BY <2>2, <3>1, FS_Subset, SumOfPick
    <3>3. s \ {p} \in P
      BY <1>1, <3>2, PickSmaller
    <3>4. /\ Sum(f, s \ {p}) \in Int /\ Sum(g, s \ {p}) \in Int
          /\ f[p] \in Int /\ g[p] \in Int /\ f[p] <= g[p]
      BY <3>2, SumIsInteger
    <3> QED
      BY <3>2, <3>3, <3>4
  <2> QED
    BY <2>1, <2>2
<1> HIDE DEF P
<1>2. \A s \in SUBSET S : s \in P
  BY <1>1, SubsetInduction
<1> QED
  BY <1>2 DEF P

(* A change of one summand changes the sum by as much.                     *)
IntOn(f, S) == \A y \in S : f[y] \in Int
SameBut(f, g, S, x) == \A y \in S \ {x} : g[y] = f[y]

LEMMA SumOfChanged ==
    ASSUME NEW S, IsFiniteSet(S), NEW x \in S,
           NEW f, IntOn(f, S), NEW g, IntOn(g, S), SameBut(f, g, S, x)
    PROVE  /\ Sum(g, S) = Sum(f, S) - f[x] + g[x]
           /\ Sum(f, S) \in Int /\ Sum(g, S) \in Int
<1> USE DEF IntOn, SameBut
<1>1. Sum(f, S) = f[x] + Sum(f, S \ {x}) /\ Sum(g, S) = g[x] + Sum(g, S \ {x})
  BY SumOfOne
<1>2. IsFiniteSet(S \ {x})
  BY FS_Subset
<1>3. Sum(f, S \ {x}) <= Sum(g, S \ {x}) /\ Sum(g, S \ {x}) <= Sum(f, S \ {x})
  BY <1>2, SumIsMonotonic
<1>4. /\ Sum(f, S \ {x}) \in Int /\ Sum(g, S \ {x}) \in Int
      /\ Sum(f, S) \in Int /\ Sum(g, S) \in Int
  BY SumIsInteger
<1> QED
  BY <1>1, <1>3, <1>4

(* Equal summands, equal sums; nothing but zeros sums to 0; and zeros      *)
(* outside a subset do not count.                                          *)
LEMMA SumOfEqual ==
    ASSUME NEW S, IsFiniteSet(S), NEW f, NEW g,
           \A x \in S : f[x] \in Int /\ g[x] = f[x]
    PROVE  Sum(f, S) = Sum(g, S) /\ Sum(f, S) \in Int
<1>1. Sum(f, S) <= Sum(g, S) /\ Sum(g, S) <= Sum(f, S)
  BY SumIsMonotonic
<1>2. Sum(f, S) \in Int /\ Sum(g, S) \in Int
  BY SumIsInteger
<1> QED
  BY <1>1, <1>2

LEMMA SumOfSubset ==
    ASSUME NEW S, IsFiniteSet(S), NEW f, NEW T \in SUBSET S,
           \A x \in S : f[x] \in Int, \A x \in S \ T : f[x] = 0
    PROVE  Sum(f, S) = Sum(f, T)
<1> DEFINE P == {s \in SUBSET S : T \subseteq s => Sum(f, s) = Sum(f, T)}
<1>1. ASSUME NEW s \in SUBSET S,
             \A r \in SUBSET S : Cardinality(r) < Cardinality(s) => r \in P
      PROVE  s \in P
  <2> SUFFICES ASSUME T \subseteq s, s # T PROVE Sum(f, s) = Sum(f, T)
    OBVIOUS
  <2>1. PICK x \in s : x \notin T
    OBVIOUS
  <2>2. s \ {x} \in P /\ T \subseteq s \ {x}
    BY <1>1, <2>1, PickSmaller
  <2>3. Sum(f, s) = f[x] + Sum(f, s \ {x}) /\ f[x] = 0
    BY <2>1, SumOfOne
  <2>4. Sum(f, s \ {x}) = Sum(f, T) /\ Sum(f, T) \in Int
    BY <2>2, SumIsInteger
  <2> QED
    BY <2>3, <2>4
<1> HIDE DEF P
<1>2. \A s \in SUBSET S : s \in P
  BY <1>1, SubsetInduction
<1> QED
  BY <1>2 DEF P

LEMMA SumOfZeros ==
    ASSUME NEW S, IsFiniteSet(S), NEW f, \A x \in S : f[x] = 0
    PROVE  Sum(f, S) = 0
BY SumOfSubset, SumOfNone
-----------------------------------------------------------------------------
(* What one call holds of an account's capacity, until it is released, and *)
(* what its operation may still allocate.                                  *)
Held(call, a) == IF call.account = a THEN call.reservation ELSE 0
MayAllocate(call, a) ==
    IF call.account = a /\ call.pc \in {"opening", "working"} THEN call.reservation ELSE 0

HeldIn(cl, a) == Sum([c \in Callers |-> Held(cl[c], a)], Callers)
EntitledIn(cl, a) == Sum([c \in Callers |-> MayAllocate(cl[c], a)], Callers)
AllEntitled(cl) == Sum([a \in Accounts |-> EntitledIn(cl, a)], Accounts)

(* The part of TypeOK the capacity rests on.                               *)
CapacityType ==
    /\ size \in [Accounts -> Nat]
    /\ reserved \in [Accounts -> Int] /\ total \in Int
    /\ caller \in [Callers -> Calls]
    /\ \A c \in Callers : ~At(c, "idle") => caller[c].account \in Accounts

(* Only an operation between Reserve and Release has a reservation.        *)
HoldsWhileInside ==
    \A c \in Callers : caller[c].reservation # 0 =>
        caller[c].pc \in {"opening", "working", "releasing"}

(* The two tables under the capacity lock are the sums of what is held.    *)
TablesCountHeld ==
    /\ \A a \in Accounts : reserved[a] = HeldIn(caller, a)
    /\ total = Sum(reserved, Accounts)

(* What is allocated and what may still be stays within both limits.       *)
WithinLimits ==
    /\ \A a \in Accounts : size[a] + EntitledIn(caller, a) <= MaxTenant
    /\ Sum(size, Accounts) + AllEntitled(caller) <= Disk - MinFree

CapacityInv == CapacityType /\ HoldsWhileInside /\ TablesCountHeld /\ WithinLimits

-----------------------------------------------------------------------------
(* The model's sums over callers and over accounts are sums of functions.  *)
LEMMA ReservationsSum ==
    ASSUME NEW cl, NEW T, IsFiniteSet(T)
    PROVE  MapThenSumSet(LAMBDA c : cl[c].reservation, T)
             = Sum([c \in T |-> cl[c].reservation], T)
<1> DEFINE f == [c \in T |-> cl[c].reservation]
           iter == CHOOSE h : h = [s \in SUBSET T |->
                     IF s = {} THEN 0 ELSE cl[Pick(s)].reservation + h[s \ {Pick(s)}]]
<1>1. MapThenSumSet(LAMBDA c : cl[c].reservation, T) = iter[T]
  BY DEF MapThenSumSet, MapThenFoldSet, Pick
<1>2. ASSUME NEW h
      PROVE  h = [s \in SUBSET T |->
                    IF s = {} THEN 0 ELSE cl[Pick(s)].reservation + h[s \ {Pick(s)}]]
             <=> Partial(h, f, T)
  <2>1. \A s \in SUBSET T : s # {} => Pick(s) \in T
    BY DEF Pick
  <2>2. \A s \in SUBSET T :
          (IF s = {} THEN 0 ELSE cl[Pick(s)].reservation + h[s \ {Pick(s)}])
            = IF s = {} THEN 0 ELSE f[Pick(s)] + h[s \ {Pick(s)}]
    BY <2>1
  <2>3. [s \in SUBSET T |->
           IF s = {} THEN 0 ELSE cl[Pick(s)].reservation + h[s \ {Pick(s)}]]
        = [s \in SUBSET T |-> IF s = {} THEN 0 ELSE f[Pick(s)] + h[s \ {Pick(s)}]]
    <3> HIDE DEF f
    <3> QED
      BY <2>2
  <2> HIDE DEF f
  <2> QED
    BY <2>3 DEF Partial
<1> HIDE DEF f
<1>3. \E h : Partial(h, f, T)
  BY PartialsExist
<1>4. Partial(iter, f, T)
  <2>1. \E h : h = [s \in SUBSET T |->
                    IF s = {} THEN 0 ELSE cl[Pick(s)].reservation + h[s \ {Pick(s)}]]
    BY <1>2, <1>3
  <2>2. iter = [s \in SUBSET T |->
                    IF s = {} THEN 0 ELSE cl[Pick(s)].reservation + iter[s \ {Pick(s)}]]
    BY <2>1
  <2> HIDE DEF iter
  <2> QED
    BY <1>2, <2>2
<1> HIDE DEF iter
<1>5. Sum(f, T) = iter[T]
  BY <1>4, SumIsPartial
<1> QED
  BY <1>1, <1>5 DEF f

LEMMA EntitlementsSum ==
    ASSUME NEW g, \A a \in Accounts : Entitled(a) = g[a]
    PROVE  MapThenSumSet(Entitled, Accounts) = Sum(g, Accounts)
<1> DEFINE iter == CHOOSE h : h = [s \in SUBSET Accounts |->
                     IF s = {} THEN 0 ELSE Entitled(Pick(s)) + h[s \ {Pick(s)}]]
<1>0. IsFiniteSet(Accounts)
  BY TenantAssumption DEF TenantAssumption
<1>1. MapThenSumSet(Entitled, Accounts) = iter[Accounts]
  BY DEF MapThenSumSet, MapThenFoldSet, Pick
<1>2. ASSUME NEW h
      PROVE  h = [s \in SUBSET Accounts |->
                    IF s = {} THEN 0 ELSE Entitled(Pick(s)) + h[s \ {Pick(s)}]]
             <=> Partial(h, g, Accounts)
  <2>1. \A s \in SUBSET Accounts : s # {} => Pick(s) \in Accounts
    BY DEF Pick
  <2>2. \A s \in SUBSET Accounts :
          (IF s = {} THEN 0 ELSE Entitled(Pick(s)) + h[s \ {Pick(s)}])
            = IF s = {} THEN 0 ELSE g[Pick(s)] + h[s \ {Pick(s)}]
    BY <2>1
  <2>3. [s \in SUBSET Accounts |->
           IF s = {} THEN 0 ELSE Entitled(Pick(s)) + h[s \ {Pick(s)}]]
        = [s \in SUBSET Accounts |-> IF s = {} THEN 0 ELSE g[Pick(s)] + h[s \ {Pick(s)}]]
    BY <2>2
  <2> QED
    BY <2>3 DEF Partial
<1>3. \E h : Partial(h, g, Accounts)
  BY <1>0, PartialsExist
<1>4. Partial(iter, g, Accounts)
  <2>1. \E h : h = [s \in SUBSET Accounts |->
                    IF s = {} THEN 0 ELSE Entitled(Pick(s)) + h[s \ {Pick(s)}]]
    BY <1>2, <1>3
  <2>2. iter = [s \in SUBSET Accounts |->
                    IF s = {} THEN 0 ELSE Entitled(Pick(s)) + iter[s \ {Pick(s)}]]
    BY <2>1
  <2> HIDE DEF iter
  <2> QED
    BY <1>2, <2>2
<1> HIDE DEF iter
<1> QED
  BY <1>0, <1>1, <1>4, SumIsPartial

LEMMA UsedIsSum == Used = Sum(size, Accounts)
BY DEF Used, Sum

(* What the account's operations may still allocate, counted over all      *)
(* threads.                                                                *)
LEMMA EntitledIsSum ==
    ASSUME CapacityType, NEW a \in Accounts
    PROVE  Entitled(a) = EntitledIn(caller, a)
<1> DEFINE T == {c \in Inside(a) : caller[c].pc \in {"opening", "working"}}
           f == [c \in Callers |-> MayAllocate(caller[c], a)]
           g == [c \in T |-> caller[c].reservation]
<1>1. /\ IsFiniteSet(Callers) /\ T \subseteq Callers /\ IsFiniteSet(T)
      /\ \A c \in Callers : c \in T <=> /\ caller[c].account = a
                                        /\ caller[c].pc \in {"opening", "working"}
  <2>1. IsFiniteSet(Callers) /\ T \subseteq Callers
    BY TenantAssumption DEF TenantAssumption, Inside
  <2>2. \A c \in Callers : c \in T <=> /\ caller[c].account = a
                                       /\ caller[c].pc \in {"opening", "working"}
    BY DEF Inside, Working
  <2> HIDE DEF T
  <2> QED
    BY <2>1, <2>2, FS_Subset
<1>2. Entitled(a) = Sum(g, T)
  <2>1. Entitled(a) = MapThenSumSet(LAMBDA c : caller[c].reservation, T)
    BY DEF Entitled
  <2> HIDE DEF T
  <2> QED
    BY <1>1, <2>1, ReservationsSum
<1> HIDE DEF T
<1>3. \A c \in Callers : caller[c].reservation \in Nat
  BY DEF CapacityType, Calls
<1>4. /\ \A c \in Callers : f[c] \in Int
      /\ \A c \in Callers \ T : f[c] = 0
      /\ \A c \in T : f[c] \in Int /\ g[c] = f[c]
  BY <1>1, <1>3 DEF MayAllocate
<1> HIDE DEF f, g
<1>5. Sum(f, Callers) = Sum(f, T)
  BY <1>1, <1>4, SumOfSubset
<1>6. Sum(f, T) = Sum(g, T)
  BY <1>1, <1>4, SumOfEqual
<1> QED
  BY <1>2, <1>5, <1>6 DEF EntitledIn, f

LEMMA LimitsFollow ==
    ASSUME CapacityInv
    PROVE  LimitsRespected
<1> DEFINE g == [a \in Accounts |-> EntitledIn(caller, a)]
<1>1. \A a \in Accounts : Entitled(a) = EntitledIn(caller, a)
  BY EntitledIsSum DEF CapacityInv
<1>2. MapThenSumSet(Entitled, Accounts) = Sum(g, Accounts)
  <2>1. \A a \in Accounts : Entitled(a) = g[a]
    BY <1>1
  <2> HIDE DEF g
  <2> QED
    BY <2>1, EntitlementsSum
<1> QED
  BY <1>1, <1>2, UsedIsSum DEF CapacityInv, WithinLimits, LimitsRespected, AllEntitled
-----------------------------------------------------------------------------
(* One thread's call changes, and with it what it holds and may allocate.  *)
OneCall(cl, cl2, c, call) ==
    /\ cl \in [Callers -> Calls] /\ c \in Callers /\ call \in Calls
    /\ cl2 = [cl EXCEPT ![c] = call]

LEMMA CallIsCounted ==
    ASSUME NEW call \in Calls, NEW a
    PROVE  /\ Held(call, a) \in Nat /\ MayAllocate(call, a) \in Nat
           /\ MayAllocate(call, a) <= Held(call, a)
BY DEF Calls, Held, MayAllocate

LEMMA OneCallChanges ==
    ASSUME NEW cl, NEW cl2, NEW c, NEW call, OneCall(cl, cl2, c, call), NEW a
    PROVE  /\ HeldIn(cl2, a) = HeldIn(cl, a) - Held(cl[c], a) + Held(call, a)
           /\ EntitledIn(cl2, a)
                = EntitledIn(cl, a) - MayAllocate(cl[c], a) + MayAllocate(call, a)
           /\ HeldIn(cl, a) \in Int /\ EntitledIn(cl, a) \in Int
<1> DEFINE h == [d \in Callers |-> Held(cl[d], a)]
           h2 == [d \in Callers |-> Held(cl2[d], a)]
           e == [d \in Callers |-> MayAllocate(cl[d], a)]
           e2 == [d \in Callers |-> MayAllocate(cl2[d], a)]
<1>1. IsFiniteSet(Callers) /\ c \in Callers
  BY TenantAssumption DEF TenantAssumption, OneCall
<1>2. cl2[c] = call /\ \A d \in Callers \ {c} : cl2[d] = cl[d]
  BY DEF OneCall
<1>3. \A d \in Callers : cl[d] \in Calls /\ cl2[d] \in Calls
  BY DEF OneCall
<1>4. \A q \in Calls : Held(q, a) \in Int /\ MayAllocate(q, a) \in Int
  BY CallIsCounted
<1>5. IntOn(h, Callers) /\ IntOn(h2, Callers) /\ IntOn(e, Callers) /\ IntOn(e2, Callers)
  BY <1>3, <1>4 DEF IntOn
<1>6. /\ SameBut(h, h2, Callers, c) /\ SameBut(e, e2, Callers, c)
      /\ h[c] = Held(cl[c], a) /\ h2[c] = Held(call, a)
      /\ e[c] = MayAllocate(cl[c], a) /\ e2[c] = MayAllocate(call, a)
  BY <1>1, <1>2 DEF SameBut
<1>7. /\ HeldIn(cl, a) = Sum(h, Callers) /\ HeldIn(cl2, a) = Sum(h2, Callers)
      /\ EntitledIn(cl, a) = Sum(e, Callers) /\ EntitledIn(cl2, a) = Sum(e2, Callers)
  BY DEF HeldIn, EntitledIn
<1> HIDE DEF h, h2, e, e2
<1>8. /\ Sum(h2, Callers) = Sum(h, Callers) - h[c] + h2[c]
      /\ Sum(h, Callers) \in Int
  BY <1>1, <1>5, <1>6, SumOfChanged
<1>9. /\ Sum(e2, Callers) = Sum(e, Callers) - e[c] + e2[c]
      /\ Sum(e, Callers) \in Int
  BY <1>1, <1>5, <1>6, SumOfChanged
<1> QED
  BY <1>6, <1>7, <1>8, <1>9

(* What may still be allocated has been reserved.                          *)
LEMMA EntitledIsHeld ==
    ASSUME NEW cl \in [Callers -> Calls], NEW a
    PROVE  EntitledIn(cl, a) <= HeldIn(cl, a)
<1> DEFINE h == [d \in Callers |-> Held(cl[d], a)]
           e == [d \in Callers |-> MayAllocate(cl[d], a)]
<1>1. IsFiniteSet(Callers)
  BY TenantAssumption DEF TenantAssumption
<1>2. \A d \in Callers : e[d] \in Int /\ h[d] \in Int /\ e[d] <= h[d]
  BY CallIsCounted
<1>3. HeldIn(cl, a) = Sum(h, Callers) /\ EntitledIn(cl, a) = Sum(e, Callers)
  BY DEF HeldIn, EntitledIn
<1> HIDE DEF h, e
<1> QED
  BY <1>1, <1>2, <1>3, SumIsMonotonic

(* Two tables over the accounts change at one account, where their sum     *)
(* grows by no more than n.                                                *)
LEMMA TwoTablesChange ==
    ASSUME NEW a \in Accounts, NEW n \in Int,
           NEW s, IntOn(s, Accounts), NEW s2, IntOn(s2, Accounts),
           NEW e, IntOn(e, Accounts), NEW e2, IntOn(e2, Accounts),
           SameBut(s, s2, Accounts, a), SameBut(e, e2, Accounts, a),
           s2[a] + e2[a] <= s[a] + e[a] + n
    PROVE  /\ Sum(s2, Accounts) + Sum(e2, Accounts)
                <= Sum(s, Accounts) + Sum(e, Accounts) + n
           /\ Sum(s, Accounts) \in Int /\ Sum(e, Accounts) \in Int
           /\ Sum(s2, Accounts) \in Int /\ Sum(e2, Accounts) \in Int
<1>1. IsFiniteSet(Accounts)
  BY TenantAssumption DEF TenantAssumption
<1>2. /\ Sum(s2, Accounts) = Sum(s, Accounts) - s[a] + s2[a]
      /\ Sum(s, Accounts) \in Int /\ Sum(s2, Accounts) \in Int
  BY <1>1, SumOfChanged
<1>3. /\ Sum(e2, Accounts) = Sum(e, Accounts) - e[a] + e2[a]
      /\ Sum(e, Accounts) \in Int /\ Sum(e2, Accounts) \in Int
  BY <1>1, SumOfChanged
<1>4. s[a] \in Int /\ s2[a] \in Int /\ e[a] \in Int /\ e2[a] \in Int
  BY DEF IntOn
<1>5. PICK sum, sum2 \in Int : sum = Sum(s, Accounts) /\ sum2 = Sum(s2, Accounts)
  BY <1>2
<1>6. PICK rest, rest2 \in Int : rest = Sum(e, Accounts) /\ rest2 = Sum(e2, Accounts)
  BY <1>3
<1>7. sum2 = sum - s[a] + s2[a] /\ rest2 = rest - e[a] + e2[a]
  BY <1>2, <1>3, <1>5, <1>6
<1>8. sum2 + rest2 <= sum + rest + n
  BY <1>4, <1>7
<1> QED
  BY <1>5, <1>6, <1>8

(* A thread's call changes in account a, and with it perhaps the size of a *)
(* and what is reserved for a, by r; what is allocated and may be grows by *)
(* at most n, for which there is room.                                     *)
AccountStep(c, call, a, r, n) ==
    /\ caller' = [caller EXCEPT ![c] = call]
    /\ call.pc # "idle" => call.account \in Accounts
    /\ call.reservation # 0 => call.pc \in {"opening", "working", "releasing"}
    /\ \A b \in Accounts \ {a} : /\ Held(call, b) = Held(caller[c], b)
                                 /\ MayAllocate(call, b) = MayAllocate(caller[c], b)
    /\ size' \in [Accounts -> Nat] /\ SameBut(size, size', Accounts, a)
    /\ reserved' = [reserved EXCEPT ![a] = @ + r] /\ total' = total + r
    /\ Held(call, a) = Held(caller[c], a) + r
    /\ size'[a] + MayAllocate(call, a) <= size[a] + MayAllocate(caller[c], a) + n
    /\ n > 0 => /\ size[a] + EntitledIn(caller, a) + n <= MaxTenant
                /\ Sum(size, Accounts) + AllEntitled(caller) + n <= Disk - MinFree

LEMMA CapacityStep ==
    ASSUME CapacityInv, NEW c \in Callers, NEW call \in Calls, NEW a \in Accounts,
           NEW r \in Int, NEW n \in Int, AccountStep(c, call, a, r, n)
    PROVE  CapacityInv'
<1>1. /\ size \in [Accounts -> Nat] /\ reserved \in [Accounts -> Int]
      /\ total \in Int /\ caller \in [Callers -> Calls]
      /\ MaxTenant \in Int /\ Disk - MinFree \in Int /\ IsFiniteSet(Accounts)
  BY TenantAssumption DEF CapacityInv, CapacityType, TenantAssumption
<1>2. /\ caller' = [caller EXCEPT ![c] = call]
      /\ caller' \in [Callers -> Calls] /\ caller'[c] = call
      /\ \A d \in Callers \ {c} : caller'[d] = caller[d]
  BY <1>1 DEF AccountStep
<1>3. /\ reserved' \in [Accounts -> Int] /\ total' \in Int
      /\ size' \in [Accounts -> Nat] /\ SameBut(size, size', Accounts, a)
  BY <1>1 DEF AccountStep
<1>4. CapacityType'
  BY <1>2, <1>3 DEF CapacityInv, CapacityType, At, AccountStep
<1>5. HoldsWhileInside'
  BY <1>2 DEF CapacityInv, HoldsWhileInside, AccountStep
<1>6. PICK cl, cl2 : cl = caller /\ cl2 = caller'
  OBVIOUS
<1>7. OneCall(cl, cl2, c, call) /\ cl[c] = caller[c] /\ cl[c] \in Calls
  BY <1>1, <1>2, <1>6 DEF OneCall
<1>8. ASSUME NEW b \in Accounts, b # a
      PROVE  HeldIn(cl2, b) = HeldIn(cl, b) /\ EntitledIn(cl2, b) = EntitledIn(cl, b)
  <2>1. Held(call, b) = Held(cl[c], b) /\ MayAllocate(call, b) = MayAllocate(cl[c], b)
    BY <1>7, <1>8 DEF AccountStep
  <2>2. Held(call, b) \in Int /\ MayAllocate(call, b) \in Int
    BY CallIsCounted
  <2>3. /\ HeldIn(cl2, b) = HeldIn(cl, b) - Held(cl[c], b) + Held(call, b)
        /\ EntitledIn(cl2, b)
             = EntitledIn(cl, b) - MayAllocate(cl[c], b) + MayAllocate(call, b)
        /\ HeldIn(cl, b) \in Int /\ EntitledIn(cl, b) \in Int
    BY <1>7, OneCallChanges
  <2> QED
    BY <2>1, <2>2, <2>3
<1>9. PICK h, e \in Int : h = HeldIn(cl, a) /\ e = EntitledIn(cl, a)
  BY <1>7, OneCallChanges
<1>10. PICK m, m2 \in Nat : m = MayAllocate(cl[c], a) /\ m2 = MayAllocate(call, a)
  BY <1>7, CallIsCounted
<1>11. HeldIn(cl2, a) = h + r /\ EntitledIn(cl2, a) = e - m + m2
  <2>1. PICK k \in Nat : k = Held(cl[c], a)
    BY <1>7, CallIsCounted
  <2>2. Held(call, a) = k + r
    BY <1>7, <2>1 DEF AccountStep
  <2>3. /\ HeldIn(cl2, a) = HeldIn(cl, a) - Held(cl[c], a) + Held(call, a)
        /\ EntitledIn(cl2, a)
             = EntitledIn(cl, a) - MayAllocate(cl[c], a) + MayAllocate(call, a)
    BY <1>7, OneCallChanges
  <2>4. HeldIn(cl2, a) = h - k + (k + r)
    BY <1>9, <2>1, <2>2, <2>3
  <2> QED
    BY <1>9, <1>10, <2>3, <2>4
<1>12. TablesCountHeld'
  <2>1. \A b \in Accounts : reserved'[b] = HeldIn(cl2, b)
    <3>1. reserved[a] = h /\ reserved'[a] = reserved[a] + r
      BY <1>1, <1>6, <1>9 DEF CapacityInv, TablesCountHeld, AccountStep
    <3>2. \A b \in Accounts \ {a} : reserved'[b] = HeldIn(cl, b)
      BY <1>1, <1>6 DEF CapacityInv, TablesCountHeld, AccountStep
    <3> QED
      BY <1>8, <1>11, <3>1, <3>2
  <2>2. PICK t, t2 : t = reserved /\ t2 = reserved'
    OBVIOUS
  <2>3. /\ IntOn(t, Accounts) /\ IntOn(t2, Accounts) /\ SameBut(t, t2, Accounts, a)
        /\ t[a] \in Int /\ t2[a] = t[a] + r
    BY <1>1, <1>3, <2>2 DEF IntOn, SameBut, AccountStep
  <2>4. Sum(t2, Accounts) = Sum(t, Accounts) - t[a] + t2[a] /\ Sum(t, Accounts) \in Int
    BY <1>1, <2>3, SumOfChanged
  <2>5. total = Sum(t, Accounts) /\ total' = total + r
    BY <2>2 DEF CapacityInv, TablesCountHeld, AccountStep
  <2>6. total' = Sum(t2, Accounts)
    BY <2>3, <2>4, <2>5
  <2> QED
    BY <1>6, <2>1, <2>2, <2>6 DEF TablesCountHeld
<1>13. PICK s, s2 : s = size /\ s2 = size'
  OBVIOUS
<1>14. /\ s \in [Accounts -> Nat] /\ s2 \in [Accounts -> Nat]
       /\ IntOn(s, Accounts) /\ IntOn(s2, Accounts) /\ SameBut(s, s2, Accounts, a)
       /\ s[a] \in Int /\ s2[a] \in Int /\ s2[a] + m2 <= s[a] + m + n
  <2>1. /\ s \in [Accounts -> Nat] /\ s2 \in [Accounts -> Nat]
        /\ SameBut(s, s2, Accounts, a)
    BY <1>1, <1>3, <1>13
  <2>2. s2[a] + m2 <= s[a] + m + n
    BY <1>7, <1>10, <1>13 DEF AccountStep
  <2> QED
    BY <2>1, <2>2 DEF IntOn
<1>15. s2[a] + (e - m + m2) <= s[a] + e + n
  BY <1>14
<1>16. \A b \in Accounts : s2[b] + EntitledIn(cl2, b) <= MaxTenant
  <2>1. \A b \in Accounts : s[b] + EntitledIn(cl, b) <= MaxTenant
    BY <1>6, <1>13 DEF CapacityInv, WithinLimits
  <2>2. \A b \in Accounts \ {a} : s2[b] + EntitledIn(cl2, b) <= MaxTenant
    BY <1>8, <1>14, <2>1 DEF SameBut
  <2>3. s[a] + e <= MaxTenant /\ (n > 0 => s[a] + e + n <= MaxTenant)
    BY <1>6, <1>9, <1>13, <2>1 DEF AccountStep
  <2>4. s2[a] + EntitledIn(cl2, a) <= MaxTenant
    BY <1>1, <1>11, <1>14, <1>15, <2>3
  <2> QED
    BY <2>2, <2>4
<1>17. Sum(s2, Accounts) + AllEntitled(cl2) <= Disk - MinFree
  <2>1. PICK f, f2 : /\ f = [b \in Accounts |-> EntitledIn(cl, b)]
                     /\ f2 = [b \in Accounts |-> EntitledIn(cl2, b)]
    OBVIOUS
  <2>2. \A b \in Accounts : EntitledIn(cl, b) \in Int
    BY <1>7, OneCallChanges
  <2>3. IntOn(f, Accounts) /\ IntOn(f2, Accounts) /\ SameBut(f, f2, Accounts, a)
    BY <1>8, <1>11, <2>1, <2>2 DEF IntOn, SameBut
  <2>4. s2[a] + f2[a] <= s[a] + f[a] + n
    BY <1>9, <1>11, <1>15, <2>1
  <2>5. /\ Sum(s2, Accounts) + Sum(f2, Accounts)
             <= Sum(s, Accounts) + Sum(f, Accounts) + n
        /\ Sum(s, Accounts) \in Int /\ Sum(f, Accounts) \in Int
        /\ Sum(s2, Accounts) \in Int /\ Sum(f2, Accounts) \in Int
    BY <1>14, <2>3, <2>4, TwoTablesChange
  <2>6. Sum(f, Accounts) = AllEntitled(cl) /\ Sum(f2, Accounts) = AllEntitled(cl2)
    BY <2>1 DEF AllEntitled
  <2>7. /\ Sum(s, Accounts) + Sum(f, Accounts) <= Disk - MinFree
        /\ n > 0 => Sum(s, Accounts) + Sum(f, Accounts) + n <= Disk - MinFree
    BY <1>6, <1>13, <2>6 DEF CapacityInv, WithinLimits, AccountStep
  <2>8. Sum(s2, Accounts) + Sum(f2, Accounts) <= Disk - MinFree
    BY <1>1, <2>5, <2>7
  <2> QED
    BY <2>6, <2>8
<1>18. WithinLimits'
  BY <1>6, <1>13, <1>16, <1>17 DEF WithinLimits
<1> QED
  BY <1>4, <1>5, <1>12, <1>18 DEF CapacityInv

(* A step in account a that changes no reservation and neither table, and  *)
(* lets the files grow by no more than the call gives up.                  *)
QuietStep(c, call, a) ==
    /\ caller' = [caller EXCEPT ![c] = call]
    /\ call.pc # "idle" => call.account = a
    /\ call.reservation = caller[c].reservation
    /\ call.reservation # 0 => /\ call.pc \in {"opening", "working", "releasing"}
                               /\ call.account = a /\ caller[c].account = a
    /\ size' \in [Accounts -> Nat] /\ SameBut(size, size', Accounts, a)
    /\ size'[a] + MayAllocate(call, a) <= size[a] + MayAllocate(caller[c], a)
    /\ UNCHANGED capacity

LEMMA QuietStepKeeps ==
    ASSUME CapacityInv, NEW c \in Callers, NEW call \in Calls, NEW a \in Accounts,
           QuietStep(c, call, a)
    PROVE  CapacityInv'
<1>1. /\ reserved \in [Accounts -> Int] /\ total \in Int /\ caller[c] \in Calls
      /\ size \in [Accounts -> Nat]
  BY DEF CapacityInv, CapacityType
<1>2. reserved' = [reserved EXCEPT ![a] = @ + 0] /\ total' = total + 0
  BY <1>1 DEF capacity, QuietStep
<1>3. \A b \in Accounts \ {a} : /\ Held(call, b) = Held(caller[c], b)
                                /\ MayAllocate(call, b) = MayAllocate(caller[c], b)
  BY <1>1 DEF Held, MayAllocate, Calls, QuietStep
<1>4. Held(call, a) = Held(caller[c], a) + 0
  BY <1>1 DEF Held, Calls, QuietStep
<1>5. PICK m, m2 \in Nat : m = MayAllocate(caller[c], a) /\ m2 = MayAllocate(call, a)
  BY <1>1, CallIsCounted
<1>6. size'[a] + m2 <= size[a] + m + 0
  BY <1>1, <1>5 DEF QuietStep
<1>7. AccountStep(c, call, a, 0, 0)
  BY <1>2, <1>3, <1>4, <1>5, <1>6 DEF AccountStep, QuietStep
<1> QED
  BY <1>7, CapacityStep
-----------------------------------------------------------------------------
(* A thread without a reservation, before and after the step; the files of *)
(* account a do not grow.                                                  *)
EmptyHanded(c, call, a) ==
    /\ caller[c].pc \notin {"opening", "working", "releasing"} \/ caller[c].reservation = 0
    /\ caller' = [caller EXCEPT ![c] = call]
    /\ call.pc # "idle" => call.account = a
    /\ call.reservation = 0
    /\ size' \in [Accounts -> Nat] /\ SameBut(size, size', Accounts, a)
    /\ size'[a] <= size[a]
    /\ UNCHANGED capacity

LEMMA EmptyHandedKeeps ==
    ASSUME CapacityInv, NEW c \in Callers, NEW call \in Calls, NEW a \in Accounts,
           EmptyHanded(c, call, a)
    PROVE  CapacityInv'
<1>1. caller[c].reservation = 0 /\ call.reservation = 0 /\ size \in [Accounts -> Nat]
  BY DEF CapacityInv, CapacityType, HoldsWhileInside, EmptyHanded
<1>2. MayAllocate(caller[c], a) = 0 /\ MayAllocate(call, a) = 0
  BY <1>1 DEF MayAllocate
<1>3. size'[a] + 0 <= size[a] + 0
  BY <1>1 DEF EmptyHanded
<1>4. QuietStep(c, call, a)
  BY <1>1, <1>2, <1>3 DEF QuietStep, EmptyHanded
<1> QED
  BY <1>4, QuietStepKeeps

(* What Goto makes of a call.                                              *)
LEMMA GotoCall ==
    ASSUME CapacityInv, NEW c \in Callers, ~At(c, "idle"),
           NEW pc \in {"idle"} \cup Working \cup Erasing
    PROVE  \E call \in Calls :
              /\ call = [caller[c] EXCEPT !.pc = pc]
              /\ call.pc = pc /\ call.account = caller[c].account
              /\ call.reservation = caller[c].reservation
              /\ caller[c].account \in Accounts /\ caller[c].reservation \in Nat
<1> DEFINE call == [caller[c] EXCEPT !.pc = pc]
<1>1. caller[c] \in Calls /\ caller[c].account \in Accounts
  BY DEF CapacityInv, CapacityType
<1>2. /\ call \in Calls /\ call.pc = pc /\ call.account = caller[c].account
      /\ call.reservation = caller[c].reservation /\ caller[c].reservation \in Nat
  BY <1>1 DEF Calls
<1> QED
  BY <1>1, <1>2

LEMMA FilesStay ==
    ASSUME CapacityInv, UNCHANGED size
    PROVE  /\ size \in [Accounts -> Nat] /\ size' \in [Accounts -> Nat]
           /\ \A a : SameBut(size, size', Accounts, a)
           /\ \A a \in Accounts : size'[a] <= size[a]
BY DEF CapacityInv, CapacityType, SameBut

(* The calls whose step neither takes, uses nor releases a reservation.    *)
LEMMA UnreservedKeeps ==
    ASSUME CapacityInv, NEW c \in Callers, ~At(c, "idle"),
           caller[c].pc \notin {"opening", "working", "releasing"},
           NEW pc \in Working \cup Erasing, Goto(c, pc), UNCHANGED <<size, capacity>>
    PROVE  CapacityInv'
<1>1. PICK call \in Calls : /\ call = [caller[c] EXCEPT !.pc = pc]
                            /\ call.pc = pc /\ call.account = caller[c].account
                            /\ call.reservation = caller[c].reservation
                            /\ caller[c].account \in Accounts
                            /\ caller[c].reservation \in Nat
  BY GotoCall
<1>2. PICK a \in Accounts : a = caller[c].account
  BY <1>1
<1>3. caller[c].reservation = 0
  BY DEF CapacityInv, HoldsWhileInside
<1>4. caller' = [caller EXCEPT ![c] = call]
  BY <1>1 DEF Goto
<1>5. EmptyHanded(c, call, a)
  BY <1>1, <1>2, <1>3, <1>4, FilesStay DEF EmptyHanded
<1> QED
  BY <1>5, EmptyHandedKeeps

LEMMA NotCallingKeeps ==
    ASSUME CapacityInv, NEW c \in Callers, ~At(c, "idle"),
           caller[c].pc \notin {"opening", "working", "releasing"},
           caller' = [caller EXCEPT ![c] = NotCalling],
           NEW a \in Accounts, SameBut(size, size', Accounts, a),
           size' \in [Accounts -> Nat], size'[a] <= size[a], UNCHANGED capacity
    PROVE  CapacityInv'
<1>1. NotCalling \in Calls /\ NotCalling.pc = "idle" /\ NotCalling.reservation = 0
  BY DEF NotCalling, Calls
<1>2. EmptyHanded(c, NotCalling, a)
  BY <1>1 DEF EmptyHanded
<1> QED
  BY <1>1, <1>2, EmptyHandedKeeps

LEMMA BeginKeeps ==
    ASSUME CapacityInv, NEW c \in Callers, At(c, "idle"), NEW a \in Accounts,
           NEW call \in Calls, call.account = a, call.reservation = 0,
           caller' = [caller EXCEPT ![c] = call], UNCHANGED <<size, capacity>>
    PROVE  CapacityInv'
<1>1. EmptyHanded(c, call, a)
  BY FilesStay DEF EmptyHanded, At
<1> QED
  BY <1>1, EmptyHandedKeeps

(* A reservation that both limits have room for, counting what others have *)
(* reserved already and not merely what they have allocated.               *)
LEMMA ReserveKeepsLimits ==
    ASSUME CapacityInv, NEW c \in Callers, NEW r \in Reservations, Reserve(c, r)
    PROVE  CapacityInv'
<1>1. CASE Goto(c, "leaving") /\ UNCHANGED capacity
  BY <1>1, UnreservedKeeps DEF Reserve, disk, At, Working
<1>2. CASE /\ HasRoom(caller[c].account, r)
           /\ reserved' = [reserved EXCEPT ![caller[c].account] = @ + r]
           /\ total' = total + r
           /\ caller' = [caller EXCEPT ![c].pc = "opening", ![c].reservation = r]
  <2> DEFINE call == [caller[c] EXCEPT !.pc = "opening", !.reservation = r]
  <2>1. /\ caller[c] \in Calls /\ At(c, "reserving") /\ caller[c].account \in Accounts
        /\ r \in Nat /\ UNCHANGED size /\ caller[c].reservation = 0
    BY TenantAssumption DEF Reserve, CapacityInv, CapacityType, HoldsWhileInside, At,
         TenantAssumption, disk
  <2>2. /\ call \in Calls /\ call.pc = "opening" /\ call.reservation = r
        /\ call.account = caller[c].account
        /\ caller' = [caller EXCEPT ![c] = call]
    BY <1>2, <2>1 DEF Calls, Working
  <2> HIDE DEF call
  <2>3. PICK a \in Accounts : a = caller[c].account
    BY <2>1
  <2>4. /\ Held(call, a) = Held(caller[c], a) + r
        /\ \A b \in Accounts \ {a} : /\ Held(call, b) = Held(caller[c], b)
                                     /\ MayAllocate(call, b) = MayAllocate(caller[c], b)
        /\ MayAllocate(call, a) = r /\ MayAllocate(caller[c], a) = 0
    BY <2>1, <2>2, <2>3 DEF Held, MayAllocate
  <2>5. size[a] \in Nat /\ size'[a] + r <= size[a] + 0 + r
    BY <2>1, FilesStay
  <2>6. size[a] + EntitledIn(caller, a) + r <= MaxTenant
    <3>1. PICK cl : cl = caller /\ cl \in [Callers -> Calls]
      BY DEF CapacityInv, CapacityType
    <3>2. EntitledIn(cl, a) <= HeldIn(cl, a)
      BY <3>1, EntitledIsHeld
    <3>3. OneCall(cl, caller', c, call)
      BY <2>2, <3>1 DEF OneCall
    <3>4. PICK e \in Int : e = EntitledIn(cl, a)
      BY <3>3, OneCallChanges
    <3>5. reserved[a] = HeldIn(cl, a) /\ reserved[a] \in Int
      BY <3>1 DEF CapacityInv, CapacityType, TablesCountHeld
    <3>6. size[a] + reserved[a] + r <= MaxTenant
      BY <1>2, <2>3 DEF HasRoom
    <3>7. e <= reserved[a] /\ MaxTenant \in Int
      BY <3>2, <3>4, <3>5, TenantAssumption DEF TenantAssumption
    <3>8. size[a] + e + r <= MaxTenant
      BY <2>1, <2>5, <3>5, <3>6, <3>7
    <3> QED
      BY <3>1, <3>4, <3>8
  <2>7. Sum(size, Accounts) + AllEntitled(caller) + r <= Disk - MinFree
    <3>1. PICK cl : cl = caller /\ cl \in [Callers -> Calls]
      BY DEF CapacityInv, CapacityType
    <3>2. PICK e, t : /\ e = [b \in Accounts |-> EntitledIn(cl, b)] /\ t = reserved
      OBVIOUS
    <3>3. OneCall(cl, caller', c, call)
      BY <2>2, <3>1 DEF OneCall
    <3>4. \A b \in Accounts : e[b] \in Int
      BY <3>2, <3>3, OneCallChanges
    <3>5. \A b \in Accounts : t[b] \in Int /\ t[b] = HeldIn(cl, b)
      BY <3>1, <3>2 DEF CapacityInv, CapacityType, TablesCountHeld
    <3>6. \A b \in Accounts : e[b] <= t[b]
      BY <3>1, <3>2, <3>5, EntitledIsHeld
    <3>7. IsFiniteSet(Accounts) /\ Disk \in Int /\ MinFree \in Int
      BY TenantAssumption DEF TenantAssumption
    <3>8. Sum(e, Accounts) <= Sum(t, Accounts)
      BY <3>4, <3>5, <3>6, <3>7, SumIsMonotonic
    <3>9. Sum(e, Accounts) \in Int /\ Sum(t, Accounts) \in Int
      BY <3>4, <3>5, <3>7, SumIsInteger
    <3>10. total = Sum(t, Accounts)
      BY <3>2 DEF CapacityInv, TablesCountHeld
    <3>11. PICK used \in Int : used = Sum(size, Accounts) /\ used = Used
      <4>1. PICK s : s = size
        OBVIOUS
      <4>2. \A b \in Accounts : s[b] \in Int
        BY <4>1 DEF CapacityInv, CapacityType
      <4>3. Sum(s, Accounts) \in Int
        BY <3>7, <4>2, SumIsInteger
      <4> QED
        BY <4>1, <4>3, UsedIsSum
    <3>12. (Disk - used) - total - r >= MinFree
      BY <1>2, <3>11 DEF HasRoom
    <3>13. AllEntitled(cl) = Sum(e, Accounts)
      BY <3>2 DEF AllEntitled
    <3>14. used + Sum(e, Accounts) + r <= Disk - MinFree
      BY <2>1, <3>7, <3>8, <3>9, <3>10, <3>12
    <3> QED
      BY <3>1, <3>11, <3>13, <3>14
  <2>8. AccountStep(c, call, a, r, r)
    <3>1. /\ reserved' = [reserved EXCEPT ![a] = @ + r] /\ total' = total + r
          /\ call.account = a
      BY <1>2, <2>2, <2>3
    <3>2. size' \in [Accounts -> Nat] /\ SameBut(size, size', Accounts, a)
      BY <2>1, FilesStay
    <3> QED
      BY <2>2, <2>4, <2>5, <2>6, <2>7, <3>1, <3>2 DEF AccountStep
  <2> QED
    BY <2>1, <2>2, <2>8, CapacityStep
<1> QED
  BY <1>1, <1>2 DEF Reserve

(* Opening keeps the reservation, or gives up what it entitled to.         *)
LEMMA OpenKeepsLimits ==
    ASSUME CapacityInv, NEW c \in Callers, OpenStore(c)
    PROVE  CapacityInv'
<1>1. At(c, "opening") /\ ~At(c, "idle") /\ UNCHANGED <<size, capacity>>
  BY DEF OpenStore, At
<1>2. PICK pc \in {"working", "releasing", "leaving"} :
        Goto(c, pc) /\ (pc = "leaving" => ~(caller[c].reservation > 0))
  BY DEF OpenStore, Unwind
<1>3. PICK call \in Calls : /\ call = [caller[c] EXCEPT !.pc = pc]
                            /\ call.pc = pc /\ call.account = caller[c].account
                            /\ call.reservation = caller[c].reservation
                            /\ caller[c].account \in Accounts
                            /\ caller[c].reservation \in Nat
  BY <1>1, GotoCall DEF Working
<1>4. PICK a \in Accounts : a = caller[c].account
  BY <1>3
<1>5. caller' = [caller EXCEPT ![c] = call]
  BY <1>2, <1>3 DEF Goto
<1>6. call.reservation # 0 => call.pc \in {"opening", "working", "releasing"}
  BY <1>2, <1>3
<1>7. PICK m, m2 \in Nat : /\ m = MayAllocate(caller[c], a) /\ m2 = MayAllocate(call, a)
                           /\ m2 <= m
  BY <1>1, <1>3, <1>4 DEF MayAllocate, At
<1>8. size'[a] + m2 <= size[a] + m
  BY <1>1, <1>7, FilesStay
<1>9. QuietStep(c, call, a)
  BY <1>1, <1>3, <1>4, <1>5, <1>6, <1>7, <1>8, FilesStay DEF QuietStep
<1> QED
  BY <1>9, QuietStepKeeps

(* The transaction allocates no more than was reserved for it.             *)
LEMMA WorkKeepsLimits ==
    ASSUME CapacityInv, NEW c \in Callers, Work(c)
    PROVE  CapacityInv'
<1>1. At(c, "working") /\ ~At(c, "idle") /\ UNCHANGED capacity
  BY DEF Work, At
<1>2. PICK pc \in {"releasing", "leaving"} :
        Goto(c, pc) /\ (pc = "leaving" => ~(caller[c].reservation > 0))
  BY DEF Work, Unwind
<1>3. PICK call \in Calls : /\ call = [caller[c] EXCEPT !.pc = pc]
                            /\ call.pc = pc /\ call.account = caller[c].account
                            /\ call.reservation = caller[c].reservation
                            /\ caller[c].account \in Accounts
                            /\ caller[c].reservation \in Nat
  BY <1>1, <1>2, GotoCall DEF Working
<1>4. PICK a \in Accounts : a = caller[c].account
  BY <1>3
<1>5. PICK growth \in 0..caller[c].reservation : size' = [size EXCEPT ![a] = @ + growth]
  BY <1>4 DEF Work
<1>6. caller' = [caller EXCEPT ![c] = call]
  BY <1>2, <1>3 DEF Goto
<1>7. call.reservation # 0 => call.pc \in {"opening", "working", "releasing"}
  BY <1>2, <1>3
<1>8. MayAllocate(caller[c], a) = caller[c].reservation /\ MayAllocate(call, a) = 0
  BY <1>1, <1>2, <1>3, <1>4 DEF MayAllocate, At
<1>9. /\ size \in [Accounts -> Nat] /\ growth \in Nat /\ growth <= caller[c].reservation
      /\ size' \in [Accounts -> Nat] /\ size'[a] = size[a] + growth
      /\ SameBut(size, size', Accounts, a)
  BY <1>3, <1>5 DEF CapacityInv, CapacityType, SameBut
<1>10. size'[a] + 0 <= size[a] + caller[c].reservation
  BY <1>3, <1>9
<1>11. QuietStep(c, call, a)
  BY <1>1, <1>3, <1>4, <1>6, <1>7, <1>8, <1>9, <1>10 DEF QuietStep
<1> QED
  BY <1>11, QuietStepKeeps

(* A release takes from both tables what this thread put there.            *)
LEMMA ReleaseKeepsLimits ==
    ASSUME CapacityInv, NEW c \in Callers, Release(c)
    PROVE  CapacityInv'
<1> DEFINE call == [caller[c] EXCEPT !.pc = "leaving", !.reservation = 0]
<1>1. /\ caller[c] \in Calls /\ At(c, "releasing") /\ caller[c].account \in Accounts
      /\ UNCHANGED size
  BY DEF Release, CapacityInv, CapacityType, At, disk
<1>2. PICK a \in Accounts : a = caller[c].account
  BY <1>1
<1>3. PICK n \in Nat : n = caller[c].reservation
  BY <1>1 DEF Calls
<1>4. /\ call \in Calls /\ call.pc = "leaving" /\ call.reservation = 0 /\ call.account = a
      /\ caller' = [caller EXCEPT ![c] = call]
  BY <1>1, <1>2 DEF Release, Calls, Working
<1> HIDE DEF call
<1>5. -n \in Int /\ reserved' = [reserved EXCEPT ![a] = @ + -n] /\ total' = total + -n
  <2>1. reserved \in [Accounts -> Int] /\ total \in Int
    BY DEF CapacityInv, CapacityType
  <2>2. reserved' = [reserved EXCEPT ![a] = @ - n] /\ total' = total - n
    BY <1>2, <1>3 DEF Release
  <2>3. -n \in Int /\ reserved[a] - n = reserved[a] + -n /\ total - n = total + -n
    BY <1>3, <2>1
  <2> QED
    BY <2>2, <2>3
<1>6. /\ Held(call, a) = 0 /\ Held(caller[c], a) = n /\ 0 = n + -n
      /\ \A b \in Accounts \ {a} : /\ Held(call, b) = Held(caller[c], b)
                                   /\ MayAllocate(call, b) = MayAllocate(caller[c], b)
      /\ MayAllocate(call, a) = 0 /\ MayAllocate(caller[c], a) = 0
  BY <1>1, <1>2, <1>3, <1>4 DEF Held, MayAllocate, At
<1>7. size'[a] + 0 <= size[a] + 0 + 0
  BY <1>1, FilesStay
<1>8. AccountStep(c, call, a, -n, 0)
  BY <1>1, <1>4, <1>5, <1>6, <1>7, FilesStay DEF AccountStep
<1> QED
  BY <1>1, <1>4, <1>5, <1>8, CapacityStep

(* An erasure only removes.                                                *)
LEMMA UnlinkKeepsLimits ==
    ASSUME CapacityInv, NEW c \in Callers,
           UnlinkDatabase(c) \/ UnlinkSidecars(c) \/ FailErase(c)
    PROVE  CapacityInv'
<1>1. PICK a \in Accounts : a = caller[c].account
  BY DEF UnlinkDatabase, UnlinkSidecars, FailErase, CapacityInv, CapacityType, At
<1>2. size \in [Accounts -> Nat] /\ size[a] \in Nat
  BY DEF CapacityInv, CapacityType
<1>3. CASE UnlinkDatabase(c)
  <2>1. /\ At(c, "unlinking") /\ Goto(c, "sidecars") /\ UNCHANGED capacity
    BY <1>3 DEF UnlinkDatabase
  <2>2. PICK left \in 0..size[a] : size' = [size EXCEPT ![a] = left]
    BY <1>1, <1>3 DEF UnlinkDatabase
  <2>3. /\ size' \in [Accounts -> Nat] /\ SameBut(size, size', Accounts, a)
        /\ size'[a] <= size[a]
    BY <1>2, <2>2 DEF SameBut
  <2>4. PICK call \in Calls : /\ call = [caller[c] EXCEPT !.pc = "sidecars"]
                              /\ call.pc = "sidecars" /\ call.account = caller[c].account
                              /\ call.reservation = caller[c].reservation
                              /\ caller[c].account \in Accounts
                              /\ caller[c].reservation \in Nat
    BY <2>1, GotoCall DEF At, Erasing
  <2>5. caller[c].reservation = 0 /\ caller[c].pc = "unlinking"
    BY <2>1 DEF CapacityInv, HoldsWhileInside, At
  <2>6. EmptyHanded(c, call, a)
    BY <1>1, <2>1, <2>3, <2>4, <2>5 DEF EmptyHanded, Goto
  <2> QED
    BY <2>6, EmptyHandedKeeps
<1>4. CASE UnlinkSidecars(c)
  <2>1. /\ At(c, "sidecars") /\ caller' = [caller EXCEPT ![c] = NotCalling]
        /\ size' = [size EXCEPT ![a] = 0] /\ UNCHANGED capacity
    BY <1>1, <1>4 DEF UnlinkSidecars
  <2>2. /\ size' \in [Accounts -> Nat] /\ SameBut(size, size', Accounts, a)
        /\ size'[a] <= size[a]
    BY <1>2, <2>1 DEF SameBut
  <2> QED
    BY <2>1, <2>2, NotCallingKeeps DEF At
<1>5. CASE FailErase(c)
  <2>1. /\ caller[c].pc \in {"unlinking", "sidecars"}
        /\ caller' = [caller EXCEPT ![c] = NotCalling] /\ UNCHANGED <<size, capacity>>
    BY <1>5 DEF FailErase, At, disk
  <2> QED
    BY <2>1, FilesStay, NotCallingKeeps DEF At
<1> QED
  BY <1>3, <1>4, <1>5

(* Without callers nothing is held, and what is allocated is within the    *)
(* limits if it was together with what was held.                           *)
LEMMA NothingHeld ==
    ASSUME NEW cl, \A c \in Callers : cl[c] = NotCalling
    PROVE  /\ \A a \in Accounts : HeldIn(cl, a) = 0 /\ EntitledIn(cl, a) = 0
           /\ AllEntitled(cl) = 0
<1>1. IsFiniteSet(Callers) /\ IsFiniteSet(Accounts)
  BY TenantAssumption DEF TenantAssumption
<1>2. ASSUME NEW a \in Accounts
      PROVE  HeldIn(cl, a) = 0 /\ EntitledIn(cl, a) = 0
  <2> DEFINE h == [c \in Callers |-> Held(cl[c], a)]
             e == [c \in Callers |-> MayAllocate(cl[c], a)]
  <2>1. (\A c \in Callers : h[c] = 0) /\ (\A c \in Callers : e[c] = 0)
    BY DEF Held, MayAllocate, NotCalling
  <2>2. HeldIn(cl, a) = Sum(h, Callers) /\ EntitledIn(cl, a) = Sum(e, Callers)
    BY DEF HeldIn, EntitledIn
  <2> HIDE DEF h, e
  <2> QED
    BY <1>1, <2>1, <2>2, SumOfZeros
<1>3. AllEntitled(cl) = 0
  <2> DEFINE e == [a \in Accounts |-> EntitledIn(cl, a)]
  <2>1. \A a \in Accounts : e[a] = 0
    BY <1>2
  <2>2. AllEntitled(cl) = Sum(e, Accounts)
    BY DEF AllEntitled
  <2> HIDE DEF e
  <2> QED
    BY <1>1, <2>1, <2>2, SumOfZeros
<1> QED
  BY <1>2, <1>3

LEMMA FreshTables ==
    ASSUME NEW s \in [Accounts -> Nat], \A a \in Accounts : s[a] <= MaxTenant,
           Sum(s, Accounts) \in Int, Sum(s, Accounts) <= Disk - MinFree,
           NEW t, t = [a \in Accounts |-> 0],
           NEW cl, cl = [c \in Callers |-> NotCalling]
    PROVE  /\ cl \in [Callers -> Calls] /\ t \in [Accounts -> Int]
           /\ \A c \in Callers : cl[c].pc = "idle" /\ cl[c].reservation = 0
           /\ \A a \in Accounts : t[a] = HeldIn(cl, a)
           /\ Sum(t, Accounts) = 0
           /\ \A a \in Accounts : s[a] + EntitledIn(cl, a) <= MaxTenant
           /\ Sum(s, Accounts) + AllEntitled(cl) <= Disk - MinFree
<1>1. /\ \A a \in Accounts : HeldIn(cl, a) = 0 /\ EntitledIn(cl, a) = 0
      /\ AllEntitled(cl) = 0
  BY NothingHeld
<1>2. NotCalling \in Calls /\ NotCalling.pc = "idle" /\ NotCalling.reservation = 0
  BY DEF NotCalling, Calls
<1>3. Sum(t, Accounts) = 0
  <2>1. \A a \in Accounts : t[a] = 0
    OBVIOUS
  <2> QED
    BY <2>1, TenantAssumption, SumOfZeros DEF TenantAssumption
<1>4. Sum(s, Accounts) + 0 <= Disk - MinFree /\ \A a \in Accounts : s[a] + 0 <= MaxTenant
  OBVIOUS
<1> QED
  BY <1>1, <1>2, <1>3, <1>4

LEMMA InitiallyWithinLimits == ASSUME Init PROVE CapacityInv
<1>1. PICK s, t, cl : s = size /\ t = reserved /\ cl = caller
  OBVIOUS
<1>2. /\ s \in [Accounts -> Nat] /\ \A a \in Accounts : s[a] = 0
      /\ t = [a \in Accounts |-> 0] /\ cl = [c \in Callers |-> NotCalling] /\ total = 0
  BY <1>1 DEF Init
<1>3. Sum(s, Accounts) = 0
  BY <1>2, TenantAssumption, SumOfZeros DEF TenantAssumption
<1>4. 0 <= MaxTenant /\ 0 <= Disk - MinFree
  BY TenantAssumption DEF TenantAssumption
<1>5. /\ cl \in [Callers -> Calls] /\ t \in [Accounts -> Int]
      /\ \A c \in Callers : cl[c].pc = "idle" /\ cl[c].reservation = 0
      /\ \A a \in Accounts : t[a] = HeldIn(cl, a)
      /\ Sum(t, Accounts) = 0
      /\ \A a \in Accounts : s[a] + EntitledIn(cl, a) <= MaxTenant
      /\ Sum(s, Accounts) + AllEntitled(cl) <= Disk - MinFree
  BY <1>2, <1>3, <1>4, FreshTables
<1> QED
  BY <1>1, <1>2, <1>5 DEF CapacityInv, CapacityType, HoldsWhileInside, TablesCountHeld,
     WithinLimits, At

(* The files of the process that died are within the limits, and the new   *)
(* process starts with empty tables.                                       *)
LEMMA RestartKeepsLimits ==
    ASSUME CapacityInv, Restart
    PROVE  CapacityInv'
<1>1. PICK s, cl : s = size /\ cl = caller /\ cl \in [Callers -> Calls]
  BY DEF CapacityInv, CapacityType
<1>2. /\ s \in [Accounts -> Nat] /\ IsFiniteSet(Accounts) /\ IsFiniteSet(Callers)
      /\ MaxTenant \in Int /\ Disk - MinFree \in Int
  BY <1>1, TenantAssumption DEF CapacityInv, CapacityType, TenantAssumption
<1>3. ASSUME NEW a \in Accounts PROVE EntitledIn(cl, a) \in Int /\ EntitledIn(cl, a) >= 0
  <2> DEFINE e == [c \in Callers |-> MayAllocate(cl[c], a)]
             z == [c \in Callers |-> 0]
  <2>1. /\ \A c \in Callers : z[c] \in Int /\ e[c] \in Int /\ z[c] <= e[c]
        /\ \A c \in Callers : z[c] = 0
        /\ \A c \in Callers : e[c] \in Int
    BY <1>1, CallIsCounted
  <2>2. EntitledIn(cl, a) = Sum(e, Callers)
    BY DEF EntitledIn
  <2> HIDE DEF e, z
  <2>3. Sum(z, Callers) <= Sum(e, Callers) /\ Sum(z, Callers) = 0
    BY <1>2, <2>1, SumIsMonotonic, SumOfZeros
  <2>4. Sum(e, Callers) \in Int
    BY <1>2, <2>1, SumIsInteger
  <2> QED
    BY <2>2, <2>3, <2>4
<1>4. AllEntitled(cl) \in Int /\ AllEntitled(cl) >= 0
  <2> DEFINE e == [a \in Accounts |-> EntitledIn(cl, a)]
             z == [a \in Accounts |-> 0]
  <2>1. /\ \A a \in Accounts : z[a] \in Int /\ e[a] \in Int /\ z[a] <= e[a]
        /\ \A a \in Accounts : z[a] = 0
        /\ \A a \in Accounts : e[a] \in Int
    BY <1>3
  <2>2. AllEntitled(cl) = Sum(e, Accounts)
    BY DEF AllEntitled
  <2> HIDE DEF e, z
  <2>3. Sum(z, Accounts) <= Sum(e, Accounts) /\ Sum(z, Accounts) = 0
    BY <1>2, <2>1, SumIsMonotonic, SumOfZeros
  <2>4. Sum(e, Accounts) \in Int
    BY <1>2, <2>1, SumIsInteger
  <2> QED
    BY <2>2, <2>3, <2>4
<1>5. Sum(s, Accounts) \in Int
  <2>1. \A a \in Accounts : s[a] \in Int
    BY <1>2
  <2> QED
    BY <1>2, <2>1, SumIsInteger
<1>6. \A a \in Accounts : s[a] <= MaxTenant
  <2>1. \A a \in Accounts : s[a] + EntitledIn(cl, a) <= MaxTenant
    BY <1>1 DEF CapacityInv, WithinLimits
  <2> QED
    BY <1>2, <1>3, <2>1
<1>7. Sum(s, Accounts) <= Disk - MinFree
  <2>1. Sum(s, Accounts) + AllEntitled(cl) <= Disk - MinFree
    BY <1>1 DEF CapacityInv, WithinLimits
  <2> QED
    BY <1>2, <1>4, <1>5, <2>1
<1>8. PICK t, cl2 : t = reserved' /\ cl2 = caller'
  OBVIOUS
<1>9. /\ s = size' /\ total' = 0
      /\ t = [a \in Accounts |-> 0] /\ cl2 = [c \in Callers |-> NotCalling]
  BY <1>1, <1>8 DEF Restart, disk
<1>10. /\ cl2 \in [Callers -> Calls] /\ t \in [Accounts -> Int]
       /\ \A c \in Callers : cl2[c].pc = "idle" /\ cl2[c].reservation = 0
       /\ \A a \in Accounts : t[a] = HeldIn(cl2, a)
       /\ Sum(t, Accounts) = 0
       /\ \A a \in Accounts : s[a] + EntitledIn(cl2, a) <= MaxTenant
       /\ Sum(s, Accounts) + AllEntitled(cl2) <= Disk - MinFree
  BY <1>2, <1>5, <1>6, <1>7, <1>9, FreshTables
<1> QED
  BY <1>2, <1>8, <1>9, <1>10 DEF CapacityInv, CapacityType, HoldsWhileInside,
     TablesCountHeld, WithinLimits, At

LEMMA StutterKeepsLimits ==
    ASSUME CapacityInv, UNCHANGED vars
    PROVE  CapacityInv'
<1>1. UNCHANGED <<size, reserved, total, caller>>
  BY DEF vars, disk, capacity
<1> QED
  BY <1>1 DEF CapacityInv, CapacityType, HoldsWhileInside, TablesCountHeld, WithinLimits, At

-----------------------------------------------------------------------------
(* However operations, erasures and restarts overlap, what is allocated    *)
(* and what reservations still entitle to stay within the account's limit, *)
(* and all of them together leave the host its reserve.                    *)
THEOREM CapacityIsRespected == Spec => []LimitsRespected
<1>1. Init => CapacityInv
  BY InitiallyWithinLimits
<1>2. CapacityInv /\ [Next]_vars => CapacityInv'
  <2> SUFFICES ASSUME CapacityInv, [Next]_vars PROVE CapacityInv'
    OBVIOUS
  <2>1. CASE \E c \in Callers : Proceed(c)
    <3>1. PICK c \in Callers : Proceed(c)
      BY <2>1
    <3>2. CASE LookForDatabase(c)
      <4>1. PICK pc \in {"leaving", "opening", "reserving"} : Goto(c, pc)
        BY <3>2 DEF LookForDatabase
      <4>2. At(c, "looking") /\ UNCHANGED <<size, capacity>>
        BY <3>2 DEF LookForDatabase, disk
      <4> QED
        BY <4>1, <4>2, UnreservedKeeps DEF At, Working
    <3>3. CASE Leave(c)
      <4>1. /\ At(c, "leaving") /\ caller' = [caller EXCEPT ![c] = NotCalling]
            /\ UNCHANGED <<size, capacity>>
        BY <3>3 DEF Leave, disk
      <4>2. PICK a \in Accounts : a = caller[c].account
        BY <4>1 DEF CapacityInv, CapacityType, At
      <4> QED
        BY <4>1, FilesStay, NotCallingKeeps DEF At
    <3>4. CASE Drain(c)
      <4>1. At(c, "draining") /\ Goto(c, "unlinking") /\ UNCHANGED <<size, capacity>>
        BY <3>4 DEF Drain, Drained, disk
      <4> QED
        BY <4>1, UnreservedKeeps DEF At, Erasing
    <3> QED
      BY <3>1, <3>2, <3>3, <3>4, ReserveKeepsLimits, OpenKeepsLimits, WorkKeepsLimits,
         ReleaseKeepsLimits, UnlinkKeepsLimits DEF Proceed
  <2>2. CASE \E c \in Callers, a \in Accounts : BeginErase(c, a)
    <3>1. PICK c \in Callers, a \in Accounts : BeginErase(c, a)
      BY <2>2
    <3>2. PICK call : call = [pc |-> "draining", op |-> "erase", account |-> a,
                              reservation |-> 0]
      OBVIOUS
    <3>3. call \in Calls /\ call.account = a /\ call.reservation = 0
      BY <3>2 DEF Calls, Erasing
    <3>4. /\ At(c, "idle") /\ caller' = [caller EXCEPT ![c] = call]
          /\ UNCHANGED <<size, capacity>>
      BY <3>1, <3>2 DEF BeginErase, disk
    <3> QED
      BY <3>3, <3>4, BeginKeeps
  <2>3. CASE \E c \in Callers, a \in Accounts, op \in {"pull", "write", "export"} :
               Enter(c, a, op)
    <3>1. PICK c \in Callers, a \in Accounts, op \in {"pull", "write", "export"} :
            Enter(c, a, op)
      BY <2>3
    <3>2. PICK call : call = [pc |-> "looking", op |-> op, account |-> a,
                              reservation |-> 0]
      OBVIOUS
    <3>3. call \in Calls /\ call.account = a /\ call.reservation = 0
      BY <3>2 DEF Calls, Working
    <3>4. /\ At(c, "idle") /\ caller' = [caller EXCEPT ![c] = call]
          /\ UNCHANGED <<size, capacity>>
      BY <3>1, <3>2 DEF Enter, disk
    <3> QED
      BY <3>3, <3>4, BeginKeeps
  <2>4. CASE Restart
    BY <2>4, RestartKeepsLimits
  <2>5. CASE UNCHANGED vars
    BY <2>5, StutterKeepsLimits
  <2> QED
    BY <2>1, <2>2, <2>3, <2>4, <2>5 DEF Next
<1>3. CapacityInv => LimitsRespected
  BY LimitsFollow
<1> QED
  BY <1>1, <1>2, <1>3, PTL DEF Spec
=============================================================================
