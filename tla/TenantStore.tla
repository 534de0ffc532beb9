---------------------------- MODULE TenantStore -----------------------------
(***************************************************************************)
(* The registry of per-account databases (class TenantStore): request      *)
(* threads enter an account, perhaps reserve capacity, open its Store and  *)
(* work in it, while an erasure blocks the account, waits for them and     *)
(* removes the files.  One action is one section under _lock or under      *)
(* _capacity_lock, or one step outside both.                               *)
(*                                                                         *)
(* Sizes are in units of a reservation.  Which store the cache evicts is   *)
(* left open, the -wal and -shm files are one, and so are the mutations of *)
(* sync and sync_v1.  server_id, which nothing calls, is left out.         *)
(***************************************************************************)
EXTENDS Integers, FiniteSetsExt

CONSTANTS Accounts,
          Callers,          \* the server's threads
          Erasers,          \* those that may erase an account
          Reservations,     \* _write_reservation_bytes of some payload
          MaxCachedStores, MaxTenant, MinFree,
          Disk              \* bytes for tenant databases and the reserve

ASSUME TenantAssumption ==
    /\ IsFiniteSet(Callers) /\ IsFiniteSet(Accounts)
    /\ Erasers \subseteq Callers
    /\ Reservations \subseteq Nat \ {0}
    /\ MaxCachedStores \in Nat \ {0} /\ MaxTenant \in Nat \ {0}
    /\ MinFree \in Nat \ {0} /\ Disk \in Nat /\ Disk >= MinFree

VARIABLES files,      \* accounts whose database file exists
          sidecars,   \* accounts whose -wal or -shm file may exist
          size,       \* allocated bytes of each account
          stores,     \* _stores: accounts with a cached Store
          active,     \* _active_operations
          blocked,    \* _blocked_accounts
          reserved,   \* _tenant_reservations
          total,      \* _global_reservation
          caller,     \* where each thread is, and in which account
          erased      \* history: accounts this process has erased

disk == <<files, sidecars, size>>
registry == <<stores, active, blocked>>
capacity == <<reserved, total>>
vars == <<disk, registry, capacity, caller, erased>>

Working == {"looking", "reserving", "opening", "working", "releasing", "leaving"}
Erasing == {"draining", "unlinking", "sidecars"}
At(c, pc) == caller[c].pc = pc

NotCalling == [pc |-> "idle", op |-> "none", account |-> "none", reservation |-> 0]

Goto(c, pc) == caller' = [caller EXCEPT ![c].pc = pc]

(* After the operation, or the exception, what the caller still holds.     *)
Unwind(c) == Goto(c, IF caller[c].reservation > 0 THEN "releasing" ELSE "leaving")

Used == MapThenSumSet(LAMBDA a : size[a], Accounts)

Init ==
    /\ files = {} /\ sidecars = {} /\ size = [a \in Accounts |-> 0]
    /\ stores = {} /\ active = [a \in Accounts |-> 0] /\ blocked = {}
    /\ reserved = [a \in Accounts |-> 0] /\ total = 0
    /\ caller = [c \in Callers |-> NotCalling]
    /\ erased = {}

-----------------------------------------------------------------------------
(* An operation: sync with mutations, pull-only sync, export_snapshot.     *)

Enter(c, a, op) ==
    /\ At(c, "idle") /\ a \notin blocked
    /\ active' = [active EXCEPT ![a] = @ + 1]
    /\ caller' = [caller EXCEPT ![c] = [pc |-> "looking", op |-> op, account |-> a,
                                        reservation |-> 0]]
    /\ UNCHANGED <<disk, stores, blocked, capacity, erased>>

(* A pull of an existing database needs no capacity; an export of a        *)
(* missing one opens nothing.                                              *)
LookForDatabase(c) ==
    LET op == caller[c].op
        exists == caller[c].account \in files
    IN /\ At(c, "looking")
       /\ Goto(c, CASE op = "export" /\ ~exists -> "leaving"
                    [] op # "write" /\ exists   -> "opening"
                    [] OTHER                    -> "reserving")
       /\ UNCHANGED <<disk, registry, capacity, erased>>

(* Mutation of HasRoom: what others have reserved is not counted.          *)
HasRoomNow(a, r) == size[a] + r <= MaxTenant /\ (Disk - Used) - r >= MinFree

HasRoom(a, r) ==
    /\ size[a] + reserved[a] + r <= MaxTenant
    /\ (Disk - Used) - total - r >= MinFree

Reserve(c, r) ==
    LET a == caller[c].account
    IN /\ At(c, "reserving")
       /\ \/ /\ HasRoom(a, r)
             /\ reserved' = [reserved EXCEPT ![a] = @ + r]
             /\ total' = total + r
             /\ caller' = [caller EXCEPT ![c].pc = "opening", ![c].reservation = r]
          \/ ~HasRoom(a, r) /\ Goto(c, "leaving") /\ UNCHANGED capacity
       /\ UNCHANGED <<disk, registry, erased>>

(* Which of the other stores stay cached.                                  *)
Kept(others) ==
    IF Cardinality(others) < MaxCachedStores THEN {others}
    ELSE {kept \in SUBSET others : Cardinality(kept) = MaxCachedStores - 1}

(* _store: a cached Store, or a new one, whose constructor creates the     *)
(* database; the cache evicts others down to its limit.  A constructor     *)
(* that fails leaves what it has created, and caches nothing.              *)
OpenStore(c) ==
    LET a == caller[c].account
        others == stores \ {a}
    IN /\ At(c, "opening")
       /\ \/ a \in blocked /\ Unwind(c) /\ UNCHANGED <<files, sidecars, stores>>
          \/ /\ a \notin blocked
             /\ \E kept \in Kept(others) : stores' = kept \cup {a}
             /\ files' = IF a \in stores THEN files ELSE files \cup {a}
             /\ sidecars' = IF a \in stores THEN sidecars ELSE sidecars \cup {a}
             /\ Goto(c, "working")
          \/ /\ a \notin blocked \cup stores /\ Unwind(c)
             /\ files' \in {files, files \cup {a}}
             /\ sidecars' \in {sidecars, sidecars \cup {a}}
             /\ UNCHANGED stores
       /\ UNCHANGED <<size, active, blocked, capacity, erased>>

(* The Store's transaction, which grows the files by no more than was      *)
(* reserved, and not at all when it fails or only reads.                   *)
Work(c) ==
    /\ At(c, "working")
    /\ \E growth \in 0..caller[c].reservation :
          size' = [size EXCEPT ![caller[c].account] = @ + growth]
    /\ Unwind(c)
    /\ UNCHANGED <<files, sidecars, registry, capacity, erased>>

Release(c) ==
    /\ At(c, "releasing")
    /\ reserved' = [reserved EXCEPT ![caller[c].account] = @ - caller[c].reservation]
    /\ total' = total - caller[c].reservation
    /\ caller' = [caller EXCEPT ![c].pc = "leaving", ![c].reservation = 0]
    /\ UNCHANGED <<disk, registry, erased>>

(* Mutation of Leave: the counter is not restored.                         *)
LeaveUncounted(c) ==
    /\ At(c, "leaving")
    /\ caller' = [caller EXCEPT ![c] = NotCalling]
    /\ UNCHANGED <<disk, registry, capacity, erased>>

Leave(c) ==
    /\ At(c, "leaving")
    /\ active' = [active EXCEPT ![caller[c].account] = @ - 1]
    /\ caller' = [caller EXCEPT ![c] = NotCalling]
    /\ UNCHANGED <<disk, stores, blocked, capacity, erased>>

-----------------------------------------------------------------------------
(* erase_account: block, wait for the operations, forget the store, then   *)
(* unlink outside the lock; an error lets the account work again.          *)

BeginErase(c, a) ==
    /\ c \in Erasers /\ At(c, "idle")
    /\ blocked' = blocked \cup {a}
    /\ caller' = [caller EXCEPT ![c] = [pc |-> "draining", op |-> "erase",
                                        account |-> a, reservation |-> 0]]
    /\ UNCHANGED <<disk, stores, active, capacity, erased>>

(* Mutations of Drained: nobody is waited for; the cached store stays.     *)
NotDrained(c) ==
    /\ At(c, "draining")
    /\ stores' = stores \ {caller[c].account}

KeepsStore(c) ==
    /\ At(c, "draining") /\ active[caller[c].account] = 0
    /\ UNCHANGED stores

Drained(c) ==
    /\ At(c, "draining") /\ active[caller[c].account] = 0
    /\ stores' = stores \ {caller[c].account}

Drain(c) ==
    /\ Drained(c) /\ Goto(c, "unlinking")
    /\ UNCHANGED <<disk, active, blocked, capacity, erased>>

UnlinkDatabase(c) ==
    LET a == caller[c].account
    IN /\ At(c, "unlinking")
       /\ files' = files \ {a}
       /\ \E left \in 0..size[a] : size' = [size EXCEPT ![a] = left]
       /\ Goto(c, "sidecars")
       /\ UNCHANGED <<sidecars, registry, capacity, erased>>

(* Mutation of UnlinkSidecars: the block is lifted on success, too.        *)
UnlinkAndUnblock(c) ==
    LET a == caller[c].account
    IN /\ At(c, "sidecars")
       /\ sidecars' = sidecars \ {a}
       /\ size' = [size EXCEPT ![a] = 0]
       /\ erased' = erased \cup {a} /\ blocked' = blocked \ {a}
       /\ caller' = [caller EXCEPT ![c] = NotCalling]
       /\ UNCHANGED <<files, stores, active, capacity>>

UnlinkSidecars(c) ==
    LET a == caller[c].account
    IN /\ At(c, "sidecars")
       /\ sidecars' = sidecars \ {a}
       /\ size' = [size EXCEPT ![a] = 0]
       /\ erased' = erased \cup {a}
       /\ caller' = [caller EXCEPT ![c] = NotCalling]
       /\ UNCHANGED <<files, registry, capacity>>

(* An unlink of an existing file fails.                                    *)
FailErase(c) ==
    LET a == caller[c].account
    IN /\ \/ At(c, "unlinking") /\ a \in files
          \/ At(c, "sidecars") /\ a \in sidecars
       /\ blocked' = blocked \ {a}
       /\ caller' = [caller EXCEPT ![c] = NotCalling]
       /\ UNCHANGED <<disk, stores, active, capacity, erased>>

(* The process dies and starts again: only the files are left.             *)
Restart ==
    /\ stores' = {} /\ active' = [a \in Accounts |-> 0] /\ blocked' = {}
    /\ reserved' = [a \in Accounts |-> 0] /\ total' = 0
    /\ caller' = [c \in Callers |-> NotCalling]
    /\ erased' = {}
    /\ UNCHANGED disk

Proceed(c) ==
    \/ LookForDatabase(c) \/ \E r \in Reservations : Reserve(c, r)
    \/ OpenStore(c) \/ Work(c) \/ Release(c) \/ Leave(c)
    \/ Drain(c) \/ UnlinkDatabase(c) \/ UnlinkSidecars(c) \/ FailErase(c)

Next ==
    \/ \E c \in Callers : \/ Proceed(c)
                          \/ \E a \in Accounts : BeginErase(c, a)
                          \/ \E a \in Accounts, op \in {"pull", "write", "export"} :
                                Enter(c, a, op)
    \/ Restart

(* A thread that has begun goes on; nobody has to call.                    *)
Fairness == \A c \in Callers : WF_vars(Proceed(c))

Spec == Init /\ [][Next]_vars
FairSpec == Spec /\ Fairness

-----------------------------------------------------------------------------
Calls == [pc: {"idle"} \cup Working \cup Erasing,
          op: {"none", "pull", "write", "export", "erase"},
          account: Accounts \cup {"none"},
          reservation: Nat]

(* Every thread is in an account unless idle, and the cache has its limit. *)
TypeOK ==
    /\ files \subseteq Accounts /\ sidecars \subseteq Accounts
    /\ size \in [Accounts -> Nat]
    /\ stores \subseteq Accounts /\ Cardinality(stores) <= MaxCachedStores
    /\ active \in [Accounts -> Nat] /\ blocked \subseteq Accounts
    /\ reserved \in [Accounts -> Int] /\ total \in Int
    /\ caller \in [Callers -> Calls]
    /\ \A c \in Callers : ~At(c, "idle") => caller[c].account \in Accounts
    /\ erased \subseteq Accounts

Inside(a) == {c \in Callers : caller[c].pc \in Working /\ caller[c].account = a}

(* No operation is inside an account whose files an erasure is removing,   *)
(* though the erasure removes them without holding the lock.               *)
NoWorkDuringErasure ==
    \A c \in Callers : caller[c].pc \in {"unlinking", "sidecars"} =>
        Inside(caller[c].account) = {}

(* No cached Store, and none an operation is about to work in, belongs to  *)
(* a database that is gone: it would work in a new file without tables.    *)
(* An erasure that fails half-way is where this could go wrong.            *)
StoresHaveDatabases ==
    /\ stores \subseteq files
    /\ \A c \in Callers : At(c, "working") => caller[c].account \in files

(* "Block future work and remove one tenant database and its sidecars":    *)
(* nothing recreates a file of an account whose erasure has returned.      *)
ErasedStaysErased == erased \cap (files \cup sidecars) = {}

(* However operations overlap, the bytes already allocated and those that  *)
(* reservations still entitle to stay within the account's limit and       *)
(* leave the host its reserve.                                             *)
Entitled(a) ==
    MapThenSumSet(LAMBDA c : caller[c].reservation,
                  {c \in Inside(a) : caller[c].pc \in {"opening", "working"}})

LimitsRespected ==
    /\ \A a \in Accounts : size[a] + Entitled(a) <= MaxTenant
    /\ Used + MapThenSumSet(Entitled, Accounts) <= Disk - MinFree

(* An erasure that waits for operations returns.                           *)
EraseReturns == \A c \in Callers : At(c, "draining") ~> At(c, "idle")
=============================================================================
