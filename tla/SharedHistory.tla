--------------------------- MODULE SharedHistory ---------------------------
(***************************************************************************)
(* What sync v2 promises, without requests, pages, acknowledgements or     *)
(* retries: one history that every device's queued mutations join exactly  *)
(* once, and that every device follows from its start without a gap.  A    *)
(* mutation leaves its device's queue exactly when the device has seen it  *)
(* in the history.                                                         *)
(***************************************************************************)
EXTENDS SequencesExt

CONSTANTS Devices, Mutations

VARIABLES history,   \* mutations in the order the server committed them
          queued,    \* each device's mutations it has not seen committed
          seen       \* how much of the history each device has applied

historyVars == <<history, queued, seen>>

InitHistory ==
    /\ history = << >>
    /\ queued = [d \in Devices |-> {}]
    /\ seen = [d \in Devices |-> 0]

Used == ToSet(history) \cup UNION {queued[d] : d \in Devices}

(* The user edits, or a snapshot of the rows is staged.                    *)
Edit(d) ==
    /\ UNCHANGED <<history, seen>>
    /\ \E new \in SUBSET (Mutations \ Used) :
          queued' = [queued EXCEPT ![d] = @ \cup new]

Publish(d) ==
    /\ UNCHANGED <<queued, seen>>
    /\ \E s \in SetToAllKPermutations(queued[d] \ ToSet(history)) :
          history' = history \o s

Observe(d) ==
    /\ UNCHANGED history
    /\ \E n \in seen[d]..Len(history) :
          /\ seen' = [seen EXCEPT ![d] = n]
          /\ queued' = [queued EXCEPT ![d] = @ \ ToSet(SubSeq(history, 1, n))]

NextHistory == \E d \in Devices : Edit(d) \/ Publish(d) \/ Observe(d)

HistorySpec == InitHistory /\ [][NextHistory]_historyVars
=============================================================================
