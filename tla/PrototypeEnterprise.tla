------------------------ MODULE PrototypeEnterprise ------------------------
(***************************************************************************)
(* The enterprise half of the prototype (EApp): its route and the local    *)
(* state of the mounted screen.  A screen is mounted anew when the route's *)
(* name changes and keeps its state otherwise.  Typed texts, which filter  *)
(* or are never saved, and buttons without a handler are left out.         *)
(***************************************************************************)
EXTENDS Integers, Sequences

CONSTANTS Positions,     \* E_LOCATIONS
          Items,         \* E2_ITEMS
          Members,       \* E2_MEMBERS
          FirstPosition, \* the position an item or a delivery starts at
          MaxDelivery    \* bound: scans of one delivery

VARIABLES eroute, eform

evars == <<eroute, eform>>

At(name) == [name |-> name]
On(name) == eroute.name = name

NoForm == [step |-> 0]
Closed == [open |-> FALSE]
Opened(pos) == [open |-> TRUE, sel |-> pos, adding |-> FALSE]

MountedE(name) ==
    CASE name = "primjerak" -> [pos |-> FirstPosition, sheet |-> Closed, woff |-> FALSE]
      [] name = "prijem" -> [pos |-> FirstPosition, sheet |-> Closed, scans |-> 1]
      [] name = "aktivacija" -> [step |-> 0, loc |-> "zg1"]
      [] name = "posudbe" -> [tab |-> "sve"]
      [] name = "rezervacije" -> [tab |-> "spremne"]
      [] name = "postavke" -> [autoSync |-> TRUE]
      [] OTHER -> NoForm

GoE(r) ==
    /\ eroute' = r
    /\ eform' = IF r.name = eroute.name THEN eform ELSE MountedE(r.name)

SetForm(f) == eform' = f /\ UNCHANGED eroute

EInit == eroute = At("aktivacija") /\ eform = MountedE("aktivacija")

ENavBar ==
    /\ ~(\E name \in {"aktivacija", "novaposudba", "prijem"} : On(name))
    /\ \E name \in {"pregled", "inventar", "posudbe", "postavke", "prijem"} :
          GoE(At(name))

(* What the back arrow, or the cross, of a screen leads to.                *)
EBack(r) ==
    CASE r.name \in {"inventar", "posudbe", "rezervacije", "prijem"} -> At("pregled")
      [] r.name = "pozicija" -> At("inventar")
      [] r.name = "primjerak" -> r.from
      [] r.name \in {"clanovi", "novaposudba"} -> At("posudbe")
      [] r.name \in {"clan", "noviclan"} -> At("clanovi")

-----------------------------------------------------------------------------
Activate ==
    /\ On("aktivacija")
    /\ \/ eform.step = 0 /\ SetForm([eform EXCEPT !.step = 1])
       \/ /\ eform.step = 1
          /\ \/ \E loc \in {"zg1", "zg2", "st1"} : SetForm([eform EXCEPT !.loc = loc])
             \/ GoE(At("pregled"))

Dash ==
    /\ On("pregled")
    /\ \E name \in {"inventar", "posudbe", "rezervacije", "prijem"} : GoE(At(name))

Locations ==
    /\ On("inventar")
    /\ \/ GoE(EBack(eroute))
       \/ \E p \in Positions : GoE([name |-> "pozicija", pos |-> p])

Position ==
    /\ On("pozicija")
    /\ \/ GoE(EBack(eroute))
       \/ \E x \in Items : GoE([name |-> "primjerak", item |-> x, from |-> eroute])

(* The sheet that chooses a position, over an item or a delivery: a tap    *)
(* beside it closes it, saving makes the selected position the shown one.  *)
PositionSheet ==
    /\ On("primjerak") \/ On("prijem")
    /\ eform.sheet.open
    /\ \/ \E p \in Positions : SetForm([eform EXCEPT !.sheet.sel = p])
       \/ SetForm([eform EXCEPT !.sheet.adding = ~@])
       \/ SetForm([eform EXCEPT !.sheet = Closed])
       \/ SetForm([eform EXCEPT !.sheet = Closed, !.pos = eform.sheet.sel])

(* The sheet and the write-off dialog cover the item but not the bar below *)
(* it; neither writes anything off.                                        *)
Item ==
    /\ On("primjerak")
    /\ \/ /\ ~eform.sheet.open /\ ~eform.woff
          /\ \/ GoE(EBack(eroute)) \/ GoE(At("novaposudba"))
             \/ SetForm([eform EXCEPT !.sheet = Opened(eform.pos)])
             \/ SetForm([eform EXCEPT !.woff = TRUE])
       \/ eform.woff /\ SetForm([eform EXCEPT !.woff = FALSE])

(* Closing and receiving do the same: the list is dropped.                 *)
Receiving ==
    /\ On("prijem") /\ ~eform.sheet.open
    /\ \/ GoE(EBack(eroute))
       \/ eform.scans < MaxDelivery /\ SetForm([eform EXCEPT !.scans = @ + 1])
       \/ SetForm([eform EXCEPT !.sheet = Opened(eform.pos)])

LoansOfMembers ==
    /\ On("posudbe")
    /\ \/ GoE(EBack(eroute))
       \/ \E name \in {"novaposudba", "clanovi", "rezervacije"} : GoE(At(name))
       \/ \E tab \in {"sve", "kasni"} : SetForm([eform EXCEPT !.tab = tab])

MemberList ==
    /\ On("clanovi")
    /\ \/ GoE(EBack(eroute)) \/ GoE(At("noviclan"))
       \/ \E m \in Members : GoE([name |-> "clan", member |-> m])

NewMember == On("noviclan") /\ GoE(EBack(eroute))

Member ==
    On("clan") /\ (GoE(EBack(eroute)) \/ GoE(At("novaposudba")))

(* The card, then the copy, then the confirmation.                         *)
NewLoanOfMember ==
    /\ On("novaposudba")
    /\ \/ GoE(EBack(eroute))
       \/ eform.step < 2 /\ SetForm([eform EXCEPT !.step = @ + 1])

Reservations ==
    /\ On("rezervacije")
    /\ \/ GoE(EBack(eroute))
       \/ \E tab \in {"spremne", "sve"} : SetForm([eform EXCEPT !.tab = tab])

SettingsE == On("postavke") /\ SetForm([eform EXCEPT !.autoSync = ~@])

ENext ==
    \/ ENavBar \/ Activate \/ Dash \/ Locations \/ Position \/ PositionSheet
    \/ Item \/ Receiving \/ LoansOfMembers \/ MemberList \/ NewMember \/ Member
    \/ NewLoanOfMember \/ Reservations \/ SettingsE

-----------------------------------------------------------------------------
ERoutes ==
    LET positions == [name: {"pozicija"}, pos: Positions]
    IN {At(name) : name \in {"aktivacija", "pregled", "inventar", "posudbe", "clanovi",
                             "noviclan", "rezervacije", "novaposudba", "prijem",
                             "postavke"}}
       \cup positions
       \cup [name: {"primjerak"}, item: Items, from: positions]
       \cup [name: {"clan"}, member: Members]
=============================================================================
