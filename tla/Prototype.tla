----------------------------- MODULE Prototype ------------------------------
(***************************************************************************)
(* The interactive prototype (RApp): one route, the overrides of the       *)
(* shared store, and the local state of the mounted screen.  One action is *)
(* one screen, its disjuncts are the handlers RApp gives it; the bottom    *)
(* bar is an action of its own.  Routes are the code's objects: where Back *)
(* leads is part of them, and so is the issue as the opening screen had    *)
(* it.  A screen keeps its local state while the route's name stays.       *)
(*                                                                         *)
(* Left out: typed texts and choices that no handler reads (searching may  *)
(* find any issue), timers that only flash, and the look (setTweak).       *)
(***************************************************************************)
EXTENDS PrototypeStore, FiniteSetsExt

CONSTANTS Series,          \* SERIES
          Editions,        \* the editions of each
          Pool,            \* the issues FastScan recognizes, in turn
          Releases,        \* R3_RELEASES
          GradeChips,      \* the grades a screen offers (all of them)
          BatchStart,      \* the batch form as it is mounted
          MaxShown,        \* how many numbers the batch form shows
          BatchNumbers,    \* what may be typed as a limit of the range
          MaxPatches,      \* bound: handlers that patch the store
          MaxScans,        \* bound: scans of one session
          Positions, Items, Members, FirstPosition, MaxDelivery

ASSUME PrototypeAssumption ==
    /\ GradeChips \subseteq Grades
    /\ Series # {} /\ Editions \in [Series -> SUBSET STRING]
    /\ Pool \in Seq(Numbers) /\ Pool # <<>>
    /\ BatchStart.from \in BatchNumbers /\ BatchStart.to \in BatchNumbers
    /\ BatchNumbers \subseteq Nat /\ BatchStart.exc \subseteq Nat
    /\ MaxShown \in Nat /\ MaxPatches \in Nat /\ MaxScans \in Nat
    /\ FirstPosition \in Positions /\ MaxDelivery \in Nat \ {0}

VARIABLES route,        \* RApp's route
          ov,           \* useStore's overrides
          form,         \* local state of the mounted screen
          patches,      \* bound: handlers that have patched so far
          eroute, eform \* EApp, once mounted

E == INSTANCE PrototypeEnterprise

evars == <<eroute, eform>>
prototypeVars == <<route, ov, form, patches, evars>>

R(name) == [name |-> name]
RFrom(name, from) == [name |-> name, from |-> from]
IsAt(name) == route.name = name

ListScreens == {"unread", "trazim", "dupli", "posudeno"}
NoForm == [screen |-> "other"]

Mounted(r) ==
    CASE r.name = "edit"     -> EditFormOf(GetIssue(r.issue, ov))
      [] r.name = "scan"     -> [list |-> <<Head(Pool)>>, mode |-> "barkod"]
      [] r.name = "review"   -> [idx |-> 1, done |-> {},
                                 grades |-> [k \in DOMAIN r.scanned |-> VF]]
      [] r.name = "batch"    -> BatchStart
      [] r.name = "import"   -> [step |-> 0]
      [] r.name = "issues"   -> [dense |-> TRUE]
      [] r.name = "releases" -> [toggled |-> {}]
      [] r.name = "settings" -> [autoSync |-> TRUE, notif |-> TRUE]
      [] OTHER               -> NoForm

Go(r) ==
    /\ route' = r
    /\ form' = IF r.name = route.name THEN form ELSE Mounted(r)
    /\ UNCHANGED <<ov, patches, evars>>

GoTo(names) == \E name \in names : Go(R(name))
SetForm(f) == form' = f /\ UNCHANGED <<route, ov, patches, evars>>

(* A handler that patches the store and stays.                             *)
Patching == patches < MaxPatches /\ patches' = patches + 1
Patch(i, p) ==
    /\ Patching /\ ov' = WithPatch(ov, i, p)
    /\ UNCHANGED <<route, form, evars>>

InitPrototype ==
    /\ route = R("welcome") /\ form = NoForm
    /\ ov = [i \in Numbers |-> <<>>] /\ patches = 0
    /\ E!EInit

(* Where Back, or the cross, of each screen that has one leads.            *)
FromOr(r, name) == IF "from" \in DOMAIN r THEN r.from ELSE R(name)

(* Mutation of TradedFrom: the list would go back to where it came from.   *)
TradedFromItself == RFrom("dupli", R("trade"))

TradedFrom == RFrom("dupli", R("polica"))

Back(r) ==
    CASE r.name = "mode"                      -> R("welcome")
      [] r.name = "login"                     -> R("mode")
      [] r.name = "register"                  -> R("login")
      [] r.name = "import"                    -> R("empty")
      [] r.name \in {"series", "hub"}         -> R("polica")
      [] r.name = "issues"                    -> [name |-> "series", series |-> r.series]
      [] r.name = "releases"                  -> FromOr(r, "home")
      [] r.name \in {"add", "scan"}           -> R("home")
      [] r.name = "review"                    -> R("scan")
      [] r.name = "confirm"                   -> R("search")
      [] r.name \in {"batch", "manual"}       -> R("add")
      [] r.name = "photo"                     -> R("scan")
      [] r.name = "trade"                     -> TradedFrom
      [] r.name = "conflict"                  -> R("settings")
      [] OTHER                                -> FromOr(r, "polica")

GoBack == Go(Back(route))
OpenIssue(it, from) == Go([name |-> "issue", issue |-> it, from |-> from])
OpenSeries == \E s \in Series : Go([name |-> "series", series |-> s])

-----------------------------------------------------------------------------
(* The way in.                                                             *)

Welcome == IsAt("welcome") /\ GoTo({"mode", "home"})

(* EApp is mounted for good: nothing in it changes RApp's route.           *)
ModePick == IsAt("mode") /\ (GoBack \/ GoTo({"login", "enterprise"}))
Login == IsAt("login") /\ (GoBack \/ GoTo({"home", "register"}))
Register == IsAt("register") /\ (GoBack \/ GoTo({"empty"}))
Empty == IsAt("empty") /\ GoTo({"import"})

Import ==
    /\ IsAt("import")
    /\ \/ GoBack
       \/ form.step = 0 /\ SetForm([step |-> 1])
       \/ form.step = 1 /\ GoTo({"polica"})

(* Either version of the conflicting issue is kept by going back.          *)
Conflict == IsAt("conflict") /\ GoBack

-----------------------------------------------------------------------------
(* The tabs and what they open.                                            *)

NavScreens ==
    {"home", "polica", "issues", "confirm", "manual", "series", "issue", "search",
     "hub", "stats", "export", "settings", "releases", "edit", "empty", "import",
     "trade", "batch", "review"} \cup ListScreens

NavBar ==
    /\ route.name \in NavScreens
    /\ GoTo({"home", "polica", "search", "settings", "add"})

Home ==
    /\ IsAt("home")
    /\ \/ GoTo({"releases"})
       \/ /\ UnreadAtStart # {}
          /\ OpenIssue(Base[Min(UnreadAtStart)], R("home"))
       \/ Go(RFrom("trazim", R("home")))
       \/ OpenSeries

HubScreens == {"stats", "releases", "export"} \cup ListScreens

Shelf ==
    /\ IsAt("polica")
    /\ \/ OpenSeries
       \/ \E id \in HubScreens \cup {"hub"} : Go(RFrom(id, R("polica")))

Hub ==
    /\ IsAt("hub")
    /\ GoBack \/ \E id \in HubScreens : Go(RFrom(id, R("hub")))

SeriesScreen ==
    /\ IsAt("series")
    /\ \/ GoBack
       \/ \E e \in Editions[route.series] :
             Go([name |-> "issues", series |-> route.series, tab |-> e])

Compact ==
    /\ IsAt("issues")
    /\ \/ GoBack
       \/ \E dense \in BOOLEAN : SetForm([dense |-> dense])
       \/ \E i \in Numbers : OpenIssue(CurrentIssue(i, ov), route)

(* A result is opened as cc-data.js has it.                                *)
Search ==
    /\ IsAt("search")
    /\ OpenSeries \/ \E i \in Numbers : OpenIssue(Base[i], R("search"))

Releasing ==
    /\ IsAt("releases")
    /\ \/ GoBack
       \/ \E r \in Releases : SetForm([toggled |-> SymDiff(form.toggled, {r})])

Settings ==
    /\ IsAt("settings")
    /\ \/ GoTo({"conflict", "welcome"})
       \/ SetForm([form EXCEPT !.autoSync = ~@]) \/ SetForm([form EXCEPT !.notif = ~@])

Stats == IsAt("stats") /\ GoBack
Export == IsAt("export") /\ GoBack

-----------------------------------------------------------------------------
(* One issue, and the lists that change issues where they stand.           *)

Neighbours(it) == {Base[i] : i \in {it.number - 1, it.number + 1} \cap Numbers}

Issue ==
    /\ IsAt("issue")
    /\ LET it == GetIssue(route.issue, ov)
       IN \/ GoBack
          \/ \E near \in Neighbours(it) : Go([route EXCEPT !.issue = near])
          \/ Patch(it.number, [read |-> ~it.read])
          \/ Patch(it.number, [owned |-> ~it.owned])
          \/ Go([name |-> "edit", issue |-> route.issue, from |-> route])

ListOf(name) ==
    CASE name = "unread"   -> {i \in Numbers : IsUnread(CurrentIssue(i, ov))}
      [] name = "trazim"   -> {i \in Numbers : IsWanted(CurrentIssue(i, ov))}
      [] name = "dupli"    -> {i \in Numbers : IsDuplicate(CurrentIssue(i, ov))}
      [] name = "posudeno" -> {i \in Numbers : IsLent(CurrentIssue(i, ov))}

(* What every list does: go back, open an issue, tick one off.             *)
ListScreen(name, ticked) ==
    /\ IsAt(name)
    /\ \/ GoBack
       \/ \E i \in ListOf(name) : \/ OpenIssue(CurrentIssue(i, ov), route)
                                  \/ Patch(i, ticked)

Unread == ListScreen("unread", [read |-> TRUE])
Trazim == ListScreen("trazim", [owned |-> TRUE])
Dupli == \/ ListScreen("dupli", [dupli |-> FALSE])
         \/ IsAt("dupli") /\ GoTo({"trade"})
Posudeno == ListScreen("posudeno", [loaned |-> NotLent])
Trade == IsAt("trade") /\ GoBack

(* Saving patches the store and goes back; removing only goes back.        *)
Edit ==
    /\ IsAt("edit")
    /\ LET it == GetIssue(route.issue, ov)
       IN \/ GoBack
          \/ \E g \in GradeChips : SetForm([form EXCEPT !.grade = g])
          \/ \E name \in Names \cup {Blank} :
                form.loanOn /\ SetForm([form EXCEPT !.loanTo = name])
          \/ SetForm([form EXCEPT !.dupli = ~@])
          \/ SetForm([form EXCEPT !.loanOn = ~@])
          \/ /\ Patching /\ ov' = WithPatch(ov, it.number, EditPatch(form, it))
             /\ route' = Back(route) /\ form' = NoForm
             /\ UNCHANGED evars

-----------------------------------------------------------------------------
(* Adding.                                                                 *)

AddSheet == IsAt("add") /\ (GoBack \/ GoTo({"scan", "manual", "search", "batch"}))

FastScan ==
    /\ IsAt("scan")
    /\ \/ GoBack \/ GoTo({"confirm"})
       \/ /\ Len(form.list) < MaxScans
          /\ SetForm([form EXCEPT !.list = Append(@, Pool[(Len(@) % Len(Pool)) + 1])])
       \/ \E mode \in {"barkod", "naslovnica"} : SetForm([form EXCEPT !.mode = mode])
       \/ Go([name |-> "review", scanned |-> form.list])

(* Mutation of Saved: it is taken for granted that they are owned.         *)
SavedGrades(list, grades, places) ==
    [i \in Numbers |->
        LET of == {k \in places : list[k] = i}
        IN IF of = {} THEN ov[i] ELSE Spread(ov[i], [condition |-> grades[Max(of)]])]

(* The store with the places confirmed in order: owned, with their grades. *)
Saved(list, grades, places) ==
    [i \in Numbers |->
        LET of == {k \in places : list[k] = i}
        IN IF of = {} THEN ov[i]
           ELSE Spread(ov[i], [owned |-> TRUE, condition |-> grades[Max(of)]])]

(* Issue by issue: a tap on a cover jumps to its place; saving the last    *)
(* place, or all from this one on, leads to the shelf.                     *)
Review ==
    LET list == route.scanned
        idx == form.idx
        Save(places) == /\ Patching /\ ov' = Saved(list, form.grades, places)
                        /\ UNCHANGED evars
        ToShelf == route' = R("polica") /\ form' = NoForm
    IN /\ IsAt("review")
       /\ \/ GoBack
          \/ \E g \in GradeChips : SetForm([form EXCEPT !.grades[idx] = g])
          \/ \E k \in DOMAIN list : SetForm([form EXCEPT !.idx = k])
          \/ /\ idx < Len(list) /\ Save({idx})
             /\ form' = [form EXCEPT !.done = @ \cup {list[idx]}, !.idx = idx + 1]
             /\ UNCHANGED route
          \/ idx = Len(list) /\ Save({idx}) /\ ToShelf
          \/ idx < Len(list) /\ Save(idx..Len(list)) /\ ToShelf

Confirm == IsAt("confirm") /\ (GoBack \/ GoTo({"photo"}))
Photo == IsAt("photo") /\ GoBack
Manual == IsAt("manual") /\ (GoBack \/ GoTo({"polica"}))

BatchRange(f) == f.from..f.to

(* A limit that is no number behaves as an empty range does.               *)
Batch ==
    /\ IsAt("batch")
    /\ \/ GoBack \/ GoTo({"polica"})
       \/ \E n \in BatchNumbers : \/ SetForm([form EXCEPT !.from = n])
                                  \/ SetForm([form EXCEPT !.to = n])
       \/ \E n \in {m \in BatchRange(form) : m < form.from + MaxShown} :
             SetForm([form EXCEPT !.exc = SymDiff(@, {n})])

Enterprise == IsAt("enterprise") /\ E!ENext /\ UNCHANGED <<route, ov, form, patches>>

NextPrototype ==
    \/ Welcome \/ ModePick \/ Login \/ Register \/ Empty \/ Import \/ Conflict
    \/ NavBar \/ Home \/ Shelf \/ Hub \/ SeriesScreen \/ Compact \/ Search
    \/ Releasing \/ Settings \/ Stats \/ Export
    \/ Issue \/ Unread \/ Trazim \/ Dupli \/ Posudeno \/ Trade \/ Edit
    \/ AddSheet \/ FastScan \/ Review \/ Confirm \/ Photo \/ Manual \/ Batch
    \/ Enterprise

PrototypeSpec == InitPrototype /\ [][NextPrototype]_prototypeVars

-----------------------------------------------------------------------------
(* The routes there are: a list knows what opened it, an issue the screen  *)
(* that opened it, the editor of an issue the route of that issue.         *)
PlainScreens ==
    {"welcome", "mode", "enterprise", "login", "register", "empty", "import",
     "conflict", "home", "polica", "search", "settings", "hub", "releases",
     "add", "scan", "confirm", "photo", "batch", "manual", "trade"}

HubRoutes ==
    [name: HubScreens \cup {"hub"}, from: {R("home"), R("polica"), R("hub")}]
EditionRoutes ==
    [name: {"issues"}, series: Series, tab: UNION {Editions[s] : s \in Series}]
IssueRoutes ==
    [name: {"issue"}, issue: IssueRecords,
     from: {R("home"), R("search")} \cup HubRoutes \cup EditionRoutes]
EditRoutes == [name: {"edit"}, issue: IssueRecords, from: IssueRoutes]

Routes ==
    {R(name) : name \in PlainScreens} \cup HubRoutes
    \cup [name: {"series"}, series: Series] \cup EditionRoutes
    \cup IssueRoutes \cup EditRoutes \cup [name: {"review"}, scanned: Seq(Numbers)]

(* The local state of the screens that patch the store.                    *)
FormOK ==
    /\ IsAt("edit") => form \in EditForms
    /\ IsAt("scan") => form.list \in Seq(Numbers) /\ form.list # <<>>
    /\ IsAt("review") =>
          /\ form.idx \in DOMAIN route.scanned
          /\ form.grades \in [DOMAIN route.scanned -> Grades]
          /\ form.done \subseteq Numbers

(* Every route, form and override has its shape.                           *)
PrototypeTypeOK ==
    /\ route \in Routes /\ FormOK
    /\ DOMAIN ov = Numbers /\ \A i \in Numbers : IsPatch(ov[i])
    /\ patches \in 0..MaxPatches
    /\ eroute \in E!ERoutes

(* "All routes use the shared store": although routes carry copies of      *)
(* issues taken at different times, some of them under a route to return   *)
(* to, each shows what the store holds now, whatever was patched between.  *)
Agrees(it) == GetIssue(it, ov) = CurrentIssue(it.number, ov)

ShownIssueIsCurrent ==
    /\ IsAt("issue") => Agrees(route.issue)
    /\ IsAt("edit") => Agrees(route.issue) /\ Agrees(route.from.issue)

(* What the review shows as done is in the collection, also when the same  *)
(* issue was scanned twice or the user jumped about.                       *)
DoneIsOwned ==
    IsAt("review") => \A i \in form.done : CurrentIssue(i, ov).owned

(* From every screen, going back four times at most ends at a tab or a     *)
(* first screen: the routes to return to never lead round in a circle.     *)
Landings == {"welcome", "empty", "home", "polica", "search", "settings"}
ELandings == {"aktivacija", "pregled", "postavke"}

Out(r) == IF r.name \in Landings THEN r ELSE Back(r)
EOut(r) == IF r.name \in ELandings THEN r ELSE E!EBack(r)

BackLeadsOut ==
    IF IsAt("enterprise") THEN EOut(EOut(EOut(EOut(eroute)))).name \in ELandings
    ELSE Out(Out(Out(Out(route)))).name \in Landings

=============================================================================
