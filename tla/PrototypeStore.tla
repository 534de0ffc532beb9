--------------------------- MODULE PrototypeStore ---------------------------
(***************************************************************************)
(* The prototype's data: the issues of one edition, which never change,    *)
(* and the overrides its screens share through useStore.  An issue is its  *)
(* number (its id is made of it) and the fields a screen may change; the   *)
(* estimate goes with the condition, titles and covers are left out.       *)
(***************************************************************************)
EXTENDS Integers, Sequences, FiniteSets

CONSTANTS LastIssue,   \* the number of the last issue
          Base,        \* ISSUES: the issues as cc-data.js makes them
          Names        \* what may be typed as a borrower

Numbers == 1..LastIssue
Grades == 1..5                       \* R2_GRADE_OF, RV_COND: P, G, F, VF, M
VF == 4
Unknown == 0                         \* the condition of an issue not owned
Blank == ""
Dates == {"earlier", "07/2026"}
Borrowers == Names \cup {"-"}
NotLent == [to |-> Blank, since |-> Blank]
Loans == [to: Borrowers, since: Dates]

Fields == {"owned", "read", "dupli", "condition", "loaned"}

IssueRecords ==
    [number: Numbers, owned: BOOLEAN, read: BOOLEAN, dupli: BOOLEAN,
     condition: Grades \cup {Unknown}, loaned: Loans \cup {NotLent}]

ASSUME StoreAssumption ==
    /\ LastIssue \in Nat \ {0}
    /\ Base \in [Numbers -> IssueRecords]
    /\ \A i \in Numbers : Base[i].number = i
    /\ Blank \notin Names

(* What some of the fields of an issue are replaced by.                    *)
FieldValues(f) == CASE f = "condition" -> Grades
                    [] f = "loaned"    -> Loans \cup {NotLent}
                    [] OTHER           -> BOOLEAN

IsPatch(p) == \A f \in DOMAIN p : f \in Fields /\ p[f] \in FieldValues(f)

(* { ...a, ...b }                                                          *)
Spread(a, b) ==
    [x \in DOMAIN a \cup DOMAIN b |-> IF x \in DOMAIN b THEN b[x] ELSE a[x]]

(* Mutation of WithPatch: a patch replaces the earlier ones of its issue.  *)
OnlyPatch(ov, i, p) == [ov EXCEPT ![i] = p]

WithPatch(ov, i, p) == [ov EXCEPT ![i] = Spread(@, p)]

(* getIssue, of an issue as some screen has it.                            *)
GetIssue(it, ov) == Spread(it, ov[it.number])
CurrentIssue(i, ov) == GetIssue(Base[i], ov)

(* The lists, in which the hub counts too.                                 *)
IsUnread(it) == it.owned /\ ~it.read
IsWanted(it) == ~it.owned
IsDuplicate(it) == it.owned /\ it.dupli
IsLent(it) == it.owned /\ it.loaned # NotLent

UnreadAtStart == {i \in Numbers : IsUnread(Base[i])}      \* CC_DATA.UNREAD

(* An issue's grade, VF while nobody has said.                             *)
GradeOf(it) == IF it.condition = Unknown THEN VF ELSE it.condition

(* The form of the edit screen, and what saving it patches.                *)
EditForms == [grade: Grades, dupli: BOOLEAN, loanOn: BOOLEAN,
              loanTo: Borrowers \cup {Blank}]

EditFormOf(it) ==
    [grade |-> GradeOf(it), dupli |-> it.dupli, loanOn |-> it.loaned # NotLent,
     loanTo |-> it.loaned.to]

LoanOf(form, it) ==
    IF ~form.loanOn THEN NotLent
    ELSE [to |-> IF form.loanTo = Blank THEN "-" ELSE form.loanTo,
          since |-> IF it.loaned = NotLent THEN "07/2026" ELSE it.loaned.since]

EditPatch(form, it) ==
    [condition |-> form.grade, dupli |-> form.dupli, loaned |-> LoanOf(form, it)]
=============================================================================
