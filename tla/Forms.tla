------------------------------- MODULE Forms -------------------------------
(***************************************************************************)
(* The watch on SEC filings: an investment firm's Form ADV and a company's *)
(* Form D notices.  A check reads the stored snapshot, asks the SEC's site *)
(* what there is now, reads what was not read before, compares the two,    *)
(* stores the new snapshot and then, in a transaction of its own, records  *)
(* the changes.  The nightly check, a check started from a page and a      *)
(* screen of the contractor do this with no lock between them, so two of   *)
(* them may be at work on one firm.  A firm and a company share no row, so *)
(* a behaviour watches one or the other.                                   *)
(*                                                                         *)
(* The firm and the company file as they like; a form may be unreadable,   *)
(* read short of the funds it declares, or with its ownership schedules    *)
(* cut off; the site may not answer; and a checker may die.  A change is   *)
(* kept under an identifier made of what it says, so it is recorded once.  *)
(***************************************************************************)
EXTENDS FormAdv, FormD, FormBands

CONSTANTS
    Checker,       \* checks at work at one time
    FirstForm,     \* the firm's form, and the company's notice, to begin with
    FirstNotice,
    OldFunds,      \* what an older version of the reader may have left of the funds
    MaxFilings,    \* bound: forms and notices filed after those
    MaxChecks,     \* bound: checks started
    MaxFaults      \* bound: deaths, and answers the site does not give

ASSUME FormsAssumption ==
    /\ FirstForm \in Form /\ FirstNotice \in Notice /\ OldFunds \subseteq FundsOf
    /\ None \notin Snapshot
    /\ {MaxFilings, MaxChecks, MaxFaults} \subseteq Nat

VARIABLES
    forms,      \* what the firm has filed, in order
    notices,    \* what the company has filed, in order
    adv,        \* adv_snapshots: the firm's row, None before the first
    formd,      \* formd_snapshots: the company's
    told,       \* adv_changes and formd_changes
    subject,    \* whose filings are watched, a firm's, a company's or those of funds
    proc,       \* what each checker is doing
    first,      \* the baseline of each kind: what its first good reading found
    lapsed,     \* whether a checker died between its snapshot and its changes
    filings, checks, faults   \* the bounds' counters

vars == <<forms, notices, adv, formd, told, subject, proc, first, lapsed,
          filings, checks, faults>>
counters == <<filings, checks, faults>>

\* "funds" is the subject of module Funds; SecWatch has all three.
Subject == {"firm", "company", "funds"}
Idle == [at |-> "idle"]
LastOf(s) == s[Len(s)]
Stored == IF subject = "firm" THEN adv ELSE formd

\* What a checker holds: the stored snapshot it read, the one it has made of what
\* the site gave, the changes it is about to record, and (for the properties) the
\* baseline there was when it started.
Holding(at, previous, current, changes, base) ==
    [at |-> at, previous |-> previous, current |-> current, changes |-> changes,
     base |-> base]

Baselines == {"fund", "owner", "filing"}
NoBaseline == [b \in Baselines |-> None]

\* Before the first check, or with a row an older version of the reader left, which
\* may give a fund another fund's figures.
Init ==
    /\ forms = <<FirstForm>> /\ notices = <<FirstNotice>>
    /\ adv \in {None} \cup
         {[day |-> FirstForm.day, office |-> FirstForm.office, version |-> OldReader,
           fund |-> Read(funds), owner |-> Short(NoOwners)] : funds \in OldFunds}
    /\ formd = NoSnapshot
    /\ told = {} /\ first = NoBaseline /\ lapsed = FALSE /\ subject \in Subject
    /\ proc = [c \in Checker |-> Idle]
    /\ filings = 0 /\ checks = 0 /\ faults = 0

(***************************************************************************)
(* The outside                                                             *)
(***************************************************************************)
\* An amendment changes one thing, on a later day or the same one.
Amended(form) ==
    {[form EXCEPT !.fund[f] = s] : f \in Fund, s \in Share \cup {Absent}}
    \cup {[form EXCEPT !.owner[o] = k] : o \in Owner, k \in Kind \cup {Absent}}
    \cup {[form EXCEPT !.office = o] : o \in Office}

FileForm ==
    /\ subject = "firm" /\ filings < MaxFilings
    /\ \E form \in Amended(LastOf(forms)), later \in 0..1 :
          forms' = Append(forms, [form EXCEPT !.day = @ + later])
    /\ filings' = filings + 1
    /\ UNCHANGED <<notices, adv, formd, told, subject, proc, first, lapsed, checks, faults>>

FileNotice ==
    /\ subject = "company" /\ filings < MaxFilings
    /\ \E notice \in Notice : notices' = Append(notices, notice)
    /\ filings' = filings + 1
    /\ UNCHANGED <<forms, adv, formd, told, subject, proc, first, lapsed, checks, faults>>

(***************************************************************************)
(* A check                                                                 *)
(***************************************************************************)
Goes(c, to) ==
    /\ proc' = [proc EXCEPT ![c] = to]
    /\ UNCHANGED <<forms, notices, subject, filings>>

\* refresh_advisers and refresh_issuers read what is stored.
Start(c) ==
    /\ proc[c] = Idle /\ checks < MaxChecks /\ subject # "funds"
    /\ Goes(c, Holding("asking", Stored, None, {}, first))
    /\ checks' = checks + 1
    /\ UNCHANGED <<adv, formd, told, first, lapsed, faults>>

\* The site does not answer for this firm or company: the check goes on without it.
Unavailable(c) ==
    /\ proc[c].at = "asking" /\ faults < MaxFaults
    /\ Goes(c, Idle)
    /\ faults' = faults + 1
    /\ UNCHANGED <<adv, formd, told, first, lapsed, checks>>

\* The firm's record at IAPD, which says whether there is a form to read.
AskFirm(c) ==
    LET p    == proc[c]
        snap == FromRecord(LastOf(forms))
    IN /\ p.at = "asking" /\ subject = "firm"
       /\ Goes(c, IF IsUnchanged(p.previous, snap)
                  THEN [p EXCEPT !.at = "save", !.current = Carried(p.previous, snap)]
                  ELSE [p EXCEPT !.at = "reading", !.current = snap])
       /\ UNCHANGED <<adv, formd, told, first, lapsed, checks, faults>>

\* The form as it is at that moment; it may have been replaced since the record.
ReadForm(c) ==
    LET p == proc[c]
        form == LastOf(forms)
    IN /\ p.at = "reading"
       /\ \E funds \in FundsFound(form), owners \in OwnersFound(form) :
             Goes(c, [p EXCEPT !.at = "save", !.current = WithForm(@, funds, owners)])
       /\ UNCHANGED <<adv, formd, told, first, lapsed, checks, faults>>

\* The PDF is not one, or does not parse.
FormUnreadable(c) ==
    LET p == proc[c]
    IN /\ p.at = "reading" /\ faults < MaxFaults
       /\ Goes(c, [p EXCEPT !.at = "save", !.current = KeepLastReading(p.previous, @)])
       /\ faults' = faults + 1
       /\ UNCHANGED <<adv, formd, told, first, lapsed, checks>>

\* The company's list at EDGAR, and the documents on it not read before; an answer
\* with no list in it is an empty list.
AskCompany(c) ==
    LET p == proc[c]
    IN /\ p.at = "asking" /\ subject = "company"
       /\ \E listed \in {Listed(Len(notices)), {}} :
          \E failed \in SUBSET (listed \ AlreadyRead(p.previous.filings)) :
             /\ faults' = faults + (IF listed = {} \/ failed # {} THEN 1 ELSE 0)
             /\ faults' <= MaxFaults
             /\ Goes(c, [p EXCEPT !.at = "save",
                         !.current = Looked(Filings(p.previous.filings, notices,
                                                    listed, failed))])
       /\ UNCHANGED <<adv, formd, told, first, lapsed, checks>>

ChangesOf(p) ==
    IF subject = "firm" THEN AdviserChanges(p.previous, p.current)
    ELSE IssuerChanges(p.previous, p.current)

\* Whether what is saved ends a baseline, so that the next good reading is a first
\* look again: a part that was not read in full replaces what was read before, or an
\* older reader's reading is put back by a check that began before a newer one's.
Ends(b, p) ==
    \/ p.current.version = OldReader
    \/ /\ ~p.current[b].read
       /\ p.current.version = Reader \/ p.previous = None \/ ~p.previous.fund.read

\* The baseline a check leaves: there was none when it read the stored snapshot, or
\* it has become another since, so it starts one; otherwise it keeps the one it found.
Baseline(b, p, has) == IF p.base[b] = None \/ p.base[b] # first[b] THEN has ELSE first[b]

BaselinesAfter(p) ==
    [b \in Baselines |->
        IF b = "filing"
        THEN IF subject = "firm" THEN first[b] ELSE Baseline(b, p, DOMAIN p.current.filings)
        ELSE IF subject = "company" THEN first[b]
        ELSE IF Ends(b, p) THEN None
        ELSE IF p.current[b].read THEN Baseline(b, p, p.current[b].has)
        ELSE first[b]]

\* save_adv_snapshot and save_formd_snapshot.
Save(c) ==
    LET p == proc[c]
        changes == ChangesOf(p)
    IN /\ p.at = "save"
       /\ adv' = IF subject = "firm" THEN p.current ELSE adv
       /\ formd' = IF subject = "company" THEN p.current ELSE formd
       /\ first' = BaselinesAfter(p)
       /\ Goes(c, IF changes = {} THEN Idle
                  ELSE Holding("tell", None, None, changes, NoBaseline))
       /\ UNCHANGED <<told, lapsed, checks, faults>>

\* record_adv_changes and record_formd_changes: one already there stays as it is.
Tell(c) ==
    /\ proc[c].at = "tell"
    /\ told' = told \cup proc[c].changes
    /\ Goes(c, Idle)
    /\ UNCHANGED <<adv, formd, first, lapsed, checks, faults>>

\* The process ends under a check.
Die(c) ==
    /\ proc[c] # Idle /\ faults < MaxFaults
    /\ lapsed' = (lapsed \/ proc[c].at = "tell")
    /\ Goes(c, Idle)
    /\ faults' = faults + 1
    /\ UNCHANGED <<adv, formd, told, first, checks>>

Check(c) ==
    \/ Start(c) \/ Unavailable(c)
    \/ AskFirm(c) \/ ReadForm(c) \/ FormUnreadable(c) \/ AskCompany(c)
    \/ Save(c) \/ Tell(c) \/ Die(c)

Next == FileForm \/ FileNotice \/ \E c \in Checker : Check(c)

Spec == Init /\ [][Next]_vars

(***************************************************************************)
(* Properties                                                              *)
(***************************************************************************)
\* A snapshot on record, and what a checker is about to save, is well formed: of a
\* form never read nothing is held, and a document that could not be read says nothing.
\* (AdviserSnapshot, IssuerSnapshot)
WellFormed(s) ==
    \/ s = None
    \/ s \in Snapshot /\ (s.version = Unread => s.fund = Short(NoFunds))
IssuerWellFormed(s) == \A i \in DOMAIN s.filings : s.filings[i] \in Document
TypeOK ==
    /\ \A i \in DOMAIN forms : forms[i] \in Form
    /\ \A i \in DOMAIN notices : notices[i] \in Notice
    /\ WellFormed(adv) /\ IssuerWellFormed(formd)
    /\ DOMAIN formd.filings \subseteq DOMAIN notices
    /\ \A c \in Checker : proc[c].at \in {"reading", "save"} =>
           IF subject = "firm" THEN WellFormed(proc[c].current)
           ELSE IssuerWellFormed(proc[c].current)
    /\ checks <= MaxChecks /\ filings <= MaxFilings /\ faults <= MaxFaults

\* What is told of a fund or an owner is a difference between two forms the firm
\* filed, the later one as it is told, and not one between a form and a part of it
\* that could not be read; what is told of a notice is on it.
\* (compare and _compare_owners of adv.py, compare of formd.py)
OnTheForms(d) ==
    \E j \in DOMAIN forms : \E i \in 1..(j - 1) :
        LET was == forms[i][d.what][d.which]
            is  == forms[j][d.what][d.which]
        IN is = d.new /\ was # is /\ d.old \in {was, None}
OnTheNotice(d) ==
    LET n == notices[d.filing]
    IN CASE d.what = "person" -> d.who \in n.people
         [] d.what = "place" ->
                /\ d.new = n.place /\ d.old # d.new
                /\ \E i \in 1..(d.filing - 1) : notices[i].place = d.old
         [] OTHER -> TRUE
NothingInvented ==
    \A d \in told :
        /\ d.what \in Part => OnTheForms(d)
        /\ d.what \notin Part \cup {"filing", "office"} => OnTheNotice(d)

\* What changed since the first good reading is told, or is just about to be: each
\* fund and owner that the stored reading gives differently, and each notice stored
\* that was not there then.  A form that could not be read on some nights does not
\* make the next reading of it a first one.  Not so when a checker died between its
\* snapshot and its changes, or when a reading found the part incomplete.
\* (keep_last_reading, and refresh_advisers and refresh_issuers of alerts.py)
Said == told \cup UNION {proc[c].changes : c \in {d \in Checker : proc[d].at = "tell"}}
PartSaid(part) ==
    adv = None \/ first[part] = None \/ ~adv[part].read \/
        \A x \in DOMAIN first[part] :
            first[part][x] # adv[part].has[x] =>
                \E d \in Said : d.what = part /\ d.which = x /\ d.new = adv[part].has[x]
NothingMissed ==
    /\ ~lapsed /\ subject = "firm" => \A part \in Part : PartSaid(part)
    /\ ~lapsed /\ first["filing"] # None =>
           \A i \in DOMAIN formd.filings \ first["filing"] :
               \E d \in Said : d.what \in {"raise", "unread"} /\ d.filing = i

\* What is told is what changed: no less and no more.
NewsIsRight == NothingInvented /\ NothingMissed

\* Each band of a form is read in full, and once, in the order of the form.  It says
\* nothing of the state, so it is evaluated in the opening states only.
\* (band_drawings, form_text and read_form)
BandsReadOnce == subject = "firm" /\ checks = 0 /\ filings = 0 => Misread = {}

=============================================================================
