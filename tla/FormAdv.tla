------------------------------ MODULE FormAdv ------------------------------
(***************************************************************************)
(* Form ADV: what an investment firm files, what one reading of its PDF    *)
(* holds, how a reading is carried over when the form cannot be read       *)
(* again, and what two readings are said to differ in.                     *)
(*                                                                         *)
(* A form has two parts: the private funds, each with the share of it      *)
(* owned from abroad (which stands for all of its figures), and the firm's *)
(* owners, each with the kind of owner it is (which stands for its share   *)
(* and control); a fund or owner that is not on the form is Absent.  An    *)
(* owner is the owner whose name ends in the same words, as                *)
(* _compare_owners joins them.  The main office comes with the firm's      *)
(* record, not with the form.  Sentences, and the importance that orders   *)
(* them, are left out.                                                     *)
(***************************************************************************)
EXTENDS Naturals

CONSTANTS Fund, Share, Owner, Kind, Office, Absent, None

ASSUME FormAdvAssumption ==
    /\ Absent \notin Share \cup Kind
    /\ None \notin Office \cup Share \cup Kind

Part == {"fund", "owner"}

FundsOf == [Fund -> Share \cup {Absent}]
OwnersOf == [Owner -> Kind \cup {Absent}]

\* A form as filed: `day` is its filing date, which two filings may share.
Form == [fund: FundsOf, owner: OwnersOf, office: Office, day: Nat]

\* READER_VERSION, the version before it, and a form never read.
Reader == 2
OldReader == 1
Unread == 0

\* One part of a form as read; when it was not read in full it is not compared.
Read(has) == [read |-> TRUE, has |-> has]
Short(has) == [read |-> FALSE, has |-> has]
NoFunds == [f \in Fund |-> Absent]
NoOwners == [o \in Owner |-> Absent]

\* A stored snapshot: what the firm's record said, and what was read of the form.
Snapshot == [day: Nat, office: Office, version: {Unread, OldReader, Reader},
             fund: [read: BOOLEAN, has: FundsOf], owner: [read: BOOLEAN, has: OwnersOf]]

\* parse_firm_record: nothing of the form itself.
FromRecord(form) ==
    [day |-> form.day, office |-> form.office, version |-> Unread,
     fund |-> Short(NoFunds), owner |-> Short(NoOwners)]

\* The same filing, read in full by this version of the reader.
IsUnchanged(previous, snap) ==
    /\ previous # None
    /\ previous.fund.read
    /\ previous.day = snap.day
    /\ previous.version >= Reader

\* What the stored reading says of the form, under what the record says now.
Carried(previous, snap) == [previous EXCEPT !.day = snap.day, !.office = snap.office]

\* Mutant: a reading that failed is stored as one that found nothing.
KeepNothing(previous, snap) == snap

\* keep_last_reading: the last good one stays, with its filing date.
KeepLastReading(previous, snap) ==
    IF previous # None /\ previous.fund.read
    THEN [previous EXCEPT !.office = snap.office] ELSE snap

\* Schedule D as parsed: as many funds as the form declares, or fewer.
FundsFound(form) ==
    {IF found = form.fund THEN Read(found) ELSE Short(found) :
        found \in {g \in FundsOf : \A f \in Fund : g[f] \in {form.fund[f], Absent}}}

\* Schedules A and B: read in full, or cut off, which is not the same as empty.
OwnersFound(form) == {Read(form.owner), Short(NoOwners)}

\* A form read, whatever was found on it.
WithForm(snap, funds, owners) ==
    [snap EXCEPT !.fund = funds, !.owner = owners, !.version = Reader]

Difference(what, which, old, new) ==
    [what |-> what, which |-> which, old |-> old, new |-> new]

\* What is said of each fund or owner that differs: of a fund that went, only its name.
Differences(part, before, after) ==
    {Difference(part, x, IF part = "fund" /\ after[x] = Absent THEN None ELSE before[x],
                after[x]) :
        x \in {y \in DOMAIN before : before[y] # after[y]}}

\* Mutant: what was not read is compared as if nothing were there.
ComparesAnyway(part, old, new) == old.version = new.version

\* Funds, and owners, are compared only where both readings have them all.
Compares(part, old, new) ==
    old.version = new.version /\ old[part].read /\ new[part].read

\* compare: a first look is a baseline and reports nothing.
AdviserChanges(old, new) ==
    IF old = None THEN {}
    ELSE {d \in {Difference("filing", None, old.day, new.day),
                 Difference("office", None, old.office, new.office)} : d.old # d.new}
         \cup UNION {Differences(part, old[part].has, new[part].has) :
                        part \in {p \in Part : Compares(p, old, new)}}

=============================================================================
