------------------------------- MODULE FormD -------------------------------
(***************************************************************************)
(* Form D: a company's notices of raising money privately.  Each is a      *)
(* document of its own, numbered here in the order filed, which names      *)
(* people and the company's place.  A stored snapshot holds the newest of  *)
(* them, each with whether it could be read.  Amounts and the wording of   *)
(* what is reported are left out.                                          *)
(***************************************************************************)
EXTENDS Naturals

CONSTANTS Person, Place, MaxKept, NoReading

ASSUME FormDAssumption == MaxKept \in Nat \ {0} /\ NoReading \notin Place

\* A document as filed, a new notice or an amendment of one.
Notice == [people: SUBSET Person, place: Place]

\* A document as stored: one that could not be read says nothing.
Kept(notice) == [readOk |-> TRUE, people |-> notice.people, place |-> notice.place]

\* Mutant: a document that could not be read is taken for one that names nobody.
TakenAsRead == [readOk |-> TRUE, people |-> {}, place |-> NoReading]

NotReadable == [readOk |-> FALSE, people |-> {}, place |-> NoReading]
Document == [readOk: {TRUE}, people: SUBSET Person, place: Place]
            \cup [readOk: {FALSE}, people: {{}}, place: {NoReading}]

\* A stored snapshot before the first look, and the filings of one.
NoSnapshot == [looked |-> FALSE, filings |-> <<>>]
Looked(filings) == [looked |-> TRUE, filings |-> filings]

\* The numbers filing_list gives, cut to the newest MaxKept.
Listed(n) == {i \in 1..n : i + MaxKept > n}

\* The documents read before, which are not fetched again.
AlreadyRead(filings) == {i \in DOMAIN filings : filings[i].readOk}

\* What is stored of each document listed: `failed` are those that cannot be read.
Filings(before, notices, listed, failed) ==
    [i \in listed |-> IF i \in AlreadyRead(before) THEN before[i]
                      ELSE IF i \in failed THEN NotReadable ELSE Kept(notices[i])]

PeopleOf(filings, S) == UNION {filings[i].people : i \in S}
Newest(S) == CHOOSE i \in S : \A j \in S : j <= i

\* What is reported of one document of `new` that `old` did not have.
FilingChanges(old, new, fresh, i) ==
    LET earlier == {j \in fresh : new[j].readOk /\ j < i}
        known   == PeopleOf(old, DOMAIN old) \cup PeopleOf(new, earlier)
        had     == DOMAIN old # {} \/ earlier # {}
        before  == IF earlier # {} THEN new[Newest(earlier)] ELSE old[Newest(DOMAIN old)]
    IN IF ~new[i].readOk THEN {[what |-> "unread", filing |-> i]}
       ELSE {[what |-> "raise", filing |-> i]}
            \cup {[what |-> "person", filing |-> i, who |-> p] :
                    p \in IF had THEN new[i].people \ known ELSE {}}
            \cup (IF had /\ before.readOk /\ before.place # new[i].place
                  THEN {[what |-> "place", filing |-> i, old |-> before.place,
                         new |-> new[i].place]}
                  ELSE {})

\* compare: a first look reports nothing.
IssuerChanges(old, new) ==
    LET fresh == DOMAIN new.filings \ DOMAIN old.filings
    IN IF old.looked
       THEN UNION {FilingChanges(old.filings, new.filings, fresh, i) : i \in fresh}
       ELSE {}

=============================================================================
