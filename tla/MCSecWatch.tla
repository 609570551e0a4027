------------------------------ MODULE MCSecWatch ----------------------------
(* A firm with one fund and one owner, a company with two people and two    *)
(* places, and two funds each named after other words.                      *)
EXTENDS SecWatch, TLC

CONSTANTS va, vb, wa, wb, k1, k2,
          f1, low, high, o1, person, foreign, home, abroad, p1, p2, x, y

OpeningForm == [fund |-> [f \in Fund |-> low], owner |-> [o \in Owner |-> person],
                office |-> home, day |-> 1]
\* Another fund's figure.
WrongFunds == {[f \in Fund |-> high]}
OpeningNotice == [people |-> {p1}, place |-> x]

NamedBy == [w \in Words |-> IF w = wa THEN {va} ELSE {vb}]
\* Both funds file on every day that has an index.
Daily == [day: TradingDays, by: Vehicle]
\* The quarter ends on the fifth day.
QuarterOf == [d \in TradingDays |-> IF d <= 5 THEN 1 ELSE 2]

\* Two checks, or workers, differ in nothing but their names.
Alike == Permutations(Checker) \cup Permutations(Worker)

=============================================================================
