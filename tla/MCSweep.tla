------------------------------ MODULE MCSweep ------------------------------
(* One watch, on an office whose awards are read in one part: a page of    *)
(* firms screened elsewhere, and one, published late, with a new one.      *)
EXTENDS Sweep

CONSTANTS newcomer

MCNames == [q \in Queries |-> [k \in 0..MaxPages - 1 |-> IF k = 0 THEN Nobody ELSE newcomer]]
MCRank == [c \in Contractors |-> 1]
MCSettings == {[hour |-> 12, suffix |-> "am"], [hour |-> 12, suffix |-> "pm"]}
MCEvening == {[hour |-> 6, suffix |-> "am"], [hour |-> 18, suffix |-> ""]}
=============================================================================
