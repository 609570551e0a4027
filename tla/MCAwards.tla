------------------------------ MODULE MCAwards ------------------------------
(* Two prime awards and a subaward, two contractors one of which is a       *)
(* person, an agency's run and an office's.                                 *)
EXTENDS Awards

CONSTANTS a1, a2, s1, h1, h2, home, abroad, c1, p1, p2

\* One award was novated, to a firm abroad, before the first run; the first
\* contractor, which holds the others, is a person.
FirstActions == [a \in Award |->
    IF a = a1 THEN <<[holder |-> h1, seat |-> home], [holder |-> h2, seat |-> abroad]>>
    ELSE <<[holder |-> h1, seat |-> home]>>]

=============================================================================
