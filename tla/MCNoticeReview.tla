--------------------------- MODULE MCNoticeReview ---------------------------
(* Small instances of NoticeReview for TLC. *)
EXTENDS NoticeReview, TLC

\* Sound where every screen's finding names an officer, or none does.
Interchangeable ==
    Permutations(Screens) \cup Permutations(Requests) \cup Permutations(Signals)
=============================================================================
