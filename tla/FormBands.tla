----------------------------- MODULE FormBands -----------------------------
(***************************************************************************)
(* How the text of a Form ADV is read exactly once.  The PDF is rendered   *)
(* in bands; every page draws its band from the top down to that page and, *)
(* where the page crosses into the next band, the first sliver of that one *)
(* too.  band_drawings sorts the drawings into chains, one a band, and     *)
(* keeps the fullest of each.  A drawing is the sequence of what it shows. *)
(*                                                                         *)
(* The second half writes down how such a PDF is drawn, which is what the  *)
(* module comment of adv.py says of it, and what reading it once means.    *)
(***************************************************************************)
EXTENDS Naturals, SequencesExt

CONSTANT
    RedrawMin,   \* _REDRAW_MIN_ITEMS: what a redrawn band must still share
    MaxLength    \* bound: the most a drawing shows

ASSUME BandsAssumption == RedrawMin \in Nat \ {0} /\ MaxLength \in Nat

\* _shared_start: how many leading items two drawings have in common.
SharedStart(a, b) == Len(LongestCommonPrefix({a, b}))

\* The chains seen on the page before that a drawing extends, or draws again.
Joins(chains, page, items) ==
    {i \in DOMAIN chains :
        LET n == SharedStart(chains[i].items, items)
        IN /\ chains[i].page + 1 >= page
           /\ \/ n = Len(chains[i].items)
              \/ n >= RedrawMin /\ 2 * n + 1 >= Len(chains[i].items)}

\* The one with most in common, the last of several.
Best(chains, joins, items) ==
    CHOOSE i \in joins :
        \A j \in joins \ {i} :
            LET n(k) == SharedStart(chains[k].items, items)
            IN n(i) > n(j) \/ (n(i) = n(j) /\ i > j)

\* Mutant: a drawing must show more than the fullest so far to replace it.
StrictlyFuller(chain, items) == Len(items) > chain.most

Fuller(chain, items) == Len(items) >= chain.most

\* One drawing of one page, sorted into its chain or made a chain of its own.
Sorted(chains, d) ==
    LET joins == Joins(chains, d.page, d.items)
        fresh == [page |-> d.page, items |-> d.items, drawing |-> d,
                  most |-> Len(d.items)]
        i     == Best(chains, joins, d.items)
        seen  == [chains[i] EXCEPT !.page = d.page, !.items = d.items]
    IN IF d.items = <<>> THEN chains
       ELSE IF joins = {} THEN Append(chains, fresh)
       ELSE [chains EXCEPT ![i] = IF Fuller(chains[i], d.items)
                                  THEN [seen EXCEPT !.drawing = d, !.most = Len(d.items)]
                                  ELSE seen]

\* band_drawings: the fullest drawing of each chain, or an ordinary document.
BandDrawings(pages, drawings) ==
    LET chains == FoldLeft(Sorted, <<>>, drawings)
        most   == IF pages \div 4 > 3 THEN pages \div 4 ELSE 3
    IN IF chains = <<>> \/ (pages > 3 /\ Len(chains) > most) THEN <<>>
       ELSE [i \in DOMAIN chains |-> chains[i].drawing]

(***************************************************************************)
(* A PDF of two bands                                                      *)
(***************************************************************************)
\* The first n items of band b; a table cut by the page is drawn otherwise.
Drawn(b, n, cut) == [k \in 1..n |-> <<b, k, cut /\ k = n>>]

\* The sizes a band's drawings take, page by page, each no smaller than the last.
Growing(pages) ==
    {s \in [1..pages -> 1..MaxLength] : \A k \in 1..(pages - 1) : s[k] <= s[k + 1]}

\* Which of them end in a cut table: not the last, and each with a long opening.
Cuts(s) ==
    {k \in SUBSET (DOMAIN s \ {Len(s)}) : \A i \in k : s[i] > RedrawMin}

\* A band from page `first` on, and every PDF of two bands, the second starting on
\* the page the first ends on or on the one after.
BandFrom(b, first, s, cuts) ==
    [k \in DOMAIN s |-> [page |-> first + k - 1, items |-> Drawn(b, s[k], k \in cuts)]]
TwoBands ==
    UNION {{[one |-> BandFrom(1, 1, s1, c1), two |-> BandFrom(2, first, s2, c2)] :
                c1 \in Cuts(s1), c2 \in Cuts(s2), first \in {Len(s1), Len(s1) + 1}} :
           s1 \in Growing(2) \cup Growing(3), s2 \in Growing(1) \cup Growing(2)}

\* The drawings in the order of the pages; on one page, the first band's before.
InOrder(pdf) ==
    LET on(band, p) == SelectSeq(band, LAMBDA d : d.page = p)
    IN FlattenSeq([p \in 1..5 |-> on(pdf.one, p) \o on(pdf.two, p)])

\* The PDFs of which anything else is kept than the last drawing of each band.
Misread ==
    {pdf \in TwoBands :
        LET one == pdf.one[Len(pdf.one)]
            two == pdf.two[Len(pdf.two)]
        IN BandDrawings(two.page, InOrder(pdf)) # <<one, two>>}

=============================================================================
