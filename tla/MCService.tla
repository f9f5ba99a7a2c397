------------------------------ MODULE MCService ------------------------------
(***************************************************************************)
(* Instances of ServiceDesk for TLC.                                       *)
(***************************************************************************)
EXTENDS ServiceDesk, TLC

CONSTANTS r1, r2, r3, p1, p2, a1, h1, plumber

\* Bounds: the rows of a behaviour, which has three requests for one provider
\* or one request for two, and how often completions are counted or missed.
Present(rows) == Cardinality({x \in DOMAIN rows : rows[x].status # "NONE"})

FewRecords ==
    /\ Present(request) + 2 * Present(provider) + Present(application) <= 5
    /\ MapThenSumSet(LAMBDA p : provider[p].completed, Providers)
         + 2 * Cardinality(uncounted) <= 3

Symmetry == Permutations(Requests) \cup Permutations(Providers)
=============================================================================
