------------------------------- MODULE MCAccount -------------------------------
(***************************************************************************)
(* Instances of CaptainAccount for TLC.                                    *)
(***************************************************************************)
EXTENDS CaptainAccount, FiniteSets, TLC

CONSTANTS d1, d2, h1, h2

\* Bound: the documents, applications and deletion requests of a behaviour,
\* with one fewer once something was interrupted.
FewRecords ==
    Cardinality({d \in Documents : document[d].upload # "NONE"})
      + Cardinality({a \in Applications : Exists(a)})
      + Cardinality({k \in Deletions : deletion[k].status # "NONE"})
      + (IF interrupted THEN 1 ELSE 0) <= 4

Symmetry == Permutations(Documents) \cup Permutations(Handlers)
=============================================================================
