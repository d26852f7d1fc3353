--------------------------- MODULE MCSourceCache ---------------------------
(***************************************************************************)
(* Small sets of users for SourceCache.                                    *)
(***************************************************************************)
EXTENDS SourceCache

CONSTANTS main, second, goal, case, other, typing, page

\* A lemma with a case of its search, another thread on the lemma's context, a
\* sources lemma, and a page of another theory: the source pool is shared.
AllUsers == {goal, case, other, typing, page}
SessionOf == [u \in AllUsers |-> IF u = page THEN second ELSE main]
KindOf == [u \in AllUsers |-> IF u = typing THEN "raw" ELSE "refined"]
ParentOf == [u \in AllUsers |-> IF u = case THEN goal ELSE None]
CtxOf == [u \in AllUsers |-> IF u = other THEN goal ELSE u]
=============================================================================
