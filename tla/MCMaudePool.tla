---------------------------- MODULE MCMaudePool ----------------------------
(***************************************************************************)
(* A small task forest for MaudePool: a file of three rules and a lemma,   *)
(* which fans out to three cases, one of which fans out again.             *)
(***************************************************************************)
EXTENDS MaudePool

CONSTANTS r1, r2, r3, l1, a, b, c, a1, a2

KindOf(t) == CASE t \in {r1, r2, r3} -> "rule" [] t = l1 -> "lemma" [] OTHER -> "case"
ParentOf(t) == CASE t \in {a, b, c} -> l1 [] t \in {a1, a2} -> a [] OTHER -> None

\* The rules ask for one member more than there are, and so do the cases of the
\* lemma; those of a share a's.
FileTasks == {r1, r2, r3, l1, a, b, c, a1, a2}
FileKind == [t \in FileTasks |-> KindOf(t)]
FileParent == [t \in FileTasks |-> ParentOf(t)]
=============================================================================
