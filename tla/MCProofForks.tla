---------------------------- MODULE MCProofForks ----------------------------
(***************************************************************************)
(* Three lemmas, the first two reusable, for ProofForks: an edit or a      *)
(* deletion, a reader or another edit beside or after it, and a page or a  *)
(* deletion that meets what they published.                                *)
(***************************************************************************)
EXTENDS ProofForks, TLC

Three == <<{"edit", "delete"}, {"node", "edit", "edit_all"}, {"page", "delete"}>>

\* The second lemma hides the first; the third assumes both.
HiddenPairs == {<<2, 1>>}

Symmetry == Permutations(Clients)
=============================================================================
