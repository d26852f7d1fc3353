----------------------------- MODULE ProofIndex -----------------------------
(***************************************************************************)
(* The list of a proof's steps that the web interface walks along          *)
(* (tamarin-server/src/handlers/proof_tree.rs).  A proof is a function     *)
(* from paths of case names to methods.                                    *)
(***************************************************************************)
EXTENDS ProofOrder

LOCAL INSTANCE SequencesExt

Entry(tree, p) == [path |-> p, method |-> tree[p]]
children(tree, p) == SelectSeq(Names, LAMBDA k : Append(p, k) \in DOMAIN tree)

RECURSIVE proof_index_paths_go(_, _)
proof_index_paths_go(tree, p) ==
  LET names == children(tree, p)
  IN FlattenSeq([i \in 1..Len(names) |->
       <<Entry(tree, Append(p, names[i]))>> \o proof_index_paths_go(tree, Append(p, names[i]))])

get_proof_index_paths(tree) == <<Entry(tree, <<>>)>> \o proof_index_paths_go(tree, <<>>)

\* The list has every step of the proof once, each before what is below it and
\* the cases of a step by name.
IsIndex(tree) ==
  LET paths == get_proof_index_paths(tree)
  IN InOrder(paths) /\ {paths[i].path : i \in 1..Len(paths)} = DOMAIN tree
=============================================================================
