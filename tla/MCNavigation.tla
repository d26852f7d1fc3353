---------------------------- MODULE MCNavigation ----------------------------
(***************************************************************************)
(* Up to three lemmas, their proofs of up to four steps.                   *)
(***************************************************************************)
EXTENDS Navigation, ProofIndex, TLC

OrderedNames == <<"", "a", "b">>
Lemmas == {"secrecy", "executable", "helper"}

Open1(m) == <<>> :> m
Trees ==
  {Open1("sorry"), Open1("Solved"),
   <<"", "b">> :> "sorry" @@ <<"", "a">> :> "Unfinishable" @@ <<"">> :> "solve" @@ <<>> :> "simplify",
   <<"b">> :> "Solved" @@ <<"a">> :> "Contradictory" @@ <<>> :> "solve",
   <<"b">> :> "Contradictory" @@ <<"a">> :> "simplify" @@ <<"a", "b">> :> "Contradictory" @@ <<>> :> "solve"}
Proofs == {get_proof_index_paths(tree) : tree \in Trees}

\* Every shape of a proof of up to three levels.
Shapes ==
  UNION {{{<<>>} \cup {<<k>> : k \in D} \cup UNION {{<<k, l>> : l \in f[k]} : k \in D} :
            f \in [D -> SUBSET CaseNames]} : D \in SUBSET CaseNames}

ASSUME IndexIsInOrder == \A shape \in Shapes : IsIndex([p \in shape |-> "simplify"])

Orders == {<<>>, <<"secrecy">>, <<"secrecy", "executable">>, <<"executable", "helper">>,
           <<"executable", "secrecy", "helper">>}

\* A lemma that is not there has the step `sorry'.
AllTheories ==
  UNION {{[lemmas |-> order, paths |-> f] :
            f \in {g \in [Lemmas -> Proofs] :
                     \A l \in Lemmas :
                       /\ l \notin {order[i] : i \in DOMAIN order} => g[l] = get_proof_index_paths(Open1("sorry"))
                       /\ Len(order) = 3 /\ l # order[2] => Len(g[l]) \in {1, 4} /\ g[l][1].method # "solve"
                       /\ Len(order) = 3 /\ l = order[2] => g[l][1].method # "simplify"}}
         : order \in Orders}
=============================================================================
