--------------------------- MODULE ProofVersions ---------------------------
(***************************************************************************)
(* What a user of the interactive proofs sees: published versions, each a  *)
(* map from lemmas to proof trees that never changes, and drafts, each an  *)
(* independent copy of one version that is edited in private and then      *)
(* published under a new number.  No laziness, sharing, locks or copying.  *)
(* ProofForks implements it.                                               *)
(***************************************************************************)
EXTENDS Integers, Sequences

CONSTANTS Clients, Reuse,
          First,         \* the proofs of the version loaded at start
          Numbers        \* the numbers of edits and versions

VARIABLES shown,   \* version -> lemma -> tree
          draft    \* client -> [open, proofs: lemma -> tree]

versionVars == <<shown, draft>>

NoDraft == [open |-> FALSE, proofs |-> <<>>]
Draft(proofs) == [open |-> TRUE, proofs |-> proofs]

VersionsInit == shown = First /\ draft = [p \in Clients |-> NoDraft]

Open(p) ==
  /\ ~draft[p].open
  /\ \E v \in DOMAIN shown : draft' = [draft EXCEPT ![p] = Draft(shown[v])]
  /\ UNCHANGED shown

\* An edit of one lemma: its whole proof is replaced, or a step below the root.
\* The assumptions of the systems stay those of the version.
Change(p) ==
  /\ \E l \in DOMAIN draft[p].proofs :
       LET old == draft[p].proofs[l]
       IN  \E e \in Numbers :
             \/ draft' = [draft EXCEPT ![p].proofs[l] =
                            [asm |-> old.asm, steps |-> <<e>>, wrapped |-> FALSE]]
             \/ /\ old.steps # <<>>
                /\ draft' = [draft EXCEPT ![p].proofs[l].steps = Append(@, e)]
  /\ UNCHANGED shown

\* A lemma is deleted.  Nobody assumes it any more; the lemmas that could have
\* done so keep the steps of their proofs, marked as invalidated.
Remove(p) ==
  /\ \E x \in DOMAIN draft[p].proofs :
       LET old == draft[p].proofs
           Stale(l) == x \in Reuse /\ x < l
       IN  draft' = [draft EXCEPT ![p].proofs =
             [l \in DOMAIN old \ {x} |->
                IF Stale(l) THEN [asm |-> old[l].asm \ {x}, steps |-> old[l].steps,
                                  wrapped |-> old[l].steps # <<>>]
                ELSE old[l]]]
  /\ UNCHANGED shown

Publish(p) ==
  /\ draft[p].open
  /\ draft' = [draft EXCEPT ![p] = NoDraft]
  /\ \E v \in Numbers \ DOMAIN shown :
       shown' = [w \in DOMAIN shown \cup {v} |-> IF w = v THEN draft[p].proofs ELSE shown[w]]

GiveUp(p) == draft' = [draft EXCEPT ![p] = NoDraft] /\ UNCHANGED shown

Unload ==
  /\ \E v \in DOMAIN shown : shown' = [w \in DOMAIN shown \ {v} |-> shown[w]]
  /\ UNCHANGED draft

VersionsNext ==
  \/ Unload
  \/ \E p \in Clients : Open(p) \/ Change(p) \/ Remove(p) \/ Publish(p) \/ GiveUp(p)

VersionsSpec == VersionsInit /\ [][VersionsNext]_versionVars
=============================================================================
