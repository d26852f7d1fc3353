----------------------------- MODULE ReplayFiles -----------------------------
(***************************************************************************)
(* The life of a proof in a file: what Replay leaves is printed, parsed by *)
(* the next run, and replayed again; in between the theory may be edited,  *)
(* so that stored steps no longer fit.  Printer and parser work on tokens; *)
(* layout is left out.                                                     *)
(***************************************************************************)
EXTENDS Replay

CONSTANT MaxEdits    \* edits of the theory

VARIABLES
  edits,    \* edits of the theory so far
  before    \* of the proof printed last, if it had a syntax and the theory is the same since, or None

fileVars == <<calc, text, mode, node, edits, before>>

-----------------------------------------------------------------------------
(* Printing a proof as a sequence of tokens.                               *)

cases(n) == SelectSeq(Names, LAMBDA k : Append(n, k) \in DOMAIN node)

\* The text of a name; the unnamed case has none.
NameText(k) == IF k = Unnamed THEN <<>> ELSE <<k>>

\* A variant: no block is printed without its frame.
NeverInline(names) == FALSE

\* A single unnamed case is printed without a frame.
Inline(names) == names = <<Unnamed>>

RECURSIVE pp_proof(_)
pp_proof(n) ==
  LET names == cases(n)
      method == node[n].method
      case(i) == (IF i > 1 THEN <<"next">> ELSE <<>>)
                 \o <<"case">> \o NameText(names[i]) \o pp_proof(Append(n, names[i]))
  IN CASE names = <<>> /\ method = "Solved" -> <<method>>
       [] names = <<>> /\ method # "Solved" -> <<"by", method>>
       [] Inline(names) -> <<method>> \o pp_proof(Append(n, Unnamed))
       [] OTHER -> <<method>> \o FlattenSeq([i \in 1..Len(names) |-> case(i)]) \o <<"qed">>

-----------------------------------------------------------------------------
(* The recursive descent parser: a stored proof and the tokens behind it,  *)
(* or None.                                                                *)

Keyword(toks, k) == toks # <<>> /\ Head(toks) = k
proof_methods == Executable \cup {"sorry", "Contradictory", "Unfinishable", "invalidated"}

\* The words a printed step begins with: a case without a name is read under
\* the one that follows.
ASSUME WordsAreNames == (proof_methods \ {"solve"}) \cup {"Solved", "by"} \subseteq CaseNames

\* A name is any word; `solve' is printed with its goal, so no step follows the
\* word itself.
identifier(toks) == toks # <<>> /\ Head(toks) # "solve"

\* A step with its blocks, by position.
Skeleton(method, blocks) ==
  LET below == UNION {{<<i>> \o u : u \in DOMAIN blocks[i].tree} : i \in 1..Len(blocks)}
  IN [u \in {<<>>} \cup below |->
        IF u = <<>> THEN [name |-> Unnamed, method |-> method]
        ELSE IF Len(u) = 1 THEN [name |-> blocks[u[1]].name, method |-> blocks[u[1]].tree[<<>>].method]
        ELSE blocks[u[1]].tree[Tail(u)]]

Leaf(method) == Skeleton(method, <<>>)

Block(name, tree) == [name |-> name, tree |-> tree]

RECURSIVE proof_skeleton(_), one_case(_)
one_case(toks) ==
  IF ~Keyword(toks, "case") \/ ~identifier(Tail(toks)) THEN None
  ELSE LET sub == proof_skeleton(Tail(Tail(toks)))
           more == IF sub = None \/ ~Keyword(sub.rest, "next") THEN None ELSE one_case(Tail(sub.rest))
       IN IF sub = None THEN None
          ELSE IF Keyword(sub.rest, "next")
          THEN IF more = None THEN None
               ELSE [blocks |-> <<Block(toks[2], sub.tree)>> \o more.blocks, rest |-> more.rest]
          ELSE IF Keyword(sub.rest, "qed")
          THEN [blocks |-> <<Block(toks[2], sub.tree)>>, rest |-> Tail(sub.rest)]
          ELSE None

proof_skeleton(toks) ==
  IF toks = <<>> THEN None
  ELSE CASE Head(toks) = "Solved" -> [tree |-> Leaf("Solved"), rest |-> Tail(toks)]
    [] Head(toks) = "by" ->
         IF Len(toks) > 1 /\ toks[2] \in proof_methods
         THEN [tree |-> Leaf(toks[2]), rest |-> Tail(Tail(toks))] ELSE None
    [] Head(toks) \in proof_methods ->
         LET after == Tail(toks)
             framed == one_case(after)
             inline == proof_skeleton(after)
         IN CASE Keyword(after, "qed") -> [tree |-> Leaf(Head(toks)), rest |-> Tail(after)]
              [] Keyword(after, "case") ->
                   IF framed = None THEN None
                   ELSE [tree |-> Skeleton(Head(toks), framed.blocks), rest |-> framed.rest]
              [] OTHER ->
                   IF inline = None THEN None
                   ELSE [tree |-> Skeleton(Head(toks), <<Block(Unnamed, inline.tree)>>), rest |-> inline.rest]
    [] OTHER -> None

parse_proof_tree(toks) ==
  LET read == proof_skeleton(toks)
  IN IF read = None \/ read.rest # <<>> THEN None ELSE read.tree

-----------------------------------------------------------------------------
(* The steps of a user: load or prove, save what was printed, edit.        *)

FileInit == Init /\ edits = 0 /\ before = None

Run == (Load \/ Prove \/ Step \/ Fail) /\ UNCHANGED <<edits, before>>

\* A block without a name beside cases with names: there is no syntax for it.
Unprintable == \E n \in DOMAIN node :
  Append(n, Unnamed) \in DOMAIN node /\ \E p \in Kids(n) : Last(p) # Unnamed

\* The printed theory becomes the input of the next run, if it parses.
Reload ==
  /\ Judged
  /\ LET printed == pp_proof(<<>>)
     IN /\ parse_proof_tree(printed) # None
        /\ text' = parse_proof_tree(printed)
        /\ before' = IF Unprintable THEN None
                     ELSE [status |-> proof_status, printed |-> printed, mode |-> mode]
  /\ mode' = "none" /\ node' = NoNodes
  /\ UNCHANGED <<calc, edits>>

\* The next run is on the same file.
Rerun ==
  /\ Judged
  /\ mode' = "none" /\ node' = NoNodes
  /\ UNCHANGED <<calc, text, edits, before>>

\* The rules or the formula of the theory are edited, the proof is not.
Edit ==
  /\ mode = "none" /\ edits < MaxEdits
  /\ calc' \in Calculi \ {calc}
  /\ edits' = edits + 1 /\ before' = None
  /\ UNCHANGED <<text, mode, node>>

FileNext == Run \/ Reload \/ Rerun \/ Edit

FileSpec == FileInit /\ [][FileNext]_fileVars

-----------------------------------------------------------------------------
(* Properties                                                              *)

\* Proved here and checked again from the printed file, a proof has the same
\* verdict, and a checked one prints as before; nothing printed fails to parse,
\* and what the parser hands out is what replay may be given.
VerdictSurvivesReload ==
  Judged =>
    LET parsed == parse_proof_tree(pp_proof(<<>>))
    IN /\ ~Unprintable => parsed # None
       /\ parsed # None => IsText(parsed)
       /\ before # None /\ mode = "load" =>
            /\ proof_status = before.status
            /\ before.mode = "load" => pp_proof(<<>>) = before.printed
=============================================================================
