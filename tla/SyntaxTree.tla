----------------------------- MODULE SyntaxTree -----------------------------
(***************************************************************************)
(* The syntax trees that the parser (tree-sitter, a library) hands to the  *)
(* splitters.  A tree is the sequence of its named nodes in source order:  *)
(* node n starts at position n, t[n].up is the node it is in (0 for the    *)
(* root, which is node 1), t[n].kind its type.                             *)
(***************************************************************************)
EXTENDS Naturals, Sequences, FiniteSets

Nodes(t) == DOMAIN t
OfKind(t, kinds) == {n \in Nodes(t) : t[n].kind \in kinds}
Children(t, n) == {c \in Nodes(t) : t[c].up = n}

(* The nodes that node n is in, the nearest last.                          *)
Around(t, n) ==
  LET Up[k \in Nat] == IF k = 0 THEN {} ELSE {k} \cup Up[t[k].up]
  IN Up[t[n].up]

Within(t, n) == {c \in Nodes(t) : n \in Around(t, c)}
EndOf(t, n) == n + Cardinality(Within(t, n))

(* What a walk from below node n reaches that does not enter nodes for     *)
(* which Closed holds.                                                     *)
Walk(t, n, Closed(_)) ==
  {c \in Within(t, n) :
     \A k \in ({c} \cup Around(t, c)) \cap Within(t, n) : ~Closed(k)}

FirstOf(S) == IF S = {} THEN 0 ELSE CHOOSE n \in S : \A k \in S : n <= k
LastOf(S) == IF S = {} THEN 0 ELSE CHOOSE n \in S : \A k \in S : k <= n

(* The first of S that a walk with a stack meets: it takes the last child  *)
(* first, and a node before what is in it.                                 *)
FirstMet(t, S) == LastOf({n \in S : Around(t, n) \cap S = {}})

(* The part of the path from the root that lies in S, outermost first.     *)
PathIn(t, n, S) ==
  LET on == S \cap ({n} \cup Around(t, n))
      Take[k \in Nat] ==
        IF k = 0 THEN <<>>
        ELSE IF k \in on THEN Append(Take[k - 1], k) ELSE Take[k - 1]
  IN Take[n]
=============================================================================
