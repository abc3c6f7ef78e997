--------------------------------- MODULE Trees ---------------------------------
(***************************************************************************)
(* What the two kinds of trees of libcsapp (tree.h) share: nodes that      *)
(* carry their own links.  A node is its key, so cmp() is the order of     *)
(* numbers.  A tree is a record of its links; reading a link of NULL is an *)
(* error.  The code is written out twice, for the left and the right; here *)
(* a side is an argument.                                                  *)
(***************************************************************************)
EXTENDS Integers, FiniteSets

CONSTANT NodeCount     (* nodes that may be in the tree                     *)

ASSUME NodeAssumption == NodeCount \in Nat

Nodes == 1 .. NodeCount
NULL  == 0
Freed == -1            (* a link of a node that is not in the tree          *)
Links == Nodes \cup {NULL, Freed}

Sides == {"left", "right"}
other(side) == IF side = "left" THEN "right" ELSE "left"

(* The last node on the way to one side.  What is not in the tree ends a   *)
(* way and is its result.                                                  *)
outermost(t, side) ==
  LET f[x \in Links] ==
        IF x \notin Nodes THEN x ELSE IF t[side][x] = NULL THEN x ELSE f[t[side][x]]
  IN  f

(* The nodes below a node, and what the links lead to besides. *)
subtree(t) ==
  LET f[x \in Links] ==
        ({x} \ {NULL}) \cup (IF x \in Nodes THEN f[t.left[x]] \cup f[t.right[x]] ELSE {})
  IN  f

isSearchTree(t) ==
  \A x \in subtree(t)[t.root] :
    /\ \A y \in subtree(t)[t.left[x]] : y < x
    /\ \A y \in subtree(t)[t.right[x]] : x < y

(* The least node from a key on, and the last one before it.               *)
nextOf(nodes, key) ==
  IF \A x \in nodes : x < key THEN NULL
  ELSE CHOOSE x \in nodes : key <= x /\ \A y \in nodes : key <= y => x <= y

previousOf(nodes, key) ==
  LET before == {x \in nodes : x < key} \cup {NULL}
  IN  CHOOSE x \in before : \A y \in before : y <= x

===============================================================================
