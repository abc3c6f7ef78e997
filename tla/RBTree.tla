--------------------------------- MODULE RBTree ---------------------------------
(***************************************************************************)
(* Red-black trees of libcsapp (tree.h, RB_...): insertion and removal of  *)
(* nodes that carry their own links, searches, and the loops that walk     *)
(* through a tree while its nodes are taken out.                           *)
(*                                                                         *)
(* One action is one turn of a loop, and what follows the last.            *)
(***************************************************************************)
EXTENDS Trees

VARIABLES
  rb,       (* rbh_root and the links and colours of the nodes              *)
  inTree,   (* the nodes that callers have put into the tree                *)
  rbStep,   (* "idle", "descend", "insert_color", "remove_color", "visit"   *)
  elm,      (* argument elm of the function that runs; NULL in a child      *)
  parent,   (* its local parent                                             *)
  cursor,   (* x of RB_FOREACH_SAFE(); NULL outside a loop                  *)
  ahead,    (* y of RB_FOREACH_SAFE()                                       *)
  visited   (* what the loop has visited                                    *)

rbVars == <<rb, inTree, rbStep, elm, parent, cursor, ahead, visited>>

RBTreeType ==
  /\ rb \in [root   : Nodes \cup {NULL},
             left   : [Nodes -> Links], right : [Nodes -> Links],
             parent : [Nodes -> Links], red   : [Nodes -> BOOLEAN]]
  /\ inTree \subseteq Nodes /\ visited \subseteq Nodes
  /\ rbStep \in {"idle", "descend", "insert_color", "remove_color", "visit"}
  /\ {elm, parent, cursor, ahead} \subseteq Nodes \cup {NULL}

(* RB_INIT() *)
RBTreeInit ==
  /\ rb = LET none == [x \in Nodes |-> Freed]
          IN  [root |-> NULL, left |-> none, right |-> none, parent |-> none,
               red |-> [x \in Nodes |-> FALSE]]
  /\ inTree = {} /\ rbStep = "idle" /\ elm = NULL /\ parent = NULL
  /\ cursor = NULL /\ ahead = NULL /\ visited = {}

-------------------------------------------------------------------------------
(* Stores into the links.                                                  *)

sideOf(t, x, p) == IF t.left[p] = x THEN "left" ELSE "right"

(* The link that leads from p, or from the head, to x now leads to y.      *)
relink(t, p, x, y) ==
  IF p = NULL THEN [t EXCEPT !.root = y]
              ELSE LET side == sideOf(t, x, p) IN [t EXCEPT ![side][p] = y]

adopt(t, x, p)     == IF x = NULL THEN t ELSE [t EXCEPT !.parent[x] = p]
blacken(t, x)      == IF x = NULL THEN t ELSE [t EXCEPT !.red[x] = FALSE]
isBlack(t, x)      == IF x = NULL THEN TRUE ELSE ~t.red[x]

(* RB_SET_BLACKRED() *)
blackRed(t, black, red) == [t EXCEPT !.red = [@ EXCEPT ![black] = FALSE, ![red] = TRUE]]

(* mutant: the inner grandchild keeps its parent *)
rotate_orphan(t, side, x) ==
  LET opp   == other(side)
      tmp   == t[opp][x]
      up    == t.parent[x]
      upper == relink([t EXCEPT ![opp][x] = t[side][tmp], !.parent[tmp] = up], up, x, tmp)
  IN  [upper EXCEPT ![side][tmp] = x, !.parent[x] = tmp]

(* RB_ROTATE_LEFT() and RB_ROTATE_RIGHT() *)
rotate(t, side, x) ==
  LET opp   == other(side)
      tmp   == t[opp][x]
      inner == t[side][tmp]
      up    == t.parent[x]
      lower == adopt([t EXCEPT ![opp][x] = inner], inner, x)
      upper == relink([lower EXCEPT !.parent[tmp] = up], up, x, tmp)
  IN  [upper EXCEPT ![side][tmp] = x, !.parent[x] = tmp]

-------------------------------------------------------------------------------
(* Searches.                                                               *)

(* mutant: the last node on the way, also one below the key *)
search_last(t, key, exact) ==
  LET f[x \in Nodes \cup {NULL}, res \in Nodes \cup {NULL}] ==
        IF x = NULL THEN res
        ELSE IF key = x THEN x
        ELSE f[IF key < x THEN t.left[x] ELSE t.right[x], IF exact THEN NULL ELSE x]
  IN  f[t.root, NULL]

(* _RB_FIND() and _RB_NFIND(): the node with the key, or the next one.     *)
search(t, key, exact) ==
  LET f[x \in Nodes \cup {NULL}, res \in Nodes \cup {NULL}] ==
        IF x = NULL THEN res
        ELSE IF key < x THEN f[t.left[x], IF exact THEN NULL ELSE x]
        ELSE IF key > x THEN f[t.right[x], res]
        ELSE x
  IN  f[t.root, NULL]

(* _RB_MINMAX() *)
minmax(t, side) == IF t.root = NULL THEN NULL ELSE outermost(t, side)[t.root]

(* mutant: where there is no right subtree the parent comes next *)
step_parent(t, side, x) ==
  LET up[y \in Nodes] ==
        LET p == t.parent[y]
        IN  IF p = NULL \/ side = "right" \/ t.right[p] = y THEN p ELSE up[p]
  IN  IF t[side][x] # NULL THEN outermost(t, other(side))[t[side][x]] ELSE up[x]

(* _RB_NEXT() for the right side, _RB_PREV() for the left one.             *)
step(t, side, x) ==
  LET up[y \in Nodes] ==
        LET p == t.parent[y]
        IN  IF p = NULL \/ t[other(side)][p] = y THEN p ELSE up[p]
  IN  IF t[side][x] # NULL THEN outermost(t, other(side))[t[side][x]] ELSE up[x]

-------------------------------------------------------------------------------
(* _RB_INSERT(): a node whose key is in the tree is only returned.         *)

RBInsert(x) ==
  /\ rbStep = "idle" /\ cursor = NULL
  /\ elm' = x /\ parent' = NULL
  /\ rbStep' = "descend"
  /\ UNCHANGED <<rb, inTree, cursor, ahead, visited>>

below(p) == IF p = NULL THEN rb.root ELSE IF elm < p THEN rb.left[p] ELSE rb.right[p]

Descend ==
  /\ rbStep = "descend"
  /\ below(parent) \notin {NULL, elm}
  /\ parent' = below(parent)
  /\ UNCHANGED <<rb, inTree, rbStep, elm, cursor, ahead, visited>>

InsertKnown ==
  /\ rbStep = "descend" /\ below(parent) = elm
  /\ rbStep' = "idle" /\ elm' = NULL /\ parent' = NULL
  /\ UNCHANGED <<rb, inTree, cursor, ahead, visited>>

(* RB_SET(), and the link of the parent *)
Hang ==
  /\ rbStep = "descend" /\ below(parent) = NULL
  /\ rb' = LET t == [rb EXCEPT !.parent[elm] = parent, !.left[elm] = NULL,
                               !.right[elm] = NULL, !.red[elm] = TRUE]
           IN  IF parent = NULL THEN [t EXCEPT !.root = elm]
               ELSE IF elm < parent THEN [t EXCEPT !.left[parent] = elm]
               ELSE [t EXCEPT !.right[parent] = elm]
  /\ inTree' = inTree \cup {elm}
  /\ rbStep' = "insert_color" /\ parent' = NULL
  /\ UNCHANGED <<elm, cursor, ahead, visited>>

underRed == rb.parent[elm] # NULL /\ rb.red[rb.parent[elm]]

(* _RB_INSERT_COLOR(): the uncle is red, the violation moves up.           *)
RecolorUp ==
  /\ rbStep = "insert_color" /\ underRed
  /\ LET p  == rb.parent[elm]
         g  == rb.parent[p]
         uncle == rb[other(sideOf(rb, p, g))][g]
     IN  /\ ~isBlack(rb, uncle)
         /\ rb' = blackRed([rb EXCEPT !.red[uncle] = FALSE], p, g)
         /\ elm' = g
  /\ UNCHANGED <<inTree, rbStep, parent, cursor, ahead, visited>>

(* An inner grandchild changes places with its parent.                     *)
straightened(t, side, p, x) ==
  IF t[other(side)][p] = x
  THEN [tree |-> rotate(t, side, p), parent |-> x, elm |-> p]
  ELSE [tree |-> t, parent |-> p, elm |-> x]

(* The uncle is black: one rotation, or two, ends the loop.                *)
RotateUp ==
  /\ rbStep = "insert_color" /\ underRed
  /\ LET p    == rb.parent[elm]
         g    == rb.parent[p]
         side == sideOf(rb, p, g)
         s    == straightened(rb, side, p, elm)
     IN  /\ isBlack(rb, rb[other(side)][g])
         /\ rb' = rotate(blackRed(s.tree, s.parent, g), other(side), g)
         /\ elm' = s.elm
  /\ UNCHANGED <<inTree, rbStep, parent, cursor, ahead, visited>>

InsertDone ==
  /\ rbStep = "insert_color" /\ ~underRed
  /\ rb' = blacken(rb, rb.root)
  /\ rbStep' = "idle" /\ elm' = NULL /\ parent' = NULL
  /\ UNCHANGED <<inTree, cursor, ahead, visited>>

-------------------------------------------------------------------------------
(* _RB_REMOVE()                                                            *)

(* A node with one child or none is unlinked; the colour is its own.       *)
unlinked(t, x) ==
  LET child == IF t.left[x] = NULL THEN t.right[x] ELSE t.left[x]
      p     == t.parent[x]
  IN  [tree  |-> relink(adopt(t, child, p), p, x, child),
       child |-> child, parent |-> p, red |-> t.red[x]]

(* With two children, the next node is unlinked and takes over the links   *)
(* and the colour of the old one.                                          *)
replaced(t, old) ==
  LET x == outermost(t, "left")[t.right[old]]
      u == unlinked(t, x)
      moved == [u.tree EXCEPT !.left[x] = u.tree.left[old], !.right[x] = u.tree.right[old],
                              !.parent[x] = u.tree.parent[old], !.red[x] = u.tree.red[old]]
      linked == relink(moved, moved.parent[old], old, x)
  IN  [u EXCEPT !.tree = adopt(adopt(linked, linked.left[old], x), linked.right[old], x),
                !.parent = IF @ = old THEN x ELSE @]

removed(t, old) ==
  IF t.left[old] # NULL /\ t.right[old] # NULL THEN replaced(t, old) ELSE unlinked(t, old)

freed(t, x) == [t EXCEPT !.left[x] = Freed, !.right[x] = Freed, !.parent[x] = Freed,
                         !.red[x] = FALSE]

(* Only taking away a black node needs colours to be mended.  The caller   *)
(* may free the node at once.                                              *)
RemoveNode(x) ==
  LET r == removed(rb, x)
  IN  /\ rb' = freed(r.tree, x)
      /\ inTree' = inTree \ {x}
      /\ elm' = IF r.red THEN NULL ELSE r.child
      /\ parent' = IF r.red THEN NULL ELSE r.parent
      /\ rbStep' = IF ~r.red THEN "remove_color" ELSE IF cursor = NULL THEN "idle" ELSE "visit"

RBRemove(x) ==
  /\ rbStep = "idle" /\ cursor = NULL /\ x \in inTree
  /\ RemoveNode(x)
  /\ UNCHANGED <<cursor, ahead, visited>>

isShort == isBlack(rb, elm) /\ elm # rb.root

(* _RB_REMOVE_COLOR(): a red sibling is rotated away first.                *)
shortSide == sideOf(rb, elm, parent)
withBlackSibling ==
  LET tmp == rb[other(shortSide)][parent]
  IN  IF rb.red[tmp] THEN rotate(blackRed(rb, tmp, parent), shortSide, parent) ELSE rb

blackNephews(t, x) == isBlack(t, t.left[x]) /\ isBlack(t, t.right[x])

(* Both children of the sibling are black: the shortage moves up.          *)
ShortUp ==
  /\ rbStep = "remove_color" /\ isShort
  /\ LET t   == withBlackSibling
         tmp == t[other(shortSide)][parent]
     IN  /\ blackNephews(t, tmp)
         /\ rb' = [t EXCEPT !.red[tmp] = TRUE]
         /\ elm' = parent
         /\ parent' = t.parent[parent]
  /\ UNCHANGED <<inTree, rbStep, cursor, ahead, visited>>

(* A child of the sibling is red: rotations end the loop at the root.      *)
ShortMended ==
  /\ rbStep = "remove_color" /\ isShort
  /\ LET t     == withBlackSibling
         side  == shortSide
         opp   == other(side)
         near  == t[opp][parent]
         t1    == IF isBlack(t, t[opp][near])
                  THEN rotate([blacken(t, t[side][near]) EXCEPT !.red[near] = TRUE], opp, near)
                  ELSE t
         tmp   == t1[opp][parent]
         t2    == [t1 EXCEPT !.red = [@ EXCEPT ![tmp] = t1.red[parent], ![parent] = FALSE]]
     IN  /\ ~blackNephews(t, near)
         /\ rb' = rotate(blacken(t2, t2[opp][tmp]), side, parent)
         /\ elm' = rb'.root
  /\ UNCHANGED <<inTree, rbStep, parent, cursor, ahead, visited>>

RemoveDone ==
  /\ rbStep = "remove_color" /\ ~isShort
  /\ rb' = blacken(rb, elm)
  /\ rbStep' = IF cursor = NULL THEN "idle" ELSE "visit"
  /\ elm' = NULL /\ parent' = NULL
  /\ UNCHANGED <<inTree, cursor, ahead, visited>>

-------------------------------------------------------------------------------
(* RB_FOREACH_SAFE(): the next node is read before the body, which may     *)
(* take the node out of the tree.                                          *)

Foreach ==
  /\ rbStep = "idle" /\ cursor = NULL /\ rb.root # NULL
  /\ cursor' = minmax(rb, "left")
  /\ ahead' = step(rb, "right", cursor')
  /\ visited' = {cursor'}
  /\ rbStep' = "visit"
  /\ UNCHANGED <<rb, inTree, elm, parent>>

RemoveVisited ==
  /\ rbStep = "visit" /\ cursor \in inTree
  /\ RemoveNode(cursor)
  /\ UNCHANGED <<cursor, ahead, visited>>

Continue ==
  /\ rbStep = "visit" /\ ahead # NULL
  /\ cursor' = ahead
  /\ ahead' = step(rb, "right", ahead)
  /\ visited' = visited \cup {ahead}
  /\ UNCHANGED <<rb, inTree, rbStep, elm, parent>>

ForeachEnds ==
  /\ rbStep = "visit" /\ ahead = NULL
  /\ cursor' = NULL /\ visited' = {} /\ rbStep' = "idle"
  /\ UNCHANGED <<rb, inTree, elm, parent, ahead>>

RBTreeNext ==
  \/ \E x \in Nodes : RBInsert(x) \/ RBRemove(x)
  \/ Descend \/ InsertKnown \/ Hang \/ RecolorUp \/ RotateUp \/ InsertDone
  \/ ShortUp \/ ShortMended \/ RemoveDone
  \/ Foreach \/ RemoveVisited \/ Continue \/ ForeachEnds

RBTreeSpec == RBTreeInit /\ [][RBTreeNext]_rbVars

-------------------------------------------------------------------------------
(* Numbers of black nodes on the ways down from a node.                    *)
blackHeights(t) ==
  LET f[x \in Nodes \cup {NULL}] ==
        IF x = NULL THEN {0}
        ELSE {h + IF t.red[x] THEN 0 ELSE 1 : h \in f[t.left[x]] \cup f[t.right[x]]}
  IN  f

(* Searching finds the node with the key, or the least one above it        *)
(* (_RB_FIND(), _RB_NFIND()), and _RB_PREV() leads to the node before.     *)
searchesFind ==
  \A key \in Nodes :
    /\ search(rb, key, TRUE) = IF key \in inTree THEN key ELSE NULL
    /\ search(rb, key, FALSE) = nextOf(inTree, key)
    /\ key \in inTree => step(rb, "left", key) = previousOf(inTree, key)

(* Between two calls the tree holds exactly the nodes put into it, in the   *)
(* order of their keys, with right parents; no red node has a red parent   *)
(* and every path from the root has as many black nodes; searches find     *)
(* what they look for (_RB_INSERT(), _RB_REMOVE(), _RB_FIND() ...).        *)
RedBlackTree ==
  rbStep \in {"idle", "visit"} =>
    /\ subtree(rb)[rb.root] = inTree
    /\ isSearchTree(rb)
    /\ \A x \in inTree : \A y \in {rb.left[x], rb.right[x]} \ {NULL} :
         rb.parent[y] = x /\ ~(rb.red[x] /\ rb.red[y])
    /\ isBlack(rb, rb.root) /\ (rb.root # NULL => rb.parent[rb.root] = NULL)
    /\ Cardinality(blackHeights(rb)[rb.root]) = 1
    /\ searchesFind

(* A loop meets every node that is in the tree behind it once, and in order, *)
(* although the body has taken nodes out (RB_FOREACH_SAFE, _RB_NEXT()):    *)
(* the nodes up to the current one have been visited, none ahead has been. *)
ForeachMeetsAll ==
  rbStep = "visit" =>
    /\ \A x \in inTree : x <= cursor => x \in visited
    /\ \A x \in visited : x <= cursor
    /\ ahead = nextOf(inTree, cursor + 1)

===============================================================================
