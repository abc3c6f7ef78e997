--------------------------------- MODULE Splay ---------------------------------
(***************************************************************************)
(* Splay trees of libcsapp (tree.h, SPLAY_...): every call first moves the *)
(* node whose key is closest to the argument to the root, from above: what *)
(* is passed on the way is hung onto a left and a right tree.              *)
(*                                                                         *)
(* One action is one turn of the loop, or the rest of a call.  The loop    *)
(* that looks for the minimum or the maximum is the one that looks for a   *)
(* key below or above all.                                                 *)
(***************************************************************************)
EXTENDS Trees

VARIABLES
  sp,       (* sph_root and the links of the nodes                          *)
  kept,     (* the nodes that callers have put into the tree                *)
  spStep,   (* "idle", "splay", "splay_left" in the second splay of REMOVE  *)
  spOp,     (* the call that runs or ran last                               *)
  spKey,    (* the key of its elm                                           *)
  spResult, (* what it returned                                             *)
  ends,     (* __left and __right                                           *)
  aside     (* __tmp of REMOVE                                              *)

spVars == <<sp, kept, spStep, spOp, spKey, spResult, ends, aside>>

Anchor == -2           (* __node, whose links begin the two trees           *)
Linked == Nodes \cup {Anchor}

SplayOps == {"INSERT", "REMOVE", "FIND", "NEXT", "MIN_MAX"}

SplayType ==
  /\ sp \in [root : Nodes \cup {NULL}, left : [Linked -> Links], right : [Linked -> Links]]
  /\ kept \subseteq Nodes
  /\ spStep \in {"idle", "splay", "splay_left"} /\ spOp \in SplayOps
  /\ spKey \in 0 .. NodeCount + 1 /\ {spResult, aside} \subseteq Nodes \cup {NULL}
  /\ ends \in [Sides -> Linked]

atAnchor == [side \in Sides |-> Anchor]
unlinkedNodes == [x \in Linked |-> IF x = Anchor THEN NULL ELSE Freed]

SplayInit ==
  /\ sp = [root |-> NULL, left |-> unlinkedNodes, right |-> unlinkedNodes]
  /\ kept = {} /\ spStep = "idle" /\ spOp = "FIND" /\ spKey = 0 /\ spResult = NULL
  /\ ends = atAnchor /\ aside = NULL

-------------------------------------------------------------------------------

SplayReturn(t, nodes, x) ==
  /\ sp' = t /\ kept' = nodes /\ spResult' = x
  /\ spStep' = "idle" /\ ends' = atAnchor /\ aside' = NULL

SplayAgain(t, step, tmp) ==
  /\ sp' = [t EXCEPT !.left[Anchor] = NULL, !.right[Anchor] = NULL]
  /\ spStep' = step /\ ends' = atAnchor /\ aside' = tmp

(* The calls have different arguments: a new node, any key, a node of the  *)
(* tree, or the infinite keys.                                             *)
mayCall(op, key) ==
  \/ op \in {"INSERT", "REMOVE", "FIND"} /\ key \in Nodes
  \/ op = "NEXT" /\ key \in kept
  \/ op = "MIN_MAX" /\ key \in {0, NodeCount + 1}

(* SPLAY_EMPTY(head) *)
CallEmpty(op, key) ==
  /\ spStep = "idle" /\ mayCall(op, key)
  /\ sp.root = NULL
  /\ spOp' = op /\ spKey' = key
  /\ IF op = "INSERT"
     THEN SplayReturn([sp EXCEPT !.left[key] = NULL, !.right[key] = NULL, !.root = key],
                      {key}, NULL)
     ELSE SplayReturn(sp, kept, NULL)

CallSplay(op, key) ==
  /\ spStep = "idle" /\ mayCall(op, key)
  /\ sp.root # NULL
  /\ spOp' = op /\ spKey' = key
  /\ SplayAgain(sp, "splay", NULL)
  /\ UNCHANGED <<kept, spResult>>

-------------------------------------------------------------------------------
(* _SPLAY() and _SPLAY_MINMAX()                                            *)

toward(t, key) == IF key < t.root THEN "left" ELSE "right"
beyondNode(key, x, side) == IF side = "left" THEN key < x ELSE key > x

(* SPLAY_ROTATE_RIGHT(), SPLAY_ROTATE_LEFT() *)
rotateRoot(t, side) ==
  LET tmp == t[side][t.root]
      opp == other(side)
  IN  [t EXCEPT ![side][t.root] = t[opp][tmp], ![opp][tmp] = t.root, !.root = tmp]

(* The root as it is when the turn has rotated, or has not. *)
turned ==
  LET side == toward(sp, spKey)
  IN  IF sp[side][sp.root] # NULL /\ beyondNode(spKey, sp[side][sp.root], side)
      THEN rotateRoot(sp, side) ELSE sp

atEnd == spKey = sp.root \/ turned[toward(sp, spKey)][turned.root] = NULL

(* SPLAY_LINKLEFT() into the right tree, SPLAY_LINKRIGHT() into the left.  *)
SplayTurn ==
  /\ spStep # "idle" /\ ~atEnd
  /\ LET side == toward(sp, spKey)
         opp  == other(side)
         r    == turned.root
     IN  /\ sp' = [turned EXCEPT ![side][ends[opp]] = r, !.root = turned[side][r]]
         /\ ends' = [ends EXCEPT ![opp] = r]
  /\ UNCHANGED <<kept, spStep, spOp, spKey, spResult, aside>>

(* mutant: the trees are hung onto the root the wrong way round *)
assemble_swapped(t) ==
  LET u == [t EXCEPT !.right[ends["left"]] = t.left[t.root]]
      v == [u EXCEPT !.left[ends["right"]] = u.right[t.root]]
  IN  [v EXCEPT !.left[t.root] = v.left[Anchor], !.right[t.root] = v.right[Anchor]]

(* SPLAY_ASSEMBLE() *)
assemble(t) ==
  LET u == [t EXCEPT !.right[ends["left"]] = t.left[t.root]]
      v == [u EXCEPT !.left[ends["right"]] = u.right[t.root]]
  IN  [v EXCEPT !.left[t.root] = v.right[Anchor], !.right[t.root] = v.left[Anchor]]

splayed ==
  LET t == assemble(IF spKey = sp.root THEN sp ELSE turned)
  IN  [t EXCEPT !.left[Anchor] = NULL, !.right[Anchor] = NULL]

(* The new node becomes the root and cuts the old one off on its side.     *)
inserted(t, key) ==
  LET side == IF key < t.root THEN "left" ELSE "right"
  IN  [t EXCEPT ![side][key] = t[side][t.root], ![other(side)][key] = t.root,
                ![side][t.root] = NULL, !.root = key]

SplayedInsert ==
  /\ spStep = "splay" /\ atEnd /\ spOp = "INSERT"
  /\ IF splayed.root = spKey THEN SplayReturn(splayed, kept, spKey)
     ELSE SplayReturn(inserted(splayed, spKey), kept \cup {spKey}, NULL)
  /\ UNCHANGED <<spOp, spKey>>

outOfSplay(t, x) == [t EXCEPT !.left[x] = Freed, !.right[x] = Freed]

(* With a left subtree, its greatest node is splayed to its root.          *)
SplayedRemove ==
  /\ spStep = "splay" /\ atEnd /\ spOp = "REMOVE"
  /\ LET t == splayed
         x == t.root
     IN  IF x # spKey THEN SplayReturn(t, kept, NULL)
         ELSE IF t.left[x] = NULL
         THEN SplayReturn(outOfSplay([t EXCEPT !.root = t.right[x]], x), kept \ {x}, x)
         ELSE /\ SplayAgain(outOfSplay([t EXCEPT !.root = t.left[x]], x), "splay_left", t.right[x])
              /\ kept' = kept \ {x}
              /\ UNCHANGED spResult
  /\ UNCHANGED <<spOp, spKey>>

SplayedLeft ==
  /\ spStep = "splay_left" /\ atEnd
  /\ LET t == splayed IN SplayReturn([t EXCEPT !.right[t.root] = aside], kept, spKey)
  /\ UNCHANGED <<spOp, spKey>>

(* FIND, NEXT and MIN_MAX *)
SplayedSearch ==
  /\ spStep = "splay" /\ atEnd /\ spOp \in {"FIND", "NEXT", "MIN_MAX"}
  /\ LET t == splayed
     IN  SplayReturn(t, kept,
           CASE spOp = "FIND"    -> IF t.root = spKey THEN spKey ELSE NULL
             [] spOp = "NEXT"    -> IF t.right[spKey] = NULL THEN NULL
                                    ELSE outermost(t, "left")[t.right[spKey]]
             [] spOp = "MIN_MAX" -> t.root)
  /\ UNCHANGED <<spOp, spKey>>

SplayNext ==
  \/ \E op \in SplayOps, key \in 0 .. NodeCount + 1 : CallEmpty(op, key) \/ CallSplay(op, key)
  \/ SplayTurn \/ SplayedInsert \/ SplayedRemove \/ SplayedLeft \/ SplayedSearch

SplaySpec == SplayInit /\ [][SplayNext]_spVars

-------------------------------------------------------------------------------
(* Between two calls the tree holds exactly the nodes put into it, in the   *)
(* order of their keys, whatever was rotated and hung aside on the way;    *)
(* the call has returned the node it was asked for, and left it, or one    *)
(* next to its place, at the root (SPLAY_INSERT ... SPLAY_MIN_MAX).        *)
SplayTree ==
  spStep = "idle" =>
    /\ subtree(sp)[sp.root] = kept /\ isSearchTree(sp)
    /\ spKey \in kept => sp.root = spKey
    /\ kept # {} /\ spOp # "REMOVE" => sp.root \in {nextOf(kept, spKey), previousOf(kept, spKey)}
    /\ CASE spOp = "INSERT" -> spKey \in kept
         [] spOp = "REMOVE" -> spKey \notin kept
         [] spOp = "FIND"   -> spResult = IF spKey \in kept THEN spKey ELSE NULL
         [] spOp = "NEXT"   -> spResult = nextOf(kept, spKey + 1)
         [] spOp = "MIN_MAX" -> kept # {} =>
              spResult = IF spKey = 0 THEN nextOf(kept, 0) ELSE previousOf(kept, spKey)

===============================================================================
