----------------------------- MODULE LibraryProofs -----------------------------
(***************************************************************************)
(* Proofs about two parts of libcsapp: the splay trees (Splay), for any    *)
(* number of nodes, and the hash functions (Hash), for keys of any length. *)
(***************************************************************************)
EXTENDS Splay, Hash, SequenceTheorems, FiniteSetTheorems, WellFoundedInduction, TLAPS

-------------------------------------------------------------------------------
(* Splay trees.                                                            *)

(* A node lies on one side of another one: a strict order of the keys.      *)
LEMMA BeyondOrder ==
  /\ \A side \in Sides : other(side) \in Sides /\ other(side) # side /\ other(other(side)) = side
  /\ \A side, s \in Sides : s # side => s = other(side)
  /\ \A side \in Sides, x, y \in Int : beyondNode(x, y, side) <=> beyondNode(y, x, other(side))
  /\ \A side \in Sides, x, y \in Int :
       x # y => beyondNode(x, y, side) \/ beyondNode(x, y, other(side))
  /\ \A side \in Sides, x \in Int : ~beyondNode(x, x, side)
  /\ \A side \in Sides, x, y, z \in Int :
       beyondNode(x, y, side) /\ beyondNode(y, z, side) => beyondNode(x, z, side)
BY DEF beyondNode, Sides, other

LEMMA NodesAreInts == Nodes \subseteq Int /\ NULL \notin Nodes /\ Freed \notin Nodes /\ Anchor \notin Nodes
                      /\ NULL # Freed /\ Anchor # NULL /\ NULL \in Int
BY NodeAssumption DEF Nodes, NULL, Freed, Anchor

(* What hangs below a link, when D tells what hangs below every node.       *)
Down(D, x) == IF x = NULL THEN {} ELSE D[x]

(* The links from x on lead through the nodes of S, which are in the order  *)
(* of their keys.                                                          *)
TreeBy(t, x, S, D) ==
  /\ S \subseteq Nodes
  /\ D \in [S -> SUBSET S]
  /\ IF S = {} THEN x = NULL ELSE x \in S /\ D[x] = S
  /\ \A y \in S :
       /\ \A side \in Sides :
            /\ t[side][y] \in S \cup {NULL}
            /\ \A z \in Down(D, t[side][y]) : beyondNode(z, y, side)
            /\ D[y] = {y} \cup Down(D, t[side][y]) \cup Down(D, t[other(side)][y])
       /\ \A z \in D[y] : D[z] \subseteq D[y]

Tree(t, x, S) == \E D : TreeBy(t, x, S, D)

Part(S, x, side) == {y \in S : beyondNode(y, x, side)}

LEMMA TreeSplit ==
  ASSUME NEW t, NEW x, NEW S, Tree(t, x, S), x # NULL, NEW side \in Sides
  PROVE  S \subseteq Nodes /\ x \in S /\ Tree(t, t[side][x], Part(S, x, side))
<1>1. PICK D : TreeBy(t, x, S, D)
  BY DEF Tree
<1> DEFINE T == Down(D, t[side][x])
           E == [y \in T |-> D[y]]
<1>2. S \subseteq Nodes /\ x \in S /\ D[x] = S
  BY <1>1 DEF TreeBy
<1>3. T \subseteq S /\ T = {y \in S : beyondNode(y, x, side)}
  <2>1. S = {x} \cup T \cup Down(D, t[other(side)][x])
    BY <1>1, <1>2 DEF TreeBy
  <2>2. \A z \in T : beyondNode(z, x, side)
    BY <1>1, <1>2 DEF TreeBy
  <2>3. \A z \in Down(D, t[other(side)][x]) : beyondNode(z, x, other(side))
    BY <1>1, <1>2, BeyondOrder DEF TreeBy
  <2>4. \A z \in S : ~(beyondNode(z, x, side) /\ beyondNode(z, x, other(side)))
    BY <1>2, BeyondOrder, NodesAreInts
  <2>5. ~beyondNode(x, x, side)
    BY <1>2, BeyondOrder, NodesAreInts
  <2> QED BY <2>1, <2>2, <2>3, <2>4, <2>5
<1>4. \A y \in S : y \in D[y] /\ D[y] \subseteq S
  BY <1>1 DEF TreeBy, Sides
<1>5. \A y \in T : D[y] \subseteq T
  BY <1>1, <1>2 DEF TreeBy, Down
<1>6. TreeBy(t, t[side][x], T, E)
  <2>1. T \subseteq Nodes
    BY <1>2, <1>3
  <2>2. E \in [T -> SUBSET T]
    BY <1>5
  <2>3. IF T = {} THEN t[side][x] = NULL ELSE t[side][x] \in T /\ E[t[side][x]] = T
    <3>1. t[side][x] \in S \cup {NULL}
      BY <1>1, <1>2 DEF TreeBy
    <3>2. CASE t[side][x] = NULL
      BY <3>2 DEF Down
    <3>3. CASE t[side][x] # NULL
      BY <3>1, <3>3, <1>4 DEF Down
    <3> QED BY <3>2, <3>3
  <2>4. ASSUME NEW y \in T
        PROVE  /\ \A s \in Sides :
                    /\ t[s][y] \in T \cup {NULL}
                    /\ Down(E, t[s][y]) = Down(D, t[s][y])
               /\ E[y] = D[y]
               /\ \A z \in E[y] : E[z] = D[z]
    <3>1. E[y] = D[y] /\ \A z \in E[y] : E[z] = D[z]
      BY <1>5
    <3>2. ASSUME NEW s \in Sides
          PROVE  t[s][y] \in T \cup {NULL}
      <4>1. t[s][y] \in S \cup {NULL} /\ Down(D, t[s][y]) \subseteq D[y]
        BY <1>1, <1>3 DEF TreeBy
      <4> QED BY <4>1, <1>4, <1>5 DEF Down
    <3> QED BY <3>1, <3>2 DEF Down
  <2>5. ASSUME NEW y \in T
        PROVE  /\ \A s \in Sides :
                    /\ \A z \in Down(D, t[s][y]) : beyondNode(z, y, s)
                    /\ D[y] = {y} \cup Down(D, t[s][y]) \cup Down(D, t[other(s)][y])
               /\ \A z \in D[y] : D[z] \subseteq D[y]
    BY <1>1, <1>3 DEF TreeBy
  <2> HIDE DEF E, T
  <2> QED BY <2>1, <2>2, <2>3, <2>4, <2>5, BeyondOrder DEF TreeBy
<1> QED BY <1>2, <1>3, <1>6 DEF Tree, Part

LEMMA TreeFrame ==
  ASSUME NEW t, NEW u, NEW x, NEW S, Tree(t, x, S),
         \A side \in Sides, y \in S : u[side][y] = t[side][y]
  PROVE  Tree(u, x, S)
<1>1. PICK D : TreeBy(t, x, S, D)
  BY DEF Tree
<1>2. TreeBy(u, x, S, D)
  BY <1>1, BeyondOrder DEF TreeBy
<1> QED BY <1>2 DEF Tree

LEMMA EmptyTree == \A t : Tree(t, NULL, {})
<1> TAKE t
<1>1. TreeBy(t, NULL, {}, [y \in {} |-> {}])
  BY DEF TreeBy
<1> QED BY <1>1 DEF Tree

(* A tree that begins nowhere is empty.                                    *)
LEMMA TreeRoot ==
  ASSUME NEW t, NEW x, NEW S, Tree(t, x, S)
  PROVE  S \subseteq Nodes /\ (x = NULL <=> S = {}) /\ x \in S \cup {NULL}
         /\ \A y \in S, side \in Sides : t[side][y] \in S \cup {NULL}
BY NodesAreInts DEF Tree, TreeBy

LEMMA TreeJoin ==
  ASSUME NEW t, NEW S, S \subseteq Nodes, NEW x \in S,
         \A side \in Sides : Tree(t, t[side][x], Part(S, x, side))
  PROVE  Tree(t, x, S)
<1> DEFINE A == {y \in S : beyondNode(y, x, "left")}
           B == {y \in S : beyondNode(y, x, "right")}
<1>1. PICK D : TreeBy(t, t["left"][x], A, D)
  BY DEF Tree, Sides, Part
<1>2. PICK E : TreeBy(t, t["right"][x], B, E)
  BY DEF Tree, Sides, Part
<1> DEFINE F == [y \in S |-> IF y \in A THEN D[y] ELSE IF y \in B THEN E[y] ELSE S]
<1>3. /\ S = {x} \cup A \cup B
      /\ x \notin A /\ x \notin B /\ A \cap B = {}
  <2>1. "left" \in Sides /\ "right" \in Sides /\ other("left") = "right"
    BY DEF Sides, other
  <2>2. S \subseteq Int
    BY NodesAreInts
  <2>3. \A y \in S : y # x => y \in A \/ y \in B
    BY <2>1, <2>2, BeyondOrder
  <2>4. \A y \in S : ~(beyondNode(y, x, "left") /\ beyondNode(y, x, "right"))
    BY <2>1, <2>2, BeyondOrder
  <2>5. ~beyondNode(x, x, "left") /\ ~beyondNode(x, x, "right")
    BY <2>1, <2>2, BeyondOrder
  <2> QED BY <2>3, <2>4, <2>5
<1>4. /\ \A y \in A : D[y] \subseteq A
      /\ \A y \in B : E[y] \subseteq B
  BY <1>1, <1>2 DEF TreeBy
<1>5. /\ F \in [S -> SUBSET S] /\ F[x] = S
      /\ \A y \in A : F[y] = D[y]
      /\ \A y \in B : F[y] = E[y]
  BY <1>3, <1>4
<1>6. \A side \in Sides :
        /\ \A y \in A : t[side][y] \in A \cup {NULL} /\ Down(F, t[side][y]) = Down(D, t[side][y])
        /\ \A y \in B : t[side][y] \in B \cup {NULL} /\ Down(F, t[side][y]) = Down(E, t[side][y])
  <2> HIDE DEF A, B, F
  <2> QED BY <1>1, <1>2, <1>5 DEF TreeBy, Down
<1>7. /\ t["left"][x] \in A \cup {NULL} /\ Down(F, t["left"][x]) = A
      /\ t["right"][x] \in B \cup {NULL} /\ Down(F, t["right"][x]) = B
  <2>1. (t["left"][x] = NULL <=> A = {}) /\ (t["right"][x] = NULL <=> B = {})
    <3>1. Tree(t, t["left"][x], A) /\ Tree(t, t["right"][x], B)
      BY DEF Sides, Part
    <3> QED BY <3>1, TreeRoot
  <2> HIDE DEF A, B, F
  <2>2. t["left"][x] # NULL => t["left"][x] \in A /\ D[t["left"][x]] = A
    BY <2>1, <1>1 DEF TreeBy
  <2>3. t["right"][x] # NULL => t["right"][x] \in B /\ E[t["right"][x]] = B
    BY <2>1, <1>2 DEF TreeBy
  <2> QED BY <2>1, <2>2, <2>3, <1>5 DEF Down
<1>8. TreeBy(t, x, S, F)
  <2>1. ASSUME NEW y \in S
        PROVE  /\ \A side \in Sides :
                    /\ t[side][y] \in S \cup {NULL}
                    /\ \A z \in Down(F, t[side][y]) : beyondNode(z, y, side)
                    /\ F[y] = {y} \cup Down(F, t[side][y]) \cup Down(F, t[other(side)][y])
               /\ \A z \in F[y] : F[z] \subseteq F[y]
    <3>1. CASE y = x
      <4>1. \A side \in Sides : \/ side = "left" /\ other(side) = "right"
                                \/ side = "right" /\ other(side) = "left"
        BY DEF Sides, other
      <4>2. \A side \in Sides : \A z \in Down(F, t[side][x]) : beyondNode(z, x, side)
        BY <1>7, <4>1
      <4> HIDE DEF A, B, F
      <4> QED BY <3>1, <4>1, <4>2, <1>7, <1>5, <1>3
    <3>2. CASE y \in A
      <4> HIDE DEF A, B, F
      <4> QED BY <3>2, <1>1, <1>3, <1>4, <1>5, <1>6, BeyondOrder DEF TreeBy
    <3>3. CASE y \in B
      <4> HIDE DEF A, B, F
      <4> QED BY <3>3, <1>2, <1>3, <1>4, <1>5, <1>6, BeyondOrder DEF TreeBy
    <3> QED BY <3>1, <3>2, <3>3, <1>3
  <2> HIDE DEF A, B, F
  <2> QED BY <2>1, <1>5 DEF TreeBy
<1> QED BY <1>8 DEF Tree

(* A second tree is hung onto the end of a first one, which has nothing    *)
(* on that side yet.                                                       *)
LEMMA TreeFill ==
  ASSUME NEW t, NEW u, NEW x, NEW b, NEW X, NEW Y, NEW e \in X, NEW side \in Sides,
         Tree(t, x, X), Tree(t, b, Y), t[side][e] = NULL,
         \A y \in X : y = e \/ beyondNode(e, y, side),
         \A y \in X, z \in Y : beyondNode(z, y, side),
         u[side][e] = b,
         \A s \in Sides, y \in X \cup Y : u[s][y] = t[s][y] \/ (s = side /\ y = e)
  PROVE  Tree(u, x, X \cup Y)
<1>1. PICK D : TreeBy(t, x, X, D)
  BY DEF Tree
<1>2. PICK E : TreeBy(t, b, Y, E)
  BY DEF Tree
<1> DEFINE F == [y \in X \cup Y |-> IF y \in Y THEN E[y]
                                    ELSE IF e \in D[y] THEN D[y] \cup Y ELSE D[y]]
<1>3. X \subseteq Nodes /\ Y \subseteq Nodes /\ X \cap Y = {} /\ NULL \notin X /\ NULL \notin Y
  <2>1. X \subseteq Nodes /\ Y \subseteq Nodes
    BY <1>1, <1>2 DEF TreeBy
  <2>2. ASSUME NEW y \in X \cap Y PROVE FALSE
    BY <2>1, BeyondOrder, NodesAreInts
  <2> QED BY <2>1, <2>2, NodesAreInts
<1>4. /\ \A y \in X : D[y] \subseteq X /\ y \in D[y]
      /\ \A y \in Y : E[y] \subseteq Y /\ y \in E[y]
      /\ D[x] = X /\ x \in X
  BY <1>1, <1>2 DEF TreeBy, Sides
<1>5. /\ F \in [X \cup Y -> SUBSET (X \cup Y)]
      /\ \A y \in X : F[y] = IF e \in D[y] THEN D[y] \cup Y ELSE D[y]
      /\ \A y \in Y : F[y] = E[y]
  BY <1>3, <1>4
<1>6. Down(F, b) = Y
  BY <1>2, <1>3, <1>5 DEF TreeBy, Down
<1>7. \A y \in X, s \in Sides : t[s][y] \in X \cup {NULL} /\ Down(D, t[s][y]) \subseteq X
  BY <1>1, <1>3, <1>4 DEF TreeBy, Down
(* Nothing but what lies on the way to the end has the end below it, and   *)
(* it has it on that side.                                                 *)
<1>8. \A y \in X, s \in Sides : e \in Down(D, t[s][y]) => s = side /\ y # e
  <2> SUFFICES ASSUME NEW y \in X, NEW s \in Sides, e \in Down(D, t[s][y])
               PROVE  s = side /\ y # e
    OBVIOUS
  <2>1. beyondNode(e, y, s)
    BY <1>1 DEF TreeBy
  <2>2. y # e
    BY <2>1, <1>3, BeyondOrder, NodesAreInts
  <2>3. beyondNode(e, y, side)
    BY <2>2
  <2> QED BY <2>1, <2>2, <2>3, <1>3, BeyondOrder, NodesAreInts
<1>9. \A y \in X \ {e}, s \in Sides :
        /\ u[s][y] = t[s][y]
        /\ Down(F, u[s][y]) = IF e \in Down(D, t[s][y]) THEN Down(D, t[s][y]) \cup Y
                                                        ELSE Down(D, t[s][y])
  <2> SUFFICES ASSUME NEW y \in X \ {e}, NEW s \in Sides
               PROVE  /\ u[s][y] = t[s][y]
                      /\ Down(F, u[s][y]) = IF e \in Down(D, t[s][y])
                                            THEN Down(D, t[s][y]) \cup Y ELSE Down(D, t[s][y])
    OBVIOUS
  <2>1. u[s][y] = t[s][y]
    OBVIOUS
  <2> HIDE DEF F
  <2> QED BY <2>1, <1>5, <1>7 DEF Down
<1>10. ASSUME NEW y \in X \cup Y
       PROVE  /\ \A s \in Sides :
                   /\ u[s][y] \in X \cup Y \cup {NULL}
                   /\ \A z \in Down(F, u[s][y]) : beyondNode(z, y, s)
                   /\ F[y] = {y} \cup Down(F, u[s][y]) \cup Down(F, u[other(s)][y])
              /\ \A z \in F[y] : F[z] \subseteq F[y]
  <2>1. \A z \in F[y] : F[z] \subseteq F[y]
    <3> SUFFICES ASSUME NEW z \in F[y] PROVE F[z] \subseteq F[y]
      OBVIOUS
    <3> HIDE DEF F
    <3>1. CASE y \in Y
      BY <3>1, <1>2, <1>4, <1>5 DEF TreeBy
    <3>2. CASE y \in X /\ z \in Y
      BY <3>2, <1>3, <1>4, <1>5
    <3>3. CASE y \in X /\ z \in X
      <4>1. z \in D[y]
        BY <3>3, <1>3, <1>4, <1>5
      <4>2. D[z] \subseteq D[y]
        BY <3>3, <4>1, <1>1 DEF TreeBy
      <4> QED BY <3>3, <4>2, <1>5
    <3> QED BY <3>1, <3>2, <3>3, <1>3, <1>4, <1>5
  <2>2. CASE y \in Y
    <3>1. \A s \in Sides : u[s][y] = t[s][y] /\ t[s][y] \in Y \cup {NULL}
      BY <2>2, <1>2, <1>3 DEF TreeBy
    <3>2. \A s \in Sides : Down(F, u[s][y]) = Down(E, t[s][y])
      <4> HIDE DEF F
      <4> QED BY <3>1, <1>5 DEF Down
    <3> HIDE DEF F
    <3> QED BY <2>1, <2>2, <3>1, <3>2, <1>2, <1>5, BeyondOrder DEF TreeBy
  <2>3. CASE y = e
    <3>1. \A s \in Sides : s = side \/ (s = other(side) /\ u[s][e] = t[s][e])
      BY BeyondOrder
    <3>2. Down(F, u[side][e]) = Y
      BY <1>6
    <3>3. Down(D, t[side][e]) = {} /\ e \in D[e]
      BY <1>4 DEF Down
    <3>4. Down(F, t[other(side)][e]) = Down(D, t[other(side)][e])
      <4>1. e \notin Down(D, t[other(side)][e]) /\ other(side) \in Sides
        BY <1>8, BeyondOrder
      <4> HIDE DEF F
      <4> QED BY <4>1, <1>5, <1>7 DEF Down
    <3>5. \A z \in Down(D, t[other(side)][e]) : beyondNode(z, e, other(side))
      BY <1>1, BeyondOrder DEF TreeBy
    <3>6. F[e] = {e} \cup Down(D, t[other(side)][e]) \cup Y
      <4>1. D[e] = {e} \cup Down(D, t[side][e]) \cup Down(D, t[other(side)][e])
        BY <1>1 DEF TreeBy
      <4> HIDE DEF F
      <4> QED BY <4>1, <3>3, <1>5
    <3>7. u[side][e] \in X \cup Y \cup {NULL} /\ u[other(side)][e] \in X \cup Y \cup {NULL}
      BY <1>2, <1>7, BeyondOrder DEF TreeBy
    <3>8. u[other(side)][e] = t[other(side)][e] /\ other(other(side)) = side
      BY BeyondOrder
    <3> HIDE DEF F
    <3> QED BY <2>1, <2>3, <3>1, <3>2, <3>4, <3>5, <3>6, <3>7, <3>8
  <2>4. CASE y \in X \ {e}
    <3>1. \A s \in Sides : other(s) \in Sides /\ (s = side \/ other(s) = side)
      BY BeyondOrder
    <3>2. ASSUME NEW s \in Sides
          PROVE  /\ u[s][y] \in X \cup Y \cup {NULL}
                 /\ \A z \in Down(F, u[s][y]) : beyondNode(z, y, s)
      <4>1. \A z \in Down(D, t[s][y]) : beyondNode(z, y, s)
        BY <2>4, <1>1 DEF TreeBy
      <4>2. u[s][y] = t[s][y] /\ t[s][y] \in X \cup {NULL}
        BY <2>4, <1>7, <1>9
      <4>3. CASE e \in Down(D, t[s][y])
        <5>1. Down(F, u[s][y]) = Down(D, t[s][y]) \cup Y
          <6> HIDE DEF F
          <6> QED BY <2>4, <4>3, <1>9
        <5>2. \A z \in Y : beyondNode(z, y, s)
          BY <2>4, <4>3, <1>8
        <5> QED BY <4>1, <4>2, <5>1, <5>2
      <4>4. CASE e \notin Down(D, t[s][y])
        <5>1. Down(F, u[s][y]) = Down(D, t[s][y])
          <6> HIDE DEF F
          <6> QED BY <2>4, <4>4, <1>9
        <5> QED BY <4>1, <4>2, <5>1
      <4> QED BY <4>3, <4>4
    <3>3. ASSUME NEW s \in Sides
          PROVE  F[y] = {y} \cup Down(F, u[s][y]) \cup Down(F, u[other(s)][y])
      <4>1. D[y] = {y} \cup Down(D, t[s][y]) \cup Down(D, t[other(s)][y])
        BY <2>4, <1>1 DEF TreeBy
      <4> DEFINE A == Down(D, t[s][y])
                 B == Down(D, t[other(s)][y])
      <4> HIDE DEF F
      <4>2. Down(F, u[s][y]) = IF e \in A THEN A \cup Y ELSE A
        BY <2>4, <1>9
      <4>3. Down(F, u[other(s)][y]) = IF e \in B THEN B \cup Y ELSE B
        BY <2>4, <3>1, <1>9
      <4>4. F[y] = IF e \in D[y] THEN D[y] \cup Y ELSE D[y]
        BY <2>4, <1>5
      <4>5. D[y] = {y} \cup A \cup B /\ e # y
        BY <2>4, <4>1
      <4> HIDE DEF A, B
      <4> QED BY <4>2, <4>3, <4>4, <4>5
    <3> QED BY <2>1, <3>2, <3>3
  <2> QED BY <2>2, <2>3, <2>4
<1>11. TreeBy(u, x, X \cup Y, F)
  <2>1. F[x] = X \cup Y
    <3> HIDE DEF F
    <3> QED BY <1>4, <1>5
  <2> HIDE DEF F
  <2> QED BY <2>1, <1>3, <1>4, <1>5, <1>10 DEF TreeBy
<1> QED BY <1>11 DEF Tree

-------------------------------------------------------------------------------
(* Stores into the links of a tree.                                        *)

SplayRecord == [root : Nodes \cup {NULL}, left : [Linked -> Links], right : [Linked -> Links]]

LEMMA RecordLinks ==
  ASSUME NEW t \in SplayRecord
  PROVE  /\ t.root \in Nodes \cup {NULL}
         /\ t.left = t["left"] /\ t.right = t["right"]
         /\ \A side \in Sides, x \in Linked : t[side][x] \in Links
BY DEF SplayRecord, Sides

LEMMA StoreRoot ==
  ASSUME NEW t \in SplayRecord, NEW v \in Nodes \cup {NULL}
  PROVE  LET u == [t EXCEPT !.root = v]
         IN  /\ u \in SplayRecord /\ u.root = v
             /\ \A s \in Sides, y \in Linked : u[s][y] = t[s][y]
BY DEF SplayRecord, Sides

LEMMA RotateRoot ==
  ASSUME NEW t \in SplayRecord, NEW M, Tree(t, t.root, M), NEW side \in Sides,
         t.root # NULL, t[side][t.root] # NULL
  PROVE  LET u == rotateRoot(t, side)
         IN  /\ u \in SplayRecord /\ u.root = t[side][t.root] /\ u.root \in M
             /\ Tree(u, u.root, M)
             /\ \A s \in Sides, y \in Linked \ M : u[s][y] = t[s][y]
<1> DEFINE p   == t.root
           q   == t[side][p]
           opp == other(side)
           u   == rotateRoot(t, side)
           M1  == Part(M, p, side)
           M2  == Part(M, p, opp)
           M11 == Part(M1, q, side)
           M12 == Part(M1, q, opp)
           P   == Part(M, q, opp)
<1>1. opp \in Sides /\ opp # side /\ other(opp) = side
  BY BeyondOrder
<1>2. M \subseteq Nodes /\ p \in M /\ Tree(t, q, M1) /\ Tree(t, t[opp][p], M2)
  <2>1. M \subseteq Nodes /\ p \in M /\ Tree(t, t[side][p], M1)
    BY TreeSplit
  <2>2. Tree(t, t[opp][p], M2)
    <3> HIDE DEF opp
    <3> QED BY <1>1, TreeSplit
  <2> QED BY <2>1, <2>2
<1>3. q \in M1 /\ Tree(t, t[side][q], M11) /\ Tree(t, t[opp][q], M12)
  <2>1. q # NULL
    OBVIOUS
  <2> HIDE DEF M1, q, opp
  <2>2. q \in M1 /\ Tree(t, t[side][q], M11)
    BY <1>2, <2>1, TreeSplit
  <2>3. Tree(t, t[opp][q], M12)
    BY <1>1, <1>2, <2>1, TreeSplit
  <2> QED BY <2>2, <2>3
<1>4. M \subseteq Int /\ M \subseteq Linked /\ p # q
  BY <1>2, <1>3, NodesAreInts, BeyondOrder DEF Linked, Part
<1>10. q \in M /\ M1 \subseteq M /\ M2 \subseteq M /\ M11 \subseteq M /\ M12 \subseteq M /\ P \subseteq M
  <2> HIDE DEF p, q, opp
  <2> QED BY <1>3 DEF Part
<1>5. t[opp][q] \in Links /\ p \in Links /\ q \in Nodes \cup {NULL}
  <2>1. \A x \in Linked : t[opp][x] \in Links
    BY <1>1, RecordLinks
  <2> HIDE DEF q, opp, p
  <2> QED BY <2>1, <1>2, <1>10, <1>4 DEF Links
<1>6. /\ u \in SplayRecord /\ u.root = q
      /\ \A s \in Sides, y \in Linked :
           u[s][y] = IF s = side /\ y = p THEN t[opp][q]
                     ELSE IF s = opp /\ y = q THEN p ELSE t[s][y]
  <2> DEFINE t1 == [t EXCEPT ![side][p] = t[opp][q]]
             t2 == [t1 EXCEPT ![opp][q] = p]
             t3 == [t2 EXCEPT !.root = q]
  <2>1. u = t3
    BY DEF rotateRoot
  <2>2. /\ t1 \in SplayRecord
        /\ \A s \in Sides, y \in Linked :
             t1[s][y] = IF s = side /\ y = p THEN t[opp][q] ELSE t[s][y]
    <3> HIDE DEF p, q, opp
    <3>1. p \in Linked /\ t[opp][q] \in Links
      BY <1>2, <1>4, <1>5
    <3> QED BY <3>1 DEF SplayRecord, Sides
  <2>3. /\ t2 \in SplayRecord
        /\ \A s \in Sides, y \in Linked : t2[s][y] = IF s = opp /\ y = q THEN p ELSE t1[s][y]
    <3> HIDE DEF p, q, opp, t1
    <3>1. q \in Linked /\ p \in Links
      BY <1>10, <1>2, <1>4 DEF Links
    <3> QED BY <1>1, <2>2, <3>1 DEF SplayRecord, Sides
  <2>4. /\ t3 \in SplayRecord /\ t3.root = q
        /\ \A s \in Sides, y \in Linked : t3[s][y] = t2[s][y]
    <3> HIDE DEF p, q, opp, t2
    <3> QED BY <1>5, <2>3, StoreRoot
  <2> HIDE DEF p, q, opp, t1, t2, t3, u
  <2> QED BY <1>1, <1>4, <2>1, <2>2, <2>3, <2>4
<1> HIDE DEF u, p, q, opp
<1>7. \A s \in Sides, y \in Linked \ {p, q} : u[s][y] = t[s][y]
  BY <1>6
<1>8. Tree(u, p, P)
  <2>1. P \subseteq Nodes /\ p \in P
    BY <1>2, <1>3, <1>4, <1>1, BeyondOrder DEF Part
  <2>2. Part(P, p, side) = M12
    BY DEF Part
  <2>3. Part(P, p, opp) = M2
    <3>1. beyondNode(p, q, opp)
      BY <1>1, <1>2, <1>3, <1>4, BeyondOrder DEF Part
    <3>2. \A y \in M : beyondNode(y, p, opp) => beyondNode(y, q, opp)
      BY <3>1, <1>1, <1>2, <1>3, <1>4, BeyondOrder DEF Part
    <3> QED BY <3>2 DEF Part
  <2>4. p \notin M12 /\ q \notin M12 /\ p \notin M2 /\ q \notin M2
    BY <1>1, <1>2, <1>3, <1>4, BeyondOrder DEF Part
  <2>5. Tree(u, t[opp][q], M12)
    <3>1. \A s \in Sides, y \in M12 : u[s][y] = t[s][y]
      BY <1>4, <1>7, <1>10, <2>4
    <3> HIDE DEF M12
    <3> QED BY <1>3, <3>1, TreeFrame
  <2>6. Tree(u, t[opp][p], M2)
    <3>1. \A s \in Sides, y \in M2 : u[s][y] = t[s][y]
      BY <1>4, <1>7, <1>10, <2>4
    <3> HIDE DEF M2
    <3> QED BY <1>2, <3>1, TreeFrame
  <2>7. u[side][p] = t[opp][q] /\ u[opp][p] = t[opp][p]
    BY <1>1, <1>2, <1>4, <1>6
  <2>8. \A s \in Sides : Tree(u, u[s][p], Part(P, p, s))
    <3>1. \A s \in Sides : s = side \/ s = opp
      BY BeyondOrder DEF opp
    <3> HIDE DEF P, M12, M2
    <3> QED BY <3>1, <2>2, <2>3, <2>5, <2>6, <2>7
  <2> HIDE DEF P
  <2> QED BY <2>1, <2>8, TreeJoin
<1>9. Tree(u, q, M)
  <2>1. Part(M, q, side) = M11
    <3>1. \A y \in M : beyondNode(y, q, side) => beyondNode(y, p, side)
      <4>1. beyondNode(q, p, side) /\ q \in Int /\ p \in Int
        BY <1>2, <1>3, <1>4 DEF Part
      <4> SUFFICES ASSUME NEW y \in M, beyondNode(y, q, side) PROVE beyondNode(y, p, side)
        OBVIOUS
      <4>2. y \in Int
        BY <1>4
      <4> QED BY <4>1, <4>2, BeyondOrder
    <3> QED BY <3>1 DEF Part
  <2>2. p \notin M11 /\ q \notin M11
    <3>1. beyondNode(q, p, side) /\ q \in Int /\ p \in Int
      BY <1>2, <1>3, <1>4 DEF Part
    <3>2. ~beyondNode(p, p, side) /\ ~beyondNode(q, q, side)
      BY <3>1, BeyondOrder
    <3> QED BY <3>2 DEF Part
  <2>3. Tree(u, t[side][q], M11)
    <3>1. \A s \in Sides, y \in M11 : u[s][y] = t[s][y]
      BY <1>4, <1>7, <1>10, <2>2
    <3> HIDE DEF M11
    <3> QED BY <1>3, <3>1, TreeFrame
  <2>4. u[side][q] = t[side][q] /\ u[opp][q] = p
    BY <1>1, <1>10, <1>4, <1>6
  <2>5. \A s \in Sides : Tree(u, u[s][q], Part(M, q, s))
    <3>1. \A s \in Sides : s = side \/ s = opp
      BY BeyondOrder DEF opp
    <3> HIDE DEF M11
    <3> QED BY <3>1, <2>1, <2>3, <2>4, <1>8
  <2> QED BY <1>2, <1>10, <2>5, TreeJoin
<1> QED BY <1>2, <1>10, <1>6, <1>7, <1>9 DEF u, p, q, Part

-------------------------------------------------------------------------------
(* The trees beside the one that is searched.                               *)

(* The nodes of X hang below the anchor, and the link of the last of them,  *)
(* e, to the side where the next one will hang says nothing.                *)
Hung(t, e, side, X) ==
  IF e = Anchor THEN X = {}
  ELSE /\ e \in X
       /\ \A y \in X : y = e \/ beyondNode(e, y, side)
       /\ Tree([t EXCEPT ![side][e] = NULL], t[side][Anchor], X)

(* u is t with another link.                                               *)
Stored(t, u, side, x, v) ==
  /\ u \in SplayRecord
  /\ u[side][x] = v
  /\ \A s \in Sides, y \in Linked : (s = side /\ y = x) \/ u[s][y] = t[s][y]

LEMMA StoreLinks ==
  ASSUME NEW t \in SplayRecord, NEW side \in Sides, NEW x \in Linked, NEW v \in Links
  PROVE  Stored(t, [t EXCEPT ![side][x] = v], side, x, v)
BY DEF SplayRecord, Sides, Stored

LEMMA HungFrame ==
  ASSUME NEW t \in SplayRecord, NEW u \in SplayRecord, NEW e \in Linked, NEW side \in Sides, NEW X,
         X \subseteq Nodes, Hung(t, e, side, X),
         u[side][Anchor] = t[side][Anchor],
         \A s \in Sides, y \in X : u[s][y] = t[s][y]
  PROVE  Hung(u, e, side, X)
<1>1. CASE e = Anchor
  BY <1>1 DEF Hung
<1>2. CASE e # Anchor
  <2> DEFINE t1 == [t EXCEPT ![side][e] = NULL]
             u1 == [u EXCEPT ![side][e] = NULL]
  <2>1. X \subseteq Linked /\ NULL \in Links
    BY DEF Linked, Links
  <2>2. /\ t1[side][e] = NULL
        /\ \A s \in Sides, y \in Linked : (s = side /\ y = e) \/ t1[s][y] = t[s][y]
    BY <2>1 DEF SplayRecord, Sides
  <2>3. /\ u1[side][e] = NULL
        /\ \A s \in Sides, y \in Linked : (s = side /\ y = e) \/ u1[s][y] = u[s][y]
    BY <2>1 DEF SplayRecord, Sides
  <2>4. /\ e \in X /\ \A y \in X : y = e \/ beyondNode(e, y, side)
        /\ Tree(t1, t[side][Anchor], X)
    BY <1>2 DEF Hung
  <2>5. \A s \in Sides, y \in X : u1[s][y] = t1[s][y]
    <3> HIDE DEF t1, u1
    <3> QED BY <2>1, <2>2, <2>3
  <2>6. Tree(u1, t[side][Anchor], X)
    <3> HIDE DEF t1, u1
    <3> QED BY <2>4, <2>5, TreeFrame
  <2> QED BY <1>2, <2>4, <2>6 DEF Hung
<1> QED BY <1>1, <1>2

(* SPLAY_ASSEMBLE() hangs a tree that needs no more room onto the end.      *)
LEMMA HangWhole ==
  ASSUME NEW t \in SplayRecord, NEW e \in Linked, NEW side \in Sides, NEW X, NEW b \in Links, NEW Y,
         X \subseteq Nodes, Hung(t, e, side, X), Tree(t, b, Y),
         \A x \in X, y \in Y : beyondNode(y, x, side),
         NEW u, Stored(t, u, side, e, b)
  PROVE  Tree(u, u[side][Anchor], X \cup Y)
<1>1. /\ X \subseteq Linked /\ Y \subseteq Nodes /\ Y \subseteq Linked /\ NULL \in Links
      /\ Anchor \in Linked /\ Anchor \notin Y
  BY TreeRoot, NodesAreInts DEF Linked, Links
<1>2. /\ u[side][e] = b
      /\ \A s \in Sides, y \in Linked : (s = side /\ y = e) \/ u[s][y] = t[s][y]
  BY DEF Stored
<1>3. CASE e = Anchor
  <2>1. X = {} /\ u[side][Anchor] = b
    BY <1>2, <1>3 DEF Hung
  <2>2. \A s \in Sides, y \in Y : u[s][y] = t[s][y]
    BY <1>1, <1>2, <1>3
  <2>3. Tree(u, b, Y)
    BY <2>2, TreeFrame
  <2> QED BY <2>1, <2>3
<1>4. CASE e # Anchor
  <2> DEFINE w == [t EXCEPT ![side][e] = NULL]
  <2>1. /\ e \in X /\ \A y \in X : y = e \/ beyondNode(e, y, side)
        /\ Tree(w, t[side][Anchor], X)
    BY <1>4 DEF Hung
  <2>2. /\ w[side][e] = NULL
        /\ \A s \in Sides, y \in Linked : (s = side /\ y = e) \/ w[s][y] = t[s][y]
    BY <1>1 DEF SplayRecord, Sides
  <2> HIDE DEF w
  <2>3. e \notin Y
    BY <2>1, <1>1, BeyondOrder, NodesAreInts
  <2>4. Tree(w, b, Y)
    <3>1. \A s \in Sides, y \in Y : w[s][y] = t[s][y]
      BY <2>2, <2>3, <1>1
    <3> QED BY <3>1, TreeFrame
  <2>5. u[side][Anchor] = t[side][Anchor]
    BY <1>1, <1>2, <1>4
  <2>6. \A s \in Sides, y \in X \cup Y : u[s][y] = w[s][y] \/ (s = side /\ y = e)
    BY <1>1, <1>2, <2>2
  <2>7. Tree(u, t[side][Anchor], X \cup Y)
    BY <2>1, <2>2, <2>4, <2>6, <1>2, TreeFill
  <2> QED BY <2>5, <2>7
<1> QED BY <1>3, <1>4

(* SPLAY_LINKLEFT() and SPLAY_LINKRIGHT() hang the root and what is below   *)
(* it on the other side onto the end; the root becomes the end.             *)
LEMMA HangOn ==
  ASSUME NEW t \in SplayRecord, NEW e \in Linked, NEW side \in Sides, NEW X,
         NEW r \in Nodes, NEW M,
         X \subseteq Nodes, Hung(t, e, side, X), Tree(t, r, M),
         \A x \in X, y \in M : beyondNode(y, x, side),
         NEW u, Stored(t, u, side, e, r)
  PROVE  Hung(u, r, side, X \cup {r} \cup Part(M, r, other(side)))
<1> DEFINE opp == other(side)
           O   == {r} \cup Part(M, r, opp)
           w   == [t EXCEPT ![side][r] = NULL]
           v   == [u EXCEPT ![side][r] = NULL]
<1>1. opp \in Sides /\ opp # side /\ other(opp) = side
  BY BeyondOrder
<1>2. r # NULL /\ r # Anchor /\ r \in Linked /\ r \in Links /\ NULL \in Links /\ Anchor \in Linked
  BY NodesAreInts DEF Linked, Links
<1>3. M \subseteq Nodes /\ r \in M /\ Tree(t, t[opp][r], Part(M, r, opp))
  <2> HIDE DEF opp
  <2> QED BY <1>1, <1>2, TreeSplit
<1>4. O \subseteq M /\ O \subseteq Nodes /\ X \subseteq Linked /\ M \subseteq Linked /\ Anchor \notin M
      /\ M \subseteq Int /\ X \subseteq Int
  BY <1>3, NodesAreInts DEF Part, Linked
<1>5. e \notin M
  <2>1. CASE e = Anchor
    BY <2>1, <1>4
  <2>2. CASE e # Anchor
    <3>1. e \in X
      BY <2>2 DEF Hung
    <3> QED BY <3>1, <1>4, BeyondOrder
  <2> QED BY <2>1, <2>2
<1>6. /\ u \in SplayRecord /\ u[side][e] = r
      /\ \A s \in Sides, y \in Linked : (s = side /\ y = e) \/ u[s][y] = t[s][y]
  BY DEF Stored
<1>7. /\ w \in SplayRecord /\ w[side][r] = NULL
      /\ \A s \in Sides, y \in Linked : (s = side /\ y = r) \/ w[s][y] = t[s][y]
  BY <1>2 DEF SplayRecord, Sides
<1>8. /\ v \in SplayRecord /\ v[side][r] = NULL
      /\ \A s \in Sides, y \in Linked : (s = side /\ y = r) \/ v[s][y] = u[s][y]
  BY <1>2, <1>6 DEF SplayRecord, Sides
<1>9. Tree(w, r, O)
  <2>1. r \notin Part(M, r, opp) /\ Part(M, r, opp) \subseteq M
    BY <1>1, <1>3, <1>4, BeyondOrder DEF Part
  <2>2. \A s \in Sides, y \in Part(M, r, opp) : w[s][y] = t[s][y]
    <3> HIDE DEF w, opp
    <3> QED BY <2>1, <1>4, <1>7
  <2>3. Tree(w, t[opp][r], Part(M, r, opp))
    <3> HIDE DEF w, opp
    <3> QED BY <2>2, <1>3, TreeFrame
  <2>4. w[opp][r] = t[opp][r]
    <3> HIDE DEF w, opp
    <3> QED BY <1>1, <1>2, <1>7
  <2>5. Part(O, r, opp) = Part(M, r, opp) /\ Part(O, r, side) = {}
    <3>1. r \in Int
      BY <1>3, <1>4
    <3>2. ~beyondNode(r, r, side) /\ ~beyondNode(r, r, opp)
      BY <3>1, <1>1, BeyondOrder
    <3>3. \A y \in M : beyondNode(y, r, opp) => ~beyondNode(y, r, side)
      BY <3>1, <1>1, <1>4, BeyondOrder
    <3> HIDE DEF opp
    <3> QED BY <1>3, <3>2, <3>3 DEF Part
  <2>6. \A s \in Sides : Tree(w, w[s][r], Part(O, r, s))
    <3>1. \A s \in Sides : s = side \/ s = opp
      BY BeyondOrder
    <3> HIDE DEF w, opp, O
    <3> QED BY <3>1, <2>3, <2>4, <2>5, <1>7, EmptyTree
  <2>7. r \in O
    OBVIOUS
  <2> HIDE DEF w, O
  <2> QED BY <2>6, <2>7, <1>4, TreeJoin
<1>10. /\ r \in X \cup O
       /\ \A y \in X \cup O : y = r \/ beyondNode(r, y, side)
  <2>1. \A y \in X : beyondNode(r, y, side)
    BY <1>3
  <2>2. \A y \in Part(M, r, opp) : beyondNode(r, y, side)
    BY <1>1, <1>3, <1>4, BeyondOrder DEF Part
  <2> QED BY <2>1, <2>2
<1> HIDE DEF w, v, O
<1>11. Tree(v, u[side][Anchor], X \cup O)
  <2>1. CASE e = Anchor
    <3>1. X = {} /\ u[side][Anchor] = r
      BY <1>6, <2>1 DEF Hung
    <3>2. \A s \in Sides, y \in O : v[s][y] = w[s][y]
      BY <1>4, <1>5, <1>6, <1>7, <1>8
    <3>3. Tree(v, r, O)
      BY <3>2, <1>9, TreeFrame
    <3> QED BY <3>1, <3>3
  <2>2. CASE e # Anchor
    <3>1. r \notin X
      BY <1>3, <1>4, BeyondOrder
    <3>2. Hung(w, e, side, X)
      <4>1. w[side][Anchor] = t[side][Anchor] /\ \A s \in Sides, y \in X : w[s][y] = t[s][y]
        BY <1>2, <1>4, <1>7, <3>1
      <4> QED BY <4>1, <1>7, HungFrame
    <3>3. Stored(w, v, side, e, r)
      <4>1. v[side][e] = r
        BY <1>3, <1>5, <1>6, <1>8
      <4>2. \A s \in Sides, y \in Linked : (s = side /\ y = e) \/ v[s][y] = w[s][y]
        BY <1>6, <1>7, <1>8
      <4> QED BY <1>8, <4>1, <4>2 DEF Stored
    <3>4. Tree(v, v[side][Anchor], X \cup O)
      <4>1. \A x \in X, y \in O : beyondNode(y, x, side)
        BY <1>4
      <4> QED BY <1>2, <1>7, <1>9, <3>2, <3>3, <4>1, HangWhole
    <3>5. v[side][Anchor] = u[side][Anchor]
      BY <1>2, <1>8
    <3> QED BY <3>4, <3>5
  <2> QED BY <2>1, <2>2
<1>12. Hung(u, r, side, X \cup O)
  BY <1>2, <1>10, <1>11 DEF Hung, v
<1>13. X \cup {r} \cup Part(M, r, other(side)) = X \cup O
  BY DEF O
<1> QED BY <1>12, <1>13

-------------------------------------------------------------------------------
(* A splay on its way.                                                     *)

(* The nodes are cut into those below the root, M, and those that hang on   *)
(* each side, H: they are beyond the key and beyond everything below the   *)
(* root.                                                                   *)
Cut(t, at, key, M, H) ==
  /\ t \in SplayRecord /\ at \in [Sides -> Linked] /\ key \in Int
  /\ H \in [Sides -> SUBSET Nodes]
  /\ M # {} /\ Tree(t, t.root, M)
  /\ \A side \in Sides :
       /\ Hung(t, at[side], other(side), H[side])
       /\ \A x \in H[side] : beyondNode(x, key, side) /\ \A y \in M : beyondNode(x, y, side)

pieces(M, H) == M \cup H["left"] \cup H["right"]

LEMMA Pieces ==
  ASSUME NEW t, NEW at, NEW key, NEW M, NEW H, Cut(t, at, key, M, H), NEW side \in Sides
  PROVE  /\ pieces(M, H) = M \cup H[side] \cup H[other(side)]
         /\ M \subseteq Nodes /\ H[side] \subseteq Nodes /\ pieces(M, H) \subseteq Nodes
         /\ M \subseteq Int /\ M \subseteq Linked /\ H[side] \subseteq Int /\ H[side] \subseteq Linked
         /\ M \cap H[side] = {} /\ H[side] \cap H[other(side)] = {}
         /\ Anchor \notin M /\ Anchor \notin H[side] /\ t.root \in M /\ t.root # NULL
         /\ at[side] \in H[side] \cup {Anchor} /\ at[side] \in Linked
<1>1. M \subseteq Nodes /\ t.root \in M /\ t.root # NULL
  BY TreeRoot, NodesAreInts DEF Cut
<1>2. other(side) \in Sides /\ other(side) # side
  BY BeyondOrder
<1>3. H[side] \subseteq Nodes /\ H[other(side)] \subseteq Nodes /\ key \in Int
  BY <1>2 DEF Cut
<1>4. M \cap H[side] = {}
  <2> SUFFICES ASSUME NEW x \in H[side], x \in M PROVE FALSE
    OBVIOUS
  <2>1. beyondNode(x, x, side) /\ x \in Int
    BY <1>3, NodesAreInts DEF Cut
  <2> QED BY <2>1, BeyondOrder
<1>5. H[side] \cap H[other(side)] = {}
  <2> SUFFICES ASSUME NEW x \in H[side], x \in H[other(side)] PROVE FALSE
    OBVIOUS
  <2>1. beyondNode(x, key, side) /\ beyondNode(x, key, other(side)) /\ x \in Int
    BY <1>2, <1>3, NodesAreInts DEF Cut
  <2>2. beyondNode(key, x, side)
    BY <2>1, <1>2, <1>3, BeyondOrder
  <2> QED BY <2>1, <2>2, <1>3, BeyondOrder
<1>6. pieces(M, H) = M \cup H[side] \cup H[other(side)]
  BY DEF pieces, Sides, other
<1>7. at[side] \in H[side] \cup {Anchor} /\ at[side] \in Linked
  BY DEF Cut, Hung
<1> QED BY <1>1, <1>3, <1>4, <1>5, <1>6, <1>7, NodesAreInts DEF Linked

LEMMA Toward == \A t, key : toward(t, key) \in Sides
BY DEF toward, Sides

(* The rotation leaves the pieces as they are, and passes the key by no     *)
(* more than the root did.                                                 *)
LEMMA TurnedCut ==
  ASSUME NEW M, NEW H, Cut(sp, ends, spKey, M, H)
  PROVE  /\ Cut(turned, ends, spKey, M, H)
         /\ \A s \in Sides, y \in Linked \ M : turned[s][y] = sp[s][y]
         /\ spKey # sp.root => beyondNode(spKey, turned.root, toward(sp, spKey))
<1> DEFINE side == toward(sp, spKey)
           turns == sp[side][sp.root] # NULL /\ beyondNode(spKey, sp[side][sp.root], side)
<1>1. side \in Sides
  BY Toward
<1>2. /\ sp \in SplayRecord /\ spKey \in Int /\ Tree(sp, sp.root, M) /\ sp.root # NULL
      /\ sp.root \in Int /\ sp.root \in M
  <2>1. sp.root \in M /\ sp.root # NULL /\ M \subseteq Int
    BY <1>1, Pieces
  <2>2. sp \in SplayRecord /\ spKey \in Int /\ Tree(sp, sp.root, M)
    BY DEF Cut
  <2> QED BY <2>1, <2>2
<1>3. spKey # sp.root => beyondNode(spKey, sp.root, side)
  BY <1>2 DEF toward, beyondNode
<1>4. CASE ~turns
  <2>1. turned = sp
    BY <1>4 DEF turned
  <2> QED BY <2>1, <1>3
<1>5. CASE turns
  <2> DEFINE u == rotateRoot(sp, side)
  <2>1. turned = u
    BY <1>5 DEF turned
  <2>2. /\ u \in SplayRecord /\ u.root = sp[side][sp.root] /\ Tree(u, u.root, M)
        /\ \A s \in Sides, y \in Linked \ M : u[s][y] = sp[s][y]
    <3> HIDE DEF side
    <3> QED BY <1>1, <1>2, <1>5, RotateRoot
  <2>3. beyondNode(spKey, u.root, side)
    <3> HIDE DEF u
    <3> QED BY <2>2, <1>5
  <2>4. ASSUME NEW s \in Sides
        PROVE  Hung(u, ends[s], other(s), H[s])
    <3>1. /\ H[s] \subseteq Nodes /\ H[s] \subseteq Linked \ M /\ Anchor \in Linked \ M
          /\ ends[s] \in Linked /\ other(s) \in Sides
      BY Pieces, BeyondOrder DEF Linked
    <3>2. Hung(sp, ends[s], other(s), H[s])
      BY DEF Cut
    <3> HIDE DEF u, side
    <3> QED BY <3>1, <3>2, <1>2, <2>2, HungFrame
  <2>5. Cut(u, ends, spKey, M, H)
    <3> HIDE DEF u, side
    <3> QED BY <2>2, <2>4 DEF Cut
  <2> HIDE DEF u, side
  <2> QED BY <2>1, <2>2, <2>3, <2>5 DEF side
<1> QED BY <1>4, <1>5

(* A turn of the loop moves nodes from the tree to one that hangs beside.   *)
LEMMA TurnCut ==
  ASSUME NEW M, NEW H, Cut(sp, ends, spKey, M, H), SplayTurn
  PROVE  /\ \E M1, H1 : Cut(sp', ends', spKey, M1, H1) /\ pieces(M1, H1) = pieces(M, H)
         /\ \A s \in Sides, y \in Nodes \ pieces(M, H) : sp'[s][y] = sp[s][y]
<1> DEFINE side == toward(sp, spKey)
           opp  == other(side)
           t    == turned
           r    == turned.root
           e    == ends[opp]
           u    == [turned EXCEPT ![side][ends[opp]] = turned.root]
           v    == [u EXCEPT !.root = turned[side][turned.root]]
           M1   == Part(M, r, side)
           O    == {r} \cup Part(M, r, opp)
           H1   == [H EXCEPT ![opp] = H[opp] \cup O]
<1>1. side \in Sides /\ opp \in Sides /\ opp # side /\ other(opp) = side
  BY Toward, BeyondOrder
<1>2. /\ Cut(t, ends, spKey, M, H)
      /\ \A s \in Sides, y \in Linked \ M : t[s][y] = sp[s][y]
  BY TurnedCut
<1>3. spKey # sp.root /\ t[side][r] # NULL /\ beyondNode(spKey, r, side)
  BY TurnedCut DEF SplayTurn, atEnd
<1>4. sp' = v /\ ends' = [ends EXCEPT ![opp] = r]
  BY DEF SplayTurn
<1> HIDE DEF side, opp
<1>5. /\ t \in SplayRecord /\ Tree(t, r, M) /\ r \in M /\ r # NULL /\ r \in Nodes /\ r \in Int
      /\ M \subseteq Nodes /\ M \subseteq Int /\ M \subseteq Linked /\ Anchor \notin M
      /\ spKey \in Int /\ H \in [Sides -> SUBSET Nodes] /\ ends \in [Sides -> Linked]
  <2>1. /\ r \in M /\ r # NULL /\ M \subseteq Nodes /\ M \subseteq Int /\ M \subseteq Linked
        /\ Anchor \notin M
    BY <1>1, <1>2, Pieces
  <2>2. /\ t \in SplayRecord /\ Tree(t, r, M) /\ spKey \in Int /\ H \in [Sides -> SUBSET Nodes]
        /\ ends \in [Sides -> Linked]
    BY <1>2 DEF Cut
  <2> HIDE DEF r, t
  <2> QED BY <2>1, <2>2
<1>6. /\ \A s \in Sides : H[s] \subseteq Nodes /\ H[s] \subseteq Int /\ H[s] \subseteq Linked
                          /\ Anchor \notin H[s] /\ M \cap H[s] = {}
      /\ H[side] \cap H[opp] = {} /\ e \in H[opp] \cup {Anchor} /\ e \in Linked
      /\ pieces(M, H) = M \cup H[side] \cup H[opp]
  <2>1. H[side] \cap H[opp] = {} /\ pieces(M, H) = M \cup H[side] \cup H[opp]
    BY <1>1, <1>2, Pieces DEF opp
  <2>2. e \in H[opp] \cup {Anchor} /\ e \in Linked
    BY <1>1, <1>2, Pieces
  <2>3. \A s \in Sides : H[s] \subseteq Nodes /\ H[s] \subseteq Int /\ H[s] \subseteq Linked
                          /\ Anchor \notin H[s] /\ M \cap H[s] = {}
    BY <1>2, Pieces
  <2> QED BY <2>1, <2>2, <2>3
<1>7. Stored(t, u, side, e, r)
  <2>1. r \in Links
    BY <1>5 DEF Links
  <2> HIDE DEF r, e
  <2> QED BY <2>1, <1>1, <1>5, <1>6, StoreLinks DEF r, e
<1>8. /\ v \in SplayRecord /\ v.root = t[side][r]
      /\ \A s \in Sides, y \in Linked : v[s][y] = u[s][y]
  <2>1. t[side][r] \in Nodes \cup {NULL}
    BY <1>1, <1>5, TreeRoot
  <2>2. u \in SplayRecord
    BY <1>7 DEF Stored
  <2> HIDE DEF u, r
  <2> QED BY <2>1, <2>2 DEF SplayRecord, Sides, r
<1>9. Tree(t, t[side][r], M1) /\ M1 \subseteq M /\ r \notin M1 /\ M1 # {}
  <2>1. Tree(t, t[side][r], M1)
    BY <1>1, <1>5, TreeSplit
  <2>2. M1 \subseteq M /\ r \notin M1
    BY <1>1, <1>5, BeyondOrder DEF Part
  <2>3. M1 # {}
    BY <2>1, <1>3, TreeRoot
  <2> QED BY <2>1, <2>2, <2>3
<1>10. O \subseteq M /\ M = M1 \cup O
  <2>1. \A y \in M : y # r => y \in M1 \/ y \in Part(M, r, opp)
    BY <1>1, <1>5, BeyondOrder DEF Part, opp
  <2> QED BY <2>1, <1>5 DEF Part
<1> HIDE DEF t, r, u, v, e, M1, O
<1>11. H1 \in [Sides -> SUBSET Nodes] /\ H1[opp] = H[opp] \cup O /\ H1[side] = H[side]
  BY <1>1, <1>5, <1>10
<1>12. /\ ends' \in [Sides -> Linked] /\ ends'[opp] = r /\ ends'[side] = ends[side]
  BY <1>1, <1>4, <1>5
<1> HIDE DEF H1
<1>13. \A s \in Sides, y \in Linked : (s = side /\ y = e) \/ v[s][y] = t[s][y]
  BY <1>7, <1>8 DEF Stored
<1>14. Tree(v, v.root, M1)
  <2>1. \A s \in Sides, y \in M1 : v[s][y] = t[s][y]
    BY <1>1, <1>5, <1>6, <1>9, <1>13
  <2> QED BY <2>1, <1>8, <1>9, TreeFrame
<1>15. Hung(v, r, side, H[opp] \cup O)
  <2>1. Hung(t, e, side, H[opp])
    BY <1>1, <1>2 DEF Cut, e
  <2>2. \A x \in H[opp], y \in M : beyondNode(y, x, side)
    <3>1. \A x \in H[opp], y \in M : beyondNode(x, y, opp)
      BY <1>1, <1>2 DEF Cut
    <3> QED BY <3>1, <1>1, <1>5, <1>6, BeyondOrder
  <2>3. Hung(u, r, side, H[opp] \cup {r} \cup Part(M, r, other(side)))
    <3>1. H[opp] \subseteq Nodes
      BY <1>1, <1>6
    <3> QED BY <2>1, <2>2, <3>1, <1>1, <1>5, <1>6, <1>7, HangOn
  <2>4. H[opp] \cup {r} \cup Part(M, r, other(side)) = H[opp] \cup O
    BY DEF O, opp
  <2>5. H[opp] \cup O \subseteq Nodes /\ H[opp] \cup O \subseteq Linked
    BY <1>1, <1>5, <1>6, <1>10
  <2>6. Hung(u, r, side, H[opp] \cup O)
    BY <2>3, <2>4
  <2>7. u \in SplayRecord /\ r \in Linked /\ Anchor \in Linked
    BY <1>5, <1>7 DEF Stored, Linked
  <2> QED BY <2>5, <2>6, <2>7, <1>1, <1>8, HungFrame
<1>16. Hung(v, ends[side], opp, H[side])
  <2>1. Hung(t, ends[side], opp, H[side])
    BY <1>1, <1>2 DEF Cut, opp
  <2>2. v[opp][Anchor] = t[opp][Anchor] /\ \A s \in Sides, y \in H[side] : v[s][y] = t[s][y]
    <3>1. Anchor \in Linked /\ H[side] \subseteq Linked /\ e \notin H[side]
      BY <1>1, <1>6 DEF Linked
    <3> QED BY <3>1, <1>1, <1>13
  <2>3. ends[side] \in Linked /\ H[side] \subseteq Nodes
    BY <1>1, <1>5, <1>6
  <2> QED BY <2>1, <2>2, <2>3, <1>1, <1>5, <1>8, HungFrame
<1>17. \A s \in Sides : \A x \in H1[s] :
         beyondNode(x, spKey, s) /\ \A y \in M1 : beyondNode(x, y, s)
  <2>1. \A s \in Sides : \A x \in H[s] :
          beyondNode(x, spKey, s) /\ \A y \in M1 : beyondNode(x, y, s)
    BY <1>2, <1>9 DEF Cut
  <2>2. \A x \in O : x = r \/ beyondNode(x, r, opp)
    BY DEF O, Part
  <2>3. beyondNode(r, spKey, opp)
    BY <1>1, <1>3, <1>5, BeyondOrder DEF r, t
  <2>4. \A x \in O : beyondNode(x, spKey, opp)
    BY <2>2, <2>3, <1>1, <1>5, <1>10, BeyondOrder
  <2>5. \A y \in M1 : beyondNode(r, y, opp)
    BY <1>1, <1>5, BeyondOrder DEF M1, Part
  <2>6. \A x \in O, y \in M1 : beyondNode(x, y, opp)
    BY <2>2, <2>5, <1>1, <1>5, <1>9, <1>10, BeyondOrder
  <2>7. \A s \in Sides : s = side \/ s = opp
    BY <1>1, BeyondOrder
  <2> QED BY <2>1, <2>4, <2>6, <2>7, <1>11
<1>18. Cut(sp', ends', spKey, M1, H1)
  <2>1. \A s \in Sides : Hung(v, ends'[s], other(s), H1[s])
    <3>1. \A s \in Sides : s = side \/ s = opp
      BY <1>1, BeyondOrder
    <3> QED BY <3>1, <1>1, <1>11, <1>12, <1>15, <1>16 DEF opp
  <2> QED BY <2>1, <1>4, <1>5, <1>8, <1>9, <1>11, <1>12, <1>14, <1>17 DEF Cut
<1>19. pieces(M1, H1) = pieces(M, H)
  <2>1. pieces(M1, H1) = M1 \cup H1[side] \cup H1[opp]
    BY <1>1, <1>18, Pieces DEF opp
  <2> QED BY <2>1, <1>6, <1>10, <1>11
<1>20. \A s \in Sides, y \in Nodes \ pieces(M, H) : sp'[s][y] = sp[s][y]
  <2>1. Nodes \subseteq Linked /\ Anchor \notin Nodes
    BY NodesAreInts DEF Linked
  <2> QED BY <2>1, <1>2, <1>4, <1>6, <1>13 DEF t
<1> QED BY <1>18, <1>19, <1>20

LEMMA NamedStores ==
  ASSUME NEW t \in SplayRecord, NEW x \in Linked, NEW v \in Links
  PROVE  /\ Stored(t, [t EXCEPT !.left[x] = v], "left", x, v)
         /\ Stored(t, [t EXCEPT !.right[x] = v], "right", x, v)
BY DEF SplayRecord, Sides, Stored

(* What hangs on the sides becomes part of the root's subtrees.             *)
LEMMA Assembled ==
  ASSUME NEW t, NEW key, NEW M, NEW H, Cut(t, ends, key, M, H)
  PROVE  /\ assemble(t) \in SplayRecord /\ assemble(t).root = t.root
         /\ Tree(assemble(t), t.root, pieces(M, H))
         /\ \A s \in Sides, y \in Nodes \ pieces(M, H) : assemble(t)[s][y] = t[s][y]
<1> DEFINE r  == t.root
           eL == ends["left"]
           eR == ends["right"]
           u  == [t EXCEPT !.right[eL] = t.left[r]]
           v  == [u EXCEPT !.left[eR] = u.right[r]]
           w  == [v EXCEPT !.left[r] = v.right[Anchor]]
           z  == [w EXCEPT !.right[r] = v.left[Anchor]]
           L  == H["left"] \cup Part(M, r, "left")
           R  == H["right"] \cup Part(M, r, "right")
           N  == pieces(M, H)
<1>1. assemble(t) = z
  <2>1. z = [v EXCEPT !.left[r] = v.right[Anchor], !.right[r] = v.left[Anchor]]
    OBVIOUS
  <2> QED BY <2>1 DEF assemble
<1>2. "left" \in Sides /\ "right" \in Sides /\ other("left") = "right" /\ other("right") = "left"
  BY DEF Sides, other
<1>3. /\ N = M \cup H["left"] \cup H["right"] /\ N \subseteq Nodes
      /\ H["left"] \subseteq Nodes /\ H["left"] \subseteq Int /\ H["left"] \subseteq Linked
      /\ M \cap H["left"] = {} /\ H["left"] \cap H["right"] = {} /\ Anchor \notin H["left"]
      /\ eL \in H["left"] \cup {Anchor} /\ eL \in Linked
  BY <1>2, Pieces
<1>4. /\ H["right"] \subseteq Nodes /\ H["right"] \subseteq Int /\ H["right"] \subseteq Linked
      /\ M \cap H["right"] = {} /\ Anchor \notin H["right"]
      /\ eR \in H["right"] \cup {Anchor} /\ eR \in Linked
  BY <1>2, Pieces
<1>5. /\ M \subseteq Nodes /\ M \subseteq Int /\ M \subseteq Linked /\ Anchor \notin M
      /\ r \in M /\ r # NULL
  BY <1>2, Pieces
<1>6. /\ t \in SplayRecord /\ Tree(t, r, M)
      /\ Hung(t, eL, "right", H["left"]) /\ Hung(t, eR, "left", H["right"])
      /\ \A x \in H["left"], y \in M : beyondNode(y, x, "right")
      /\ \A x \in H["right"], y \in M : beyondNode(y, x, "left")
  <2>1. t \in SplayRecord /\ Tree(t, r, M)
    BY DEF Cut
  <2>2. Hung(t, eL, "right", H["left"]) /\ Hung(t, eR, "left", H["right"])
    BY <1>2 DEF Cut
  <2>3. /\ \A x \in H["left"], y \in M : beyondNode(x, y, "left")
        /\ \A x \in H["right"], y \in M : beyondNode(x, y, "right")
    BY <1>2 DEF Cut
  <2> QED BY <2>1, <2>2, <2>3 DEF beyondNode
<1>7. /\ Tree(t, t["left"][r], Part(M, r, "left")) /\ Tree(t, t["right"][r], Part(M, r, "right"))
      /\ t["left"][r] \in Links /\ t["right"][r] \in Links
      /\ Part(M, r, "left") \subseteq M \ {r} /\ Part(M, r, "right") \subseteq M \ {r}
      /\ M = {r} \cup Part(M, r, "left") \cup Part(M, r, "right")
      /\ Part(M, r, "left") \cap Part(M, r, "right") = {}
  <2> HIDE DEF r
  <2>1. Tree(t, t["left"][r], Part(M, r, "left")) /\ Tree(t, t["right"][r], Part(M, r, "right"))
    BY <1>2, <1>5, <1>6, TreeSplit
  <2>2. t["left"][r] \in Links /\ t["right"][r] \in Links
    BY <1>2, <1>5, <1>6, RecordLinks
  <2>3. /\ Part(M, r, "left") \subseteq M \ {r} /\ Part(M, r, "right") \subseteq M \ {r}
        /\ M = {r} \cup Part(M, r, "left") \cup Part(M, r, "right")
        /\ Part(M, r, "left") \cap Part(M, r, "right") = {}
    <3>1. \A y \in M : /\ beyondNode(y, r, "left") <=> y < r
                       /\ beyondNode(y, r, "right") <=> y > r
      BY DEF beyondNode
    <3>2. \A y \in M : ~(y < r /\ y > r) /\ (y # r <=> y < r \/ y > r)
      BY <1>5
    <3> QED BY <1>5, <3>1, <3>2 DEF Part
  <2> QED BY <2>1, <2>2, <2>3
<1>8. Stored(t, u, "right", eL, t["left"][r])
  <2>1. t.left = t["left"]
    BY <1>6, RecordLinks
  <2> HIDE DEF r, eL
  <2> QED BY <2>1, <1>3, <1>6, <1>7, NamedStores
<1> HIDE DEF u
<1>9. u \in SplayRecord /\ u["right"][r] = t["right"][r]
  BY <1>2, <1>3, <1>5, <1>8 DEF Stored
<1>10. Stored(u, v, "left", eR, t["right"][r])
  <2>1. u.right = u["right"]
    BY <1>9, RecordLinks
  <2> HIDE DEF r, eR
  <2> QED BY <2>1, <1>4, <1>7, <1>9, NamedStores
<1> HIDE DEF v
<1>11. v \in SplayRecord /\ v["left"][Anchor] \in Links /\ v["right"][Anchor] \in Links
       /\ v.left = v["left"] /\ v.right = v["right"]
  <2>1. v \in SplayRecord /\ Anchor \in Linked
    BY <1>10 DEF Stored, Linked
  <2> QED BY <2>1, <1>2, RecordLinks
<1>12. Stored(v, w, "left", r, v["right"][Anchor])
  <2> HIDE DEF r
  <2> QED BY <1>5, <1>11, NamedStores
<1> HIDE DEF w
<1>13. Stored(w, z, "right", r, v["left"][Anchor])
  <2>1. w \in SplayRecord
    BY <1>12 DEF Stored
  <2> HIDE DEF r
  <2> QED BY <2>1, <1>5, <1>11, NamedStores
<1>14. z \in SplayRecord /\ z.root = r
  <2> HIDE DEF z, r
  <2>1. u.root = t.root
    BY <1>6 DEF u, SplayRecord
  <2>2. v.root = u.root
    BY <1>9 DEF v, SplayRecord
  <2>3. w.root = v.root
    BY <1>11 DEF w, SplayRecord
  <2>4. w \in SplayRecord
    BY <1>12 DEF Stored
  <2>5. z.root = w.root
    BY <2>4 DEF z, SplayRecord
  <2> QED BY <2>1, <2>2, <2>3, <2>5, <1>13 DEF Stored, r
<1> HIDE DEF z, r, eL, eR
(* The four stores, seen from the nodes. *)
<1>15. /\ \A s \in Sides, y \in Linked : (s = "right" /\ y = eL) \/ u[s][y] = t[s][y]
       /\ \A s \in Sides, y \in Linked : (s = "left" /\ y = eR) \/ v[s][y] = u[s][y]
       /\ \A s \in Sides, y \in Linked \ {r} : z[s][y] = v[s][y]
       /\ z["left"][r] = v["right"][Anchor] /\ z["right"][r] = v["left"][Anchor]
  <2>1. /\ \A s \in Sides, y \in Linked : (s = "right" /\ y = eL) \/ u[s][y] = t[s][y]
        /\ \A s \in Sides, y \in Linked : (s = "left" /\ y = eR) \/ v[s][y] = u[s][y]
    BY <1>8, <1>10 DEF Stored
  <2>2. /\ \A s \in Sides, y \in Linked : (s = "left" /\ y = r) \/ w[s][y] = v[s][y]
        /\ w["left"][r] = v["right"][Anchor]
    BY <1>12 DEF Stored
  <2>3. /\ \A s \in Sides, y \in Linked : (s = "right" /\ y = r) \/ z[s][y] = w[s][y]
        /\ z["right"][r] = v["left"][Anchor]
    BY <1>13 DEF Stored
  <2>4. z["left"][r] = w["left"][r]
    BY <2>3, <1>2, <1>5
  <2>5. \A s \in Sides, y \in Linked \ {r} : z[s][y] = v[s][y]
    BY <2>2, <2>3
  <2> QED BY <2>1, <2>2, <2>3, <2>4, <2>5
<1>16. Tree(u, u["right"][Anchor], L)
  <2>1. \A x \in H["left"], y \in Part(M, r, "left") : beyondNode(y, x, "right")
    BY <1>6, <1>7
  <2> QED BY <2>1, <1>2, <1>3, <1>6, <1>7, <1>8, HangWhole DEF L
<1>17. Tree(v, v["left"][Anchor], R)
  <2>1. \A x \in H["right"], y \in Part(M, r, "right") : beyondNode(y, x, "left")
    BY <1>6, <1>7
  <2>2. Tree(u, t["right"][r], Part(M, r, "right"))
    <3>1. \A y \in M : y \in Linked /\ y # eL
      BY <1>3, <1>5
    <3>2. \A s \in Sides, y \in M : u[s][y] = t[s][y]
      BY <3>1, <1>15
    <3>3. \A s \in Sides, y \in Part(M, r, "right") : u[s][y] = t[s][y]
      BY <3>2, <1>7
    <3> QED BY <3>3, <1>7, TreeFrame
  <2>3. Hung(u, eR, "left", H["right"])
    <3>1. u["left"][Anchor] = t["left"][Anchor]
      BY <1>2, <1>15 DEF Linked
    <3>2. \A s \in Sides, y \in H["right"] : u[s][y] = t[s][y]
      <4>1. \A y \in H["right"] : y \in Linked /\ y # eL
        BY <1>3, <1>4
      <4> QED BY <4>1, <1>15
    <3> QED BY <3>1, <3>2, <1>2, <1>4, <1>6, <1>9, HungFrame
  <2> QED BY <2>1, <2>2, <2>3, <1>2, <1>4, <1>7, <1>9, <1>10, HangWhole DEF R
<1>18. /\ L \subseteq Linked \ {r} /\ R \subseteq Linked \ {r} /\ eR \notin L
       /\ N = {r} \cup L \cup R /\ r \notin L /\ r \notin R
  BY <1>3, <1>4, <1>5, <1>7
<1>19. Tree(z, z["left"][r], L) /\ Tree(z, z["right"][r], R)
  <2>1. \A s \in Sides, y \in L : z[s][y] = u[s][y]
    BY <1>15, <1>18
  <2>2. \A s \in Sides, y \in R : z[s][y] = v[s][y]
    BY <1>15, <1>18
  <2>3. v["right"][Anchor] = u["right"][Anchor]
    BY <1>2, <1>15 DEF Linked
  <2> HIDE DEF L, R
  <2>4. Tree(z, u["right"][Anchor], L)
    BY <2>1, <1>16, TreeFrame
  <2>5. Tree(z, v["left"][Anchor], R)
    BY <2>2, <1>17, TreeFrame
  <2> QED BY <2>3, <2>4, <2>5, <1>15
<1>20. Part(N, r, "left") = L /\ Part(N, r, "right") = R
  <2>1. /\ \A x \in L : beyondNode(x, r, "left")
        /\ \A x \in R : beyondNode(x, r, "right")
    BY <1>3, <1>4, <1>5, <1>6 DEF Part, beyondNode
  <2>2. /\ \A x \in L : ~beyondNode(x, r, "right")
        /\ \A x \in R : ~beyondNode(x, r, "left")
    <3>1. L \subseteq Int /\ R \subseteq Int /\ r \in Int
      BY <1>3, <1>4, <1>5, <1>7
    <3> HIDE DEF L, R
    <3> QED BY <2>1, <3>1 DEF beyondNode
  <2>3. ~beyondNode(r, r, "right") /\ ~beyondNode(r, r, "left")
    BY <1>5 DEF beyondNode
  <2> HIDE DEF L, R, N
  <2> QED BY <2>1, <2>2, <2>3, <1>18 DEF Part
<1>21. Tree(z, r, N)
  <2>1. \A s \in Sides : Tree(z, z[s][r], Part(N, r, s))
    <3> HIDE DEF L, R, N
    <3> QED BY <1>19, <1>20 DEF Sides
  <2>2. r \in N
    BY <1>18
  <2> HIDE DEF N
  <2> QED BY <2>1, <2>2, <1>3, TreeJoin
<1>22. \A s \in Sides, y \in Nodes \ N : z[s][y] = t[s][y]
  <2>1. \A y \in Nodes \ N : y \in Linked /\ y # eL /\ y # eR /\ y # r
    BY <1>3, <1>4, <1>5, NodesAreInts DEF Linked
  <2> HIDE DEF N
  <2> QED BY <2>1, <1>15
<1> QED BY <1>1, <1>14, <1>21, <1>22 DEF r

(* At the end of the loop the pieces are one tree again, and its root is    *)
(* the key, or there is no node between the key and the root.              *)
LEMMA SplayedCut ==
  ASSUME NEW M, NEW H, Cut(sp, ends, spKey, M, H), atEnd
  PROVE  LET N == pieces(M, H)
         IN  /\ splayed \in SplayRecord /\ splayed.root \in N /\ N \subseteq Nodes /\ spKey \in Int
             /\ Tree(splayed, splayed.root, N)
             /\ \A s \in Sides, y \in Nodes \ N : splayed[s][y] = sp[s][y]
             /\ spKey \in N => splayed.root = spKey
             /\ splayed.root # spKey =>
                  \E side \in Sides :
                    /\ beyondNode(spKey, splayed.root, side)
                    /\ \A y \in N : \/ y = splayed.root
                                    \/ beyondNode(y, splayed.root, other(side))
                                    \/ beyondNode(y, spKey, side)
<1> DEFINE N    == pieces(M, H)
           side == toward(sp, spKey)
           opp  == other(side)
           t    == IF spKey = sp.root THEN sp ELSE turned
           r    == t.root
           a    == assemble(t)
           b    == [a EXCEPT !.left[Anchor] = NULL]
           c    == [b EXCEPT !.right[Anchor] = NULL]
<1>1. side \in Sides /\ opp \in Sides /\ opp # side /\ other(opp) = side
  BY Toward, BeyondOrder
<1>2. /\ Cut(t, ends, spKey, M, H)
      /\ \A s \in Sides, y \in Linked \ M : t[s][y] = sp[s][y]
      /\ spKey # sp.root => beyondNode(spKey, r, side) /\ t[side][r] = NULL
  BY TurnedCut DEF atEnd
<1> HIDE DEF t, side, opp
<1>3. /\ N = M \cup H[side] \cup H[opp] /\ N \subseteq Nodes
      /\ M \subseteq Int /\ H[side] \subseteq Int /\ r \in M /\ r # NULL
  BY <1>1, <1>2, Pieces DEF opp
<1>4. H[opp] \subseteq Int
  BY <1>1, <1>2, Pieces
<1>5. /\ a \in SplayRecord /\ a.root = r /\ Tree(a, r, N)
      /\ \A s \in Sides, y \in Nodes \ N : a[s][y] = t[s][y]
  BY <1>2, Assembled
<1> HIDE DEF a
<1>6. splayed = c
  <2>1. c = [a EXCEPT !.left[Anchor] = NULL, !.right[Anchor] = NULL]
    OBVIOUS
  <2> QED BY <2>1 DEF splayed, a, t
<1>7. Stored(a, b, "left", Anchor, NULL) /\ Stored(b, c, "right", Anchor, NULL)
  <2>1. Anchor \in Linked /\ NULL \in Links
    BY DEF Linked, Links
  <2>2. Stored(a, b, "left", Anchor, NULL)
    BY <2>1, <1>5, NamedStores
  <2>3. b \in SplayRecord
    BY <2>2 DEF Stored
  <2> HIDE DEF b
  <2>4. Stored(b, c, "right", Anchor, NULL)
    BY <2>1, <2>3, NamedStores
  <2> QED BY <2>2, <2>4
<1>8. c.root = r
  BY <1>5 DEF SplayRecord
<1>9. c \in SplayRecord /\ \A s \in Sides, y \in Nodes : c[s][y] = a[s][y]
  <2>1. Nodes \subseteq Linked /\ Anchor \notin Nodes
    BY NodesAreInts DEF Linked
  <2> HIDE DEF b, c
  <2> QED BY <2>1, <1>7 DEF Stored
<1> HIDE DEF b, c, N, r
<1>10. Tree(c, r, N)
  <2>1. \A s \in Sides, y \in N : c[s][y] = a[s][y]
    BY <1>3, <1>9
  <2> QED BY <2>1, <1>5, TreeFrame
<1>11. \A s \in Sides, y \in Nodes \ N : c[s][y] = sp[s][y]
  <2>1. \A y \in Nodes \ N : y \in Linked \ M
    BY <1>3 DEF Linked
  <2> QED BY <2>1, <1>2, <1>5, <1>9
<1>12. spKey = sp.root => r = spKey
  BY DEF t, r
<1>13. ASSUME spKey # sp.root, NEW y \in N
       PROVE  y = r \/ beyondNode(y, r, opp) \/ beyondNode(y, spKey, side)
  <2>1. CASE y \in M
    <3>1. Part(M, r, side) = {}
      <4>1. Tree(t, t[side][r], Part(M, r, side))
        <5>1. Tree(t, r, M)
          BY <1>2 DEF Cut, r
        <5> QED BY <5>1, <1>1, <1>3, TreeSplit
      <4> QED BY <4>1, <1>2, <1>13, TreeRoot
    <3> QED BY <2>1, <3>1, <1>1, <1>3, BeyondOrder DEF Part, opp
  <2>2. CASE y \in H[side]
    BY <2>2, <1>1, <1>2 DEF Cut
  <2>3. CASE y \in H[opp]
    BY <2>3, <1>1, <1>2, <1>3 DEF Cut
  <2> QED BY <2>1, <2>2, <2>3, <1>3
<1>14. spKey \in Int
  BY DEF Cut
<1>15. ASSUME spKey # sp.root PROVE spKey \notin N
  <2> SUFFICES ASSUME spKey \in N PROVE FALSE
    OBVIOUS
  <2>1. beyondNode(spKey, r, side)
    BY <1>2, <1>15
  <2>2. spKey = r \/ beyondNode(spKey, r, opp) \/ beyondNode(spKey, spKey, side)
    BY <1>13, <1>15
  <2>3. r \in Int
    BY <1>3
  <2> QED BY <2>1, <2>2, <2>3, <1>1, <1>14, BeyondOrder
<1>16. r # spKey =>
         \E s \in Sides :
           /\ beyondNode(spKey, r, s)
           /\ \A y \in N : y = r \/ beyondNode(y, r, other(s)) \/ beyondNode(y, spKey, s)
  BY <1>1, <1>2, <1>12, <1>13 DEF opp
<1>17. r \in N
  BY <1>3
<1> QED BY <1>3, <1>6, <1>8, <1>9, <1>10, <1>11, <1>12, <1>14, <1>15, <1>16, <1>17 DEF N

-------------------------------------------------------------------------------
(* What the recursive functions of Trees are on a tree.                     *)

LEMMA NodesFinite == IsFiniteSet(Nodes) /\ Nodes \subseteq Nat
BY NodeAssumption, FS_Interval DEF Nodes

(* Induction over a tree, for a set: it holds all nodes of the tree when it *)
(* holds each one below which it holds all others.                         *)
LEMMA TreeInduction ==
  ASSUME NEW t, NEW x, NEW S, NEW D, TreeBy(t, x, S, D), NEW Good,
         \A y \in S : (\A side \in Sides : t[side][y] \in Good \cup {NULL}) => y \in Good
  PROVE  S \subseteq Good
<1> SUFFICES ASSUME NEW b \in S \ Good PROVE FALSE
  OBVIOUS
<1> DEFINE T == {D[y] : y \in S \ Good}
           O == StrictSubsetOrdering(Nodes)
<1>1. IsWellFoundedOn(O, FiniteSubsetsOf(Nodes))
  BY FS_StrictSubsetOrderingWellFounded
<1>2. T \subseteq FiniteSubsetsOf(Nodes) /\ T # {}
  <2>1. \A y \in S : D[y] \in SUBSET Nodes
    BY DEF TreeBy
  <2>2. \A y \in S : IsFiniteSet(D[y])
    BY <2>1, NodesFinite, FS_Subset
  <2> QED BY <2>1, <2>2 DEF FiniteSubsetsOf
<1>3. PICK d \in T : \A c \in T : <<c, d>> \notin O
  <2> HIDE DEF T, O
  <2> QED BY <1>1, <1>2, WFMin
<1>4. PICK y \in S \ Good : d = D[y]
  OBVIOUS
<1>5. PICK side \in Sides : t[side][y] \notin Good \cup {NULL}
  BY <1>4
<1>6. t[side][y] \in S \ Good
  BY <1>4, <1>5 DEF TreeBy
<1>7. /\ D[t[side][y]] \subseteq D[y] /\ y \in D[y] /\ y \notin D[t[side][y]]
      /\ D[y] \subseteq Nodes
  <2>1. D[y] \subseteq Nodes /\ y \in Int /\ y \in D[y]
    <3>1. D[y] \subseteq S /\ S \subseteq Nodes /\ y \in S
      BY DEF TreeBy
    <3>2. y \in D[y]
      BY <3>1 DEF TreeBy
    <3> QED BY <3>1, <3>2, NodesAreInts
  <2>2. D[t[side][y]] \subseteq D[y] /\ \A z \in D[t[side][y]] : beyondNode(z, y, side)
    BY <1>5 DEF TreeBy, Down
  <2> QED BY <2>1, <2>2, BeyondOrder
<1>8. <<D[t[side][y]], D[y]>> \in O
  BY <1>7 DEF StrictSubsetOrdering
<1> QED BY <1>3, <1>4, <1>6, <1>8

(* The nodes of a tree, and what is not in it.                              *)
InTree(t, S) ==
  /\ t \in SplayRecord /\ Tree(t, t.root, S)
  /\ \A y \in Nodes \ S, side \in Sides : t[side][y] = Freed

LEMMA SubtreeRecursion ==
  ASSUME NEW t, NEW S, InTree(t, S)
  PROVE  /\ subtree(t)[NULL] = {}
         /\ \A x \in S : subtree(t)[x] =
              {x} \cup subtree(t)[t["left"][x]] \cup subtree(t)[t["right"][x]]
<1> DEFINE rhs(f) == [x \in Links |->
              ({x} \ {NULL}) \cup (IF x \in Nodes THEN f[t.left[x]] \cup f[t.right[x]] ELSE {})]
<1>1. PICK D : TreeBy(t, t.root, S, D)
  BY DEF InTree, Tree
<1> DEFINE g == [x \in Links |-> IF x \in S THEN D[x] ELSE IF x = NULL THEN {}
                                 ELSE {x, Freed}]
<1>2. t.left = t["left"] /\ t.right = t["right"] /\ S \subseteq Nodes
      /\ \A x \in Nodes : t["left"][x] \in Links /\ t["right"][x] \in Links
  BY <1>1, RecordLinks DEF InTree, TreeBy, Sides, Linked
<1>3. g = rhs(g)
  <2>1. ASSUME NEW x \in Links PROVE g[x] = rhs(g)[x]
    <3>1. CASE x \in S
      <4>1. \A side \in Sides : t[side][x] \in S \cup {NULL}
        BY <3>1, <1>1 DEF TreeBy
      <4>2. D[x] = {x} \cup Down(D, t["left"][x]) \cup Down(D, t["right"][x])
        BY <3>1, <1>1 DEF TreeBy, Sides, other
      <4>3. \A y \in S \cup {NULL} : g[y] = Down(D, y) /\ y \in Links
        BY <1>2, NodesAreInts DEF Links, Down
      <4>4. rhs(g)[x] = {x} \cup g[t["left"][x]] \cup g[t["right"][x]]
        BY <3>1, <1>2, NodesAreInts
      <4>5. g[t["left"][x]] = Down(D, t["left"][x]) /\ g[t["right"][x]] = Down(D, t["right"][x])
        BY <4>1, <4>3 DEF Sides
      <4>6. g[x] = D[x]
        BY <3>1
      <4> HIDE DEF g, rhs
      <4> QED BY <4>2, <4>4, <4>5, <4>6
    <3>2. CASE x \in Nodes \ S
      <4>1. t["left"][x] = Freed /\ t["right"][x] = Freed
        BY <3>2 DEF InTree, Sides
      <4>2. g[Freed] = {Freed} /\ g[x] = {x, Freed}
        BY <3>2, <1>2, NodesAreInts DEF Links
      <4>3. rhs(g)[x] = {x} \cup g[Freed] \cup g[Freed]
        BY <3>2, <4>1, <1>2, NodesAreInts
      <4> HIDE DEF g, rhs
      <4> QED BY <4>2, <4>3
    <3>3. CASE x \in {NULL, Freed}
      BY <3>3, <1>2, NodesAreInts
    <3> QED BY <3>1, <3>2, <3>3 DEF Links
  <2> QED BY <2>1
<1>4. subtree(t) = rhs(subtree(t))
  <2>1. subtree(t) = CHOOSE f : f = rhs(f)
    BY DEF subtree
  <2>2. \E f : f = rhs(f)
    BY <1>3
  <2> HIDE DEF rhs, g
  <2>3. (CHOOSE f : f = rhs(f)) = rhs(CHOOSE f : f = rhs(f))
    BY <2>2, Zenon
  <2> QED BY <2>1, <2>3
<1> DEFINE F == subtree(t)
<1> HIDE DEF F
<1>5. \A x \in Links : F[x] = ({x} \ {NULL}) \cup
          (IF x \in Nodes THEN F[t.left[x]] \cup F[t.right[x]] ELSE {})
  BY <1>4 DEF F
<1>6. F[NULL] = {}
  BY <1>5, NodesAreInts DEF Links
<1>7. \A x \in S : F[x] = {x} \cup F[t["left"][x]] \cup F[t["right"][x]]
  BY <1>2, <1>5, NodesAreInts DEF Links
<1> QED BY <1>6, <1>7 DEF F

LEMMA SubtreesOf ==
  ASSUME NEW t, NEW S, InTree(t, S)
  PROVE  \E D : /\ TreeBy(t, t.root, S, D)
                /\ \A y \in S \cup {NULL} : subtree(t)[y] = Down(D, y)
<1>1. PICK D : TreeBy(t, t.root, S, D)
  BY DEF InTree, Tree
<1> DEFINE F == subtree(t)
           Good == {y \in S : F[y] = D[y]}
<1>2. F[NULL] = {} /\ \A x \in S : F[x] = {x} \cup F[t["left"][x]] \cup F[t["right"][x]]
  BY SubtreeRecursion
<1> HIDE DEF F
<1>3. ASSUME NEW y \in S, \A side \in Sides : t[side][y] \in Good \cup {NULL}
      PROVE  y \in Good
  <2>1. D[y] = {y} \cup Down(D, t["left"][y]) \cup Down(D, t["right"][y])
    BY <1>1 DEF TreeBy, Sides, other
  <2>2. \A side \in Sides : F[t[side][y]] = Down(D, t[side][y])
    BY <1>2, <1>3 DEF Down
  <2>3. F[t["left"][y]] = Down(D, t["left"][y]) /\ F[t["right"][y]] = Down(D, t["right"][y])
    BY <2>2 DEF Sides
  <2> QED BY <1>2, <2>1, <2>3
<1>4. S \subseteq Good
  <2> HIDE DEF Good
  <2> QED BY <1>1, <1>3, TreeInduction
<1>5. NULL \notin S
  BY <1>1, NodesAreInts DEF TreeBy
<1>6. \A y \in S \cup {NULL} : F[y] = Down(D, y)
  BY <1>2, <1>4, <1>5 DEF Down
<1> QED BY <1>1, <1>6 DEF F

(* A tree holds its nodes, in order.                                       *)
LEMMA HoldsInOrder ==
  ASSUME NEW t, NEW S, InTree(t, S)
  PROVE  subtree(t)[t.root] = S /\ isSearchTree(t)
<1>1. PICK D : /\ TreeBy(t, t.root, S, D)
               /\ \A y \in S \cup {NULL} : subtree(t)[y] = Down(D, y)
  BY SubtreesOf
<1>2. /\ t.root \in S \cup {NULL} /\ (t.root = NULL <=> S = {}) /\ S \subseteq Nodes
      /\ \A y \in S, side \in Sides : t[side][y] \in S \cup {NULL}
  BY TreeRoot DEF InTree
<1>3. subtree(t)[t.root] = S
  BY <1>1, <1>2 DEF TreeBy, Down
<1>4. ASSUME NEW x \in S
      PROVE  /\ \A y \in subtree(t)[t["left"][x]] : y < x
             /\ \A y \in subtree(t)[t["right"][x]] : x < y
  <2>1. \A side \in Sides : \A y \in subtree(t)[t[side][x]] : beyondNode(y, x, side)
    BY <1>1, <1>2 DEF TreeBy
  <2>2. "left" \in Sides /\ "right" \in Sides
    BY DEF Sides
  <2>3. \A side \in Sides : subtree(t)[t[side][x]] \subseteq Int
    BY <1>1, <1>2, NodesAreInts DEF TreeBy, Down
  <2> QED BY <2>1, <2>2, <2>3, <1>2, NodesAreInts DEF beyondNode
<1>5. t.left = t["left"] /\ t.right = t["right"]
  BY RecordLinks DEF InTree
<1> QED BY <1>3, <1>4, <1>5 DEF isSearchTree

(* The leftmost node below a node is the least one.                         *)
isLeast(m, S) == m \in S /\ \A y \in S : m <= y

LEMMA LeftmostIsLeast ==
  ASSUME NEW t, NEW S, InTree(t, S), NEW D, TreeBy(t, t.root, S, D)
  PROVE  \A x \in S : isLeast(outermost(t, "left")[x], D[x])
<1> DEFINE rhs(f) == [x \in Links |-> IF x \notin Nodes THEN x
                                      ELSE IF t["left"][x] = NULL THEN x ELSE f[t["left"][x]]]
           g == [x \in Links |-> IF x \in S THEN CHOOSE m \in D[x] : isLeast(m, D[x])
                                 ELSE IF x \in Nodes THEN Freed ELSE x]
           F == outermost(t, "left")
<1>1. /\ S \subseteq Nodes /\ Freed \in Links /\ Freed \notin Nodes /\ NULL \notin Nodes
      /\ Nodes \subseteq Links /\ Nodes \subseteq Int /\ Freed # NULL
      /\ \A x \in S : D[x] \subseteq S
      /\ \A x \in S : t["left"][x] \in S \cup {NULL}
      /\ \A x \in Nodes \ S : t["left"][x] = Freed
  BY NodesAreInts DEF InTree, TreeBy, Sides, Links
(* Without a left child a node is the least below itself; with one, the    *)
(* least one below the child is.                                           *)
<1>2. ASSUME NEW x \in S
      PROVE  /\ t["left"][x] = NULL => isLeast(x, D[x])
             /\ t["left"][x] # NULL => \A m : isLeast(m, D[t["left"][x]]) => isLeast(m, D[x])
  <2>1. D[x] = {x} \cup Down(D, t["left"][x]) \cup Down(D, t["right"][x])
    BY DEF TreeBy, Sides, other
  <2>2. /\ \A z \in Down(D, t["left"][x]) : z < x
        /\ \A z \in Down(D, t["right"][x]) : x < z
    BY DEF TreeBy, Sides, beyondNode
  <2>3. D[x] \subseteq Int /\ x \in Int
    BY <1>1
  <2>4. t["left"][x] = NULL => isLeast(x, D[x])
    BY <2>1, <2>2, <2>3 DEF isLeast, Down
  <2>5. ASSUME t["left"][x] # NULL, NEW m, isLeast(m, D[t["left"][x]]) PROVE isLeast(m, D[x])
    <3>1. Down(D, t["left"][x]) = D[t["left"][x]]
      BY <2>5 DEF Down
    <3>2. m \in Down(D, t["left"][x]) /\ \A y \in Down(D, t["left"][x]) : m <= y
      BY <2>5, <3>1 DEF isLeast
    <3>3. m < x /\ m \in Int
      BY <3>2, <2>1, <2>2, <2>3
    <3>4. \A z \in Down(D, t["right"][x]) : m <= z
      BY <3>3, <2>1, <2>2, <2>3
    <3> QED BY <3>2, <3>3, <3>4, <2>1, <2>3 DEF isLeast
  <2> QED BY <2>4, <2>5
<1>3. \A x \in S : \E m \in D[x] : isLeast(m, D[x])
  <2> DEFINE Good == {x \in S : \E m \in D[x] : isLeast(m, D[x])}
  <2>1. ASSUME NEW y \in S, \A side \in Sides : t[side][y] \in Good \cup {NULL} PROVE y \in Good
    <3>1. t["left"][y] \in Good \cup {NULL}
      BY <2>1 DEF Sides
    <3>2. \E m : isLeast(m, D[y])
      BY <3>1, <1>2
    <3> QED BY <3>2 DEF isLeast
  <2>2. S \subseteq Good
    <3> HIDE DEF Good
    <3> QED BY <2>1, TreeInduction
  <2> QED BY <2>2
<1>4. \A x \in S : isLeast(g[x], D[x])
  <2>1. \A x \in S : isLeast(CHOOSE m \in D[x] : isLeast(m, D[x]), D[x])
    BY <1>3
  <2> QED BY <1>1, <2>1
<1>5. \A T : \A m, n : T \subseteq Int /\ isLeast(m, T) /\ isLeast(n, T) => m = n
  BY DEF isLeast
<1>6. g = rhs(g)
  <2>1. ASSUME NEW x \in Links PROVE g[x] = rhs(g)[x]
    <3>1. CASE x \in S
      <4>1. rhs(g)[x] = IF t["left"][x] = NULL THEN x ELSE g[t["left"][x]]
        BY <3>1, <1>1
      <4>2. isLeast(rhs(g)[x], D[x])
        <5> HIDE DEF g, rhs
        <5>1. CASE t["left"][x] = NULL
          BY <3>1, <4>1, <5>1, <1>2
        <5>2. CASE t["left"][x] # NULL
          <6>1. isLeast(g[t["left"][x]], D[t["left"][x]])
            BY <3>1, <5>2, <1>1, <1>4
          <6> QED BY <3>1, <4>1, <5>2, <6>1, <1>2
        <5> QED BY <5>1, <5>2
      <4>3. D[x] \subseteq Int
        BY <3>1, <1>1
      <4> HIDE DEF g, rhs
      <4> QED BY <3>1, <4>2, <4>3, <1>4, <1>5
    <3>2. CASE x \in Nodes \ S
      <4>1. g[Freed] = Freed /\ g[x] = Freed
        BY <3>2, <1>1
      <4>2. rhs(g)[x] = g[Freed]
        BY <3>2, <1>1
      <4> HIDE DEF g, rhs
      <4> QED BY <4>1, <4>2
    <3>3. CASE x \notin Nodes
      BY <3>3, <1>1
    <3> QED BY <3>1, <3>2, <3>3
  <2> QED BY <2>1
<1>7. F = rhs(F)
  <2>1. F = CHOOSE f : f = rhs(f)
    BY DEF outermost
  <2>2. \E f : f = rhs(f)
    BY <1>6
  <2> HIDE DEF rhs, g
  <2>3. (CHOOSE f : f = rhs(f)) = rhs(CHOOSE f : f = rhs(f))
    BY <2>2, Zenon
  <2> QED BY <2>1, <2>3
<1> HIDE DEF F, g
<1>8. \A x \in S : F[x] = IF t["left"][x] = NULL THEN x ELSE F[t["left"][x]]
  BY <1>1, <1>7
<1> DEFINE Good == {x \in S : isLeast(F[x], D[x])}
<1>9. ASSUME NEW y \in S, \A side \in Sides : t[side][y] \in Good \cup {NULL} PROVE y \in Good
  <2>1. t["left"][y] \in Good \cup {NULL}
    BY <1>9 DEF Sides
  <2> QED BY <2>1, <1>2, <1>8
<1>10. S \subseteq Good
  <2> HIDE DEF Good
  <2> QED BY <1>9, TreeInduction
<1> QED BY <1>10 DEF F

-------------------------------------------------------------------------------
(* What a call does to the tree before and after it has splayed.            *)

(* A splay begins with nothing beside the tree.                             *)
LEMMA AgainCut ==
  ASSUME NEW t \in SplayRecord, NEW S, Tree(t, t.root, S), t.root # NULL, NEW key \in Int
  PROVE  LET u == [t EXCEPT !.left[Anchor] = NULL, !.right[Anchor] = NULL]
         IN  /\ \E M, H : Cut(u, atAnchor, key, M, H) /\ pieces(M, H) = S
             /\ u \in SplayRecord
             /\ \A s \in Sides, y \in Nodes : u[s][y] = t[s][y]
<1> DEFINE v == [t EXCEPT !.left[Anchor] = NULL]
           u == [v EXCEPT !.right[Anchor] = NULL]
           H == [side \in Sides |-> {}]
<1>1. Anchor \in Linked /\ NULL \in Links /\ Nodes \subseteq Linked /\ Anchor \notin Nodes
  BY NodesAreInts DEF Linked, Links
<1>2. Stored(t, v, "left", Anchor, NULL)
  BY <1>1, NamedStores
<1>3. Stored(v, u, "right", Anchor, NULL)
  <2>1. v \in SplayRecord
    BY <1>2 DEF Stored
  <2> HIDE DEF v
  <2> QED BY <1>1, <2>1, NamedStores
<1>4. u.root = t.root
  BY DEF SplayRecord
<1>5. u \in SplayRecord /\ \A s \in Sides, y \in Nodes : u[s][y] = t[s][y]
  <2> HIDE DEF u, v
  <2> QED BY <1>1, <1>2, <1>3 DEF Stored
<1>6. u = [t EXCEPT !.left[Anchor] = NULL, !.right[Anchor] = NULL]
  OBVIOUS
<1> HIDE DEF u, v
<1>7. S # {} /\ S \subseteq Nodes
  BY TreeRoot
<1>8. Tree(u, u.root, S)
  <2>1. \A s \in Sides, y \in S : u[s][y] = t[s][y]
    BY <1>5, <1>7
  <2> QED BY <2>1, <1>4, TreeFrame
<1>9. Cut(u, atAnchor, key, S, H)
  <2>1. atAnchor \in [Sides -> Linked] /\ \A s \in Sides : atAnchor[s] = Anchor
    BY <1>1 DEF atAnchor
  <2>2. \A s \in Sides : Hung(u, atAnchor[s], other(s), H[s])
    BY <2>1 DEF Hung
  <2> QED BY <2>1, <2>2, <1>5, <1>7, <1>8 DEF Cut
<1>10. pieces(S, H) = S
  BY DEF pieces, Sides
<1> QED BY <1>5, <1>6, <1>9, <1>10

(* The node that is closest to a key in a set, on one of its sides.        *)
Closest(r, key, S) ==
  /\ r \in S
  /\ key \in S => r = key
  /\ r # key =>
       \E side \in Sides :
         /\ beyondNode(key, r, side)
         /\ \A y \in S : y = r \/ beyondNode(y, r, other(side)) \/ beyondNode(y, key, side)

LEMMA ClosestIsNext ==
  ASSUME NEW S, S \subseteq Nodes, NEW r, NEW key \in Int, Closest(r, key, S)
  PROVE  /\ key <= r => nextOf(S, key) = r
         /\ key > r => previousOf(S, key) = r
<1>1. r \in S /\ r \in Int /\ S \subseteq Int /\ 0 \notin S /\ \A y \in S : 0 < y
  BY NodeAssumption DEF Closest, Nodes
<1>2. ASSUME key <= r PROVE nextOf(S, key) = r
  <2>1. \A y \in S : key <= y => r <= y
    BY <1>1, <1>2 DEF Closest, beyondNode, Sides, other
  <2>2. ~\A x \in S : x < key
    BY <1>1, <1>2
  <2>3. \A x \in S : key <= x /\ (\A y \in S : key <= y => x <= y) => x = r
    BY <1>1, <1>2, <2>1
  <2>4. (CHOOSE x \in S : key <= x /\ \A y \in S : key <= y => x <= y) = r
    BY <1>1, <1>2, <2>1, <2>3
  <2> QED BY <2>2, <2>4 DEF nextOf
<1>3. ASSUME key > r PROVE previousOf(S, key) = r
  <2> DEFINE before == {x \in S : x < key} \cup {NULL}
  <2>1. \A y \in S : y < key => y <= r
    BY <1>1, <1>3 DEF Closest, beyondNode, Sides, other
  <2>2. r \in before /\ before \subseteq Int /\ \A y \in before : y <= r
    <3>1. r \in before
      BY <1>1, <1>3
    <3>2. NULL \in Int /\ NULL <= r
      BY <1>1 DEF NULL
    <3>3. \A y \in before : y \in Int /\ y <= r
      BY <1>1, <2>1, <3>2
    <3> QED BY <3>1, <3>3
  <2>3. (CHOOSE x \in before : \A y \in before : y <= x) = r
    <3> HIDE DEF before
    <3>1. \A x \in before : (\A y \in before : y <= x) => x = r
      BY <2>2
    <3> QED BY <2>2, <3>1
  <2> QED BY <2>3 DEF previousOf
<1> QED BY <1>2, <1>3

(* Nothing has changed outside of a set of nodes.                           *)
sameOutside(t, u, S) == \A s \in Sides, y \in Nodes \ S : u[s][y] = t[s][y]

(* SPLAY_INSERT() puts the new node over the root.                          *)
LEMMA InsertedTree ==
  ASSUME NEW t \in SplayRecord, NEW S, Tree(t, t.root, S), NEW key \in Nodes \ S,
         Closest(t.root, key, S)
  PROVE  LET u == inserted(t, key)
         IN  /\ u \in SplayRecord /\ u.root = key /\ Tree(u, key, S \cup {key})
             /\ sameOutside(t, u, S \cup {key})
<1> DEFINE r    == t.root
           side == IF key < r THEN "left" ELSE "right"
           opp  == other(side)
           t1   == [t EXCEPT ![side][key] = t[side][r]]
           t2   == [t1 EXCEPT ![opp][key] = r]
           t3   == [t2 EXCEPT ![side][r] = NULL]
           u    == [t3 EXCEPT !.root = key]
           N    == S \cup {key}
           O    == {r} \cup Part(S, r, opp)
<1>1. side \in Sides /\ opp \in Sides /\ opp # side /\ other(opp) = side
  <2>1. side \in Sides
    BY DEF Sides
  <2> HIDE DEF side
  <2> QED BY <2>1, BeyondOrder
<1>2. u = inserted(t, key)
  BY DEF inserted
<1>3. /\ r \in S /\ r # NULL /\ r # key /\ S \subseteq Nodes /\ S \subseteq Int /\ key \in Int
      /\ Nodes \subseteq Linked /\ NULL \in Links /\ Nodes \subseteq Links
  BY TreeRoot, NodesAreInts DEF Closest, Linked, Links
<1>4. beyondNode(key, r, side)
  <2>1. r \in Int
    BY <1>3
  <2> HIDE DEF r
  <2> QED BY <2>1, <1>3 DEF beyondNode
<1>5. \A y \in S : y = r \/ beyondNode(y, r, opp) \/ beyondNode(y, key, side)
  <2>1. PICK s \in Sides : /\ beyondNode(key, r, s)
                           /\ \A y \in S : y = r \/ beyondNode(y, r, other(s)) \/ beyondNode(y, key, s)
    BY <1>3 DEF Closest
  <2>2. s = side
    BY <2>1, <1>1, <1>3, <1>4, BeyondOrder
  <2> QED BY <2>1, <2>2
<1> HIDE DEF side
<1>6. /\ Tree(t, t[side][r], Part(S, r, side)) /\ Tree(t, t[opp][r], Part(S, r, opp))
      /\ t[side][r] \in Links
  <2> HIDE DEF r, opp
  <2>1. Tree(t, t[side][r], Part(S, r, side)) /\ Tree(t, t[opp][r], Part(S, r, opp))
    <3>1. Tree(t, r, S)
      BY DEF r
    <3> QED BY <3>1, <1>1, <1>3, TreeSplit
  <2>2. t[side][r] \in Links
    BY <1>1, <1>3, RecordLinks
  <2> QED BY <2>1, <2>2
<1>7. Stored(t, t1, side, key, t[side][r])
  <2> HIDE DEF r
  <2> QED BY <1>1, <1>3, <1>6, StoreLinks
<1> HIDE DEF t1
<1>8. Stored(t1, t2, opp, key, r)
  <2>1. t1 \in SplayRecord
    BY <1>7 DEF Stored
  <2> HIDE DEF r, opp
  <2> QED BY <2>1, <1>1, <1>3, StoreLinks
<1> HIDE DEF t2
<1>9. Stored(t2, t3, side, r, NULL)
  <2>1. t2 \in SplayRecord
    BY <1>8 DEF Stored
  <2> HIDE DEF r
  <2> QED BY <2>1, <1>1, <1>3, StoreLinks
<1> HIDE DEF t3
<1>10. u \in SplayRecord /\ u.root = key /\ \A s \in Sides, y \in Linked : u[s][y] = t3[s][y]
  <2>1. t3 \in SplayRecord
    BY <1>9 DEF Stored
  <2> QED BY <2>1, <1>3 DEF SplayRecord, Sides
<1> HIDE DEF u, r, opp
<1>11. /\ u[side][key] = t[side][r] /\ u[opp][key] = r
       /\ u[side][r] = NULL /\ u[opp][r] = t[opp][r]
       /\ \A s \in Sides, y \in Nodes \ {key, r} : u[s][y] = t[s][y]
  <2>1. r \in Linked /\ key \in Linked
    BY <1>3
  <2>2. u[side][key] = t[side][r] /\ u[opp][key] = r
    BY <2>1, <1>1, <1>3, <1>7, <1>8, <1>9, <1>10 DEF Stored
  <2>3. u[side][r] = NULL /\ u[opp][r] = t[opp][r]
    BY <2>1, <1>1, <1>3, <1>7, <1>8, <1>9, <1>10 DEF Stored
  <2>4. \A s \in Sides, y \in Nodes \ {key, r} : u[s][y] = t[s][y]
    BY <1>3, <1>7, <1>8, <1>9, <1>10 DEF Stored
  <2> QED BY <2>2, <2>3, <2>4
<1>12. /\ Part(S, r, side) \subseteq S \ {r} /\ Part(S, r, opp) \subseteq S \ {r}
       /\ S \subseteq Nodes \ {key}
  BY <1>1, <1>3, BeyondOrder DEF Part
<1>13. Tree(u, t[side][r], Part(S, r, side)) /\ Tree(u, t[opp][r], Part(S, r, opp))
  <2>1. \A s \in Sides, y \in Part(S, r, side) : u[s][y] = t[s][y]
    BY <1>11, <1>12
  <2>2. \A s \in Sides, y \in Part(S, r, opp) : u[s][y] = t[s][y]
    BY <1>11, <1>12
  <2>3. Tree(u, t[side][r], Part(S, r, side))
    BY <2>1, <1>6, TreeFrame
  <2>4. Tree(u, t[opp][r], Part(S, r, opp))
    BY <2>2, <1>6, TreeFrame
  <2> QED BY <2>3, <2>4
<1>14. \A s \in Sides : s = side \/ s = opp
  BY <1>1, BeyondOrder
<1>15. Tree(u, r, O)
  <2>1. Part(O, r, opp) = Part(S, r, opp) /\ Part(O, r, side) = {}
    <3>1. ~beyondNode(r, r, side) /\ ~beyondNode(r, r, opp)
      BY <1>1, <1>3, BeyondOrder
    <3>2. \A y \in S : beyondNode(y, r, opp) => ~beyondNode(y, r, side)
      BY <1>1, <1>3, BeyondOrder
    <3> QED BY <3>1, <3>2 DEF Part
  <2>2. \A s \in Sides : Tree(u, u[s][r], Part(O, r, s))
    <3> HIDE DEF O
    <3> QED BY <2>1, <1>11, <1>13, <1>14, EmptyTree
  <2>3. r \in O /\ O \subseteq Nodes
    BY <1>3, <1>12
  <2> HIDE DEF O
  <2> QED BY <2>2, <2>3, TreeJoin
<1>16. Tree(u, key, N)
  <2>1. Part(N, key, opp) = O
    <3>1. ~beyondNode(key, key, opp)
      BY <1>1, <1>3, BeyondOrder
    <3>2. beyondNode(r, key, opp)
      BY <1>1, <1>3, <1>4, BeyondOrder
    <3>3. \A y \in S : beyondNode(y, r, opp) => beyondNode(y, key, opp)
      BY <3>2, <1>1, <1>3, BeyondOrder
    <3>4. \A y \in S : beyondNode(y, key, opp) => y = r \/ beyondNode(y, r, opp)
      BY <1>1, <1>3, <1>5, BeyondOrder
    <3> QED BY <3>1, <3>2, <3>3, <3>4, <1>3 DEF Part
  <2>2. Part(N, key, side) = Part(S, r, side)
    <3>1. ~beyondNode(key, key, side)
      BY <1>1, <1>3, BeyondOrder
    <3>2. \A y \in S : beyondNode(y, key, side) => beyondNode(y, r, side)
      BY <1>1, <1>3, <1>4, BeyondOrder
    <3>3. \A y \in S : beyondNode(y, r, side) => beyondNode(y, key, side)
      BY <1>1, <1>3, <1>5, BeyondOrder
    <3> QED BY <3>1, <3>2, <3>3 DEF Part
  <2>3. \A s \in Sides : Tree(u, u[s][key], Part(N, key, s))
    <3> HIDE DEF O, N
    <3> QED BY <2>1, <2>2, <1>11, <1>13, <1>14, <1>15
  <2>4. key \in N /\ N \subseteq Nodes
    BY <1>3
  <2> HIDE DEF N
  <2> QED BY <2>3, <2>4, TreeJoin
<1>17. sameOutside(t, u, N)
  BY <1>3, <1>11 DEF sameOutside
<1> QED BY <1>2, <1>10, <1>16, <1>17

-------------------------------------------------------------------------------
(* The calls.                                                              *)

(* What a call has answered, and where it has left the node asked for.      *)
Answered(op, key, result, root, S) ==
  /\ key \in S => root = key
  /\ S # {} /\ op # "REMOVE" => root \in {nextOf(S, key), previousOf(S, key)}
  /\ op = "INSERT" => key \in S
  /\ op = "REMOVE" => key \notin S
  /\ op = "FIND" => result = IF key \in S THEN key ELSE NULL
  /\ op = "NEXT" => result = nextOf(S, key + 1)
  /\ op = "MIN_MAX" /\ S # {} =>
       result = IF key = 0 THEN nextOf(S, 0) ELSE previousOf(S, key)

loose(t, S) == \A y \in Nodes \ S, side \in Sides : t[side][y] = Freed

Splaying(N) == \E M, H : Cut(sp, ends, spKey, M, H) /\ pieces(M, H) = N

(* Between two calls the nodes that were put in are a tree; while a call    *)
(* splays they are in three pieces; in the second splay of REMOVE, those   *)
(* behind the removed node are set aside.                                  *)
SplayInv ==
  /\ sp \in SplayRecord /\ kept \subseteq Nodes /\ spOp \in SplayOps
  /\ spKey \in 0 .. NodeCount + 1 /\ spStep \in {"idle", "splay", "splay_left"}
  /\ loose(sp, kept)
  /\ spStep = "idle" => Tree(sp, sp.root, kept) /\ Answered(spOp, spKey, spResult, sp.root, kept)
  /\ spStep = "splay" => mayCall(spOp, spKey) /\ Splaying(kept)
  /\ spStep = "splay_left" =>
       /\ spOp = "REMOVE" /\ spKey \in Nodes \ kept
       /\ Splaying(Part(kept, spKey, "left"))
       /\ Tree(sp, aside, Part(kept, spKey, "right"))

LEMMA SplayInitInv == SplayInit => SplayInv
<1> SUFFICES ASSUME SplayInit PROVE SplayInv
  OBVIOUS
<1>1. sp = [root |-> NULL, left |-> unlinkedNodes, right |-> unlinkedNodes]
      /\ kept = {} /\ spStep = "idle" /\ spOp = "FIND" /\ spKey = 0 /\ spResult = NULL
  BY DEF SplayInit
<1>2. unlinkedNodes \in [Linked -> Links] /\ \A y \in Nodes : unlinkedNodes[y] = Freed
  BY NodesAreInts DEF unlinkedNodes, Linked, Links
<1>3. sp \in SplayRecord /\ sp.root = NULL /\ loose(sp, kept)
  BY <1>1, <1>2 DEF SplayRecord, loose, Sides
<1>4. Tree(sp, sp.root, kept)
  BY <1>1, <1>3, EmptyTree
<1>5. Answered(spOp, spKey, spResult, sp.root, kept)
  BY <1>1 DEF Answered
<1>6. spOp \in SplayOps /\ spKey \in 0 .. NodeCount + 1
  BY <1>1, NodeAssumption DEF SplayOps
<1> QED BY <1>1, <1>3, <1>4, <1>5, <1>6 DEF SplayInv

(* The end of a splay: one tree again, with the closest node at its root.   *)
LEMMA SplayedTree ==
  ASSUME SplayInv, NEW N, Splaying(N), atEnd
  PROVE  /\ splayed \in SplayRecord /\ Tree(splayed, splayed.root, N)
         /\ N \subseteq Nodes /\ splayed.root \in N /\ splayed.root # NULL
         /\ Closest(splayed.root, spKey, N)
         /\ \A s \in Sides, y \in Nodes \ N : splayed[s][y] = sp[s][y]
<1>1. PICK M, H : Cut(sp, ends, spKey, M, H) /\ pieces(M, H) = N
  BY DEF Splaying
<1>2. /\ splayed \in SplayRecord /\ splayed.root \in N /\ N \subseteq Nodes
      /\ Tree(splayed, splayed.root, N)
      /\ \A s \in Sides, y \in Nodes \ N : splayed[s][y] = sp[s][y]
      /\ spKey \in N => splayed.root = spKey
      /\ splayed.root # spKey =>
           \E side \in Sides :
             /\ beyondNode(spKey, splayed.root, side)
             /\ \A y \in N : \/ y = splayed.root
                             \/ beyondNode(y, splayed.root, other(side))
                             \/ beyondNode(y, spKey, side)
  BY <1>1, SplayedCut
<1> QED BY <1>2, NodesAreInts DEF Closest

(* A call has returned with a tree and its answer.                         *)
LEMMA Returned ==
  ASSUME SplayInv, NEW t, NEW S, NEW x, SplayReturn(t, S, x),
         t \in SplayRecord, S \subseteq Nodes, loose(t, S), Tree(t, t.root, S),
         spOp' \in SplayOps, spKey' \in 0 .. NodeCount + 1,
         Answered(spOp', spKey', x, t.root, S)
  PROVE  SplayInv'
BY DEF SplayReturn, SplayInv

LEMMA ClosestAnswers ==
  ASSUME NEW S, S \subseteq Nodes, NEW r, NEW key \in Int, Closest(r, key, S)
  PROVE  /\ key \in S => r = key
         /\ r \in {nextOf(S, key), previousOf(S, key)}
<1>1. r \in Int /\ (key \in S => r = key)
  BY NodesAreInts DEF Closest
<1>2. key <= r \/ key > r
  BY <1>1
<1> QED BY <1>1, <1>2, ClosestIsNext

LEMMA CallEmptyInv ==
  ASSUME SplayInv, NEW op \in SplayOps, NEW key \in 0 .. NodeCount + 1, CallEmpty(op, key)
  PROVE  SplayInv'
<1>1. /\ spStep = "idle" /\ mayCall(op, key) /\ sp.root = NULL /\ spOp' = op /\ spKey' = key
      /\ sp \in SplayRecord /\ loose(sp, kept) /\ Tree(sp, sp.root, kept)
  BY DEF CallEmpty, SplayInv
<1>2. kept = {}
  BY <1>1, TreeRoot
<1>3. CASE op = "INSERT"
  <2> DEFINE t1 == [sp EXCEPT !.left[key] = NULL]
             t2 == [t1 EXCEPT !.right[key] = NULL]
             t  == [t2 EXCEPT !.root = key]
  <2>1. SplayReturn(t, {key}, NULL)
    BY <1>3 DEF CallEmpty
  <2>2. key \in Nodes /\ key \in Linked /\ NULL \in Links /\ Nodes \subseteq Linked /\ key \in Int
    BY <1>1, <1>3, NodesAreInts DEF mayCall, Linked, Links
  <2>3. Stored(sp, t1, "left", key, NULL)
    BY <1>1, <2>2, NamedStores
  <2>4. Stored(t1, t2, "right", key, NULL)
    <3>1. t1 \in SplayRecord
      BY <2>3 DEF Stored
    <3> HIDE DEF t1
    <3> QED BY <2>2, <3>1, NamedStores
  <2>5. t \in SplayRecord /\ t.root = key /\ \A s \in Sides, y \in Linked : t[s][y] = t2[s][y]
    <3>1. t2 \in SplayRecord
      BY <2>4 DEF Stored
    <3> HIDE DEF t2
    <3> QED BY <2>2, <3>1 DEF SplayRecord, Sides
  <2> HIDE DEF t, t1, t2
  <2>6. /\ \A s \in Sides : t[s][key] = NULL
        /\ \A s \in Sides, y \in Nodes \ {key} : t[s][y] = sp[s][y]
    <3>1. t["left"][key] = NULL /\ t["right"][key] = NULL
      <4>1. "left" \in Sides /\ "right" \in Sides /\ "left" # "right"
        BY DEF Sides
      <4>2. t1["left"][key] = NULL /\ t2["right"][key] = NULL
        BY <2>3, <2>4 DEF Stored
      <4>3. t2["left"][key] = t1["left"][key]
        BY <4>1, <2>2, <2>4 DEF Stored
      <4> QED BY <4>1, <4>2, <4>3, <2>2, <2>5
    <3>2. ASSUME NEW s \in Sides, NEW y \in Nodes \ {key} PROVE t[s][y] = sp[s][y]
      <4>1. y \in Linked /\ y # key
        BY <2>2
      <4>2. t1[s][y] = sp[s][y] /\ t2[s][y] = t1[s][y]
        BY <4>1, <2>3, <2>4 DEF Stored
      <4> QED BY <4>1, <4>2, <2>5
    <3> QED BY <3>1, <3>2 DEF Sides
  <2>7. loose(t, {key})
    BY <1>1, <1>2, <2>6 DEF loose
  <2>8. Tree(t, key, {key})
    <3>1. \A s \in Sides : Part({key}, key, s) = {}
      BY <2>2, BeyondOrder DEF Part
    <3>2. \A s \in Sides : Tree(t, t[s][key], Part({key}, key, s))
      BY <2>6, <3>1, EmptyTree
    <3> QED BY <2>2, <3>2, TreeJoin
  <2>9. Closest(key, key, {key})
    BY DEF Closest
  <2>10. Answered(op, key, NULL, key, {key})
    <3>1. key \in {nextOf({key}, key), previousOf({key}, key)}
      BY <2>2, <2>9, ClosestAnswers
    <3> QED BY <3>1, <1>3 DEF Answered
  <2> QED BY <1>1, <2>1, <2>2, <2>5, <2>7, <2>8, <2>10, Returned
<1>4. CASE op # "INSERT"
  <2>1. SplayReturn(sp, kept, NULL)
    BY <1>4 DEF CallEmpty
  <2>2. Answered(op, key, NULL, sp.root, kept)
    BY <1>1, <1>2, <1>4 DEF Answered, mayCall
  <2> QED BY <1>1, <1>2, <2>1, <2>2, Returned
<1> QED BY <1>3, <1>4

LEMMA CallSplayInv ==
  ASSUME SplayInv, NEW op \in SplayOps, NEW key \in 0 .. NodeCount + 1, CallSplay(op, key)
  PROVE  SplayInv'
<1> DEFINE u == [sp EXCEPT !.left[Anchor] = NULL, !.right[Anchor] = NULL]
<1>1. /\ mayCall(op, key) /\ sp.root # NULL /\ spOp' = op /\ spKey' = key
      /\ sp \in SplayRecord /\ loose(sp, kept) /\ Tree(sp, sp.root, kept) /\ kept \subseteq Nodes
      /\ sp' = u /\ spStep' = "splay" /\ ends' = atAnchor /\ kept' = kept
  BY DEF CallSplay, SplayInv, SplayAgain
<1>2. /\ \E M, H : Cut(u, atAnchor, key, M, H) /\ pieces(M, H) = kept
      /\ u \in SplayRecord /\ \A s \in Sides, y \in Nodes : u[s][y] = sp[s][y]
  <2>1. key \in Int
    OBVIOUS
  <2> QED BY <1>1, <2>1, AgainCut
<1> HIDE DEF u
<1>3. Splaying(kept)'
  BY <1>1, <1>2 DEF Splaying
<1>4. loose(u, kept)
  BY <1>1, <1>2 DEF loose
<1>5. mayCall(op, key)'
  BY <1>1 DEF mayCall
<1> QED BY <1>1, <1>2, <1>3, <1>4, <1>5 DEF SplayInv

LEMMA SplayTurnInv ==
  ASSUME SplayInv, SplayTurn
  PROVE  SplayInv'
<1>1. kept' = kept /\ spStep' = spStep /\ spOp' = spOp /\ spKey' = spKey /\ aside' = aside
      /\ spStep # "idle"
  BY DEF SplayTurn
<1>2. ASSUME NEW N, Splaying(N)
      PROVE  /\ Splaying(N)' /\ sp' \in SplayRecord
             /\ \A s \in Sides, y \in Nodes \ N : sp'[s][y] = sp[s][y]
  <2>1. PICK M, H : Cut(sp, ends, spKey, M, H) /\ pieces(M, H) = N
    BY <1>2 DEF Splaying
  <2>2. /\ \E M1, H1 : Cut(sp', ends', spKey, M1, H1) /\ pieces(M1, H1) = pieces(M, H)
        /\ \A s \in Sides, y \in Nodes \ pieces(M, H) : sp'[s][y] = sp[s][y]
    BY <2>1, TurnCut
  <2>3. sp' \in SplayRecord
    BY <2>2 DEF Cut
  <2>4. \E M1, H1 : Cut(sp', ends', spKey', M1, H1) /\ pieces(M1, H1) = N
    BY <1>1, <2>1, <2>2
  <2> QED BY <2>1, <2>2, <2>3, <2>4 DEF Splaying
<1>3. CASE spStep = "splay"
  <2>1. Splaying(kept) /\ mayCall(spOp, spKey) /\ loose(sp, kept)
    BY <1>3 DEF SplayInv
  <2>2. Splaying(kept)' /\ sp' \in SplayRecord /\ loose(sp', kept)
    <3>1. Splaying(kept)'
      BY <1>1, <1>2, <2>1 DEF Splaying
    <3> QED BY <3>1, <1>2, <2>1 DEF loose
  <2>3. mayCall(spOp, spKey)'
    BY <1>1, <2>1 DEF mayCall
  <2> QED BY <1>1, <1>3, <2>2, <2>3 DEF SplayInv
<1>4. CASE spStep = "splay_left"
  <2> DEFINE N == Part(kept, spKey, "left")
             A == Part(kept, spKey, "right")
  <2>1. Splaying(N) /\ loose(sp, kept) /\ Tree(sp, aside, A) /\ kept \subseteq Nodes
        /\ spKey \in Int
    BY <1>4 DEF SplayInv
  <2>2. A \subseteq Nodes \ N /\ N \subseteq kept
    <3>1. \A y \in kept : y \in Nodes /\ ~(beyondNode(y, spKey, "left") /\ beyondNode(y, spKey, "right"))
      BY <2>1, NodesAreInts DEF beyondNode
    <3> QED BY <3>1 DEF Part
  <2> HIDE DEF N, A
  <2>3. /\ sp' \in SplayRecord /\ \A s \in Sides, y \in Nodes \ N : sp'[s][y] = sp[s][y]
        /\ \E M, H : Cut(sp', ends', spKey', M, H) /\ pieces(M, H) = N
    BY <1>2, <2>1 DEF Splaying
  <2>4. loose(sp', kept)
    BY <2>1, <2>2, <2>3 DEF loose
  <2>5. Tree(sp', aside, A)
    <3>1. \A s \in Sides, y \in A : sp'[s][y] = sp[s][y]
      BY <2>2, <2>3
    <3> QED BY <2>1, <3>1, TreeFrame
  <2>6. Splaying(Part(kept, spKey, "left"))'
    BY <1>1, <2>3 DEF Splaying, N
  <2> QED BY <1>1, <1>4, <2>3, <2>4, <2>5, <2>6 DEF SplayInv, A
<1> QED BY <1>1, <1>3, <1>4 DEF SplayInv

LEMMA SplayedInsertInv ==
  ASSUME SplayInv, SplayedInsert
  PROVE  SplayInv'
<1>1. /\ spStep = "splay" /\ atEnd /\ spOp = "INSERT" /\ spOp' = spOp /\ spKey' = spKey
      /\ Splaying(kept) /\ mayCall(spOp, spKey) /\ loose(sp, kept) /\ kept \subseteq Nodes
      /\ spOp \in SplayOps /\ spKey \in 0 .. NodeCount + 1
  BY DEF SplayedInsert, SplayInv
<1>2. /\ splayed \in SplayRecord /\ Tree(splayed, splayed.root, kept)
      /\ Closest(splayed.root, spKey, kept)
      /\ \A s \in Sides, y \in Nodes \ kept : splayed[s][y] = sp[s][y]
  BY <1>1, SplayedTree
<1>3. spKey \in Nodes /\ spKey \in Int
  BY <1>1, NodesAreInts DEF mayCall
<1>4. CASE splayed.root = spKey
  <2>1. SplayReturn(splayed, kept, spKey)
    BY <1>4 DEF SplayedInsert
  <2>2. loose(splayed, kept)
    BY <1>1, <1>2 DEF loose
  <2>3. spKey \in kept
    BY <1>2, <1>4 DEF Closest
  <2>4. Answered(spOp, spKey, spKey, splayed.root, kept)
    <3>1. splayed.root \in {nextOf(kept, spKey), previousOf(kept, spKey)}
      BY <1>1, <1>2, <1>3, ClosestAnswers
    <3> QED BY <3>1, <2>3, <1>1, <1>4 DEF Answered
  <2> QED BY <1>1, <1>2, <2>1, <2>2, <2>4, Returned
<1>5. CASE splayed.root # spKey
  <2> DEFINE u == inserted(splayed, spKey)
             N == kept \cup {spKey}
  <2>1. SplayReturn(u, N, NULL)
    BY <1>5 DEF SplayedInsert
  <2>2. spKey \in Nodes \ kept
    BY <1>2, <1>3, <1>5 DEF Closest
  <2>3. /\ u \in SplayRecord /\ u.root = spKey /\ Tree(u, u.root, N)
        /\ \A s \in Sides, y \in Nodes \ N : u[s][y] = splayed[s][y]
    <3>1. /\ u \in SplayRecord /\ u.root = spKey /\ Tree(u, spKey, N)
          /\ sameOutside(splayed, u, N)
      BY <1>2, <2>2, InsertedTree
    <3> HIDE DEF u, N
    <3> QED BY <3>1 DEF sameOutside
  <2> HIDE DEF u
  <2>4. loose(u, N) /\ N \subseteq Nodes
    <3>1. N \subseteq Nodes /\ kept \subseteq N
      BY <1>1, <1>3
    <3> HIDE DEF N
    <3> QED BY <1>1, <1>2, <2>3, <3>1 DEF loose
  <2>5. Closest(spKey, spKey, N)
    BY DEF Closest
  <2>6. spKey \in {nextOf(N, spKey), previousOf(N, spKey)}
    BY <1>3, <2>4, <2>5, ClosestAnswers
  <2>7. Answered(spOp, spKey, NULL, u.root, N)
    BY <1>1, <2>3, <2>6 DEF Answered
  <2> QED BY <1>1, <2>1, <2>3, <2>4, <2>7, Returned
<1> QED BY <1>4, <1>5

LEMMA RemovedLinks ==
  ASSUME NEW t \in SplayRecord, NEW x \in Nodes
  PROVE  /\ outOfSplay(t, x) \in SplayRecord /\ outOfSplay(t, x).root = t.root
         /\ \A s \in Sides : outOfSplay(t, x)[s][x] = Freed
         /\ \A s \in Sides, y \in Nodes \ {x} : outOfSplay(t, x)[s][y] = t[s][y]
<1> DEFINE t1 == [t EXCEPT !.left[x] = Freed]
           u  == [t1 EXCEPT !.right[x] = Freed]
<1>1. u = outOfSplay(t, x) /\ u.root = t.root
  BY DEF outOfSplay, SplayRecord
<1>2. x \in Linked /\ Freed \in Links /\ Nodes \subseteq Linked
  BY DEF Linked, Links
<1>3. Stored(t, t1, "left", x, Freed)
  BY <1>2, NamedStores
<1>4. Stored(t1, u, "right", x, Freed)
  <2>1. t1 \in SplayRecord
    BY <1>3 DEF Stored
  <2> HIDE DEF t1
  <2> QED BY <1>2, <2>1, NamedStores
<1> HIDE DEF t1, u
<1>5. "left" \in Sides /\ "right" \in Sides /\ "left" # "right"
      /\ \A s \in Sides : s = "left" \/ s = "right"
  BY DEF Sides
<1>6. u["left"][x] = Freed /\ u["right"][x] = Freed
  <2>1. u["left"][x] = t1["left"][x]
    BY <1>2, <1>4, <1>5 DEF Stored
  <2> QED BY <2>1, <1>3, <1>4 DEF Stored
<1>7. ASSUME NEW s \in Sides, NEW y \in Nodes \ {x} PROVE u[s][y] = t[s][y]
  <2>1. y \in Linked /\ y # x
    BY <1>2
  <2>2. t1[s][y] = t[s][y] /\ u[s][y] = t1[s][y]
    BY <2>1, <1>3, <1>4 DEF Stored
  <2> QED BY <2>2
<1>8. u \in SplayRecord
  BY <1>4 DEF Stored
<1> QED BY <1>1, <1>5, <1>6, <1>7, <1>8

LEMMA SplayedRemoveInv ==
  ASSUME SplayInv, SplayedRemove
  PROVE  SplayInv'
<1> DEFINE t == splayed
           x == splayed.root
<1>1. /\ spStep = "splay" /\ atEnd /\ spOp = "REMOVE" /\ spOp' = spOp /\ spKey' = spKey
      /\ Splaying(kept) /\ mayCall(spOp, spKey) /\ loose(sp, kept) /\ kept \subseteq Nodes
      /\ spOp \in SplayOps /\ spKey \in 0 .. NodeCount + 1
  BY DEF SplayedRemove, SplayInv
<1>2. /\ t \in SplayRecord /\ Tree(t, x, kept) /\ x \in kept /\ x # NULL
      /\ Closest(x, spKey, kept)
      /\ \A s \in Sides, y \in Nodes \ kept : t[s][y] = sp[s][y]
  BY <1>1, SplayedTree
<1>3. spKey \in Nodes /\ spKey \in Int /\ x \in Nodes /\ kept \subseteq Int
  BY <1>1, <1>2, NodesAreInts DEF mayCall
<1>4. CASE x # spKey
  <2>1. SplayReturn(t, kept, NULL)
    BY <1>4 DEF SplayedRemove
  <2>2. loose(t, kept)
    BY <1>1, <1>2 DEF loose
  <2>3. Answered(spOp, spKey, NULL, x, kept)
    BY <1>1, <1>2, <1>4 DEF Answered, Closest
  <2> QED BY <1>1, <1>2, <2>1, <2>2, <2>3, Returned
<1>5. CASE x = spKey
  <2> DEFINE L == Part(kept, x, "left")
             R == Part(kept, x, "right")
             N == kept \ {x}
  <2>1. /\ Tree(t, t["left"][x], L) /\ Tree(t, t["right"][x], R)
        /\ t.left = t["left"] /\ t.right = t["right"]
        /\ t["left"][x] \in Nodes \cup {NULL} /\ t["right"][x] \in Nodes \cup {NULL}
    <3> HIDE DEF t, x
    <3>1. "left" \in Sides /\ "right" \in Sides
      BY DEF Sides
    <3>2. Tree(t, t["left"][x], L) /\ Tree(t, t["right"][x], R)
      BY <3>1, <1>2, TreeSplit
    <3>3. t.left = t["left"] /\ t.right = t["right"]
      BY <1>2, RecordLinks
    <3>4. t["left"][x] \in Nodes \cup {NULL} /\ t["right"][x] \in Nodes \cup {NULL}
      <4> HIDE DEF L, R
      <4>1. L \subseteq Nodes /\ t["left"][x] \in L \cup {NULL}
        BY <3>2, TreeRoot
      <4>2. R \subseteq Nodes /\ t["right"][x] \in R \cup {NULL}
        BY <3>2, TreeRoot
      <4> QED BY <4>1, <4>2
    <3> QED BY <3>2, <3>3, <3>4
  <2>2. N = L \cup R /\ L \subseteq N /\ R \subseteq N
    <3>1. x \in Int
      BY <1>2, <1>3
    <3> HIDE DEF x
    <3>2. \A y \in kept : y # x <=> beyondNode(y, x, "left") \/ beyondNode(y, x, "right")
      BY <1>3, <3>1 DEF beyondNode
    <3> QED BY <3>2 DEF Part
  <2>3. \A v \in Nodes \cup {NULL} :
          LET w == [t EXCEPT !.root = v]
              u == outOfSplay(w, x)
          IN  /\ u \in SplayRecord /\ u.root = v
              /\ \A s \in Sides, y \in Nodes \ {x} : u[s][y] = t[s][y]
              /\ loose(u, N)
    <3> TAKE v \in Nodes \cup {NULL}
    <3> DEFINE w == [t EXCEPT !.root = v]
               u == outOfSplay(w, x)
    <3>1. w \in SplayRecord /\ w.root = v /\ \A s \in Sides, y \in Linked : w[s][y] = t[s][y]
      <4> HIDE DEF t
      <4> QED BY <1>2 DEF SplayRecord, Sides
    <3> HIDE DEF w
    <3>2. /\ u \in SplayRecord /\ u.root = v
          /\ \A s \in Sides : u[s][x] = Freed
          /\ \A s \in Sides, y \in Nodes \ {x} : u[s][y] = w[s][y]
      BY <1>3, <3>1, RemovedLinks
    <3>3. \A s \in Sides, y \in Nodes \ {x} : u[s][y] = t[s][y]
      BY <3>1, <3>2 DEF Linked
    <3> HIDE DEF u
    <3>4. loose(u, N)
      BY <1>1, <1>2, <3>2, <3>3 DEF loose
    <3> QED BY <3>2, <3>3, <3>4 DEF u, w
  <2>4. CASE t.left[x] = NULL
    <3> DEFINE w == [t EXCEPT !.root = t.right[x]]
               u == outOfSplay(w, x)
    <3>1. SplayReturn(u, N, x)
      BY <1>5, <2>4 DEF SplayedRemove
    <3>2. /\ u \in SplayRecord /\ u.root = t["right"][x] /\ loose(u, N)
          /\ \A s \in Sides, y \in Nodes \ {x} : u[s][y] = t[s][y]
      BY <2>1, <2>3
    <3> HIDE DEF u
    <3>3. R = N
      <4>1. L = {}
        BY <2>1, <2>4, TreeRoot
      <4> HIDE DEF L, R, N
      <4> QED BY <2>2, <4>1
    <3>4. Tree(u, u.root, N)
      <4>1. \A s \in Sides, y \in N : u[s][y] = t[s][y]
        BY <1>1, <3>2
      <4> HIDE DEF R, N, t, x
      <4> QED BY <4>1, <2>1, <3>2, <3>3, TreeFrame
    <3>5. Answered(spOp, spKey, x, u.root, N)
      BY <1>1, <1>5 DEF Answered
    <3> QED BY <1>1, <3>1, <3>2, <3>4, <3>5, Returned
  <2>5. CASE t.left[x] # NULL
    <3> DEFINE w == [t EXCEPT !.root = t.left[x]]
               u == outOfSplay(w, x)
               v == [u EXCEPT !.left[Anchor] = NULL, !.right[Anchor] = NULL]
    <3>1. SplayAgain(u, "splay_left", t.right[x]) /\ kept' = N
      BY <1>5, <2>5 DEF SplayedRemove
    <3>2. /\ u \in SplayRecord /\ u.root = t["left"][x] /\ loose(u, N)
          /\ \A s \in Sides, y \in Nodes \ {x} : u[s][y] = t[s][y]
      BY <2>1, <2>3
    <3> HIDE DEF u
    <3>3. Tree(u, u.root, L) /\ Tree(u, t["right"][x], R) /\ u.root # NULL
      <4>1. \A s \in Sides, y \in N : u[s][y] = t[s][y]
        BY <1>1, <3>2
      <4> HIDE DEF L, R, N, t, x
      <4>2. Tree(u, t["left"][x], L)
        BY <4>1, <2>1, <2>2, TreeFrame
      <4>3. Tree(u, t["right"][x], R)
        BY <4>1, <2>1, <2>2, TreeFrame
      <4> QED BY <4>2, <4>3, <3>2, <2>1, <2>5
    <3>4. /\ \E M, H : Cut(v, atAnchor, spKey, M, H) /\ pieces(M, H) = L
          /\ v \in SplayRecord
          /\ \A s \in Sides, y \in Nodes : v[s][y] = u[s][y]
      <4> HIDE DEF L
      <4> QED BY <1>3, <3>2, <3>3, AgainCut
    <3>5. /\ sp' = v /\ spStep' = "splay_left" /\ ends' = atAnchor /\ aside' = t["right"][x]
      BY <3>1, <2>1 DEF SplayAgain
    <3> HIDE DEF v
    <3>6. Tree(v, t["right"][x], R)
      <4>1. \A s \in Sides, y \in R : v[s][y] = u[s][y]
        BY <1>1, <2>2, <3>4
      <4> HIDE DEF R, t, x
      <4> QED BY <4>1, <3>3, TreeFrame
    <3>7. Part(N, spKey, "left") = L /\ Part(N, spKey, "right") = R
      BY <1>5, <2>2 DEF Part
    <3>8. loose(v, N)
      BY <3>2, <3>4 DEF loose
    <3>9. Splaying(Part(kept, spKey, "left"))'
      BY <1>1, <3>1, <3>4, <3>5, <3>7 DEF Splaying
    <3>10. spKey \in Nodes \ N /\ N \subseteq Nodes
      BY <1>1, <1>3, <1>5
    <3>11. Tree(sp', aside', Part(kept', spKey', "right"))
      BY <1>1, <3>1, <3>5, <3>6, <3>7
    <3> HIDE DEF N
    <3> QED BY <1>1, <3>1, <3>4, <3>5, <3>8, <3>9, <3>10, <3>11 DEF SplayInv
  <2> QED BY <2>4, <2>5
<1> QED BY <1>4, <1>5

LEMMA SplayedLeftInv ==
  ASSUME SplayInv, SplayedLeft
  PROVE  SplayInv'
<1> DEFINE t == splayed
           r == splayed.root
           L == Part(kept, spKey, "left")
           R == Part(kept, spKey, "right")
           u == [t EXCEPT !.right[r] = aside]
<1>1. /\ spStep = "splay_left" /\ atEnd /\ spOp = "REMOVE" /\ spOp' = spOp /\ spKey' = spKey
      /\ Splaying(L) /\ loose(sp, kept) /\ Tree(sp, aside, R) /\ kept \subseteq Nodes
      /\ spOp \in SplayOps /\ spKey \in 0 .. NodeCount + 1 /\ spKey \in Nodes \ kept
      /\ SplayReturn(u, kept, spKey)
  BY DEF SplayedLeft, SplayInv
<1>2. /\ t \in SplayRecord /\ Tree(t, r, L) /\ r \in L /\ r # NULL
      /\ Closest(r, spKey, L)
      /\ \A s \in Sides, y \in Nodes \ L : t[s][y] = sp[s][y]
  <2> HIDE DEF L
  <2> QED BY <1>1, SplayedTree
<1>3. /\ spKey \in Int /\ kept \subseteq Int /\ L \subseteq kept /\ R \subseteq kept /\ r \in kept
      /\ \A y \in L : y < spKey
      /\ \A y \in R : spKey < y
  BY <1>1, <1>2, NodesAreInts DEF Part, beyondNode
<1>4. kept = L \cup R /\ L \cap R = {}
  <2>1. \A y \in kept : y < spKey \/ y > spKey
    BY <1>1, <1>3
  <2>2. \A y \in kept : ~(y < spKey /\ y > spKey)
    BY <1>3
  <2> QED BY <2>1, <2>2 DEF Part, beyondNode
<1> HIDE DEF t, r, L, R
<1>5. "left" \in Sides /\ "right" \in Sides /\ "left" # "right" /\ other("right") = "left"
      /\ \A s \in Sides : s = "left" \/ s = "right"
  BY DEF Sides, other
(* The root is the last node before the key. *)
<1>6. \A y \in L : y <= r
  <2>1. r < spKey /\ r \in Int
    BY <1>2, <1>3
  <2>2. PICK s \in Sides :
          /\ beyondNode(spKey, r, s)
          /\ \A y \in L : y = r \/ beyondNode(y, r, other(s)) \/ beyondNode(y, spKey, s)
    BY <2>1, <1>2, <1>3 DEF Closest
  <2>3. s = "right"
    BY <2>1, <2>2, <1>3, <1>5 DEF beyondNode
  <2>4. \A y \in L : y = r \/ y < r \/ y > spKey
    BY <2>2, <2>3, <1>5 DEF beyondNode
  <2> QED BY <2>1, <2>4, <1>3
<1>7. /\ Part(kept, r, "left") = Part(L, r, "left")
      /\ Part(kept, r, "right") = R
  <2>1. r \in Int /\ r < spKey
    BY <1>2, <1>3
  <2>2. \A y \in R : y > r /\ ~(y < r)
    BY <2>1, <1>3
  <2>3. \A y \in L : ~(y > r)
    BY <2>1, <1>3, <1>6
  <2> QED BY <2>2, <2>3, <1>4 DEF Part, beyondNode
<1>8. Stored(t, u, "right", r, aside)
  <2>1. r \in Linked
    BY <1>1, <1>3 DEF Linked
  <2>2. aside \in Links
    BY <1>1, TreeRoot DEF Links
  <2> QED BY <2>1, <2>2, <1>2, NamedStores
<1>9. u.root = r
  BY <1>2 DEF SplayRecord, r, t
<1> HIDE DEF u
<1>10. u \in SplayRecord /\ u["right"][r] = aside
       /\ \A s \in Sides, y \in Nodes : s = "left" \/ y # r => u[s][y] = t[s][y]
  <2>1. Nodes \subseteq Linked
    BY DEF Linked
  <2> QED BY <2>1, <1>5, <1>8 DEF Stored
<1>11. Tree(u, r, kept)
  <2>1. Tree(t, t["left"][r], Part(L, r, "left")) /\ Part(L, r, "left") \subseteq kept \ {r}
    <3>1. Tree(t, t["left"][r], Part(L, r, "left"))
      BY <1>2, <1>5, TreeSplit
    <3>2. ~beyondNode(r, r, "left")
      BY <1>3 DEF beyondNode
    <3> QED BY <3>1, <3>2, <1>3 DEF Part
  <2>2. Tree(u, u["left"][r], Part(kept, r, "left"))
    <3>1. \A s \in Sides, y \in Part(L, r, "left") : u[s][y] = t[s][y]
      BY <2>1, <1>1, <1>10
    <3>2. u["left"][r] = t["left"][r]
      BY <1>1, <1>3, <1>5, <1>10
    <3>3. Tree(u, t["left"][r], Part(L, r, "left"))
      BY <2>1, <3>1, TreeFrame
    <3> QED BY <3>2, <3>3, <1>7
  <2>3. Tree(u, u["right"][r], Part(kept, r, "right"))
    <3>1. \A s \in Sides, y \in R : u[s][y] = sp[s][y]
      <4>1. \A y \in R : y # r /\ y \in Nodes \ L
        BY <1>1, <1>2, <1>3, <1>4
      <4> QED BY <4>1, <1>2, <1>10
    <3>2. Tree(u, aside, R)
      BY <3>1, <1>1, TreeFrame
    <3> QED BY <3>2, <1>7, <1>10
  <2>4. \A s \in Sides : Tree(u, u[s][r], Part(kept, r, s))
    BY <2>2, <2>3, <1>5
  <2> QED BY <2>4, <1>1, <1>3, TreeJoin
<1>12. loose(u, kept)
  <2>1. \A y \in Nodes \ kept : y # r /\ y \in Nodes \ L
    BY <1>3
  <2> QED BY <2>1, <1>1, <1>2, <1>10 DEF loose
<1>13. Answered(spOp, spKey, spKey, u.root, kept)
  BY <1>1 DEF Answered
<1> QED BY <1>1, <1>9, <1>10, <1>11, <1>12, <1>13, Returned

(* SPLAY_NEXT(): the leftmost node of the right subtree of the root.        *)
LEMMA NextFound ==
  ASSUME NEW t, NEW S, InTree(t, S), t.root # NULL
  PROVE  nextOf(S, t.root + 1) = IF t["right"][t.root] = NULL THEN NULL
                                 ELSE outermost(t, "left")[t["right"][t.root]]
<1> DEFINE x == t.root
           q == t["right"][t.root]
<1>1. PICK D : TreeBy(t, t.root, S, D)
  BY DEF InTree, Tree
<1>2. /\ S \subseteq Nodes /\ x \in S /\ S \subseteq Int /\ D[x] = S
      /\ q \in S \cup {NULL}
  BY <1>1, NodesAreInts DEF TreeBy, Sides
<1>3. Down(D, q) = {y \in S : y > x}
  <2>1. D[x] = {x} \cup Down(D, t["left"][x]) \cup Down(D, q)
    BY <1>1, <1>2 DEF TreeBy, Sides, other
  <2>2. /\ \A y \in Down(D, t["left"][x]) : y < x
        /\ \A y \in Down(D, q) : y > x
    BY <1>1, <1>2 DEF TreeBy, Sides, beyondNode
  <2> DEFINE A == Down(D, t["left"][x])
             B == Down(D, q)
  <2> HIDE DEF x, q, A, B
  <2>3. S = {x} \cup A \cup B
    BY <2>1, <1>2 DEF A, B
  <2>4. \A y \in S : y > x <=> y \in B
    <3> TAKE y \in S
    <3>1. x \in Int /\ y \in Int
      BY <1>2
    <3>2. y \in A => y < x
      BY <2>2 DEF A
    <3>3. y \in B => y > x
      BY <2>2 DEF B
    <3> QED BY <2>3, <3>1, <3>2, <3>3
  <2> QED BY <2>3, <2>4 DEF B
<1>4. CASE q = NULL
  <2>1. {y \in S : y > x} = {}
    BY <1>3, <1>4 DEF Down
  <2> HIDE DEF x, q
  <2>2. ASSUME NEW y \in S PROVE y < x + 1
    <3>1. ~(y > x)
      BY <2>1, Zenon
    <3>2. y \in Int /\ x \in Int
      BY <1>2
    <3> QED BY <3>1, <3>2
  <2>3. \A y \in S : y < x + 1
    BY <2>2
  <2> QED BY <2>3, <1>4 DEF nextOf, x, q
<1>5. CASE q # NULL
  <2> DEFINE m == outermost(t, "left")[q]
  <2>1. isLeast(m, D[q])
    BY <1>1, <1>2, <1>5, LeftmostIsLeast
  <2> HIDE DEF m, x, q
  <2>2. m \in S /\ m > x /\ \A y \in S : y > x => m <= y
    BY <2>1, <1>3, <1>5 DEF isLeast, Down
  <2>3. ~\A y \in S : y < x + 1
    BY <2>2, <1>2
  <2>4. /\ x + 1 <= m /\ \A y \in S : x + 1 <= y => m <= y
        /\ \A z \in S : x + 1 <= z /\ (\A y \in S : x + 1 <= y => z <= y) => z = m
    BY <2>2, <1>2
  <2>5. (CHOOSE z \in S : x + 1 <= z /\ \A y \in S : x + 1 <= y => z <= y) = m
    BY <2>2, <2>4
  <2>6. nextOf(S, x + 1) = m
    BY <2>3, <2>5 DEF nextOf
  <2> QED BY <2>6, <1>5 DEF x, q, m
<1> QED BY <1>4, <1>5

LEMMA SplayedSearchInv ==
  ASSUME SplayInv, SplayedSearch
  PROVE  SplayInv'
<1> DEFINE t == splayed
           r == splayed.root
           x == CASE spOp = "FIND"    -> IF t.root = spKey THEN spKey ELSE NULL
                  [] spOp = "NEXT"    -> IF t.right[spKey] = NULL THEN NULL
                                         ELSE outermost(t, "left")[t.right[spKey]]
                  [] spOp = "MIN_MAX" -> t.root
<1>1. /\ spStep = "splay" /\ atEnd /\ spOp \in {"FIND", "NEXT", "MIN_MAX"}
      /\ spOp' = spOp /\ spKey' = spKey
      /\ Splaying(kept) /\ mayCall(spOp, spKey) /\ loose(sp, kept) /\ kept \subseteq Nodes
      /\ spOp \in SplayOps /\ spKey \in 0 .. NodeCount + 1
      /\ SplayReturn(t, kept, x)
  BY DEF SplayedSearch, SplayInv
<1>2. /\ t \in SplayRecord /\ Tree(t, r, kept) /\ r \in kept /\ r # NULL
      /\ Closest(r, spKey, kept)
      /\ \A s \in Sides, y \in Nodes \ kept : t[s][y] = sp[s][y]
  BY <1>1, SplayedTree
<1>3. loose(t, kept)
  BY <1>1, <1>2 DEF loose
<1>4. InTree(t, kept)
  BY <1>2, <1>3 DEF InTree, loose
<1>5. spKey \in Int /\ r \in Int /\ r \in Nodes /\ t.right = t["right"]
  BY <1>1, <1>2, NodesAreInts, RecordLinks
<1>6. /\ spKey \in kept => r = spKey
      /\ r \in {nextOf(kept, spKey), previousOf(kept, spKey)}
      /\ spKey <= r => nextOf(kept, spKey) = r
      /\ spKey > r => previousOf(kept, spKey) = r
  BY <1>1, <1>2, <1>5, ClosestAnswers, ClosestIsNext
<1>7. ASSUME spOp = "FIND" PROVE x = IF spKey \in kept THEN spKey ELSE NULL
  BY <1>2, <1>6, <1>7
<1>8. ASSUME spOp = "NEXT" PROVE x = nextOf(kept, spKey + 1)
  <2>1. spKey \in kept
    BY <1>1, <1>8 DEF mayCall
  <2>2. r = spKey
    BY <1>6, <2>1
  <2>3. nextOf(kept, r + 1) = IF t["right"][r] = NULL THEN NULL
                              ELSE outermost(t, "left")[t["right"][r]]
    BY <1>2, <1>4, NextFound
  <2> QED BY <2>2, <2>3, <1>5, <1>8
<1>9. ASSUME spOp = "MIN_MAX"
      PROVE  x = IF spKey = 0 THEN nextOf(kept, 0) ELSE previousOf(kept, spKey)
  <2>1. spKey = 0 \/ spKey = NodeCount + 1
    BY <1>1, <1>9 DEF mayCall
  <2>2. 0 < r /\ r < NodeCount + 1
    BY <1>5, NodeAssumption DEF Nodes
  <2>3. x = r
    BY <1>9
  <2> HIDE DEF x, r
  <2> QED BY <2>1, <2>2, <2>3, <1>5, <1>6
<1>10. Answered(spOp, spKey, x, r, kept)
  <2> HIDE DEF x, r
  <2> QED BY <1>1, <1>6, <1>7, <1>8, <1>9 DEF Answered
<1> HIDE DEF x
<1> QED BY <1>1, <1>2, <1>3, <1>10, Returned

LEMMA SplayInvNext == SplayInv /\ [SplayNext]_spVars => SplayInv'
<1> SUFFICES ASSUME SplayInv, [SplayNext]_spVars PROVE SplayInv'
  OBVIOUS
<1>1. CASE UNCHANGED spVars
  BY <1>1 DEF spVars, SplayInv, Splaying, mayCall
<1>2. ASSUME NEW op \in SplayOps, NEW key \in 0 .. NodeCount + 1,
             CallEmpty(op, key) \/ CallSplay(op, key)
      PROVE  SplayInv'
  BY <1>2, CallEmptyInv, CallSplayInv
<1>3. CASE SplayTurn
  BY <1>3, SplayTurnInv
<1>4. CASE SplayedInsert
  BY <1>4, SplayedInsertInv
<1>5. CASE SplayedRemove
  BY <1>5, SplayedRemoveInv
<1>6. CASE SplayedLeft
  BY <1>6, SplayedLeftInv
<1>7. CASE SplayedSearch
  BY <1>7, SplayedSearchInv
<1> QED BY <1>1, <1>2, <1>3, <1>4, <1>5, <1>6, <1>7 DEF SplayNext

(* The tree of a splay tree holds between two calls what was put into it,  *)
(* in order, and every call returns and leaves at the root what it should  *)
(* (SPLAY_INSERT ... SPLAY_MIN_MAX), for any number of nodes.              *)
THEOREM SplayKeepsOrder == SplaySpec => []SplayTree
<1>1. SplayInv => SplayTree
  <2> SUFFICES ASSUME SplayInv, spStep = "idle" PROVE SplayTree
    BY DEF SplayTree
  <2>1. /\ Tree(sp, sp.root, kept) /\ Answered(spOp, spKey, spResult, sp.root, kept)
        /\ sp \in SplayRecord /\ loose(sp, kept) /\ spOp \in SplayOps
    BY DEF SplayInv
  <2>2. InTree(sp, kept)
    BY <2>1 DEF InTree, loose
  <2>3. subtree(sp)[sp.root] = kept /\ isSearchTree(sp)
    BY <2>2, HoldsInOrder
  <2> QED BY <2>1, <2>3 DEF SplayTree, Answered, SplayOps
<1> QED BY <1>1, SplayInitInv, SplayInvNext, PTL DEF SplaySpec



-------------------------------------------------------------------------------
(* Hash functions.                                                         *)

(* What loads put into a register: byte j of a word at the shift that it   *)
(* has in a word of this machine.                                          *)
Types == {"word", "halves", "octets"}

(* Halves are loaded on little-endian machines only. *)
Fits(type) == type = "halves" => order = "little"

Orders == order \in {"little", "big"}

shiftOf(j) == IF order = "little" THEN 8 * j ELSE 24 - (8 * j)
inWord(j)  == [byte |-> j, shift |-> shiftOf(j)]

LEMMA LoadAt ==
  ASSUME Orders, NEW i \in Nat, NEW w \in Nat, NEW m \in 1 .. 4,
         \/ i = 0 /\ w = 4
         \/ i \in 0 .. 3 /\ w = 1
         \/ order = "little" /\ i \in {0, 2} /\ w = 2
  PROVE  /\ load(i, w, m) = {inWord(j) : j \in {x \in i .. i + w - 1 : x < m}}
         /\ \A j \in Nat : inWord(j) \in load(i, w, m) <=> i <= j /\ j < i + w /\ j < m
<1>1. \A j \in i .. i + w - 1 : shifted(i, w) + native(i, w, j) = shiftOf(j)
  BY DEF shifted, native, shiftOf, Orders
<1>2. load(i, w, m) = {inWord(j) : j \in {x \in i .. i + w - 1 : x < m}}
  BY <1>1 DEF load, inWord
<1>3. \A x, y : inWord(x) = inWord(y) => x = y
  <2> TAKE x, y
  <2>1. inWord(x).byte = x /\ inWord(y).byte = y
    BY DEF inWord
  <2> QED BY <2>1
<1>4. ASSUME NEW j \in Nat
      PROVE  inWord(j) \in load(i, w, m) <=> i <= j /\ j < i + w /\ j < m
  <2>1. inWord(j) \in load(i, w, m) <=> j \in {x \in i .. i + w - 1 : x < m}
    BY <1>2, <1>3
  <2> QED BY <2>1
<1> QED BY <1>2, <1>4

(* Every byte of a word is in one of its loads, and nothing else is.       *)
LEMMA LoadsAre ==
  ASSUME Orders, NEW type \in Types, Fits(type), NEW m \in 1 .. 4
  PROVE  /\ \A l \in loads(type, m) : \A t \in l : \E j \in 0 .. m - 1 : t = inWord(j)
         /\ \A j \in 0 .. m - 1 : \E l \in loads(type, m) :
              /\ inWord(j) \in l
              /\ \A l2 \in loads(type, m) : inWord(j) \in l2 => l2 = l
<1>1. \A i \in Nat, w \in Nat :
        \/ i = 0 /\ w = 4
        \/ i \in 0 .. 3 /\ w = 1
        \/ order = "little" /\ i \in {0, 2} /\ w = 2
        => /\ \A t \in load(i, w, m) : \E j \in 0 .. m - 1 : t = inWord(j)
           /\ \A j \in Nat : inWord(j) \in load(i, w, m) <=> i <= j /\ j < i + w /\ j < m
  <2> SUFFICES ASSUME NEW i \in Nat, NEW w \in Nat,
                      \/ i = 0 /\ w = 4
                      \/ i \in 0 .. 3 /\ w = 1
                      \/ order = "little" /\ i \in {0, 2} /\ w = 2
               PROVE  /\ \A t \in load(i, w, m) : \E j \in 0 .. m - 1 : t = inWord(j)
                      /\ \A j \in Nat : inWord(j) \in load(i, w, m) <=> i <= j /\ j < i + w /\ j < m
    OBVIOUS
  <2>1. /\ load(i, w, m) = {inWord(j) : j \in {x \in i .. i + w - 1 : x < m}}
        /\ \A j \in Nat : inWord(j) \in load(i, w, m) <=> i <= j /\ j < i + w /\ j < m
    BY LoadAt
  <2>2. \A j \in {x \in i .. i + w - 1 : x < m} : j \in 0 .. m - 1
    OBVIOUS
  <2> QED BY <2>1, <2>2
<1>2. CASE type = "word"
  <2>1. loads(type, m) = {load(0, 4, m)}
    BY <1>2 DEF loads, word
  <2> QED BY <1>1, <2>1
<1>3. CASE type = "octets"
  <2>1. loads(type, m) = {load(i, 1, m) : i \in 0 .. m - 1}
    BY <1>3 DEF loads, octets
  <2>2. \A i \in 0 .. m - 1 :
          /\ \A t \in load(i, 1, m) : \E j \in 0 .. m - 1 : t = inWord(j)
          /\ \A j \in 0 .. m - 1 : inWord(j) \in load(i, 1, m) <=> j = i
    <3> TAKE i \in 0 .. m - 1
    <3>1. i \in Nat /\ i \in 0 .. 3 /\ 1 \in Nat
      OBVIOUS
    <3>2. /\ \A t \in load(i, 1, m) : \E j \in 0 .. m - 1 : t = inWord(j)
          /\ \A j \in Nat : inWord(j) \in load(i, 1, m) <=> i <= j /\ j < i + 1 /\ j < m
      BY <1>1, <3>1
    <3>3. \A j \in 0 .. m - 1 : j \in Nat /\ (i <= j /\ j < i + 1 /\ j < m <=> j = i)
      OBVIOUS
    <3> QED BY <3>2, <3>3
  <2> QED BY <2>1, <2>2
<1>4. CASE type = "halves"
  <2>0. order = "little"
    BY <1>4 DEF Fits
  <2>1. CASE m = 1
    <3>1. loads(type, m) = {load(0, 1, m)}
      BY <1>4, <2>1 DEF loads, halves
    <3> QED BY <1>1, <2>1, <3>1
  <2>2. CASE m = 2
    <3>1. loads(type, m) = {load(0, 2, m)}
      BY <1>4, <2>2 DEF loads, halves
    <3> QED BY <1>1, <2>0, <2>2, <3>1
  <2>3. CASE m = 3
    <3>1. loads(type, m) = {load(0, 2, m), load(2, 1, m)}
      BY <1>4, <2>3 DEF loads, halves
    <3>2. /\ \A t \in load(0, 2, m) : \E j \in 0 .. m - 1 : t = inWord(j)
          /\ \A j \in Nat : inWord(j) \in load(0, 2, m) <=> 0 <= j /\ j < 2 /\ j < m
          /\ \A t \in load(2, 1, m) : \E j \in 0 .. m - 1 : t = inWord(j)
          /\ \A j \in Nat : inWord(j) \in load(2, 1, m) <=> 2 <= j /\ j < 3 /\ j < m
      BY <1>1, <2>0
    <3>3. \A j \in 0 .. m - 1 : /\ inWord(j) \in load(0, 2, m) <=> j < 2
                                /\ inWord(j) \in load(2, 1, m) <=> ~(j < 2)
      BY <2>3, <3>2
    <3> QED BY <3>1, <3>2, <3>3
  <2>4. CASE m = 4
    <3>1. loads(type, m) = {load(0, 2, m), load(2, 2, m)}
      BY <1>4, <2>4 DEF loads, halves
    <3>2. /\ \A t \in load(0, 2, m) : \E j \in 0 .. m - 1 : t = inWord(j)
          /\ \A j \in Nat : inWord(j) \in load(0, 2, m) <=> 0 <= j /\ j < 2 /\ j < m
          /\ \A t \in load(2, 2, m) : \E j \in 0 .. m - 1 : t = inWord(j)
          /\ \A j \in Nat : inWord(j) \in load(2, 2, m) <=> 2 <= j /\ j < 4 /\ j < m
      BY <1>1, <2>0
    <3>3. \A j \in 0 .. m - 1 : /\ inWord(j) \in load(0, 2, m) <=> j < 2
                                /\ inWord(j) \in load(2, 2, m) <=> ~(j < 2)
      BY <2>4, <3>2
    <3> QED BY <3>1, <3>2, <3>3
  <2> QED BY <2>1, <2>2, <2>3, <2>4
<1> QED BY <1>2, <1>3, <1>4 DEF Types

(* So a turn adds to each register what lies in the key there.             *)
LEMMA SumsAre ==
  ASSUME Orders, NEW type \in Types, Fits(type),
         NEW r \in Registers, k \in Nat, length \in Nat, k + length = size
  PROVE  sums(type)[r] = wordAt(k + offsetOf(r) + 1)
<1> DEFINE o == offsetOf(r)
           m == IF length >= o + 4 THEN 4 ELSE length - o
           ofKey(t) == [byte |-> k + o + t.byte + 1, shift |-> t.shift]
           first == k + o + 1
           inKey == {[byte |-> j, shift |-> native(first, 4, j)] :
                       j \in {x \in first .. first + 3 : x <= size}}
<1>1. o \in Nat /\ size \in Nat
  BY DEF offsetOf, Registers
<1>2. wordAt(k + offsetOf(r) + 1) = [x \in inKey |-> 1]
  BY DEF wordAt, SetToBag
<1>3. sums(type)[r] = IF m <= 0 THEN EmptyBag
                      ELSE [x \in {ofKey(t) : t \in UNION loads(type, m)} |->
                              Cardinality({l \in loads(type, m) : \E t \in l : x = ofKey(t)})]
  BY DEF sums
<1>4. CASE m <= 0
  <2>1. inKey = {}
    BY <1>1, <1>4
  <2>2. EmptyBag = [x \in {} |-> 1]
    BY DEF EmptyBag, SetToBag
  <2> HIDE DEF inKey, m
  <2> QED BY <1>2, <1>3, <1>4, <2>1, <2>2
<1>5. CASE ~(m <= 0)
  <2>1. m \in 1 .. 4
    BY <1>1, <1>5
  <2>2. \A j \in Int : j \in first .. first + 3 /\ j <= size <=> j - first \in 0 .. m - 1
    BY <1>1, <1>5
  <2>3. \A j \in 0 .. m - 1 : native(first, 4, first + j) = shiftOf(j)
    BY <1>1 DEF native, shiftOf, Orders
  <2> HIDE DEF m
  <2>4. \A j \in 0 .. m - 1 : ofKey(inWord(j)) = [byte |-> first + j, shift |-> shiftOf(j)]
    BY <1>1 DEF inWord
  <2>5. inKey = {ofKey(inWord(j)) : j \in 0 .. m - 1}
    <3>1. ASSUME NEW j \in first .. first + 3, j <= size
          PROVE  \E i \in 0 .. m - 1 : [byte |-> j, shift |-> native(first, 4, j)] = ofKey(inWord(i))
      <4>1. j - first \in 0 .. m - 1 /\ first + (j - first) = j
        BY <1>1, <2>2, <3>1
      <4> HIDE DEF first, ofKey
      <4> QED BY <2>3, <2>4, <4>1
    <3>2. ASSUME NEW i \in 0 .. m - 1
          PROVE  ofKey(inWord(i)) \in inKey
      <4>1. (first + i) - first = i /\ first + i \in Int
        BY <1>1, <2>1
      <4>2. first + i \in first .. first + 3 /\ first + i <= size
        BY <2>2, <4>1
      <4>3. ofKey(inWord(i)) = [byte |-> first + i, shift |-> native(first, 4, first + i)]
        BY <2>3, <2>4
      <4> HIDE DEF first, ofKey
      <4> QED BY <4>2, <4>3
    <3> HIDE DEF first, ofKey
    <3> QED BY <3>1, <3>2
  <2>6. /\ \A l \in loads(type, m) : \A t \in l : \E j \in 0 .. m - 1 : t = inWord(j)
        /\ \A j \in 0 .. m - 1 : \E l \in loads(type, m) :
             /\ inWord(j) \in l
             /\ \A l2 \in loads(type, m) : inWord(j) \in l2 => l2 = l
    BY <2>1, LoadsAre
  <2>7. \A i, j \in 0 .. m - 1 : ofKey(inWord(i)) = ofKey(inWord(j)) => i = j
    <3> TAKE i, j \in 0 .. m - 1
    <3>1. ofKey(inWord(i)).byte = first + i /\ ofKey(inWord(j)).byte = first + j
      <4> HIDE DEF first, ofKey
      <4> QED BY <2>4
    <3> HIDE DEF ofKey
    <3>2. first + i = first + j => i = j
      BY <1>1, <2>1
    <3> HIDE DEF first
    <3> QED BY <3>1, <3>2
  <2> HIDE DEF first, ofKey, inKey
  <2>8. {ofKey(t) : t \in UNION loads(type, m)} = inKey
    BY <2>5, <2>6
  <2>9. ASSUME NEW x \in inKey
        PROVE  Cardinality({l \in loads(type, m) : \E t \in l : x = ofKey(t)}) = 1
    <3>1. PICK j \in 0 .. m - 1 : x = ofKey(inWord(j))
      BY <2>5
    <3>2. PICK l \in loads(type, m) :
            /\ inWord(j) \in l
            /\ \A l2 \in loads(type, m) : inWord(j) \in l2 => l2 = l
      BY <2>6
    <3>3. ASSUME NEW l2 \in loads(type, m), NEW t \in l2, x = ofKey(t)
          PROVE  l2 = l
      <4>1. PICK i \in 0 .. m - 1 : t = inWord(i)
        BY <2>6
      <4>2. i = j
        BY <2>7, <3>1, <3>3, <4>1
      <4> QED BY <3>2, <4>1, <4>2
    <3>4. {l2 \in loads(type, m) : \E t \in l2 : x = ofKey(t)} = {l}
      BY <3>1, <3>2, <3>3
    <3> QED BY <3>4, FS_Singleton
  <2>10. sums(type)[r] = [x \in inKey |->
                            Cardinality({l \in loads(type, m) : \E t \in l : x = ofKey(t)})]
    BY <1>3, <1>5, <2>8, Zenon DEF ofKey
  <2>11. [x \in inKey |-> Cardinality({l \in loads(type, m) : \E t \in l : x = ofKey(t)})]
           = [x \in inKey |-> 1]
    BY <2>9
  <2> QED BY <1>2, <2>10, <2>11
<1> QED BY <1>4, <1>5

-------------------------------------------------------------------------------
(* The blocks so far hold the key up to the pointer.                       *)
BlockAt(b, i) == \A r \in Registers : b[r] = wordAt(12 * (i - 1) + offsetOf(r) + 1)

HashInv ==
  /\ Orders /\ size \in Nat
  /\ blocks \in Seq({blocks[i] : i \in DOMAIN blocks})
  /\ ended \in {"no", "plain", "final"}
  /\ ended = "no" =>
       /\ k \in Nat /\ length \in Nat /\ k + length = size /\ k = 12 * Len(blocks)
       /\ size # 0 => length # 0
       /\ \A i \in DOMAIN blocks : BlockAt(blocks[i], i)
  /\ HashesAgree

LEMMA HashInitInv == HashInit => HashInv
BY DEF HashInit, HashInv, HashesAgree, Orders

LEMMA TurnKeeps ==
  ASSUME HashInv, ended = "no", NEW type \in Types, Fits(type), Turn(type)
  PROVE  HashInv'
<1> DEFINE n == Len(blocks)
           b == sums(type)
           S == {blocks[i] : i \in DOMAIN blocks} \cup {b}
<1>1. /\ Orders /\ size \in Nat /\ k \in Nat /\ length \in Nat /\ k + length = size /\ k = 12 * n
      /\ size # 0 => length # 0
      /\ \A i \in DOMAIN blocks : BlockAt(blocks[i], i)
      /\ blocks \in Seq({blocks[i] : i \in DOMAIN blocks})
  BY DEF HashInv
<1>2. n \in Nat /\ DOMAIN blocks = 1 .. n
  BY <1>1, LenProperties
<1>3. BlockAt(b, n + 1)
  <2> SUFFICES ASSUME NEW r \in Registers
               PROVE  b[r] = wordAt(12 * ((n + 1) - 1) + offsetOf(r) + 1)
    BY DEF BlockAt
  <2>1. b[r] = wordAt(k + offsetOf(r) + 1)
    BY <1>1, SumsAre
  <2>2. 12 * ((n + 1) - 1) = k
    <3> HIDE DEF n
    <3> QED BY <1>1, <1>2
  <2> HIDE DEF b, n
  <2> QED BY <2>1, <2>2
<1>4. /\ order' = order /\ function' = function /\ size' = size
      /\ Orders'
  BY <1>1 DEF Turn, Orders
<1>5. \A x : wordAt(x)' = wordAt(x)
  BY <1>4 DEF wordAt, native
<1>6. ASSUME \A i \in DOMAIN blocks' : BlockAt(blocks'[i], i)
      PROVE  (\A i \in DOMAIN blocks : BlockAt(blocks[i], i))'
  BY <1>5, <1>6 DEF BlockAt
<1>7. CASE blocks' = Append(blocks, b)
  <2>1. blocks \in Seq(S) /\ b \in S
    <3>1. {blocks[i] : i \in DOMAIN blocks} \subseteq S
      OBVIOUS
    <3> HIDE DEF S, b
    <3> QED BY <1>1, <3>1 DEF S
  <2> HIDE DEF S, b
  <2>2. /\ blocks' \in Seq(S) /\ Len(blocks') = n + 1
        /\ \A i \in 1 .. n : blocks'[i] = blocks[i]
        /\ blocks'[n + 1] = b
    BY <1>7, <2>1, AppendProperties
  <2> HIDE DEF n
  <2>3. DOMAIN blocks' = 1 .. n + 1
    BY <2>2, LenProperties
  <2>4. blocks' \in Seq({blocks'[i] : i \in DOMAIN blocks'})
    <3> DEFINE z == n + 1
    <3>1. z \in Nat /\ blocks' \in [1 .. z -> S]
      BY <1>2, <2>2, LenProperties
    <3> HIDE DEF z
    <3>2. blocks' \in [1 .. z -> {blocks'[i] : i \in DOMAIN blocks'}]
      BY <3>1
    <3> QED BY <3>1, <3>2, SeqDef
  <2>5. \A i \in DOMAIN blocks' : BlockAt(blocks'[i], i)
    <3> TAKE i \in DOMAIN blocks'
    <3>1. CASE i \in 1 .. n
      BY <1>1, <1>2, <2>2, <3>1
    <3>2. CASE i = n + 1
      BY <1>3, <2>2, <3>2
    <3> QED BY <1>2, <2>3, <3>1, <3>2
  <2>6. CASE length > 12
    <3>1. /\ k' = k + 12 /\ length' = length - 12 /\ ended' = "no"
      BY <2>6 DEF Turn
    <3>2. /\ k' \in Nat /\ length' \in Nat /\ k' + length' = size /\ k' = 12 * (n + 1)
          /\ length' # 0
      BY <1>1, <1>2, <2>6, <3>1
    <3>3. HashesAgree'
      BY <3>1 DEF HashesAgree
    <3> QED BY <1>1, <1>4, <1>6, <2>2, <2>4, <2>5, <3>1, <3>2, <3>3 DEF HashInv
  <2>7. CASE ~(length > 12)
    <3>1. ended' = IF length = 0 THEN "plain" ELSE "final"
      BY <2>7 DEF Turn
    <3>2. length # 0
      <4>1. length = 0 => blocks' = blocks
        BY <2>7 DEF Turn
      <4>2. length = 0 => FALSE
        <5>1. length = 0 => Len(blocks') = Len(blocks)
          BY <4>1
        <5> QED BY <1>2, <2>2, <5>1 DEF n
      <4> QED BY <4>2
    <3>3. n + 1 = (size + 11) \div 12
      BY <1>1, <1>2, <2>7, <3>2
    <3>4. ended' = "final" /\ size # 0
      BY <1>1, <3>1, <3>2
    <3>5. HashesAgree'
      BY <1>4, <1>6, <2>2, <2>5, <3>3, <3>4 DEF HashesAgree, BlockAt
    <3> QED BY <1>1, <1>4, <2>4, <3>4, <3>5 DEF HashInv
  <2> QED BY <2>6, <2>7
<1>8. CASE blocks' # Append(blocks, b)
  <2>1. ~(length > 12) /\ length = 0 /\ blocks' = blocks /\ ended' = "plain"
    BY <1>8 DEF Turn
  <2>2. n = 0 /\ size = 0
    <3> HIDE DEF n
    <3> QED BY <1>1, <1>2, <2>1
  <2>3. DOMAIN blocks = {}
    <3> HIDE DEF n
    <3> QED BY <1>2, <2>2
  <2>4. 0 = (size + 11) \div 12
    BY <2>2
  <2>5. HashesAgree'
    <3>1. Len(blocks') = (size' + 11) \div 12 /\ DOMAIN blocks' = {}
      BY <1>4, <2>1, <2>2, <2>3, <2>4
    <3> QED BY <1>4, <2>1, <2>2, <3>1 DEF HashesAgree
  <2> QED BY <1>1, <1>4, <2>1, <2>5 DEF HashInv
<1> QED BY <1>7, <1>8

LEMMA HashStep == HashInv /\ [HashNext]_hashVars => HashInv'
<1> SUFFICES ASSUME HashInv, [HashNext]_hashVars PROVE HashInv'
  OBVIOUS
<1>0. Orders
  BY DEF HashInv
<1>1. ASSUME NEW nm, NEW at, NEW bytes \in Nat, HashCall(nm, at, bytes)
      PROVE  HashInv'
  <2>1. /\ ended' = "no" /\ size' = bytes /\ length' = bytes /\ k' = 0 /\ blocks' = << >>
        /\ order' = order
    BY <1>1 DEF HashCall
  <2>2. Len(blocks') = 0 /\ DOMAIN blocks' = {} /\ blocks' \in Seq({blocks'[i] : i \in DOMAIN blocks'})
    BY <2>1
  <2> QED BY <1>0, <1>1, <2>1, <2>2 DEF HashInv, HashesAgree, Orders
<1>2. ASSUME Hash32 PROVE HashInv'
  BY <1>2, TurnKeeps DEF Hash32, Types, Fits
<1>3. ASSUME LittleWords PROVE HashInv'
  BY <1>3, TurnKeeps DEF LittleWords, Running, Types, Fits
<1>4. ASSUME LittleHalves PROVE HashInv'
  BY <1>4, TurnKeeps DEF LittleHalves, Running, Types, Fits
<1>5. ASSUME LittleBytes PROVE HashInv'
  BY <1>5, TurnKeeps DEF LittleBytes, Running, Types, Fits
<1>6. ASSUME BigWords PROVE HashInv'
  BY <1>6, TurnKeeps DEF BigWords, Running, Types, Fits
<1>7. ASSUME BigBytes PROVE HashInv'
  BY <1>7, TurnKeeps DEF BigBytes, Running, Types, Fits
<1>8. ASSUME UNCHANGED hashVars PROVE HashInv'
  <2>1. /\ order' = order /\ function' = function /\ size' = size /\ k' = k /\ length' = length
        /\ blocks' = blocks /\ ended' = ended
    BY <1>8 DEF hashVars
  <2>2. \A x : wordAt(x)' = wordAt(x)
    BY <2>1 DEF wordAt, native
  <2>3. ended = "no" => (\A i \in DOMAIN blocks : BlockAt(blocks[i], i))'
    BY <2>1, <2>2 DEF HashInv, BlockAt
  <2>4. HashesAgree'
    BY <2>1, <2>2 DEF HashInv, HashesAgree
  <2> QED BY <2>1, <2>3, <2>4 DEF HashInv, Orders
<1>9. \A bytes \in 0 .. MaxKey : bytes \in Nat
  BY KeyAssumption
<1> QED BY <1>1, <1>2, <1>3, <1>4, <1>5, <1>6, <1>7, <1>8, <1>9 DEF HashNext

(* Theorem HashedAlike: for keys of any length, wherever they lie and in   *)
(* either byte order, the registers get the same bytes: every byte of the  *)
(* key once, in its place, and none behind it (jenkins_hash.c).            *)
THEOREM HashedAlike == HashSpec => []HashesAgree
<1>1. HashInv => HashesAgree
  BY DEF HashInv
<1> QED BY <1>1, HashInitInv, HashStep, PTL DEF HashSpec

===============================================================================
