--------------------------------- MODULE QueueProofs --------------------------
(***************************************************************************)
(* The lists and queues of queue.h, for any number of elements.            *)
(*                                                                         *)
(* The argument: a list is a chain of different elements that a walk meets *)
(* (Chain, Walk).  An operation changes what leads to a place and from it, *)
(* and the walk over the new sequence is put together from the parts of    *)
(* the old one (InsertWalk, RemoveWalk, ...).  No element is in two lists, *)
(* so that the other list does not notice (OneList).  Each macro, field by *)
(* field, is such an operation (...Stored, ...Keeps).                      *)
(***************************************************************************)
EXTENDS Queues, SequenceTheorems, TLAPS

joined(a, b) == a \o b

-------------------------------------------------------------------------------
(***************************************************************************)
(* The lists, for any number of elements.  A list is a head h and its z    *)
(* elements c[1], ..., c[z]; lk and bk are the two fields, and kd is the   *)
(* kind of list.  An operation at the j-th place changes only what leads   *)
(* to it and from it.                                                      *)
(***************************************************************************)

DoublyKinds == {"LIST", "TAILQ"}
TailedKinds == {"SIMPLEQ", "TAILQ", "STAILQ"}

spot(h, c, i) == IF i = 0 THEN h ELSE c[i]

(* The elements of a list are different.                                   *)
Chain(c, z) ==
  /\ z \in Nat /\ c \in [1 .. z -> Elements]
  /\ \A i, k \in 1 .. z : c[i] = c[k] => i = k

(* A walk through the links meets them in order, and back.                 *)
Walk(kd, lk, bk, h, c, z) ==
  /\ \A i \in 0 .. z : lk[spot(h, c, i)] = IF i = z THEN Null ELSE c[i + 1]
  /\ kd \in DoublyKinds => \A i \in 1 .. z : bk[c[i]] = spot(h, c, i - 1)
  /\ kd \in TailedKinds => bk[h] = spot(h, c, z)

LEMMA Spots ==
  ASSUME NEW h \in Heads, NEW c, NEW z, Chain(c, z)
  PROVE  /\ spot(h, c, 0) = h /\ \A i \in 1 .. z : spot(h, c, i) = c[i]
         /\ \A i \in 1 .. z : c[i] \in Elements /\ c[i] # h /\ c[i] # Null
         /\ \A i, k \in 0 .. z : spot(h, c, i) = spot(h, c, k) => i = k
         /\ h # Null /\ h \notin Elements
<1>1. h \notin Elements /\ Null \notin Elements /\ h # Null
  BY ElementAssumption DEF Heads, Elements, Null
<1>2. z \in Nat /\ \A i \in 1 .. z : c[i] \in Elements
  BY DEF Chain
<1>3. spot(h, c, 0) = h /\ \A i \in 1 .. z : spot(h, c, i) = c[i]
  BY <1>2 DEF spot
<1>4. ASSUME NEW i \in 0 .. z, NEW k \in 0 .. z, spot(h, c, i) = spot(h, c, k)
      PROVE  i = k
  <2>1. CASE i = 0
    BY <1>1, <1>2, <1>3, <1>4, <2>1
  <2>2. CASE k = 0
    BY <1>1, <1>2, <1>3, <1>4, <2>2
  <2>3. CASE i # 0 /\ k # 0
    <3>1. i \in 1 .. z /\ k \in 1 .. z
      BY <1>2, <2>3
    <3> QED BY <1>3, <1>4, <3>1 DEF Chain
  <2> QED BY <2>1, <2>2, <2>3
<1> QED BY <1>1, <1>2, <1>3, <1>4

Fresh(c, z, e) == \A i \in 1 .. z : c[i] # e

(* An element e goes behind the j-th place.                                *)
IsInserted(c, z, j, e, new) ==
  /\ new \in [1 .. z + 1 -> Elements] /\ new[j + 1] = e
  /\ \A i \in 1 .. j : new[i] = c[i]
  /\ \A i \in j + 1 .. z : new[i + 1] = c[i]

LEMMA InsertChain ==
  ASSUME NEW c, NEW z, Chain(c, z), NEW j \in 0 .. z,
         NEW e \in Elements, Fresh(c, z, e), NEW new, IsInserted(c, z, j, e, new)
  PROVE  Chain(new, z + 1)
<1>1. z \in Nat /\ z + 1 \in Nat /\ new \in [1 .. z + 1 -> Elements]
  BY DEF Chain, IsInserted
<1>2. \A i \in 1 .. z + 1 : \/ i \in 1 .. j /\ i \in 1 .. z /\ new[i] = c[i]
                            \/ i = j + 1 /\ new[i] = e
                            \/ i - 1 \in j + 1 .. z /\ i - 1 \in 1 .. z /\ new[i] = c[i - 1]
  <2> TAKE i \in 1 .. z + 1
  <2>1. CASE i \in 1 .. j
    BY <1>1, <2>1 DEF IsInserted
  <2>2. CASE i = j + 1
    BY <2>2 DEF IsInserted
  <2>3. CASE i > j + 1
    <3>1. i - 1 \in j + 1 .. z /\ i - 1 \in 1 .. z /\ (i - 1) + 1 = i
      BY <1>1, <2>3
    <3> QED BY <3>1 DEF IsInserted
  <2> QED BY <1>1, <2>1, <2>2, <2>3
<1>3. ASSUME NEW i \in 1 .. z + 1, NEW k \in 1 .. z + 1, new[i] = new[k], i < k
      PROVE  FALSE
  <2>1. \A x, y \in 1 .. z : c[x] = c[y] => x = y
    BY DEF Chain
  <2>2. CASE i = j + 1
    <3>1. new[i] = e /\ k - 1 \in 1 .. z /\ new[k] = c[k - 1]
      BY <1>1, <1>2, <1>3, <2>2
    <3> QED BY <1>3, <3>1 DEF Fresh
  <2>3. CASE i \in 1 .. j
    <3>1. i \in 1 .. z /\ new[i] = c[i]
      BY <1>1, <1>2, <2>3
    <3>2. CASE k = j + 1
      <4>1. new[k] = e
        BY <1>1, <1>2, <3>2
      <4> QED BY <1>3, <3>1, <4>1 DEF Fresh
    <3>3. CASE k # j + 1
      <4>1. \/ k \in 1 .. z /\ new[k] = c[k]
            \/ k - 1 \in 1 .. z /\ new[k] = c[k - 1] /\ k - 1 >= j + 1
        BY <1>2, <3>3
      <4>2. i # k /\ (k - 1 >= j + 1 => i # k - 1)
        BY <1>1, <1>3, <2>3
      <4> QED BY <1>3, <2>1, <3>1, <4>1, <4>2
    <3> QED BY <3>2, <3>3
  <2>4. CASE i > j + 1
    <3>1. /\ i - 1 \in 1 .. z /\ new[i] = c[i - 1] /\ k - 1 \in 1 .. z /\ new[k] = c[k - 1]
          /\ i - 1 # k - 1
      BY <1>1, <1>2, <1>3, <2>4
    <3> QED BY <1>3, <2>1, <3>1
  <2> QED BY <1>1, <2>2, <2>3, <2>4
<1>4. ASSUME NEW i \in 1 .. z + 1, NEW k \in 1 .. z + 1, new[i] = new[k]
      PROVE  i = k
  <2>1. ~(i < k) /\ ~(k < i)
    BY <1>3, <1>4
  <2> QED BY <1>1, <2>1
<1> QED BY <1>1, <1>4 DEF Chain

(* What it has to store.                                                   *)
InsertStores(kd, lk, bk, lk2, bk2, h, c, z, j, e) ==
  /\ lk2[spot(h, c, j)] = e
  /\ lk2[e] = lk[spot(h, c, j)]
  /\ \A i \in 0 .. z : i # j => lk2[spot(h, c, i)] = lk[spot(h, c, i)]
  /\ kd \in DoublyKinds =>
       /\ bk2[e] = spot(h, c, j)
       /\ j # z => bk2[c[j + 1]] = e
       /\ \A i \in 1 .. z : i # j + 1 => bk2[c[i]] = bk[c[i]]
  /\ kd \in TailedKinds => bk2[h] = IF j = z THEN e ELSE bk[h]

LEMMA InsertWalk ==
  ASSUME NEW kd, NEW lk, NEW bk, NEW h \in Heads,
         NEW c, NEW z, Chain(c, z), Walk(kd, lk, bk, h, c, z),
         NEW j \in 0 .. z, NEW e \in Elements, Fresh(c, z, e),
         NEW new, IsInserted(c, z, j, e, new), NEW lk2, NEW bk2,
         InsertStores(kd, lk, bk, lk2, bk2, h, c, z, j, e)
  PROVE  Walk(kd, lk2, bk2, h, new, z + 1)
<1>0. /\ lk2[spot(h, c, j)] = e /\ lk2[e] = lk[spot(h, c, j)]
      /\ \A i \in 0 .. z : i # j => lk2[spot(h, c, i)] = lk[spot(h, c, i)]
  BY DEF InsertStores
<1>1. /\ z \in Nat /\ spot(h, c, 0) = h /\ \A i \in 1 .. z : spot(h, c, i) = c[i]
  <2>1. z \in Nat
    BY DEF Chain
  <2> QED BY <2>1, Spots
<1>2. /\ spot(h, new, j + 1) = e
      /\ \A i \in 0 .. j : spot(h, new, i) = spot(h, c, i)
      /\ \A i \in j + 1 .. z : spot(h, new, i + 1) = c[i] /\ spot(h, c, i) = c[i] /\ i \in 0 .. z /\ i # j
  BY <1>1 DEF spot, IsInserted
<1>3. \A i \in 0 .. z : lk[spot(h, c, i)] = IF i = z THEN Null ELSE c[i + 1]
  BY DEF Walk
<1>4. ASSUME NEW i \in 0 .. z + 1
      PROVE  lk2[spot(h, new, i)] = IF i = z + 1 THEN Null ELSE new[i + 1]
  <2>1. CASE i = j
    <3>1. i # z + 1 /\ new[i + 1] = e
      BY <1>1, <2>1 DEF IsInserted
    <3> QED BY <1>0, <1>1, <1>2, <2>1, <3>1
  <2>2. CASE i = j + 1
    <3>1. lk2[spot(h, new, i)] = IF j = z THEN Null ELSE c[j + 1]
      BY <1>0, <1>2, <1>3, <2>2
    <3>2. CASE j = z
      BY <2>2, <3>1, <3>2
    <3>3. CASE j # z
      <4>1. j + 1 \in j + 1 .. z /\ i # z + 1
        BY <1>1, <2>2, <3>3
      <4>2. new[(j + 1) + 1] = c[j + 1]
        BY <4>1 DEF IsInserted
      <4> QED BY <2>2, <3>1, <3>3, <4>1, <4>2
    <3> QED BY <3>2, <3>3
  <2>3. CASE i < j
    <3>1. i \in 0 .. j /\ i \in 0 .. z /\ i # z /\ i # z + 1 /\ i + 1 \in 1 .. j /\ i # j
      BY <1>1, <2>3
    <3>2. new[i + 1] = c[i + 1]
      BY <3>1 DEF IsInserted
    <3> QED BY <1>0, <1>2, <1>3, <3>1, <3>2
  <2>4. CASE i > j + 1
    <3> DEFINE k == i - 1
    <3>1. k \in j + 1 .. z /\ i = k + 1 /\ (i = z + 1 <=> k = z) /\ (k # z => k + 1 \in j + 1 .. z)
      BY <1>1, <2>4
    <3> HIDE DEF k
    <3>2. lk2[spot(h, new, i)] = IF k = z THEN Null ELSE c[k + 1]
      BY <1>0, <1>2, <1>3, <3>1
    <3>3. k # z => new[(k + 1) + 1] = c[k + 1]
      BY <3>1 DEF IsInserted
    <3> QED BY <3>1, <3>2, <3>3
  <2> QED BY <1>1, <2>1, <2>2, <2>3, <2>4
<1>5. ASSUME kd \in DoublyKinds, NEW i \in 1 .. z + 1
      PROVE  bk2[new[i]] = spot(h, new, i - 1)
  <2>0. \A k \in 1 .. z : bk[c[k]] = spot(h, c, k - 1)
    BY <1>5 DEF Walk
  <2>9. /\ bk2[e] = spot(h, c, j)
        /\ j # z => bk2[c[j + 1]] = e
        /\ \A k \in 1 .. z : k # j + 1 => bk2[c[k]] = bk[c[k]]
    BY <1>5 DEF InsertStores
  <2>1. CASE i = j + 1
    <3>1. new[i] = e /\ i - 1 = j /\ j \in 0 .. j
      BY <1>1, <2>1 DEF IsInserted
    <3> QED BY <1>2, <2>9, <3>1
  <2>2. CASE i \in 1 .. j
    <3>1. i \in 1 .. z /\ i # j + 1 /\ i - 1 \in 0 .. j /\ new[i] = c[i]
      BY <1>1, <2>2 DEF IsInserted
    <3> QED BY <1>2, <2>9, <2>0, <3>1
  <2>3. CASE i > j + 1
    <3> DEFINE k == i - 1
    <3>1. k \in j + 1 .. z /\ k \in 1 .. z /\ i = k + 1 /\ i - 1 = k
      BY <1>1, <2>3
    <3> HIDE DEF k
    <3>2. new[i] = c[k]
      BY <3>1 DEF IsInserted
    <3>3. CASE k = j + 1
      <4>1. j # z
        BY <3>1, <3>3
      <4> QED BY <1>2, <2>9, <3>1, <3>2, <3>3, <4>1
    <3>4. CASE k # j + 1
      <4>1. k - 1 \in j + 1 .. z /\ (k - 1) + 1 = k
        BY <1>1, <3>1, <3>4
      <4>2. spot(h, new, k) = spot(h, c, k - 1)
        BY <1>2, <4>1
      <4> QED BY <2>9, <2>0, <3>1, <3>2, <3>4, <4>2
    <3> QED BY <3>3, <3>4
  <2> QED BY <1>1, <2>1, <2>2, <2>3
<1>6. ASSUME kd \in TailedKinds PROVE bk2[h] = spot(h, new, z + 1)
  <2>1. CASE j = z
    BY <1>2, <1>6, <2>1 DEF InsertStores
  <2>2. CASE j # z
    <3>1. z \in j + 1 .. z
      BY <1>1, <2>2
    <3>2. bk[h] = spot(h, c, z)
      BY <1>6 DEF Walk
    <3> QED BY <1>2, <1>6, <2>2, <3>1, <3>2 DEF InsertStores
  <2> QED BY <2>1, <2>2
<1> QED BY <1>4, <1>5, <1>6 DEF Walk

(* The element at the j-th place goes. *)
IsRemoved(c, z, j, new) ==
  /\ new \in [1 .. z - 1 -> Elements]
  /\ \A i \in 1 .. j - 1 : new[i] = c[i]
  /\ \A i \in j + 1 .. z : new[i - 1] = c[i]

LEMMA RemoveChain ==
  ASSUME NEW c, NEW z, Chain(c, z), NEW j \in 1 .. z, NEW new, IsRemoved(c, z, j, new)
  PROVE  Chain(new, z - 1)
<1>1. z - 1 \in Nat /\ z \in Nat /\ new \in [1 .. z - 1 -> Elements]
  BY DEF Chain, IsRemoved
<1>2. \A i \in 1 .. z - 1 : \/ i \in 1 .. j - 1 /\ i \in 1 .. z /\ new[i] = c[i]
                            \/ i + 1 \in j + 1 .. z /\ i + 1 \in 1 .. z /\ new[i] = c[i + 1]
  <2> TAKE i \in 1 .. z - 1
  <2>1. CASE i \in 1 .. j - 1
    BY <1>1, <2>1 DEF IsRemoved
  <2>2. CASE i >= j
    <3>1. i + 1 \in j + 1 .. z /\ i + 1 \in 1 .. z /\ (i + 1) - 1 = i
      BY <1>1, <2>2
    <3> QED BY <3>1 DEF IsRemoved
  <2> QED BY <1>1, <2>1, <2>2
<1>3. \A x, y \in 1 .. z : c[x] = c[y] => x = y
  BY DEF Chain
<1>4. ASSUME NEW i \in 1 .. z - 1, NEW k \in 1 .. z - 1, new[i] = new[k], i < k
      PROVE  FALSE
  <2>1. CASE k \in 1 .. j - 1
    <3>1. i \in 1 .. z /\ k \in 1 .. z /\ new[i] = c[i] /\ new[k] = c[k] /\ i # k
      BY <1>1, <1>2, <1>4, <2>1
    <3> QED BY <1>3, <1>4, <3>1
  <2>2. CASE k >= j
    <3>1. k + 1 \in 1 .. z /\ new[k] = c[k + 1]
      BY <1>1, <1>2, <2>2
    <3>2. \/ i \in 1 .. z /\ new[i] = c[i] /\ i # k + 1
          \/ i + 1 \in 1 .. z /\ new[i] = c[i + 1] /\ i + 1 # k + 1
      BY <1>1, <1>2, <1>4
    <3> QED BY <1>3, <1>4, <3>1, <3>2
  <2> QED BY <1>1, <2>1, <2>2
<1>5. ASSUME NEW i \in 1 .. z - 1, NEW k \in 1 .. z - 1, new[i] = new[k]
      PROVE  i = k
  <2>1. ~(i < k) /\ ~(k < i)
    BY <1>4, <1>5
  <2> QED BY <1>1, <2>1
<1> QED BY <1>1, <1>5 DEF Chain

RemoveStores(kd, lk, bk, lk2, bk2, h, c, z, j) ==
  /\ lk2[spot(h, c, j - 1)] = lk[c[j]]
  /\ \A i \in 0 .. z : i # j /\ i # j - 1 => lk2[spot(h, c, i)] = lk[spot(h, c, i)]
  /\ kd \in DoublyKinds =>
       /\ j # z => bk2[c[j + 1]] = spot(h, c, j - 1)
       /\ \A i \in 1 .. z : i # j /\ i # j + 1 => bk2[c[i]] = bk[c[i]]
  /\ kd \in TailedKinds => bk2[h] = IF j = z THEN spot(h, c, j - 1) ELSE bk[h]

LEMMA RemoveWalk ==
  ASSUME NEW kd, NEW lk, NEW bk, NEW h \in Heads,
         NEW c, NEW z, Chain(c, z), Walk(kd, lk, bk, h, c, z),
         NEW j \in 1 .. z, NEW new, IsRemoved(c, z, j, new), NEW lk2, NEW bk2,
         RemoveStores(kd, lk, bk, lk2, bk2, h, c, z, j)
  PROVE  Walk(kd, lk2, bk2, h, new, z - 1)
<1>0. /\ lk2[spot(h, c, j - 1)] = lk[c[j]]
      /\ \A i \in 0 .. z : i # j /\ i # j - 1 => lk2[spot(h, c, i)] = lk[spot(h, c, i)]
  BY DEF RemoveStores
<1>1. /\ z \in Nat /\ z - 1 \in Nat /\ j \in Nat
      /\ spot(h, c, 0) = h /\ \A i \in 1 .. z : spot(h, c, i) = c[i]
  <2>1. z \in Nat
    BY DEF Chain
  <2> QED BY <2>1, Spots
<1>2. /\ \A i \in 0 .. j - 1 : spot(h, new, i) = spot(h, c, i)
      /\ \A i \in j + 1 .. z : spot(h, new, i - 1) = c[i] /\ spot(h, c, i) = c[i] /\ i \in 0 .. z
                                 /\ i # j /\ i # j - 1
  BY <1>1 DEF spot, IsRemoved
<1>3. \A i \in 0 .. z : lk[spot(h, c, i)] = IF i = z THEN Null ELSE c[i + 1]
  BY DEF Walk
<1>4. ASSUME NEW i \in 0 .. z - 1
      PROVE  lk2[spot(h, new, i)] = IF i = z - 1 THEN Null ELSE new[i + 1]
  <2>1. CASE i = j - 1
    <3>1. i \in 0 .. j - 1 /\ j \in 0 .. z /\ lk2[spot(h, new, i)] = IF j = z THEN Null ELSE c[j + 1]
      BY <1>0, <1>1, <1>2, <1>3, <2>1
    <3>2. CASE j = z
      BY <1>1, <2>1, <3>1, <3>2
    <3>3. CASE j # z
      <4>1. j + 1 \in j + 1 .. z /\ i # z - 1 /\ (j + 1) - 1 = j /\ i + 1 = j
        BY <1>1, <2>1, <3>3
      <4>2. new[i + 1] = c[j + 1]
        BY <4>1 DEF IsRemoved
      <4> QED BY <3>1, <3>3, <4>1, <4>2
    <3> QED BY <3>2, <3>3
  <2>2. CASE i < j - 1
    <3>1. i \in 0 .. j - 1 /\ i \in 0 .. z /\ i # z /\ i # z - 1 /\ i + 1 \in 1 .. j - 1 /\ i # j /\ i # j - 1
      BY <1>1, <2>2
    <3>2. new[i + 1] = c[i + 1]
      BY <3>1 DEF IsRemoved
    <3> QED BY <1>0, <1>2, <1>3, <3>1, <3>2
  <2>3. CASE i >= j
    <3> DEFINE k == i + 1
    <3>1. k \in j + 1 .. z /\ i = k - 1 /\ (i = z - 1 <=> k = z) /\ (k # z => k + 1 \in j + 1 .. z)
      BY <1>1, <2>3
    <3>2. (k + 1) - 1 = i + 1
      BY <1>1
    <3> HIDE DEF k
    <3>3. lk2[spot(h, new, i)] = IF k = z THEN Null ELSE c[k + 1]
      BY <1>0, <1>2, <1>3, <3>1
    <3>4. k # z => new[i + 1] = c[k + 1]
      BY <3>1, <3>2 DEF IsRemoved
    <3> QED BY <3>1, <3>3, <3>4
  <2> QED BY <1>1, <2>1, <2>2, <2>3
<1>5. ASSUME kd \in DoublyKinds, NEW i \in 1 .. z - 1
      PROVE  bk2[new[i]] = spot(h, new, i - 1)
  <2>0. \A k \in 1 .. z : bk[c[k]] = spot(h, c, k - 1)
    BY <1>5 DEF Walk
  <2>9. /\ j # z => bk2[c[j + 1]] = spot(h, c, j - 1)
        /\ \A k \in 1 .. z : k # j /\ k # j + 1 => bk2[c[k]] = bk[c[k]]
    BY <1>5 DEF RemoveStores
  <2>1. CASE i = j
    <3>1. j + 1 \in j + 1 .. z /\ j # z /\ (j + 1) - 1 = i /\ i - 1 \in 0 .. j - 1 /\ i - 1 = j - 1
      BY <1>1, <2>1
    <3>2. new[i] = c[j + 1]
      BY <3>1 DEF IsRemoved
    <3> QED BY <1>2, <2>9, <3>1, <3>2
  <2>2. CASE i \in 1 .. j - 1
    <3>1. i \in 1 .. z /\ i # j + 1 /\ i # j /\ i - 1 \in 0 .. j - 1 /\ new[i] = c[i]
      BY <1>1, <2>2 DEF IsRemoved
    <3> QED BY <1>2, <2>9, <2>0, <3>1
  <2>3. CASE i > j
    <3>1. /\ i + 1 \in j + 1 .. z /\ i + 1 \in 1 .. z /\ (i + 1) - 1 = i /\ i + 1 # j /\ i + 1 # j + 1
          /\ i \in j + 1 .. z
      BY <1>1, <2>3
    <3>2. new[i] = c[i + 1]
      BY <3>1 DEF IsRemoved
    <3>3. bk2[new[i]] = c[i]
      BY <1>2, <2>9, <2>0, <3>1, <3>2
    <3> QED BY <1>2, <3>1, <3>3
  <2> QED BY <1>1, <2>1, <2>2, <2>3
<1>6. ASSUME kd \in TailedKinds PROVE bk2[h] = spot(h, new, z - 1)
  <2>1. CASE j = z
    <3>1. z - 1 \in 0 .. j - 1
      BY <1>1, <2>1
    <3> QED BY <1>2, <1>6, <2>1, <3>1 DEF RemoveStores
  <2>2. CASE j # z
    <3>1. z \in j + 1 .. z
      BY <1>1, <2>2
    <3>2. bk[h] = spot(h, c, z)
      BY <1>6 DEF Walk
    <3> QED BY <1>2, <1>6, <2>2, <3>1, <3>2 DEF RemoveStores
  <2> QED BY <2>1, <2>2
<1> QED BY <1>4, <1>5, <1>6 DEF Walk

(* Another element takes the j-th place. *)
LEMMA ReplaceChain ==
  ASSUME NEW c, NEW z, Chain(c, z), NEW j \in 1 .. z,
         NEW e \in Elements, Fresh(c, z, e)
  PROVE  Chain([c EXCEPT ![j] = e], z)
<1>1. z \in Nat /\ c \in [1 .. z -> Elements] /\ \A i, k \in 1 .. z : c[i] = c[k] => i = k
  BY DEF Chain
<1> DEFINE new == [c EXCEPT ![j] = e]
<1>2. new \in [1 .. z -> Elements] /\ \A i \in 1 .. z : new[i] = IF i = j THEN e ELSE c[i]
  BY <1>1
<1> HIDE DEF new
<1>3. \A i, k \in 1 .. z : new[i] = new[k] => i = k
  BY <1>1, <1>2 DEF Fresh
<1>4. Chain(new, z)
  BY <1>1, <1>2, <1>3 DEF Chain
<1> QED BY <1>4 DEF new

ReplaceStores(kd, lk, bk, lk2, bk2, h, c, z, j, e) ==
  /\ lk2[spot(h, c, j - 1)] = e
  /\ lk2[e] = lk[c[j]]
  /\ \A i \in 0 .. z : i # j /\ i # j - 1 => lk2[spot(h, c, i)] = lk[spot(h, c, i)]
  /\ kd \in DoublyKinds =>
       /\ bk2[e] = bk[c[j]]
       /\ j # z => bk2[c[j + 1]] = e
       /\ \A i \in 1 .. z : i # j /\ i # j + 1 => bk2[c[i]] = bk[c[i]]
  /\ kd \in TailedKinds => bk2[h] = IF j = z THEN e ELSE bk[h]

LEMMA ReplaceWalk ==
  ASSUME NEW kd, NEW lk, NEW bk, NEW h \in Heads,
         NEW c, NEW z, Chain(c, z), Walk(kd, lk, bk, h, c, z),
         NEW j \in 1 .. z, NEW e \in Elements, NEW lk2, NEW bk2,
         ReplaceStores(kd, lk, bk, lk2, bk2, h, c, z, j, e)
  PROVE  Walk(kd, lk2, bk2, h, [c EXCEPT ![j] = e], z)
<1>0. /\ lk2[spot(h, c, j - 1)] = e /\ lk2[e] = lk[c[j]]
      /\ \A i \in 0 .. z : i # j /\ i # j - 1 => lk2[spot(h, c, i)] = lk[spot(h, c, i)]
  BY DEF ReplaceStores
<1> DEFINE new == [c EXCEPT ![j] = e]
<1>1. /\ z \in Nat /\ j \in Nat /\ j # 0
      /\ spot(h, c, 0) = h /\ \A i \in 1 .. z : spot(h, c, i) = c[i]
  <2>1. z \in Nat
    BY DEF Chain
  <2> QED BY <2>1, Spots
<1>2. \A i \in 1 .. z : new[i] = IF i = j THEN e ELSE c[i]
  BY DEF Chain
<1> HIDE DEF new
<1>3. \A i \in 0 .. z : spot(h, new, i) = IF i = j THEN e ELSE spot(h, c, i)
  BY <1>1, <1>2 DEF spot
<1>4. \A i \in 0 .. z : lk[spot(h, c, i)] = IF i = z THEN Null ELSE c[i + 1]
  BY DEF Walk
<1>5. ASSUME NEW i \in 0 .. z
      PROVE  lk2[spot(h, new, i)] = IF i = z THEN Null ELSE new[i + 1]
  <2>1. CASE i = j
    <3>1. lk2[spot(h, new, i)] = IF j = z THEN Null ELSE c[j + 1]
      BY <1>0, <1>1, <1>3, <1>4, <2>1
    <3>2. j # z => j + 1 \in 1 .. z /\ j + 1 # j
      BY <1>1
    <3> QED BY <1>2, <2>1, <3>1, <3>2
  <2>2. CASE i = j - 1
    <3>1. i # z /\ i # j /\ i + 1 = j
      BY <1>1, <2>2
    <3> QED BY <1>0, <1>2, <1>3, <2>2, <3>1
  <2>3. CASE i # j /\ i # j - 1
    <3>1. lk2[spot(h, new, i)] = IF i = z THEN Null ELSE c[i + 1]
      BY <1>0, <1>3, <1>4, <2>3
    <3>2. i # z => i + 1 \in 1 .. z /\ i + 1 # j
      BY <1>1, <2>3
    <3> QED BY <1>2, <3>1, <3>2
  <2> QED BY <2>1, <2>2, <2>3
<1>6. ASSUME kd \in DoublyKinds, NEW i \in 1 .. z
      PROVE  bk2[new[i]] = spot(h, new, i - 1)
  <2>0. \A k \in 1 .. z : bk[c[k]] = spot(h, c, k - 1)
    BY <1>6 DEF Walk
  <2>9. /\ bk2[e] = bk[c[j]]
        /\ j # z => bk2[c[j + 1]] = e
        /\ \A k \in 1 .. z : k # j /\ k # j + 1 => bk2[c[k]] = bk[c[k]]
    BY <1>6 DEF ReplaceStores
  <2>1. i - 1 \in 0 .. z
    BY <1>1
  <2>2. CASE i = j
    <3>1. i - 1 # j
      BY <1>1, <2>2
    <3> QED BY <1>2, <1>3, <2>9, <2>0, <2>1, <2>2, <3>1
  <2>3. CASE i = j + 1
    <3>1. i # j /\ i - 1 = j /\ j # z
      BY <1>1, <2>3
    <3> QED BY <1>2, <1>3, <2>9, <2>1, <2>3, <3>1
  <2>4. CASE i # j /\ i # j + 1
    <3>1. i - 1 # j
      BY <1>1, <2>4
    <3> QED BY <1>2, <1>3, <2>9, <2>0, <2>1, <2>4, <3>1
  <2> QED BY <2>2, <2>3, <2>4
<1>7. ASSUME kd \in TailedKinds PROVE bk2[h] = spot(h, new, z)
  <2>1. bk[h] = spot(h, c, z) /\ z \in 0 .. z
    BY <1>1, <1>7 DEF Walk
  <2> QED BY <1>3, <1>7, <2>1 DEF ReplaceStores
<1>8. Walk(kd, lk2, bk2, h, new, z)
  BY <1>5, <1>6, <1>7 DEF Walk
<1> QED BY <1>8 DEF new

(* A list that nothing leads into or out of differently stays.             *)
LEMMA SameWalk ==
  ASSUME NEW kd, NEW lk, NEW bk, NEW h, NEW c, NEW z \in Nat,
         Walk(kd, lk, bk, h, c, z), NEW lk2, NEW bk2,
         \A i \in 0 .. z : lk2[spot(h, c, i)] = lk[spot(h, c, i)],
         \A i \in 1 .. z : bk2[c[i]] = bk[c[i]], bk2[h] = bk[h]
  PROVE  Walk(kd, lk2, bk2, h, c, z)
BY DEF Walk

LEMMA EmptyWalk ==
  ASSUME NEW kd, NEW lk, NEW bk, NEW h, NEW c,
         lk[h] = Null, kd \in TailedKinds => bk[h] = h
  PROVE  Walk(kd, lk, bk, h, c, 0)
BY DEF Walk, spot

(* The elements of a list go behind those of another one.                  *)
IsConcat(c, y, d, z, new) ==
  /\ new \in [1 .. y + z -> Elements]
  /\ \A i \in 1 .. y : new[i] = c[i]
  /\ \A i \in 1 .. z : new[y + i] = d[i]

LEMMA ConcatChain ==
  ASSUME NEW c, NEW y, Chain(c, y), NEW d, NEW z, Chain(d, z),
         \A i \in 1 .. y, k \in 1 .. z : c[i] # d[k], NEW new, IsConcat(c, y, d, z, new)
  PROVE  Chain(new, y + z)
<1>1. /\ y \in Nat /\ z \in Nat /\ y + z \in Nat /\ new \in [1 .. y + z -> Elements]
      /\ \A i, k \in 1 .. y : c[i] = c[k] => i = k
      /\ \A i, k \in 1 .. z : d[i] = d[k] => i = k
  BY DEF Chain, IsConcat
<1>2. \A i \in 1 .. y + z : \/ i \in 1 .. y /\ new[i] = c[i]
                            \/ i - y \in 1 .. z /\ new[i] = d[i - y]
  <2> TAKE i \in 1 .. y + z
  <2>1. CASE i \in 1 .. y
    BY <2>1 DEF IsConcat
  <2>2. CASE i > y
    <3>1. i - y \in 1 .. z /\ y + (i - y) = i
      BY <1>1, <2>2
    <3> QED BY <3>1 DEF IsConcat
  <2> QED BY <1>1, <2>1, <2>2
<1>3. ASSUME NEW i \in 1 .. y + z, NEW k \in 1 .. y + z, new[i] = new[k], i < k
      PROVE  FALSE
  <2>1. CASE k \in 1 .. y
    <3>1. i \in 1 .. y /\ new[i] = c[i] /\ new[k] = c[k] /\ i # k
      BY <1>1, <1>2, <1>3, <2>1
    <3> QED BY <1>1, <1>3, <2>1, <3>1
  <2>2. CASE k > y
    <3>1. k - y \in 1 .. z /\ new[k] = d[k - y]
      BY <1>1, <1>2, <2>2
    <3>2. CASE i \in 1 .. y
      <4>1. new[i] = c[i]
        BY <1>1, <1>2, <3>2
      <4> QED BY <1>3, <3>1, <3>2, <4>1
    <3>3. CASE i > y
      <4>1. i - y \in 1 .. z /\ new[i] = d[i - y] /\ i - y # k - y
        BY <1>1, <1>2, <1>3, <3>3
      <4> QED BY <1>1, <1>3, <3>1, <4>1
    <3> QED BY <1>1, <3>2, <3>3
  <2> QED BY <1>1, <2>1, <2>2
<1>4. ASSUME NEW i \in 1 .. y + z, NEW k \in 1 .. y + z, new[i] = new[k]
      PROVE  i = k
  <2>1. ~(i < k) /\ ~(k < i)
    BY <1>3, <1>4
  <2> QED BY <1>1, <2>1
<1> QED BY <1>1, <1>4 DEF Chain

ConcatStores(kd, lk, bk, lk2, bk2, h, g, c, y, d, z) ==
  /\ lk2[spot(h, c, y)] = lk[g]
  /\ \A i \in 0 .. y : i # y => lk2[spot(h, c, i)] = lk[spot(h, c, i)]
  /\ \A i \in 1 .. z : lk2[d[i]] = lk[d[i]]
  /\ kd \in DoublyKinds =>
       /\ bk2[d[1]] = spot(h, c, y)
       /\ \A i \in 1 .. y : bk2[c[i]] = bk[c[i]]
       /\ \A i \in 2 .. z : bk2[d[i]] = bk[d[i]]
  /\ bk2[h] = bk[g]

LEMMA ConcatWalk ==
  ASSUME NEW kd \in TailedKinds, NEW lk, NEW bk, NEW h \in Heads, NEW g \in Heads,
         NEW c, NEW y, Chain(c, y), Walk(kd, lk, bk, h, c, y),
         NEW d, NEW z, Chain(d, z), Walk(kd, lk, bk, g, d, z), z # 0,
         NEW new, IsConcat(c, y, d, z, new), NEW lk2, NEW bk2,
         ConcatStores(kd, lk, bk, lk2, bk2, h, g, c, y, d, z)
  PROVE  Walk(kd, lk2, bk2, h, new, y + z)
<1>0. /\ lk2[spot(h, c, y)] = lk[g]
      /\ \A i \in 0 .. y : i # y => lk2[spot(h, c, i)] = lk[spot(h, c, i)]
      /\ \A i \in 1 .. z : lk2[d[i]] = lk[d[i]]
      /\ bk2[h] = bk[g]
  BY DEF ConcatStores
<1>1. /\ y \in Nat /\ z \in Nat \ {0} /\ y + z \in Nat
      /\ spot(h, c, 0) = h /\ \A i \in 1 .. y : spot(h, c, i) = c[i]
      /\ spot(g, d, 0) = g /\ \A i \in 1 .. z : spot(g, d, i) = d[i]
  <2>1. y \in Nat /\ z \in Nat
    BY DEF Chain
  <2> QED BY <2>1, Spots
<1>2. /\ \A i \in 0 .. y : spot(h, new, i) = spot(h, c, i)
      /\ \A i \in 1 .. z : spot(h, new, y + i) = d[i]
  BY <1>1 DEF spot, IsConcat
<1>3. /\ \A i \in 0 .. y : lk[spot(h, c, i)] = IF i = y THEN Null ELSE c[i + 1]
      /\ \A i \in 0 .. z : lk[spot(g, d, i)] = IF i = z THEN Null ELSE d[i + 1]
  BY DEF Walk
<1>4. ASSUME NEW i \in 0 .. y + z
      PROVE  lk2[spot(h, new, i)] = IF i = y + z THEN Null ELSE new[i + 1]
  <2>1. CASE i = y
    <3>1. lk2[spot(h, new, i)] = lk[g] /\ i # y + z /\ 0 \in 0 .. z /\ 0 # z /\ 1 \in 1 .. z
      BY <1>0, <1>1, <1>2, <2>1
    <3>2. lk[g] = d[1]
      BY <1>1, <1>3, <3>1
    <3>3. new[y + 1] = d[1]
      BY <3>1 DEF IsConcat
    <3> QED BY <2>1, <3>1, <3>2, <3>3
  <2>2. CASE i < y
    <3>1. i \in 0 .. y /\ i # y /\ i # y + z /\ i + 1 \in 1 .. y
      BY <1>1, <2>2
    <3>2. new[i + 1] = c[i + 1]
      BY <3>1 DEF IsConcat
    <3> QED BY <1>0, <1>2, <1>3, <3>1, <3>2
  <2>3. CASE i > y
    <3> DEFINE k == i - y
    <3>1. k \in 1 .. z /\ k \in 0 .. z /\ y + k = i /\ (i = y + z <=> k = z) /\ (k # z => k + 1 \in 1 .. z)
          /\ y + (k + 1) = i + 1
      BY <1>1, <2>3
    <3> HIDE DEF k
    <3>2. lk2[spot(h, new, i)] = lk[d[k]] /\ lk[d[k]] = IF k = z THEN Null ELSE d[k + 1]
      BY <1>0, <1>1, <1>2, <1>3, <3>1
    <3>3. k # z => new[i + 1] = d[k + 1]
      BY <3>1 DEF IsConcat
    <3> QED BY <3>1, <3>2, <3>3
  <2> QED BY <1>1, <2>1, <2>2, <2>3
<1>5. ASSUME kd \in DoublyKinds, NEW i \in 1 .. y + z
      PROVE  bk2[new[i]] = spot(h, new, i - 1)
  <2>0. /\ \A k \in 1 .. y : bk[c[k]] = spot(h, c, k - 1)
        /\ \A k \in 1 .. z : bk[d[k]] = spot(g, d, k - 1)
    BY <1>5 DEF Walk
  <2>9. /\ bk2[d[1]] = spot(h, c, y)
        /\ \A k \in 1 .. y : bk2[c[k]] = bk[c[k]]
        /\ \A k \in 2 .. z : bk2[d[k]] = bk[d[k]]
    BY <1>5 DEF ConcatStores
  <2>1. CASE i \in 1 .. y
    <3>1. new[i] = c[i] /\ i - 1 \in 0 .. y
      BY <1>1, <2>1 DEF IsConcat
    <3> QED BY <1>2, <2>9, <2>0, <2>1, <3>1
  <2>2. CASE i = y + 1
    <3>1. 1 \in 1 .. z /\ i - 1 = y /\ y \in 0 .. y
      BY <1>1, <2>2
    <3>2. new[i] = d[1]
      BY <2>2, <3>1 DEF IsConcat
    <3> QED BY <1>2, <2>9, <3>1, <3>2
  <2>3. CASE i > y + 1
    <3> DEFINE k == i - y
    <3>1. k \in 2 .. z /\ k \in 1 .. z /\ y + k = i /\ k - 1 \in 1 .. z /\ y + (k - 1) = i - 1
      BY <1>1, <2>3
    <3> HIDE DEF k
    <3>2. new[i] = d[k]
      BY <3>1 DEF IsConcat
    <3>3. bk2[d[k]] = d[k - 1]
      BY <1>1, <2>9, <2>0, <3>1
    <3>4. spot(h, new, i - 1) = d[k - 1]
      BY <1>2, <3>1
    <3> QED BY <3>2, <3>3, <3>4
  <2> QED BY <1>1, <2>1, <2>2, <2>3
<1>6. bk2[h] = spot(h, new, y + z)
  <2>1. z \in 1 .. z
    BY <1>1
  <2>2. bk[g] = spot(g, d, z)
    BY DEF Walk
  <2> QED BY <1>0, <1>1, <1>2, <2>1, <2>2
<1> QED BY <1>4, <1>5, <1>6 DEF Walk

(* The elements of a list go to another head. *)
MoveStores(kd, lk, bk, lk2, bk2, h, g, c, z) ==
  /\ lk2[g] = lk[h]
  /\ \A i \in 1 .. z : lk2[c[i]] = lk[c[i]]
  /\ kd \in DoublyKinds =>
       /\ z # 0 => bk2[c[1]] = g
       /\ \A i \in 2 .. z : bk2[c[i]] = bk[c[i]]

LEMMA MoveWalk ==
  ASSUME NEW kd, kd \notin TailedKinds, NEW lk, NEW bk, NEW h \in Heads, NEW g \in Heads,
         NEW c, NEW z, Chain(c, z), Walk(kd, lk, bk, h, c, z), NEW lk2, NEW bk2,
         MoveStores(kd, lk, bk, lk2, bk2, h, g, c, z)
  PROVE  Walk(kd, lk2, bk2, g, c, z)
<1>1. /\ z \in Nat
      /\ spot(h, c, 0) = h /\ spot(g, c, 0) = g
      /\ \A i \in 1 .. z : spot(h, c, i) = c[i] /\ spot(g, c, i) = c[i]
  <2>1. z \in Nat
    BY DEF Chain
  <2> QED BY <2>1, Spots
<1>2. \A i \in 0 .. z : lk[spot(h, c, i)] = IF i = z THEN Null ELSE c[i + 1]
  BY DEF Walk
<1>3. ASSUME NEW i \in 0 .. z
      PROVE  lk2[spot(g, c, i)] = IF i = z THEN Null ELSE c[i + 1]
  <2>1. i = 0 \/ i \in 1 .. z
    BY <1>1
  <2>2. lk2[spot(g, c, i)] = lk[spot(h, c, i)]
    BY <1>1, <2>1 DEF MoveStores
  <2> QED BY <1>2, <2>2
<1>4. ASSUME kd \in DoublyKinds, NEW i \in 1 .. z
      PROVE  bk2[c[i]] = spot(g, c, i - 1)
  <2>1. CASE i = 1
    <3>1. z # 0 /\ i - 1 = 0
      BY <1>1, <2>1
    <3> QED BY <1>1, <1>4, <2>1, <3>1 DEF MoveStores
  <2>2. CASE i # 1
    <3>1. i \in 2 .. z /\ i - 1 \in 1 .. z
      BY <1>1, <2>2
    <3>2. bk[c[i]] = spot(h, c, i - 1)
      BY <1>4 DEF Walk
    <3> QED BY <1>1, <1>4, <3>1, <3>2 DEF MoveStores
  <2> QED BY <2>1, <2>2
<1> QED BY <1>3, <1>4 DEF Walk

(* What the callers keep.                                                  *)
LEMMA Pieces ==
  ASSUME NEW V, NEW w \in Seq(V), NEW m \in Nat, NEW k \in Nat, NEW y \in Nat,
         y = Len(w), 1 <= m, k <= y
  PROVE  /\ SubSeq(w, m, k) \in Seq(V)
         /\ Len(SubSeq(w, m, k)) = IF m <= k THEN (k - m) + 1 ELSE 0
         /\ \A i \in 1 .. (k - m) + 1 : SubSeq(w, m, k)[i] = w[m + (i - 1)]
<1>1. \A i \in m .. k : w[i] \in V
  <2> TAKE i \in m .. k
  <2>1. i \in 1 .. y
    OBVIOUS
  <2> QED BY <2>1, ElementOfSeq
<1>2. m \in Int /\ k \in Int
  OBVIOUS
<1> QED BY <1>1, <1>2, SubSeqProperties

LEMMA JoinedAt ==
  ASSUME NEW v \in Seq(Elements), NEW w \in Seq(Elements), NEW y \in Nat, NEW z \in Nat,
         y = Len(v), z = Len(w)
  PROVE  /\ joined(v, w) \in Seq(Elements) /\ Len(joined(v, w)) = y + z
         /\ \A i \in 1 .. y + z : joined(v, w)[i] = IF i <= y THEN v[i] ELSE w[i - y]
BY ConcatProperties DEF joined

putAt(w, j, e) == InsertAt(w, j + 1, e)

LEMMA InsertedSeq ==
  ASSUME NEW w \in Seq(Elements), NEW z \in Nat, z = Len(w), NEW j \in 0 .. z, NEW e \in Elements
  PROVE  /\ putAt(w, j, e) \in Seq(Elements) /\ Len(putAt(w, j, e)) = z + 1
         /\ IsInserted(w, z, j, e, putAt(w, j, e))
<1> DEFINE a == SubSeq(w, 1, (j + 1) - 1)
           b == <<e>>
           d == SubSeq(w, j + 1, z)
           ab == joined(a, b)
           new == joined(ab, d)
<1>1. putAt(w, j, e) = new
  BY DEF putAt, InsertAt, joined
<1>2. /\ a \in Seq(Elements) /\ Len(a) = j /\ \A i \in 1 .. j : a[i] = w[i]
  <2>1. (j + 1) - 1 = j /\ j \in Nat /\ j <= z /\ 1 \in Nat /\ 1 <= 1
    OBVIOUS
  <2>2. /\ SubSeq(w, 1, j) \in Seq(Elements)
        /\ Len(SubSeq(w, 1, j)) = IF 1 <= j THEN (j - 1) + 1 ELSE 0
        /\ \A i \in 1 .. (j - 1) + 1 : SubSeq(w, 1, j)[i] = w[1 + (i - 1)]
    BY <2>1, Pieces
  <2>3. a = SubSeq(w, 1, j)
    BY <2>1
  <2> HIDE DEF a
  <2>4. /\ a \in Seq(Elements) /\ Len(a) = IF 1 <= j THEN (j - 1) + 1 ELSE 0
        /\ \A i \in 1 .. (j - 1) + 1 : a[i] = w[1 + (i - 1)]
    BY <2>2, <2>3
  <2>5. (IF 1 <= j THEN (j - 1) + 1 ELSE 0) = j /\ \A i \in 1 .. j : i \in 1 .. (j - 1) + 1 /\ 1 + (i - 1) = i
    OBVIOUS
  <2> QED BY <2>4, <2>5
<1>3. b \in Seq(Elements) /\ Len(b) = 1 /\ b[1] = e
  OBVIOUS
<1>4. /\ d \in Seq(Elements) /\ Len(d) = z - j /\ \A i \in 1 .. z - j : d[i] = w[j + i]
  <2>1. j + 1 \in Nat /\ z <= z /\ 1 <= j + 1
    OBVIOUS
  <2>2. /\ d \in Seq(Elements) /\ Len(d) = IF j + 1 <= z THEN (z - (j + 1)) + 1 ELSE 0
        /\ \A i \in 1 .. (z - (j + 1)) + 1 : d[i] = w[(j + 1) + (i - 1)]
    BY <2>1, Pieces, SMTT(30)
  <2> HIDE DEF d
  <2>3. /\ (IF j + 1 <= z THEN (z - (j + 1)) + 1 ELSE 0) = z - j
        /\ \A i \in 1 .. z - j : i \in 1 .. (z - (j + 1)) + 1 /\ (j + 1) + (i - 1) = j + i
    OBVIOUS
  <2> QED BY <2>2, <2>3
<1> HIDE DEF a, b, d
<1>5. /\ ab \in Seq(Elements) /\ Len(ab) = j + 1
      /\ \A i \in 1 .. j + 1 : ab[i] = IF i <= j THEN a[i] ELSE b[i - j]
  <2> DEFINE x == Len(a)
             y == Len(b)
  <2>1. x = j /\ y = 1
    BY <1>2, <1>3
  <2>0. x \in Nat /\ y \in Nat /\ a \in Seq(Elements) /\ b \in Seq(Elements)
    BY <1>2, <1>3
  <2>2. /\ ab \in Seq(Elements) /\ Len(ab) = x + y
        /\ \A i \in 1 .. x + y : ab[i] = IF i <= x THEN a[i] ELSE b[i - x]
    <3> HIDE DEF x, y
    <3>1. x = Len(a) /\ y = Len(b)
      BY DEF x, y
    <3> QED BY ONLY <2>0, <3>1, JoinedAt, SMTT(30)
  <2> HIDE DEF x, y, ab
  <2> QED BY <2>1, <2>2
<1> HIDE DEF ab
<1>6. /\ new \in Seq(Elements) /\ Len(new) = (j + 1) + (z - j)
      /\ \A i \in 1 .. (j + 1) + (z - j) : new[i] = IF i <= j + 1 THEN ab[i] ELSE d[i - (j + 1)]
  <2> DEFINE x == Len(ab)
             y == Len(d)
  <2>1. x = j + 1 /\ y = z - j
    BY <1>4, <1>5
  <2>0. x \in Nat /\ y \in Nat /\ ab \in Seq(Elements) /\ d \in Seq(Elements)
    BY <1>4, <1>5
  <2>2. /\ new \in Seq(Elements) /\ Len(new) = x + y
        /\ \A i \in 1 .. x + y : new[i] = IF i <= x THEN ab[i] ELSE d[i - x]
    <3> HIDE DEF x, y
    <3>1. x = Len(ab) /\ y = Len(d)
      BY DEF x, y
    <3> QED BY ONLY <2>0, <3>1, JoinedAt, SMTT(30)
  <2> HIDE DEF x, y, new
  <2> QED BY <2>1, <2>2
<1> HIDE DEF new
<1>7. Len(new) = z + 1
  <2>1. (j + 1) + (z - j) = z + 1
    OBVIOUS
  <2> QED BY <1>6, <2>1
<1>8. new \in [1 .. z + 1 -> Elements]
  BY <1>6, <1>7, LenProperties
<1>9. new[j + 1] = e
  <2>1. j + 1 \in 1 .. (j + 1) + (z - j) /\ j + 1 <= j + 1 /\ j + 1 \in 1 .. j + 1 /\ ~(j + 1 <= j)
        /\ (j + 1) - j = 1
    OBVIOUS
  <2>2. new[j + 1] = ab[j + 1] /\ ab[j + 1] = b[1]
    BY <1>5, <1>6, <2>1
  <2> QED BY <1>3, <2>2
<1>10. \A i \in 1 .. j : new[i] = w[i]
  <2>1. \A i \in 1 .. j : i \in 1 .. j + 1 /\ i <= j /\ i <= j + 1 /\ i \in 1 .. (j + 1) + (z - j)
    OBVIOUS
  <2> QED BY <1>2, <1>5, <1>6, <2>1
<1>11. \A i \in j + 1 .. z : new[i + 1] = w[i]
  <2> TAKE i \in j + 1 .. z
  <2>1. /\ i + 1 \in 1 .. (j + 1) + (z - j) /\ ~(i + 1 <= j + 1) /\ (i + 1) - (j + 1) = i - j
        /\ i - j \in 1 .. z - j /\ j + (i - j) = i
    OBVIOUS
  <2>2. new[i + 1] = d[i - j] /\ d[i - j] = w[j + (i - j)]
    BY <1>4, <1>6, <2>1
  <2> QED BY <2>1, <2>2
<1> QED BY <1>1, <1>6, <1>7, <1>8, <1>9, <1>10, <1>11 DEF IsInserted

LEMMA RemovedSeq ==
  ASSUME NEW w \in Seq(Elements), NEW z \in Nat, z = Len(w), NEW j \in 1 .. z
  PROVE  /\ RemoveAt(w, j) \in Seq(Elements) /\ Len(RemoveAt(w, j)) = z - 1
         /\ IsRemoved(w, z, j, RemoveAt(w, j))
<1> DEFINE a == SubSeq(w, 1, j - 1)
           d == SubSeq(w, j + 1, z)
           new == joined(a, d)
<1>1. RemoveAt(w, j) = new
  BY DEF RemoveAt, joined
<1>2. /\ a \in Seq(Elements) /\ Len(a) = j - 1 /\ \A i \in 1 .. j - 1 : a[i] = w[i]
  <2>1. j - 1 \in Nat /\ j - 1 <= z /\ 1 \in Nat /\ 1 <= 1
    OBVIOUS
  <2>2. /\ a \in Seq(Elements) /\ Len(a) = IF 1 <= j - 1 THEN ((j - 1) - 1) + 1 ELSE 0
        /\ \A i \in 1 .. ((j - 1) - 1) + 1 : a[i] = w[1 + (i - 1)]
    BY <2>1, Pieces
  <2> HIDE DEF a
  <2>3. /\ (IF 1 <= j - 1 THEN ((j - 1) - 1) + 1 ELSE 0) = j - 1
        /\ \A i \in 1 .. j - 1 : i \in 1 .. ((j - 1) - 1) + 1 /\ 1 + (i - 1) = i
    OBVIOUS
  <2> QED BY <2>2, <2>3
<1>4. /\ d \in Seq(Elements) /\ Len(d) = z - j /\ \A i \in 1 .. z - j : d[i] = w[j + i]
  <2>1. j + 1 \in Nat /\ z <= z /\ 1 <= j + 1
    OBVIOUS
  <2>2. /\ d \in Seq(Elements) /\ Len(d) = IF j + 1 <= z THEN (z - (j + 1)) + 1 ELSE 0
        /\ \A i \in 1 .. (z - (j + 1)) + 1 : d[i] = w[(j + 1) + (i - 1)]
    BY <2>1, Pieces
  <2> HIDE DEF d
  <2>3. /\ (IF j + 1 <= z THEN (z - (j + 1)) + 1 ELSE 0) = z - j
        /\ \A i \in 1 .. z - j : i \in 1 .. (z - (j + 1)) + 1 /\ (j + 1) + (i - 1) = j + i
    OBVIOUS
  <2> QED BY <2>2, <2>3
<1> HIDE DEF a, d
<1>6. /\ new \in Seq(Elements) /\ Len(new) = (j - 1) + (z - j)
      /\ \A i \in 1 .. (j - 1) + (z - j) : new[i] = IF i <= j - 1 THEN a[i] ELSE d[i - (j - 1)]
  <2> DEFINE x == Len(a)
             y == Len(d)
  <2>1. x = j - 1 /\ y = z - j
    BY <1>2, <1>4
  <2>0. x \in Nat /\ y \in Nat /\ a \in Seq(Elements) /\ d \in Seq(Elements)
    BY <1>2, <1>4
  <2>2. /\ new \in Seq(Elements) /\ Len(new) = x + y
        /\ \A i \in 1 .. x + y : new[i] = IF i <= x THEN a[i] ELSE d[i - x]
    <3> HIDE DEF x, y
    <3>1. x = Len(a) /\ y = Len(d)
      BY DEF x, y
    <3> QED BY ONLY <2>0, <3>1, JoinedAt, SMTT(30)
  <2> HIDE DEF x, y, new
  <2> QED BY <2>1, <2>2
<1> HIDE DEF new
<1>7. Len(new) = z - 1
  <2>1. (j - 1) + (z - j) = z - 1
    OBVIOUS
  <2> QED BY <1>6, <2>1
<1>8. new \in [1 .. z - 1 -> Elements]
  BY <1>6, <1>7, LenProperties
<1>10. \A i \in 1 .. j - 1 : new[i] = w[i]
  <2>1. \A i \in 1 .. j - 1 : i \in 1 .. (j - 1) + (z - j) /\ i <= j - 1
    OBVIOUS
  <2> QED BY <1>2, <1>6, <2>1
<1>11. \A i \in j + 1 .. z : new[i - 1] = w[i]
  <2> TAKE i \in j + 1 .. z
  <2>1. /\ i - 1 \in 1 .. (j - 1) + (z - j) /\ ~(i - 1 <= j - 1) /\ (i - 1) - (j - 1) = i - j
        /\ i - j \in 1 .. z - j /\ j + (i - j) = i
    OBVIOUS
  <2>2. new[i - 1] = d[i - j] /\ d[i - j] = w[j + (i - j)]
    BY <1>4, <1>6, <2>1
  <2> QED BY <2>1, <2>2
<1> QED BY <1>1, <1>10, <1>6, <1>7, <1>8, <1>11 DEF IsRemoved

LEMMA AppendedSeq ==
  ASSUME NEW w \in Seq(Elements), NEW z \in Nat, z = Len(w), NEW e \in Elements
  PROVE  /\ Append(w, e) \in Seq(Elements) /\ Len(Append(w, e)) = z + 1
         /\ IsInserted(w, z, z, e, Append(w, e))
<1> DEFINE new == Append(w, e)
<1>1. /\ new \in Seq(Elements) /\ Len(new) = z + 1
      /\ \A i \in 1 .. z : new[i] = w[i]
      /\ new[z + 1] = e
  BY AppendProperties
<1> HIDE DEF new
<1>2. new \in [1 .. z + 1 -> Elements]
  BY <1>1, LenProperties
<1>3. \A i \in z + 1 .. z : FALSE
  OBVIOUS
<1> QED BY <1>1, <1>2, <1>3 DEF IsInserted, new

LEMMA JoinedSeqs ==
  ASSUME NEW v \in Seq(Elements), NEW w \in Seq(Elements), NEW y \in Nat, NEW z \in Nat,
         y = Len(v), z = Len(w)
  PROVE  /\ joined(v, w) \in Seq(Elements) /\ Len(joined(v, w)) = y + z
         /\ IsConcat(v, y, w, z, joined(v, w))
<1> DEFINE vw == joined(v, w)
<1>1. /\ vw \in Seq(Elements) /\ Len(vw) = y + z
      /\ \A i \in 1 .. y + z : vw[i] = IF i <= y THEN v[i] ELSE w[i - y]
  BY JoinedAt
<1> HIDE DEF vw
<1>2. vw \in [1 .. y + z -> Elements]
  BY <1>1, LenProperties
<1>3. \A i \in 1 .. y : vw[i] = v[i]
  <2>1. \A i \in 1 .. y : i \in 1 .. y + z /\ i <= y
    OBVIOUS
  <2> QED BY <1>1, <2>1
<1>4. \A i \in 1 .. z : vw[y + i] = w[i]
  <2> TAKE i \in 1 .. z
  <2>1. y + i \in 1 .. y + z /\ ~(y + i <= y) /\ (y + i) - y = i
    OBVIOUS
  <2> QED BY <1>1, <2>1
<1>5. IsConcat(v, y, w, z, vw)
  BY <1>2, <1>3, <1>4 DEF IsConcat
<1> QED BY <1>1, <1>5 DEF vw

LEMMA ReplacedSeq ==
  ASSUME NEW w \in Seq(Elements), NEW z \in Nat, z = Len(w), NEW j \in 1 .. z, NEW e \in Elements
  PROVE  [w EXCEPT ![j] = e] \in Seq(Elements) /\ Len([w EXCEPT ![j] = e]) = z
BY ExceptSeq

(* What the macros store, field by field.                                  *)
pair(lk, bk)      == [link |-> lk, back |-> bk]
stored(bk, p, v)  == IF p = Null THEN bk ELSE [bk EXCEPT ![p] = v]
behindBack(bk, h, x, v) ==
  IF x = Null THEN IF tailed THEN stored(bk, h, v) ELSE bk
              ELSE IF doubly THEN stored(bk, x, v) ELSE bk

pointed(bk, e, p) == IF doubly THEN stored(bk, e, p) ELSE bk
moved(lk, bk, h, g) ==
  IF lk[h] = Null THEN pair(lk, bk)
  ELSE pair([[lk EXCEPT ![g] = lk[h]] EXCEPT ![h] = Null], stored(bk, lk[h], g))

LEMMA SetBackFields ==
  ASSUME NEW lk, NEW bk, NEW p, NEW v
  PROVE  setBack(pair(lk, bk), p, v) = pair(lk, stored(bk, p, v))
BY DEF setBack, pair, stored

LEMMA BehindFields ==
  ASSUME NEW lk, NEW bk, NEW h, NEW x, NEW v
  PROVE  behind(pair(lk, bk), h, x, v) = pair(lk, behindBack(bk, h, x, v))
<1>1. setBack(pair(lk, bk), h, v) = pair(lk, stored(bk, h, v))
  BY SetBackFields
<1>2. setBack(pair(lk, bk), x, v) = pair(lk, stored(bk, x, v))
  BY SetBackFields
<1> QED BY <1>1, <1>2 DEF behind, behindBack

LEMMA WithoutFields ==
  ASSUME NEW lk, NEW bk, NEW e
  PROVE  without(pair(lk, bk), e) = pair([lk EXCEPT ![e] = Unlinked], [bk EXCEPT ![e] = Unlinked])
<1> DEFINE k2 == [lk EXCEPT ![e] = Unlinked]
           m  == [pair(lk, bk) EXCEPT !.link[e] = Unlinked]
<1>1. m = pair(k2, bk)
  BY DEF pair
<1>2. without(pair(lk, bk), e) = [m EXCEPT !.back[e] = Unlinked]
  BY DEF without
<1>3. [pair(k2, bk) EXCEPT !.back[e] = Unlinked] = pair(k2, [bk EXCEPT ![e] = Unlinked])
  <2> HIDE DEF k2
  <2> QED BY DEF pair
<1> HIDE DEF m, k2
<1>4. without(pair(lk, bk), e) = pair(k2, [bk EXCEPT ![e] = Unlinked])
  BY <1>1, <1>2, <1>3
<1> QED BY <1>4 DEF k2

LEMMA InsertAfterFields ==
  ASSUME NEW lk, NEW bk, NEW h, NEW p, NEW e
  PROVE  insertAfter(pair(lk, bk), h, p, e) =
           pair([[lk EXCEPT ![e] = lk[p]] EXCEPT ![p] = e],
                pointed(behindBack(bk, h, lk[p], e), e, p))
<1> DEFINE bb == behindBack(bk, h, lk[p], e)
           k2 == [[lk EXCEPT ![e] = lk[p]] EXCEPT ![p] = e]
           m  == [behind(pair(lk, bk), h, lk[p], e) EXCEPT !.link[e] = lk[p], !.link[p] = e]
<1>1. pair(lk, bk).link = lk
  BY DEF pair
<1>2. m = pair(k2, bb)
  <2>1. behind(pair(lk, bk), h, lk[p], e) = pair(lk, bb)
    BY BehindFields
  <2>2. m = [pair(lk, bb) EXCEPT !.link[e] = lk[p], !.link[p] = e]
    BY <2>1
  <2> HIDE DEF bb, m
  <2> QED BY <2>2 DEF pair
<1>3. insertAfter(pair(lk, bk), h, p, e) = IF doubly THEN setBack(m, e, p) ELSE m
  <2> DEFINE m2 == [behind(pair(lk, bk), h, pair(lk, bk).link[p], e) EXCEPT
                      !.link[e] = pair(lk, bk).link[p], !.link[p] = e]
  <2>1. insertAfter(pair(lk, bk), h, p, e) = IF doubly THEN setBack(m2, e, p) ELSE m2
    BY DEF insertAfter
  <2>2. m2 = m
    BY <1>1
  <2> HIDE DEF m, m2
  <2> QED BY <2>1, <2>2
<1> HIDE DEF bb, k2, m
<1>4. setBack(m, e, p) = pair(k2, stored(bb, e, p))
  BY <1>2, SetBackFields
<1> QED BY <1>2, <1>3, <1>4 DEF bb, k2, pointed

tailLink(lk, bk, h, e) == [[lk EXCEPT ![bk[h]] = e] EXCEPT ![e] = Null]
tailBack(bk, h, e)     == pointed([bk EXCEPT ![h] = e], e, bk[h])

LEMMA InsertTailFields ==
  ASSUME NEW lk, NEW bk, NEW h, NEW e
  PROVE  insertTail(pair(lk, bk), h, e) = pair(tailLink(lk, bk, h, e), tailBack(bk, h, e))
<1> DEFINE k2 == [[lk EXCEPT ![bk[h]] = e] EXCEPT ![e] = Null]
           b2 == [bk EXCEPT ![h] = e]
           m  == [pair(lk, bk) EXCEPT !.link[bk[h]] = e, !.link[e] = Null, !.back[h] = e]
<1>1. pair(lk, bk).back = bk
  BY DEF pair
<1>2. m = pair(k2, b2)
  <2> DEFINE m1 == [pair(lk, bk) EXCEPT !.link[bk[h]] = e, !.link[e] = Null]
  <2>1. m1 = pair(k2, bk)
    <3> DEFINE x == bk[h]
    <3> HIDE DEF x
    <3> DEFINE k1 == [lk EXCEPT ![x] = e]
    <3>1. [pair(lk, bk) EXCEPT !.link[x] = e] = pair(k1, bk)
      BY DEF pair
    <3>2. [pair(k1, bk) EXCEPT !.link[e] = Null] = pair([k1 EXCEPT ![e] = Null], bk)
      <4> HIDE DEF k1
      <4> QED BY DEF pair
    <3>3. m1 = [[pair(lk, bk) EXCEPT !.link[x] = e] EXCEPT !.link[e] = Null]
      BY DEF x
    <3> HIDE DEF m1
    <3> QED BY <3>1, <3>2, <3>3 DEF x
  <2>2. m = [m1 EXCEPT !.back[h] = e]
    OBVIOUS
  <2>3. [pair(k2, bk) EXCEPT !.back[h] = e] = pair(k2, b2)
    <3> HIDE DEF k2
    <3> QED BY DEF pair
  <2> HIDE DEF m, m1, k2, b2
  <2> QED BY <2>1, <2>2, <2>3
<1>3. insertTail(pair(lk, bk), h, e) = IF doubly THEN setBack(m, e, bk[h]) ELSE m
  <2> DEFINE m2 == [pair(lk, bk) EXCEPT !.link[pair(lk, bk).back[h]] = e, !.link[e] = Null,
                                        !.back[h] = e]
  <2>1. insertTail(pair(lk, bk), h, e) = IF doubly THEN setBack(m2, e, pair(lk, bk).back[h]) ELSE m2
    BY DEF insertTail
  <2>2. m2 = m
    BY <1>1
  <2> HIDE DEF m, m2
  <2> QED BY <1>1, <2>1, <2>2
<1> HIDE DEF b2, k2, m
<1>4. setBack(m, e, bk[h]) = pair(k2, stored(b2, e, bk[h]))
  BY <1>2, SetBackFields
<1>5. insertTail(pair(lk, bk), h, e) = pair(k2, pointed(b2, e, bk[h]))
  BY <1>2, <1>3, <1>4 DEF pointed
<1> QED BY <1>5 DEF b2, k2, tailLink, tailBack

LEMMA InsertBeforeFields ==
  ASSUME NEW lk, NEW bk, NEW x, NEW e
  PROVE  insertBefore(pair(lk, bk), x, e) =
           pair([[lk EXCEPT ![e] = x] EXCEPT ![bk[x]] = e],
                [[bk EXCEPT ![e] = bk[x]] EXCEPT ![x] = e])
<1> DEFINE k2 == [[lk EXCEPT ![e] = x] EXCEPT ![bk[x]] = e]
           b2 == [[bk EXCEPT ![e] = bk[x]] EXCEPT ![x] = e]
<1>1. pair(lk, bk).link = lk /\ pair(lk, bk).back = bk
  BY DEF pair
<1>2. insertBefore(pair(lk, bk), x, e) =
        [pair(lk, bk) EXCEPT !.link = [@ EXCEPT ![e] = x, ![bk[x]] = e],
                             !.back = [@ EXCEPT ![e] = bk[x], ![x] = e]]
  BY <1>1 DEF insertBefore
<1>3. insertBefore(pair(lk, bk), x, e) = [pair(lk, bk) EXCEPT !.link = k2, !.back = b2]
  BY <1>1, <1>2
<1> HIDE DEF k2, b2
<1>4. [pair(lk, bk) EXCEPT !.link = k2, !.back = b2] = pair(k2, b2)
  <2>1. [pair(lk, bk) EXCEPT !.link = k2, !.back = b2] = [[pair(lk, bk) EXCEPT !.link = k2] EXCEPT !.back = b2]
    OBVIOUS
  <2>2. [pair(lk, bk) EXCEPT !.link = k2] = pair(k2, bk)
    BY DEF pair
  <2>3. [pair(k2, bk) EXCEPT !.back = b2] = pair(k2, b2)
    BY DEF pair
  <2> QED BY <2>1, <2>2, <2>3
<1> QED BY <1>3, <1>4 DEF k2, b2

LEMMA RemoveAfterFields ==
  ASSUME NEW lk, NEW bk, NEW h, NEW p
  PROVE  LET e == lk[p]
         IN  removeAfter(pair(lk, bk), h, p) =
               pair([[lk EXCEPT ![p] = lk[e]] EXCEPT ![e] = Unlinked],
                    [behindBack(bk, h, lk[e], p) EXCEPT ![e] = Unlinked])
<1> DEFINE e  == lk[p]
           bb == behindBack(bk, h, lk[e], p)
           k2 == [lk EXCEPT ![p] = lk[e]]
           m  == [behind(pair(lk, bk), h, lk[e], p) EXCEPT !.link[p] = lk[e]]
<1>1. pair(lk, bk).link = lk
  BY DEF pair
<1>2. m = pair(k2, bb)
  <2>1. behind(pair(lk, bk), h, lk[e], p) = pair(lk, bb)
    BY BehindFields
  <2>2. m = [pair(lk, bb) EXCEPT !.link[p] = lk[e]]
    BY <2>1
  <2> HIDE DEF bb, m, e
  <2> QED BY <2>2 DEF pair
<1>3. removeAfter(pair(lk, bk), h, p) = without(m, e)
  BY <1>1, Zenon DEF removeAfter
<1>4. without(m, e) = pair([k2 EXCEPT ![e] = Unlinked], [bb EXCEPT ![e] = Unlinked])
  <2> HIDE DEF bb, k2, m, e
  <2> QED BY <1>2, WithoutFields
<1> QED BY <1>3, <1>4

LEMMA UnlinkFields ==
  ASSUME NEW lk, NEW bk, NEW h, NEW e
  PROVE  unlink(pair(lk, bk), h, e) =
               pair([[lk EXCEPT ![bk[e]] = lk[e]] EXCEPT ![e] = Unlinked],
                    [behindBack(bk, h, lk[e], bk[e]) EXCEPT ![e] = Unlinked])
<1> DEFINE bb == behindBack(bk, h, lk[e], bk[e])
           k2 == [lk EXCEPT ![bk[e]] = lk[e]]
           m  == [behind(pair(lk, bk), h, lk[e], bk[e]) EXCEPT !.link[bk[e]] = lk[e]]
<1>1. pair(lk, bk).link = lk /\ pair(lk, bk).back = bk
  BY DEF pair
<1>2. m = pair(k2, bb)
  <2>1. behind(pair(lk, bk), h, lk[e], bk[e]) = pair(lk, bb)
    BY BehindFields
  <2>2. m = [pair(lk, bb) EXCEPT !.link[bk[e]] = lk[e]]
    BY <2>1
  <2> HIDE DEF bb, m
  <2> QED BY <2>2 DEF pair
<1>3. unlink(pair(lk, bk), h, e) = without(m, e)
  BY <1>1, Zenon DEF unlink
<1>4. without(m, e) = pair([k2 EXCEPT ![e] = Unlinked], [bb EXCEPT ![e] = Unlinked])
  <2> HIDE DEF bb, k2, m
  <2> QED BY <1>2, WithoutFields
<1> QED BY <1>3, <1>4

LEMMA ReplaceFields ==
  ASSUME NEW lk, NEW bk, NEW h, NEW e, NEW new
  PROVE  LET bb == behindBack(bk, h, lk[e], new)
         IN  replace(pair(lk, bk), h, e, new) =
               pair([[[lk EXCEPT ![new] = lk[e]] EXCEPT ![bk[e]] = new] EXCEPT ![e] = Unlinked],
                    [[bb EXCEPT ![new] = bk[e]] EXCEPT ![e] = Unlinked])
<1> DEFINE bb == behindBack(bk, h, lk[e], new)
           k2 == [[lk EXCEPT ![new] = lk[e]] EXCEPT ![bk[e]] = new]
           b2 == [bb EXCEPT ![new] = bk[e]]
           m  == [behind(pair(lk, bk), h, lk[e], new) EXCEPT
                    !.link = [@ EXCEPT ![new] = lk[e], ![bk[e]] = new],
                    !.back[new] = bk[e]]
<1>1. pair(lk, bk).link = lk /\ pair(lk, bk).back = bk
  BY DEF pair
<1>2. m = pair(k2, b2)
  <2>1. behind(pair(lk, bk), h, lk[e], new) = pair(lk, bb)
    BY BehindFields
  <2>2. m = [pair(lk, bb) EXCEPT !.link = [@ EXCEPT ![new] = lk[e], ![bk[e]] = new],
                                 !.back[new] = bk[e]]
    BY <2>1
  <2> HIDE DEF bb, m
  <2> QED BY <2>2 DEF pair
<1>3. replace(pair(lk, bk), h, e, new) = without(m, e)
  BY <1>1, Zenon DEF replace
<1>4. without(m, e) = pair([k2 EXCEPT ![e] = Unlinked], [b2 EXCEPT ![e] = Unlinked])
  <2> HIDE DEF b2, k2, m
  <2> QED BY <1>2, WithoutFields
<1> QED BY <1>3, <1>4

LEMMA EmptiedFields ==
  ASSUME NEW lk, NEW bk, NEW h
  PROVE  emptied(pair(lk, bk), h) = pair([lk EXCEPT ![h] = Null], IF tailed THEN stored(bk, h, h) ELSE bk)
<1>1. [pair(lk, bk) EXCEPT !.link[h] = Null] = pair([lk EXCEPT ![h] = Null], bk)
  BY DEF pair
<1>2. emptied(pair(lk, bk), h) = behind(pair([lk EXCEPT ![h] = Null], bk), h, Null, h)
  BY <1>1, Zenon DEF emptied
<1>3. behindBack(bk, h, Null, h) = IF tailed THEN stored(bk, h, h) ELSE bk
  BY DEF behindBack
<1> QED BY <1>2, <1>3, BehindFields

LEMMA ConcatFields ==
  ASSUME NEW lk, NEW bk, NEW h, NEW g, tailed, lk[g] # Null
  PROVE  LET b2 == IF doubly THEN stored(bk, lk[g], bk[h]) ELSE bk
         IN  concat(pair(lk, bk), h, g) =
               pair([[lk EXCEPT ![bk[h]] = lk[g]] EXCEPT ![g] = Null],
                    stored(stored(b2, h, bk[g]), g, g))
<1> DEFINE b2 == IF doubly THEN stored(bk, lk[g], bk[h]) ELSE bk
           k2 == [lk EXCEPT ![bk[h]] = lk[g]]
           m  == [pair(lk, bk) EXCEPT !.link[bk[h]] = lk[g]]
           r  == IF doubly THEN setBack(m, lk[g], bk[h]) ELSE m
           r2 == setBack(r, h, bk[g])
<1>1. pair(lk, bk).link = lk /\ pair(lk, bk).back = bk
  BY DEF pair
<1>2. m = pair(k2, bk)
  BY DEF pair
<1>3. concat(pair(lk, bk), h, g) = emptied(r2, g)
  BY <1>1, Zenon DEF concat
<1>4. r = pair(k2, b2)
  <2> HIDE DEF k2, m
  <2>1. setBack(m, lk[g], bk[h]) = pair(k2, stored(bk, lk[g], bk[h]))
    BY <1>2, SetBackFields
  <2> QED BY <1>2, <2>1
<1>5. r2 = pair(k2, stored(b2, h, bk[g]))
  <2> HIDE DEF k2, r, b2
  <2> QED BY <1>4, SetBackFields
<1>6. emptied(r2, g) = pair([k2 EXCEPT ![g] = Null], stored(stored(b2, h, bk[g]), g, g))
  <2> HIDE DEF k2, r2, b2
  <2> QED BY <1>5, EmptiedFields
<1> QED BY <1>3, <1>6

LEMMA MoveFields ==
  ASSUME NEW lk, NEW bk, NEW h, NEW g, ~tailed, h # g
  PROVE  LET k2 == [lk EXCEPT ![g] = Null]
         IN  move(pair(lk, bk), h, g) =
               moved(k2, bk, h, g)
<1> DEFINE k2 == [lk EXCEPT ![g] = Null]
           m  == emptied(pair(lk, bk), g)
           k3 == [k2 EXCEPT ![g] = k2[h]]
           r  == [m EXCEPT !.link[g] = k2[h]]
<1>1. m = pair(k2, bk)
  BY EmptiedFields
<1>2. m.link = k2
  <2> HIDE DEF m, k2
  <2> QED BY <1>1 DEF pair
<1>3. move(pair(lk, bk), h, g) = IF k2[h] = Null THEN m ELSE emptied(setBack(r, k2[h], g), h)
  BY <1>2, Zenon DEF move
<1>4. r = pair(k3, bk)
  <2> HIDE DEF m, k2
  <2> QED BY <1>1 DEF pair
<1>5. setBack(r, k2[h], g) = pair(k3, stored(bk, k2[h], g))
  <2> HIDE DEF r, k3, k2
  <2> QED BY <1>4, SetBackFields
<1>6. emptied(setBack(r, k2[h], g), h) = pair([k3 EXCEPT ![h] = Null], stored(bk, k2[h], g))
  <2> HIDE DEF r, k3, k2
  <2> QED BY <1>5, EmptiedFields
<1> QED BY <1>1, <1>3, <1>6 DEF moved

-------------------------------------------------------------------------------
(* The lists of all heads: what is in them leads through the links, and    *)
(* nothing is in two of them.                                              *)
LinkValues == Elements \cup {Null, Unlinked}
BackValues == Places \cup {Unlinked}

IsList(kd, lk, bk, h, c) == Chain(c, Len(c)) /\ Walk(kd, lk, bk, h, c, Len(c))
Disjoint(c, d) == \A i \in 1 .. Len(c), k \in 1 .. Len(d) : c[i] # d[k]

Lists(kd, lk, bk, ct) ==
  /\ lk \in [Places -> LinkValues] /\ bk \in [Places -> BackValues]
  /\ ct \in [Heads -> Seq(Elements)]
  /\ \A h \in Heads : IsList(kd, lk, bk, h, ct[h])
  /\ \A h, g \in Heads : h # g => Disjoint(ct[h], ct[g])

QueuesInv == kind \in Kinds /\ Lists(kind, link, back, contents)

(* An element that is not in another list, and one that is in none.        *)
Apart(ct, h, e) == \A g \in Heads : g # h => Fresh(ct[g], Len(ct[g]), e)
InNone(ct, e)   == \A g \in Heads : Fresh(ct[g], Len(ct[g]), e)

OthersSame(lk, bk, lk2, bk2, h, c, e) ==
  \A x \in Places : x # h /\ x # e /\ (\A i \in 1 .. Len(c) : x # c[i]) =>
    lk2[x] = lk[x] /\ bk2[x] = bk[x]

MadeOf(new, c, e) == \A i \in 1 .. Len(new) : new[i] = e \/ \E k \in 1 .. Len(c) : new[i] = c[k]

(* A step that changes the list of h and at most one element beside it.    *)
LEMMA OneList ==
  ASSUME NEW kd, NEW lk, NEW bk, NEW ct, Lists(kd, lk, bk, ct),
         NEW h \in Heads, NEW e \in Elements, Apart(ct, h, e),
         NEW lk2 \in [Places -> LinkValues], NEW bk2 \in [Places -> BackValues],
         OthersSame(lk, bk, lk2, bk2, h, ct[h], e),
         NEW new \in Seq(Elements), MadeOf(new, ct[h], e), IsList(kd, lk2, bk2, h, new)
  PROVE  Lists(kd, lk2, bk2, [ct EXCEPT ![h] = new])
<1> DEFINE ct2 == [ct EXCEPT ![h] = new]
<1>1. /\ ct \in [Heads -> Seq(Elements)]
      /\ \A g \in Heads : IsList(kd, lk, bk, g, ct[g])
      /\ \A f2, g \in Heads : f2 # g => Disjoint(ct[f2], ct[g])
  BY DEF Lists
<1>2. ct2 \in [Heads -> Seq(Elements)] /\ ct2[h] = new /\ \A g \in Heads : g # h => ct2[g] = ct[g]
  BY <1>1
<1> HIDE DEF ct2
<1>3. ASSUME NEW g \in Heads, g # h
      PROVE  IsList(kd, lk2, bk2, g, ct[g])
  <2> DEFINE c == ct[g]
             z == Len(c)
  <2>1. Chain(c, z) /\ Walk(kd, lk, bk, g, c, z)
    BY <1>1 DEF IsList
  <2>2. /\ spot(g, c, 0) = g
        /\ \A i \in 1 .. z : spot(g, c, i) = c[i] /\ c[i] \in Elements /\ c[i] # h /\ c[i] # e
                               /\ \A k \in 1 .. Len(ct[h]) : c[i] # ct[h][k]
    <3>1. /\ spot(g, c, 0) = g /\ \A i \in 1 .. z : spot(g, c, i) = c[i] /\ c[i] \in Elements
      <4> HIDE DEF c, z
      <4> QED BY <2>1, Spots
    <3>2. h \notin Elements
      BY Spots, <1>1 DEF IsList
    <3>3. \A i \in 1 .. z : c[i] # e
      BY <1>3 DEF Apart, Fresh
    <3>4. \A i \in 1 .. z, k \in 1 .. Len(ct[h]) : c[i] # ct[h][k]
      BY <1>1, <1>3 DEF Disjoint
    <3> QED BY <3>1, <3>2, <3>3, <3>4
  <2>3. g \in Places /\ g # e /\ \A k \in 1 .. Len(ct[h]) : g # ct[h][k]
    <3>1. g \notin Elements
      BY Spots, <1>1 DEF IsList
    <3>2. \A k \in 1 .. Len(ct[h]) : ct[h][k] \in Elements
      BY <1>1, Spots DEF IsList
    <3> QED BY <3>1, <3>2 DEF Places
  <2>4. \A i \in 1 .. z : lk2[c[i]] = lk[c[i]] /\ bk2[c[i]] = bk[c[i]]
    BY <2>2 DEF Places, OthersSame
  <2>5. lk2[g] = lk[g] /\ bk2[g] = bk[g]
    BY <1>3, <2>3 DEF OthersSame
  <2>6. z \in Nat
    BY <2>1 DEF Chain
  <2> HIDE DEF c, z
  <2>7. \A i \in 0 .. z : lk2[spot(g, c, i)] = lk[spot(g, c, i)]
    <3> TAKE i \in 0 .. z
    <3>1. i = 0 \/ i \in 1 .. z
      BY <2>6
    <3> QED BY <2>2, <2>4, <2>5, <3>1
  <2>8. Walk(kd, lk2, bk2, g, c, z)
    BY <2>1, <2>4, <2>5, <2>6, <2>7, SameWalk
  <2> QED BY <2>1, <2>8 DEF c, z, IsList
<1>4. \A g \in Heads : IsList(kd, lk2, bk2, g, ct2[g])
  <2> TAKE g \in Heads
  <2>1. CASE g = h
    BY <1>2, <2>1
  <2>2. CASE g # h
    BY <1>1, <1>2, <1>3, <2>2
  <2> QED BY <2>1, <2>2
<1>5. \A g \in Heads : g # h => Disjoint(new, ct[g]) /\ Disjoint(ct[g], new)
  <2> TAKE g \in Heads
  <2> HAVE g # h
  <2>1. ASSUME NEW i \in 1 .. Len(new), NEW k \in 1 .. Len(ct[g])
        PROVE  new[i] # ct[g][k]
    <3>1. new[i] = e \/ \E y \in 1 .. Len(ct[h]) : new[i] = ct[h][y]
      BY DEF MadeOf
    <3>2. Disjoint(ct[h], ct[g]) /\ Fresh(ct[g], Len(ct[g]), e)
      BY <1>1 DEF Apart
    <3> QED BY <3>1, <3>2 DEF Disjoint, Fresh
  <2> QED BY <2>1 DEF Disjoint
<1>6. ASSUME NEW f2 \in Heads, NEW g \in Heads, f2 # g
      PROVE  Disjoint(ct2[f2], ct2[g])
  <2>1. CASE f2 = h
    BY <1>2, <1>5, <1>6, <2>1
  <2>2. CASE g = h
    BY <1>2, <1>5, <1>6, <2>2
  <2>3. CASE f2 # h /\ g # h
    BY <1>1, <1>2, <1>6, <2>3
  <2> QED BY <2>1, <2>2, <2>3
<1>7. Lists(kd, lk2, bk2, ct2)
  BY <1>2, <1>4, <1>6 DEF Lists
<1> QED BY <1>7 DEF ct2

(* The pointers that lead back to what is behind the place j of a list.    *)
leadsBack(kd, h, c, z, j, x) ==
  \/ j = z /\ kd \in TailedKinds /\ x = h
  \/ j # z /\ kd \in DoublyKinds /\ x = c[j + 1]

(* The places of a list, and an element beside them. *)
LEMMA ListPlaces ==
  ASSUME NEW h \in Heads, NEW c, NEW z, Chain(c, z)
  PROVE  /\ z \in Nat /\ spot(h, c, 0) = h /\ h \notin Elements /\ h \in Places
         /\ \A i \in 1 .. z : spot(h, c, i) = c[i] /\ c[i] \in Elements /\ c[i] # h
                                /\ c[i] \in Places
         /\ \A i, k \in 0 .. z : spot(h, c, i) = spot(h, c, k) => i = k
         /\ \A i \in 0 .. z : spot(h, c, i) \in Places
         /\ \A e \in Elements : e \in Places /\ e # h
         /\ \A e \in Elements : Fresh(c, z, e) =>
              \A i \in 0 .. z : spot(h, c, i) # e
<1>1. /\ z \in Nat /\ spot(h, c, 0) = h /\ h \notin Elements
      /\ \A i \in 1 .. z : spot(h, c, i) = c[i] /\ c[i] \in Elements /\ c[i] # h
      /\ \A i, k \in 0 .. z : spot(h, c, i) = spot(h, c, k) => i = k
  <2>1. z \in Nat
    BY DEF Chain
  <2> QED BY <2>1, Spots
<1>2. h \in Places /\ \A i \in 1 .. z : c[i] \in Places
  BY <1>1 DEF Places
<1>3. \A i \in 0 .. z : i = 0 \/ i \in 1 .. z
  BY <1>1
<1>4. \A i \in 0 .. z : spot(h, c, i) \in Places
  BY <1>1, <1>2, <1>3
<1>5. \A e \in Elements : e \in Places /\ e # h
  BY <1>1 DEF Places
<1>6. \A e \in Elements : Fresh(c, z, e) => \A i \in 0 .. z : spot(h, c, i) # e
  BY <1>1, <1>3 DEF Fresh
<1> QED BY <1>1, <1>2, <1>4, <1>5, <1>6

(* What leads back to an element of a list is a place of the list. *)
LEMMA LeadsBack ==
  ASSUME NEW kd, NEW h \in Heads, NEW c, NEW z, Chain(c, z), NEW j \in 0 .. z, NEW x,
         leadsBack(kd, h, c, z, j, x)
  PROVE  x = h \/ \E i \in 1 .. z : x = c[i]
<1>1. j # z => j + 1 \in 1 .. z
  BY DEF Chain
<1> QED BY <1>1 DEF leadsBack

(* An element that is in no list is inserted. *)
Inserts(kd, lk, bk, lk2, bk2, h, c, z, j, e) ==
  \A x \in Places :
    /\ lk2[x] = IF x = spot(h, c, j) THEN e ELSE IF x = e THEN lk[spot(h, c, j)] ELSE lk[x]
    /\ bk2[x] = IF kd \in DoublyKinds /\ x = e THEN spot(h, c, j)
                ELSE IF leadsBack(kd, h, c, z, j, x) THEN e ELSE bk[x]

LEMMA InsertIsStored ==
  ASSUME NEW kd, NEW lk, NEW bk, NEW h \in Heads, NEW c, NEW z, Chain(c, z),
         NEW j \in 0 .. z, NEW e \in Elements, Fresh(c, z, e), NEW lk2, NEW bk2,
         Inserts(kd, lk, bk, lk2, bk2, h, c, z, j, e)
  PROVE  InsertStores(kd, lk, bk, lk2, bk2, h, c, z, j, e)
<1>1. /\ z \in Nat /\ h \in Places /\ e \in Places /\ e # h
      /\ \A i \in 1 .. z : c[i] \in Elements /\ c[i] # h /\ c[i] \in Places /\ c[i] # e
      /\ \A i, k \in 0 .. z : spot(h, c, i) = spot(h, c, k) => i = k
      /\ \A i \in 0 .. z : spot(h, c, i) \in Places /\ spot(h, c, i) # e
  BY ListPlaces DEF Fresh
<1>2. /\ lk2[spot(h, c, j)] = e
      /\ lk2[e] = lk[spot(h, c, j)]
      /\ \A i \in 0 .. z : i # j => lk2[spot(h, c, i)] = lk[spot(h, c, i)]
  BY <1>1 DEF Inserts
<1>3. ASSUME kd \in DoublyKinds
      PROVE  /\ bk2[e] = spot(h, c, j)
             /\ j # z => bk2[c[j + 1]] = e
             /\ \A i \in 1 .. z : i # j + 1 => bk2[c[i]] = bk[c[i]]
  <2>1. bk2[e] = spot(h, c, j)
    BY <1>1, <1>3 DEF Inserts
  <2>2. ASSUME j # z PROVE bk2[c[j + 1]] = e
    <3>1. j + 1 \in 1 .. z
      BY <1>1, <2>2
    <3>2. c[j + 1] \in Places /\ c[j + 1] # e
      BY <1>1, <3>1
    <3> QED BY <1>3, <2>2, <3>2 DEF leadsBack, Inserts
  <2>3. ASSUME NEW i \in 1 .. z, i # j + 1 PROVE bk2[c[i]] = bk[c[i]]
    <3>1. c[i] \in Places /\ c[i] # e /\ c[i] # h
      BY <1>1
    <3>2. j # z => c[i] # c[j + 1]
      <4>1. j # z => j + 1 \in 1 .. z
        BY <1>1
      <4> QED BY <2>3, <4>1 DEF Chain
    <3> QED BY <3>1, <3>2 DEF leadsBack, Inserts
  <2> QED BY <2>1, <2>2, <2>3
<1>4. kd \in TailedKinds => bk2[h] = IF j = z THEN e ELSE bk[h]
  <2>1. j # z => h # c[j + 1]
    <3>1. j # z => j + 1 \in 1 .. z
      BY <1>1
    <3> QED BY <1>1, <3>1
  <2> QED BY <1>1, <2>1 DEF leadsBack, Inserts
<1> QED BY <1>2, <1>3, <1>4 DEF InsertStores

LEMMA InsertLists ==
  ASSUME NEW kd, NEW lk, NEW bk, NEW ct, Lists(kd, lk, bk, ct),
         NEW h \in Heads, NEW c, NEW z, c = ct[h], z = Len(c),
         NEW j \in 0 .. z, NEW e \in Elements, InNone(ct, e),
         NEW lk2 \in [Places -> LinkValues], NEW bk2 \in [Places -> BackValues],
         Inserts(kd, lk, bk, lk2, bk2, h, c, z, j, e),
         NEW new \in Seq(Elements), Len(new) = z + 1, IsInserted(c, z, j, e, new)
  PROVE  Lists(kd, lk2, bk2, [ct EXCEPT ![h] = new])
<1>1. Chain(c, z) /\ Walk(kd, lk, bk, h, c, z) /\ z \in Nat /\ Fresh(c, z, e)
  BY DEF Lists, IsList, Chain, InNone
<1>2. InsertStores(kd, lk, bk, lk2, bk2, h, c, z, j, e)
  BY <1>1, InsertIsStored
<1>3. Chain(new, z + 1) /\ Walk(kd, lk2, bk2, h, new, z + 1)
  BY <1>1, <1>2, InsertChain, InsertWalk
<1>4. IsList(kd, lk2, bk2, h, new)
  BY <1>3 DEF IsList
<1>5. OthersSame(lk, bk, lk2, bk2, h, c, e)
  <2> SUFFICES ASSUME NEW x \in Places, x # h, x # e, \A i \in 1 .. Len(c) : x # c[i]
               PROVE  lk2[x] = lk[x] /\ bk2[x] = bk[x]
    BY DEF OthersSame
  <2>1. j = 0 \/ j \in 1 .. z
    BY <1>1
  <2>2. x # spot(h, c, j)
    BY <1>1, <2>1, ListPlaces
  <2>3. ~leadsBack(kd, h, c, z, j, x)
    BY <1>1, LeadsBack
  <2> QED BY <2>2, <2>3 DEF Inserts
<1>6. MadeOf(new, c, e)
  <2> SUFFICES ASSUME NEW i \in 1 .. Len(new)
               PROVE  new[i] = e \/ \E k \in 1 .. Len(c) : new[i] = c[k]
    BY DEF MadeOf
  <2>0. i \in 1 .. z + 1
    OBVIOUS
  <2>1. CASE i \in 1 .. j
    <3>1. i \in 1 .. z
      BY <1>1, <2>1
    <3> QED BY <2>1, <3>1 DEF IsInserted
  <2>2. CASE i = j + 1
    BY <2>2 DEF IsInserted
  <2>3. CASE i > j + 1
    <3>1. i - 1 \in j + 1 .. z /\ i - 1 \in 1 .. z /\ (i - 1) + 1 = i
      BY <1>1, <2>0, <2>3
    <3>2. new[i] = c[i - 1]
      BY <3>1 DEF IsInserted
    <3> QED BY <3>1, <3>2
  <2> QED BY <1>1, <2>0, <2>1, <2>2, <2>3
<1>7. Apart(ct, h, e)
  BY DEF Apart, InNone
<1> QED BY <1>4, <1>5, <1>6, <1>7, OneList

(* The element at a place of a list is removed. *)
Removes(kd, lk, bk, lk2, bk2, h, c, z, j) ==
  \A x \in Places :
    /\ lk2[x] = IF x = c[j] THEN Unlinked ELSE IF x = spot(h, c, j - 1) THEN lk[c[j]] ELSE lk[x]
    /\ bk2[x] = IF x = c[j] THEN Unlinked
                ELSE IF leadsBack(kd, h, c, z, j, x) THEN spot(h, c, j - 1) ELSE bk[x]

LEMMA RemoveIsStored ==
  ASSUME NEW kd, NEW lk, NEW bk, NEW h \in Heads, NEW c, NEW z, Chain(c, z),
         NEW j \in 1 .. z, NEW lk2, NEW bk2, Removes(kd, lk, bk, lk2, bk2, h, c, z, j)
  PROVE  RemoveStores(kd, lk, bk, lk2, bk2, h, c, z, j)
<1>1. /\ z \in Nat /\ h \in Places
      /\ \A i \in 1 .. z : spot(h, c, i) = c[i] /\ c[i] # h /\ c[i] \in Places
      /\ \A i, k \in 0 .. z : spot(h, c, i) = spot(h, c, k) => i = k
      /\ \A i \in 0 .. z : spot(h, c, i) \in Places
  BY ListPlaces
<1>2. j \in 0 .. z /\ j - 1 \in 0 .. z /\ j - 1 # j
  BY <1>1
<1>3. c[j] = spot(h, c, j) /\ c[j] # spot(h, c, j - 1)
  BY <1>1, <1>2
<1>4. /\ lk2[spot(h, c, j - 1)] = lk[c[j]]
      /\ \A i \in 0 .. z : i # j /\ i # j - 1 => lk2[spot(h, c, i)] = lk[spot(h, c, i)]
  BY <1>1, <1>2, <1>3 DEF Removes
<1>5. ASSUME kd \in DoublyKinds
      PROVE  /\ j # z => bk2[c[j + 1]] = spot(h, c, j - 1)
             /\ \A i \in 1 .. z : i # j /\ i # j + 1 => bk2[c[i]] = bk[c[i]]
  <2>1. ASSUME j # z PROVE bk2[c[j + 1]] = spot(h, c, j - 1)
    <3>1. j + 1 \in 1 .. z /\ j + 1 \in 0 .. z /\ j + 1 # j
      BY <1>1, <2>1
    <3>2. c[j + 1] \in Places /\ c[j + 1] # c[j]
      BY <1>1, <1>2, <3>1
    <3> QED BY <1>5, <2>1, <3>2 DEF leadsBack, Removes
  <2>2. ASSUME NEW i \in 1 .. z, i # j, i # j + 1 PROVE bk2[c[i]] = bk[c[i]]
    <3>1. c[i] \in Places /\ c[i] # c[j] /\ c[i] # h
      BY <1>1, <2>2 DEF Chain
    <3>2. j # z => c[i] # c[j + 1]
      <4>1. j # z => j + 1 \in 1 .. z
        BY <1>1
      <4> QED BY <2>2, <4>1 DEF Chain
    <3> QED BY <3>1, <3>2 DEF leadsBack, Removes
  <2> QED BY <2>1, <2>2
<1>6. kd \in TailedKinds => bk2[h] = IF j = z THEN spot(h, c, j - 1) ELSE bk[h]
  <2>1. j # z => h # c[j + 1]
    <3>1. j # z => j + 1 \in 1 .. z
      BY <1>1
    <3> QED BY <1>1, <3>1
  <2> QED BY <1>1, <2>1 DEF leadsBack, Removes
<1> QED BY <1>4, <1>5, <1>6 DEF RemoveStores

LEMMA RemoveLists ==
  ASSUME NEW kd, NEW lk, NEW bk, NEW ct, Lists(kd, lk, bk, ct),
         NEW h \in Heads, NEW c, NEW z, c = ct[h], z = Len(c), NEW j \in 1 .. z,
         NEW lk2 \in [Places -> LinkValues], NEW bk2 \in [Places -> BackValues],
         Removes(kd, lk, bk, lk2, bk2, h, c, z, j),
         NEW new \in Seq(Elements), Len(new) = z - 1, IsRemoved(c, z, j, new)
  PROVE  Lists(kd, lk2, bk2, [ct EXCEPT ![h] = new])
<1>1. Chain(c, z) /\ Walk(kd, lk, bk, h, c, z) /\ z \in Nat /\ c[j] \in Elements
  BY DEF Lists, IsList, Chain
<1>2. RemoveStores(kd, lk, bk, lk2, bk2, h, c, z, j)
  BY <1>1, RemoveIsStored
<1>3. Chain(new, z - 1) /\ Walk(kd, lk2, bk2, h, new, z - 1)
  BY <1>1, <1>2, RemoveChain, RemoveWalk
<1>4. IsList(kd, lk2, bk2, h, new)
  BY <1>3 DEF IsList
<1>5. OthersSame(lk, bk, lk2, bk2, h, c, c[j])
  <2> SUFFICES ASSUME NEW x \in Places, x # h, x # c[j], \A i \in 1 .. Len(c) : x # c[i]
               PROVE  lk2[x] = lk[x] /\ bk2[x] = bk[x]
    BY DEF OthersSame
  <2>1. j - 1 = 0 \/ j - 1 \in 1 .. z
    BY <1>1
  <2>2. x # spot(h, c, j - 1)
    BY <1>1, <2>1, ListPlaces
  <2>3. ~leadsBack(kd, h, c, z, j, x)
    <3>1. j \in 0 .. z
      BY <1>1
    <3> QED BY <1>1, <3>1, LeadsBack
  <2> QED BY <2>2, <2>3 DEF Removes
<1>6. MadeOf(new, c, c[j])
  <2> SUFFICES ASSUME NEW i \in 1 .. Len(new)
               PROVE  \E k \in 1 .. Len(c) : new[i] = c[k]
    BY DEF MadeOf
  <2>0. i \in 1 .. z - 1
    OBVIOUS
  <2>1. CASE i \in 1 .. j - 1
    <3>1. i \in 1 .. z
      BY <1>1, <2>1
    <3> QED BY <2>1, <3>1 DEF IsRemoved
  <2>2. CASE i >= j
    <3>1. i + 1 \in j + 1 .. z /\ i + 1 \in 1 .. z /\ (i + 1) - 1 = i
      BY <1>1, <2>0, <2>2
    <3>2. new[i] = c[i + 1]
      BY <3>1 DEF IsRemoved
    <3> QED BY <3>1, <3>2
  <2> QED BY <1>1, <2>0, <2>1, <2>2
<1>7. Apart(ct, h, c[j])
  BY DEF Apart, Lists, Disjoint, Fresh
<1> QED BY <1>1, <1>4, <1>5, <1>6, <1>7, OneList

(* An element takes the place of another one, in the kinds with both links. *)
Replaces(kd, lk, bk, lk2, bk2, h, c, z, j, e) ==
  \A x \in Places :
    /\ lk2[x] = IF x = c[j] THEN Unlinked ELSE IF x = spot(h, c, j - 1) THEN e
                ELSE IF x = e THEN lk[c[j]] ELSE lk[x]
    /\ bk2[x] = IF x = c[j] THEN Unlinked ELSE IF x = e THEN bk[c[j]]
                ELSE IF leadsBack(kd, h, c, z, j, x) THEN e ELSE bk[x]

LEMMA ReplaceIsStored ==
  ASSUME NEW kd, NEW lk, NEW bk, NEW h \in Heads, NEW c, NEW z, Chain(c, z),
         NEW j \in 1 .. z, NEW e \in Elements, Fresh(c, z, e), NEW lk2, NEW bk2,
         Replaces(kd, lk, bk, lk2, bk2, h, c, z, j, e)
  PROVE  ReplaceStores(kd, lk, bk, lk2, bk2, h, c, z, j, e)
<1>1. /\ z \in Nat /\ h \in Places /\ e \in Places /\ e # h
      /\ \A i \in 1 .. z : spot(h, c, i) = c[i] /\ c[i] # h /\ c[i] \in Places /\ c[i] # e
      /\ \A i, k \in 0 .. z : spot(h, c, i) = spot(h, c, k) => i = k
      /\ \A i \in 0 .. z : spot(h, c, i) \in Places /\ spot(h, c, i) # e
  BY ListPlaces DEF Fresh
<1>2. j \in 0 .. z /\ j - 1 \in 0 .. z /\ j - 1 # j
  BY <1>1
<1>3. c[j] = spot(h, c, j) /\ c[j] # spot(h, c, j - 1)
  BY <1>1, <1>2
<1>4. /\ lk2[spot(h, c, j - 1)] = e
      /\ lk2[e] = lk[c[j]]
      /\ \A i \in 0 .. z : i # j /\ i # j - 1 => lk2[spot(h, c, i)] = lk[spot(h, c, i)]
  BY <1>1, <1>2, <1>3 DEF Replaces
<1>5. ASSUME kd \in DoublyKinds
      PROVE  /\ bk2[e] = bk[c[j]]
             /\ j # z => bk2[c[j + 1]] = e
             /\ \A i \in 1 .. z : i # j /\ i # j + 1 => bk2[c[i]] = bk[c[i]]
  <2>0. bk2[e] = bk[c[j]]
    BY <1>1 DEF Replaces
  <2>1. ASSUME j # z PROVE bk2[c[j + 1]] = e
    <3>1. j + 1 \in 1 .. z /\ j + 1 \in 0 .. z /\ j + 1 # j
      BY <1>1, <2>1
    <3>2. c[j + 1] \in Places /\ c[j + 1] # c[j] /\ c[j + 1] # e
      BY <1>1, <1>2, <3>1
    <3> QED BY <1>5, <2>1, <3>2 DEF leadsBack, Replaces
  <2>2. ASSUME NEW i \in 1 .. z, i # j, i # j + 1 PROVE bk2[c[i]] = bk[c[i]]
    <3>1. c[i] \in Places /\ c[i] # c[j] /\ c[i] # h /\ c[i] # e
      BY <1>1, <2>2 DEF Chain
    <3>2. j # z => c[i] # c[j + 1]
      <4>1. j # z => j + 1 \in 1 .. z
        BY <1>1
      <4> QED BY <2>2, <4>1 DEF Chain
    <3> QED BY <3>1, <3>2 DEF leadsBack, Replaces
  <2> QED BY <2>0, <2>1, <2>2
<1>6. kd \in TailedKinds => bk2[h] = IF j = z THEN e ELSE bk[h]
  <2>1. j # z => h # c[j + 1]
    <3>1. j # z => j + 1 \in 1 .. z
      BY <1>1
    <3> QED BY <1>1, <3>1
  <2> QED BY <1>1, <2>1 DEF leadsBack, Replaces
<1> QED BY <1>4, <1>5, <1>6 DEF ReplaceStores

LEMMA ReplaceLists ==
  ASSUME NEW kd, NEW lk, NEW bk, NEW ct, Lists(kd, lk, bk, ct),
         NEW h \in Heads, NEW c, NEW z, c = ct[h], z = Len(c),
         NEW j \in 1 .. z, NEW e \in Elements, InNone(ct, e),
         NEW lk2 \in [Places -> LinkValues], NEW bk2 \in [Places -> BackValues],
         Replaces(kd, lk, bk, lk2, bk2, h, c, z, j, e)
  PROVE  Lists(kd, lk2, bk2, [ct EXCEPT ![h] = [c EXCEPT ![j] = e]])
<1> DEFINE new == [c EXCEPT ![j] = e]
<1>1. Chain(c, z) /\ Walk(kd, lk, bk, h, c, z) /\ z \in Nat /\ Fresh(c, z, e)
      /\ c \in [1 .. z -> Elements] /\ c \in Seq(Elements)
  BY DEF Lists, IsList, Chain, InNone
<1>2. ReplaceStores(kd, lk, bk, lk2, bk2, h, c, z, j, e)
  BY <1>1, ReplaceIsStored
<1>3. Chain(new, z) /\ Walk(kd, lk2, bk2, h, new, z)
  BY <1>1, <1>2, ReplaceChain, ReplaceWalk
<1>4. new \in Seq(Elements) /\ Len(new) = z /\ \A i \in 1 .. z : new[i] = IF i = j THEN e ELSE c[i]
  <2>1. new \in Seq(Elements) /\ Len(new) = z
    BY <1>1, ReplacedSeq
  <2> QED BY <1>1, <2>1
<1> HIDE DEF new
<1>5. IsList(kd, lk2, bk2, h, new)
  BY <1>3, <1>4 DEF IsList
<1>6. OthersSame(lk, bk, lk2, bk2, h, c, e)
  <2> SUFFICES ASSUME NEW x \in Places, x # h, x # e, \A i \in 1 .. Len(c) : x # c[i]
               PROVE  lk2[x] = lk[x] /\ bk2[x] = bk[x]
    BY DEF OthersSame
  <2>1. j - 1 = 0 \/ j - 1 \in 1 .. z
    BY <1>1
  <2>2. x # spot(h, c, j - 1) /\ x # c[j]
    BY <1>1, <2>1, ListPlaces
  <2>3. ~leadsBack(kd, h, c, z, j, x)
    <3>1. j \in 0 .. z
      BY <1>1
    <3> QED BY <1>1, <3>1, LeadsBack
  <2> QED BY <2>2, <2>3 DEF Replaces
<1>7. MadeOf(new, c, e)
  BY <1>4 DEF MadeOf
<1>8. Apart(ct, h, e)
  BY DEF Apart, InNone
<1>9. Lists(kd, lk2, bk2, [ct EXCEPT ![h] = new])
  BY <1>4, <1>5, <1>6, <1>7, <1>8, OneList
<1> QED BY <1>9 DEF new

-------------------------------------------------------------------------------
(* What the invariant says of one list. *)
LEMMA ListFacts ==
  ASSUME QueuesInv, NEW h \in Heads, NEW c, NEW z, c = contents[h], z = Len(c)
  PROVE  /\ Lists(kind, link, back, contents) /\ Chain(c, z) /\ z \in Nat
         /\ c \in Seq(Elements) /\ DOMAIN c = 1 .. z
         /\ link \in [Places -> LinkValues] /\ back \in [Places -> BackValues]
         /\ \A i \in 0 .. z : link[spot(h, c, i)] = IF i = z THEN Null ELSE c[i + 1]
         /\ kind \in DoublyKinds => \A i \in 1 .. z : back[c[i]] = spot(h, c, i - 1)
         /\ kind \in TailedKinds => back[h] = spot(h, c, z)
         /\ \A i \in 0 .. z : i # z => i + 1 \in 1 .. z
<1>1. Lists(kind, link, back, contents)
  BY DEF QueuesInv
<1>2. /\ link \in [Places -> LinkValues] /\ back \in [Places -> BackValues]
      /\ contents \in [Heads -> Seq(Elements)] /\ IsList(kind, link, back, h, c)
  BY <1>1 DEF Lists
<1>3. Chain(c, z) /\ Walk(kind, link, back, h, c, z) /\ c \in Seq(Elements)
  BY <1>2 DEF IsList
<1>4. z \in Nat
  BY <1>3 DEF Chain
<1>5. DOMAIN c = 1 .. z
  BY <1>3
<1>6. /\ \A i \in 0 .. z : link[spot(h, c, i)] = IF i = z THEN Null ELSE c[i + 1]
      /\ kind \in DoublyKinds => \A i \in 1 .. z : back[c[i]] = spot(h, c, i - 1)
      /\ kind \in TailedKinds => back[h] = spot(h, c, z)
  BY <1>3 DEF Walk
<1>7. \A i \in 0 .. z : i # z => i + 1 \in 1 .. z
  BY <1>4
<1> QED BY <1>1, <1>2, <1>3, <1>4, <1>5, <1>6, <1>7

LEMMA KindFlags ==
  ASSUME kind \in Kinds
  PROVE  (doubly <=> kind \in DoublyKinds) /\ (tailed <=> kind \in TailedKinds)
BY DEF Kinds, doubly, tailed, DoublyKinds, TailedKinds

LEMMA BehindPlaces ==
  ASSUME QueuesInv, NEW h \in Heads, NEW c, NEW z, c = contents[h], z = Len(c),
         NEW j \in 0 .. z, NEW v \in Places
  PROVE  /\ behindBack(back, h, link[spot(h, c, j)], v) \in [Places -> BackValues]
         /\ \A x \in Places : behindBack(back, h, link[spot(h, c, j)], v)[x] =
                                IF leadsBack(kind, h, c, z, j, x) THEN v ELSE back[x]
<1> DEFINE b2 == behindBack(back, h, link[spot(h, c, j)], v)
<1>1. /\ Chain(c, z) /\ z \in Nat /\ back \in [Places -> BackValues]
      /\ link[spot(h, c, j)] = IF j = z THEN Null ELSE c[j + 1]
      /\ j # z => j + 1 \in 1 .. z
  BY ListFacts
<1>2. (doubly <=> kind \in DoublyKinds) /\ (tailed <=> kind \in TailedKinds)
  BY KindFlags DEF QueuesInv
<1>3. /\ h \in Places /\ h # Null /\ v \in BackValues
      /\ j # z => c[j + 1] \in Places /\ c[j + 1] # Null
  BY <1>1, ListPlaces, Spots DEF BackValues
<1>4. CASE j = z
  <2>1. b2 = IF kind \in TailedKinds THEN [back EXCEPT ![h] = v] ELSE back
    BY <1>1, <1>2, <1>3, <1>4 DEF behindBack, stored
  <2> HIDE DEF b2
  <2>2. b2 \in [Places -> BackValues]
    BY <1>1, <1>3, <2>1
  <2>3. \A x \in Places : b2[x] = IF leadsBack(kind, h, c, z, j, x) THEN v ELSE back[x]
    BY <1>1, <1>3, <1>4, <2>1 DEF leadsBack
  <2> QED BY <2>2, <2>3 DEF b2
<1>5. CASE j # z
  <2> DEFINE y == c[j + 1]
  <2>1. b2 = IF kind \in DoublyKinds THEN [back EXCEPT ![y] = v] ELSE back
    BY <1>1, <1>2, <1>3, <1>5 DEF behindBack, stored
  <2> HIDE DEF b2
  <2>2. y \in Places
    BY <1>3, <1>5
  <2>3. \A x : leadsBack(kind, h, c, z, j, x) <=> kind \in DoublyKinds /\ x = y
    BY <1>5 DEF leadsBack
  <2> HIDE DEF y
  <2>4. b2 \in [Places -> BackValues]
    BY <1>1, <1>3, <2>1
  <2>5. \A x \in Places : b2[x] = IF leadsBack(kind, h, c, z, j, x) THEN v ELSE back[x]
    BY <1>1, <2>1, <2>2, <2>3
  <2> QED BY <2>4, <2>5 DEF b2
<1> QED BY <1>4, <1>5

(* Where the callers' elements are. *)
LEMMA IndexIs ==
  ASSUME QueuesInv, NEW h \in Heads, NEW c, NEW z, c = contents[h], z = Len(c), NEW j \in 1 .. z
  PROVE  indexOf(h, c[j]) = j
<1>1. Chain(c, z) /\ DOMAIN c = 1 .. z
  BY ListFacts
<1>2. indexOf(h, c[j]) = CHOOSE i \in 1 .. z : c[i] = c[j]
  BY <1>1 DEF indexOf
<1>3. \A i \in 1 .. z : c[i] = c[j] => i = j
  BY <1>1 DEF Chain
<1> QED BY <1>2, <1>3

LEMMA ElementAt ==
  ASSUME QueuesInv, NEW h \in Heads, NEW c, NEW z, c = contents[h], z = Len(c),
         NEW e \in ToSet(contents[h])
  PROVE  \E j \in 1 .. z : e = c[j] /\ indexOf(h, e) = j
<1>1. DOMAIN c = 1 .. z
  BY ListFacts
<1>2. PICK j \in 1 .. z : e = c[j]
  BY <1>1 DEF ToSet
<1> QED BY <1>2, IndexIs

LEMMA PlaceAt ==
  ASSUME QueuesInv, NEW h \in Heads, NEW c, NEW z, c = contents[h], z = Len(c),
         NEW p \in placesOf(h)
  PROVE  \E j \in 0 .. z : p = spot(h, c, j) /\ (IF p = h THEN 1 ELSE indexOf(h, p) + 1) = j + 1
<1>1. /\ z \in Nat /\ spot(h, c, 0) = h
      /\ \A i \in 1 .. z : spot(h, c, i) = c[i] /\ c[i] # h
  BY ListFacts, ListPlaces
<1>2. CASE p = h
  <2>1. 0 \in 0 .. z /\ 0 + 1 = 1
    BY <1>1
  <2> QED BY <1>1, <1>2, <2>1
<1>3. CASE p # h
  <2>1. p \in ToSet(contents[h])
    BY <1>3 DEF placesOf
  <2>2. PICK j \in 1 .. z : p = c[j] /\ indexOf(h, p) = j
    BY <2>1, ElementAt
  <2>3. j \in 0 .. z /\ p = spot(h, c, j)
    BY <1>1, <2>2
  <2> QED BY <1>3, <2>2, <2>3
<1> QED BY <1>2, <1>3

LEMMA NotListed ==
  ASSUME QueuesInv, NEW e \in Elements \ listed
  PROVE  e \in Elements /\ InNone(contents, e)
<1> SUFFICES ASSUME NEW g \in Heads, NEW i \in 1 .. Len(contents[g])
             PROVE  contents[g][i] # e
  BY DEF InNone, Fresh
<1>1. DOMAIN contents[g] = 1 .. Len(contents[g])
  BY ListFacts
<1>2. contents[g][i] \in ToSet(contents[g])
  BY <1>1 DEF ToSet
<1> QED BY <1>2 DEF listed

LEMMA FieldsOf == q = pair(link, back) /\ \A lk, bk : pair(lk, bk).link = lk /\ pair(lk, bk).back = bk
BY DEF q, pair

(* What a step that stores a list leaves. *)
LEMMA StoredFields ==
  ASSUME NEW l, NEW lk, NEW bk, NEW ct, l = pair(lk, bk), Store(l, ct)
  PROVE  link' = lk /\ back' = bk /\ contents' = ct /\ kind' = kind
<1>1. l.link = lk /\ l.back = bk
  BY DEF pair
<1> QED BY <1>1, Zenon DEF Store

LEMMA InsertAfterStored ==
  ASSUME NEW h, NEW p, NEW e, NEW ct, Store(insertAfter(q, h, p, e), ct)
  PROVE  /\ link' = [[link EXCEPT ![e] = link[p]] EXCEPT ![p] = e]
         /\ back' = pointed(behindBack(back, h, link[p], e), e, p)
         /\ contents' = ct /\ kind' = kind
<1>1. insertAfter(pair(link, back), h, p, e) =
        pair([[link EXCEPT ![e] = link[p]] EXCEPT ![p] = e],
             pointed(behindBack(back, h, link[p], e), e, p))
  BY InsertAfterFields
<1>2. Store(insertAfter(pair(link, back), h, p, e), ct)
  BY FieldsOf
<1> QED BY <1>1, <1>2, StoredFields

LEMMA InsertTailStored ==
  ASSUME NEW h, NEW e, NEW ct, Store(insertTail(q, h, e), ct)
  PROVE  /\ link' = [[link EXCEPT ![back[h]] = e] EXCEPT ![e] = Null]
         /\ back' = pointed([back EXCEPT ![h] = e], e, back[h])
         /\ contents' = ct /\ kind' = kind
<1>1. insertTail(pair(link, back), h, e) = pair(tailLink(link, back, h, e), tailBack(back, h, e))
  BY InsertTailFields
<1>2. Store(insertTail(pair(link, back), h, e), ct)
  BY FieldsOf
<1>3. link' = tailLink(link, back, h, e) /\ back' = tailBack(back, h, e) /\ contents' = ct /\ kind' = kind
  BY <1>1, <1>2, StoredFields
<1> QED BY <1>3 DEF tailLink, tailBack

LEMMA InsertBeforeStored ==
  ASSUME NEW x, NEW e, NEW ct, Store(insertBefore(q, x, e), ct)
  PROVE  /\ link' = [[link EXCEPT ![e] = x] EXCEPT ![back[x]] = e]
         /\ back' = [[back EXCEPT ![e] = back[x]] EXCEPT ![x] = e]
         /\ contents' = ct /\ kind' = kind
<1>1. insertBefore(pair(link, back), x, e) =
        pair([[link EXCEPT ![e] = x] EXCEPT ![back[x]] = e],
             [[back EXCEPT ![e] = back[x]] EXCEPT ![x] = e])
  BY InsertBeforeFields, SMTT(30)
<1>2. Store(insertBefore(pair(link, back), x, e), ct)
  BY FieldsOf
<1> QED BY <1>1, <1>2, StoredFields

LEMMA RemoveAfterStored ==
  ASSUME NEW h, NEW p, NEW e, e = link[p], NEW ct, Store(removeAfter(q, h, p), ct)
  PROVE  /\ link' = [[link EXCEPT ![p] = link[e]] EXCEPT ![e] = Unlinked]
         /\ back' = [behindBack(back, h, link[e], p) EXCEPT ![e] = Unlinked]
         /\ contents' = ct /\ kind' = kind
<1>1. removeAfter(pair(link, back), h, p) =
        pair([[link EXCEPT ![p] = link[e]] EXCEPT ![e] = Unlinked],
             [behindBack(back, h, link[e], p) EXCEPT ![e] = Unlinked])
  BY RemoveAfterFields
<1>2. Store(removeAfter(pair(link, back), h, p), ct)
  BY FieldsOf
<1> QED BY <1>1, <1>2, StoredFields

LEMMA UnlinkStored ==
  ASSUME NEW h, NEW e, NEW ct, Store(unlink(q, h, e), ct)
  PROVE  /\ link' = [[link EXCEPT ![back[e]] = link[e]] EXCEPT ![e] = Unlinked]
         /\ back' = [behindBack(back, h, link[e], back[e]) EXCEPT ![e] = Unlinked]
         /\ contents' = ct /\ kind' = kind
<1>1. unlink(pair(link, back), h, e) =
        pair([[link EXCEPT ![back[e]] = link[e]] EXCEPT ![e] = Unlinked],
             [behindBack(back, h, link[e], back[e]) EXCEPT ![e] = Unlinked])
  BY UnlinkFields
<1>2. Store(unlink(pair(link, back), h, e), ct)
  BY FieldsOf
<1> QED BY <1>1, <1>2, StoredFields

LEMMA ReplaceStored ==
  ASSUME NEW h, NEW e, NEW new, NEW ct, Store(replace(q, h, e, new), ct)
  PROVE  /\ link' = [[[link EXCEPT ![new] = link[e]] EXCEPT ![back[e]] = new] EXCEPT ![e] = Unlinked]
         /\ back' = [[behindBack(back, h, link[e], new) EXCEPT ![new] = back[e]] EXCEPT ![e] = Unlinked]
         /\ contents' = ct /\ kind' = kind
<1>1. replace(pair(link, back), h, e, new) =
        pair([[[link EXCEPT ![new] = link[e]] EXCEPT ![back[e]] = new] EXCEPT ![e] = Unlinked],
             [[behindBack(back, h, link[e], new) EXCEPT ![new] = back[e]] EXCEPT ![e] = Unlinked])
  BY ReplaceFields
<1>2. Store(replace(pair(link, back), h, e, new), ct)
  BY FieldsOf
<1> QED BY <1>1, <1>2, StoredFields

LEMMA ConcatStored ==
  ASSUME tailed, NEW h, NEW g, link[g] # Null, NEW ct, Store(concat(q, h, g), ct),
         NEW b2, b2 = IF doubly THEN stored(back, link[g], back[h]) ELSE back
  PROVE  /\ link' = [[link EXCEPT ![back[h]] = link[g]] EXCEPT ![g] = Null]
         /\ back' = stored(stored(b2, h, back[g]), g, g)
         /\ contents' = ct /\ kind' = kind
<1>1. concat(pair(link, back), h, g) =
        pair([[link EXCEPT ![back[h]] = link[g]] EXCEPT ![g] = Null],
             stored(stored(b2, h, back[g]), g, g))
  BY ConcatFields
<1>2. Store(concat(pair(link, back), h, g), ct)
  BY FieldsOf
<1> QED BY <1>1, <1>2, StoredFields

LEMMA ConcatEmptyStored ==
  ASSUME NEW h, NEW g, link[g] = Null, NEW ct, Store(concat(q, h, g), ct)
  PROVE  link' = link /\ back' = back /\ contents' = ct /\ kind' = kind
<1>1. concat(q, h, g) = pair(link, back)
  BY FieldsOf, Zenon DEF concat
<1> QED BY <1>1, StoredFields

LEMMA MoveStored ==
  ASSUME ~tailed, NEW h, NEW g, h # g, NEW ct, Store(move(q, h, g), ct),
         NEW k2, k2 = [link EXCEPT ![g] = Null]
  PROVE  /\ link' = IF k2[h] = Null THEN k2 ELSE [[k2 EXCEPT ![g] = k2[h]] EXCEPT ![h] = Null]
         /\ back' = IF k2[h] = Null THEN back ELSE stored(back, k2[h], g)
         /\ contents' = ct /\ kind' = kind
<1>1. move(pair(link, back), h, g) = moved(k2, back, h, g)
  BY MoveFields
<1>2. Store(move(pair(link, back), h, g), ct)
  BY FieldsOf
<1>3. CASE k2[h] = Null
  <2>1. move(pair(link, back), h, g) = pair(k2, back)
    BY <1>1, <1>3, Zenon DEF moved
  <2> QED BY <1>2, <1>3, <2>1, StoredFields
<1>4. CASE k2[h] # Null
  <2>1. move(pair(link, back), h, g) =
          pair([[k2 EXCEPT ![g] = k2[h]] EXCEPT ![h] = Null], stored(back, k2[h], g))
    BY <1>1, <1>4, Zenon DEF moved
  <2> QED BY <1>2, <1>4, <2>1, StoredFields
<1> QED BY <1>3, <1>4

-------------------------------------------------------------------------------
(* The macros keep the lists. *)
LEMMA InsertKeeps ==
  ASSUME QueuesInv, NEW h \in Heads, NEW c, NEW z, c = contents[h], z = Len(c),
         NEW j \in 0 .. z, NEW e \in Elements \ listed, kind' = kind,
         link' \in [Places -> LinkValues], back' \in [Places -> BackValues],
         Inserts(kind, link, back, link', back', h, c, z, j, e),
         NEW new \in Seq(Elements), Len(new) = z + 1, IsInserted(c, z, j, e, new),
         contents' = [contents EXCEPT ![h] = new]
  PROVE  QueuesInv'
<1>1. Lists(kind, link, back, contents) /\ InNone(contents, e) /\ e \in Elements
  BY ListFacts, NotListed
<1>2. Lists(kind, link', back', [contents EXCEPT ![h] = new])
  BY <1>1, InsertLists
<1> QED BY <1>2 DEF QueuesInv

LEMMA InsertAtKeeps ==
  ASSUME QueuesInv, NEW h \in Heads, NEW c, NEW z, c = contents[h], z = Len(c),
         NEW j \in 0 .. z, NEW e \in Elements \ listed, kind' = kind,
         link' \in [Places -> LinkValues], back' \in [Places -> BackValues],
         Inserts(kind, link, back, link', back', h, c, z, j, e),
         contents' = [contents EXCEPT ![h] = InsertAt(c, j + 1, e)]
  PROVE  QueuesInv'
<1> DEFINE new == putAt(c, j, e)
<1>1. c \in Seq(Elements) /\ z \in Nat /\ e \in Elements /\ z = Len(c) /\ j \in 0 .. z
  BY ListFacts
<1>2. new \in Seq(Elements) /\ Len(new) = z + 1 /\ IsInserted(c, z, j, e, new)
  BY ONLY <1>1, InsertedSeq, Zenon
<1> HIDE DEF new
<1>3. contents' = [contents EXCEPT ![h] = new]
  BY DEF new, putAt
<1> QED BY <1>2, <1>3, InsertKeeps

LEMMA InsertHeadOrAfterKeeps ==
  ASSUME QueuesInv, InsertHeadOrAfter
  PROVE  QueuesInv'
<1>1. PICK h \in Heads : \E p \in placesOf(h), e \in Elements \ listed : Inserted(h, p, e)
  BY DEF InsertHeadOrAfter
<1>2. PICK p \in placesOf(h), e \in Elements \ listed : Inserted(h, p, e)
  BY <1>1
<1> DEFINE c == contents[h]
           z == Len(c)
<1>3. c = contents[h] /\ z = Len(c)
  OBVIOUS
<1> HIDE DEF c, z
<1>4. PICK j \in 0 .. z : p = spot(h, c, j) /\ (IF p = h THEN 1 ELSE indexOf(h, p) + 1) = j + 1
  BY <1>3, PlaceAt
<1>5. /\ Chain(c, z) /\ z \in Nat /\ c \in Seq(Elements)
      /\ link \in [Places -> LinkValues] /\ back \in [Places -> BackValues]
      /\ contents \in [Heads -> Seq(Elements)]
  BY <1>3, ListFacts DEF Lists
<1>6. e \in Elements /\ Fresh(c, z, e) /\ p \in Places /\ e \in Places /\ p # e /\ e # Null
  <2>1. e \in Elements /\ Fresh(c, z, e)
    BY <1>3, NotListed DEF InNone
  <2>2. e # Null
    BY <2>1, ElementAssumption DEF Elements, Null
  <2> QED BY <1>4, <1>5, <2>1, <2>2, ListPlaces
<1> DEFINE bb == behindBack(back, h, link[p], e)
<1>7. /\ bb \in [Places -> BackValues]
      /\ \A x \in Places : bb[x] = IF leadsBack(kind, h, c, z, j, x) THEN e ELSE back[x]
  BY <1>3, <1>4, <1>6, BehindPlaces
<1>8. Store(insertAfter(q, h, p, e), [contents EXCEPT ![h] = InsertAt(c, j + 1, e)])
  BY <1>2, <1>3, <1>4 DEF Inserted
<1>9. /\ link' = [[link EXCEPT ![e] = link[p]] EXCEPT ![p] = e]
      /\ back' = IF doubly THEN stored(bb, e, p) ELSE bb
      /\ contents' = [contents EXCEPT ![h] = InsertAt(c, j + 1, e)]
      /\ kind' = kind
  <2> DEFINE ct == [contents EXCEPT ![h] = InsertAt(c, j + 1, e)]
  <2> HIDE DEF ct
  <2>1. Store(insertAfter(q, h, p, e), ct)
    BY <1>8 DEF ct
  <2>2. /\ link' = [[link EXCEPT ![e] = link[p]] EXCEPT ![p] = e]
        /\ back' = pointed(behindBack(back, h, link[p], e), e, p)
        /\ contents' = ct /\ kind' = kind
    BY <2>1, InsertAfterStored
  <2> QED BY <2>2 DEF pointed, ct
<1>10. doubly <=> kind \in DoublyKinds
  BY KindFlags DEF QueuesInv
<1> HIDE DEF bb
<1>11. link' \in [Places -> LinkValues]
  BY <1>5, <1>6, <1>9 DEF LinkValues
<1>12. back' \in [Places -> BackValues] /\
       \A x \in Places : back'[x] = IF kind \in DoublyKinds /\ x = e THEN p ELSE bb[x]
  BY <1>6, <1>7, <1>9, <1>10 DEF BackValues, stored
<1>13. \A x \in Places : link'[x] = IF x = p THEN e ELSE IF x = e THEN link[p] ELSE link[x]
  BY <1>5, <1>6, <1>9
<1>14. Inserts(kind, link, back, link', back', h, c, z, j, e)
  BY <1>4, <1>7, <1>12, <1>13 DEF Inserts
<1> QED BY <1>2, <1>3, <1>9, <1>11, <1>12, <1>14, InsertAtKeeps

LEMMA InsertTailKeeps ==
  ASSUME QueuesInv, InsertTail, kind \in TailedKinds
  PROVE  QueuesInv'
<1>1. PICK h \in Heads, e \in Elements \ listed :
        Store(insertTail(q, h, e), [contents EXCEPT ![h] = Append(@, e)])
  BY DEF InsertTail
<1> DEFINE c == contents[h]
           z == Len(c)
<1>3. c = contents[h] /\ z = Len(c)
  OBVIOUS
<1> HIDE DEF c, z
<1> DEFINE p == spot(h, c, z)
<1>5. /\ Chain(c, z) /\ z \in Nat /\ c \in Seq(Elements)
      /\ link \in [Places -> LinkValues] /\ back \in [Places -> BackValues]
      /\ contents \in [Heads -> Seq(Elements)]
      /\ back[h] = p /\ link[p] = Null
  BY <1>3, ListFacts DEF Lists
<1>6. e \in Elements /\ Fresh(c, z, e) /\ p \in Places /\ e \in Places /\ p # e /\ e # Null
      /\ h \in Places /\ h # e
  <2>1. e \in Elements /\ Fresh(c, z, e)
    BY <1>3, NotListed DEF InNone
  <2>2. e # Null
    BY <2>1, ElementAssumption DEF Elements, Null
  <2>3. z \in 0 .. z
    BY <1>5
  <2> QED BY <1>5, <2>1, <2>2, <2>3, ListPlaces
<1>9. /\ link' = [[link EXCEPT ![p] = e] EXCEPT ![e] = Null]
      /\ back' = IF doubly THEN stored([back EXCEPT ![h] = e], e, p) ELSE [back EXCEPT ![h] = e]
      /\ contents' = [contents EXCEPT ![h] = Append(c, e)]
      /\ kind' = kind
  <2> DEFINE ct == [contents EXCEPT ![h] = Append(c, e)]
  <2> HIDE DEF ct
  <2>1. Store(insertTail(q, h, e), ct)
    BY <1>1, <1>3 DEF ct
  <2>2. /\ link' = [[link EXCEPT ![back[h]] = e] EXCEPT ![e] = Null]
        /\ back' = pointed([back EXCEPT ![h] = e], e, back[h])
        /\ contents' = ct /\ kind' = kind
    BY <2>1, InsertTailStored
  <2> HIDE DEF p
  <2> QED BY <1>5, <2>2 DEF pointed, ct
<1>10. doubly <=> kind \in DoublyKinds
  BY KindFlags DEF QueuesInv
<1> HIDE DEF p
<1>11. link' \in [Places -> LinkValues]
  BY <1>5, <1>6, <1>9 DEF LinkValues
<1>12. back' \in [Places -> BackValues] /\
       \A x \in Places : back'[x] = IF kind \in DoublyKinds /\ x = e THEN p
                                    ELSE IF x = h THEN e ELSE back[x]
  <2> DEFINE b2 == [back EXCEPT ![h] = e]
  <2>1. b2 \in [Places -> BackValues] /\ \A x \in Places : b2[x] = IF x = h THEN e ELSE back[x]
    BY <1>5, <1>6 DEF BackValues
  <2> HIDE DEF b2
  <2>2. back' = IF kind \in DoublyKinds THEN [b2 EXCEPT ![e] = p] ELSE b2
    BY <1>6, <1>9, <1>10 DEF stored, b2
  <2> QED BY <1>6, <2>1, <2>2 DEF BackValues
<1>13. \A x \in Places : link'[x] = IF x = p THEN e ELSE IF x = e THEN link[p] ELSE link[x]
  BY <1>5, <1>6, <1>9
<1>14. Inserts(kind, link, back, link', back', h, c, z, z, e)
  <2>1. \A x : leadsBack(kind, h, c, z, z, x) <=> x = h
    BY DEF leadsBack
  <2> QED BY <2>1, <1>12, <1>13 DEF Inserts, p
<1> DEFINE new == Append(c, e)
<1>15. new \in Seq(Elements) /\ Len(new) = z + 1 /\ IsInserted(c, z, z, e, new)
  BY <1>3, <1>5, <1>6, AppendedSeq
<1>16. contents' = [contents EXCEPT ![h] = new] /\ z \in 0 .. z
  BY <1>5, <1>9
<1> HIDE DEF new
<1> QED BY <1>1, <1>3, <1>9, <1>11, <1>12, <1>14, <1>15, <1>16, InsertKeeps

LEMMA InsertBeforeKeeps ==
  ASSUME QueuesInv, InsertBefore, kind \in DoublyKinds
  PROVE  QueuesInv'
<1>1. PICK h \in Heads : \E x \in ToSet(contents[h]), e \in Elements \ listed :
        Store(insertBefore(q, x, e), [contents EXCEPT ![h] = InsertAt(@, indexOf(h, x), e)])
  BY DEF InsertBefore
<1>2. PICK y \in ToSet(contents[h]), e \in Elements \ listed :
        Store(insertBefore(q, y, e), [contents EXCEPT ![h] = InsertAt(@, indexOf(h, y), e)])
  BY <1>1
<1> DEFINE c == contents[h]
           z == Len(c)
<1>3. c = contents[h] /\ z = Len(c)
  OBVIOUS
<1> HIDE DEF c, z
<1>4. PICK m \in 1 .. z : y = c[m] /\ indexOf(h, y) = m
  BY <1>3, ElementAt
<1>5. /\ Chain(c, z) /\ z \in Nat /\ c \in Seq(Elements)
      /\ link \in [Places -> LinkValues] /\ back \in [Places -> BackValues]
      /\ contents \in [Heads -> Seq(Elements)]
      /\ back[y] = spot(h, c, m - 1)
      /\ \A i \in 0 .. z : link[spot(h, c, i)] = IF i = z THEN Null ELSE c[i + 1]
  BY <1>3, <1>4, ListFacts DEF Lists
<1> DEFINE j == m - 1
           p == spot(h, c, j)
<1>6. j \in 0 .. z /\ j # z /\ j + 1 = m
  BY <1>5
<1> HIDE DEF j
<1>7. link[p] = y /\ back[y] = p
  BY <1>4, <1>5, <1>6 DEF j
<1>8. /\ e \in Elements /\ p \in Places /\ e \in Places /\ p # e /\ e # Null
      /\ y \in Places /\ y \in Elements /\ y # e
  <2>1. e \in Elements /\ Fresh(c, z, e)
    BY <1>3, NotListed DEF InNone
  <2>2. e # Null
    BY <2>1, ElementAssumption DEF Elements, Null
  <2> QED BY <1>4, <1>5, <1>6, <2>1, <2>2, ListPlaces DEF Fresh
<1> HIDE DEF p
<1>9. /\ link' = [[link EXCEPT ![e] = y] EXCEPT ![p] = e]
      /\ back' = [[back EXCEPT ![e] = p] EXCEPT ![y] = e]
      /\ contents' = [contents EXCEPT ![h] = InsertAt(c, j + 1, e)]
      /\ kind' = kind
  <2> DEFINE ct == [contents EXCEPT ![h] = InsertAt(c, j + 1, e)]
  <2>0. contents[h] = c /\ indexOf(h, y) = j + 1
    BY <1>3, <1>4, <1>6
  <2>1. Store(insertBefore(q, y, e), ct)
    BY <1>2, <2>0
  <2> HIDE DEF ct
  <2>2. /\ link' = [[link EXCEPT ![e] = y] EXCEPT ![back[y]] = e]
        /\ back' = [[back EXCEPT ![e] = back[y]] EXCEPT ![y] = e]
        /\ contents' = ct /\ kind' = kind
    BY <2>1, InsertBeforeStored
  <2> QED BY <1>7, <2>2 DEF ct
<1>11. link' \in [Places -> LinkValues]
  BY <1>5, <1>8, <1>9 DEF LinkValues
<1>12. back' \in [Places -> BackValues] /\
       \A x \in Places : back'[x] = IF x = e THEN p ELSE IF x = y THEN e ELSE back[x]
  BY <1>5, <1>8, <1>9 DEF BackValues
<1>13. \A x \in Places : link'[x] = IF x = p THEN e ELSE IF x = e THEN link[p] ELSE link[x]
  BY <1>5, <1>7, <1>8, <1>9
<1>14. Inserts(kind, link, back, link', back', h, c, z, j, e)
  <2>1. \A x : leadsBack(kind, h, c, z, j, x) <=> x = y
    BY <1>4, <1>6 DEF leadsBack
  <2> QED BY <2>1, <1>12, <1>13 DEF Inserts, p
<1> QED BY <1>2, <1>3, <1>6, <1>9, <1>11, <1>12, <1>14, InsertAtKeeps

LEMMA RemoveKeeps ==
  ASSUME QueuesInv, NEW h \in Heads, NEW c, NEW z, c = contents[h], z = Len(c),
         NEW j \in 1 .. z, kind' = kind,
         link' \in [Places -> LinkValues], back' \in [Places -> BackValues],
         Removes(kind, link, back, link', back', h, c, z, j),
         contents' = [contents EXCEPT ![h] = RemoveAt(c, j)]
  PROVE  QueuesInv'
<1> DEFINE new == RemoveAt(c, j)
<1>1. c \in Seq(Elements) /\ z \in Nat /\ z = Len(c) /\ j \in 1 .. z
  BY ListFacts
<1>2. new \in Seq(Elements) /\ Len(new) = z - 1 /\ IsRemoved(c, z, j, new)
  BY ONLY <1>1, RemovedSeq, Zenon
<1>3. contents' = [contents EXCEPT ![h] = new]
  OBVIOUS
<1> HIDE DEF new
<1>4. Lists(kind, link, back, contents)
  BY ListFacts
<1>5. Lists(kind, link', back', [contents EXCEPT ![h] = new])
  BY <1>2, <1>4, RemoveLists
<1> QED BY <1>3, <1>5 DEF QueuesInv

(* What is stored when the element at a place of a list goes: the address  *)
(* of the pointer that leads to it is the place before.                    *)
LEMMA RemovedFrom ==
  ASSUME QueuesInv, NEW h \in Heads, NEW c, NEW z, c = contents[h], z = Len(c), NEW j \in 1 .. z,
         NEW p, p = spot(h, c, j - 1), NEW y, y = c[j], kind' = kind,
         link' = [[link EXCEPT ![p] = link[y]] EXCEPT ![y] = Unlinked],
         back' = [behindBack(back, h, link[y], p) EXCEPT ![y] = Unlinked],
         contents' = [contents EXCEPT ![h] = RemoveAt(c, j)]
  PROVE  QueuesInv'
<1>1. /\ Chain(c, z) /\ z \in Nat
      /\ link \in [Places -> LinkValues] /\ back \in [Places -> BackValues]
      /\ contents \in [Heads -> Seq(Elements)]
  BY ListFacts DEF Lists
<1>2. j - 1 \in 0 .. z /\ j \in 0 .. z /\ j - 1 # j
  BY <1>1
<1>3. y = spot(h, c, j) /\ y \in Places /\ y \in Elements /\ p \in Places /\ p # y
  BY <1>1, <1>2, ListPlaces
<1> DEFINE bb == behindBack(back, h, link[y], p)
<1>4. /\ bb \in [Places -> BackValues]
      /\ \A x \in Places : bb[x] = IF leadsBack(kind, h, c, z, j, x) THEN p ELSE back[x]
  BY <1>2, <1>3, BehindPlaces
<1>5. back' = [bb EXCEPT ![y] = Unlinked]
  OBVIOUS
<1> HIDE DEF bb
<1>6. link' \in [Places -> LinkValues] /\ back' \in [Places -> BackValues]
  BY <1>1, <1>3, <1>4, <1>5 DEF LinkValues, BackValues
<1>7. \A x \in Places : link'[x] = IF x = y THEN Unlinked ELSE IF x = p THEN link[y] ELSE link[x]
  BY <1>1, <1>3
<1>8. \A x \in Places : back'[x] = IF x = y THEN Unlinked ELSE bb[x]
  BY <1>3, <1>4, <1>5
<1>9. Removes(kind, link, back, link', back', h, c, z, j)
  BY <1>4, <1>7, <1>8 DEF Removes
<1> QED BY <1>6, <1>9, RemoveKeeps

LEMMA RemoveBehindKeeps ==
  ASSUME QueuesInv, RemoveBehind
  PROVE  QueuesInv'
<1>1. PICK h \in Heads : \E p \in placesOf(h) :
        link[p] # Null /\ Removed(removeAfter(q, h, p), h, link[p])
  BY DEF RemoveBehind
<1>2. PICK p \in placesOf(h) : link[p] # Null /\ Removed(removeAfter(q, h, p), h, link[p])
  BY <1>1
<1> DEFINE c == contents[h]
           z == Len(c)
<1>3. c = contents[h] /\ z = Len(c)
  OBVIOUS
<1> HIDE DEF c, z
<1>4. PICK i \in 0 .. z : p = spot(h, c, i)
  BY <1>3, PlaceAt
<1>5. /\ z \in Nat /\ \A k \in 0 .. z : link[spot(h, c, k)] = IF k = z THEN Null ELSE c[k + 1]
  BY <1>3, ListFacts, SMTT(30)
<1> DEFINE j == i + 1
<1>6. i # z /\ link[p] = c[i + 1]
  BY <1>2, <1>4, <1>5
<1>7. j \in 1 .. z /\ j - 1 = i /\ link[p] = c[j]
  BY <1>5, <1>6
<1> HIDE DEF j
<1> DEFINE y == c[j]
           ct == [contents EXCEPT ![h] = RemoveAt(@, indexOf(h, y))]
<1>8. indexOf(h, y) = j
  BY <1>3, <1>7, IndexIs
<1>9. y = link[p] /\ Store(removeAfter(q, h, p), ct)
  BY <1>2, <1>7 DEF Removed
<1>10. ct = [contents EXCEPT ![h] = RemoveAt(c, j)]
  BY <1>3, <1>8
<1> HIDE DEF ct, y
<1>11. /\ link' = [[link EXCEPT ![p] = link[y]] EXCEPT ![y] = Unlinked]
       /\ back' = [behindBack(back, h, link[y], p) EXCEPT ![y] = Unlinked]
       /\ contents' = ct /\ kind' = kind
  BY <1>9, RemoveAfterStored
<1>12. p = spot(h, c, j - 1) /\ y = c[j]
  BY <1>4, <1>7 DEF y
<1> QED BY <1>1, <1>3, <1>7, <1>10, <1>11, <1>12, RemovedFrom

LEMMA RemoveElementKeeps ==
  ASSUME QueuesInv, RemoveElement, kind \in DoublyKinds
  PROVE  QueuesInv'
<1>1. PICK h \in Heads : \E y \in ToSet(contents[h]) : Removed(unlink(q, h, y), h, y)
  BY DEF RemoveElement
<1>2. PICK y \in ToSet(contents[h]) : Removed(unlink(q, h, y), h, y)
  BY <1>1
<1> DEFINE c == contents[h]
           z == Len(c)
<1>3. c = contents[h] /\ z = Len(c)
  OBVIOUS
<1> HIDE DEF c, z
<1>4. PICK j \in 1 .. z : y = c[j] /\ indexOf(h, y) = j
  BY <1>3, ElementAt
<1> DEFINE ct == [contents EXCEPT ![h] = RemoveAt(@, indexOf(h, y))]
           p  == back[y]
<1>5. p = spot(h, c, j - 1)
  BY <1>3, <1>4, ListFacts
<1>6. Store(unlink(q, h, y), ct)
  BY <1>2 DEF Removed
<1>7. ct = [contents EXCEPT ![h] = RemoveAt(c, j)]
  BY <1>3, <1>4
<1> HIDE DEF ct
<1>8. /\ link' = [[link EXCEPT ![p] = link[y]] EXCEPT ![y] = Unlinked]
      /\ back' = [behindBack(back, h, link[y], p) EXCEPT ![y] = Unlinked]
      /\ contents' = ct /\ kind' = kind
  BY <1>6, UnlinkStored
<1> HIDE DEF p
<1> QED BY <1>1, <1>3, <1>4, <1>5, <1>7, <1>8, RemovedFrom

LEMMA ReplaceKeeps ==
  ASSUME QueuesInv, ReplaceElement, kind \in DoublyKinds
  PROVE  QueuesInv'
<1>1. PICK h \in Heads : \E y \in ToSet(contents[h]), e \in Elements \ listed :
        Store(replace(q, h, y, e), [contents EXCEPT ![h][indexOf(h, y)] = e])
  BY DEF ReplaceElement
<1>2. PICK y \in ToSet(contents[h]), e \in Elements \ listed :
        Store(replace(q, h, y, e), [contents EXCEPT ![h][indexOf(h, y)] = e])
  BY <1>1
<1> DEFINE c == contents[h]
           z == Len(c)
<1>3. c = contents[h] /\ z = Len(c)
  OBVIOUS
<1> HIDE DEF c, z
<1>4. PICK j \in 1 .. z : y = c[j] /\ indexOf(h, y) = j
  BY <1>3, ElementAt
<1>5. /\ Chain(c, z) /\ z \in Nat
      /\ link \in [Places -> LinkValues] /\ back \in [Places -> BackValues]
      /\ contents \in [Heads -> Seq(Elements)]
      /\ back[y] = spot(h, c, j - 1)
      /\ Lists(kind, link, back, contents)
  BY <1>3, <1>4, ListFacts DEF Lists
<1> DEFINE p == back[y]
           ct == [contents EXCEPT ![h][indexOf(h, y)] = e]
           bb == behindBack(back, h, link[y], e)
<1>6. /\ link' = [[[link EXCEPT ![e] = link[y]] EXCEPT ![p] = e] EXCEPT ![y] = Unlinked]
      /\ back' = [[bb EXCEPT ![e] = p] EXCEPT ![y] = Unlinked]
      /\ contents' = ct /\ kind' = kind
  <2> HIDE DEF ct
  <2>1. Store(replace(q, h, y, e), ct)
    BY <1>2 DEF ct
  <2> QED BY <2>1, ReplaceStored
<1>7. ct = [contents EXCEPT ![h] = [c EXCEPT ![j] = e]]
  BY <1>3, <1>4
<1>8. j - 1 \in 0 .. z /\ j \in 0 .. z /\ j - 1 # j
  BY <1>5
<1>9. e \in Elements /\ InNone(contents, e) /\ Fresh(c, z, e)
  BY <1>3, NotListed DEF InNone
<1>10. /\ y = spot(h, c, j) /\ y \in Places /\ y \in Elements /\ p \in Places /\ p # y
       /\ e \in Places /\ e # y /\ e # p
  BY <1>4, <1>5, <1>8, <1>9, ListPlaces
<1>11. /\ bb \in [Places -> BackValues]
       /\ \A x \in Places : bb[x] = IF leadsBack(kind, h, c, z, j, x) THEN e ELSE back[x]
  BY <1>3, <1>8, <1>10, BehindPlaces
<1> HIDE DEF bb, p, ct
<1>12. link' \in [Places -> LinkValues] /\ back' \in [Places -> BackValues]
  BY <1>5, <1>6, <1>9, <1>10, <1>11 DEF LinkValues, BackValues
<1>13. \A x \in Places : link'[x] = IF x = y THEN Unlinked ELSE IF x = p THEN e
                                    ELSE IF x = e THEN link[y] ELSE link[x]
  BY <1>5, <1>6, <1>10
<1>14. \A x \in Places : back'[x] = IF x = y THEN Unlinked ELSE IF x = e THEN p ELSE bb[x]
  BY <1>6, <1>10, <1>11
<1>15. p = spot(h, c, j - 1) /\ p = back[y]
  BY <1>5 DEF p
<1>16. Replaces(kind, link, back, link', back', h, c, z, j, e)
  BY <1>4, <1>11, <1>13, <1>14, <1>15 DEF Replaces
<1>17. Lists(kind, link', back', [contents EXCEPT ![h] = [c EXCEPT ![j] = e]])
  BY <1>1, <1>3, <1>5, <1>9, <1>12, <1>16, ReplaceLists
<1> QED BY <1>6, <1>7, <1>17 DEF QueuesInv

-------------------------------------------------------------------------------
(* A step that changes both lists and leaves one of them empty. *)
LEMMA TwoLists ==
  ASSUME NEW kd, NEW ct \in [Heads -> Seq(Elements)], NEW h \in Heads, NEW g \in Heads, h # g,
         NEW lk2 \in [Places -> LinkValues], NEW bk2 \in [Places -> BackValues],
         NEW new \in Seq(Elements), IsList(kd, lk2, bk2, h, new),
         lk2[g] = Null, kd \in TailedKinds => bk2[g] = g,
         NEW ct2 \in [Heads -> Seq(Elements)], ct2[h] = new, ct2[g] = << >>
  PROVE  Lists(kd, lk2, bk2, ct2)
<1>1. \A f2 \in Heads : f2 = h \/ f2 = g
  BY DEF Heads
<1>2. Len(<< >>) = 0
  BY EmptySeq
<1>3. IsList(kd, lk2, bk2, g, << >>)
  <2>1. Walk(kd, lk2, bk2, g, << >>, 0)
    BY EmptyWalk
  <2>2. Chain(<< >>, 0)
    <3>1. << >> \in [1 .. 0 -> Elements]
      OBVIOUS
    <3> QED BY <3>1 DEF Chain
  <2> QED BY <1>2, <2>1, <2>2 DEF IsList
<1>4. Disjoint(new, << >>) /\ Disjoint(<< >>, new)
  BY <1>2 DEF Disjoint
<1>5. \A f2 \in Heads : IsList(kd, lk2, bk2, f2, ct2[f2])
  BY <1>1, <1>3
<1>6. \A f2, f3 \in Heads : f2 # f3 => Disjoint(ct2[f2], ct2[f3])
  BY <1>1, <1>4
<1> QED BY <1>5, <1>6 DEF Lists

(* The places of two lists. *)
LEMMA TwoPlaces ==
  ASSUME QueuesInv, NEW h \in Heads, NEW g \in Heads, h # g,
         NEW c, NEW y, c = contents[h], y = Len(c), NEW d, NEW z, d = contents[g], z = Len(d)
  PROVE  \A i \in 1 .. z : /\ d[i] \in Places /\ d[i] # g /\ d[i] # h
                           /\ \A k \in 1 .. y : d[i] # c[k]
                           /\ \A k \in 0 .. y : d[i] # spot(h, c, k)
<1>1. Chain(c, y) /\ Chain(d, z) /\ Lists(kind, link, back, contents)
  BY ListFacts
<1>2. /\ \A i \in 1 .. z : d[i] \in Elements /\ d[i] # g /\ d[i] \in Places
      /\ h \notin Elements
  BY <1>1, ListPlaces
<1>3. \A i \in 1 .. z, k \in 1 .. y : d[i] # c[k]
  BY <1>1 DEF Lists, Disjoint
<1>4. \A k \in 0 .. y : k = 0 \/ k \in 1 .. y
  BY <1>1 DEF Chain
<1>5. \A i \in 1 .. z, k \in 0 .. y : d[i] # spot(h, c, k)
  BY <1>2, <1>3, <1>4 DEF spot
<1> QED BY <1>2, <1>3, <1>5

LEMMA ConcatKeeps ==
  ASSUME QueuesInv, Concat, kind \in TailedKinds
  PROVE  QueuesInv'
<1>1. PICK h \in Heads, g \in Heads :
        /\ h # g
        /\ Store(concat(q, h, g), [contents EXCEPT ![h] = contents[h] \o contents[g], ![g] = << >>])
  BY DEF Concat
<1> DEFINE c == contents[h]
           y == Len(c)
           d == contents[g]
           z == Len(d)
           new == joined(c, d)
           ct == [contents EXCEPT ![h] = new, ![g] = << >>]
<1>2. c = contents[h] /\ y = Len(c) /\ d = contents[g] /\ z = Len(d)
  OBVIOUS
<1>3. Store(concat(q, h, g), ct)
  BY <1>1 DEF joined
<1> HIDE DEF c, d, y, z, new, ct
<1>4. /\ Chain(c, y) /\ y \in Nat /\ c \in Seq(Elements)
      /\ Chain(d, z) /\ z \in Nat /\ d \in Seq(Elements)
      /\ link \in [Places -> LinkValues] /\ back \in [Places -> BackValues]
      /\ contents \in [Heads -> Seq(Elements)]
      /\ Lists(kind, link, back, contents)
  BY <1>2, ListFacts DEF Lists
<1>5. /\ back[h] = spot(h, c, y) /\ back[g] = spot(g, d, z)
      /\ \A i \in 0 .. z : link[spot(g, d, i)] = IF i = z THEN Null ELSE d[i + 1]
  <2>1. back[h] = spot(h, c, y)
    BY <1>2, ListFacts
  <2>2. /\ back[g] = spot(g, d, z)
        /\ \A i \in 0 .. z : link[spot(g, d, i)] = IF i = z THEN Null ELSE d[i + 1]
    BY <1>2, ListFacts
  <2> QED BY <2>1, <2>2
<1>6. Walk(kind, link, back, h, c, y) /\ Walk(kind, link, back, g, d, z)
  BY <1>2, <1>4 DEF Lists, IsList
<1>7. new \in Seq(Elements) /\ Len(new) = y + z /\ IsConcat(c, y, d, z, new)
  BY <1>2, <1>4, JoinedSeqs DEF new
<1>8. ct \in [Heads -> Seq(Elements)] /\ ct[h] = new /\ ct[g] = << >>
  <2>1. << >> \in Seq(Elements)
    BY EmptySeq
  <2> QED BY <1>1, <1>4, <1>7, <2>1 DEF ct
<1>9. /\ h \in Places /\ g \in Places
      /\ \A i \in 1 .. y : c[i] \in Places /\ c[i] # h /\ c[i] # g /\ spot(h, c, i) = c[i]
                             /\ \A k \in 1 .. z : c[i] # d[k]
      /\ \A i, k \in 0 .. y : spot(h, c, i) = spot(h, c, k) => i = k
      /\ \A i \in 0 .. y : spot(h, c, i) \in Places /\ spot(h, c, i) # g
      /\ spot(g, d, 0) = g
  <2>1. /\ \A i \in 1 .. y : c[i] \in Places /\ c[i] # h /\ c[i] # g /\ \A k \in 1 .. z : c[i] # d[k]
    BY <1>1, <1>2, TwoPlaces
  <2>2. /\ h \in Places /\ g \in Places /\ spot(g, d, 0) = g /\ spot(h, c, 0) = h
        /\ \A i \in 1 .. y : spot(h, c, i) = c[i]
        /\ \A i, k \in 0 .. y : spot(h, c, i) = spot(h, c, k) => i = k
        /\ \A i \in 0 .. y : spot(h, c, i) \in Places
    BY <1>4, ListPlaces
  <2>3. \A i \in 0 .. y : i = 0 \/ i \in 1 .. y
    BY <1>4
  <2> QED BY <1>1, <2>1, <2>2, <2>3
<1>10. \A i \in 1 .. z : /\ d[i] \in Places /\ d[i] # g /\ d[i] # h
                         /\ \A k \in 1 .. y : d[i] # c[k]
                         /\ \A k \in 0 .. y : d[i] # spot(h, c, k)
  BY <1>1, <1>2, TwoPlaces
<1>11. CASE z = 0
  <2>1. link[g] = Null
    BY <1>5, <1>9, <1>11
  <2>2. link' = link /\ back' = back /\ contents' = ct /\ kind' = kind
    BY <1>3, <2>1, ConcatEmptyStored
  <2>3. d = << >>
    BY <1>2, <1>4, <1>11, EmptySeq
  <2>4. new = c
    BY <1>4, <2>3, ConcatEmptySeq DEF new, joined
  <2>5. ct = contents
    BY <1>2, <1>4, <2>3, <2>4 DEF ct
  <2> QED BY <2>2, <2>5 DEF QueuesInv
<1>12. CASE z # 0
  <2> DEFINE x  == d[1]
             p  == spot(h, c, y)
             e  == spot(g, d, z)
             b2 == IF doubly THEN stored(back, link[g], back[h]) ELSE back
  <2>1. 1 \in 1 .. z /\ 0 \in 0 .. z /\ 0 # z /\ 0 + 1 = 1 /\ y \in 0 .. y
    BY <1>4, <1>12
  <2>2. link[g] = x /\ x # Null
    <3>1. link[g] = x
      BY <1>5, <1>9, <2>1
    <3> QED BY <1>4, <2>1, <3>1, Spots
  <2>3. (doubly <=> kind \in DoublyKinds) /\ tailed
    BY KindFlags DEF QueuesInv
  <2>4. /\ link' = [[link EXCEPT ![back[h]] = link[g]] EXCEPT ![g] = Null]
        /\ back' = stored(stored(b2, h, back[g]), g, g)
        /\ contents' = ct /\ kind' = kind
    BY <1>3, <2>2, <2>3, ConcatStored
  <2>5. b2 = IF kind \in DoublyKinds THEN [back EXCEPT ![x] = p] ELSE back
    BY <1>5, <2>2, <2>3 DEF stored
  <2>6. h # Null /\ g # Null
    BY DEF Heads, Null
  <2>7. link' = [[link EXCEPT ![p] = x] EXCEPT ![g] = Null] /\ back' = [[b2 EXCEPT ![h] = e] EXCEPT ![g] = g]
    BY <1>5, <2>2, <2>4, <2>6 DEF stored
  <2>8. x \in Places /\ x \in Elements /\ p \in Places /\ e \in Places /\ p # g /\ x # g /\ x # h
    <3>1. x \in Elements
      BY <1>4, <2>1, Spots
    <3>2. z \in 0 .. z
      BY <1>4
    <3> QED BY <1>4, <1>9, <1>10, <2>1, <3>1, <3>2, ListPlaces
  <2>9. p = spot(h, c, y) /\ e = back[g]
    BY <1>5
  <2> HIDE DEF b2, x, p, e
  <2>10. b2 \in [Places -> BackValues]
         /\ \A w \in Places : b2[w] = IF kind \in DoublyKinds /\ w = x THEN p ELSE back[w]
    <3>1. p \in BackValues
      BY <2>8 DEF BackValues
    <3> QED BY <1>4, <2>5, <2>8, <3>1
  <2>11. link' \in [Places -> LinkValues]
    BY <1>4, <2>7, <2>8 DEF LinkValues
  <2>12. back' \in [Places -> BackValues]
    BY <1>9, <2>7, <2>8, <2>10 DEF BackValues
  <2>13. \A w \in Places : link'[w] = IF w = g THEN Null ELSE IF w = p THEN x ELSE link[w]
    BY <1>4, <1>9, <2>7, <2>8
  <2>14. \A w \in Places : back'[w] = IF w = g THEN g ELSE IF w = h THEN e ELSE b2[w]
    BY <1>9, <2>7, <2>8, <2>10
  <2>15. link'[g] = Null /\ back'[g] = g
    BY <1>9, <2>13, <2>14
  <2>16. ConcatStores(kind, link, back, link', back', h, g, c, y, d, z)
    <3>1. link'[spot(h, c, y)] = link[g]
      BY <2>2, <2>8, <2>9, <2>13 DEF x
    <3>2. \A i \in 0 .. y : i # y => link'[spot(h, c, i)] = link[spot(h, c, i)]
      BY <1>9, <2>1, <2>9, <2>13
    <3>3. \A i \in 1 .. z : link'[d[i]] = link[d[i]]
      BY <1>10, <2>1, <2>9, <2>13
    <3>4. ASSUME kind \in DoublyKinds
          PROVE  /\ back'[d[1]] = spot(h, c, y)
                 /\ \A i \in 1 .. y : back'[c[i]] = back[c[i]]
                 /\ \A i \in 2 .. z : back'[d[i]] = back[d[i]]
      <4>1. back'[x] = spot(h, c, y)
        BY <2>8, <2>9, <2>10, <2>14, <3>4
      <4>2. \A i \in 1 .. y : back'[c[i]] = back[c[i]]
        <5>1. \A i \in 1 .. y : c[i] # x
          BY <1>9, <2>1 DEF x
        <5> QED BY <1>9, <2>10, <2>14, <5>1
      <4>3. \A i \in 2 .. z : back'[d[i]] = back[d[i]]
        <5>1. \A i \in 2 .. z : i \in 1 .. z /\ i # 1
          BY <1>4
        <5>2. \A i \in 2 .. z : d[i] # x
          BY <1>4, <2>1, <5>1 DEF Chain, x
        <5> QED BY <1>10, <2>10, <2>14, <5>1, <5>2
      <4> QED BY <4>1, <4>2, <4>3 DEF x
    <3>5. back'[h] = back[g]
      BY <1>1, <1>9, <2>9, <2>14
    <3> QED BY <3>1, <3>2, <3>3, <3>4, <3>5 DEF ConcatStores
  <2>17. Walk(kind, link', back', h, new, y + z)
    BY <1>4, <1>6, <1>7, <1>12, <2>16, ConcatWalk
  <2>18. Chain(new, y + z)
    BY <1>4, <1>7, <1>9, ConcatChain
  <2>19. IsList(kind, link', back', h, new)
    BY <1>7, <2>17, <2>18 DEF IsList
  <2>20. Lists(kind, link', back', ct)
    BY <1>1, <1>4, <1>7, <1>8, <2>11, <2>12, <2>15, <2>19, TwoLists
  <2> QED BY <2>4, <2>20 DEF QueuesInv
<1> QED BY <1>11, <1>12

LEMMA MoveKeeps ==
  ASSUME QueuesInv, Move, kind = "LIST"
  PROVE  QueuesInv'
<1>1. PICK h \in Heads, g \in Heads :
        /\ h # g /\ contents[g] = << >>
        /\ Store(move(q, h, g), [contents EXCEPT ![g] = contents[h], ![h] = << >>])
  BY DEF Move
<1> DEFINE c == contents[h]
           z == Len(c)
           ct == [contents EXCEPT ![g] = c, ![h] = << >>]
<1>2. c = contents[h] /\ z = Len(c)
  OBVIOUS
<1>3. Store(move(q, h, g), ct)
  BY <1>1
<1> HIDE DEF c, z
<1>4. /\ Chain(c, z) /\ z \in Nat /\ c \in Seq(Elements)
      /\ link \in [Places -> LinkValues] /\ back \in [Places -> BackValues]
      /\ contents \in [Heads -> Seq(Elements)]
      /\ Lists(kind, link, back, contents)
  BY <1>2, ListFacts DEF Lists
<1>5. Walk(kind, link, back, h, c, z)
  BY <1>2, <1>4 DEF Lists, IsList
<1>6. ct \in [Heads -> Seq(Elements)] /\ ct[g] = c /\ ct[h] = << >>
  <2>1. << >> \in Seq(Elements)
    BY EmptySeq
  <2> QED BY <1>1, <1>4, <2>1
<1> HIDE DEF ct
<1>7. kind \notin TailedKinds /\ ~tailed
  BY DEF TailedKinds, tailed
<1>8. /\ h \in Places /\ g \in Places /\ h # Null /\ g # Null /\ spot(h, c, 0) = h
      /\ \A i \in 1 .. z : c[i] \in Places /\ c[i] \in Elements /\ c[i] # h /\ c[i] # g /\ c[i] # Null
  <2>1. g \notin Elements /\ g \in Places
    BY <1>4, ListPlaces
  <2> QED BY <1>4, <2>1, ListPlaces, Spots
<1>9. link[h] = IF z = 0 THEN Null ELSE c[1]
  <2>1. 0 \in 0 .. z /\ 0 + 1 = 1
    BY <1>4
  <2> QED BY <1>2, <1>8, <2>1, ListFacts
<1> DEFINE k2 == [link EXCEPT ![g] = Null]
           x  == link[h]
<1>10. /\ link' = IF k2[h] = Null THEN k2 ELSE [[k2 EXCEPT ![g] = k2[h]] EXCEPT ![h] = Null]
       /\ back' = IF k2[h] = Null THEN back ELSE stored(back, k2[h], g)
       /\ contents' = ct /\ kind' = kind
  BY <1>1, <1>3, <1>7, MoveStored
<1>11. k2[h] = x
  BY <1>1, <1>4, <1>8
<1>12. k2 \in [Places -> LinkValues] /\ \A w \in Places : k2[w] = IF w = g THEN Null ELSE link[w]
  BY <1>4, <1>8 DEF LinkValues
<1> HIDE DEF k2, x
<1>13. /\ link' \in [Places -> LinkValues] /\ back' \in [Places -> BackValues]
       /\ \A w \in Places : link'[w] = IF w = h THEN Null ELSE IF w = g THEN x ELSE link[w]
       /\ \A w \in Places : back'[w] = IF x # Null /\ w = x THEN g ELSE back[w]
  <2>1. CASE x = Null
    <3>1. link' = k2 /\ back' = back
      BY <1>10, <1>11, <2>1
    <3>2. link[h] = Null
      BY <2>1 DEF x
    <3> QED BY <1>4, <1>8, <1>12, <2>1, <3>1, <3>2
  <2>2. CASE x # Null
    <3>1. x = c[1] /\ 1 \in 1 .. z
      BY <1>4, <1>9, <2>2 DEF x
    <3>2. x \in Places /\ x \in Elements
      BY <1>8, <3>1
    <3>3. link' = [[k2 EXCEPT ![g] = x] EXCEPT ![h] = Null] /\ back' = [back EXCEPT ![x] = g]
      BY <1>10, <1>11, <2>2 DEF stored
    <3> QED BY <1>4, <1>8, <1>12, <2>2, <3>2, <3>3 DEF LinkValues, BackValues
  <2> QED BY <2>1, <2>2
<1>14. MoveStores(kind, link, back, link', back', h, g, c, z)
  <2>1. link'[g] = link[h]
    BY <1>1, <1>8, <1>13 DEF x
  <2>2. \A i \in 1 .. z : link'[c[i]] = link[c[i]]
    BY <1>8, <1>13
  <2>3. ASSUME z # 0 PROVE back'[c[1]] = g
    <3>1. x = c[1] /\ 1 \in 1 .. z
      BY <1>4, <1>9, <2>3 DEF x
    <3> QED BY <1>8, <1>13, <3>1
  <2>4. \A i \in 2 .. z : back'[c[i]] = back[c[i]]
    <3> TAKE i \in 2 .. z
    <3>1. i \in 1 .. z /\ 1 \in 1 .. z /\ i # 1 /\ z # 0
      BY <1>4
    <3>2. c[i] # x
      BY <1>4, <1>9, <3>1 DEF Chain, x
    <3> QED BY <1>8, <1>13, <3>1, <3>2
  <2> QED BY <2>1, <2>2, <2>3, <2>4 DEF MoveStores
<1>15. Walk(kind, link', back', g, c, z)
  BY <1>4, <1>5, <1>7, <1>14, MoveWalk
<1>16. IsList(kind, link', back', g, c)
  BY <1>2, <1>4, <1>15 DEF IsList
<1>17. link'[h] = Null
  BY <1>8, <1>13
<1>18. Lists(kind, link', back', ct)
  BY <1>1, <1>4, <1>6, <1>7, <1>13, <1>16, <1>17, TwoLists
<1> QED BY <1>10, <1>18 DEF QueuesInv

LEMMA QueuesStart == QueuesInit => QueuesInv
<1> SUFFICES ASSUME QueuesInit PROVE QueuesInv
  OBVIOUS
<1>1. kind \in Kinds /\ (tailed <=> kind \in TailedKinds)
  BY KindFlags DEF QueuesInit
<1>2. \A h \in Heads : h \in Places /\ h \in BackValues
  BY DEF Places, BackValues
<1>3. /\ link \in [Places -> LinkValues] /\ back \in [Places -> BackValues]
      /\ \A h \in Heads : link[h] = Null /\ (tailed => back[h] = h)
  BY <1>2 DEF QueuesInit, LinkValues, BackValues
<1>4. contents \in [Heads -> Seq(Elements)] /\ contents[-1] = << >> /\ contents[-2] = << >>
  <2>1. << >> \in Seq(Elements)
    BY EmptySeq
  <2> QED BY <2>1 DEF QueuesInit, Heads
<1>5. -1 \in Heads /\ -2 \in Heads /\ -1 # -2
  BY DEF Heads
<1>6. IsList(kind, link, back, -1, << >>)
  <2>1. Walk(kind, link, back, -1, << >>, 0)
    BY <1>1, <1>3, <1>5, EmptyWalk
  <2>2. << >> \in [1 .. 0 -> Elements] /\ Len(<< >>) = 0
    BY EmptySeq
  <2> QED BY <2>1, <2>2 DEF IsList, Chain
<1>7. Lists(kind, link, back, contents)
  <2> DEFINE e == << >>
  <2>1. e \in Seq(Elements) /\ IsList(kind, link, back, -1, e) /\ contents[-1] = e
    BY <1>4, <1>6, EmptySeq
  <2> QED BY <1>1, <1>3, <1>4, <1>5, <2>1, TwoLists
<1> QED BY <1>1, <1>7 DEF QueuesInv

LEMMA QueuesStep == QueuesInv /\ [QueuesNext]_queueVars => QueuesInv'
<1> SUFFICES ASSUME QueuesInv, [QueuesNext]_queueVars
             PROVE  QueuesInv'
  OBVIOUS
<1>1. CASE InsertHeadOrAfter
  BY <1>1, InsertHeadOrAfterKeeps
<1>2. CASE InsertTail /\ kind \in TailedKinds
  BY <1>2, InsertTailKeeps
<1>3. CASE InsertBefore /\ kind \in DoublyKinds
  BY <1>3, InsertBeforeKeeps
<1>4. CASE RemoveBehind
  BY <1>4, RemoveBehindKeeps
<1>5. CASE RemoveElement /\ kind \in DoublyKinds
  BY <1>5, RemoveElementKeeps
<1>6. CASE ReplaceElement /\ kind \in DoublyKinds
  BY <1>6, ReplaceKeeps
<1>7. CASE Concat /\ kind \in TailedKinds
  BY <1>7, ConcatKeeps
<1>8. CASE Move /\ kind = "LIST"
  BY <1>8, MoveKeeps
<1>9. CASE UNCHANGED queueVars
  BY <1>9 DEF queueVars, QueuesInv
<1> QED
  BY <1>1, <1>2, <1>3, <1>4, <1>5, <1>6, <1>7, <1>8, <1>9
  DEF QueuesNext, SlistStep, ListStep, SimpleqStep, TailqStep, StailqStep, DoublyKinds, TailedKinds

(* A tail queue finds the last element and the one before through the      *)
(* addresses alone: two steps back and one forth.                          *)
LEMMA PreviousFound ==
  ASSUME QueuesInv, kind = "TAILQ", NEW h \in Heads, NEW c, NEW z, c = contents[h], z = Len(c)
  PROVE  /\ tailqPrev(h) = IF z = 0 THEN Null ELSE c[z]
         /\ \A i \in 1 .. z : tailqPrev(c[i]) = IF i = 1 THEN Null ELSE c[i - 1]
<1>1. kind \in DoublyKinds /\ kind \in TailedKinds
  BY DEF DoublyKinds, TailedKinds
<1>2. /\ z \in Nat
      /\ \A i \in 0 .. z : link[spot(h, c, i)] = IF i = z THEN Null ELSE c[i + 1]
      /\ \A i \in 1 .. z : back[c[i]] = spot(h, c, i - 1)
      /\ back[h] = spot(h, c, z)
      /\ spot(h, c, 0) = h /\ \A i \in 1 .. z : spot(h, c, i) = c[i]
  BY <1>1, ListFacts, ListPlaces
<1>3. \A i \in 1 .. z : link[back[c[i]]] = c[i]
  <2> TAKE i \in 1 .. z
  <2> DEFINE k == i - 1
  <2>1. k \in 0 .. z /\ k # z /\ k + 1 = i
    BY <1>2
  <2>2. back[c[i]] = spot(h, c, k)
    BY <1>2
  <2> HIDE DEF k
  <2> QED BY <1>2, <2>1, <2>2
<1>4. link[back[h]] = Null
  <2>1. z \in 0 .. z
    BY <1>2
  <2> QED BY <1>2, <2>1
<1>5. tailqPrev(h) = IF z = 0 THEN Null ELSE c[z]
  <2>1. CASE z = 0
    <3>1. back[h] = h
      BY <1>2, <2>1
    <3> QED BY <1>4, <2>1, <3>1 DEF tailqPrev
  <2>2. CASE z # 0
    <3>1. z \in 1 .. z
      BY <1>2, <2>2
    <3>2. back[h] = c[z]
      BY <1>2, <3>1
    <3> QED BY <1>3, <2>2, <3>1, <3>2 DEF tailqPrev
  <2> QED BY <2>1, <2>2
<1>6. ASSUME NEW i \in 1 .. z
      PROVE  tailqPrev(c[i]) = IF i = 1 THEN Null ELSE c[i - 1]
  <2>1. CASE i = 1
    <3>1. back[c[i]] = h
      BY <1>2, <2>1
    <3> QED BY <1>4, <2>1, <3>1 DEF tailqPrev
  <2>2. CASE i # 1
    <3> DEFINE k == i - 1
    <3>1. k \in 1 .. z
      BY <1>2, <2>2
    <3>2. back[c[i]] = spot(h, c, k)
      BY <1>2
    <3> HIDE DEF k
    <3>3. back[c[i]] = c[k] /\ link[back[c[k]]] = c[k]
      BY <1>2, <1>3, <3>1, <3>2
    <3>4. tailqPrev(c[i]) = c[k]
      BY <3>3 DEF tailqPrev
    <3> QED BY <2>2, <3>4 DEF k
  <2> QED BY <2>1, <2>2
<1> QED BY <1>5, <1>6

LEMMA InvAgrees == QueuesInv => ListsAgree
<1> SUFFICES ASSUME QueuesInv, NEW h \in Heads
             PROVE  LET c == contents[h]
                        place(i) == IF i = 0 THEN h ELSE c[i]
                    IN  /\ \A i \in 0 .. Len(c) : link[place(i)] = (IF i = Len(c) THEN Null ELSE c[i + 1])
                        /\ doubly => \A i \in DOMAIN c : back[c[i]] = place(i - 1)
                        /\ tailed => back[h] = place(Len(c))
                        /\ kind \in {"SIMPLEQ", "STAILQ"} =>
                             lastOf(h) = IF c = << >> THEN Null ELSE Last(c)
                        /\ kind = "TAILQ" =>
                             /\ tailqPrev(h) = IF c = << >> THEN Null ELSE Last(c)
                             /\ \A i \in DOMAIN c : tailqPrev(c[i]) = IF i = 1 THEN Null ELSE c[i - 1]
  BY DEF ListsAgree
<1> DEFINE c == contents[h]
           z == Len(c)
           place(i) == IF i = 0 THEN h ELSE c[i]
<1>1. \A i : place(i) = spot(h, c, i)
  BY DEF spot
<1>2. c = contents[h] /\ z = Len(c)
  OBVIOUS
<1> HIDE DEF c, z
<1>3. (doubly <=> kind \in DoublyKinds) /\ (tailed <=> kind \in TailedKinds)
  BY KindFlags DEF QueuesInv
<1>4. /\ Chain(c, z) /\ z \in Nat /\ c \in Seq(Elements) /\ DOMAIN c = 1 .. z
      /\ \A i \in 0 .. z : link[spot(h, c, i)] = IF i = z THEN Null ELSE c[i + 1]
      /\ kind \in DoublyKinds => \A i \in 1 .. z : back[c[i]] = spot(h, c, i - 1)
      /\ kind \in TailedKinds => back[h] = spot(h, c, z)
  BY <1>2, ListFacts
<1>5. (c = << >> <=> z = 0) /\ Last(c) = c[z]
  <2>1. Last(c) = c[z]
    BY <1>2 DEF Last
  <2> QED BY <1>2, <1>4, <2>1, EmptySeq
<1>6. kind \in {"SIMPLEQ", "STAILQ"} => lastOf(h) = IF z = 0 THEN Null ELSE c[z]
  <2> HAVE kind \in {"SIMPLEQ", "STAILQ"}
  <2>1. kind \in TailedKinds
    BY DEF TailedKinds
  <2>2. spot(h, c, 0) = h /\ 0 \in 0 .. z /\ 0 + 1 = 1
    BY <1>4, ListPlaces
  <2>3. link[h] = IF 0 = z THEN Null ELSE c[1]
    BY <1>4, <2>2
  <2>4. CASE z = 0
    BY <2>3, <2>4 DEF lastOf
  <2>5. CASE z # 0
    <3>1. 1 \in 1 .. z /\ z \in 1 .. z
      BY <1>4, <2>5
    <3>2. c[1] # Null /\ spot(h, c, z) = c[z]
      BY <1>4, <3>1, Spots
    <3> QED BY <1>4, <2>1, <2>3, <2>5, <3>2 DEF lastOf
  <2> QED BY <2>4, <2>5
<1>7. kind = "TAILQ" =>
        /\ tailqPrev(h) = IF z = 0 THEN Null ELSE c[z]
        /\ \A i \in 1 .. z : tailqPrev(c[i]) = IF i = 1 THEN Null ELSE c[i - 1]
  BY <1>2, PreviousFound
<1> HIDE DEF place
<1>8. /\ \A i \in 0 .. z : link[place(i)] = IF i = z THEN Null ELSE c[i + 1]
      /\ doubly => \A i \in DOMAIN c : back[c[i]] = place(i - 1)
      /\ tailed => back[h] = place(z)
  BY <1>1, <1>3, <1>4
<1>9. /\ kind \in {"SIMPLEQ", "STAILQ"} => lastOf(h) = IF c = << >> THEN Null ELSE Last(c)
      /\ kind = "TAILQ" =>
           /\ tailqPrev(h) = IF c = << >> THEN Null ELSE Last(c)
           /\ \A i \in DOMAIN c : tailqPrev(c[i]) = IF i = 1 THEN Null ELSE c[i - 1]
  BY <1>4, <1>5, <1>6, <1>7
<1> QED BY <1>8, <1>9 DEF c, z, place

(* Whatever macros are called in whatever order on the five kinds of list,  *)
(* for any number of elements: the links lead through what the callers     *)
(* have put in, and the addresses back and at the end agree (queue.h).     *)
THEOREM ListsLinked == QueuesSpec => []ListsAgree
<1>1. QueuesInit => QueuesInv
  BY QueuesStart
<1>2. QueuesInv /\ [QueuesNext]_queueVars => QueuesInv'
  BY QueuesStep
<1>3. QueuesInv => ListsAgree
  BY InvAgrees
<1> QED BY <1>1, <1>2, <1>3, PTL DEF QueuesSpec

===============================================================================
