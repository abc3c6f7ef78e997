--------------------------------- MODULE Queues ---------------------------------
(***************************************************************************)
(* The lists and queues of libcsapp (queue.h): five kinds, whose elements  *)
(* carry their own links.  A place is what a link can be part of, a head   *)
(* or an element; link[] is its pointer to the next element, and the       *)
(* address of that pointer is written as the place.  back[] is the second  *)
(* field of both: the address of the pointer to an element, and of the     *)
(* last pointer of a queue.                                                *)
(*                                                                         *)
(* A macro is one action.  The kinds that lack a field skip its stores.    *)
(***************************************************************************)
EXTENDS Integers, Sequences, SequencesExt

CONSTANT ElementCount

ASSUME ElementAssumption == ElementCount \in Nat

Elements == 1 .. ElementCount
Heads    == {-1, -2}
Places   == Elements \cup Heads
Null     == 0
Unlinked == -3         (* field of an element that is in no list            *)

VARIABLES
  kind,      (* the kind of list in use                                     *)
  link,      (* slh_first, sle_next, lh_first, le_next, ...                 *)
  back,      (* le_prev, sqh_last, tqh_last, tqe_prev, stqh_last            *)
  contents   (* what the callers have put into the lists                    *)

queueVars == <<kind, link, back, contents>>

Kinds  == {"SLIST", "LIST", "SIMPLEQ", "TAILQ", "STAILQ"}
doubly == kind \in {"LIST", "TAILQ"}
tailed == kind \in {"SIMPLEQ", "TAILQ", "STAILQ"}

QueuesType ==
  /\ kind \in Kinds
  /\ link \in [Places -> Elements \cup {Null, Unlinked}]
  /\ back \in [Places -> Places \cup {Unlinked}]
  /\ contents \in [Heads -> Seq(Elements)]

(* ..._INIT() *)
QueuesInit ==
  /\ kind \in Kinds
  /\ link = [p \in Places |-> IF p \in Heads THEN Null ELSE Unlinked]
  /\ back = [p \in Places |-> IF p \in Heads /\ tailed THEN p ELSE Unlinked]
  /\ contents = [h \in Heads |-> << >>]

-------------------------------------------------------------------------------
(* Lists as records of their two fields.                                   *)
q == [link |-> link, back |-> back]

setBack(l, p, v) == IF p = Null THEN l ELSE [l EXCEPT !.back[p] = v]

(* v is stored where the list says what precedes x, or its end.            *)
behind(l, h, x, v) ==
  IF x = Null THEN IF tailed THEN setBack(l, h, v) ELSE l
              ELSE IF doubly THEN setBack(l, x, v) ELSE l

(* ..._INSERT_HEAD() at a head, ..._INSERT_AFTER() at an element           *)
insertAfter(l, h, p, e) ==
  LET m == [behind(l, h, l.link[p], e) EXCEPT !.link[e] = l.link[p], !.link[p] = e]
  IN  IF doubly THEN setBack(m, e, p) ELSE m

(* mutant: the end of the queue stays where it was *)
insertTail_end_kept(l, h, e) ==
  [l EXCEPT !.link[l.back[h]] = e, !.link[e] = Null]

(* ..._INSERT_TAIL() *)
insertTail(l, h, e) ==
  LET m == [l EXCEPT !.link[l.back[h]] = e, !.link[e] = Null, !.back[h] = e]
  IN  IF doubly THEN setBack(m, e, l.back[h]) ELSE m

(* LIST_INSERT_BEFORE(), TAILQ_INSERT_BEFORE() *)
insertBefore(l, at, e) ==
  [l EXCEPT !.link = [@ EXCEPT ![e] = at, ![l.back[at]] = e],
            !.back = [@ EXCEPT ![e] = l.back[at], ![at] = e]]

without(l, e) == [l EXCEPT !.link[e] = Unlinked, !.back[e] = Unlinked]

(* SLIST_REMOVE_AFTER() and the like, of the singly linked kinds           *)
removeAfter(l, h, p) ==
  LET e   == l.link[p]
      nxt == l.link[e]
  IN  without([behind(l, h, nxt, p) EXCEPT !.link[p] = nxt], e)

(* LIST_REMOVE(), TAILQ_REMOVE() *)
unlink(l, h, e) ==
  LET m == behind(l, h, l.link[e], l.back[e])
  IN  without([m EXCEPT !.link[l.back[e]] = l.link[e]], e)

(* LIST_REPLACE(), TAILQ_REPLACE() *)
replace(l, h, e, new) ==
  LET m == behind(l, h, l.link[e], new)
  IN  without([m EXCEPT !.link = [@ EXCEPT ![new] = l.link[e], ![l.back[e]] = new],
                        !.back[new] = l.back[e]], e)

emptied(l, h) == behind([l EXCEPT !.link[h] = Null], h, Null, h)

(* ..._CONCAT() *)
concat(l, h1, h2) ==
  IF l.link[h2] = Null THEN l
  ELSE LET m == [l EXCEPT !.link[l.back[h1]] = l.link[h2]]
           n == IF doubly THEN setBack(m, l.link[h2], l.back[h1]) ELSE m
       IN  emptied(setBack(n, h1, l.back[h2]), h2)

(* LIST_MOVE() *)
move(l, h1, h2) ==
  LET m == emptied(l, h2)
  IN  IF m.link[h1] = Null THEN m
      ELSE emptied(setBack([m EXCEPT !.link[h2] = m.link[h1]], m.link[h1], h2), h1)

(* TAILQ_LAST() at a head, TAILQ_PREV() at an element: the address in      *)
(* back[] is taken for a head, whose second field is read.                 *)
tailqPrev(p) == link[back[back[p]]]

(* SIMPLEQ_LAST(), STAILQ_LAST() *)
lastOf(h) == IF link[h] = Null THEN Null ELSE back[h]

-------------------------------------------------------------------------------

Store(l, c) ==
  /\ link' = l.link /\ back' = l.back /\ contents' = c
  /\ UNCHANGED kind

listed == UNION {ToSet(contents[h]) : h \in Heads}
indexOf(h, e) == CHOOSE i \in DOMAIN contents[h] : contents[h][i] = e
placesOf(h) == {h} \cup ToSet(contents[h])

(* An element that is in no list goes behind a place of a list. *)
Inserted(h, p, e) ==
  Store(insertAfter(q, h, p, e),
        [contents EXCEPT ![h] = InsertAt(@, IF p = h THEN 1 ELSE indexOf(h, p) + 1, e)])

Removed(l, h, e) == Store(l, [contents EXCEPT ![h] = RemoveAt(@, indexOf(h, e))])

InsertHeadOrAfter ==
  \E h \in Heads : \E p \in placesOf(h), e \in Elements \ listed : Inserted(h, p, e)

InsertTail ==
  \E h \in Heads, e \in Elements \ listed :
    Store(insertTail(q, h, e), [contents EXCEPT ![h] = Append(@, e)])

InsertBefore ==
  \E h \in Heads : \E at \in ToSet(contents[h]), e \in Elements \ listed :
    Store(insertBefore(q, at, e), [contents EXCEPT ![h] = InsertAt(@, indexOf(h, at), e)])

(* The removals of the singly linked kinds; REMOVE() looks for the place.  *)
RemoveBehind ==
  \E h \in Heads : \E p \in placesOf(h) :
    /\ link[p] # Null
    /\ Removed(removeAfter(q, h, p), h, link[p])

RemoveElement ==
  \E h \in Heads : \E e \in ToSet(contents[h]) : Removed(unlink(q, h, e), h, e)

ReplaceElement ==
  \E h \in Heads : \E e \in ToSet(contents[h]), new \in Elements \ listed :
    Store(replace(q, h, e, new), [contents EXCEPT ![h][indexOf(h, e)] = new])

Concat ==
  \E h1, h2 \in Heads :
    /\ h1 # h2
    /\ Store(concat(q, h1, h2),
             [contents EXCEPT ![h1] = contents[h1] \o contents[h2], ![h2] = << >>])

Move ==
  \E h1, h2 \in Heads :
    /\ h1 # h2 /\ contents[h2] = << >>
    /\ Store(move(q, h1, h2), [contents EXCEPT ![h2] = contents[h1], ![h1] = << >>])

SlistStep   == kind = "SLIST"   /\ (InsertHeadOrAfter \/ RemoveBehind)
ListStep    == kind = "LIST"    /\ (InsertHeadOrAfter \/ InsertBefore \/ RemoveElement
                                      \/ ReplaceElement \/ Move)
SimpleqStep == kind = "SIMPLEQ" /\ (InsertHeadOrAfter \/ InsertTail \/ RemoveBehind \/ Concat)
TailqStep   == kind = "TAILQ"   /\ (InsertHeadOrAfter \/ InsertTail \/ InsertBefore
                                      \/ RemoveElement \/ ReplaceElement \/ Concat)
StailqStep  == kind = "STAILQ"  /\ (InsertHeadOrAfter \/ InsertTail \/ RemoveBehind \/ Concat)

QueuesNext == SlistStep \/ ListStep \/ SimpleqStep \/ TailqStep \/ StailqStep

QueuesSpec == QueuesInit /\ [][QueuesNext]_queueVars

-------------------------------------------------------------------------------
(* Whatever is inserted, removed, replaced or moved in whatever order, a    *)
(* walk through the links meets what callers put in, in the order they     *)
(* asked for; the pointers back and the end of a queue agree with it, also *)
(* when the last or the only element goes (all macros of queue.h).         *)
ListsAgree ==
  \A h \in Heads :
    LET c == contents[h]
        place(i) == IF i = 0 THEN h ELSE c[i]
    IN  /\ \A i \in 0 .. Len(c) : link[place(i)] = (IF i = Len(c) THEN Null ELSE c[i + 1])
        /\ doubly => \A i \in DOMAIN c : back[c[i]] = place(i - 1)
        /\ tailed => back[h] = place(Len(c))
        /\ kind \in {"SIMPLEQ", "STAILQ"} => lastOf(h) = IF c = << >> THEN Null ELSE Last(c)
        /\ kind = "TAILQ" =>
             /\ tailqPrev(h) = IF c = << >> THEN Null ELSE Last(c)
             /\ \A i \in DOMAIN c : tailqPrev(c[i]) = IF i = 1 THEN Null ELSE c[i - 1]

===============================================================================
