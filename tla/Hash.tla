---------------------------------- MODULE Hash ----------------------------------
(***************************************************************************)
(* The hash functions of libcsapp (jenkins_hash.c).  How three registers   *)
(* are mixed is left out: what matters is which bytes of the key go into   *)
(* which register, at which shift, before every mix() and before final().  *)
(* The code reads the key in words, halves or bytes, as its address and    *)
(* the byte order of the machine allow.                                    *)
(*                                                                         *)
(* A byte is its position in the key; a byte in a register is a pair of    *)
(* the byte and its shift.  One action is one turn of a loop, or the       *)
(* switch behind it.                                                       *)
(***************************************************************************)
EXTENDS Integers, Sequences, Bags, FiniteSets

CONSTANT MaxKey       (* bound: bytes of a key                              *)

ASSUME KeyAssumption == MaxKey \in Nat

VARIABLES
  order,    (* BYTE_ORDER of the machine                                    *)
  address,  (* of the key, modulo 4                                         *)
  function, (* "jenkins_hash", "jenkins_hash32", or "none"                  *)
  size,     (* bytes of the key                                             *)
  k,        (* bytes behind the pointer k                                   *)
  length,   (* bytes from k on                                              *)
  blocks,   (* what has gone into a, b and c before every mix and final     *)
  ended     (* "final", "plain" without final(), or "no" while it runs      *)

hashVars == <<order, address, function, size, k, length, blocks, ended>>

Registers == {"a", "b", "c"}
offsetOf(r) == CASE r = "a" -> 0 [] r = "b" -> 4 [] r = "c" -> 8

HashInit ==
  /\ order \in {"little", "big"}
  /\ address = 0 /\ function = "none" /\ size = 0 /\ k = 0 /\ length = 0
  /\ blocks = << >> /\ ended = "final"

(* jenkins_hash32() counts in words, which are aligned. *)
HashCall(name, at, bytes) ==
  /\ ended # "no"
  /\ name = "jenkins_hash32" => at = 0 /\ bytes % 4 = 0
  /\ function' = name /\ address' = at /\ size' = bytes /\ length' = bytes
  /\ k' = 0 /\ blocks' = << >> /\ ended' = "no"
  /\ UNCHANGED order

-------------------------------------------------------------------------------
(* What the machine makes of a load of `width' bytes from byte i on: the    *)
(* shift of byte j in it.                                                  *)
native(i, width, j) == IF order = "little" THEN 8 * (j - i) ELSE 8 * (i + width - 1 - j)

(* mutant: bytes and halves are put together as on a little-endian machine *)
shifted_little(i, width) == 8 * i

(* The operand of << behind a load: none for words.                        *)
shifted(i, width) ==
  IF width = 4 THEN 0 ELSE IF order = "little" THEN 8 * i ELSE 24 - (8 * i)

(* A load, masked to the bytes before m. *)
load(i, width, m) ==
  {[byte |-> j, shift |-> shifted(i, width) + native(i, width, j)] :
     j \in {x \in i .. i + width - 1 : x < m}}

(* The loads for the m bytes of a word, by the type of the pointer. *)
word(m)  == {load(0, 4, m)}
halves(m) == CASE m = 1 -> {load(0, 1, m)}
               [] m = 2 -> {load(0, 2, m)}
               [] m = 3 -> {load(0, 2, m), load(2, 1, m)}
               [] m = 4 -> {load(0, 2, m), load(2, 2, m)}
octets(m) == {load(i, 1, m) : i \in 0 .. m - 1}

loads(type, m) ==
  CASE type = "word" -> word(m) [] type = "halves" -> halves(m) [] type = "octets" -> octets(m)

(* a += ..., b += ..., c += ... with the bytes that are left.               *)
sums(type) ==
  [r \in Registers |->
     LET m == IF length >= offsetOf(r) + 4 THEN 4 ELSE length - offsetOf(r)
         ofKey(t) == [byte |-> k + offsetOf(r) + t.byte + 1, shift |-> t.shift]
     IN  IF m <= 0 THEN EmptyBag
         ELSE [x \in {ofKey(t) : t \in UNION loads(type, m)} |->
                 Cardinality({l \in loads(type, m) : \E t \in l : x = ofKey(t)})]]

(* while (length > 12) ... switch (length) *)
Turn(type) ==
  IF length > 12
  THEN /\ blocks' = Append(blocks, sums(type))
       /\ k' = k + 12 /\ length' = length - 12
       /\ UNCHANGED <<order, address, function, size, ended>>
  ELSE /\ blocks' = IF length = 0 THEN blocks ELSE Append(blocks, sums(type))
       /\ ended' = IF length = 0 THEN "plain" ELSE "final"
       /\ UNCHANGED <<order, address, function, size, k, length>>

Running(name, endian) == ended = "no" /\ function = name /\ order = endian

Hash32       == ended = "no" /\ function = "jenkins_hash32" /\ Turn("word")
LittleWords  == Running("jenkins_hash", "little") /\ address = 0 /\ Turn("word")
LittleHalves == Running("jenkins_hash", "little") /\ address = 2 /\ Turn("halves")
LittleBytes  == Running("jenkins_hash", "little") /\ address \in {1, 3} /\ Turn("octets")
BigWords     == Running("jenkins_hash", "big") /\ address = 0 /\ Turn("word")
BigBytes     == Running("jenkins_hash", "big") /\ address # 0 /\ Turn("octets")

HashNext ==
  \/ \E name \in {"jenkins_hash", "jenkins_hash32"}, at \in 0 .. 3, bytes \in 0 .. MaxKey :
       HashCall(name, at, bytes)
  \/ Hash32 \/ LittleWords \/ LittleHalves \/ LittleBytes \/ BigWords \/ BigBytes

HashSpec == HashInit /\ [][HashNext]_hashVars

-------------------------------------------------------------------------------
(* What the machine would load as a word from a position of the key on, if  *)
(* zeros lay behind the key.                                               *)
wordAt(first) ==
  SetToBag({[byte |-> j, shift |-> native(first, 4, j)] : j \in {x \in first .. first + 3 : x <= size}})

(* Wherever the key lies in memory, and whether it is hashed as bytes or    *)
(* as words, the same bytes go into the same registers: every byte of the  *)
(* key once, in its place, and nothing that lies behind the key; only the  *)
(* empty key goes without final().  (jenkins_hash.c:156-158: the function  *)
(* for words is identical to the one for bytes.)                           *)
HashesAgree ==
  ended # "no" /\ function # "none" =>
    /\ Len(blocks) = (size + 11) \div 12
    /\ \A i \in DOMAIN blocks : \A r \in Registers :
         blocks[i][r] = wordAt(12 * (i - 1) + offsetOf(r) + 1)
    /\ ended = "plain" <=> size = 0

===============================================================================
