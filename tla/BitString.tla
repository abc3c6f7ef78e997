------------------------------- MODULE BitString -------------------------------
(***************************************************************************)
(* Strings of bits of libcsapp (bitstring.h), kept in bytes.  A byte is    *)
(* the set of the positions of its bits that are set, and a mask is a set  *)
(* of one.  One action is a macro, or one turn of its loop.                *)
(***************************************************************************)
EXTENDS Integers

CONSTANT MaxBits     (* bound: bits of a string                             *)

ASSUME BitsAssumption == MaxBits \in Nat \ {0}

VARIABLES
  nbits,     (* bits that the caller has asked for                          *)
  name,      (* the bytes                                                   *)
  isSet,     (* bits that the caller has set                                *)
  bitOp,     (* the macro that runs, or "none"                              *)
  start,     (* _start and _stop, _bit and _nbits                           *)
  stopAt

bitVars == <<nbits, name, isSet, bitOp, start, stopAt>>

(* bitstr_size() *)
bitstr_size(n) == (n + 7) \div 8

bit_byte(b) == b \div 8
bit_mask(b) == {b % 8}

(* bit_alloc() *)
BitInit ==
  /\ nbits \in 1 .. MaxBits
  /\ name = [i \in 0 .. bitstr_size(nbits) - 1 |-> {}]
  /\ isSet = {} /\ bitOp = "none" /\ start = 0 /\ stopAt = 0

bit_test(b) == name[bit_byte(b)] \cap bit_mask(b) # {}

(* mutant: the other bits of the byte are lost *)
withBit_alone(b) == [name EXCEPT ![bit_byte(b)] = bit_mask(b)]

(* bit_set() *)
withBit(b) == [name EXCEPT ![bit_byte(b)] = @ \cup bit_mask(b)]

(* bit_clear() *)
withoutBit(b) == [name EXCEPT ![bit_byte(b)] = @ \ bit_mask(b)]

(* A call of bit_set(), bit_clear(), bit_nset() or bit_nclear().           *)
BitCall(op, from, to) ==
  /\ bitOp = "none" /\ from <= to
  /\ bitOp' = op /\ start' = from /\ stopAt' = to
  /\ UNCHANGED <<nbits, name, isSet>>

(* while (_start <= _stop) *)
BitSet ==
  /\ bitOp = "bit_nset" /\ start <= stopAt
  /\ name' = withBit(start) /\ isSet' = isSet \cup {start} /\ start' = start + 1
  /\ UNCHANGED <<nbits, bitOp, stopAt>>

BitClear ==
  /\ bitOp = "bit_nclear" /\ start <= stopAt
  /\ name' = withoutBit(start) /\ isSet' = isSet \ {start} /\ start' = start + 1
  /\ UNCHANGED <<nbits, bitOp, stopAt>>

BitDone ==
  /\ bitOp # "none" /\ start > stopAt
  /\ bitOp' = "none" /\ start' = 0 /\ stopAt' = 0
  /\ UNCHANGED <<nbits, name, isSet>>

(* for (_bit = 0; _bit < _nbits; ++_bit): the first bit for which the test  *)
(* of bit_ffs() or bit_ffc() holds, or -1.                                 *)
firstBit(wanted) ==
  LET f[b \in 0 .. nbits] == IF b = nbits THEN -1
                             ELSE IF bit_test(b) = wanted THEN b ELSE f[b + 1]
  IN  f[0]

bit_ffs == firstBit(TRUE)
bit_ffc == firstBit(FALSE)

BitNext ==
  \/ \E op \in {"bit_nset", "bit_nclear"}, from, to \in 0 .. nbits - 1 : BitCall(op, from, to)
  \/ BitSet \/ BitClear \/ BitDone

BitSpec == BitInit /\ [][BitNext]_bitVars

-------------------------------------------------------------------------------
(* The bytes hold the bits that were set and not cleared since, on both     *)
(* sides of every border between bytes; the first set and the first clear  *)
(* bit are found, or that there is none (bit_set() ... bit_ffs()).         *)
isFirst(b, bits) ==
  IF bits = {} THEN b = -1 ELSE b \in bits /\ \A other_ \in bits : b <= other_

BitsAgree ==
  /\ \A b \in 0 .. nbits - 1 : bit_test(b) <=> b \in isSet
  /\ isFirst(bit_ffs, isSet)
  /\ isFirst(bit_ffc, (0 .. nbits - 1) \ isSet)

===============================================================================
