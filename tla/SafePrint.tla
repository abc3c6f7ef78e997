------------------------------- MODULE SafePrint -------------------------------
(***************************************************************************)
(* safe_vprintf() of libcsapp (safe_printf.c): printing that a signal      *)
(* handler may call.  The format is read character by character; numbers   *)
(* have the widths of int and of intmax_t (long).                          *)
(*                                                                         *)
(* The line is taken to be long enough, and a format does not end in the   *)
(* middle of a conversion.                                                 *)
(***************************************************************************)
EXTENDS Integers, Sequences, SequencesExt

CONSTANTS
  IntHalf, LongHalf,   (* what int and intmax_t count up to                 *)
  Ints, Longs,         (* the numbers that are printed                      *)
  MaxItems             (* bound: conversions and characters of a format     *)

ASSUME PrintAssumption ==
  /\ IntHalf \in Nat \ {0} /\ LongHalf \in Nat /\ IntHalf <= LongHalf
  /\ Ints \subseteq -IntHalf .. IntHalf - 1
  /\ Longs \subseteq -LongHalf .. LongHalf - 1
  /\ MaxItems \in Nat

(* Numbers of values, 2^32 and 2^64, of which one half is negative.        *)
IntValues  == 2 * IntHalf
LongValues == 2 * LongHalf

(* What a caller prints: a character of the format, or a conversion with    *)
(* its argument.                                                           *)
Item(conv, args) == [conv : {conv}, arg : args]
Items ==
  Item(<<"a">>, {0}) \cup Item(<<"%", "%">>, {0}) \cup Item(<<"%", "z">>, {0})
    \cup Item(<<"%", "c">>, {<<"b">>}) \cup Item(<<"%", "s">>, {<<"b", "%">>, << >>})
    \cup Item(<<"%", "d">>, Ints) \cup Item(<<"%", "l", "d">>, Longs)
    \cup Item(<<"%", "x">>, Ints) \cup Item(<<"%", "l", "x">>, Longs)

VARIABLES
  items,    (* the call                                                     *)
  fmt, chAt, (* the format and the place of the pointer in it               *)
  ap,       (* arguments that are left                                      *)
  out,      (* what is in the line                                          *)
  stop,     (* after an unknown conversion everything is copied             *)
  percent,  (* where the conversion began                                   *)
  lflag,
  printing  (* "call", "copy", "convert", "written"                         *)

printVars == <<items, fmt, chAt, ap, out, stop, percent, lflag, printing>>

PrintInit ==
  /\ items = << >> /\ fmt = << >> /\ chAt = 1 /\ ap = << >> /\ out = << >>
  /\ stop = FALSE /\ percent = 0 /\ lflag = FALSE
  /\ printing = "call"

AddItem(item) ==
  /\ printing = "call" /\ Len(items) < MaxItems
  /\ items' = Append(items, item)
  /\ UNCHANGED <<fmt, chAt, ap, out, stop, percent, lflag, printing>>

argument(item) ==
  IF item.conv[Len(item.conv)] \in {"c", "s", "d", "x"} THEN <<item.arg>> ELSE << >>

(* safe_printf(): the format, and the arguments as a list.                 *)
CallPrintf ==
  /\ printing = "call"
  /\ fmt' = FlattenSeq([k \in DOMAIN items |-> items[k].conv])
  /\ ap' = FlattenSeq([k \in DOMAIN items |-> argument(items[k])])
  /\ printing' = "copy"
  /\ UNCHANGED <<items, chAt, out, stop, percent, lflag>>

-------------------------------------------------------------------------------

Digits == <<"0", "1", "2", "3", "4", "5", "6", "7", "8", "9",
            "a", "b", "c", "d", "e", "f">>

(* print_num(): the digits in nbuf, the least significant one first.       *)
nbuf(base) ==
  LET d[m \in 0 .. LongValues] ==
        <<Digits[(m % base) + 1]>> \o (IF m < base THEN << >> ELSE d[m \div base])
  IN  d

print_num(num, base) == Reverse(nbuf(base)[num])

(* mutant: a long is read as an int *)
wide_int(arg, long, sign) ==
  (IF sign THEN arg ELSE arg % IntValues) % LongValues

(* uintmax_t num = va_arg(...): an int is extended with its sign, an        *)
(* unsigned int with zeros.                                                *)
wide(arg, long, sign) ==
  (IF sign \/ long THEN arg ELSE arg % IntValues) % LongValues

(* mutant: the number is not negated *)
magnitude_kept(num, neg) == num

(* num = -(intmax_t)num *)
magnitude(num, neg) == IF neg THEN (-num) % LongValues ELSE num

number(arg, base) ==
  LET sign == base = 10
      num  == wide(arg, lflag, sign)
      neg  == sign /\ num >= LongHalf
  IN  (IF neg THEN <<"-">> ELSE << >>) \o (IF base = 16 THEN <<"0", "x">> ELSE << >>)
        \o print_num(magnitude(num, neg), base)

(* while ((ch = *fmt++) != '%' || stop) PCHAR(ch); *)
CopyPlain ==
  /\ printing = "copy" /\ chAt <= Len(fmt)
  /\ fmt[chAt] # "%" \/ stop
  /\ out' = Append(out, fmt[chAt])
  /\ chAt' = chAt + 1
  /\ UNCHANGED <<items, fmt, ap, stop, percent, lflag, printing>>

Percent ==
  /\ printing = "copy" /\ chAt <= Len(fmt)
  /\ fmt[chAt] = "%" /\ ~stop
  /\ percent' = chAt /\ lflag' = FALSE
  /\ chAt' = chAt + 1
  /\ printing' = "convert"
  /\ UNCHANGED <<items, fmt, ap, out, stop>>

LongFlag ==
  /\ printing = "convert" /\ fmt[chAt] = "l"
  /\ lflag' = TRUE
  /\ chAt' = chAt + 1
  /\ UNCHANGED <<items, fmt, ap, out, stop, percent, printing>>

(* switch (ch): what is printed, with the next argument.                   *)
Convert ==
  /\ printing = "convert" /\ fmt[chAt] \in {"%", "c", "s", "d", "x"}
  /\ out' = out \o CASE fmt[chAt] = "%" -> <<"%">>
                     [] fmt[chAt] = "c" -> ap[1]
                     [] fmt[chAt] = "s" -> ap[1]
                     [] fmt[chAt] = "d" -> number(ap[1], 10)
                     [] fmt[chAt] = "x" -> number(ap[1], 16)
  /\ ap' = IF fmt[chAt] = "%" THEN ap ELSE Tail(ap)
  /\ chAt' = chAt + 1
  /\ printing' = "copy"
  /\ UNCHANGED <<items, fmt, stop, percent, lflag>>

(* default: the conversion is copied, and the rest of the format.          *)
Unknown ==
  /\ printing = "convert" /\ fmt[chAt] \notin {"%", "l", "c", "s", "d", "x"}
  /\ out' = out \o SubSeq(fmt, percent, chAt)
  /\ stop' = TRUE
  /\ chAt' = chAt + 1
  /\ printing' = "copy"
  /\ UNCHANGED <<items, fmt, ap, percent, lflag>>

Write ==
  /\ printing = "copy" /\ chAt > Len(fmt)
  /\ printing' = "written"
  /\ UNCHANGED <<items, fmt, chAt, ap, out, stop, percent, lflag>>

PrintNext ==
  \/ \E item \in Items : AddItem(item)
  \/ CallPrintf \/ CopyPlain \/ Percent \/ LongFlag \/ Convert \/ Unknown \/ Write

PrintSpec == PrintInit /\ [][PrintNext]_printVars

-------------------------------------------------------------------------------
(* What the text of an item should be: a numeral is the digits without a    *)
(* leading zero whose value is the number.                                 *)
digitOf(c) == (CHOOSE d \in 1 .. 16 : Digits[d] = c) - 1

value(digits, base) ==
  LET v[n \in 0 .. Len(digits)] ==
        IF n = 0 THEN 0 ELSE (v[n - 1] * base) + digitOf(digits[n])
  IN  v[Len(digits)]

isNumeral(text, n, base) ==
  /\ value(text, base) = n
  /\ Len(text) > 0 /\ (Len(text) > 1 => text[1] # "0")

isTextOf(text, item) ==
  LET conv   == item.conv
      values == IF conv[2] = "l" THEN LongValues ELSE IntValues
      letter == conv[Len(conv)]
  IN  CASE conv = <<"a">> -> text = <<"a">>
        [] letter = "%" -> text = <<"%">>
        [] letter \in {"c", "s"} -> text = item.arg
        [] letter = "d" -> IF item.arg < 0
                           THEN Len(text) > 0 /\ text[1] = "-" /\ isNumeral(Tail(text), -item.arg, 10)
                           ELSE isNumeral(text, item.arg, 10)
        [] letter = "x" -> /\ Len(text) > 2 /\ SubSeq(text, 1, 2) = <<"0", "x">>
                           /\ isNumeral(SubSeq(text, 3, Len(text)), item.arg % values, 16)

(* The first k items, without an unknown conversion, print as p does. *)
unknown == {k \in DOMAIN items : items[k].conv = <<"%", "z">>}
known   == IF unknown = {} THEN Len(items)
           ELSE (CHOOSE k \in unknown : \A m \in unknown : k <= m) - 1

(* Every conversion prints its own argument, of its own width, and the rest *)
(* of the format behind an unknown conversion is copied as it is: the line *)
(* can be cut into the texts of the items and that rest (safe_vprintf).    *)
LineIsFormatted ==
  printing = "written" =>
    \E cut \in [0 .. known -> 0 .. Len(out)] :
      /\ cut[0] = 0
      /\ \A k \in 1 .. known :
           cut[k - 1] <= cut[k] /\ isTextOf(SubSeq(out, cut[k - 1] + 1, cut[k]), items[k])
      /\ SubSeq(out, cut[known] + 1, Len(out)) =
           FlattenSeq([k \in 1 .. Len(items) - known |-> items[known + k].conv])

===============================================================================
