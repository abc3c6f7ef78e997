--------------------------------- MODULE Lexer ---------------------------------
(***************************************************************************)
(* tokenize() of lexer.c, one turn of its loop at a time.  A word is a     *)
(* pointer into the line, so that its text is what lies between the        *)
(* pointer and the next zero: it is right only if every zero is written    *)
(* where a word ends, before tokenize() returns.                           *)
(***************************************************************************)
EXTENDS Integers, Sequences

CONSTANTS
  Chars,     (* the characters a line is made of                            *)
  MaxLine,   (* bound: length of the line                                   *)
  Capacity   (* tokens there is room for at first (10 in lexer.c)           *)

ASSUME LexerAssumption ==
  /\ Chars \subseteq {"a", " ", "tab", "|", "&", "<", ">", ";", "!"}
  /\ MaxLine \in Nat /\ Capacity \in Nat \ {0}

VARIABLES
  line,      (* what the user typed                                         *)
  s,         (* the array that tokenize() works on                          *)
  here,      (* the pointer s, as an index                                  *)
  tokvec,    (* tokens stored so far; a word is its position in s           *)
  capacity,
  lexing     (* "typing", "loop", "done"                                    *)

lexVars == <<line, s, here, tokvec, capacity, lexing>>

Zero       == "0"
White      == {" ", "tab"}                              (* isspace()        *)
Delimiters == {" ", "|", "&", "<", ">", ";", "!", Zero}  (* of strcspn()     *)

Operators == {"T_OR", "T_PIPE", "T_AND", "T_BGJOB", "T_INPUT", "T_OUTPUT",
              "T_COLON", "T_BANG"}
Token == [op : Operators \cup {"word"}, at : Nat]

LexerType ==
  /\ line \in Seq(Chars) /\ Len(line) <= MaxLine
  /\ s \in Seq(Chars \cup {Zero})
  /\ here \in 1 .. Len(line) + 1
  /\ tokvec \in Seq(Token)
  /\ capacity \in Nat \ {0}
  /\ lexing \in {"typing", "loop", "done"}

LexerInit ==
  /\ line = << >> /\ s = << >> /\ here = 1
  /\ tokvec = << >> /\ capacity = Capacity
  /\ lexing = "typing"

(* readline(): the user types a line and ends it.                          *)
Type(c) ==
  /\ lexing = "typing" /\ Len(line) < MaxLine
  /\ line' = Append(line, c)
  /\ UNCHANGED <<s, here, tokvec, capacity, lexing>>

Enter ==
  /\ lexing = "typing"
  /\ s' = Append(line, Zero)
  /\ lexing' = "loop"
  /\ UNCHANGED <<line, here, tokvec, capacity>>

(* if (isspace( *s)) *)
SkipSpace ==
  /\ lexing = "loop"
  /\ s[here] \in White
  /\ s' = [s EXCEPT ![here] = Zero]
  /\ here' = here + 1
  /\ UNCHANGED <<line, tokvec, capacity, lexing>>

(* mutant: the vector grows one token too late *)
enough_off_by_one(cap) == IF Len(tokvec) > cap THEN 2 * cap ELSE cap

(* if (ntoks == capacity) capacity *= 2; *)
enough(cap) == IF Len(tokvec) = cap THEN 2 * cap ELSE cap

(* strcspn(s, " |&<>;!") *)
wordLength ==
  (CHOOSE k \in here .. Len(s) : s[k] \in Delimiters /\ \A i \in here .. k - 1 : s[i] \notin Delimiters)
    - here

Word ==
  /\ lexing = "loop"
  /\ s[here] \notin White \cup Delimiters
  /\ capacity' = enough(capacity)
  /\ tokvec' = Append(tokvec, [op |-> "word", at |-> here])
  /\ here' = here + wordLength
  /\ UNCHANGED <<line, s, lexing>>

single[c \in {"|", "&", "<", ">", ";", "!"}] ==
  CASE c = "|" -> "T_PIPE"   [] c = "&" -> "T_BGJOB" [] c = "<" -> "T_INPUT"
    [] c = ">" -> "T_OUTPUT" [] c = ";" -> "T_COLON" [] c = "!" -> "T_BANG"
double[c \in {"|", "&"}] == IF c = "|" THEN "T_OR" ELSE "T_AND"

isDouble == s[here] \in DOMAIN double /\ s[here + 1] = s[here]

(* mutant: only the last character of an operator is overwritten *)
erased_last(width) == {here + width - 1}

(* The characters of an operator are overwritten: they end the word before *)
(* it.                                                                     *)
erased(width) == here .. here + width - 1

Operator ==
  /\ lexing = "loop"
  /\ s[here] \in Delimiters \ (White \cup {Zero})
  /\ capacity' = enough(capacity)
  /\ LET width == IF isDouble THEN 2 ELSE 1
         op    == IF isDouble THEN double[s[here]] ELSE single[s[here]]
     IN  /\ tokvec' = Append(tokvec, [op |-> op, at |-> here])
         /\ s' = [i \in DOMAIN s |-> IF i \in erased(width) THEN Zero ELSE s[i]]
         /\ here' = here + width
  /\ UNCHANGED <<line, lexing>>

(* tokvec[ntoks] = NULL *)
Done ==
  /\ lexing = "loop"
  /\ s[here] = Zero
  /\ lexing' = "done"
  /\ UNCHANGED <<line, s, here, tokvec, capacity>>

LexerNext ==
  \/ \E c \in Chars : Type(c)
  \/ Enter \/ SkipSpace \/ Word \/ Operator \/ Done

LexerSpec == LexerInit /\ [][LexerNext]_lexVars

-------------------------------------------------------------------------------
(* A definition of the tokens of a line that does not scan it: a word is a *)
(* stretch of characters between delimiters, without the white space in    *)
(* front of it; in a run of equal | or &, every second one begins a token. *)

isDelimiter(i) == i \notin DOMAIN line \/ line[i] \in Delimiters

isStretch(a, b) ==
  /\ isDelimiter(a - 1) /\ isDelimiter(b + 1)
  /\ \A i \in a .. b : ~isDelimiter(i)

isWord(a, b) ==
  /\ a <= b /\ line[a] \notin White
  /\ \E c \in 1 .. a : isStretch(c, b) /\ \A i \in c .. a - 1 : line[i] \in White

wordsAt == {w \in (DOMAIN line) \X (DOMAIN line) : isWord(w[1], w[2])}

runStart(i) ==
  CHOOSE r \in 1 .. i :
    /\ \A k \in r .. i : line[k] = line[i]
    /\ r = 1 \/ line[r - 1] # line[i]

operatorsAt ==
  {i \in DOMAIN line :
     /\ line[i] \in DOMAIN single
     /\ line[i] \in DOMAIN double => (i - runStart(i)) % 2 = 0}

operatorAt(i) ==
  IF line[i] \in DOMAIN double /\ i < Len(line) /\ line[i + 1] = line[i]
  THEN double[line[i]] ELSE single[line[i]]

(* The text of a word token: up to the next zero. *)
textOf(at) ==
  SubSeq(s, at, (CHOOSE k \in at .. Len(s) :
                   s[k] = Zero /\ \A i \in at .. k - 1 : s[i] # Zero) - 1)

(* The tokens are the words and the operators of the line, each once, in    *)
(* order, and the text of every word is exactly its characters, although    *)
(* the zero behind it is written after the word has been stored.           *)
TokensAreWords ==
  lexing = "done" =>
    /\ {<<t.at, t.op>> : t \in {tokvec[i] : i \in DOMAIN tokvec}} =
         {<<w[1], "word">> : w \in wordsAt} \cup {<<i, operatorAt(i)>> : i \in operatorsAt}
    /\ \A i, k \in DOMAIN tokvec : i < k => tokvec[i].at < tokvec[k].at
    /\ \A w \in wordsAt : textOf(w[1]) = SubSeq(line, w[1], w[2])

(* There is room for every token and for the NULL behind the last one:     *)
(* capacity + 1 elements.                                                  *)
RoomForNull == Len(tokvec) <= capacity

===============================================================================
