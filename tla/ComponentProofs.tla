---------------------------- MODULE ComponentProofs ----------------------------
(***************************************************************************)
(* The components that run beside the job control, each on its own: robust *)
(* input and output, the sockets, the lexer, the commands, the strings of  *)
(* bits and printing.                                                      *)
(***************************************************************************)
EXTENDS Rio, OpenSocket, Lexer, Commands, BitString, SafePrint,
        SequenceTheorems, FiniteSetTheorems, WellFoundedInduction, TLAPS

(* Every set of numbers that is not empty has a smallest element: of the   *)
(* intervals from 0 up to its elements, one has no other inside of it.     *)
LEMMA LeastNumber ==
  ASSUME NEW S, S \subseteq Nat, S # {}
  PROVE  \E m \in S : \A k \in S : m <= k
<1> DEFINE T == {0 .. k : k \in S}
           R == StrictSubsetOrdering(Nat)
<1>1. IsWellFoundedOn(R, FiniteSubsetsOf(Nat))
  BY FS_StrictSubsetOrderingWellFounded
<1>2. T \subseteq FiniteSubsetsOf(Nat)
  <2> SUFFICES ASSUME NEW k \in S PROVE 0 .. k \in FiniteSubsetsOf(Nat)
    OBVIOUS
  <2> QED BY FS_Interval DEF FiniteSubsetsOf
<1>3. T # {}
  OBVIOUS
<1>4. PICK x \in T : \A y \in T : <<y, x>> \notin R
  <2> HIDE DEF T, R
  <2> QED BY <1>1, <1>2, <1>3, WFMin
<1>5. PICK m \in S : x = 0 .. m
  OBVIOUS
<1>6. ASSUME NEW k \in S, k < m PROVE FALSE
  <2>1. 0 .. k \subseteq 0 .. m /\ m \in 0 .. m /\ m \notin 0 .. k
    BY <1>6
  <2>2. <<0 .. k, 0 .. m>> \in R
    BY <2>1 DEF StrictSubsetOrdering
  <2> QED BY <1>4, <1>5, <2>2
<1> QED BY <1>6

(* Induction over an interval, for a set.                                  *)
LEMMA UpTo ==
  ASSUME NEW m \in Nat, NEW S, 1 \in S, \A k \in 1 .. m - 1 : k \in S => k + 1 \in S
  PROVE  1 .. m \subseteq S
<1> SUFFICES ASSUME NEW x \in 1 .. m, x \notin S PROVE FALSE
  OBVIOUS
<1> DEFINE T == {i \in 1 .. m : i \notin S}
<1>1. T \subseteq Nat /\ T # {}
  OBVIOUS
<1>2. PICK i \in T : \A k \in T : i <= k
  BY <1>1, LeastNumber
<1>3. i # 1 /\ i - 1 \in 1 .. m - 1 /\ i - 1 + 1 = i
  BY <1>2
<1>4. i - 1 \in S
  BY <1>2, <1>3
<1> QED BY <1>2, <1>3, <1>4

(***************************************************************************)
(* Robust input and output for every stream, buffer and count: no byte is  *)
(* lost, and every answer says what its caller may conclude from it.       *)
(*                                                                         *)
(* StreamInOrder needs that a copy stays inside of the filled part of the  *)
(* buffer, AnswerComplete that n and the bytes delivered so far determine  *)
(* each other (Counts): nleft counts down, the n of rio_readlineb() counts *)
(* up from one.                                                            *)
(***************************************************************************)

Numbers ==
  /\ pos \in Nat /\ cnt \in Int /\ ptr \in Nat /\ taken \in Nat
  /\ n \in Nat /\ want \in Nat
  /\ buf \in [1 .. BufSize -> Int]
  /\ user \in Seq(Int)

noNewline(text) == \A i \in 1 .. Len(text) : text[i] \notin Newlines

Counts ==
  /\ op \in Reads \cup {"rio_writen", "idle", "died"}
  /\ op \in {"rio_readn", "rio_readnb", "rio_writen"} => Len(user) = want - n
  /\ op = "rio_readlineb" => Len(user) = n - 1 /\ 1 <= n /\ n <= want /\ noNewline(user)
  /\ op = "rio_writen" => user = span(0, Len(user))
  /\ op \in {"idle", "died"} => user = << >>
  /\ op = "rio_readn" => cnt <= 0

(* The parts of StreamInOrder. *)
unread  == IF cnt > 0 THEN cnt ELSE 0
InOrder == op # "rio_writen" => user = span(taken, Len(user))
Held    == \A i \in 1 .. cnt : ptr + i <= BufSize /\ buf[ptr + i] = pos - cnt + i
Balance == taken + (IF op = "rio_writen" THEN 0 ELSE Len(user)) + unread = pos

RioInv == Numbers /\ Counts /\ InOrder /\ Held /\ Balance /\ AnswerComplete

-------------------------------------------------------------------------------
(* Stretches of the stream. *)

LEMMA SpanSeq ==
  ASSUME NEW a \in Int, NEW k \in Nat
  PROVE  /\ span(a, k) \in Seq(Int) /\ Len(span(a, k)) = k
         /\ \A i \in 1 .. k : span(a, k)[i] = a + i
<1>1. span(a, k) \in [1 .. k -> Int]
  BY DEF span
<1>2. span(a, k) \in Seq(Int)
  BY <1>1, SeqDef
<1>3. Len(span(a, k)) = k
  BY <1>1, <1>2, LenProperties
<1>4. \A i \in 1 .. k : span(a, k)[i] = a + i
  BY DEF span
<1> QED BY <1>2, <1>3, <1>4

(* A stretch and the one behind it. *)
LEMMA SpanConcat ==
  ASSUME NEW a \in Int, NEW k \in Nat, NEW m \in Nat, NEW b \in Int, b = a + k
  PROVE  span(a, k) \o span(b, m) = span(a, k + m)
<1> DEFINE l == span(a, k)
           r == span(b, m)
           w == span(a, k + m)
<1>1. /\ l \in Seq(Int) /\ Len(l) = k /\ \A i \in 1 .. k : l[i] = a + i
  BY SpanSeq
<1>2. /\ r \in Seq(Int) /\ Len(r) = m /\ \A i \in 1 .. m : r[i] = (a + k) + i
  BY SpanSeq
<1>3. /\ w \in Seq(Int) /\ Len(w) = k + m /\ \A i \in 1 .. k + m : w[i] = a + i
  <2>1. k + m \in Nat
    OBVIOUS
  <2> QED BY <2>1, SpanSeq
<1> HIDE DEF l, r, w
<1>4. /\ l \o r \in Seq(Int) /\ Len(l \o r) = k + m
      /\ \A i \in 1 .. k + m : (l \o r)[i] = IF i <= k THEN l[i] ELSE r[i - k]
  <2>1. /\ l \o r \in Seq(Int) /\ Len(l \o r) = Len(l) + Len(r)
        /\ \A i \in 1 .. Len(l) + Len(r) :
             (l \o r)[i] = IF i <= Len(l) THEN l[i] ELSE r[i - Len(l)]
    <3>1. l \in Seq(Int) /\ r \in Seq(Int)
      BY <1>1, <1>2
    <3> QED BY <3>1, ConcatProperties
  <2>2. Len(l) = k /\ Len(r) = m
    BY <1>1, <1>2
  <2> QED BY <2>1, <2>2
<1>5. ASSUME NEW i \in 1 .. k + m
      PROVE  (l \o r)[i] = w[i]
  <2>0. i <= k \/ i > k
    <3>1. k + m \in Int
      OBVIOUS
    <3> QED BY <3>1
  <2>1. CASE i <= k
    BY <1>1, <1>3, <1>4, <2>1
  <2>2. CASE i > k
    <3>0. i \in Int /\ ~(i <= k)
      BY <2>2
    <3>1. i - k \in 1 .. m /\ (a + k) + (i - k) = a + i
      BY <2>2
    <3>2. (l \o r)[i] = r[i - k]
      BY <1>4, <3>0
    <3> QED BY <1>2, <1>3, <3>1, <3>2
  <2> QED BY <2>0, <2>1, <2>2
<1>6. l \o r = w
  BY <1>3, <1>4, <1>5, SeqEqual
<1> QED BY <1>6 DEF l, r, w

(* A stretch without newlines and one more byte.                           *)
LEMMA NewlineAppended ==
  ASSUME NEW text \in Seq(Int), NEW b \in Int, noNewline(text)
  PROVE  LET more == text \o <<b>>
         IN  /\ more \in Seq(Int) /\ Len(more) = Len(text) + 1
             /\ b \notin Newlines => noNewline(more)
             /\ \A i \in 1 .. Len(more) : more[i] \in Newlines => i = Len(more)
<1> DEFINE more == text \o <<b>>
<1>1. <<b>> \in Seq(Int) /\ Len(<<b>>) = 1 /\ <<b>>[1] = b
  OBVIOUS
<1>2. /\ more \in Seq(Int) /\ Len(more) = Len(text) + 1
      /\ \A i \in 1 .. Len(text) + 1 : more[i] = IF i <= Len(text) THEN text[i] ELSE <<b>>[i - Len(text)]
  BY <1>1, ConcatProperties
<1>3. Len(text) \in Nat
  OBVIOUS
<1>4. more[Len(text) + 1] = b /\ \A i \in 1 .. Len(text) : more[i] = text[i]
  BY <1>1, <1>2, <1>3
<1> HIDE DEF more
<1>5. \A i \in 1 .. Len(more) : i \in 1 .. Len(text) \/ i = Len(text) + 1
  BY <1>2, <1>3
<1>6. \A i \in 1 .. Len(more) : more[i] \in Newlines => i = Len(more)
  BY <1>2, <1>4, <1>5 DEF noNewline
<1>7. b \notin Newlines => noNewline(more)
  BY <1>4, <1>5 DEF noNewline
<1> QED BY <1>2, <1>6, <1>7 DEF more

-------------------------------------------------------------------------------
(* What a result must be for AnswerComplete to hold of it. *)
Right(rc, got) ==
  /\ rc = Len(got)
  /\ op \in {"rio_readn", "rio_readnb"} => rc = want \/ (pos = Size /\ cnt <= 0)
  /\ op = "rio_writen" => got = span(0, want)
  /\ op = "rio_readlineb" =>
       /\ \A i \in 1 .. Len(got) : got[i] \in Newlines => i = rc
       /\ \/ \E i \in 1 .. Len(got) : got[i] \in Newlines
          \/ rc = want - 1
          \/ pos = Size /\ cnt <= 0

LEMMA ReturnAnswers ==
  ASSUME NEW rc \in Int, NEW got \in Seq(Int), Return(rc, got), rc < 0 \/ Right(rc, got)
  PROVE  AnswerComplete'
<1>1. last' = [op |-> op, want |-> want, rc |-> rc, bytes |-> got, eof |-> pos = Size /\ cnt <= 0]
  BY DEF Return
<1>2. CASE rc < 0
  BY <1>1, <1>2 DEF AnswerComplete
<1>3. CASE Right(rc, got)
  <2>1. DOMAIN got = 1 .. Len(got)
    OBVIOUS
  <2>2. /\ last'.op = op /\ last'.want = want /\ last'.rc = rc /\ last'.bytes = got
        /\ last'.eof = (pos = Size /\ cnt <= 0)
    BY <1>1
  <2>3. last'.op = "rio_readlineb" =>
          LET lines == {i \in DOMAIN last'.bytes : last'.bytes[i] \in Newlines}
          IN  lines \subseteq {last'.rc} /\ (lines # {} \/ last'.rc = last'.want - 1 \/ last'.eof)
    BY <1>3, <2>1, <2>2 DEF Right
  <2>4. last'.op \in {"rio_readn", "rio_readnb"} => last'.rc = last'.want \/ last'.eof
    BY <1>3, <2>2 DEF Right
  <2>5. last'.rc = Len(last'.bytes) /\ (last'.op = "rio_writen" => last'.bytes = span(0, last'.want))
    BY <1>3, <2>2 DEF Right
  <2> QED BY <2>3, <2>4, <2>5 DEF AnswerComplete
<1> QED BY <1>2, <1>3

-------------------------------------------------------------------------------
(* The beginning, and the end of a call. *)
LEMMA SpanEmpty == ASSUME NEW a PROVE span(a, 0) = << >>
BY DEF span

LEMMA RioInitInv == RioInit => RioInv
<1> SUFFICES ASSUME RioInit PROVE RioInv
  OBVIOUS
<1>1. Numbers
  BY DEF RioInit, Numbers
<1>2. Counts
  BY DEF RioInit, Counts, Reads
<1>3. InOrder /\ Held /\ Balance
  BY SpanEmpty DEF RioInit, InOrder, Held, Balance, unread
<1>4. AnswerComplete
  BY DEF RioInit, AnswerComplete, noAnswer
<1> QED BY <1>1, <1>2, <1>3, <1>4 DEF RioInv

(* A call that returns leaves the invariant behind if its answer is right   *)
(* and if what it took out is accounted for.                               *)
LEMMA ReturnKeeps ==
  ASSUME RioInv, NEW rc \in Int, NEW got \in Seq(Int), Return(rc, got),
         rc < 0 \/ Right(rc, got),
         pos' \in Nat, cnt' \in Int, ptr' \in Nat, buf' \in [1 .. BufSize -> Int],
         Held', taken + (IF op \in Reads THEN Len(got) ELSE 0) + unread' = pos'
  PROVE  RioInv'
<1>1. /\ op' \in {"idle", "died"} /\ user' = << >> /\ n' = 0 /\ want' = 0
      /\ taken' = taken + (IF op \in Reads THEN Len(got) ELSE 0)
  BY DEF Return
<1>2. Numbers'
  BY <1>1 DEF RioInv, Numbers
<1>3. Counts'
  BY <1>1 DEF Counts
<1>4. InOrder'
  BY <1>1, SpanEmpty DEF InOrder
<1>6. Balance'
  <2>1. taken' + unread' = pos' /\ Len(user') = 0
    BY <1>1
  <2>2. \A a \in Nat : a + 0 = a
    OBVIOUS
  <2>3. taken' \in Nat
    BY <1>2 DEF Numbers
  <2>4. taken' + 0 = taken'
    BY ONLY <2>2, <2>3
  <2> QED BY <2>1, <2>4 DEF Balance
<1>5. AnswerComplete'
  BY ReturnAnswers
<1> QED BY <1>2, <1>3, <1>4, <1>5, <1>6 DEF RioInv

(* Nobody calls, and a call begins.                                        *)
LEMMA CallKeeps ==
  ASSUME RioInv, NEW fun \in Reads \cup {"rio_writen"}, NEW count \in 0 .. MaxCount, NEW w,
         fun = "rio_readlineb" => count > 0, Call(fun, count, w)
  PROVE  RioInv'
<1>1. /\ op = "idle" /\ op' = fun /\ want' = count /\ user' = << >> /\ last' = noAnswer
      /\ n' = (IF fun = "rio_readlineb" THEN 1 ELSE count)
      /\ UNCHANGED <<pos, cnt, ptr, buf, taken>>
      /\ fun = "rio_readn" => cnt <= 0
  BY DEF Call, stream, rio_t
<1>2. count \in Nat
  BY CountAssumption
<1>3. Numbers'
  BY <1>1, <1>2 DEF RioInv, Numbers
<1>4. Counts'
  <2>1. noNewline(<<>>) /\ Len(<<>>) = 0 /\ span(0, 0) = << >>
    BY SpanEmpty DEF noNewline
  <2> QED BY <1>1, <1>2, <2>1 DEF Counts, Reads
<1>5. InOrder' /\ Held'
  BY <1>1, SpanEmpty DEF RioInv, InOrder, Held
<1>7. Balance'
  <2>1. user = << >>
    BY <1>1 DEF RioInv, Counts
  <2>2. unread' = unread
    BY <1>1 DEF unread
  <2> QED BY <1>1, <2>1, <2>2 DEF RioInv, Balance
<1>6. AnswerComplete'
  BY <1>1 DEF AnswerComplete, noAnswer
<1> QED BY <1>3, <1>4, <1>5, <1>6, <1>7 DEF RioInv

(* A call that is interrupted leaves all but errno as it was.              *)
LEMMA NothingMoves ==
  ASSUME RioInv, UNCHANGED <<pos, cnt, ptr, buf, op, want, n, user, taken, last>>
  PROVE  RioInv'
<1>1. Numbers' /\ Counts'
  BY DEF RioInv, Numbers, Counts, noNewline
<1>2. InOrder' /\ Held' /\ Balance'
  BY DEF RioInv, InOrder, Held, Balance, unread
<1>3. AnswerComplete'
  BY DEF RioInv, AnswerComplete
<1> QED BY <1>1, <1>2, <1>3 DEF RioInv

(* rio_readn() and rio_writen(): one turn of their loops, and the end.     *)
LEMMA UnbufferedKeeps ==
  ASSUME RioInv, ReadnLoop \/ ReadnDone \/ WritenLoop \/ WritenDone
  PROVE  RioInv'
<1>n. /\ pos \in Nat /\ cnt \in Int /\ ptr \in Nat /\ taken \in Nat /\ n \in Nat /\ want \in Nat
      /\ buf \in [1 .. BufSize -> Int] /\ user \in Seq(Int) /\ Len(user) \in Nat
  BY DEF RioInv, Numbers
<1>1. CASE ReadnLoop
  <2>0. op = "rio_readn" /\ n > 0 /\ UNCHANGED <<cnt, ptr, buf>>
    BY <1>1 DEF ReadnLoop, rio_t
  <2>1. /\ op = "rio_readn" /\ n > 0 /\ UNCHANGED <<cnt, ptr, buf>>
        /\ cnt <= 0 /\ Len(user) = want - n /\ user = span(taken, Len(user))
    BY <2>0 DEF RioInv, Counts, InOrder
  <2>2. taken + Len(user) = pos
    <3>1. unread = 0
      BY <1>n, <2>1 DEF unread
    <3>2. taken + Len(user) + unread = pos
      BY <2>1 DEF RioInv, Balance
    <3> QED BY <1>n, <3>1, <3>2
  <2>4. unread = 0 /\ unread' = 0
    <3>1. unread = 0
      BY <1>n, <2>1 DEF unread
    <3>2. unread' = unread
      BY <2>1 DEF unread
    <3> QED BY <3>1, <3>2
  <2>3. CASE \E k \in 1 .. MaxCount :
               /\ ReadSome(n, k) /\ pos' = pos + k /\ user' = user \o span(pos, k)
               /\ n' = n - k /\ UNCHANGED <<errno, op, robust, want, taken, last>>
    <3>1. PICK k \in 1 .. MaxCount :
               /\ ReadSome(n, k) /\ pos' = pos + k /\ user' = user \o span(pos, k)
               /\ n' = n - k /\ UNCHANGED <<errno, op, robust, want, taken, last>>
      BY <2>3
    <3>2. k \in Nat /\ k <= n
      BY <1>n, <3>1, CountAssumption, SizeAssumption DEF ReadSome, atMost
    <3>3. user' = span(taken, Len(user) + k)
      <4>1. span(taken, Len(user)) \o span(pos, k) = span(taken, Len(user) + k)
        <5>1. taken \in Int /\ Len(user) \in Nat /\ k \in Nat /\ pos \in Int /\ pos = taken + Len(user)
          BY <1>n, <2>2, <3>2
        <5> QED BY <5>1, SpanConcat
      <4> QED BY <2>1, <3>1, <4>1
    <3>4. user' \in Seq(Int) /\ Len(user') = Len(user) + k
      BY <1>n, <3>2, <3>3, SpanSeq, SMTT(30)
    <3>5. Numbers'
      BY <1>n, <2>1, <3>1, <3>2, <3>4 DEF Numbers
    <3>6. Counts'
      BY <1>n, <2>1, <3>1, <3>2, <3>4 DEF Counts, Reads
    <3>7. InOrder'
      BY <3>1, <3>3, <3>4 DEF InOrder
    <3>8. Held'
      BY <1>n, <2>1 DEF Held
    <3>9. Balance'
      <4>1. taken' + Len(user') + 0 = pos'
        <5>1. taken + (Len(user) + k) + 0 = pos + k
          BY <1>n, <2>2, <3>2
        <5>2. taken' = taken /\ Len(user') = Len(user) + k /\ pos' = pos + k
          BY <3>1, <3>4
        <5> QED BY <5>1, <5>2
      <4> QED BY <2>1, <2>4, <3>1, <4>1 DEF Balance
    <3>10. AnswerComplete'
      BY <3>1 DEF RioInv, AnswerComplete
    <3> QED BY <3>5, <3>6, <3>7, <3>8, <3>9, <3>10 DEF RioInv
  <2>5. CASE Fail("EINTR") /\ UNCHANGED <<call, taken, last>>
    <3>1. UNCHANGED <<pos, cnt, ptr, buf, op, want, n, user, taken, last>>
      BY <2>1, <2>5 DEF Fail, call
    <3> QED BY <3>1, NothingMoves
  <2>6. CASE Fail("EIO") /\ Return(-1, user)
    <3>1. UNCHANGED <<pos, cnt, ptr, buf>>
      BY <2>1, <2>6 DEF Fail
    <3>2. Held'
      BY <3>1 DEF Held, RioInv
    <3>3. taken + (IF op \in Reads THEN Len(user) ELSE 0) + unread' = pos'
      BY <1>n, <2>1, <2>2, <2>4, <3>1 DEF Reads
    <3> QED BY <1>n, <2>6, <3>1, <3>2, <3>3, ReturnKeeps
  <2>7. CASE ReadEof /\ Return(want - n, user) /\ UNCHANGED stream
    <3>1. UNCHANGED <<pos, cnt, ptr, buf>> /\ pos = Size
      BY <2>1, <2>7 DEF stream, ReadEof
    <3>2. Held'
      BY <3>1 DEF Held, RioInv
    <3>3. taken + (IF op \in Reads THEN Len(user) ELSE 0) + unread' = pos'
      BY <1>n, <2>1, <2>2, <2>4, <3>1 DEF Reads
    <3>4. Right(want - n, user)
      BY <2>1, <3>1 DEF Right
    <3> QED BY <1>n, <2>7, <3>1, <3>2, <3>3, <3>4, ReturnKeeps
  <2> QED BY <1>1, <2>3, <2>5, <2>6, <2>7 DEF ReadnLoop
<1>2. CASE ReadnDone
  <2>1. /\ op \in {"rio_readn", "rio_readnb"} /\ n = 0 /\ Return(want, user)
        /\ UNCHANGED <<pos, cnt, ptr, buf>>
    BY <1>2 DEF ReadnDone, stream, rio_t
  <2>2. Len(user) = want
    BY <1>n, <2>1 DEF RioInv, Counts
  <2>3. Held' /\ unread' = unread
    BY <2>1 DEF Held, unread, RioInv
  <2>4. taken + (IF op \in Reads THEN Len(user) ELSE 0) + unread' = pos'
    BY <2>1, <2>3 DEF RioInv, Balance, Reads
  <2>5. Right(want, user)
    BY <2>1, <2>2 DEF Right
  <2> QED BY <1>n, <2>1, <2>3, <2>4, <2>5, ReturnKeeps
<1>3. CASE WritenLoop
  <2>1. op = "rio_writen" /\ n > 0 /\ UNCHANGED <<cnt, ptr, buf>>
    BY <1>3 DEF WritenLoop, rio_t
  <2>2. Len(user) = want - n /\ user = span(0, Len(user))
    BY <2>1 DEF RioInv, Counts
  <2>3. unread' = unread
    BY <2>1 DEF unread
  <2>4. CASE \E k \in 1 .. n :
               /\ user' = user \o span(want - n, k) /\ n' = n - k
               /\ UNCHANGED <<stream, op, robust, want, taken, last>>
    <3>1. PICK k \in 1 .. n :
               /\ user' = user \o span(want - n, k) /\ n' = n - k
               /\ UNCHANGED <<stream, op, robust, want, taken, last>>
      BY <2>4
    <3>2. k \in Nat /\ k <= n /\ pos' = pos
      BY <1>n, <3>1 DEF stream
    <3>3. user' = span(0, Len(user) + k)
      <4>1. span(0, Len(user)) \o span(Len(user), k) = span(0, Len(user) + k)
        <5>1. Len(user) \in Nat /\ k \in Nat /\ Len(user) \in Int /\ Len(user) = 0 + Len(user) /\ 0 \in Int
          BY <1>n, <3>2
        <5> QED BY <5>1, SpanConcat
      <4> QED BY <2>2, <3>1, <4>1
    <3>4. user' \in Seq(Int) /\ Len(user') = Len(user) + k
      BY <1>n, <3>2, <3>3, SpanSeq, SMTT(30)
    <3>5. Numbers'
      BY <1>n, <2>1, <3>1, <3>2, <3>4 DEF Numbers
    <3>6. Counts'
      <4>1. Len(user') = want' - n'
        BY <1>n, <2>2, <3>1, <3>2, <3>4
      <4> QED BY <2>1, <3>1, <3>3, <3>4, <4>1 DEF Counts, Reads
    <3>7. InOrder' /\ Held' /\ AnswerComplete'
      BY <2>1, <3>1, <3>2 DEF InOrder, RioInv, Held, AnswerComplete
    <3>8. Balance'
      BY <2>1, <2>3, <3>1, <3>2 DEF RioInv, Balance
    <3> QED BY <3>5, <3>6, <3>7, <3>8 DEF RioInv
  <2>5. CASE Fail("EINTR") /\ UNCHANGED <<call, taken, last>>
    <3>1. UNCHANGED <<pos, cnt, ptr, buf, op, want, n, user, taken, last>>
      BY <2>1, <2>5 DEF Fail, call
    <3> QED BY <3>1, NothingMoves
  <2>6. CASE Return(-1, user) /\ UNCHANGED pos
    <3>1. Held'
      BY <2>1, <2>6 DEF Held, RioInv
    <3>2. taken + (IF op \in Reads THEN Len(user) ELSE 0) + unread' = pos'
      BY <2>1, <2>3, <2>6 DEF RioInv, Balance, Reads
    <3> QED BY <1>n, <2>1, <2>6, <3>1, <3>2, ReturnKeeps
  <2> QED BY <1>3, <2>4, <2>5, <2>6 DEF WritenLoop, Fail, stream
<1>4. CASE WritenDone
  <2>1. /\ op = "rio_writen" /\ n = 0 /\ Return(want, user)
        /\ UNCHANGED <<pos, cnt, ptr, buf>>
    BY <1>4 DEF WritenDone, stream, rio_t
  <2>2. Len(user) = want /\ user = span(0, Len(user))
    BY <1>n, <2>1 DEF RioInv, Counts
  <2>3. Held' /\ unread' = unread
    BY <2>1 DEF Held, unread, RioInv
  <2>4. taken + (IF op \in Reads THEN Len(user) ELSE 0) + unread' = pos'
    BY <2>1, <2>3 DEF RioInv, Balance, Reads
  <2>5. Right(want, user)
    BY <2>1, <2>2 DEF Right
  <2> QED BY <1>n, <2>1, <2>3, <2>4, <2>5, ReturnKeeps
<1> QED BY <1>1, <1>2, <1>3, <1>4

(* rio_read() fills the buffer. *)
LEMMA RefillKeeps ==
  ASSUME RioInv, Refill \/ RefillInterrupted \/ RefillFailed \/ RefillEof
  PROVE  RioInv'
<1>n. /\ pos \in Nat /\ cnt \in Int /\ ptr \in Nat /\ taken \in Nat /\ n \in Nat /\ want \in Nat
      /\ buf \in [1 .. BufSize -> Int] /\ user \in Seq(Int) /\ Len(user) \in Nat
  BY DEF RioInv, Numbers
<1>b. BufSize \in Nat
  BY CountAssumption
<1>1. needs /\ cnt <= 0
  BY DEF Refill, RefillInterrupted, RefillFailed, RefillEof
<1>2. op \in Buffered /\ user = span(taken, Len(user)) /\ taken + Len(user) = pos
  <2>1. op \in Buffered
    BY <1>1 DEF needs, Buffered
  <2>2. unread = 0
    BY <1>n, <1>1 DEF unread
  <2>3. taken + Len(user) + 0 = pos
    BY <2>1, <2>2 DEF RioInv, Balance, Buffered
  <2>4. user = span(taken, Len(user))
    BY <2>1 DEF RioInv, InOrder, Buffered
  <2> QED BY <1>n, <2>1, <2>3, <2>4
<1>3. CASE Refill
  <2>1. PICK k \in 1 .. BufSize :
          /\ ReadSome(BufSize, k) /\ pos' = pos + k /\ cnt' = k /\ ptr' = 0
          /\ buf' = [i \in 1 .. BufSize |-> IF i <= k THEN pos + i ELSE buf[i]]
    BY <1>3 DEF Refill, resetPtr
  <2>2. UNCHANGED <<op, want, n, user, taken, last>> /\ k \in Nat /\ k > 0 /\ k <= BufSize
    BY <1>3, <1>b, <2>1 DEF Refill, call
  <2>3. Numbers'
    <3>1. \A i \in 1 .. BufSize : (IF i <= k THEN pos + i ELSE buf[i]) \in Int
      BY <1>n
    <3>2. buf' \in [1 .. BufSize -> Int]
      BY <2>1, <3>1
    <3> QED BY <1>n, <2>1, <2>2, <3>2 DEF Numbers
  <2>4. Counts'
    BY <1>2, <2>2 DEF RioInv, Counts, Buffered, noNewline
  <2>5. InOrder' /\ AnswerComplete'
    BY <2>2 DEF RioInv, InOrder, AnswerComplete
  <2>6. Held'
    <3>1. ASSUME NEW i \in 1 .. k
          PROVE  ptr' + i <= BufSize /\ buf'[ptr' + i] = pos' - cnt' + i
      <4>1. i \in 1 .. BufSize /\ i <= k /\ 0 + i = i /\ (pos + k) - k + i = pos + i
        BY <1>n, <1>b, <2>2
      <4>2. buf'[i] = pos + i
        BY <2>1, <4>1
      <4> QED BY <2>1, <4>1, <4>2
    <3> QED BY <2>1, <3>1 DEF Held
  <2>7. Balance'
    <3>1. unread' = k
      BY <2>1, <2>2 DEF unread
    <3>2. op' # "rio_writen"
      BY <1>2, <2>2 DEF Buffered
    <3>3. taken' + Len(user') + k = pos'
      BY <1>n, <1>2, <2>1, <2>2
    <3> QED BY <3>1, <3>2, <3>3 DEF Balance
  <2> QED BY <2>3, <2>4, <2>5, <2>6, <2>7 DEF RioInv
<1>4. CASE RefillInterrupted
  <2>1. UNCHANGED <<pos, ptr, buf, op, want, n, user, taken, last>> /\ cnt' = -1
    BY <1>4 DEF RefillInterrupted, Fail, call
  <2>2. Numbers'
    BY <1>n, <2>1 DEF Numbers
  <2>3. Counts'
    BY <1>2, <2>1 DEF RioInv, Counts, Buffered, noNewline
  <2>4. InOrder' /\ AnswerComplete'
    BY <2>1 DEF RioInv, InOrder, AnswerComplete
  <2>5. Held'
    BY <2>1 DEF Held
  <2>6. Balance'
    <3>1. unread' = 0
      BY <2>1 DEF unread
    <3>2. op' # "rio_writen"
      BY <1>2, <2>1 DEF Buffered
    <3>3. taken + Len(user) + 0 = pos
      BY <1>n, <1>2
    <3> QED BY <2>1, <3>1, <3>2, <3>3 DEF Balance
  <2> QED BY <2>2, <2>3, <2>4, <2>5, <2>6 DEF RioInv
<1>5. CASE RefillFailed
  <2>1. UNCHANGED <<pos, ptr, buf>> /\ cnt' = -1 /\ Return(-1, user)
    BY <1>5 DEF RefillFailed, Fail
  <2>2. Held' /\ unread' = 0
    BY <2>1 DEF Held, unread
  <2>3. taken + (IF op \in Reads THEN Len(user) ELSE 0) + unread' = pos'
    BY <1>n, <1>2, <2>1, <2>2 DEF Buffered, Reads
  <2> QED BY <1>n, <2>1, <2>2, <2>3, ReturnKeeps
<1>6. CASE RefillEof
  <2> DEFINE rc == IF op = "rio_readnb" THEN want - n ELSE n - 1
  <2>1. UNCHANGED <<pos, ptr, buf>> /\ cnt' = 0 /\ Return(rc, user) /\ pos = Size
    BY <1>6 DEF RefillEof, ReadEof, stream
  <2>2. Held' /\ unread' = 0
    BY <2>1 DEF Held, unread
  <2>3. taken + (IF op \in Reads THEN Len(user) ELSE 0) + unread' = pos'
    BY <1>n, <1>2, <2>1, <2>2 DEF Buffered, Reads
  <2>4. rc \in Int
    BY <1>n
  <2>5. Right(rc, user)
    <3>1. rc = Len(user)
      BY <1>2 DEF RioInv, Counts, Buffered
    <3>2. op = "rio_readlineb" => noNewline(user)
      BY DEF RioInv, Counts
    <3> QED BY <1>1, <1>2, <2>1, <3>1, <3>2 DEF Right, Buffered, noNewline
  <2> QED BY <1>n, <2>1, <2>2, <2>3, <2>4, <2>5, ReturnKeeps
<1> QED BY <1>3, <1>4, <1>5, <1>6

(* What a copy from the buffer takes is the next stretch of the stream.    *)
LEMMA CopiedSpan ==
  ASSUME RioInv, NEW k \in Nat, k <= cnt, op \in Buffered
  PROVE  /\ copied(k) = span(taken + Len(user), k)
         /\ user \o copied(k) = span(taken, Len(user) + k)
<1>n. pos \in Nat /\ cnt \in Int /\ ptr \in Nat /\ taken \in Nat /\ Len(user) \in Nat /\ BufSize \in Nat
  BY CountAssumption DEF RioInv, Numbers
<1>1. op # "rio_writen"
  BY DEF Buffered
<1>2. taken + Len(user) + cnt = pos \/ k = 0
  <2>1. taken + Len(user) + unread = pos
    BY <1>1 DEF RioInv, Balance
  <2>2. CASE cnt > 0
    BY <2>1, <2>2 DEF unread
  <2>3. CASE ~(cnt > 0)
    BY <1>n, <2>3
  <2> QED BY <2>2, <2>3
<1>3. ASSUME NEW i \in 1 .. k
      PROVE  (IF ptr + i <= BufSize THEN buf[ptr + i] ELSE Size) = taken + Len(user) + i
  <2>1. i \in 1 .. cnt /\ i \in Nat /\ k # 0
    BY <1>n
  <2>2. ptr + i <= BufSize /\ buf[ptr + i] = pos - cnt + i
    BY <2>1 DEF RioInv, Held
  <2>3. pos - cnt + i = taken + Len(user) + i
    BY <1>n, <1>2, <2>1
  <2> QED BY <2>2, <2>3
<1>4. copied(k) = span(taken + Len(user), k)
  BY <1>3 DEF copied, span
<1>5. user = span(taken, Len(user))
  BY <1>1 DEF RioInv, InOrder
<1>6. span(taken, Len(user)) \o span(taken + Len(user), k) = span(taken, Len(user) + k)
  <2>1. taken \in Int /\ \E b \in Int : b = taken + Len(user)
    BY <1>n
  <2>2. PICK b \in Int : b = taken + Len(user)
    BY <2>1
  <2>3. span(taken, Len(user)) \o span(b, k) = span(taken, Len(user) + k)
    <3>1. taken \in Int /\ Len(user) \in Nat /\ k \in Nat /\ b \in Int /\ b = taken + Len(user)
      BY <1>n, <2>1, <2>2
    <3> QED BY <3>1, SpanConcat
  <2> QED BY <2>2, <2>3
<1> QED BY <1>4, <1>5, <1>6

(* k bytes move from the buffer to the user, and the call goes on.         *)
LEMMA CopyKeeps ==
  ASSUME RioInv, NEW k \in Nat, 0 < cnt, k <= cnt, op \in Buffered,
         Copy(k), UNCHANGED <<pos, buf, op, want, taken, last>>, n' \in Nat, Counts'
  PROVE  RioInv'
<1>n. /\ pos \in Nat /\ cnt \in Int /\ ptr \in Nat /\ taken \in Nat /\ want \in Nat
      /\ buf \in [1 .. BufSize -> Int] /\ Len(user) \in Nat
  BY DEF RioInv, Numbers
<1>1. user' = span(taken, Len(user) + k) /\ ptr' = ptr + k /\ cnt' = cnt - k
  BY CopiedSpan DEF Copy
<1>2. user' \in Seq(Int) /\ Len(user') = Len(user) + k
  BY <1>n, <1>1, SpanSeq
<1>3. Numbers'
  BY <1>n, <1>1, <1>2 DEF Numbers
<1>4. InOrder' /\ AnswerComplete'
  BY <1>1, <1>2 DEF RioInv, InOrder, AnswerComplete
<1>5. Held'
  <2>1. ASSUME NEW i \in 1 .. cnt - k
        PROVE  ptr + k + i <= BufSize /\ buf[ptr + k + i] = pos - (cnt - k) + i
    <3>1. k + i \in 1 .. cnt /\ i \in Nat
      BY <1>n
    <3>2. ptr + (k + i) <= BufSize /\ buf[ptr + (k + i)] = pos - cnt + (k + i)
      BY <3>1 DEF RioInv, Held
    <3>3. ptr + (k + i) = ptr + k + i /\ pos - cnt + (k + i) = pos - (cnt - k) + i
      BY <1>n, <3>1
    <3> QED BY <3>2, <3>3
  <2> QED BY <1>1, <2>1 DEF Held
<1>6. Balance'
  <2>1. op # "rio_writen" /\ op' # "rio_writen"
    BY DEF Buffered
  <2>2. taken + Len(user) + cnt = pos
    BY <2>1 DEF RioInv, Balance, unread
  <2>3. unread' = cnt - k
    <3>1. cnt - k > 0 \/ (cnt - k = 0 /\ ~(cnt - k > 0))
      BY <1>n
    <3> QED BY <1>1, <3>1 DEF unread
  <2>4. taken + (Len(user) + k) + (cnt - k) = pos
    BY <1>n, <2>2
  <2> QED BY <1>2, <2>1, <2>3, <2>4 DEF Balance
<1> QED BY <1>3, <1>4, <1>5, <1>6 DEF RioInv

(* rio_readnb() and rio_readlineb() copy from the buffer.                  *)
LEMMA BufferedKeeps ==
  ASSUME RioInv, CopyBlock \/ CopyChar \/ CopyNewline \/ LineFull
  PROVE  RioInv'
<1>n. /\ pos \in Nat /\ cnt \in Int /\ ptr \in Nat /\ taken \in Nat /\ n \in Nat /\ want \in Nat
      /\ buf \in [1 .. BufSize -> Int] /\ user \in Seq(Int) /\ Len(user) \in Nat
  BY DEF RioInv, Numbers
<1>1. CASE CopyBlock
  <2> DEFINE k == atMost(n, cnt)
  <2>1. /\ op = "rio_readnb" /\ cnt > 0 /\ Copy(k) /\ n' = n - k
        /\ UNCHANGED <<pos, buf, op, want, taken, last>>
    BY <1>1 DEF CopyBlock, stream
  <2>2. k \in Nat /\ k <= cnt /\ k <= n
    BY <1>n, <2>1 DEF atMost
  <2> HIDE DEF k
  <2>3. op \in Buffered
    BY <2>1 DEF Buffered
  <2>4. Len(user') = Len(user) + k
    <3>1. user' = span(taken, Len(user) + k)
      BY <2>1, <2>2, <2>3, CopiedSpan DEF Copy
    <3> QED BY <1>n, <2>2, <3>1, SpanSeq
  <2>5. n' \in Nat
    BY <1>n, <2>1, <2>2
  <2>6. Counts'
    <3>1. Len(user) = want - n
      BY <2>1 DEF RioInv, Counts
    <3>2. Len(user') = want' - n'
      BY <1>n, <2>1, <2>2, <2>4, <3>1
    <3> QED BY <2>1, <3>2 DEF Counts, Reads
  <2> QED BY <2>1, <2>2, <2>3, <2>5, <2>6, CopyKeeps
<1>2. CASE CopyChar \/ CopyNewline
  <2>1. op = "rio_readlineb" /\ op \in Buffered /\ cnt > 0 /\ n < want
    BY <1>2 DEF CopyChar, CopyNewline, needs, Buffered
  <2>2. Len(user) = n - 1 /\ 1 <= n /\ noNewline(user)
    BY <2>1 DEF RioInv, Counts
  <2> DEFINE b == copied(1)[1]
  <2>3. copied(1) = <<b>> /\ b \in Int
    <3>1. copied(1) = span(taken + Len(user), 1)
      BY <1>n, <2>1, CopiedSpan
    <3>2. PICK a \in Int : a = taken + Len(user)
      BY <1>n
    <3>3. span(a, 1) \in Seq(Int) /\ Len(span(a, 1)) = 1
      BY SpanSeq
    <3> QED BY <3>1, <3>2, <3>3
  <2> HIDE DEF b
  <2>4. /\ user \o <<b>> \in Seq(Int) /\ Len(user \o <<b>>) = Len(user) + 1
        /\ b \notin Newlines => noNewline(user \o <<b>>)
        /\ \A i \in 1 .. Len(user \o <<b>>) :
             (user \o <<b>>)[i] \in Newlines => i = Len(user \o <<b>>)
    BY <1>n, <2>2, <2>3, NewlineAppended
  <2>5. CASE CopyChar
    <3>1. b \notin Newlines /\ Copy(1) /\ n' = n + 1 /\ UNCHANGED <<pos, buf, op, want, taken, last>>
      BY <2>5 DEF CopyChar, stream, b
    <3>2. user' = user \o <<b>>
      BY <2>3, <3>1 DEF Copy
    <3>3. Counts'
      <4>1. Len(user') = n' - 1 /\ 1 <= n' /\ n' <= want'
        BY <1>n, <2>1, <2>2, <2>4, <3>1, <3>2
      <4>2. noNewline(user')
        BY <2>4, <3>1, <3>2
      <4> QED BY <2>1, <3>1, <4>1, <4>2 DEF Counts, Reads
    <3>4. n' \in Nat /\ 1 <= cnt
      BY <1>n, <2>1, <3>1
    <3> QED BY <2>1, <3>1, <3>3, <3>4, CopyKeeps
  <2>6. CASE CopyNewline
    <3>1. /\ b \in Newlines /\ ptr' = ptr + 1 /\ cnt' = cnt - 1 /\ UNCHANGED <<pos, buf>>
          /\ Return((n + 1) - 1, user \o <<b>>)
      BY <2>3, <2>6 DEF CopyNewline, stream, lineLength, b
    <3>2. (n + 1) - 1 = Len(user \o <<b>>) /\ (n + 1) - 1 \in Int /\ 1 <= cnt
      BY <1>n, <2>1, <2>2, <2>4
    <3>3. Right((n + 1) - 1, user \o <<b>>)
      <4>1. (user \o <<b>>)[Len(user) + 1] = b
        BY <1>n, <2>3
      <4>2. Len(user) + 1 \in 1 .. Len(user \o <<b>>)
        BY <1>n, <2>4
      <4>3. \E i \in 1 .. Len(user \o <<b>>) : (user \o <<b>>)[i] \in Newlines
        BY <3>1, <4>1, <4>2
      <4> QED BY <2>1, <2>4, <3>2, <4>3 DEF Right
    <3>4. Held'
      <4>1. ASSUME NEW i \in 1 .. cnt - 1
            PROVE  ptr + 1 + i <= BufSize /\ buf[ptr + 1 + i] = pos - (cnt - 1) + i
        <5>1. 1 + i \in 1 .. cnt /\ i \in Nat
          BY <1>n
        <5>2. ptr + (1 + i) <= BufSize /\ buf[ptr + (1 + i)] = pos - cnt + (1 + i)
          BY <5>1 DEF RioInv, Held
        <5>3. ptr + (1 + i) = ptr + 1 + i /\ pos - cnt + (1 + i) = pos - (cnt - 1) + i
          BY <1>n, <5>1
        <5> QED BY <5>2, <5>3
      <4> QED BY <3>1, <4>1 DEF Held
    <3>5. taken + (IF op \in Reads THEN Len(user \o <<b>>) ELSE 0) + unread' = pos'
      <4>1. unread = cnt /\ taken + Len(user) + unread = pos
        BY <2>1 DEF RioInv, Balance, unread
      <4>2. unread' = cnt - 1
        <5>1. cnt - 1 > 0 \/ (cnt - 1 = 0 /\ ~(cnt - 1 > 0))
          BY <1>n, <2>1
        <5> QED BY <3>1, <5>1 DEF unread
      <4>3. taken + (Len(user) + 1) + (cnt - 1) = pos
        BY <1>n, <4>1
      <4> QED BY <2>1, <2>4, <3>1, <4>2, <4>3 DEF Reads
    <3>6. cnt' \in Int /\ ptr' \in Nat
      BY <1>n, <3>1
    <3> QED BY <1>n, <2>4, <3>1, <3>2, <3>3, <3>4, <3>5, <3>6, ReturnKeeps
  <2> QED BY <1>2, <2>5, <2>6
<1>3. CASE LineFull
  <2>1. op = "rio_readlineb" /\ n >= want /\ Return(n - 1, user) /\ UNCHANGED <<pos, cnt, ptr, buf>>
    BY <1>3 DEF LineFull, stream, rio_t
  <2>2. Len(user) = n - 1 /\ n <= want /\ noNewline(user)
    BY <2>1 DEF RioInv, Counts
  <2>3. n - 1 \in Int /\ n = want
    BY <1>n, <2>1, <2>2
  <2>4. Right(n - 1, user)
    BY <2>1, <2>2, <2>3 DEF Right, noNewline
  <2>5. Held' /\ unread' = unread
    BY <2>1 DEF RioInv, Held, unread
  <2>6. taken + (IF op \in Reads THEN Len(user) ELSE 0) + unread' = pos'
    BY <2>1, <2>5 DEF RioInv, Balance, Reads
  <2> QED BY <1>n, <2>1, <2>3, <2>4, <2>5, <2>6, ReturnKeeps
<1> QED BY <1>1, <1>2, <1>3

LEMMA RioStep == RioInv /\ [RioNext]_rioVars => RioInv'
<1> SUFFICES ASSUME RioInv, [RioNext]_rioVars PROVE RioInv'
  OBVIOUS
<1>1. CASE \E fun \in Reads \cup {"rio_writen"}, count \in 0 .. MaxCount, w \in BOOLEAN :
             (fun = "rio_readlineb" => count > 0) /\ Call(fun, count, w)
  BY <1>1, CallKeeps
<1>2. CASE UNCHANGED rioVars
  BY <1>2, NothingMoves DEF rioVars, stream, rio_t, call
<1> QED BY <1>1, <1>2, UnbufferedKeeps, RefillKeeps, BufferedKeeps DEF RioNext

(* Over any sequence of calls of rio_readn(), rio_readnb() and              *)
(* rio_readlineb(), any short counts and any interruptions, the bytes that *)
(* callers got, then those in the buffer, are the stream (rio_read).       *)
THEOREM StreamKept == RioSpec => []StreamInOrder
<1>1. RioInv => StreamInOrder
  BY DEF RioInv, InOrder, Held, Balance, unread, StreamInOrder
<1> QED BY <1>1, RioInitInv, RioStep, PTL DEF RioSpec

(* Every answer that is not an error is complete: all that was asked for,   *)
(* or the rest of the stream; a line ends at its first newline.            *)
THEOREM AnswersComplete == RioSpec => []AnswerComplete
<1>1. RioInv => AnswerComplete
  BY DEF RioInv
<1> QED BY <1>1, RioInitInv, RioStep, PTL DEF RioSpec

-------------------------------------------------------------------------------
(***************************************************************************)
(* The sockets of libcsapp, for every length of the address list, every    *)
(* supply of descriptors and every number of failures.                     *)
(*                                                                         *)
(* The invariant is the ranges of the numbers, the two properties that the *)
(* runs check, and that the running call looks at an address whenever it   *)
(* owns a socket (AddressAtHand): without it freeaddrinfo() could be       *)
(* reached with a socket that nobody is given.                             *)
(***************************************************************************)

(* A socket that the running call owns was made for an address, and it is   *)
(* open.                                                                   *)
AddressAtHand ==
  /\ place \in {"connect", "bind", "close"} => left > 0
  /\ place = "freeaddrinfo" => left > 0
  /\ inCall # {} => fd \in 0 .. MaxSockets - 1

Ranges ==
  /\ f \in Returns
  /\ left \in Nat /\ lists \in Nat /\ badCloses \in Nat
  /\ owned \subseteq 0 .. MaxSockets - 1

SocketInv == Ranges /\ NoSocketLeak /\ NoListLeak /\ AddressAtHand

-------------------------------------------------------------------------------
(* At the start.                                                           *)
LEMMA SocketInitInv == SocketInit => SocketInv
<1> SUFFICES ASSUME SocketInit PROVE SocketInv
  OBVIOUS
<1>1. Ranges
  BY SocketAssumption DEF SocketInit, Ranges, Returns, NoFd
<1>2. NoSocketLeak /\ NoListLeak /\ AddressAtHand
  BY DEF SocketInit, NoSocketLeak, NoListLeak, AddressAtHand, inCall
<1> QED BY <1>1, <1>2 DEF SocketInv

(* What a call that fails, and one that succeeds, leave behind.             *)
LEMMA CallFails ==
  ASSUME NEW rc \in {-2, -1}, CallReturns(rc)
  PROVE  place' \in {"died", "idle"} /\ owned' = owned /\ left' = 0 /\ f' \in Returns
BY DEF CallReturns, Returns

LEMMA CallSucceeds ==
  ASSUME NEW rc \in Nat, CallReturns(rc)
  PROVE  place' = "idle" /\ owned' = owned \cup {rc} /\ left' = 0 /\ f' \in Returns
BY DEF CallReturns, Returns

(* A call that has neither a list nor a socket begins, or a caller closes   *)
(* what it got.                                                            *)
LEMMA OutsideKeeps ==
  ASSUME SocketInv, (\E which \in Returns, w \in BOOLEAN : Begin(which, w)) \/ CallerCloses
  PROVE  SocketInv'
<1>1. CASE \E which \in Returns, w \in BOOLEAN : Begin(which, w)
  <2>1. PICK which \in Returns, w \in BOOLEAN : Begin(which, w)
    BY <1>1
  <2>2. Ranges'
    BY <2>1 DEF Begin, SocketInv, Ranges
  <2>3. NoSocketLeak' /\ NoListLeak' /\ AddressAtHand'
    BY <2>1 DEF Begin, SocketInv, NoSocketLeak, NoListLeak, AddressAtHand, inCall
  <2> QED BY <2>2, <2>3 DEF SocketInv
<1>2. CASE CallerCloses
  <2>1. Ranges'
    BY <1>2 DEF CallerCloses, SocketInv, Ranges, frame
  <2>2. place = "idle" /\ UNCHANGED <<place, left, fd, lists, badCloses>>
    BY <1>2 DEF CallerCloses, frame
  <2>3. NoSocketLeak'
    BY <1>2, <2>2 DEF CallerCloses, SocketInv, NoSocketLeak, inCall
  <2>4. NoListLeak' /\ AddressAtHand'
    BY <2>2 DEF SocketInv, NoListLeak, AddressAtHand, inCall
  <2> QED BY <2>1, <2>3, <2>4 DEF SocketInv
<1> QED BY <1>1, <1>2

(* The list of addresses arrives, and the loop makes a socket for one.      *)
LEMMA LoopKeeps ==
  ASSUME SocketInv, Getaddrinfo \/ Socket \/ ConnectOrBind \/ Close
  PROVE  SocketInv'
<1> USE SocketAssumption
<1>1. CASE Getaddrinfo
  <2>1. place = "getaddrinfo" /\ UNCHANGED <<sockets, badCloses>>
    BY <1>1 DEF Getaddrinfo
  <2>2. CASE CallReturns(-2) /\ UNCHANGED lists
    <3>1. place' \in {"died", "idle"} /\ owned' = owned /\ left' = 0 /\ f' \in Returns
      BY <2>2, CallFails
    <3>2. Ranges'
      BY <2>1, <2>2, <3>1 DEF SocketInv, Ranges
    <3>3. NoSocketLeak' /\ NoListLeak' /\ AddressAtHand'
      BY <2>1, <2>2, <3>1 DEF SocketInv, NoSocketLeak, NoListLeak, AddressAtHand, inCall
    <3> QED BY <3>2, <3>3 DEF SocketInv
  <2>3. CASE /\ left' \in 1 .. MaxAddresses /\ lists' = lists + 1 /\ place' = "socket"
             /\ UNCHANGED <<owned, f, strict, fd, result>>
    <3>1. Ranges'
      BY <2>1, <2>3 DEF SocketInv, Ranges
    <3>2. NoSocketLeak' /\ NoListLeak' /\ AddressAtHand'
      BY <2>1, <2>3 DEF SocketInv, Ranges, NoSocketLeak, NoListLeak, AddressAtHand, inCall
    <3> QED BY <3>1, <3>2 DEF SocketInv
  <2> QED BY <1>1, <2>2, <2>3 DEF Getaddrinfo
<1>2. CASE Socket
  <2>1. CASE \E new \in unusedFds :
                /\ sockets' = sockets \cup {new} /\ fd' = new /\ UNCHANGED left
                /\ place' = IF f = "open_clientfd" THEN "connect" ELSE "bind"
    <3>1. PICK new \in unusedFds :
                /\ sockets' = sockets \cup {new} /\ fd' = new /\ UNCHANGED left
                /\ place' = IF f = "open_clientfd" THEN "connect" ELSE "bind"
      BY <2>1
    <3>2. /\ place = "socket" /\ left > 0 /\ new \in 0 .. MaxSockets - 1 /\ new \notin sockets
          /\ UNCHANGED <<owned, lists, f, strict, result, badCloses>>
      BY <1>2, <3>1 DEF Socket, unusedFds
    <3>3. Ranges'
      BY <3>1, <3>2 DEF SocketInv, Ranges
    <3>4. NoSocketLeak' /\ NoListLeak' /\ AddressAtHand'
      BY <3>1, <3>2 DEF SocketInv, Ranges, NoSocketLeak, NoListLeak, AddressAtHand, inCall
    <3> QED BY <3>3, <3>4 DEF SocketInv
  <2>2. CASE Advance /\ fd' = NoFd /\ UNCHANGED sockets
    <3>1. /\ place = "socket" /\ left > 0 /\ place' = "socket" /\ left' = left - 1
          /\ fd' = NoFd /\ UNCHANGED <<sockets, owned, lists, f, strict, result, badCloses>>
      BY <1>2, <2>2 DEF Socket, Advance
    <3>2. Ranges'
      BY <3>1 DEF SocketInv, Ranges
    <3>3. NoSocketLeak' /\ NoListLeak' /\ AddressAtHand'
      BY <3>1 DEF SocketInv, NoSocketLeak, NoListLeak, AddressAtHand, inCall
    <3> QED BY <3>2, <3>3 DEF SocketInv
  <2> QED BY <1>2, <2>1, <2>2 DEF Socket
<1>3. CASE ConnectOrBind
  <2>1. Ranges'
    BY <1>3 DEF ConnectOrBind, SocketInv, Ranges
  <2>2. NoSocketLeak' /\ NoListLeak' /\ AddressAtHand'
    BY <1>3 DEF ConnectOrBind, SocketInv, NoSocketLeak, NoListLeak, AddressAtHand, inCall
  <2> QED BY <2>1, <2>2 DEF SocketInv
<1>4. CASE Close
  <2>1. /\ place = "close" /\ left > 0 /\ sockets' = sockets \ {fd} /\ lists' = lists
        /\ fd \notin owned /\ sockets = owned \cup {fd}
    BY <1>4 DEF Close, closed, SocketInv, NoSocketLeak, AddressAtHand, inCall
  <2>2. CASE Advance /\ UNCHANGED <<owned, f, strict, fd, result, badCloses>>
    <3>1. Ranges'
      BY <2>1, <2>2 DEF Advance, SocketInv, Ranges
    <3>2. NoSocketLeak' /\ NoListLeak' /\ AddressAtHand'
      BY <2>1, <2>2 DEF Advance, SocketInv, NoSocketLeak, NoListLeak, AddressAtHand, inCall
    <3> QED BY <3>1, <3>2 DEF SocketInv
  <2>3. CASE badCloses < MaxBadCloses /\ badCloses' = badCloses + 1 /\ CallReturns(-1)
    <3>1. place' \in {"died", "idle"} /\ owned' = owned /\ left' = 0 /\ f' \in Returns
      BY <2>3, CallFails
    <3>2. Ranges'
      BY <2>1, <2>3, <3>1 DEF SocketInv, Ranges, Returns
    <3>3. inCall' = {}
      BY <3>1 DEF inCall
    <3>4. NoSocketLeak'
      BY <2>1, <3>1, <3>3 DEF NoSocketLeak
    <3>5. lists = badCloses + 1
      BY <2>1 DEF SocketInv, NoListLeak
    <3>6. NoListLeak'
      BY <2>1, <2>3, <3>1, <3>5 DEF SocketInv, Ranges, NoListLeak
    <3>7. AddressAtHand'
      BY <3>1, <3>3 DEF AddressAtHand
    <3> QED BY <3>2, <3>4, <3>6, <3>7 DEF SocketInv
  <2> QED BY <1>4, <2>2, <2>3 DEF Close
<1> QED BY <1>1, <1>2, <1>3, <1>4

(* After the loop: the list is freed, and the socket is returned or closed. *)
LEMMA EndKeeps ==
  ASSUME SocketInv, Freeaddrinfo \/ Listen \/ CloseListen
  PROVE  SocketInv'
<1> USE SocketAssumption
<1>1. CASE Freeaddrinfo
  <2>1. /\ place = "freeaddrinfo" \/ (place = "socket" /\ left = 0)
        /\ lists' = lists - 1 /\ lists = badCloses + 1
        /\ UNCHANGED <<sockets, badCloses>>
    BY <1>1 DEF Freeaddrinfo, freeList, SocketInv, NoListLeak
  <2>2. CASE left = 0
    <3>1. place = "socket"
      BY <2>1, <2>2 DEF SocketInv, AddressAtHand
    <3>2. place' \in {"died", "idle"} /\ owned' = owned /\ left' = 0 /\ f' \in Returns
      BY <1>1, <2>2, CallFails DEF Freeaddrinfo
    <3>3. Ranges'
      BY <2>1, <3>2 DEF SocketInv, Ranges, Returns
    <3>4. inCall = {} /\ inCall' = {}
      BY <3>1, <3>2 DEF inCall
    <3>5. NoSocketLeak'
      BY <2>1, <3>2, <3>4 DEF SocketInv, NoSocketLeak
    <3>6. NoListLeak'
      BY <2>1, <3>2 DEF SocketInv, Ranges, NoListLeak
    <3>7. AddressAtHand'
      BY <3>2, <3>4 DEF AddressAtHand
    <3> QED BY <3>3, <3>5, <3>6, <3>7 DEF SocketInv
  <2>3. CASE left > 0
    <3>1. /\ place = "freeaddrinfo" /\ fd \in 0 .. MaxSockets - 1
          /\ sockets = owned \cup {fd} /\ fd \notin owned
      <4>1. place = "freeaddrinfo"
        BY <2>1, <2>3
      <4>2. inCall = {fd}
        BY <4>1 DEF inCall
      <4> QED BY <4>1, <4>2 DEF SocketInv, AddressAtHand, NoSocketLeak
    <3>2. CASE f = "open_clientfd"
      <4>1. CallReturns(fd)
        BY <1>1, <2>3, <3>2 DEF Freeaddrinfo
      <4>2. place' = "idle" /\ owned' = owned \cup {fd} /\ left' = 0 /\ f' \in Returns
        BY <3>1, <4>1, CallSucceeds
      <4>3. Ranges'
        BY <2>1, <3>1, <4>2 DEF SocketInv, Ranges, Returns
      <4>4. NoSocketLeak' /\ NoListLeak' /\ AddressAtHand'
        BY <2>1, <3>1, <4>2 DEF SocketInv, Ranges, NoSocketLeak, NoListLeak,
                                AddressAtHand, inCall
      <4> QED BY <4>3, <4>4 DEF SocketInv
    <3>3. CASE f = "open_listenfd"
      <4>1. place' = "listen" /\ UNCHANGED <<owned, f, strict, left, fd, result>>
        BY <1>1, <2>3, <3>3 DEF Freeaddrinfo
      <4>2. Ranges'
        BY <2>1, <4>1 DEF SocketInv, Ranges
      <4>3. NoSocketLeak' /\ NoListLeak' /\ AddressAtHand'
        BY <2>1, <3>1, <4>1 DEF SocketInv, Ranges, NoSocketLeak, NoListLeak,
                                AddressAtHand, inCall
      <4> QED BY <4>2, <4>3 DEF SocketInv
    <3> QED BY <3>2, <3>3 DEF SocketInv, Ranges, Returns
  <2> QED BY <2>2, <2>3 DEF SocketInv, Ranges
<1>2. CASE Listen
  <2>1. place = "listen" /\ UNCHANGED <<sockets, lists, badCloses>> /\ fd \in 0 .. MaxSockets - 1
    BY <1>2 DEF Listen, SocketInv, AddressAtHand, inCall
  <2>2. CASE CallReturns(fd)
    <3>1. place' = "idle" /\ owned' = owned \cup {fd} /\ left' = 0 /\ f' \in Returns
      BY <2>1, <2>2, CallSucceeds
    <3>2. Ranges'
      BY <2>1, <3>1 DEF SocketInv, Ranges, Returns, NoSocketLeak, inCall
    <3>3. NoSocketLeak' /\ NoListLeak' /\ AddressAtHand'
      BY <2>1, <3>1 DEF SocketInv, NoSocketLeak, NoListLeak, AddressAtHand, inCall
    <3> QED BY <3>2, <3>3 DEF SocketInv
  <2>3. CASE place' = "close listen" /\ UNCHANGED <<owned, f, strict, left, fd, result>>
    <3>1. Ranges'
      BY <2>1, <2>3 DEF SocketInv, Ranges
    <3>2. NoSocketLeak' /\ NoListLeak' /\ AddressAtHand'
      BY <2>1, <2>3 DEF SocketInv, NoSocketLeak, NoListLeak, AddressAtHand, inCall
    <3> QED BY <3>1, <3>2 DEF SocketInv
  <2> QED BY <1>2, <2>2, <2>3 DEF Listen
<1>3. CASE CloseListen
  <2>1. /\ place = "close listen" /\ sockets' = sockets \ {fd} /\ fd \notin owned
        /\ sockets = owned \cup {fd} /\ UNCHANGED <<lists, badCloses>>
    BY <1>3 DEF CloseListen, closed, SocketInv, NoSocketLeak, inCall
  <2>2. place' \in {"died", "idle"} /\ owned' = owned /\ left' = 0 /\ f' \in Returns
    BY <1>3, CallFails DEF CloseListen
  <2>3. Ranges'
    BY <2>1, <2>2 DEF SocketInv, Ranges, Returns
  <2>4. NoSocketLeak' /\ NoListLeak' /\ AddressAtHand'
    BY <2>1, <2>2 DEF SocketInv, NoSocketLeak, NoListLeak, AddressAtHand, inCall
  <2> QED BY <2>3, <2>4 DEF SocketInv
<1> QED BY <1>1, <1>2, <1>3

LEMMA SocketStep == SocketInv /\ [SocketNext]_netVars => SocketInv'
<1> SUFFICES ASSUME SocketInv, [SocketNext]_netVars PROVE SocketInv'
  OBVIOUS
<1>1. CASE SocketNext
  BY <1>1, OutsideKeeps, LoopKeeps, EndKeeps DEF SocketNext
<1>2. CASE UNCHANGED netVars
  BY <1>2 DEF netVars, frame, SocketInv, Ranges, NoSocketLeak, NoListLeak, AddressAtHand,
              inCall
<1> QED BY <1>1, <1>2

(* In every run every open socket belongs to exactly one of a caller and    *)
(* the running call (open_clientfd, open_listenfd): no failure on the way  *)
(* leaks one.                                                              *)
THEOREM SocketsKept == SocketSpec => []NoSocketLeak
<1>1. SocketInv => NoSocketLeak
  BY DEF SocketInv
<1> QED BY <1>1, SocketInitInv, SocketStep, PTL DEF SocketSpec

(* In every run the lists of addresses that have not been freed are the     *)
(* one in use and those lost by a close() that failed.                     *)
THEOREM ListsKept == SocketSpec => []NoListLeak
<1>1. SocketInv => NoListLeak
  BY DEF SocketInv
<1> QED BY <1>1, SocketInitInv, SocketStep, PTL DEF SocketSpec

-------------------------------------------------------------------------------
(***************************************************************************)
(* The lexer, for every line and every set of characters.  Between two     *)
(* turns of the loop the pointer is at a border: behind everything of the  *)
(* tokens stored so far, and where the next one can begin (AtBorder).  To  *)
(* its left a character is left alone exactly if it belongs to a word, to  *)
(* its right the line is as it was typed (Cut), and the tokens stored are  *)
(* those that begin to its left (Stored).                                  *)
(***************************************************************************)

LineType ==
  /\ Len(line) \in Nat /\ DOMAIN line = 1 .. Len(line)
  /\ \A i \in 1 .. Len(line) : line[i] \in Chars /\ line[i] # Zero

LEMMA LineTyped == line \in Seq(Chars) => LineType
BY LexerAssumption, LenProperties, ElementOfSeq DEF LineType, Zero

(* Where a word begins: tabs may lie between it and the delimiter.         *)
wordStart(a) ==
  /\ a \in DOMAIN line /\ ~isDelimiter(a) /\ line[a] \notin White
  /\ \E c \in 1 .. a : isDelimiter(c - 1) /\ \A i \in c .. a - 1 : line[i] \in White /\ ~isDelimiter(i)

LEMMA WordShape ==
  ASSUME LineType, NEW a \in DOMAIN line, NEW b \in DOMAIN line
  PROVE  isWord(a, b) <=> /\ wordStart(a) /\ a <= b /\ isDelimiter(b + 1)
                          /\ \A i \in a .. b : ~isDelimiter(i)
<1>1. a \in 1 .. Len(line) /\ b \in 1 .. Len(line) /\ Len(line) \in Nat
  BY DEF LineType
<1>2. ASSUME isWord(a, b)
      PROVE  /\ wordStart(a) /\ a <= b /\ isDelimiter(b + 1)
             /\ \A i \in a .. b : ~isDelimiter(i)
  <2>1. PICK c \in 1 .. a : isStretch(c, b) /\ \A i \in c .. a - 1 : line[i] \in White
    BY <1>2 DEF isWord
  <2>2. a <= b /\ line[a] \notin White
    BY <1>2 DEF isWord
  <2>3. isDelimiter(c - 1) /\ isDelimiter(b + 1) /\ \A i \in c .. b : ~isDelimiter(i)
    BY <2>1 DEF isStretch
  <2>4. \A i \in c .. a - 1 : line[i] \in White /\ ~isDelimiter(i)
    BY <1>1, <2>1, <2>2, <2>3
  <2>5. \A i \in a .. b : ~isDelimiter(i)
    BY <1>1, <2>3
  <2>6. ~isDelimiter(a)
    BY <1>1, <2>2, <2>5
  <2> QED BY <1>1, <2>2, <2>3, <2>4, <2>5, <2>6 DEF wordStart
<1>3. ASSUME wordStart(a), a <= b, isDelimiter(b + 1), \A i \in a .. b : ~isDelimiter(i)
      PROVE  isWord(a, b)
  <2>1. PICK c \in 1 .. a : /\ isDelimiter(c - 1)
                            /\ \A i \in c .. a - 1 : line[i] \in White /\ ~isDelimiter(i)
    BY <1>3 DEF wordStart
  <2>2. \A i \in c .. b : ~isDelimiter(i)
    BY <1>1, <1>3, <2>1
  <2>3. isStretch(c, b)
    BY <1>3, <2>1, <2>2 DEF isStretch
  <2>4. line[a] \notin White
    BY <1>3 DEF wordStart
  <2> QED BY <1>3, <2>1, <2>3, <2>4 DEF isWord
<1> QED BY <1>2, <1>3

(* From a position on there is a first delimiter: the end of the line, if  *)
(* there is no other.                                                      *)
LEMMA NextDelimiter ==
  ASSUME LineType, NEW a \in DOMAIN line
  PROVE  \E m \in a .. Len(line) + 1 : isDelimiter(m) /\ \A i \in a .. m - 1 : ~isDelimiter(i)
<1> DEFINE S == {m \in a .. Len(line) + 1 : isDelimiter(m)}
<1>1. a \in 1 .. Len(line) /\ Len(line) \in Nat
  BY DEF LineType
<1>2. isDelimiter(Len(line) + 1)
  BY <1>1 DEF isDelimiter, LineType
<1>3. Len(line) + 1 \in S /\ S \subseteq Nat
  BY <1>1, <1>2
<1>4. PICK m \in S : \A i \in S : m <= i
  BY <1>3, LeastNumber
<1>5. \A i \in a .. m - 1 : ~isDelimiter(i)
  BY <1>1, <1>4
<1> QED BY <1>4, <1>5

(* A word that begins has an end.                                          *)
LEMMA WordEnd ==
  ASSUME LineType, NEW a, wordStart(a)
  PROVE  \E b \in DOMAIN line : isWord(a, b)
<1>1. a \in DOMAIN line /\ a \in 1 .. Len(line) /\ Len(line) \in Nat /\ ~isDelimiter(a)
  BY DEF wordStart, LineType
<1>2. PICK m \in a .. Len(line) + 1 : isDelimiter(m) /\ \A i \in a .. m - 1 : ~isDelimiter(i)
  BY <1>1, NextDelimiter
<1>3. m # a
  BY <1>1, <1>2
<1>4. m - 1 \in DOMAIN line /\ a <= m - 1 /\ m - 1 + 1 = m
  BY <1>1, <1>2, <1>3 DEF LineType
<1>5. isWord(a, m - 1)
  BY <1>1, <1>2, <1>4, WordShape
<1> QED BY <1>4, <1>5

(* Characters that belong to a word.                                       *)
inWord(i) == \E w \in wordsAt : w[1] <= i /\ i <= w[2]

(* What wordsAt has.                                                       *)
LEMMA WordsAt ==
  ASSUME LineType
  PROVE  /\ \A w \in wordsAt : /\ w[1] \in DOMAIN line /\ w[2] \in DOMAIN line
                               /\ w = <<w[1], w[2]>> /\ isWord(w[1], w[2])
         /\ \A a, b \in DOMAIN line : isWord(a, b) => <<a, b>> \in wordsAt
BY DEF wordsAt

LEMMA InWord ==
  ASSUME LineType, NEW i \in Nat
  PROVE  /\ inWord(i) <=> \E a, b \in DOMAIN line : a <= i /\ i <= b /\ isWord(a, b)
         /\ inWord(i) => i \in DOMAIN line /\ ~isDelimiter(i)
<1>1. inWord(i) <=> \E a, b \in DOMAIN line : a <= i /\ i <= b /\ isWord(a, b)
  <2>1. ASSUME inWord(i) PROVE \E a, b \in DOMAIN line : a <= i /\ i <= b /\ isWord(a, b)
    BY <2>1, WordsAt DEF inWord
  <2>2. ASSUME NEW a \in DOMAIN line, NEW b \in DOMAIN line, a <= i, i <= b, isWord(a, b)
        PROVE  inWord(i)
    <3> DEFINE w == <<a, b>>
    <3>1. w \in wordsAt /\ w[1] = a /\ w[2] = b
      BY <2>2, WordsAt
    <3> QED BY <2>2, <3>1 DEF inWord
  <2> QED BY <2>1, <2>2
<1>2. ASSUME NEW a \in DOMAIN line, NEW b \in DOMAIN line, a <= i, i <= b, isWord(a, b)
      PROVE  i \in DOMAIN line /\ ~isDelimiter(i)
  <2>1. i \in DOMAIN line /\ i \in a .. b
    BY <1>2 DEF LineType
  <2> QED BY <1>2, <2>1, WordShape
<1> QED BY <1>1, <1>2

-------------------------------------------------------------------------------
(* Operators. *)

isRunStart(i, r) ==
  /\ \A k \in r .. i : line[k] = line[i]
  /\ r = 1 \/ line[r - 1] # line[i]

LEMMA RunStart ==
  ASSUME LineType, NEW i \in DOMAIN line
  PROVE  /\ runStart(i) \in 1 .. i
         /\ i = 1 \/ line[i - 1] # line[i] => runStart(i) = i
         /\ i > 1 /\ line[i - 1] = line[i] => runStart(i) = runStart(i - 1)
<1> USE DEF LineType
<1>1. ASSUME NEW j \in DOMAIN line PROVE \E r \in 1 .. j : isRunStart(j, r)
  <2> DEFINE S == {r \in 1 .. j : \A k \in r .. j : line[k] = line[j]}
  <2>1. j \in S /\ S \subseteq Nat
    OBVIOUS
  <2>2. PICK r \in S : \A x \in S : r <= x
    BY <2>1, LeastNumber
  <2>3. ASSUME r # 1, line[r - 1] = line[j] PROVE FALSE
    <3>1. r - 1 \in 1 .. j /\ \A k \in r - 1 .. j : k = r - 1 \/ k \in r .. j
      BY <2>2, <2>3
    <3>2. \A k \in r - 1 .. j : line[k] = line[j]
      BY <2>2, <2>3, <3>1
    <3> QED BY <2>2, <3>1, <3>2
  <2> QED BY <2>2, <2>3 DEF isRunStart
<1>2. ASSUME NEW j \in DOMAIN line, NEW r \in 1 .. j, isRunStart(j, r),
             NEW x \in 1 .. j, isRunStart(j, x), r < x
      PROVE  FALSE
  <2>1. x - 1 \in r .. j /\ x # 1
    BY <1>2
  <2> QED BY <1>2, <2>1 DEF isRunStart
<1>3. ASSUME NEW j \in DOMAIN line
      PROVE  /\ runStart(j) \in 1 .. j /\ isRunStart(j, runStart(j))
             /\ \A x \in 1 .. j : isRunStart(j, x) => x = runStart(j)
  <2>1. runStart(j) = CHOOSE r \in 1 .. j : isRunStart(j, r)
    BY DEF runStart, isRunStart
  <2>2. runStart(j) \in 1 .. j /\ isRunStart(j, runStart(j))
    BY <1>1, <2>1
  <2>3. ASSUME NEW x \in 1 .. j, isRunStart(j, x) PROVE x = runStart(j)
    <3>1. ~(runStart(j) < x) /\ ~(x < runStart(j))
      BY <1>2, <2>2, <2>3
    <3> QED BY <2>2, <3>1
  <2> QED BY <2>2, <2>3
<1>4. ASSUME i = 1 \/ line[i - 1] # line[i] PROVE runStart(i) = i
  <2>1. i \in 1 .. i /\ isRunStart(i, i)
    BY <1>4 DEF isRunStart
  <2> QED BY <1>3, <2>1
<1>5. ASSUME i > 1, line[i - 1] = line[i] PROVE runStart(i) = runStart(i - 1)
  <2>1. i - 1 \in DOMAIN line
    BY <1>5
  <2>2. runStart(i - 1) \in 1 .. i - 1 /\ isRunStart(i - 1, runStart(i - 1))
    BY <1>3, <2>1
  <2>3. runStart(i - 1) \in 1 .. i /\ \A k \in runStart(i - 1) .. i : k = i \/ k \in runStart(i - 1) .. i - 1
    BY <2>2
  <2>4. isRunStart(i, runStart(i - 1))
    BY <1>5, <2>2, <2>3 DEF isRunStart
  <2> QED BY <1>3, <2>3, <2>4
<1> QED BY <1>3, <1>4, <1>5

(* In a run of equal | or &, every second one begins an operator.          *)
LEMMA OperatorsAt ==
  ASSUME LineType, NEW i \in DOMAIN line, line[i] \in DOMAIN single
  PROVE  /\ line[i] \notin DOMAIN double => i \in operatorsAt
         /\ i = 1 \/ line[i - 1] # line[i] => i \in operatorsAt
         /\ i > 1 /\ line[i - 1] = line[i] /\ line[i] \in DOMAIN double =>
              (i \in operatorsAt <=> i - 1 \notin operatorsAt)
<1> USE DEF LineType
<1>1. line[i] \notin DOMAIN double => i \in operatorsAt
  BY DEF operatorsAt
<1>2. ASSUME i = 1 \/ line[i - 1] # line[i] PROVE i \in operatorsAt
  <2>1. (i - runStart(i)) % 2 = 0
    BY <1>2, RunStart
  <2> QED BY <2>1 DEF operatorsAt
<1>3. ASSUME i > 1, line[i - 1] = line[i], line[i] \in DOMAIN double
      PROVE  i \in operatorsAt <=> i - 1 \notin operatorsAt
  <2>1. i - 1 \in DOMAIN line
    BY <1>3
  <2>2. runStart(i) = runStart(i - 1) /\ runStart(i) \in 1 .. i
    BY <1>3, RunStart
  <2>3. (i - runStart(i)) % 2 = 0 <=> ~((i - 1 - runStart(i)) % 2 = 0)
    BY <2>2
  <2>4. i \in operatorsAt <=> (i - runStart(i)) % 2 = 0
    BY <1>3 DEF operatorsAt
  <2>5. i - 1 \in operatorsAt <=> (i - 1 - runStart(i)) % 2 = 0
    BY <1>3, <2>1, <2>2 DEF operatorsAt
  <2> QED BY <2>3, <2>4, <2>5
<1> QED BY <1>1, <1>2, <1>3

(* A token begins at a position, in terms of the line.                     *)
begins(a, x) ==
  \/ x = "word" /\ wordStart(a)
  \/ a \in operatorsAt /\ x = operatorAt(a)

(* Where the pointer can be between two turns.                             *)
Border(h) ==
  /\ h \in 1 .. Len(line) + 1
  /\ \A a, b \in DOMAIN line : isWord(a, b) /\ a < h => b < h
  /\ ~isDelimiter(h) =>
       \E c \in 1 .. h : isDelimiter(c - 1) /\ \A i \in c .. h - 1 : line[i] \in White /\ ~isDelimiter(i)
  /\ h \in DOMAIN line /\ line[h] \in DOMAIN single => h \in operatorsAt

(* The three ways on.                                                      *)
LEMMA CharacterKinds ==
  ASSUME LineType, NEW i \in DOMAIN line
  PROVE  /\ line[i] \in DOMAIN single => isDelimiter(i) /\ line[i] \notin White
         /\ isDelimiter(i) => line[i] = " " \/ line[i] \in DOMAIN single
         /\ i \in operatorsAt => line[i] \in DOMAIN single
         /\ line[i] \in DOMAIN double => line[i] \in DOMAIN single
BY DEF LineType, isDelimiter, Delimiters, White, operatorsAt, single, double, Zero

LEMMA NextIsOperator ==
  ASSUME LineType, NEW i \in DOMAIN line, i = 1 \/ line[i - 1] # line[i]
  PROVE  line[i] \in DOMAIN single => i \in operatorsAt
BY OperatorsAt

LEMMA OverWhite ==
  ASSUME LineType, NEW h \in DOMAIN line, Border(h), line[h] \in White
  PROVE  Border(h + 1) /\ ~inWord(h) /\ \A x : ~begins(h, x)
<1> USE DEF LineType
<1>1. ~wordStart(h) /\ h \notin operatorsAt /\ line[h] \notin DOMAIN single
  BY CharacterKinds DEF wordStart
<1>2. \A x : ~begins(h, x)
  BY <1>1 DEF begins
<1>3. ASSUME NEW a \in DOMAIN line, NEW b \in DOMAIN line, isWord(a, b), a <= h
      PROVE  b < h
  <2>1. a # h
    BY <1>1, <1>3, WordShape
  <2> QED BY <1>3, <2>1 DEF Border
<1>4. ~inWord(h)
  BY <1>3, InWord
<1>5. ASSUME ~isDelimiter(h + 1)
      PROVE  \E c \in 1 .. h + 1 : /\ isDelimiter(c - 1)
                                   /\ \A i \in c .. h + 1 - 1 : line[i] \in White /\ ~isDelimiter(i)
  <2>1. CASE isDelimiter(h)
    <3>1. h + 1 \in 1 .. h + 1 /\ h + 1 - 1 = h
      OBVIOUS
    <3> QED BY <2>1, <3>1
  <2>2. CASE ~isDelimiter(h)
    <3>1. PICK c \in 1 .. h : /\ isDelimiter(c - 1)
                              /\ \A i \in c .. h - 1 : line[i] \in White /\ ~isDelimiter(i)
      BY <2>2 DEF Border
    <3>2. c \in 1 .. h + 1 /\ \A i \in c .. h + 1 - 1 : i = h \/ i \in c .. h - 1
      OBVIOUS
    <3>3. \A i \in c .. h + 1 - 1 : line[i] \in White /\ ~isDelimiter(i)
      BY <2>2, <3>1, <3>2
    <3> QED BY <3>1, <3>2, <3>3
  <2> QED BY <2>1, <2>2
<1>6. ASSUME h + 1 \in DOMAIN line, line[h + 1] \in DOMAIN single PROVE h + 1 \in operatorsAt
  <2>1. line[h + 1 - 1] # line[h + 1]
    BY <1>1, <1>6
  <2> QED BY <1>6, <2>1, NextIsOperator
<1>7. \A a, b \in DOMAIN line : isWord(a, b) /\ a < h + 1 => b < h + 1
  BY <1>3
<1>8. h + 1 \in 1 .. Len(line) + 1
  OBVIOUS
<1> QED BY <1>2, <1>4, <1>5, <1>6, <1>7, <1>8 DEF Border

LEMMA OverWord ==
  ASSUME LineType, NEW h \in DOMAIN line, Border(h), line[h] \notin White, ~isDelimiter(h),
         NEW m \in h .. Len(line) + 1, isDelimiter(m), \A i \in h .. m - 1 : ~isDelimiter(i)
  PROVE  /\ h < m /\ Border(m)
         /\ \A i \in h .. m - 1 : inWord(i)
         /\ \A a \in h .. m - 1 : \A x : begins(a, x) <=> a = h /\ x = "word"
<1> USE DEF LineType
<1>1. h < m /\ m - 1 \in DOMAIN line /\ h <= m - 1 /\ m - 1 + 1 = m
  OBVIOUS
<1>2. wordStart(h)
  BY DEF wordStart, Border
<1>3. isWord(h, m - 1)
  BY <1>1, <1>2, WordShape
<1>4. \A i \in h .. m - 1 : inWord(i)
  <2> TAKE i \in h .. m - 1
  <2>1. i \in Nat /\ h <= i /\ i <= m - 1
    OBVIOUS
  <2> QED BY <1>1, <1>3, <2>1, InWord
<1>5. ASSUME NEW a \in h .. m - 1, wordStart(a), a # h PROVE FALSE
  <2>1. PICK c \in 1 .. a : /\ isDelimiter(c - 1)
                            /\ \A i \in c .. a - 1 : line[i] \in White /\ ~isDelimiter(i)
    BY <1>5 DEF wordStart
  <2>2. c - 1 \notin h .. m - 1
    BY <2>1
  <2>3. h \in c .. a - 1
    BY <1>5, <2>2
  <2> QED BY <2>1, <2>3
<1>6. ASSUME NEW a \in h .. m - 1, a \in operatorsAt PROVE FALSE
  <2>1. a \in DOMAIN line /\ ~isDelimiter(a)
    BY <1>1
  <2> QED BY <1>6, <2>1, CharacterKinds
<1>7. \A a \in h .. m - 1 : \A x : begins(a, x) <=> a = h /\ x = "word"
  BY <1>1, <1>2, <1>5, <1>6 DEF begins
<1>8. ASSUME NEW a \in DOMAIN line, NEW b \in DOMAIN line, isWord(a, b), a < m PROVE b < m
  <2>1. wordStart(a) /\ \A i \in a .. b : ~isDelimiter(i)
    BY <1>8, WordShape
  <2>2. m \notin a .. b
    BY <2>1
  <2> QED BY <1>8, <2>2
<1>9. ASSUME m \in DOMAIN line, line[m] \in DOMAIN single PROVE m \in operatorsAt
  <2>1. ~isDelimiter(m - 1)
    BY <1>1
  <2>2. line[m - 1] # line[m]
    BY <1>1, <1>9, <2>1, CharacterKinds
  <2> QED BY <1>9, <2>2, NextIsOperator
<1> QED BY <1>1, <1>4, <1>7, <1>8, <1>9 DEF Border

widthAt(h) == IF line[h] \in DOMAIN double /\ h < Len(line) /\ line[h + 1] = line[h] THEN 2 ELSE 1

LEMMA OverOperator ==
  ASSUME LineType, NEW h \in DOMAIN line, Border(h), line[h] \in DOMAIN single
  PROVE  LET m == h + widthAt(h)
         IN  /\ m \in h + 1 .. h + 2 /\ Border(m)
             /\ \A i \in h .. m - 1 : ~inWord(i)
             /\ \A a \in h .. m - 1 : \A x : begins(a, x) <=> a = h /\ x = operatorAt(h)
<1> DEFINE m == h + widthAt(h)
<1> USE DEF LineType
<1>1. /\ m \in h + 1 .. h + 2 /\ m \in 1 .. Len(line) + 1
      /\ m = h + 2 => line[h] \in DOMAIN double /\ h + 1 \in DOMAIN line /\ line[h + 1] = line[h]
      /\ m = h + 1 /\ line[h] \in DOMAIN double /\ m \in DOMAIN line => line[m] # line[h]
  BY DEF widthAt
<1> HIDE DEF m
<1>2. \A i \in h .. m - 1 : i \in DOMAIN line /\ line[i] = line[h] /\ isDelimiter(i)
  <2> TAKE i \in h .. m - 1
  <2>1. i = h \/ (i = h + 1 /\ m = h + 2)
    BY <1>1
  <2>2. i \in DOMAIN line /\ line[i] = line[h]
    BY <1>1, <2>1
  <2> QED BY <2>2, CharacterKinds
<1>3. h \in operatorsAt
  BY DEF Border
<1>4. m = h + 2 => h + 1 \notin operatorsAt
  <2> SUFFICES ASSUME m = h + 2 PROVE h + 1 \notin operatorsAt
    OBVIOUS
  <2>1. h + 1 > 1 /\ h + 1 - 1 = h
    OBVIOUS
  <2> QED BY <1>1, <1>3, <2>1, OperatorsAt
<1>5. \A i \in h .. m - 1 : ~wordStart(i) /\ ~inWord(i)
  <2> TAKE i \in h .. m - 1
  <2>1. i \in Nat
    OBVIOUS
  <2> QED BY <1>2, <2>1, InWord DEF wordStart
<1>6. ASSUME NEW a \in h .. m - 1, NEW x PROVE begins(a, x) <=> a = h /\ x = operatorAt(h)
  <2>1. a = h \/ (a = h + 1 /\ m = h + 2)
    BY <1>1
  <2>2. a # h => a \notin operatorsAt
    BY <1>4, <2>1
  <2> QED BY <1>3, <1>5, <2>2 DEF begins
<1>7. ASSUME NEW a \in DOMAIN line, NEW b \in DOMAIN line, isWord(a, b), a < m PROVE b < m
  <2>1. wordStart(a) /\ \A i \in a .. b : ~isDelimiter(i)
    BY <1>7, WordShape
  <2>2. m - 1 \notin a .. b
    BY <1>1, <1>2, <2>1
  <2> QED BY <1>1, <1>7, <2>2
<1>8. isDelimiter(m - 1) /\ m - 1 \in DOMAIN line
  BY <1>1, <1>2
<1>9. ASSUME m \in DOMAIN line, line[m] \in DOMAIN single PROVE m \in operatorsAt
  <2>1. CASE line[m - 1] # line[m]
    BY <1>9, <2>1, NextIsOperator
  <2>2. CASE line[m] \notin DOMAIN double
    BY <1>9, <2>2, OperatorsAt
  <2>3. CASE line[m - 1] = line[m] /\ line[m] \in DOMAIN double
    <3>1. line[m - 1] = line[h]
      BY <1>1, <1>2
    <3>2. m # h + 1
      BY <1>1, <1>9, <2>3, <3>1
    <3>3. m = h + 2 /\ m - 1 = h + 1 /\ m > 1
      BY <1>1, <3>2
    <3> QED BY <1>4, <1>9, <2>3, <3>3, OperatorsAt
  <2> QED BY <2>1, <2>2, <2>3
<1>10. \E c \in 1 .. m : isDelimiter(c - 1) /\ \A i \in c .. m - 1 : line[i] \in White /\ ~isDelimiter(i)
  <2>1. m \in 1 .. m /\ \A i \in m .. m - 1 : FALSE
    BY <1>1
  <2> QED BY <1>8, <2>1
<1>11. Border(m)
  BY <1>1, <1>7, <1>9, <1>10 DEF Border
<1> QED BY <1>1, <1>5, <1>6, <1>11 DEF m

-------------------------------------------------------------------------------
(* What tokenize() has written. *)

(* The array of characters, with the pointer at h.                         *)
Cut(arr, h) ==
  /\ arr \in [1 .. Len(line) + 1 -> Chars \cup {Zero}]
  /\ \A i \in h .. Len(line) + 1 : arr[i] = IF i \in DOMAIN line THEN line[i] ELSE Zero
  /\ \A i \in 1 .. h - 1 : arr[i] = IF inWord(i) THEN line[i] ELSE Zero

(* The vector of tokens.                                                   *)
Stored(vec, h) ==
  /\ \A i \in DOMAIN vec :
       vec[i].at \in DOMAIN line /\ vec[i].at < h /\ begins(vec[i].at, vec[i].op)
  /\ \A a \in DOMAIN line : \A x : begins(a, x) /\ a < h =>
       \E i \in DOMAIN vec : vec[i] = [op |-> x, at |-> a]
  /\ \A i, k \in DOMAIN vec : i < k => vec[i].at < vec[k].at

(* No token begins among characters that are skipped.                      *)
LEMMA StoredNone ==
  ASSUME LineType, NEW vec, NEW h \in Nat, NEW m \in Nat, h <= m, Stored(vec, h),
         \A a \in h .. m - 1 : \A x : ~begins(a, x)
  PROVE  Stored(vec, m)
<1>1. ASSUME NEW a \in DOMAIN line, NEW x, begins(a, x), a < m PROVE a < h
  BY <1>1 DEF LineType
<1>2. ASSUME NEW i \in DOMAIN vec
      PROVE  vec[i].at \in DOMAIN line /\ vec[i].at < m /\ begins(vec[i].at, vec[i].op)
  <2>1. vec[i].at \in DOMAIN line /\ vec[i].at < h /\ begins(vec[i].at, vec[i].op)
    BY DEF Stored
  <2> QED BY <2>1 DEF LineType
<1> QED BY <1>1, <1>2 DEF Stored

(* The one that begins at the pointer is stored last.                      *)
LEMMA StoredNext ==
  ASSUME LineType, NEW vec \in Seq(Token), NEW h \in DOMAIN line, NEW m \in Nat, h < m,
         NEW x, [op |-> x, at |-> h] \in Token, Stored(vec, h),
         \A a \in h .. m - 1 : \A y : begins(a, y) <=> a = h /\ y = x
  PROVE  Stored(Append(vec, [op |-> x, at |-> h]), m)
<1> DEFINE t == [op |-> x, at |-> h]
           new == Append(vec, t)
           z   == Len(vec)
<1>1. /\ z \in Nat /\ DOMAIN vec = 1 .. z
      /\ DOMAIN new = 1 .. z + 1 /\ new[z + 1] = t /\ \A i \in 1 .. z : new[i] = vec[i]
  BY AppendProperties, LenProperties
<1>2. h \in Nat /\ h \in h .. m - 1 /\ t.at = h /\ t.op = x
  BY DEF LineType
<1> HIDE DEF new, z
<1>3. begins(h, x)
  BY <1>2
<1>4. ASSUME NEW i \in DOMAIN vec
      PROVE  vec[i].at \in DOMAIN line /\ vec[i].at < h /\ begins(vec[i].at, vec[i].op)
  BY DEF Stored
<1>5. ASSUME NEW i \in DOMAIN new
      PROVE  new[i].at \in DOMAIN line /\ new[i].at < m /\ begins(new[i].at, new[i].op)
  <2>1. CASE i = z + 1
    BY <1>1, <1>2, <1>3, <2>1
  <2>2. CASE i \in 1 .. z
    <3>1. new[i] = vec[i] /\ i \in DOMAIN vec
      BY <1>1, <2>2
    <3>2. vec[i].at \in DOMAIN line /\ vec[i].at < h /\ begins(vec[i].at, vec[i].op)
      BY <1>4, <3>1
    <3>3. vec[i].at < m
      BY <1>2, <3>2 DEF LineType
    <3> QED BY <3>1, <3>2, <3>3
  <2> QED BY <1>1, <2>1, <2>2
<1>6. ASSUME NEW a \in DOMAIN line, NEW y, begins(a, y), a < m
      PROVE  \E i \in DOMAIN new : new[i] = [op |-> y, at |-> a]
  <2>1. CASE a < h
    <3>1. PICK i \in DOMAIN vec : vec[i] = [op |-> y, at |-> a]
      BY <1>6, <2>1 DEF Stored
    <3> QED BY <1>1, <3>1
  <2>2. CASE ~(a < h)
    <3>1. a \in h .. m - 1
      BY <1>2, <1>6, <2>2 DEF LineType
    <3>2. a = h /\ y = x
      BY <1>6, <3>1
    <3> QED BY <1>1, <3>2
  <2> QED BY <2>1, <2>2
<1>7. ASSUME NEW i \in DOMAIN new, NEW k \in DOMAIN new, i < k PROVE new[i].at < new[k].at
  <2>1. i \in 1 .. z /\ i \in DOMAIN vec /\ new[i] = vec[i]
    BY <1>1, <1>7
  <2>2. CASE k = z + 1
    BY <1>1, <1>2, <1>4, <2>1, <2>2
  <2>3. CASE k \in 1 .. z
    <3>1. k \in DOMAIN vec /\ new[k] = vec[k]
      BY <1>1, <2>3
    <3> QED BY <1>7, <2>1, <3>1 DEF Stored
  <2> QED BY <1>1, <2>2, <2>3
<1>8. Stored(new, m)
  BY <1>5, <1>6, <1>7 DEF Stored
<1> QED BY <1>8 DEF new

(* Characters that belong to no word are overwritten.                      *)
LEMMA CutErased ==
  ASSUME LineType, NEW arr, NEW h \in DOMAIN line, NEW m \in h .. Len(line) + 1, Cut(arr, h),
         \A i \in h .. m - 1 : ~inWord(i)
  PROVE  Cut([i \in DOMAIN arr |-> IF i \in h .. m - 1 THEN Zero ELSE arr[i]], m)
<1> DEFINE new == [i \in DOMAIN arr |-> IF i \in h .. m - 1 THEN Zero ELSE arr[i]]
<1> USE DEF LineType
<1>1. /\ DOMAIN arr = 1 .. Len(line) + 1 /\ new \in [1 .. Len(line) + 1 -> Chars \cup {Zero}]
      /\ \A i \in 1 .. Len(line) + 1 : new[i] = IF i \in h .. m - 1 THEN Zero ELSE arr[i]
  BY DEF Cut
<1> HIDE DEF new
<1>2. ASSUME NEW i \in m .. Len(line) + 1
      PROVE  new[i] = IF i \in DOMAIN line THEN line[i] ELSE Zero
  <2>1. i \in h .. Len(line) + 1 /\ i \notin h .. m - 1 /\ i \in 1 .. Len(line) + 1
    OBVIOUS
  <2> QED BY <1>1, <2>1 DEF Cut
<1>3. ASSUME NEW i \in 1 .. m - 1
      PROVE  new[i] = IF inWord(i) THEN line[i] ELSE Zero
  <2>1. i \in 1 .. Len(line) + 1
    OBVIOUS
  <2>2. CASE i \in h .. m - 1
    BY <1>1, <2>1, <2>2
  <2>3. CASE i \in 1 .. h - 1
    <3>1. i \notin h .. m - 1
      BY <2>3
    <3> QED BY <1>1, <2>1, <2>3, <3>1 DEF Cut
  <2> QED BY <2>2, <2>3
<1>4. Cut(new, m)
  BY <1>1, <1>2, <1>3 DEF Cut
<1> QED BY <1>4 DEF new

(* Those of a word stay.                                                   *)
LEMMA CutKept ==
  ASSUME LineType, NEW arr, NEW h \in DOMAIN line, NEW m \in h .. Len(line) + 1, Cut(arr, h),
         \A i \in h .. m - 1 : inWord(i)
  PROVE  Cut(arr, m)
<1> USE DEF LineType
<1>1. ASSUME NEW i \in m .. Len(line) + 1
      PROVE  arr[i] = IF i \in DOMAIN line THEN line[i] ELSE Zero
  <2>1. i \in h .. Len(line) + 1
    OBVIOUS
  <2> QED BY <2>1 DEF Cut
<1>2. ASSUME NEW i \in 1 .. m - 1
      PROVE  arr[i] = IF inWord(i) THEN line[i] ELSE Zero
  <2>1. CASE i \in h .. m - 1
    <3>1. i \in h .. Len(line) + 1 /\ i \in DOMAIN line
      BY <2>1
    <3>2. arr[i] = line[i]
      BY <3>1 DEF Cut
    <3> QED BY <2>1, <3>2
  <2>2. CASE i \in 1 .. h - 1
    BY <2>2 DEF Cut
  <2> QED BY <2>1, <2>2
<1> QED BY <1>1, <1>2 DEF Cut

-------------------------------------------------------------------------------
(* The invariant of tokenize(). *)

LexInv ==
  /\ LexerType
  /\ lexing = "typing" => s = << >> /\ here = 1 /\ tokvec = << >>
  /\ lexing # "typing" => Border(here) /\ Cut(s, here) /\ Stored(tokvec, here)
  /\ lexing = "done" => here = Len(line) + 1
  /\ RoomForNull

(* What is said of the line stays true while it is scanned.                *)
LEMMA SameLine ==
  ASSUME line' = line
  PROVE  /\ Border(here') => Border(here)'
         /\ Cut(s', here') => Cut(s, here)'
         /\ Stored(tokvec', here') => Stored(tokvec, here)'
<1>1. \A i : isDelimiter(i)' <=> isDelimiter(i)
  BY DEF isDelimiter
<1>2. \A a, b : isWord(a, b)' <=> isWord(a, b)
  BY <1>1 DEF isWord, isStretch
<1>3. wordsAt' = wordsAt
  BY <1>2 DEF wordsAt
<1>4. \A a : wordStart(a)' <=> wordStart(a)
  BY <1>1 DEF wordStart
<1>5. operatorsAt' = operatorsAt
  BY DEF operatorsAt, runStart
<1>6. \A i : operatorAt(i)' = operatorAt(i)
  BY DEF operatorAt
<1>7. \A a, x : begins(a, x)' <=> begins(a, x)
  BY <1>4, <1>5, <1>6 DEF begins
<1>8. \A i : inWord(i)' <=> inWord(i)
  BY <1>3 DEF inWord
<1>9. Border(here') => Border(here)'
  BY <1>1, <1>2, <1>5 DEF Border
<1>10. Cut(s', here') => Cut(s, here)'
  BY <1>8 DEF Cut
<1>11. Stored(tokvec', here') => Stored(tokvec, here)'
  BY <1>7 DEF Stored
<1> QED BY <1>9, <1>10, <1>11

LEMMA LexInitInv == LexerInit => LexInv
<1> SUFFICES ASSUME LexerInit PROVE LexInv
  OBVIOUS
<1>1. Len(line) = 0 /\ Len(tokvec) = 0 /\ line \in Seq(Chars)
      /\ s \in Seq(Chars \cup {Zero}) /\ tokvec \in Seq(Token)
  BY DEF LexerInit
<1>2. /\ here = 1 /\ capacity = Capacity /\ lexing = "typing" /\ s = << >> /\ tokvec = << >>
      /\ MaxLine \in Nat /\ Capacity \in Nat \ {0}
  BY LexerAssumption DEF LexerInit
<1>3. here \in 1 .. Len(line) + 1 /\ Len(line) <= MaxLine /\ RoomForNull
  BY <1>1, <1>2 DEF RoomForNull
<1>4. LexerType
  BY <1>1, <1>2, <1>3 DEF LexerType
<1> QED BY <1>2, <1>3, <1>4 DEF LexInv

(* The vector grows in time.                                               *)
LEMMA RoomKept ==
  ASSUME tokvec \in Seq(Token), capacity \in Nat \ {0}, RoomForNull,
         capacity' = enough(capacity), NEW t \in Token, tokvec' = Append(tokvec, t)
  PROVE  tokvec' \in Seq(Token) /\ capacity' \in Nat \ {0} /\ RoomForNull'
<1>1. Len(tokvec) \in Nat /\ Len(tokvec') = Len(tokvec) + 1 /\ tokvec' \in Seq(Token)
  BY AppendProperties, LenProperties
<1> DEFINE z == Len(tokvec)
           y == Len(tokvec')
<1>2. z \in Nat /\ y = z + 1 /\ z <= capacity
      /\ capacity' = IF z = capacity THEN 2 * capacity ELSE capacity
  BY <1>1 DEF RoomForNull, enough
<1> HIDE DEF z, y
<1>3. capacity' \in Nat \ {0} /\ y <= capacity'
  BY <1>2
<1> QED BY <1>1, <1>3 DEF y, RoomForNull

(* The end of the line is at its zero.                                     *)
LEMMA AtPointer ==
  ASSUME LexInv, lexing = "loop"
  PROVE  /\ LineType /\ here \in 1 .. Len(line) + 1
         /\ DOMAIN s = 1 .. Len(line) + 1
         /\ s[here] # Zero => here \in DOMAIN line /\ s[here] = line[here]
         /\ s[here] = Zero => here = Len(line) + 1
         /\ Border(here) /\ Cut(s, here) /\ Stored(tokvec, here)
<1>1. LineType /\ here \in 1 .. Len(line) + 1
  BY LineTyped DEF LexInv, LexerType
<1>2. Border(here) /\ Cut(s, here) /\ Stored(tokvec, here)
  BY DEF LexInv
<1>3. s[here] = IF here \in DOMAIN line THEN line[here] ELSE Zero
  BY <1>1, <1>2 DEF Cut, LineType
<1> QED BY <1>1, <1>2, <1>3 DEF Cut, LineType

LEMMA LexStep == LexInv /\ [LexerNext]_lexVars => LexInv'
<1> SUFFICES ASSUME LexInv, [LexerNext]_lexVars PROVE LexInv'
  OBVIOUS
<1>t. LexerType /\ RoomForNull
  BY DEF LexInv
<1>1. ASSUME NEW c \in Chars, Type(c) PROVE LexInv'
  <2>1. /\ line \in Seq(Chars) /\ line' = Append(line, c) /\ Len(line) < MaxLine
        /\ lexing = "typing" /\ UNCHANGED <<s, here, tokvec, capacity, lexing>>
    BY <1>t, <1>1 DEF Type, LexerType
  <2>2. line' \in Seq(Chars) /\ Len(line') = Len(line) + 1 /\ Len(line) \in Nat
    BY <2>1, AppendProperties, LenProperties
  <2>3. Len(line') <= MaxLine /\ here' \in 1 .. Len(line') + 1
    <3> DEFINE y == Len(line)
               z == Len(line')
    <3>1. y \in Nat /\ z = y + 1 /\ y < MaxLine /\ here \in 1 .. y + 1 /\ here' = here
      BY <1>t, <2>1, <2>2 DEF LexerType
    <3> HIDE DEF y, z
    <3>2. MaxLine \in Nat
      BY LexerAssumption, Zenon
    <3>3. z <= MaxLine /\ here' \in 1 .. z + 1
      BY <3>1, <3>2
    <3> QED BY <3>3 DEF z
  <2>4. LexerType'
    BY <1>t, <2>1, <2>2, <2>3 DEF LexerType
  <2> QED BY <2>1, <2>4 DEF LexInv, RoomForNull
<1>2. CASE Enter
  <2>1. /\ s' = Append(line, Zero) /\ lexing = "typing" /\ lexing' = "loop" /\ here = 1 /\ tokvec = << >>
        /\ UNCHANGED <<line, here, tokvec, capacity>> /\ line \in Seq(Chars)
    BY <1>2 DEF Enter, LexInv, LexerType
  <2>2. LineType
    BY <2>1, LineTyped
  <2>3. line \in Seq(Chars \cup {Zero})
    BY <2>1
  <2>4. /\ s' \in Seq(Chars \cup {Zero}) /\ DOMAIN s' = 1 .. Len(line) + 1 
        /\ s'[Len(line) + 1] = Zero /\ \A i \in 1 .. Len(line) : s'[i] = line[i]
    BY <2>1, <2>3, AppendProperties, LenProperties
  <2>5. Cut(s', here')
    <3>1. s' \in [1 .. Len(line) + 1 -> Chars \cup {Zero}]
      BY <2>4, LenProperties
    <3>2. \A i \in 1 .. Len(line) + 1 : s'[i] = IF i \in DOMAIN line THEN line[i] ELSE Zero
      BY <2>2, <2>4 DEF LineType
    <3> QED BY <2>1, <3>1, <3>2 DEF Cut
  <2>6. Border(here')
    <3>1. 1 \in 1 .. Len(line) + 1 /\ \A a \in DOMAIN line : ~(a < 1)
      BY <2>2 DEF LineType
    <3>2. isDelimiter(1 - 1)
      BY <2>2 DEF isDelimiter, LineType
    <3>3. 1 \in DOMAIN line /\ line[1] \in DOMAIN single => 1 \in operatorsAt
      BY <2>2, NextIsOperator
    <3> QED BY <2>1, <3>1, <3>2, <3>3 DEF Border
  <2>7. Stored(tokvec', here')
    BY <2>1, <2>2 DEF Stored, LineType
  <2>8. LexerType'
    BY <1>t, <2>1, <2>4 DEF LexerType
  <2> QED BY <1>t, <2>1, <2>5, <2>6, <2>7, <2>8, SameLine DEF LexInv, RoomForNull
<1>3. CASE SkipSpace
  <2>1. /\ lexing = "loop" /\ s[here] \in White /\ s' = [s EXCEPT ![here] = Zero] /\ here' = here + 1
        /\ UNCHANGED <<line, tokvec, capacity, lexing>>
    BY <1>3 DEF SkipSpace
  <2>2. /\ LineType /\ here \in DOMAIN line /\ line[here] \in White /\ DOMAIN s = 1 .. Len(line) + 1
        /\ Border(here) /\ Cut(s, here) /\ Stored(tokvec, here)
    BY <2>1, AtPointer DEF White, Zero
  <2>3. Border(here + 1) /\ ~inWord(here) /\ \A x : ~begins(here, x)
    BY <2>2, OverWhite
  <2>4. here + 1 \in here .. Len(line) + 1 /\ here \in Nat /\ \A i \in here .. here + 1 - 1 : i = here
    BY <2>2 DEF LineType
  <2>5. s' = [i \in DOMAIN s |-> IF i \in here .. here + 1 - 1 THEN Zero ELSE s[i]]
    <3>1. \A i \in DOMAIN s : i \in here .. here + 1 - 1 <=> i = here
      BY <2>2, <2>4
    <3>2. s' = [i \in DOMAIN s |-> IF i = here THEN Zero ELSE s[i]]
      BY <2>1
    <3> QED BY <3>1, <3>2
  <2>6. Cut(s', here')
    <3> DEFINE m == here + 1
    <3>1. m \in here .. Len(line) + 1 /\ \A i \in here .. m - 1 : ~inWord(i)
      BY <2>3, <2>4
    <3>2. here .. m - 1 = here .. here + 1 - 1
      BY <2>4
    <3>3. here' = m /\ s' = [i \in DOMAIN s |-> IF i \in here .. m - 1 THEN Zero ELSE s[i]]
      BY <2>1, <2>5, <3>2, Zenon
    <3> HIDE DEF m
    <3> QED BY <2>2, <3>1, <3>3, CutErased
  <2>7. Stored(tokvec', here')
    BY <2>1, <2>2, <2>3, <2>4, StoredNone
  <2>8. s' \in Seq(Chars \cup {Zero})
    <3>1. s \in Seq(Chars \cup {Zero}) /\ here \in 1 .. Len(s)
      BY <1>t, <2>2, LenProperties DEF LexerType, LineType
    <3> QED BY <2>1, <3>1, ExceptSeq
  <2>9. LexerType'
    BY <1>t, <2>1, <2>4, <2>8 DEF LexerType
  <2> QED BY <1>t, <2>1, <2>3, <2>6, <2>7, <2>9, SameLine DEF LexInv, RoomForNull
<1>4. CASE Word
  <2> DEFINE m == here + wordLength
             t == [op |-> "word", at |-> here]
  <2>1. /\ lexing = "loop" /\ s[here] \notin White \cup Delimiters
        /\ capacity' = enough(capacity) /\ tokvec' = Append(tokvec, t) /\ here' = m
        /\ UNCHANGED <<line, s, lexing>>
    BY <1>4 DEF Word
  <2>2. /\ LineType /\ here \in DOMAIN line /\ line[here] = s[here] /\ DOMAIN s = 1 .. Len(line) + 1
        /\ Border(here) /\ Cut(s, here) /\ Stored(tokvec, here)
    BY <2>1, AtPointer DEF Delimiters
  <2>3. ~isDelimiter(here) /\ line[here] \notin White
    BY <2>1, <2>2 DEF isDelimiter
  <2>4. \A i \in here .. Len(line) + 1 : s[i] \in Delimiters <=> isDelimiter(i)
    BY <2>2 DEF Cut, isDelimiter, Delimiters
  <2>5. /\ m \in here .. Len(line) + 1 /\ isDelimiter(m) /\ \A i \in here .. m - 1 : ~isDelimiter(i)
    <3> DEFINE P(k) == s[k] \in Delimiters /\ \A i \in here .. k - 1 : s[i] \notin Delimiters
    <3>1. PICK z \in here .. Len(line) + 1 : isDelimiter(z) /\ \A i \in here .. z - 1 : ~isDelimiter(i)
      BY <2>2, NextDelimiter
    <3>2. \A k \in here .. Len(line) + 1 : \A i \in here .. k - 1 : i \in here .. Len(line) + 1
      BY <2>2 DEF LineType
    <3>3. P(z)
      BY <2>4, <3>1, <3>2
    <3>4. here .. Len(s) = here .. Len(line) + 1
      BY <1>t, <2>2, LenProperties DEF LexerType, LineType
    <3>5. wordLength = (CHOOSE k \in here .. Len(line) + 1 : P(k)) - here
      BY <3>4 DEF wordLength
    <3> DEFINE y == CHOOSE k \in here .. Len(line) + 1 : P(k)
    <3>6. y \in here .. Len(line) + 1 /\ P(y)
      BY <3>1, <3>3
    <3> HIDE DEF y
    <3>7. isDelimiter(y) /\ \A i \in here .. y - 1 : ~isDelimiter(i)
      BY <2>4, <3>2, <3>6
    <3>8. m = y
      BY <2>2, <3>5, <3>6, SMTT(30) DEF y, LineType
    <3> QED BY <3>6, <3>7, <3>8
  <2> HIDE DEF m
  <2>6. /\ here < m /\ Border(m) /\ \A i \in here .. m - 1 : inWord(i)
        /\ \A a \in here .. m - 1 : \A x : begins(a, x) <=> a = here /\ x = "word"
    BY <2>2, <2>3, <2>5, OverWord
  <2>7. m \in Nat /\ here \in Nat /\ m \in 1 .. Len(line) + 1
    BY <2>2, <2>5 DEF LineType
  <2>8. t \in Token
    BY <2>7 DEF Token
  <2>9. tokvec' \in Seq(Token) /\ capacity' \in Nat \ {0} /\ RoomForNull'
    BY <1>t, <2>1, <2>8, RoomKept DEF LexerType
  <2>10. Stored(tokvec', here')
    BY <1>t, <2>1, <2>2, <2>6, <2>7, <2>8, StoredNext DEF LexerType
  <2>11. Cut(s', here')
    BY <2>1, <2>2, <2>5, <2>6, CutKept
  <2>12. LexerType'
    BY <1>t, <2>1, <2>7, <2>9 DEF LexerType
  <2> QED BY <2>1, <2>6, <2>9, <2>10, <2>11, <2>12, SameLine DEF LexInv
<1>5. CASE Operator
  <2> DEFINE m == here + widthAt(here)
             t == [op |-> operatorAt(here), at |-> here]
  <2>1. lexing = "loop" /\ s[here] \in Delimiters \ (White \cup {Zero})
        /\ capacity' = enough(capacity) /\ UNCHANGED <<line, lexing>>
    BY <1>5 DEF Operator
  <2>2. /\ LineType /\ here \in DOMAIN line /\ line[here] = s[here] /\ DOMAIN s = 1 .. Len(line) + 1
        /\ Border(here) /\ Cut(s, here) /\ Stored(tokvec, here)
    BY <2>1, AtPointer
  <2>3. line[here] \in DOMAIN single
    BY <2>1, <2>2 DEF Delimiters, White, Zero, single
  <2>4. here \in Nat /\ here + 1 \in 1 .. Len(line) + 1 /\ (here + 1 \in DOMAIN line <=> here < Len(line))
    BY <2>2 DEF LineType
  <2>5. s[here + 1] = IF here < Len(line) THEN line[here + 1] ELSE Zero
    BY <2>2, <2>4 DEF Cut
  <2>6. isDouble <=> line[here] \in DOMAIN double /\ here < Len(line) /\ line[here + 1] = line[here]
    BY <2>2, <2>5 DEF isDouble, double, Zero
  <2>7. (IF isDouble THEN 2 ELSE 1) = widthAt(here)
    BY <2>6 DEF widthAt
  <2>8. (IF isDouble THEN double[s[here]] ELSE single[s[here]]) = operatorAt(here)
    BY <2>2, <2>6 DEF operatorAt
  <2>9. /\ tokvec' = Append(tokvec, t) /\ here' = m
        /\ s' = [i \in DOMAIN s |-> IF i \in erased(widthAt(here)) THEN Zero ELSE s[i]]
    BY <1>5, <2>7, <2>8 DEF Operator
  <2>10. /\ m \in here + 1 .. here + 2 /\ Border(m) /\ \A i \in here .. m - 1 : ~inWord(i)
         /\ \A a \in here .. m - 1 : \A x : begins(a, x) <=> a = here /\ x = operatorAt(here)
    BY <2>2, <2>3, OverOperator
  <2>11. s' = [i \in DOMAIN s |-> IF i \in here .. m - 1 THEN Zero ELSE s[i]]
    <3>1. widthAt(here) \in 1 .. 2
      BY DEF widthAt
    <3>2. erased(widthAt(here)) = here .. m - 1
      BY <2>4, <3>1 DEF erased
    <3> HIDE DEF m
    <3> QED BY <2>9, <3>2
  <2> HIDE DEF m
  <2>12. m \in here .. Len(line) + 1 /\ m \in Nat /\ here < m /\ m \in 1 .. Len(line) + 1
    BY <2>4, <2>10 DEF Border
  <2>13. t \in Token
    <3>1. operatorAt(here) \in Operators
      BY <2>3 DEF operatorAt, single, double, Operators
    <3> QED BY <2>4, <3>1 DEF Token
  <2>14. tokvec' \in Seq(Token) /\ capacity' \in Nat \ {0} /\ RoomForNull'
    BY <1>t, <2>1, <2>9, <2>13, RoomKept DEF LexerType
  <2>15. Stored(tokvec', here')
    BY <1>t, <2>2, <2>9, <2>10, <2>12, <2>13, StoredNext DEF LexerType
  <2>16. Cut(s', here')
    BY <2>2, <2>9, <2>10, <2>11, <2>12, CutErased
  <2>17. s' \in Seq(Chars \cup {Zero})
    <3>1. s \in Seq(Chars \cup {Zero})
      BY <1>t DEF LexerType
    <3>2. Len(s) \in Nat /\ DOMAIN s = 1 .. Len(s) /\ \A i \in 1 .. Len(s) : s[i] \in Chars \cup {Zero}
      BY <3>1, LenProperties, ElementOfSeq
    <3>3. s' \in [1 .. Len(s) -> Chars \cup {Zero}]
      BY <2>11, <3>2
    <3> QED BY <3>2, <3>3, SeqDef
  <2>18. LexerType'
    BY <1>t, <2>1, <2>9, <2>12, <2>14, <2>17 DEF LexerType
  <2> QED BY <2>1, <2>9, <2>10, <2>14, <2>15, <2>16, <2>18, SameLine DEF LexInv
<1>6. CASE Done
  <2>1. /\ lexing = "loop" /\ s[here] = Zero /\ lexing' = "done"
        /\ UNCHANGED <<line, s, here, tokvec, capacity>>
    BY <1>6 DEF Done
  <2>2. /\ here = Len(line) + 1 /\ Border(here) /\ Cut(s, here) /\ Stored(tokvec, here)
    BY <2>1, AtPointer
  <2>3. LexerType'
    BY <1>t, <2>1 DEF LexerType
  <2> QED BY <1>t, <2>1, <2>2, <2>3, SameLine DEF LexInv, RoomForNull
<1>7. CASE UNCHANGED lexVars
  <2>1. UNCHANGED <<line, s, here, tokvec, capacity, lexing>>
    BY <1>7 DEF lexVars
  <2>2. LexerType'
    BY <1>t, <2>1 DEF LexerType
  <2>3. lexing # "typing" => Border(here') /\ Cut(s', here') /\ Stored(tokvec', here')
    BY <2>1 DEF LexInv
  <2> QED BY <2>1, <2>2, <2>3, SameLine DEF LexInv, RoomForNull
<1> QED BY <1>1, <1>2, <1>3, <1>4, <1>5, <1>6, <1>7 DEF LexerNext

LEMMA LexKept == LexerSpec => []LexInv
BY LexInitInv, LexStep, PTL DEF LexerSpec

(* However long the line is and however often the vector of tokens has     *)
(* grown, there is room for the NULL behind the last token (lexer.c:       *)
(* tokenize).                                                              *)
THEOREM NullFits == LexerSpec => []RoomForNull
<1>1. LexInv => RoomForNull
  BY DEF LexInv
<1> QED BY <1>1, LexKept, PTL

(* The tokens are the words and the operators of the line, each once and   *)
(* in order, and every word has its own characters, for every line         *)
(* (lexer.c: tokenize).                                                    *)
THEOREM LineIsTokenized == LexerSpec => []TokensAreWords
<1>1. LexInv => TokensAreWords
  <2> SUFFICES ASSUME LexInv, lexing = "done" PROVE TokensAreWords
    BY DEF TokensAreWords
  <2>1. LineType /\ here = Len(line) + 1 /\ tokvec \in Seq(Token)
    BY LineTyped DEF LexInv, LexerType
  <2>2. Cut(s, here) /\ Stored(tokvec, here)
    BY DEF LexInv
  <2>3. \A a \in DOMAIN line : a < here
    BY <2>1 DEF LineType
  <2> DEFINE pair(t) == <<t.at, t.op>>
             A == {pair(t) : t \in {tokvec[i] : i \in DOMAIN tokvec}}
             B == {<<w[1], "word">> : w \in wordsAt} \cup {<<i, operatorAt(i)>> : i \in operatorsAt}
  <2>4. ASSUME NEW i \in DOMAIN tokvec PROVE pair(tokvec[i]) \in B
    <3>1. begins(tokvec[i].at, tokvec[i].op)
      BY <2>2 DEF Stored
    <3>2. CASE tokvec[i].op = "word" /\ wordStart(tokvec[i].at)
      <4>1. PICK b \in DOMAIN line : isWord(tokvec[i].at, b)
        BY <2>1, <3>2, WordEnd
      <4>2. <<tokvec[i].at, b>> \in wordsAt /\ <<tokvec[i].at, b>>[1] = tokvec[i].at
        BY <2>1, <3>2, <4>1, WordsAt DEF wordStart
      <4> QED BY <3>2, <4>2
    <3>3. CASE tokvec[i].at \in operatorsAt /\ tokvec[i].op = operatorAt(tokvec[i].at)
      BY <3>3
    <3> QED BY <3>1, <3>2, <3>3 DEF begins
  <2>5. ASSUME NEW a \in DOMAIN line, NEW x, begins(a, x) PROVE <<a, x>> \in A
    <3>1. PICK i \in DOMAIN tokvec : tokvec[i] = [op |-> x, at |-> a]
      BY <2>2, <2>3, <2>5 DEF Stored
    <3>2. pair(tokvec[i]) = <<a, x>>
      BY <3>1
    <3> QED BY <3>2
  <2>6. A = B
    <3>1. A \subseteq B
      <4> HIDE DEF B
      <4> QED BY <2>4
    <3>2. ASSUME NEW w \in wordsAt PROVE <<w[1], "word">> \in A
      <4>1. w[1] \in DOMAIN line /\ wordStart(w[1])
        BY <2>1, WordsAt, WordShape
      <4> HIDE DEF A
      <4> QED BY <2>5, <4>1 DEF begins
    <3>3. ASSUME NEW i \in operatorsAt PROVE <<i, operatorAt(i)>> \in A
      <4>1. i \in DOMAIN line
        BY DEF operatorsAt
      <4> HIDE DEF A
      <4> QED BY <2>5, <4>1 DEF begins
    <3>4. B \subseteq A
      <4> HIDE DEF A
      <4> QED BY <3>2, <3>3
    <3> QED BY <3>1, <3>4
  <2>7. \A i, k \in DOMAIN tokvec : i < k => tokvec[i].at < tokvec[k].at
    BY <2>2 DEF Stored
  <2>8. ASSUME NEW w \in wordsAt PROVE textOf(w[1]) = SubSeq(line, w[1], w[2])
    <3> DEFINE a == w[1]
               b == w[2]
               P(k) == s[k] = Zero /\ \A i \in a .. k - 1 : s[i] # Zero
    <3>1. a \in DOMAIN line /\ b \in DOMAIN line /\ isWord(a, b) /\ w = <<a, b>>
      BY <2>1, WordsAt
    <3>2. a <= b /\ isDelimiter(b + 1)
      BY <2>1, <3>1, WordShape
    <3> HIDE DEF a, b
    <3>3. /\ Len(line) \in Nat /\ a \in 1 .. Len(line) /\ b \in a .. Len(line)
          /\ DOMAIN s = 1 .. Len(line) + 1
      BY <2>1, <2>2, <3>1, <3>2 DEF LineType, Cut
    <3>4. \A i \in a .. b : s[i] = line[i] /\ line[i] # Zero
      <4> TAKE i \in a .. b
      <4>1. i \in Nat /\ i \in 1 .. here - 1 /\ a <= i /\ i <= b
        BY <2>1, <3>3
      <4>2. inWord(i)
        BY <2>1, <3>1, <4>1, InWord
      <4> QED BY <2>1, <2>2, <4>1, <4>2 DEF Cut, LineType
    <3>5. s[b + 1] = Zero
      <4>1. CASE b = Len(line)
        <5>1. b + 1 \in here .. Len(line) + 1 /\ b + 1 \notin DOMAIN line
          BY <2>1, <3>3, <4>1 DEF LineType
        <5> QED BY <2>2, <5>1 DEF Cut
      <4>2. CASE b # Len(line)
        <5>1. b + 1 \in 1 .. here - 1 /\ b + 1 \in Nat
          BY <2>1, <3>3, <4>2
        <5>2. ~inWord(b + 1)
          BY <2>1, <3>2, <5>1, InWord
        <5> QED BY <2>2, <5>1, <5>2 DEF Cut
      <4> QED BY <4>1, <4>2
    <3>6. a .. Len(s) = a .. Len(line) + 1
      <4>1. s \in Seq(Chars \cup {Zero})
        BY DEF LexInv, LexerType
      <4>2. Len(s) = Len(line) + 1
        BY <3>3, <4>1, LenProperties
      <4> QED BY <4>2
    <3> DEFINE y == CHOOSE k \in a .. Len(line) + 1 : P(k)
    <3>7. y = b + 1
      <4>1. b + 1 \in a .. Len(line) + 1 /\ \A i \in a .. (b + 1) - 1 : i \in a .. b
        BY <3>3
      <4>2. \A i \in a .. (b + 1) - 1 : s[i] # Zero
        BY <3>4, <4>1
      <4>3. P(b + 1)
        BY <3>5, <4>2, Zenon
      <4>4. ASSUME NEW k \in a .. Len(line) + 1, P(k) PROVE k = b + 1
        <5>1. k \notin a .. b
          BY <3>4, <4>4
        <5>2. ~(b + 1 < k)
          <6> SUFFICES ASSUME b + 1 < k PROVE FALSE
            OBVIOUS
          <6>1. b + 1 \in a .. k - 1
            BY <3>3
          <6> QED BY <3>5, <4>4, <6>1
        <5> QED BY <3>3, <5>1, <5>2
      <4> HIDE DEF P
      <4> QED BY <4>1, <4>3, <4>4
    <3>8. textOf(a) = SubSeq(s, a, y - 1)
      BY <3>6 DEF textOf
    <3>9. y - 1 = b
      <4> HIDE DEF y
      <4> QED BY <3>3, <3>7
    <3> HIDE DEF y
    <3>10. SubSeq(s, a, b) = SubSeq(line, a, b)
      <4> DEFINE S == Chars \cup {Zero}
                 u == SubSeq(s, a, b)
                 v == SubSeq(line, a, b)
      <4>1. \A i \in 1 .. b - a + 1 : a + i - 1 \in a .. b
        BY <3>3
      <4>2. \A i \in a .. b : s[i] \in S /\ line[i] \in S
        BY <2>1, <3>3, <3>4 DEF LineType
      <4>3. a \in Int /\ b \in Int /\ a <= b
        BY <3>3
      <4>4. /\ u \in Seq(S) /\ Len(u) = b - a + 1
            /\ \A i \in 1 .. b - a + 1 : u[i] = s[a + i - 1]
        BY <4>2, <4>3, SubSeqProperties
      <4>5. /\ v \in Seq(S) /\ Len(v) = b - a + 1
            /\ \A i \in 1 .. b - a + 1 : v[i] = line[a + i - 1]
        BY <4>2, <4>3, SubSeqProperties
      <4> HIDE DEF u, v, S
      <4>6. \A i \in 1 .. b - a + 1 : u[i] = v[i]
        BY <3>4, <4>1, <4>4, <4>5
      <4>7. u = v
        BY <4>4, <4>5, <4>6, SeqEqual
      <4> QED BY <4>7 DEF u, v
    <3> QED BY <3>8, <3>9, <3>10 DEF a, b
  <2> QED BY <2>6, <2>7, <2>8 DEF TokensAreWords
<1> QED BY <1>1, LexKept, PTL
-------------------------------------------------------------------------------
(* Sequences put together. *)

joined(a, b) == a \o b

LEMMA JoinedSeq ==
  ASSUME NEW V, NEW a \in Seq(V), NEW b \in Seq(V)
  PROVE  joined(a, b) \in Seq(V)
BY ConcatProperties DEF joined

(* What the recursion of FlattenSeq() computes.                            *)
IsFlatten(g, seqs, m) ==
  g = [i \in 1 .. m |-> IF i = 1 THEN seqs[i] ELSE joined(g[i - 1], seqs[i])]

Flattens(g, seqs, m) ==
  g[1] = seqs[1] /\ \A i \in 1 .. m - 1 : g[i + 1] = joined(g[i], seqs[i + 1])

LEMMA FlattenExists ==
  ASSUME NEW m \in Nat \ {0}, NEW seqs
  PROVE  \E g : IsFlatten(g, seqs, m)
<1> DEFINE S == {k \in 1 .. m : \E g : IsFlatten(g, seqs, k)}
<1>1. 1 \in S
  <2> DEFINE g == [i \in 1 .. 1 |-> seqs[i]]
  <2>1. g = [i \in 1 .. 1 |-> IF i = 1 THEN seqs[i] ELSE joined(g[i - 1], seqs[i])]
    OBVIOUS
  <2>2. IsFlatten(g, seqs, 1)
    BY <2>1 DEF IsFlatten
  <2> QED BY <2>2
<1>2. ASSUME NEW k \in 1 .. m - 1, k \in S PROVE k + 1 \in S
  <2>1. PICK h : IsFlatten(h, seqs, k)
    BY <1>2
  <2> DEFINE g == [i \in 1 .. k + 1 |-> IF i = k + 1 THEN joined(h[k], seqs[i]) ELSE h[i]]
  <2>2. ASSUME NEW i \in 1 .. k + 1
        PROVE  g[i] = IF i = 1 THEN seqs[i] ELSE joined(g[i - 1], seqs[i])
    <3>1. CASE i = k + 1
      <4>1. i # 1 /\ i - 1 = k /\ k \in 1 .. k + 1 /\ k # k + 1
        BY <3>1
      <4> QED BY <3>1, <4>1
    <3>2. CASE i \in 1 .. k
      <4>1. i # k + 1 /\ g[i] = h[i]
        BY <3>2
      <4>2. h[i] = IF i = 1 THEN seqs[i] ELSE joined(h[i - 1], seqs[i])
        BY <2>1, <3>2 DEF IsFlatten
      <4>3. i # 1 => i - 1 \in 1 .. k + 1 /\ i - 1 # k + 1
        BY <3>2
      <4>4. i # 1 => g[i - 1] = h[i - 1]
        BY <4>3
      <4> HIDE DEF g
      <4> QED BY <4>1, <4>2, <4>4
    <3> QED BY <3>1, <3>2
  <2>3. DOMAIN g = 1 .. k + 1 /\ g = [i \in 1 .. k + 1 |-> g[i]]
    OBVIOUS
  <2> HIDE DEF g
  <2>4. g = [i \in 1 .. k + 1 |-> IF i = 1 THEN seqs[i] ELSE joined(g[i - 1], seqs[i])]
    BY <2>2, <2>3
  <2>5. IsFlatten(g, seqs, k + 1)
    BY <2>4 DEF IsFlatten
  <2> QED BY <2>5
<1>3. 1 .. m \subseteq S
  <2> HIDE DEF S
  <2> QED BY <1>1, <1>2, UpTo
<1> QED BY <1>3

LEMMA FlattenSteps ==
  ASSUME NEW V, NEW m \in Nat \ {0}, NEW seqs \in [1 .. m -> Seq(V)]
  PROVE  \E g \in [1 .. m -> Seq(V)] : Flattens(g, seqs, m) /\ FlattenSeq(seqs) = g[m]
<1> DEFINE g == CHOOSE g : IsFlatten(g, seqs, m)
<1>1. IsFlatten(g, seqs, m)
  BY FlattenExists
<1>2. seqs \in Seq(Seq(V)) /\ Len(seqs) = m
  <2>1. seqs \in Seq(Seq(V))
    BY SeqDef
  <2> QED BY <2>1, LenProperties
<1>3. FlattenSeq(seqs) = g[m]
  <2>1. Len(seqs) # 0
    BY <1>2
  <2>2. FlattenSeq(seqs) = (CHOOSE flatten :
                              flatten = [i \in 1 .. Len(seqs) |->
                                           IF i = 1 THEN seqs[i]
                                           ELSE flatten[i - 1] \o seqs[i]])[Len(seqs)]
    BY <2>1, Zenon DEF FlattenSeq
  <2> QED BY <1>2, <2>2, Zenon DEF IsFlatten, joined
<1> HIDE DEF g
<1>4. DOMAIN g = 1 .. m /\ Flattens(g, seqs, m)
  <2>1. DOMAIN g = 1 .. m /\ \A i \in 1 .. m : g[i] = IF i = 1 THEN seqs[i] ELSE joined(g[i - 1], seqs[i])
    BY <1>1 DEF IsFlatten
  <2>2. ASSUME NEW i \in 1 .. m - 1 PROVE g[i + 1] = joined(g[i], seqs[i + 1])
    <3>1. i + 1 \in 1 .. m /\ i + 1 # 1 /\ (i + 1) - 1 = i
      OBVIOUS
    <3> QED BY <2>1, <3>1
  <2>3. g[1] = seqs[1]
    BY <2>1
  <2> QED BY <2>1, <2>2, <2>3 DEF Flattens
<1>5. \A i \in 1 .. m : g[i] \in Seq(V)
  <2> DEFINE S == {i \in 1 .. m : g[i] \in Seq(V)}
  <2>1. 1 \in S
    BY <1>4 DEF Flattens
  <2>2. ASSUME NEW k \in 1 .. m - 1, k \in S PROVE k + 1 \in S
    <3>1. k + 1 \in 1 .. m /\ g[k + 1] = joined(g[k], seqs[k + 1]) /\ g[k] \in Seq(V)
      BY <1>4, <2>2 DEF Flattens
    <3>2. seqs[k + 1] \in Seq(V)
      BY <3>1
    <3> QED BY <3>1, <3>2, JoinedSeq
  <2>3. 1 .. m \subseteq S
    <3> HIDE DEF S
    <3> QED BY <2>1, <2>2, UpTo
  <2> QED BY <2>3
<1>6. g \in [1 .. m -> Seq(V)]
  <2>1. g = [i \in 1 .. m |-> g[i]]
    BY <1>1, <1>4 DEF IsFlatten
  <2> QED BY <1>5, <2>1
<1> QED BY <1>3, <1>4, <1>6

(* The recursion determines its result.                                    *)
LEMMA FlattenUnique ==
  ASSUME NEW V, NEW m \in Nat \ {0}, NEW seqs \in [1 .. m -> Seq(V)], NEW h, Flattens(h, seqs, m)
  PROVE  FlattenSeq(seqs) = h[m]
<1>1. PICK g \in [1 .. m -> Seq(V)] : Flattens(g, seqs, m) /\ FlattenSeq(seqs) = g[m]
  BY FlattenSteps, Zenon
<1> DEFINE S == {i \in 1 .. m : g[i] = h[i]}
<1>2. 1 \in S
  BY <1>1 DEF Flattens
<1>3. ASSUME NEW k \in 1 .. m - 1, k \in S PROVE k + 1 \in S
  <2>1. g[k + 1] = joined(g[k], seqs[k + 1]) /\ h[k + 1] = joined(h[k], seqs[k + 1]) /\ g[k] = h[k]
    BY <1>1, <1>3 DEF Flattens
  <2>2. k + 1 \in 1 .. m
    OBVIOUS
  <2> QED BY <2>1, <2>2
<1>4. 1 .. m \subseteq S
  <2> HIDE DEF S
  <2> QED BY <1>2, <1>3, UpTo
<1>5. m \in 1 .. m
  OBVIOUS
<1> QED BY <1>1, <1>4, <1>5

(* The elements one by one.                                                *)
LEMMA FlattenOnes ==
  ASSUME NEW V, NEW seq \in Seq(V), seq # << >>
  PROVE  FlattenSeq([i \in 1 .. Len(seq) |-> <<seq[i]>>]) = seq
<1> DEFINE m == Len(seq)
           seqs == [i \in 1 .. m |-> <<seq[i]>>]
           h == [i \in 1 .. m |-> SubSeq(seq, 1, i)]
<1>1. m \in Nat \ {0} /\ \A i \in 1 .. m : seq[i] \in V
  BY EmptySeq, ElementOfSeq
<1>2. seqs \in [1 .. m -> Seq(V)]
  BY <1>1
<1>3. ASSUME NEW i \in 1 .. m - 1 PROVE h[i + 1] = joined(h[i], seqs[i + 1])
  <2>1. i + 1 \in 1 .. m /\ i \in 1 .. m /\ 1 \in 1 .. m /\ (i + 1) - 1 = i
    <3> HIDE DEF m
    <3> QED BY <1>1
  <2>2. SubSeq(seq, 1, i + 1) = joined(SubSeq(seq, 1, i), <<seq[i + 1]>>)
    <3> DEFINE z == i + 1
    <3>1. z \in 1 .. m /\ 1 \in 1 .. Len(seq) /\ z - 1 = i
      BY <2>1
    <3> HIDE DEF z
    <3>2. SubSeq(seq, 1, z) = SubSeq(seq, 1, z - 1) \o <<seq[z]>>
      BY <3>1, SubSeqRecursiveSecond
    <3>3. SubSeq(seq, 1, z) = joined(SubSeq(seq, 1, i), <<seq[z]>>)
      BY <3>1, <3>2, Zenon DEF joined
    <3> QED BY <3>3, Zenon DEF z
  <2>3. h[i + 1] = SubSeq(seq, 1, i + 1) /\ h[i] = SubSeq(seq, 1, i) /\ seqs[i + 1] = <<seq[i + 1]>>
    <3> HIDE DEF m
    <3> QED BY <2>1
  <2> QED BY <2>2, <2>3, Zenon
<1>4. h[1] = seqs[1]
  <2>1. 1 \in 1 .. m
    BY <1>1
  <2>2. SubSeq(seq, 1, 1) = <<seq[1]>>
    <3>1. \A i \in 1 .. 1 : seq[i] \in V
      BY <2>1, <1>1
    <3> DEFINE u == SubSeq(seq, 1, 1)
               v == <<seq[1]>>
    <3>2. /\ u \in Seq(V) /\ Len(u) = IF 1 <= 1 THEN 1 - 1 + 1 ELSE 0
          /\ \A i \in 1 .. 1 - 1 + 1 : u[i] = seq[1 + i - 1]
      BY <3>1, SubSeqProperties
    <3>3. v \in Seq(V) /\ Len(v) = 1 /\ v[1] = seq[1]
      BY <1>1, <2>1
    <3> HIDE DEF u, v
    <3>4. Len(u) = 1 /\ u[1] = seq[1]
      BY <3>2
    <3>5. \A i \in 1 .. Len(u) : u[i] = v[i]
      BY <3>3, <3>4
    <3>6. u = v
      BY <3>2, <3>3, <3>4, <3>5, SeqEqual
    <3> QED BY <3>6 DEF u, v
  <2> QED BY <2>1, <2>2
<1>5. h[m] = seq
  <2>1. m \in 1 .. m
    <3> HIDE DEF m
    <3> QED BY <1>1
  <2> QED BY <2>1, SubSeqFull
<1> HIDE DEF m, seqs, h
<1>6. FlattenSeq(seqs) = h[m]
  <2>1. Flattens(h, seqs, m)
    BY <1>3, <1>4 DEF Flattens
  <2> QED BY <1>1, <1>2, <2>1, FlattenUnique
<1> QED BY <1>5, <1>6 DEF seqs, m

LEMMA FlattenNothing ==
  ASSUME NEW m \in Nat, NEW seqs, seqs = [i \in 1 .. m |-> << >>]
  PROVE  FlattenSeq(seqs) = << >>
<1>1. CASE m = 0
  <2>1. seqs = << >>
    BY <1>1
  <2> QED BY <2>1 DEF FlattenSeq
<1>2. CASE m # 0
  <2>1. seqs \in [1 .. m -> Seq({})]
    OBVIOUS
  <2>2. joined(<< >>, << >>) = << >>
    BY DEF joined
  <2> DEFINE h == [i \in 1 .. m |-> << >>]
  <2>3. h[1] = seqs[1] /\ h[m] = << >>
    BY <1>2
  <2>4. ASSUME NEW i \in 1 .. m - 1 PROVE h[i + 1] = joined(h[i], seqs[i + 1])
    <3>1. i \in 1 .. m /\ i + 1 \in 1 .. m
      OBVIOUS
    <3>2. h[i] = << >> /\ h[i + 1] = << >> /\ seqs[i + 1] = << >>
      BY <3>1
    <3> QED BY <2>2, <3>2, Zenon
  <2> HIDE DEF h
  <2>5. Flattens(h, seqs, m)
    BY <2>3, <2>4 DEF Flattens
  <2>6. FlattenSeq(seqs) = h[m]
    BY <1>2, <2>1, <2>5, FlattenUnique
  <2> QED BY <2>3, <2>6
<1> QED BY <1>1, <1>2

(* First some of the sequences, then the others.                           *)
LEMMA FlattenParts ==
  ASSUME NEW V, NEW m \in Nat, NEW seqs \in [1 .. m -> Seq(V)], NEW k \in 1 .. m - 1
  PROVE  FlattenSeq(seqs) =
           FlattenSeq([i \in 1 .. k |-> seqs[i]]) \o FlattenSeq([i \in 1 .. m - k |-> seqs[k + i]])
<1> DEFINE a == [i \in 1 .. k |-> seqs[i]]
           b == [i \in 1 .. m - k |-> seqs[k + i]]
           d == m - k
<1>1. k \in Nat \ {0} /\ d \in Nat \ {0} /\ k + d = m /\ 1 \in 1 .. d /\ 1 \in 1 .. k
      /\ m \in Nat \ {0}
  OBVIOUS
<1>2. a \in [1 .. k -> Seq(V)] /\ \A i \in 1 .. k : a[i] = seqs[i]
  OBVIOUS
<1>3. b \in [1 .. d -> Seq(V)] /\ \A i \in 1 .. d : b[i] = seqs[k + i]
  OBVIOUS
<1> HIDE DEF a, b, d
<1>4. PICK g \in [1 .. m -> Seq(V)] : Flattens(g, seqs, m) /\ FlattenSeq(seqs) = g[m]
  BY <1>1, FlattenSteps, ZenonT(30)
<1>5. PICK h \in [1 .. d -> Seq(V)] : Flattens(h, b, d) /\ FlattenSeq(b) = h[d]
  <2>1. d \in Nat \ {0} /\ b \in [1 .. d -> Seq(V)]
    BY <1>1, <1>3
  <2> QED BY <2>1, FlattenSteps, Zenon
<1>6. FlattenSeq(a) = g[k]
  <2>1. ASSUME NEW i \in 1 .. k - 1 PROVE g[i + 1] = joined(g[i], a[i + 1])
    <3>1. i \in 1 .. m - 1 /\ i + 1 \in 1 .. k
      OBVIOUS
    <3> QED BY <1>2, <1>4, <3>1 DEF Flattens
  <2>2. g[1] = a[1]
    BY <1>1, <1>2, <1>4 DEF Flattens
  <2>3. Flattens(g, a, k)
    BY <2>1, <2>2 DEF Flattens
  <2> QED BY <1>1, <1>2, <2>3, FlattenUnique
<1> DEFINE S == {i \in 1 .. d : g[k + i] = joined(g[k], h[i])}
<1>7. 1 \in S
  <2>1. k \in 1 .. m - 1
    OBVIOUS
  <2> QED BY <1>1, <1>3, <1>4, <1>5, <2>1 DEF Flattens
<1>8. ASSUME NEW i \in 1 .. d - 1, i \in S PROVE i + 1 \in S
  <2>1. k + i \in 1 .. m - 1 /\ i \in 1 .. d /\ i + 1 \in 1 .. d /\ k + (i + 1) = (k + i) + 1 
        /\ k \in 1 .. m /\ k + (i + 1) \in 1 .. m
    BY <1>1
  <2>2. g[k + (i + 1)] = joined(g[k + i], seqs[k + (i + 1)]) /\ g[k + i] = joined(g[k], h[i])
    BY <1>4, <1>8, <2>1 DEF Flattens
  <2>3. h[i + 1] = joined(h[i], seqs[k + (i + 1)])
    BY <1>3, <1>5, <2>1 DEF Flattens
  <2>4. g[k] \in Seq(V) /\ h[i] \in Seq(V) /\ seqs[k + (i + 1)] \in Seq(V)
    BY <2>1
  <2> DEFINE x == g[k]
             y == h[i]
             z == seqs[k + (i + 1)]
  <2>5. joined(joined(x, y), z) = joined(x, joined(y, z))
    <3> HIDE DEF x, y, z
    <3>1. x \in Seq(V) /\ y \in Seq(V) /\ z \in Seq(V)
      BY <2>4 DEF x, y, z
    <3> QED BY <3>1, ConcatAssociative, SMTT(20) DEF joined
  <2> QED BY <2>1, <2>2, <2>3, <2>5
<1>9. 1 .. d \subseteq S
  <2> HIDE DEF S
  <2> QED BY <1>1, <1>7, <1>8, UpTo
<1>10. g[m] = joined(g[k], h[d])
  <2>1. d \in 1 .. d
    BY <1>1
  <2> QED BY <1>1, <1>9, <2>1
<1> QED BY <1>4, <1>5, <1>6, <1>10, Zenon DEF a, b, d, joined

LEMMA FlattenTyped ==
  ASSUME NEW V, NEW m \in Nat, NEW seqs \in [1 .. m -> Seq(V)]
  PROVE  FlattenSeq(seqs) \in Seq(V)
<1>1. CASE m = 0
  <2>1. seqs = << >>
    BY <1>1
  <2> QED BY <2>1 DEF FlattenSeq
<1>2. CASE m # 0
  <2>1. PICK g \in [1 .. m -> Seq(V)] : FlattenSeq(seqs) = g[m]
    BY <1>2, FlattenSteps
  <2>2. m \in 1 .. m
    BY <1>2
  <2> QED BY <2>1, <2>2
<1> QED BY <1>1, <1>2

(* The whole is not empty if one of the parts is not.                      *)
LEMMA JoinedMeets ==
  ASSUME NEW V, NEW v \in Seq(V), NEW w \in Seq(V), v # << >> \/ w # << >>
  PROVE  joined(v, w) # << >>
BY ConcatEqualIffEmpty DEF joined

LEMMA FlattenMeets ==
  ASSUME NEW V, NEW m \in Nat \ {0}, NEW seqs \in [1 .. m -> Seq(V)], NEW k \in 1 .. m,
         seqs[k] # << >>
  PROVE  FlattenSeq(seqs) # << >>
<1>1. PICK g \in [1 .. m -> Seq(V)] : Flattens(g, seqs, m) /\ FlattenSeq(seqs) = g[m]
  BY FlattenSteps, Zenon
<1> DEFINE d == (m - k) + 1
           T == {i \in 1 .. d : g[(k - 1) + i] # << >>}
<1>2. d \in Nat \ {0} /\ (k - 1) + d = m /\ 1 \in 1 .. d /\ d \in 1 .. d
  OBVIOUS
<1>3. \A i \in 1 .. m - 1 : /\ g[i + 1] = joined(g[i], seqs[i + 1])
                            /\ g[i] \in Seq(V) /\ seqs[i + 1] \in Seq(V)
  <2> TAKE i \in 1 .. m - 1
  <2>1. i \in 1 .. m /\ i + 1 \in 1 .. m
    OBVIOUS
  <2> QED BY <1>1, <2>1 DEF Flattens
<1>4. g[k] # << >>
  <2>1. CASE k = 1
    BY <1>1, <2>1 DEF Flattens
  <2>2. CASE k # 1
    <3>1. k - 1 \in 1 .. m - 1 /\ (k - 1) + 1 = k
      BY <2>2
    <3>2. g[k] = joined(g[k - 1], seqs[k]) /\ g[k - 1] \in Seq(V) /\ seqs[k] \in Seq(V)
      BY <1>3, <3>1
    <3> QED BY <3>2, JoinedMeets
  <2> QED BY <2>1, <2>2
<1>5. 1 \in T
  <2>1. (k - 1) + 1 = k
    OBVIOUS
  <2> QED BY <1>2, <1>4, <2>1
<1>6. ASSUME NEW i \in 1 .. d - 1, i \in T PROVE i + 1 \in T
  <2> DEFINE z == (k - 1) + i
  <2>1. z \in 1 .. m - 1 /\ (k - 1) + (i + 1) = z + 1 /\ i + 1 \in 1 .. d
    BY <1>2
  <2>2. g[z] # << >>
    BY <1>6
  <2> HIDE DEF z
  <2>3. g[z + 1] # << >>
    BY <1>3, <2>1, <2>2, JoinedMeets
  <2> QED BY <2>1, <2>3
<1>7. 1 .. d \subseteq T
  <2> HIDE DEF T, d
  <2> QED BY <1>2, <1>5, <1>6, UpTo
<1>8. g[(k - 1) + d] # << >>
  BY <1>2, <1>7
<1>9. g[m] # << >>
  BY <1>2, <1>8
<1> QED BY <1>1, <1>9

-------------------------------------------------------------------------------
(***************************************************************************)
(* Commands, for any number of arguments and directories.  The search has  *)
(* passed over directories that do not have the program, and stops at one  *)
(* that has it, at an empty one, or behind them all.                       *)
(***************************************************************************)

Passed == \A i \in 1 .. dir - 1 : i \in DOMAIN path /\ path[i] = "has not"

PathType ==
  /\ Len(path) \in Nat /\ DOMAIN path = 1 .. Len(path)
  /\ path # <<"unset">> => \A i \in DOMAIN path : path[i] \in Dirs

CommandsInv ==
  /\ dir \in Nat \ {0} /\ beyond \in Nat /\ PathType
  /\ doing \in {"shell", "search", "exec", "exit"}
  /\ doing # "shell" =>
       Len(argv) \in Nat \ {0} /\ argv \in [1 .. Len(argv) -> Words \cup Programs \cup {"kill"}]
  /\ doing = "exec" /\ ~searches => program.args = argv
  /\ doing # "shell" /\ searches =>
       /\ Passed
       /\ doing = "exec" =>
            /\ program.args = arguments
            /\ \/ dir \in DOMAIN path /\ path[dir] = "has it" /\ program.place = dir
               \/ dir \notin DOMAIN path /\ path # << >> /\ program.place > Len(path)
       /\ doing = "exit" /\ dir \in DOMAIN path => path[dir] = ""

(* Between the places passed over and a later one. *)
LEMMA Between ==
  ASSUME NEW z \in Nat, NEW y \in 1 .. z, NEW x \in Nat \ {0}, y \notin 1 .. x - 1
  PROVE  x \in 1 .. y /\ x \in 1 .. z
OBVIOUS

LEMMA WordTupleTypes ==
  ASSUME NEW k \in Nat, NEW w \in words(k), NEW c \in Programs \cup {"kill"}
  PROVE  LET a == <<c>> \o w
         IN  Len(a) \in Nat \ {0} /\ a \in [1 .. Len(a) -> Words \cup Programs \cup {"kill"}]
<1> DEFINE V == Words \cup Programs \cup {"kill"}
           u == <<c>>
<1>1. PICK z \in 0 .. k : w \in [1 .. z -> Words]
  BY DEF words
<1>2. w \in Seq(V)
  <2>1. w \in [1 .. z -> V]
    BY <1>1
  <2> QED BY <2>1, SeqDef
<1>3. u \in Seq(V) /\ Len(u) = 1
  OBVIOUS
<1> HIDE DEF u, V
<1> DEFINE a == u \o w
<1>4. a \in Seq(V) /\ Len(a) = Len(u) + Len(w)
  BY <1>2, <1>3, ConcatProperties
<1>5. Len(w) \in Nat
  BY <1>2, LenProperties
<1> HIDE DEF a
<1>6. Len(a) \in Nat \ {0} /\ a \in [1 .. Len(a) -> V]
  BY <1>3, <1>4, <1>5, LenProperties
<1> QED BY <1>6 DEF a, u, V

LEMMA CommandsInitInv == CommandsInit => CommandsInv
<1> SUFFICES ASSUME CommandsInit PROVE CommandsInv
  OBVIOUS
<1>1. path = << >> /\ doing = "shell" /\ dir = 1 /\ beyond = 0
  BY DEF CommandsInit
<1> QED BY <1>1 DEF CommandsInv, PathType

LEMMA CommandsStep == CommandsInv /\ [CommandsNext]_cmdVars => CommandsInv'
<1> SUFFICES ASSUME CommandsInv, [CommandsNext]_cmdVars PROVE CommandsInv'
  OBVIOUS
<1>t. dir \in Nat \ {0} /\ Len(path) \in Nat /\ DOMAIN path = 1 .. Len(path)
  BY DEF CommandsInv, PathType
<1>d. dir \in DOMAIN path <=> dir <= Len(path)
  <2> DEFINE z == Len(path)
  <2>1. dir \in 1 .. z <=> dir <= z
    <3> HIDE DEF z
    <3>1. z \in Nat
      BY <1>t DEF z
    <3> QED BY <1>t, <3>1
  <2> QED BY <1>t, <2>1
<1>s. ASSUME UNCHANGED <<argv, path>>
      PROVE  (searches' <=> searches) /\ arguments' = arguments
  BY <1>s DEF searches, arguments, globbed, opt, isOption
<1>1. ASSUME NEW c, RunBuiltin(c) PROVE CommandsInv'
  BY <1>1 DEF RunBuiltin, CommandsInv, PathType
<1>2. ASSUME NEW k \in Nat, NEW w \in words(k), NEW p \in Programs \cup {"kill"}, NEW m \in Nat,
             NEW dirs \in [1 .. m -> Dirs] \cup {<<"unset">>}, RunProgram(<<p>> \o w, dirs)
      PROVE  CommandsInv'
  <2>1. argv' = <<p>> \o w /\ path' = dirs /\ doing' = "search" /\ dir' = 1 /\ beyond' = 0
    BY <1>2 DEF RunProgram
  <2>2. Len(argv') \in Nat \ {0} /\ argv' \in [1 .. Len(argv') -> Words \cup Programs \cup {"kill"}]
    BY <2>1, WordTupleTypes, Zenon
  <2>3. PathType'
    <3>1. CASE dirs \in [1 .. m -> Dirs]
      <4>1. dirs \in Seq(Dirs)
        BY <3>1, SeqDef
      <4>2. Len(dirs) \in Nat /\ DOMAIN dirs = 1 .. Len(dirs) /\ \A i \in DOMAIN dirs : dirs[i] \in Dirs
        BY <4>1, LenProperties
      <4> QED BY <2>1, <4>2 DEF PathType
    <3>2. CASE dirs = <<"unset">>
      <4>1. path' = <<"unset">>
        BY <2>1, <3>2
      <4> QED BY <4>1 DEF PathType
    <3> QED BY <3>1, <3>2
  <2>4. Passed' /\ dir' \in Nat \ {0} /\ beyond' \in Nat
    <3>1. dir' = 1 /\ beyond' = 0
      BY <2>1
    <3> QED BY <3>1 DEF Passed
  <2>5. doing' = "search"
    BY <2>1
  <2> QED BY <2>1, <2>2, <2>3, <2>4, <2>5 DEF CommandsInv
<1>3. CASE AsTyped
  <2>1. /\ UNCHANGED <<argv, path, dir, beyond>> /\ ~searches /\ doing = "search"
        /\ doing' \in {"exec", "exit"} /\ (doing' = "exec" => program'.args = argv)
    BY <1>3 DEF AsTyped
  <2> QED BY <1>s, <2>1 DEF CommandsInv, PathType, Passed
<1>4. CASE TryDirectory
  <2>1. /\ UNCHANGED <<argv, path, beyond>> /\ doing = "search" /\ searches /\ dir <= Len(path) /\ path[dir] # ""
        /\ dir \in DOMAIN path
    BY <1>4, <1>d DEF TryDirectory
  <2>2. CASE path[dir] = "has it"
    <3>1. program' = [place |-> dir, args |-> arguments] /\ doing' = "exec" /\ dir' = dir
      BY <1>4, <2>2 DEF TryDirectory
    <3>2. program'.args = arguments /\ program'.place = dir
      BY <3>1
    <3> QED BY <1>s, <2>1, <2>2, <3>1, <3>2 DEF CommandsInv, PathType, Passed
  <2>3. CASE path[dir] # "has it"
    <3>1. dir' = dir + 1 /\ doing' = doing
      BY <1>4, <2>3 DEF TryDirectory, nextDir
    <3>2. path[dir] = "has not"
      BY <2>1, <2>3 DEF CommandsInv, PathType, Dirs, searches
    <3>3. \A i \in 1 .. (dir + 1) - 1 : i \in DOMAIN path /\ path[i] = "has not"
      <4> TAKE i \in 1 .. (dir + 1) - 1
      <4>1. i = dir \/ i \in 1 .. dir - 1
        BY <1>t
      <4>2. Passed
        BY <2>1 DEF CommandsInv
      <4> QED BY <2>1, <3>2, <4>1, <4>2 DEF Passed
    <3>4. Passed'
      BY <2>1, <3>1, <3>3 DEF Passed
    <3>5. dir' \in Nat \ {0}
      BY <1>t, <3>1
    <3> QED BY <1>s, <2>1, <3>1, <3>4, <3>5 DEF CommandsInv, PathType
  <2> QED BY <2>2, <2>3
<1>5. CASE TryBeyond
  <2>1. /\ UNCHANGED <<argv, path, dir>> /\ doing = "search" /\ searches
        /\ dir > Len(path) /\ path # << >> /\ beyond' = beyond + 1
        /\ \/ program' = [place |-> Len(path) + beyond + 1, args |-> arguments] /\ doing' = "exec"
           \/ UNCHANGED <<doing, program>>
    BY <1>5 DEF TryBeyond
  <2>2. beyond' \in Nat /\ dir \notin DOMAIN path
    BY <1>t, <1>d, <2>1 DEF CommandsInv
  <2>3. CASE program' = [place |-> Len(path) + beyond + 1, args |-> arguments] /\ doing' = "exec"
    <3>1. program'.args = arguments /\ program'.place = Len(path) + beyond + 1
      BY <2>3
    <3>2. program'.place > Len(path)
      <4> DEFINE z == Len(path)
      <4>1. z \in Nat /\ beyond \in Nat /\ program'.place = z + beyond + 1
        BY <1>t, <3>1 DEF CommandsInv
      <4> HIDE DEF z
      <4>2. program'.place > z
        BY <4>1
      <4> QED BY <4>2 DEF z
    <3> QED BY <1>s, <2>1, <2>2, <2>3, <3>1, <3>2 DEF CommandsInv, PathType, Passed
  <2>4. CASE UNCHANGED <<doing, program>>
    BY <1>s, <2>1, <2>2, <2>4 DEF CommandsInv, PathType, Passed
  <2> QED BY <2>1, <2>3, <2>4
<1>6. CASE NotFound
  <2>1. /\ UNCHANGED <<argv, path, dir, beyond, program>> /\ doing = "search" /\ doing' = "exit"
        /\ dir \in DOMAIN path => path[dir] = ""
    BY <1>6, <1>d DEF NotFound
  <2> QED BY <1>s, <2>1 DEF CommandsInv, PathType, Passed
<1>7. CASE NextCommand
  <2>1. path' = << >> /\ doing' = "shell" /\ dir' = 1 /\ beyond' = 0
    BY <1>7 DEF NextCommand
  <2>2. PathType'
    <3>1. \A x : x = << >> => Len(x) = 0 /\ DOMAIN x = 1 .. 0
      OBVIOUS
    <3>2. Len(path') = 0 /\ DOMAIN path' = 1 .. 0
      BY <2>1, <3>1
    <3> QED BY <3>2 DEF PathType
  <2>3. dir' \in Nat \ {0} /\ beyond' \in Nat /\ doing' = "shell"
    BY <2>1
  <2> QED BY <2>2, <2>3 DEF CommandsInv
<1>8. CASE UNCHANGED cmdVars
  <2>1. UNCHANGED <<argv, path, dir, beyond, doing, program>>
    BY <1>8 DEF cmdVars
  <2> QED BY <1>s, <2>1 DEF CommandsInv, PathType, Passed
<1> QED
  <2>1. 1 \in Nat /\ MaxArgs \in Nat
    BY CommandsAssumption
  <2>2. ASSUME NEW dirs \in (UNION {[1 .. i -> Dirs] : i \in 0 .. MaxDirs}) \cup {<<"unset">>}
        PROVE  \E m \in Nat : dirs \in [1 .. m -> Dirs] \cup {<<"unset">>}
    <3>1. CASE dirs \in UNION {[1 .. i -> Dirs] : i \in 0 .. MaxDirs}
      <4>1. PICK i \in 0 .. MaxDirs : dirs \in [1 .. i -> Dirs]
        BY <3>1
      <4>2. i \in Nat
        BY CommandsAssumption
      <4> QED BY <4>1, <4>2, Zenon
    <3>2. CASE dirs = <<"unset">>
      <4>1. dirs \in {<<"unset">>}
        BY <3>2, Zenon
      <4> QED BY <2>1, <4>1, Zenon
    <3>3. dirs \in UNION {[1 .. i -> Dirs] : i \in 0 .. MaxDirs} \/ dirs = <<"unset">>
      <4> DEFINE U == UNION {[1 .. i -> Dirs] : i \in 0 .. MaxDirs}
                 o == <<"unset">>
      <4>1. dirs \in U \cup {o}
        BY <2>2, Zenon
      <4> HIDE DEF U, o
      <4>2. dirs \in U \/ dirs = o
        BY <4>1
      <4> QED BY <4>2 DEF U, o
    <3> QED BY <3>1, <3>2, <3>3, Zenon
  <2> QED BY <1>1, <1>2, <1>3, <1>4, <1>5, <1>6, <1>7, <1>8, <2>1, <2>2 DEF CommandsNext

LEMMA CommandsKept == CommandsSpec => []CommandsInv
BY CommandsInitInv, CommandsStep, PTL DEF CommandsSpec

(* The program runs from the first of the directories in front of the      *)
(* first empty one that has it, however many there are; if none has it,    *)
(* one runs from behind PATH at most, after all of PATH was searched       *)
(* (command.c: external_command).                                          *)
THEOREM SearchFindsProgram == CommandsSpec => []FirstProgramRuns
<1>1. CommandsInv => FirstProgramRuns
  <2> SUFFICES ASSUME CommandsInv, doing \in {"exec", "exit"}, searches PROVE FirstProgramRuns
    BY DEF FirstProgramRuns
  <2> DEFINE front  == {i \in DOMAIN path : \A k \in 1 .. i : path[k] # ""}
             having == {i \in front : path[i] = "has it"}
  <2>1. Passed /\ dir \in Nat \ {0} /\ Len(path) \in Nat /\ DOMAIN path = 1 .. Len(path)
    BY DEF CommandsInv, PathType
  <2>2. ASSUME NEW i \in having
        PROVE  dir \in 1 .. i /\ dir \in DOMAIN path /\ dir <= i /\ path[dir] # ""
    <3>1. i \in DOMAIN path /\ path[i] = "has it" /\ \A k \in 1 .. i : path[k] # ""
      OBVIOUS
    <3>2. i \notin 1 .. dir - 1
      BY <2>1, <3>1 DEF Passed
    <3> DEFINE z == Len(path)
    <3>3. z \in Nat /\ i \in 1 .. z
      BY <2>1, <3>1
    <3> HIDE DEF z
    <3>4. dir \in 1 .. i /\ dir \in 1 .. z
      BY <2>1, <3>2, <3>3, Between, Zenon
    <3>5. dir \in DOMAIN path
      BY <2>1, <3>4 DEF z
    <3>6. dir <= i
      <4> HIDE DEF having, front
      <4> QED BY <2>1, <3>3, <3>4
    <3> QED BY <3>1, <3>4, <3>5, <3>6
  <2>3. CASE doing = "exec" /\ dir \in DOMAIN path /\ path[dir] = "has it" /\ program.place = dir
    <3>1. \A k \in 1 .. dir : path[k] # ""
      <4> TAKE k \in 1 .. dir
      <4>1. k = dir \/ k \in 1 .. dir - 1
        BY <2>1
      <4> QED BY <2>1, <2>3, <4>1 DEF Passed
    <3>2. program.place \in having
      BY <2>3, <3>1
    <3>3. \A i \in having : program.place <= i
      <4> TAKE i \in having
      <4>1. dir <= i
        BY <2>2
      <4> QED BY <2>3, <4>1
    <3> HIDE DEF having
    <3>4. IF having # {}
          THEN doing = "exec" /\ program.place \in having /\ \A i \in having : program.place <= i
          ELSE doing = "exec" => program.place > Len(path) /\ path # << >> /\ front = DOMAIN path
      BY <2>3, <3>2, <3>3, Zenon
    <3> QED BY <3>4, Zenon DEF FirstProgramRuns, having
  <2>4. CASE doing = "exec" /\ dir \notin DOMAIN path /\ path # << >> /\ program.place > Len(path)
    <3>1. having = {}
      BY <2>2, <2>4
    <3>2. front = DOMAIN path
      <4> SUFFICES ASSUME NEW i \in DOMAIN path, NEW k \in 1 .. i PROVE path[k] # ""
        OBVIOUS
      <4> DEFINE z == Len(path)
      <4>1. z \in Nat /\ i \in 1 .. z /\ dir \notin 1 .. z
        BY <2>1, <2>4
      <4> HIDE DEF z
      <4>2. k \in 1 .. dir - 1
        BY <2>1, <4>1
      <4> QED BY <2>1, <4>2 DEF Passed
    <3> HIDE DEF having, front
    <3>3. IF having # {}
          THEN doing = "exec" /\ program.place \in having /\ \A i \in having : program.place <= i
          ELSE doing = "exec" => program.place > Len(path) /\ path # << >> /\ front = DOMAIN path
      BY <2>4, <3>1, <3>2, Zenon
    <3> QED BY <3>3, Zenon DEF FirstProgramRuns, having, front
  <2>5. CASE doing = "exit"
    <3>1. having = {}
      <4> SUFFICES ASSUME NEW i \in having PROVE FALSE
        OBVIOUS
      <4>1. path[dir] = ""
        BY <2>2, <2>5 DEF CommandsInv
      <4> QED BY <2>2, <4>1
    <3> HIDE DEF having, front
    <3>2. IF having # {}
          THEN doing = "exec" /\ program.place \in having /\ \A i \in having : program.place <= i
          ELSE doing = "exec" => program.place > Len(path) /\ path # << >> /\ front = DOMAIN path
      BY <2>5, <3>1
    <3> QED BY <3>2, Zenon DEF FirstProgramRuns, having, front
  <2> QED BY <2>3, <2>4, <2>5 DEF CommandsInv
<1> QED BY <1>1, CommandsKept, PTL

(* How expand_wildcard() treats the words if one behind position opt + 1   *)
(* matches a file, and if none does.                                       *)
treated == [i \in DOMAIN argv |->
              IF i <= opt + 1 THEN "typed"
              ELSE IF matches(argv[i]) # << >> THEN "files" ELSE "dropped"]
asTyped == [i \in DOMAIN argv |-> "typed"]

passed(how) == FlattenSeq([i \in DOMAIN argv |-> outcome(argv[i], how[i])])

ArgvType ==
  /\ Len(argv) \in Nat \ {0} /\ opt \in Nat /\ DOMAIN argv = 1 .. Len(argv)
  /\ argv \in Seq(Words \cup Programs \cup {"kill", "file1", "file2"})

LEMMA ArgvTyped ==
  ASSUME CommandsInv, doing = "exec"
  PROVE  ArgvType
<1> DEFINE V == Words \cup Programs \cup {"kill", "file1", "file2"}
           m == Len(argv)
<1>1. m \in Nat \ {0} /\ argv \in [1 .. m -> Words \cup Programs \cup {"kill"}]
  BY DEF CommandsInv
<1>2. argv \in [1 .. m -> V]
  BY <1>1
<1>3. argv \in Seq(V)
  BY <1>1, <1>2, SeqDef
<1>4. IsFiniteSet(DOMAIN argv)
  BY <1>1, FS_Interval
<1>5. IsFiniteSet({i \in DOMAIN argv : isOption(i)})
  BY <1>4, FS_Subset
<1>6. opt \in Nat
  BY <1>5, FS_CardinalityType DEF opt
<1> QED BY <1>1, <1>3, <1>6 DEF ArgvType

LEMMA MatchesType ==
  \A x : matches(x) \in Seq(Words \cup Programs \cup {"kill", "file1", "file2"})
<1> DEFINE V == Words \cup Programs \cup {"kill", "file1", "file2"}
<1>1. "name" \in V /\ "file1" \in V /\ "file2" \in V
  BY DEF Words
<1> HIDE DEF V
<1>2. <<"name">> \in Seq(V)
  BY <1>1
<1>3. <<"file1", "file2">> \in Seq(V)
  BY <1>1
<1>4. << >> \in Seq(V)
  OBVIOUS
<1>5. ASSUME NEW x PROVE matches(x) \in Seq(V)
  <2>1. matches(x) = <<"name">> \/ matches(x) = <<"file1", "file2">> \/ matches(x) = << >>
    BY DEF matches
  <2> QED BY <1>2, <1>3, <1>4, <2>1, Zenon
<1> QED BY <1>5 DEF V

LEMMA PassedAsTyped ==
  ASSUME ArgvType
  PROVE  passed(asTyped) = argv
<1> DEFINE V == Words \cup Programs \cup {"kill", "file1", "file2"}
<1>1. [i \in DOMAIN argv |-> outcome(argv[i], asTyped[i])] = [i \in 1 .. Len(argv) |-> <<argv[i]>>]
  BY DEF ArgvType, asTyped, outcome
<1>2. argv \in Seq(V) /\ argv # << >>
  BY DEF ArgvType
<1> HIDE DEF V
<1>3. FlattenSeq([i \in 1 .. Len(argv) |-> <<argv[i]>>]) = argv
  BY <1>2, FlattenOnes
<1> QED BY <1>1, <1>3 DEF passed

(* If no word is treated as files, none of them matches.                   *)
LEMMA NothingGlobbed ==
  ASSUME ArgvType, globbed = << >>
  PROVE  \A i \in DOMAIN argv : i > opt + 1 => matches(argv[i]) = << >>
<1> DEFINE V == Words \cup Programs \cup {"kill", "file1", "file2"}
           m == Len(argv)
           d == m - opt - 1
           G == [i \in 1 .. d |-> matches(argv[opt + 1 + i])]
<1> SUFFICES ASSUME NEW i \in DOMAIN argv, i > opt + 1, matches(argv[i]) # << >>
             PROVE  FALSE
  OBVIOUS
<1>1. m \in Nat \ {0} /\ opt \in Nat /\ i \in 1 .. m
  BY DEF ArgvType
<1>2. globbed = FlattenSeq(G)
  BY DEF globbed
<1> HIDE DEF m, V
<1>3. d \in Nat \ {0} /\ i - opt - 1 \in 1 .. d /\ opt + 1 + (i - opt - 1) = i
  BY <1>1
<1>4. G \in [1 .. d -> Seq(V)]
  BY MatchesType DEF V
<1>5. G[i - opt - 1] # << >>
  BY <1>3
<1>6. FlattenSeq(G) # << >>
  <2> HIDE DEF G, d
  <2> QED BY <1>3, <1>4, <1>5, FlattenMeets
<1> QED BY <1>2, <1>6

(* The program gets each of its words: as it was typed, as the files it    *)
(* matches, or, if it matches none and another word does, not at all, for  *)
(* any number of arguments in any order (command.c: expand_wildcard).      *)
THEOREM ArgumentsExpanded == CommandsSpec => []ArgumentsArrive
<1>1. ASSUME CommandsInv, doing = "exec", NEW how \in [DOMAIN argv -> Outcomes],
             program.args = passed(how), how[1] = "typed",
             \A i \in DOMAIN argv : how[i] = "files" => matches(argv[i]) # << >>,
             \A i \in DOMAIN argv : how[i] = "dropped" =>
               matches(argv[i]) = << >> /\ \E k \in DOMAIN argv : how[k] = "files",
             ~searches => \A i \in DOMAIN argv : how[i] = "typed",
             searches /\ (\A i \in 2 .. Len(argv) : isOption(i) <=> i <= opt + 1) =>
               \A i \in 2 .. Len(argv) :
                 (matches(argv[i]) # << >> => how[i] = "files") /\ (isOption(i) => how[i] = "typed")
      PROVE  ArgumentsArrive
  <2>1. \A i \in 2 .. Len(argv) : i \in DOMAIN argv
    BY <1>1, ArgvTyped DEF ArgvType
  <2> QED BY <1>1, <2>1 DEF ArgumentsArrive, passed
<1>2. ASSUME CommandsInv, doing = "exec", program.args = argv,
             searches /\ (\A i \in 2 .. Len(argv) : isOption(i) <=> i <= opt + 1) =>
               \A i \in 2 .. Len(argv) : matches(argv[i]) = << >>
      PROVE  ArgumentsArrive
  <2>1. /\ asTyped \in [DOMAIN argv -> Outcomes] /\ \A i \in DOMAIN argv : asTyped[i] = "typed"
        /\ passed(asTyped) = argv
    BY <1>2, ArgvTyped, PassedAsTyped DEF asTyped, Outcomes
  <2>2. 1 \in DOMAIN argv /\ \A i \in 2 .. Len(argv) : i \in DOMAIN argv
    BY <1>2, ArgvTyped DEF ArgvType
  <2> DEFINE how == asTyped
  <2>3. /\ how \in [DOMAIN argv -> Outcomes] /\ program.args = passed(how) /\ how[1] = "typed"
        /\ \A i \in DOMAIN argv : how[i] = "typed" /\ how[i] # "files" /\ how[i] # "dropped"
        /\ \A i \in 2 .. Len(argv) : how[i] = "typed"
    BY <1>2, <2>1, <2>2
  <2> HIDE DEF how
  <2> QED BY <1>1, <1>2, <2>3
<1>3. ASSUME CommandsInv, doing = "exec", searches
      PROVE  ArgumentsArrive
  <2> DEFINE V == Words \cup Programs \cup {"kill", "file1", "file2"}
             m == Len(argv)
  <2>1. ArgvType /\ program.args = arguments /\ m \in Nat \ {0} /\ opt \in Nat /\ DOMAIN argv = 1 .. m
    BY <1>3, ArgvTyped DEF CommandsInv, ArgvType
  <2>2. \A i \in 2 .. m : isOption(i) => matches(argv[i]) = << >>
    BY DEF isOption, matches
  <2>3. CASE ~(m - opt > 1 /\ globbed # << >>)
    <3>1. program.args = argv
      BY <2>1, <2>3 DEF arguments
    <3>2. ASSUME \A i \in 2 .. m : isOption(i) <=> i <= opt + 1, NEW i \in 2 .. m
          PROVE  matches(argv[i]) = << >>
      <4>1. CASE i <= opt + 1
        BY <2>2, <3>2, <4>1
      <4>2. CASE ~(i <= opt + 1)
        <5> HIDE DEF m
        <5>1. m - opt > 1 /\ i \in DOMAIN argv /\ i > opt + 1
          BY <2>1, <4>2
        <5>2. globbed = << >>
          BY <2>3, <5>1
        <5> QED BY <2>1, <5>1, <5>2, NothingGlobbed
      <4> QED BY <4>1, <4>2
    <3> QED BY <1>2, <1>3, <3>1, <3>2
  <2>4. CASE m - opt > 1 /\ globbed # << >>
    <3> DEFINE k == opt + 1
               F == [i \in 1 .. m |-> outcome(argv[i], treated[i])]
               a == SubSeq(argv, 1, k)
    <3>1. arguments = a \o globbed
      BY <2>4 DEF arguments
    <3>2. \A i \in 1 .. m : treated[i] = IF i <= k THEN "typed"
                                         ELSE IF matches(argv[i]) # << >> THEN "files" ELSE "dropped"
      BY <2>1 DEF treated
    <3>3. \A i \in 1 .. m : F[i] = IF i <= k THEN <<argv[i]>> ELSE matches(argv[i])
      <4> TAKE i \in 1 .. m
      <4>1. treated[i] = "typed" => outcome(argv[i], treated[i]) = <<argv[i]>>
        BY Zenon DEF outcome
      <4>2. treated[i] = "files" => outcome(argv[i], treated[i]) = matches(argv[i])
        BY DEF outcome
      <4>3. treated[i] = "dropped" => outcome(argv[i], treated[i]) = << >>
        BY DEF outcome
      <4>4. F[i] = outcome(argv[i], treated[i])
        OBVIOUS
      <4> QED BY <3>2, <4>1, <4>2, <4>3, <4>4
    <3>4. k \in Nat \ {0} /\ k \in 1 .. m - 1 /\ m - k \in Nat \ {0} /\ m - opt - 1 = m - k
      <4> HIDE DEF m
      <4> QED BY <2>1, <2>4
    <3>5. \A i \in 1 .. m : argv[i] \in V
      BY <2>1, ElementOfSeq DEF ArgvType
    <3>6. F \in [1 .. m -> Seq(V)]
      <4>1. \A i \in 1 .. m : F[i] \in Seq(V)
        <5> TAKE i \in 1 .. m
        <5>1. argv[i] \in V
          BY <3>5
        <5> HIDE DEF V, F
        <5>2. <<argv[i]>> \in Seq(V)
          BY <5>1
        <5>3. matches(argv[i]) \in Seq(V)
          BY MatchesType DEF V
        <5> QED BY <3>3, <5>2, <5>3
      <4> HIDE DEF V
      <4> QED BY <4>1
    <3>7. [i \in 1 .. k |-> F[i]] = [i \in 1 .. Len(a) |-> <<a[i]>>] /\ a \in Seq(V) /\ a # << >>
      <4> HIDE DEF V, m
      <4>1. \A i \in 1 .. k : i \in 1 .. m /\ argv[i] \in V
        BY <2>1, <3>4, <3>5
      <4>2. /\ a \in Seq(V) /\ Len(a) = IF 1 <= k THEN k - 1 + 1 ELSE 0
            /\ \A i \in 1 .. k - 1 + 1 : a[i] = argv[1 + i - 1]
        BY <3>4, <4>1, SubSeqProperties
      <4> HIDE DEF a, F
      <4>3. Len(a) = k /\ \A i \in 1 .. k : a[i] = argv[i]
        <5> HIDE DEF k
        <5> QED BY <3>4, <4>2
      <4>4. \A i \in 1 .. k : F[i] = <<a[i]>>
        <5>1. \A i \in 1 .. k : i <= k
          BY <2>1
        <5> QED BY <3>3, <4>1, <4>3, <5>1
      <4>5. a # << >>
        BY <3>4, <4>3
      <4> QED BY <4>2, <4>3, <4>4, <4>5
    <3>8. globbed = FlattenSeq([i \in 1 .. m - k |-> F[k + i]])
      <4> HIDE DEF m
      <4>1. \A i \in 1 .. m - k : k + i \in 1 .. m /\ ~(k + i <= k) /\ opt + 1 + i = k + i
        BY <2>1, <3>4
      <4> HIDE DEF F
      <4>2. \A i \in 1 .. m - k : F[k + i] = matches(argv[opt + 1 + i])
        BY <3>3, <4>1
      <4>3. [i \in 1 .. m - k |-> F[k + i]] = [i \in 1 .. m - opt - 1 |-> matches(argv[opt + 1 + i])]
        BY <3>4, <4>2
      <4> QED BY <4>3 DEF globbed, m
    <3>9. program.args = passed(treated)
      <4>1. FlattenSeq(F) = FlattenSeq([i \in 1 .. k |-> F[i]]) \o FlattenSeq([i \in 1 .. m - k |-> F[k + i]])
        <5> HIDE DEF F, V, k, m
        <5>1. m \in Nat /\ F \in [1 .. m -> Seq(V)] /\ k \in 1 .. m - 1
          BY <2>1, <3>4, <3>6
        <5> QED BY <5>1, FlattenParts, Zenon
      <4>2. FlattenSeq([i \in 1 .. k |-> F[i]]) = a
        <5> HIDE DEF F, V, a, k
        <5> QED BY <3>7, FlattenOnes
      <4>3. passed(treated) = FlattenSeq(F)
        BY <2>1 DEF passed
      <4> HIDE DEF F, a, k, m
      <4> QED BY <2>1, <3>1, <3>8, <4>1, <4>2, <4>3, Zenon
    <3>10. PICK x \in 1 .. m : x > k /\ matches(argv[x]) # << >>
      <4> SUFFICES ASSUME \A x \in 1 .. m : x > k => matches(argv[x]) = << >> PROVE FALSE
        OBVIOUS
      <4> HIDE DEF m
      <4>1. \A i \in 1 .. m - k : matches(argv[opt + 1 + i]) = << >> /\ m - opt - 1 = m - k
        BY <2>1, <3>4
      <4>2. [i \in 1 .. m - opt - 1 |-> matches(argv[opt + 1 + i])] = [i \in 1 .. m - k |-> << >>]
        BY <3>4, <4>1
      <4>3. FlattenSeq([i \in 1 .. m - k |-> << >>]) = << >>
        <5>1. m - k \in Nat
          BY <3>4
        <5> HIDE DEF k
        <5> QED BY <5>1, FlattenNothing
      <4>4. globbed = << >>
        BY <4>2, <4>3 DEF globbed, m
      <4> QED BY <2>4, <4>4
    <3> HIDE DEF F, a
    <3>11. treated \in [DOMAIN argv -> Outcomes] /\ 1 <= k /\ 1 \in 1 .. m
      <4>1. 1 <= k /\ 1 \in 1 .. m
        <5> HIDE DEF m
        <5> QED BY <2>1
      <4> QED BY <4>1 DEF treated, Outcomes
    <3>12. treated[x] = "files" /\ x \in DOMAIN argv
      <4>1. ~(x <= k)
        <5> HIDE DEF m
        <5> QED BY <3>4, <3>10
      <4> QED BY <2>1, <3>2, <3>10, <4>1
    <3>13. ASSUME \A i \in 2 .. m : isOption(i) <=> i <= opt + 1, NEW i \in 2 .. m
           PROVE  (matches(argv[i]) # << >> => treated[i] = "files") /\ (isOption(i) => treated[i] = "typed")
      <4>1. i \in 1 .. m
        <5> HIDE DEF m
        <5> QED BY <2>1
      <4> QED BY <2>2, <3>2, <3>13, <4>1
    <3> DEFINE how == treated
    <3>14. /\ how \in [DOMAIN argv -> Outcomes] /\ program.args = passed(how) /\ how[1] = "typed"
           /\ \A i \in DOMAIN argv : how[i] = "files" => matches(argv[i]) # << >>
           /\ \A i \in DOMAIN argv : how[i] = "dropped" =>
                matches(argv[i]) = << >> /\ \E i2 \in DOMAIN argv : how[i2] = "files"
      BY <2>1, <3>2, <3>9, <3>11, <3>12
    <3>15. (\A i \in 2 .. Len(argv) : isOption(i) <=> i <= opt + 1) =>
             \A i \in 2 .. Len(argv) :
               (matches(argv[i]) # << >> => how[i] = "files") /\ (isOption(i) => how[i] = "typed")
      BY <3>13
    <3> HIDE DEF how, k, m
    <3> QED BY <1>1, <1>3, <3>14, <3>15
  <2> QED BY <2>3, <2>4
<1>4. CommandsInv => ArgumentsArrive
  <2> SUFFICES ASSUME CommandsInv, doing = "exec" PROVE ArgumentsArrive
    BY DEF ArgumentsArrive
  <2>1. CASE searches
    BY <1>3, <2>1
  <2>2. CASE ~searches
    <3>1. program.args = argv
      BY <2>2 DEF CommandsInv
    <3> QED BY <1>2, <2>2, <3>1
  <2> QED BY <2>1, <2>2
<1> QED BY <1>4, CommandsKept, PTL

-------------------------------------------------------------------------------
(***************************************************************************)
(* Strings of bits, for any length.  A call changes bits of the string     *)
(* only, and a search meets the bits in their order.                       *)
(***************************************************************************)

BitInv ==
  /\ nbits \in Nat \ {0}
  /\ name \in [0 .. bitstr_size(nbits) - 1 -> SUBSET (0 .. 7)]
  /\ isSet \subseteq 0 .. nbits - 1
  /\ start \in Nat /\ (bitOp # "none" => stopAt \in 0 .. nbits - 1)
  /\ \A b \in 0 .. nbits - 1 : bit_test(b) <=> b \in isSet

(* Every bit has its place, and no other one has the same.                 *)
LEMMA BitPlace ==
  ASSUME NEW z \in Nat \ {0}, NEW b \in 0 .. z - 1
  PROVE  /\ bit_byte(b) \in 0 .. bitstr_size(z) - 1 /\ b % 8 \in 0 .. 7
         /\ \A c \in 0 .. z - 1 : bit_byte(c) = bit_byte(b) /\ c % 8 = b % 8 => c = b
BY DEF bit_byte, bitstr_size

LEMMA BitInitInv == BitInit => BitInv
<1> SUFFICES ASSUME BitInit PROVE BitInv
  OBVIOUS
<1>1. nbits \in Nat \ {0}
  BY BitsAssumption DEF BitInit
<1>2. /\ name = [i \in 0 .. bitstr_size(nbits) - 1 |-> {}]
      /\ isSet = {} /\ bitOp = "none" /\ start = 0
  BY DEF BitInit
<1>3. \A b \in 0 .. nbits - 1 : ~bit_test(b)
  BY <1>1, <1>2, BitPlace DEF bit_test
<1> QED BY <1>1, <1>2, <1>3 DEF BitInv

(* A bit is set or cleared, and all others stay.                           *)
LEMMA BitStored ==
  ASSUME BitInv, NEW b \in 0 .. nbits - 1, nbits' = nbits
  PROVE  /\ name' = withBit(b) =>
              /\ name' \in [0 .. bitstr_size(nbits) - 1 -> SUBSET (0 .. 7)]
              /\ \A c \in 0 .. nbits - 1 : bit_test(c)' <=> c \in isSet \cup {b}
         /\ name' = withoutBit(b) =>
              /\ name' \in [0 .. bitstr_size(nbits) - 1 -> SUBSET (0 .. 7)]
              /\ \A c \in 0 .. nbits - 1 : bit_test(c)' <=> c \in isSet \ {b}
<1>1. /\ nbits \in Nat \ {0} /\ name \in [0 .. bitstr_size(nbits) - 1 -> SUBSET (0 .. 7)]
      /\ \A c \in 0 .. nbits - 1 : name[bit_byte(c)] \cap {c % 8} # {} <=> c \in isSet
  BY DEF BitInv, bit_test, bit_mask
<1>2. \A c \in 0 .. nbits - 1 :
        /\ bit_byte(c) \in 0 .. bitstr_size(nbits) - 1 /\ c % 8 \in 0 .. 7
        /\ bit_byte(c) = bit_byte(b) /\ c % 8 = b % 8 => c = b
  BY <1>1, BitPlace
<1> DEFINE y == bit_byte(b)
           x == b % 8
           D == 0 .. bitstr_size(nbits) - 1
<1>3. y \in D /\ x \in 0 .. 7
  BY <1>2
<1>4. /\ withBit(b) = [name EXCEPT ![y] = @ \cup {x}]
      /\ withoutBit(b) = [name EXCEPT ![y] = @ \ {x}]
  BY DEF withBit, withoutBit, bit_mask
<1>5. \A c : bit_test(c)' <=> name'[bit_byte(c)] \cap {c % 8} # {}
  BY DEF bit_test, bit_mask
<1> HIDE DEF y, x, D
<1>6. \A c \in 0 .. nbits - 1 :
        bit_byte(c) \in D /\ (bit_byte(c) = y /\ c % 8 = x => c = b)
  BY <1>2 DEF D, y, x
<1>7. ASSUME name' = withBit(b)
      PROVE  /\ name' \in [D -> SUBSET (0 .. 7)]
             /\ \A c \in 0 .. nbits - 1 : bit_test(c)' <=> c \in isSet \cup {b}
  <2>1. name' \in [D -> SUBSET (0 .. 7)]
    BY <1>1, <1>3, <1>4, <1>7 DEF D
  <2>2. name'[y] = name[y] \cup {x} /\ \A i \in D : i # y => name'[i] = name[i]
    BY <1>1, <1>3, <1>4, <1>7 DEF D
  <2>3. ASSUME NEW c \in 0 .. nbits - 1 PROVE bit_test(c)' <=> c \in isSet \cup {b}
    <3>1. CASE c = b
      BY <1>5, <2>2, <3>1 DEF y, x
    <3>2. CASE c # b
      BY <1>1, <1>5, <1>6, <2>2, <3>2
    <3> QED BY <3>1, <3>2
  <2> QED BY <2>1, <2>3
<1>8. ASSUME name' = withoutBit(b)
      PROVE  /\ name' \in [D -> SUBSET (0 .. 7)]
             /\ \A c \in 0 .. nbits - 1 : bit_test(c)' <=> c \in isSet \ {b}
  <2>1. name' \in [D -> SUBSET (0 .. 7)]
    BY <1>1, <1>3, <1>4, <1>8 DEF D
  <2>2. name'[y] = name[y] \ {x} /\ \A i \in D : i # y => name'[i] = name[i]
    BY <1>1, <1>3, <1>4, <1>8 DEF D
  <2>3. ASSUME NEW c \in 0 .. nbits - 1 PROVE bit_test(c)' <=> c \in isSet \ {b}
    <3>1. CASE c = b
      BY <1>5, <2>2, <3>1 DEF y, x
    <3>2. CASE c # b
      BY <1>1, <1>5, <1>6, <2>2, <3>2
    <3> QED BY <3>1, <3>2
  <2> QED BY <2>1, <2>3
<1> QED BY <1>7, <1>8 DEF D

LEMMA BitStep == BitInv /\ [BitNext]_bitVars => BitInv'
<1> SUFFICES ASSUME BitInv, [BitNext]_bitVars PROVE BitInv'
  OBVIOUS
<1>t. /\ nbits \in Nat \ {0} /\ isSet \subseteq 0 .. nbits - 1
      /\ start \in Nat /\ (bitOp # "none" => stopAt \in 0 .. nbits - 1)
  BY DEF BitInv
<1>s. ASSUME UNCHANGED <<nbits, name, isSet>>, start' \in Nat,
             bitOp' # "none" => stopAt' \in 0 .. nbits - 1
      PROVE  BitInv'
  BY <1>s DEF BitInv, bit_test, bit_byte, bit_mask, bitstr_size
<1>1. ASSUME NEW macro, NEW from \in 0 .. nbits - 1, NEW to \in 0 .. nbits - 1, BitCall(macro, from, to)
      PROVE  BitInv'
  <2>1. UNCHANGED <<nbits, name, isSet>> /\ start' = from /\ stopAt' = to
    BY <1>1 DEF BitCall
  <2>2. start' \in Nat
    BY <2>1
  <2> QED BY <1>s, <2>1, <2>2
<1>2. CASE BitSet
  <2>1. /\ bitOp # "none" /\ start <= stopAt /\ name' = withBit(start) /\ isSet' = isSet \cup {start}
        /\ start' = start + 1 /\ UNCHANGED <<nbits, bitOp, stopAt>>
    BY <1>2 DEF BitSet
  <2>2. start \in 0 .. nbits - 1
    BY <1>t, <2>1
  <2>3. /\ name' \in [0 .. bitstr_size(nbits) - 1 -> SUBSET (0 .. 7)]
        /\ \A c \in 0 .. nbits - 1 : bit_test(c)' <=> c \in isSet \cup {start}
    BY <2>1, <2>2, BitStored
  <2>4. bitstr_size(nbits)' = bitstr_size(nbits)
    BY <2>1 DEF bitstr_size
  <2> QED BY <1>t, <2>1, <2>2, <2>3, <2>4 DEF BitInv
<1>3. CASE BitClear
  <2>1. /\ bitOp # "none" /\ start <= stopAt /\ name' = withoutBit(start) /\ isSet' = isSet \ {start}
        /\ start' = start + 1 /\ UNCHANGED <<nbits, bitOp, stopAt>>
    BY <1>3 DEF BitClear
  <2>2. start \in 0 .. nbits - 1
    BY <1>t, <2>1
  <2>3. /\ name' \in [0 .. bitstr_size(nbits) - 1 -> SUBSET (0 .. 7)]
        /\ \A c \in 0 .. nbits - 1 : bit_test(c)' <=> c \in isSet \ {start}
    BY <2>1, <2>2, BitStored
  <2>4. bitstr_size(nbits)' = bitstr_size(nbits)
    BY <2>1 DEF bitstr_size
  <2> QED BY <1>t, <2>1, <2>2, <2>3, <2>4 DEF BitInv
<1>4. CASE BitDone
  BY <1>4, <1>s DEF BitDone
<1>5. CASE UNCHANGED bitVars
  BY <1>5, <1>s, <1>t DEF bitVars
<1> QED BY <1>1, <1>2, <1>3, <1>4, <1>5 DEF BitNext

LEMMA BitKept == BitSpec => []BitInv
BY BitInitInv, BitStep, PTL DEF BitSpec

(* What the recursion of firstBit() computes, from bit a on.               *)
IsSearch(g, a, z, W) ==
  g = [b \in a .. z |-> IF b = z THEN -1 ELSE IF b \in W THEN b ELSE g[b + 1]]

LEMMA SearchExists ==
  ASSUME NEW z \in Nat, NEW W
  PROVE  \E g : IsSearch(g, 0, z, W)
<1> DEFINE S == {k \in 1 .. z + 1 : \E g : IsSearch(g, (z + 1) - k, z, W)}
<1>1. 1 \in S
  <2> DEFINE g == [b \in z .. z |-> -1]
  <2>1. (z + 1) - 1 = z
    OBVIOUS
  <2>2. IsSearch(g, z, z, W)
    BY DEF IsSearch
  <2> QED BY <2>1, <2>2
<1>2. ASSUME NEW k \in 1 .. (z + 1) - 1, k \in S PROVE k + 1 \in S
  <2> DEFINE a == (z + 1) - (k + 1)
  <2>1. a \in Int /\ a < z /\ (z + 1) - k = a + 1 /\ k + 1 \in 1 .. z + 1
    OBVIOUS
  <2>2. PICK h : IsSearch(h, a + 1, z, W)
    BY <1>2, <2>1
  <2> HIDE DEF a
  <2> DEFINE g == [b \in a .. z |-> IF b = a THEN IF a \in W THEN a ELSE h[a + 1] ELSE h[b]]
  <2>3. ASSUME NEW b \in a .. z
        PROVE  g[b] = IF b = z THEN -1 ELSE IF b \in W THEN b ELSE g[b + 1]
    <3>1. CASE b = a
      <4>1. b # z /\ a + 1 \in a .. z /\ a + 1 # a
        BY <2>1, <3>1
      <4> QED BY <3>1, <4>1
    <3>2. CASE b # a
      <4>1. b \in a + 1 .. z /\ (b # z => b + 1 \in a .. z /\ b + 1 # a)
        BY <2>1, <3>2
      <4>2. h[b] = IF b = z THEN -1 ELSE IF b \in W THEN b ELSE h[b + 1]
        BY <2>2, <4>1 DEF IsSearch
      <4>3. g[b] = h[b] /\ (b # z => g[b + 1] = h[b + 1])
        BY <3>2, <4>1
      <4> HIDE DEF g
      <4> QED BY <4>2, <4>3
    <3> QED BY <3>1, <3>2
  <2>4. g = [b \in a .. z |-> g[b]]
    OBVIOUS
  <2> HIDE DEF g
  <2>5. IsSearch(g, a, z, W)
    BY <2>3, <2>4 DEF IsSearch
  <2> QED BY <2>1, <2>5 DEF a
<1>3. 1 .. z + 1 \subseteq S
  <2> HIDE DEF S
  <2> QED BY <1>1, <1>2, UpTo
<1>4. z + 1 \in S /\ (z + 1) - (z + 1) = 0
  BY <1>3
<1> QED BY <1>4

(* The search stops at the first bit of W, or beyond the last one.         *)
LEMMA SearchFinds ==
  ASSUME NEW z \in Nat, NEW W \in SUBSET (0 .. z - 1), NEW g, IsSearch(g, 0, z, W)
  PROVE  isFirst(g[0], W)
<1> DEFINE found(b) == \/ g[b] = -1 /\ \A c \in W : c < b
                       \/ g[b] \in W /\ \A c \in W : c >= b => g[b] <= c
           S == {k \in 1 .. z + 1 : found((z + 1) - k)}
<1>1. \A b \in 0 .. z : g[b] = IF b = z THEN -1 ELSE IF b \in W THEN b ELSE g[b + 1]
  BY DEF IsSearch
<1>2. 1 \in S
  <2>1. (z + 1) - 1 = z /\ 1 \in 1 .. z + 1 /\ z \in 0 .. z
    OBVIOUS
  <2>2. g[z] = -1 /\ \A c \in W : c < z
    BY <1>1, <2>1
  <2> QED BY <2>1, <2>2
<1>3. ASSUME NEW k \in 1 .. (z + 1) - 1, k \in S PROVE k + 1 \in S
  <2> DEFINE b == (z + 1) - (k + 1)
  <2>1. b \in 0 .. z /\ b # z /\ (z + 1) - k = b + 1 /\ k + 1 \in 1 .. z + 1
    OBVIOUS
  <2>2. found(b + 1)
    BY <1>3, <2>1
  <2> HIDE DEF b
  <2>3. g[b] = IF b \in W THEN b ELSE g[b + 1]
    BY <1>1, <2>1
  <2>4. \A c \in W : c \in Int /\ (c < b + 1 => c < b \/ c = b) /\ (c >= b => c >= b + 1 \/ c = b)
    BY <2>1
  <2>5. found(b)
    <3>1. CASE b \in W
      BY <2>3, <2>1, <3>1
    <3>2. CASE b \notin W
      BY <2>2, <2>3, <2>4, <3>2
    <3> QED BY <3>1, <3>2
  <2> QED BY <2>1, <2>5 DEF b
<1>4. 1 .. z + 1 \subseteq S
  <2> HIDE DEF S
  <2> QED BY <1>2, <1>3, UpTo
<1>5. found(0)
  <2>1. z + 1 \in S /\ (z + 1) - (z + 1) = 0
    BY <1>4
  <2> QED BY <2>1
<1>6. \A c \in W : c >= 0 /\ ~(c < 0)
  OBVIOUS
<1>7. CASE W = {}
  BY <1>5, <1>7 DEF isFirst
<1>8. CASE W # {}
  <2>1. g[0] \in W /\ \A c \in W : g[0] <= c
    BY <1>5, <1>6, <1>8
  <2> QED BY <1>8, <2>1 DEF isFirst
<1> QED BY <1>7, <1>8

LEMMA FirstBit ==
  ASSUME NEW wanted \in BOOLEAN, nbits \in Nat
  PROVE  isFirst(firstBit(wanted), {b \in 0 .. nbits - 1 : bit_test(b) = wanted})
<1> DEFINE z == nbits
           W == {b \in 0 .. z - 1 : bit_test(b) = wanted}
           body(h) == [b \in 0 .. nbits |-> IF b = nbits THEN -1
                                           ELSE IF bit_test(b) = wanted THEN b ELSE h[b + 1]]
           g == CHOOSE h : h = body(h)
<1>1. ASSUME NEW h PROVE IsSearch(h, 0, z, W) <=> h = body(h)
  <2>1. \A b \in 0 .. z : b # z => (b \in W <=> bit_test(b) = wanted)
    OBVIOUS
  <2> HIDE DEF W
  <2>2. [b \in 0 .. z |-> IF b = z THEN -1 ELSE IF b \in W THEN b ELSE h[b + 1]] = body(h)
    BY <2>1
  <2> QED BY <2>2 DEF IsSearch
<1>2. \E h : h = body(h)
  <2>1. \E h : IsSearch(h, 0, z, W)
    <3> HIDE DEF W
    <3> QED BY SearchExists
  <2> HIDE DEF body, W, z
  <2> QED BY <1>1, <2>1
<1>3. g = body(g)
  <2> HIDE DEF body
  <2> QED BY <1>2
<1>4. firstBit(wanted) = g[0]
  BY DEF firstBit
<1>5. IsSearch(g, 0, z, W)
  <2> HIDE DEF g, body, W, z
  <2> QED BY <1>1, <1>3
<1> HIDE DEF g
<1> QED BY <1>4, <1>5, SearchFinds

(* The bytes hold the bits that were set and not cleared since, and the    *)
(* first set and the first clear bit are found, for any number of bits     *)
(* (bitstring.h).                                                          *)
THEOREM BitsKept == BitSpec => []BitsAgree
<1>1. BitInv => BitsAgree
  <2> SUFFICES ASSUME BitInv PROVE BitsAgree
    OBVIOUS
  <2>1. /\ nbits \in Nat \ {0} /\ isSet \subseteq 0 .. nbits - 1
        /\ \A b \in 0 .. nbits - 1 : bit_test(b) <=> b \in isSet
    BY DEF BitInv
  <2>2. /\ {b \in 0 .. nbits - 1 : bit_test(b) = TRUE} = isSet
        /\ {b \in 0 .. nbits - 1 : bit_test(b) = FALSE} = (0 .. nbits - 1) \ isSet
    BY <2>1 DEF bit_test
  <2>3. isFirst(bit_ffs, isSet) /\ isFirst(bit_ffc, (0 .. nbits - 1) \ isSet)
    BY <2>1, <2>2, FirstBit DEF bit_ffs, bit_ffc
  <2> QED BY <2>1, <2>3 DEF BitsAgree
<1> QED BY <1>1, BitKept, PTL

-------------------------------------------------------------------------------
(***************************************************************************)
(* Printing that a signal handler may call.  Of the numbers: the digits of *)
(* a numeral are the only ones with its value and without a leading zero,  *)
(* and a conversion prints them for every number of its width.  Of the     *)
(* format: the pointer is always between two items, inside the conversion  *)
(* of the next one, or in the copied rest, and what is left of the         *)
(* arguments belongs to the items that are left.                           *)
(***************************************************************************)
Bases == {10, 16}
DigitChars == {Digits[d] : d \in 1 .. 16}

LEMMA DivideBy ==
  ASSUME NEW base \in Bases, NEW x \in Nat
  PROVE  /\ x \div base \in Nat /\ x % base \in 0 .. base - 1 /\ x % base \in 0 .. 15
         /\ x = ((x \div base) * base) + (x % base)
         /\ x >= base => x \div base < x /\ x \div base # 0
         /\ x < base => x % base = x
<1>1. /\ x \div 10 \in Nat /\ x % 10 \in 0 .. 9
      /\ x = ((x \div 10) * 10) + (x % 10)
  OBVIOUS
<1>2. /\ x \div 16 \in Nat /\ x % 16 \in 0 .. 15
      /\ x = ((x \div 16) * 16) + (x % 16)
  OBVIOUS
<1>3. CASE base = 10
  <2> DEFINE d == x \div 10
             r == x % 10
  <2> HIDE DEF d, r
  <2>1. d \in Nat /\ r \in 0 .. 9 /\ x = (d * 10) + r
    BY <1>1 DEF d, r
  <2>2. d \in Nat /\ r \in 0 .. 10 - 1 /\ r \in 0 .. 15 /\ (x >= 10 => d < x /\ d # 0) /\ (x < 10 => r = x)
    BY <2>1
  <2> QED BY <2>1, <2>2, <1>3 DEF d, r
<1>4. CASE base = 16
  <2> DEFINE d == x \div 16
             r == x % 16
  <2> HIDE DEF d, r
  <2>1. d \in Nat /\ r \in 0 .. 15 /\ x = (d * 16) + r
    BY <1>2 DEF d, r
  <2>2. r \in 0 .. 16 - 1 /\ (x >= 16 => d < x /\ d # 0) /\ (x < 16 => r = x)
    BY <2>1
  <2> QED BY <2>1, <2>2, <1>4 DEF d, r
<1> QED BY <1>3, <1>4 DEF Bases

LEMMA DigitsDiffer ==
  \A d \in 1 .. 16 : /\ Digits[d] \in DigitChars /\ digitOf(Digits[d]) = d - 1
                     /\ Digits[d] = "0" <=> d = 1
<1>1. \A d \in 1 .. 16 : \/ d = 1 \/ d = 2 \/ d = 3 \/ d = 4 \/ d = 5 \/ d = 6 \/ d = 7 \/ d = 8
                         \/ d = 9 \/ d = 10 \/ d = 11 \/ d = 12 \/ d = 13 \/ d = 14 \/ d = 15 \/ d = 16
  OBVIOUS
<1>2. /\ Digits[1] = "0" /\ Digits[2] = "1" /\ Digits[3] = "2" /\ Digits[4] = "3"
      /\ Digits[5] = "4" /\ Digits[6] = "5" /\ Digits[7] = "6" /\ Digits[8] = "7"
      /\ Digits[9] = "8" /\ Digits[10] = "9" /\ Digits[11] = "a" /\ Digits[12] = "b"
      /\ Digits[13] = "c" /\ Digits[14] = "d" /\ Digits[15] = "e" /\ Digits[16] = "f"
  BY DEF Digits
<1>3. ASSUME NEW d \in 1 .. 16, NEW e \in 1 .. 16, Digits[d] = Digits[e] PROVE d = e
  BY <1>1, <1>2, <1>3
<1>4. ASSUME NEW d \in 1 .. 16 PROVE digitOf(Digits[d]) = d - 1
  <2>1. (CHOOSE e \in 1 .. 16 : Digits[e] = Digits[d]) = d
    <3> DEFINE e == CHOOSE e \in 1 .. 16 : Digits[e] = Digits[d]
    <3>1. e \in 1 .. 16 /\ Digits[e] = Digits[d]
      OBVIOUS
    <3> HIDE DEF e
    <3>2. e = d
      BY <1>3, <3>1
    <3> QED BY <3>2 DEF e
  <2> QED BY <2>1, Zenon DEF digitOf
<1>5. \A d \in 1 .. 16 : Digits[d] \in DigitChars
  BY DEF DigitChars
<1>6. ASSUME NEW d \in 1 .. 16 PROVE Digits[d] = "0" <=> d = 1
  <2>1. 1 \in 1 .. 16
    OBVIOUS
  <2> QED BY <1>3, <1>2, <2>1
<1> QED BY <1>4, <1>5, <1>6

(* The digits of a number, the least significant one first: the recursion   *)
(* of nbuf exists.                                                         *)
prefixed(x, base, text) == <<Digits[(x % base) + 1]>> \o text

IsDigits(g, base, m) ==
  g = [x \in 0 .. m |-> prefixed(x, base, IF x < base THEN << >> ELSE g[x \div base])]

LEMMA DigitsExist ==
  ASSUME NEW base \in Bases, NEW m \in Nat
  PROVE  \E g : IsDigits(g, base, m)
<1> DEFINE S == {k \in 1 .. m + 1 : \E g : IsDigits(g, base, k - 1)}
<1>1. 1 \in S
  <2> DEFINE g == [x \in 0 .. 0 |-> prefixed(x, base, << >>)]
  <2>1. \A x \in 0 .. 0 : x < base
    BY DEF Bases
  <2>2. g = [x \in 0 .. 0 |-> prefixed(x, base, IF x < base THEN << >> ELSE g[x \div base])]
    BY <2>1
  <2>3. IsDigits(g, base, 1 - 1)
    BY <2>2 DEF IsDigits
  <2> HIDE DEF g
  <2> QED BY <2>3
<1>2. ASSUME NEW k \in 1 .. m, k \in S PROVE k + 1 \in S
  <2>1. PICK h : IsDigits(h, base, k - 1)
    BY <1>2
  <2> DEFINE g == [x \in 0 .. k |->
                     IF x = k THEN prefixed(x, base, IF x < base THEN << >> ELSE h[x \div base])
                     ELSE h[x]]
  <2>2. ASSUME NEW x \in 0 .. k
        PROVE  g[x] = prefixed(x, base, IF x < base THEN << >> ELSE g[x \div base])
    <3>1. x >= base => x \div base \in 0 .. k - 1 /\ x \div base # k /\ x \div base \in 0 .. k
      BY DivideBy
    <3>2. x >= base => g[x \div base] = h[x \div base]
      BY <3>1
    <3>3. g[x] = prefixed(x, base, IF x < base THEN << >> ELSE h[x \div base])
      <4>1. CASE x = k
        BY <4>1
      <4>2. CASE x # k
        <5>1. x \in 0 .. k - 1
          BY <4>2
        <5>2. h[x] = prefixed(x, base, IF x < base THEN << >> ELSE h[x \div base])
          BY <2>1, <5>1 DEF IsDigits
        <5> QED BY <4>2, <5>2
      <4> QED BY <4>1, <4>2
    <3>4. x < base \/ x >= base
      BY DEF Bases
    <3> HIDE DEF g
    <3> QED BY <3>2, <3>3, <3>4
  <2>3. DOMAIN g = 0 .. k /\ g = [x \in 0 .. k |-> g[x]]
    OBVIOUS
  <2> HIDE DEF g
  <2>4. g = [x \in 0 .. k |-> prefixed(x, base, IF x < base THEN << >> ELSE g[x \div base])]
    BY <2>2, <2>3
  <2>5. IsDigits(g, base, (k + 1) - 1)
    BY <2>4 DEF IsDigits
  <2> QED BY <2>5
<1>3. 1 .. m + 1 \subseteq S
  <2>1. \A k \in 1 .. (m + 1) - 1 : k \in S => k + 1 \in S
    BY <1>2
  <2> HIDE DEF S
  <2> QED BY <1>1, <2>1, UpTo
<1> QED BY <1>3

LEMMA PrintConstants ==
  /\ LongHalf \in Nat \ {0} /\ LongValues \in Nat /\ IntValues \in Nat \ {0}
  /\ LongValues \in Nat \ {0} /\ IntValues <= LongValues
  /\ Ints \subseteq -LongHalf .. LongHalf - 1 /\ Longs \subseteq -LongHalf .. LongHalf - 1
BY PrintAssumption DEF LongValues, IntValues

LEMMA DigitSteps ==
  ASSUME NEW base \in Bases, NEW x \in 0 .. LongValues
  PROVE  nbuf(base)[x] = prefixed(x, base, IF x < base THEN << >> ELSE nbuf(base)[x \div base])
<1> DEFINE g == CHOOSE g : IsDigits(g, base, LongValues)
<1>1. IsDigits(g, base, LongValues)
  BY PrintConstants, DigitsExist
<1>2. nbuf(base) = g
  BY Zenon DEF nbuf, IsDigits, prefixed
<1> HIDE DEF g
<1> QED BY <1>1, <1>2 DEF IsDigits

-------------------------------------------------------------------------------
(* The value of a numeral.                                                 *)
shifted10(v, base, c) == (v * base) + digitOf(c)

IsValue(v, base, text, m) ==
  v = [x \in 0 .. m |-> IF x = 0 THEN 0 ELSE shifted10(v[x - 1], base, text[x])]

LEMMA ValueExists ==
  ASSUME NEW base, NEW text, NEW m \in Nat
  PROVE  \E v : IsValue(v, base, text, m)
<1> DEFINE S == {k \in 1 .. m + 1 : \E v : IsValue(v, base, text, k - 1)}
<1>1. 1 \in S
  <2> DEFINE v == [x \in 0 .. 0 |-> 0]
  <2>1. v = [x \in 0 .. 0 |-> IF x = 0 THEN 0 ELSE shifted10(v[x - 1], base, text[x])]
    OBVIOUS
  <2>2. IsValue(v, base, text, 1 - 1)
    BY <2>1 DEF IsValue
  <2> HIDE DEF v
  <2> QED BY <2>2
<1>2. ASSUME NEW k \in 1 .. m, k \in S PROVE k + 1 \in S
  <2>1. PICK h : IsValue(h, base, text, k - 1)
    BY <1>2
  <2> DEFINE v == [x \in 0 .. k |-> IF x = k THEN shifted10(h[x - 1], base, text[x]) ELSE h[x]]
  <2>2. ASSUME NEW x \in 0 .. k
        PROVE  v[x] = IF x = 0 THEN 0 ELSE shifted10(v[x - 1], base, text[x])
    <3>1. x # 0 => x - 1 \in 0 .. k - 1 /\ x - 1 # k /\ x - 1 \in 0 .. k
      OBVIOUS
    <3>2. x # 0 => v[x - 1] = h[x - 1]
      BY <3>1
    <3>3. v[x] = IF x = 0 THEN 0 ELSE shifted10(h[x - 1], base, text[x])
      <4>1. CASE x = k
        BY <4>1
      <4>2. CASE x # k
        <5>1. x \in 0 .. k - 1
          BY <4>2
        <5>2. h[x] = IF x = 0 THEN 0 ELSE shifted10(h[x - 1], base, text[x])
          BY <2>1, <5>1 DEF IsValue
        <5> QED BY <4>2, <5>2
      <4> QED BY <4>1, <4>2
    <3> HIDE DEF v
    <3> QED BY <3>2, <3>3
  <2>3. DOMAIN v = 0 .. k /\ v = [x \in 0 .. k |-> v[x]]
    OBVIOUS
  <2> HIDE DEF v
  <2>4. v = [x \in 0 .. k |-> IF x = 0 THEN 0 ELSE shifted10(v[x - 1], base, text[x])]
    BY <2>2, <2>3
  <2>5. IsValue(v, base, text, (k + 1) - 1)
    BY <2>4 DEF IsValue
  <2> QED BY <2>5
<1>3. 1 .. m + 1 \subseteq S
  <2>1. \A k \in 1 .. (m + 1) - 1 : k \in S => k + 1 \in S
    BY <1>2
  <2> HIDE DEF S
  <2> QED BY <1>1, <2>1, UpTo
<1> QED BY <1>3

LEMMA ValueSteps ==
  ASSUME NEW base, NEW V, NEW text \in Seq(V)
  PROVE  \E v : /\ value(text, base) = v[Len(text)] /\ v[0] = 0
                /\ \A x \in 1 .. Len(text) : v[x] = shifted10(v[x - 1], base, text[x])
<1> DEFINE v == CHOOSE v : IsValue(v, base, text, Len(text))
<1>1. Len(text) \in Nat
  OBVIOUS
<1>2. IsValue(v, base, text, Len(text))
  BY <1>1, ValueExists
<1>3. value(text, base) = v[Len(text)]
  BY Zenon DEF value, IsValue, shifted10
<1> HIDE DEF v
<1>4. v[0] = 0 /\ \A x \in 1 .. Len(text) : v[x] = shifted10(v[x - 1], base, text[x])
  BY <1>1, <1>2 DEF IsValue
<1> QED BY <1>3, <1>4

LEMMA ValueAppended ==
  ASSUME NEW base, NEW V, NEW text \in Seq(V), NEW c \in V
  PROVE  value(Append(text, c), base) = shifted10(value(text, base), base, c)
<1> DEFINE t == Append(text, c)
           m == Len(text)
<1>1. t \in Seq(V) /\ Len(t) = m + 1 /\ t[m + 1] = c /\ (\A x \in 1 .. m : t[x] = text[x]) /\ m \in Nat
  OBVIOUS
<1>2. PICK v : /\ value(text, base) = v[Len(text)] /\ v[0] = 0
               /\ \A x \in 1 .. Len(text) : v[x] = shifted10(v[x - 1], base, text[x])
  BY ValueSteps
<1> HIDE DEF t, m
<1>3. PICK w : /\ value(t, base) = w[Len(t)] /\ w[0] = 0
               /\ \A x \in 1 .. Len(t) : w[x] = shifted10(w[x - 1], base, t[x])
  <2>1. t \in Seq(V)
    BY <1>1
  <2>2. \A u \in Seq(V) :
          \E w : /\ value(u, base) = w[Len(u)] /\ w[0] = 0
                /\ \A x \in 1 .. Len(u) : w[x] = shifted10(w[x - 1], base, u[x])
    BY ValueSteps
  <2> QED BY <2>1, <2>2
<1> DEFINE S == {k \in 1 .. m + 1 : v[k - 1] = w[k - 1]}
<1>4. 1 \in S
  <2>1. 1 \in 1 .. m + 1 /\ 1 - 1 = 0
    BY <1>1
  <2>2. v[1 - 1] = w[1 - 1]
    <3>1. v[0] = w[0]
      BY <1>2, <1>3
    <3> QED BY <2>1, <3>1
  <2> QED BY <2>1, <2>2
<1>5. ASSUME NEW k \in 1 .. (m + 1) - 1, k \in S PROVE k + 1 \in S
  <2>1. k \in 1 .. m /\ k \in 1 .. Len(t) /\ (k + 1) - 1 = k /\ k + 1 \in 1 .. m + 1
    <3>1. m \in Nat /\ Len(t) = m + 1
      BY <1>1
    <3>2. k \in 1 .. m /\ k \in 1 .. m + 1 /\ (k + 1) - 1 = k /\ k + 1 \in 1 .. m + 1
      BY <3>1
    <3> QED BY <3>1, <3>2
  <2>2. v[k] = shifted10(v[k - 1], base, text[k]) /\ w[k] = shifted10(w[k - 1], base, t[k])
    BY <1>2, <1>3, <2>1 DEF m
  <2>3. v[k - 1] = w[k - 1] /\ text[k] = t[k]
    BY <1>1, <1>5, <2>1
  <2> QED BY <2>1, <2>2, <2>3
<1>6. 1 .. m + 1 \subseteq S
  <2>1. m + 1 \in Nat
    BY <1>1
  <2> HIDE DEF S
  <2> QED BY <2>1, <1>4, <1>5, UpTo
<1>7. m + 1 \in 1 .. m + 1 /\ (m + 1) - 1 = m /\ m + 1 \in 1 .. Len(t)
  BY <1>1
<1>8. v[m] = w[m]
  BY <1>6, <1>7
<1>9. w[m + 1] = shifted10(w[m], base, t[m + 1])
  BY <1>3, <1>7
<1> QED BY <1>1, <1>2, <1>3, <1>8, <1>9 DEF t, m

-------------------------------------------------------------------------------
(* The last digits first, and turned round.                                *)
LEMMA ReversePrefixed ==
  ASSUME NEW V, NEW text \in Seq(V), NEW c \in V
  PROVE  Reverse(<<c>> \o text) = Append(Reverse(text), c) /\ Reverse(text) \in Seq(V)
         /\ Len(Reverse(text)) = Len(text)
<1> DEFINE t == <<c>> \o text
           m == Len(text)
           r == Reverse(text)
<1>1. m \in Nat /\ (\A x \in 1 .. m : text[x] \in V)
  OBVIOUS
<1>2. t \in Seq(V) /\ Len(t) = m + 1 /\ t[1] = c /\ \A x \in 1 .. m : t[x + 1] = text[x]
  OBVIOUS
<1>3. r = [x \in 1 .. m |-> text[(m - x) + 1]]
  BY DEF Reverse
<1>4. Reverse(t) = [x \in 1 .. Len(t) |-> t[(Len(t) - x) + 1]]
  BY DEF Reverse
<1> HIDE DEF t, m, r
<1>5. r \in [1 .. m -> V] /\ r \in Seq(V) /\ Len(r) = m
  <2>1. \A x \in 1 .. m : (m - x) + 1 \in 1 .. m
    BY <1>1
  <2>2. r \in [1 .. m -> V]
    BY <1>1, <1>3, <2>1 DEF m
  <2> QED BY <1>1, <2>2
<1>6. Append(r, c) \in Seq(V) /\ Len(Append(r, c)) = m + 1 /\ Append(r, c)[m + 1] = c
      /\ \A x \in 1 .. m : Append(r, c)[x] = r[x]
  BY <1>5
<1>7. Reverse(t) \in Seq(V) /\ Len(Reverse(t)) = m + 1
      /\ \A x \in 1 .. m + 1 : Reverse(t)[x] = t[((m + 1) - x) + 1]
  <2>1. \A x \in 1 .. m + 1 : ((m + 1) - x) + 1 \in 1 .. m + 1
    BY <1>1
  <2>2. Reverse(t) = [x \in 1 .. m + 1 |-> t[((m + 1) - x) + 1]]
    BY <1>2, <1>4
  <2>3. \A x \in 1 .. m + 1 : t[x] \in V
    BY <1>2
  <2>4. Reverse(t) \in [1 .. m + 1 -> V]
    BY <2>1, <2>2, <2>3
  <2> QED BY <1>1, <2>2, <2>4
<1>8. ASSUME NEW x \in 1 .. m + 1 PROVE Reverse(t)[x] = Append(r, c)[x]
  <2>1. CASE x = m + 1
    <3>1. ((m + 1) - x) + 1 = 1
      BY <2>1, <1>1
    <3> QED BY <2>1, <3>1, <1>2, <1>6, <1>7
  <2>2. CASE x \in 1 .. m
    <3>1. (m - x) + 1 \in 1 .. m /\ ((m + 1) - x) + 1 = ((m - x) + 1) + 1
      BY <2>2, <1>1
    <3>2. t[((m - x) + 1) + 1] = text[(m - x) + 1]
      BY <1>2, <3>1
    <3>3. Append(r, c)[x] = text[(m - x) + 1]
      BY <1>3, <1>6, <2>2
    <3> QED BY <3>1, <3>2, <3>3, <1>7
  <2>3. x = m + 1 \/ x \in 1 .. m
    <3>1. m \in Nat
      BY <1>1
    <3> QED BY <3>1
  <2> QED BY <2>1, <2>2, <2>3, Zenon
<1>9. Reverse(t) = Append(r, c)
  BY <1>6, <1>7, <1>8, SeqEqual
<1> QED BY <1>5, <1>9 DEF t, r, m

(* print_num() writes the numeral of a number.                             *)
Numeral(x, base) ==
  LET text == print_num(x, base)
  IN  /\ text \in Seq(DigitChars) /\ Len(text) > 0
      /\ value(text, base) = x
      /\ x # 0 => text[1] # "0"
      /\ x < base => Len(text) = 1

LEMMA NumeralPrinted ==
  ASSUME NEW base \in Bases, NEW x \in 0 .. LongValues
  PROVE  Numeral(x, base)
<1> DEFINE S == {y \in 0 .. LongValues : ~(Numeral(y, base) /\ nbuf(base)[y] \in Seq(DigitChars))}
<1>1. SUFFICES ASSUME S # {} PROVE FALSE
  OBVIOUS
<1>2. PICK y \in S : \A z \in S : y <= z
  <2>1. S \subseteq Nat
    BY PrintConstants
  <2> HIDE DEF S
  <2> QED BY <1>1, <2>1, LeastNumber
<1> DEFINE c == Digits[(y % base) + 1]
           h == y \div base
           text == print_num(y, base)
<1>3. y \in Nat /\ y \in 0 .. LongValues
  BY PrintConstants
<1>4. c \in DigitChars /\ digitOf(c) = y % base /\ (c = "0" <=> y % base = 0)
  <2>1. y % base \in 0 .. 15
    BY <1>3, DivideBy
  <2>2. (y % base) + 1 \in 1 .. 16 /\ ((y % base) + 1) - 1 = y % base
    BY <2>1
  <2>3. (y % base) + 1 = 1 <=> y % base = 0
    BY <2>1
  <2> QED BY <2>2, <2>3, DigitsDiffer
<1>5. h \in Nat /\ y = (h * base) + (y % base) /\ (y >= base => h < y /\ h # 0)
      /\ (y < base => y % base = y)
  BY <1>3, DivideBy
<1>6. nbuf(base)[y] = <<c>> \o (IF y < base THEN << >> ELSE nbuf(base)[h])
  BY <1>3, DigitSteps DEF prefixed
<1>7. text = Reverse(nbuf(base)[y])
  BY DEF print_num
<1> HIDE DEF c, h, text
<1>8. CASE y < base
  <2>1. nbuf(base)[y] = <<c>> \o << >> /\ << >> \in Seq(DigitChars)
    BY <1>6, <1>8
  <2>2. text = Append(Reverse(<< >>), c)
    BY <2>1, <1>4, <1>7, ReversePrefixed
  <2>3. Reverse(<< >>) = << >>
    BY DEF Reverse
  <2>4. value(Append(<< >>, c), base) = shifted10(value(<< >>, base), base, c)
    BY <1>4, ValueAppended, << >> \in Seq(DigitChars)
  <2>5. value(<< >>, base) = 0
    BY ValueSteps, << >> \in Seq(DigitChars), Len(<< >>) = 0
  <2>6. shifted10(0, base, c) = digitOf(c)
    BY <1>3, <1>4, <1>5, <1>8 DEF shifted10, Bases
  <2>7. value(text, base) = y
    BY <2>2, <2>3, <2>4, <2>5, <2>6, <1>4, <1>5, <1>8
  <2>8. text = <<c>>
    <3>1. text = Append(<< >>, c)
      BY <2>2, <2>3
    <3>2. Append(<< >>, c) = <<c>>
      OBVIOUS
    <3> QED BY <3>1, <3>2
  <2>9. Numeral(y, base)
    BY <2>7, <2>8, <1>4, <1>5, <1>8 DEF Numeral, text
  <2>10. nbuf(base)[y] \in Seq(DigitChars)
    BY <2>1, <1>4
  <2> QED BY <2>9, <2>10
<1>9. CASE y >= base
  <2>1. h \in 0 .. LongValues /\ h \notin S
    BY <1>2, <1>3, <1>5, <1>9, PrintConstants
  <2> DEFINE d == nbuf(base)[h]
             upper == print_num(h, base)
  <2>2. Numeral(h, base) /\ d \in Seq(DigitChars)
    BY <2>1
  <2>3. upper = Reverse(d)
    BY DEF print_num
  <2>4. upper \in Seq(DigitChars) /\ Len(upper) > 0 /\ value(upper, base) = h /\ upper[1] # "0"
    BY <2>2, <1>5, <1>9 DEF Numeral
  <2>5. nbuf(base)[y] = <<c>> \o d
    <3>1. ~(y < base)
      BY <1>3, <1>9 DEF Bases
    <3> QED BY <3>1, <1>6
  <2> HIDE DEF d, upper
  <2>6. text = Append(upper, c)
    BY <2>2, <2>3, <2>5, <1>4, <1>7, ReversePrefixed
  <2>7. value(text, base) = shifted10(h, base, c)
    BY <2>4, <2>6, <1>4, ValueAppended
  <2>8. value(text, base) = y
    BY <2>7, <1>4, <1>5 DEF shifted10
  <2>9. text \in Seq(DigitChars) /\ Len(text) > 0 /\ text[1] # "0"
    BY <2>4, <2>6, <1>4
  <2>10. Numeral(y, base)
    <3>1. ~(y < base)
      BY <1>3, <1>9 DEF Bases
    <3> QED BY <2>8, <2>9, <3>1 DEF Numeral, text
  <2>11. nbuf(base)[y] \in Seq(DigitChars)
    BY <2>2, <2>5, <1>4
  <2> QED BY <2>10, <2>11
<1> QED BY <1>3, <1>8, <1>9 DEF Bases

-------------------------------------------------------------------------------
(* The text of every item.                                                 *)
LEMMA Wrapped ==
  ASSUME NEW M \in Nat \ {0}, NEW x \in Int
  PROVE  /\ x % M \in 0 .. M - 1
         /\ 0 <= x /\ x < M => x % M = x
         /\ -M <= x /\ x < 0 => x % M = x + M
OBVIOUS

PrintChars == DigitChars \cup {"a", "b", "%", "z", "c", "s", "d", "l", "x", "-"}

LEMMA NumeralTyped ==
  ASSUME NEW base \in Bases, NEW x \in 0 .. LongValues
  PROVE  /\ print_num(x, base) \in Seq(DigitChars) /\ print_num(x, base) \in Seq(PrintChars)
         /\ isNumeral(print_num(x, base), x, base)
<1> DEFINE text == print_num(x, base)
<1>1. /\ text \in Seq(DigitChars) /\ Len(text) > 0 /\ value(text, base) = x
      /\ (x # 0 => text[1] # "0") /\ (x < base => Len(text) = 1)
  BY NumeralPrinted DEF Numeral
<1>2. Len(text) > 1 => x # 0
  <2>1. 0 < base
    BY DEF Bases
  <2>2. x = 0 => Len(text) = 1
    <3>1. x = 0 => x < base
      BY <2>1
    <3> QED BY <1>1, <3>1
  <2>3. Len(text) = 1 => ~(Len(text) > 1)
    OBVIOUS
  <2> QED BY <2>2, <2>3
<1>3. text \in Seq(PrintChars)
  <2>1. DigitChars \subseteq PrintChars
    BY DEF PrintChars
  <2> HIDE DEF text
  <2> QED BY <1>1, <2>1
<1> QED BY <1>1, <1>2, <1>3 DEF isNumeral

LEMMA NumberSigned ==
  ASSUME NEW x \in -LongHalf .. LongHalf - 1
  PROVE  number(x, 10) = IF x < 0 THEN <<"-">> \o print_num(-x, 10) ELSE print_num(x, 10)
<1>1. LongHalf \in Nat \ {0} /\ LongValues = 2 * LongHalf /\ x \in Int
  BY PrintConstants DEF LongValues
<1> DEFINE m == wide(x, lflag, TRUE)
<1>2. m = x % LongValues
  BY DEF wide
<1>3. m = IF x < 0 THEN x + LongValues ELSE x
  <2>1. /\ 0 <= x /\ x < LongValues => x % LongValues = x
        /\ -LongValues <= x /\ x < 0 => x % LongValues = x + LongValues
    BY <1>1, PrintConstants, Wrapped
  <2> HIDE DEF m
  <2> QED BY <1>1, <1>2, <2>1
<1> HIDE DEF m
<1>4. m >= LongHalf <=> x < 0
  BY <1>1, <1>3
<1>5. magnitude(m, x < 0) = IF x < 0 THEN -x ELSE x
  <2>1. CASE x < 0
    <3> DEFINE y == -m
    <3>1. y \in Int /\ -LongValues <= y /\ y < 0 /\ y + LongValues = -x
      BY <1>1, <1>3, <2>1
    <3> HIDE DEF y
    <3>2. y % LongValues = -x
      BY <3>1, PrintConstants, Wrapped
    <3> QED BY <2>1, <3>2 DEF magnitude, y
  <2>2. CASE ~(x < 0)
    BY <1>3, <2>2 DEF magnitude
  <2> QED BY <2>1, <2>2
<1>6. magnitude(m, x < 0) \in 0 .. LongValues /\ 10 \in Bases
  BY <1>1, <1>5 DEF Bases
<1> DEFINE neg == TRUE /\ m >= LongHalf
           p == print_num(magnitude(m, neg), 10)
<1>7. neg <=> x < 0
  BY <1>4
<1>8. number(x, 10) = (IF neg THEN <<"-">> ELSE << >>) \o << >> \o p
  <2>1. (10 = 10) = TRUE /\ ~(10 = 16)
    OBVIOUS
  <2> QED BY <2>1 DEF number, m
<1>9. p = print_num(IF x < 0 THEN -x ELSE x, 10) /\ p \in Seq(DigitChars)
  <2>1. magnitude(m, neg) = IF x < 0 THEN -x ELSE x
    BY <1>5, <1>7 DEF magnitude
  <2>2. (IF x < 0 THEN -x ELSE x) \in 0 .. LongValues
    BY <1>5, <1>6
  <2> QED BY <2>1, <2>2, <1>6, NumeralTyped
<1> HIDE DEF neg, p
<1>10. CASE x < 0
  <2>1. number(x, 10) = <<"-">> \o << >> \o p
    BY <1>7, <1>8, <1>10
  <2>2. <<"-">> \o << >> \o p = <<"-">> \o p
    BY <1>9
  <2> QED BY <2>1, <2>2, <1>9, <1>10
<1>11. CASE ~(x < 0)
  <2>1. number(x, 10) = << >> \o << >> \o p
    BY <1>7, <1>8, <1>11
  <2>2. << >> \o << >> \o p = p
    BY <1>9
  <2> QED BY <2>1, <2>2, <1>9, <1>11
<1> QED BY <1>10, <1>11

LEMMA NumberUnsigned ==
  ASSUME NEW x \in -LongHalf .. LongHalf - 1, lflag \in BOOLEAN
  PROVE  LET y == x % (IF lflag THEN LongValues ELSE IntValues)
         IN  number(x, 16) = <<"0", "x">> \o print_num(y, 16) /\ y \in 0 .. LongValues
<1> DEFINE y == x % (IF lflag THEN LongValues ELSE IntValues)
           m == wide(x, lflag, FALSE)
           p == print_num(y, 16)
<1>1. /\ x \in Int /\ LongValues \in Nat \ {0} /\ IntValues \in Nat \ {0} /\ IntValues <= LongValues
  BY PrintConstants
<1>2. y \in 0 .. LongValues - 1
  <2>1. x % LongValues \in 0 .. LongValues - 1 /\ x % IntValues \in 0 .. IntValues - 1
    BY <1>1, Wrapped
  <2> QED BY <1>1, <2>1
<1>3. m = y
  <2>1. CASE lflag
    BY <2>1 DEF wide
  <2>2. CASE ~lflag
    <3>1. m = y % LongValues
      BY <2>2 DEF wide
    <3>2. y \in Int /\ 0 <= y /\ y < LongValues
      <4> HIDE DEF y
      <4> QED BY <1>1, <1>2
    <3> HIDE DEF y, m
    <3> QED BY <1>1, <3>1, <3>2, Wrapped
  <2> QED BY <2>1, <2>2
<1>4. 16 \in Bases /\ y \in 0 .. LongValues
  <2> HIDE DEF y
  <2> QED BY <1>1, <1>2 DEF Bases
<1>5. p \in Seq(DigitChars)
  BY <1>4, NumeralTyped
<1>6. number(x, 16) = << >> \o <<"0", "x">> \o print_num(m, 16)
  <2>1. (16 = 10) = FALSE /\ 16 = 16
    OBVIOUS
  <2> QED BY <2>1 DEF number, magnitude
<1>7. << >> \o <<"0", "x">> \o p = <<"0", "x">> \o p
  OBVIOUS
<1> QED BY <1>3, <1>4, <1>6, <1>7

(* The kinds of items.                                                     *)
isItem(item, conv, args) == item.conv = conv /\ item.arg \in args

LEMMA ItemKinds ==
  ASSUME NEW item \in Items
  PROVE  \/ isItem(item, <<"a">>, {0})
         \/ isItem(item, <<"%", "%">>, {0})
         \/ isItem(item, <<"%", "z">>, {0})
         \/ isItem(item, <<"%", "c">>, {<<"b">>})
         \/ isItem(item, <<"%", "s">>, {<<"b", "%">>, << >>})
         \/ isItem(item, <<"%", "d">>, Ints)
         \/ isItem(item, <<"%", "l", "d">>, Longs)
         \/ isItem(item, <<"%", "x">>, Ints)
         \/ isItem(item, <<"%", "l", "x">>, Longs)
BY DEF Items, Item, isItem

LEMMA ConvFacts ==
  ASSUME NEW c
  PROVE  /\ c = <<"a">> => /\ Len(c) = 1 /\ c[1] = "a" /\ c \in Seq(PrintChars)
         /\ c = <<"%", "%">> => /\ Len(c) = 2 /\ c[1] = "%" /\ c[2] = "%" /\ c \in Seq(PrintChars)
         /\ c = <<"%", "z">> => /\ Len(c) = 2 /\ c[1] = "%" /\ c[2] = "z" /\ c \in Seq(PrintChars)
         /\ c = <<"%", "c">> => /\ Len(c) = 2 /\ c[1] = "%" /\ c[2] = "c" /\ c \in Seq(PrintChars)
         /\ c = <<"%", "s">> => /\ Len(c) = 2 /\ c[1] = "%" /\ c[2] = "s" /\ c \in Seq(PrintChars)
         /\ c = <<"%", "d">> => /\ Len(c) = 2 /\ c[1] = "%" /\ c[2] = "d" /\ c \in Seq(PrintChars)
         /\ c = <<"%", "x">> => /\ Len(c) = 2 /\ c[1] = "%" /\ c[2] = "x" /\ c \in Seq(PrintChars)
         /\ c = <<"%", "l", "d">> => /\ Len(c) = 3 /\ c[1] = "%" /\ c[2] = "l" /\ c[3] = "d"
                                    /\ c \in Seq(PrintChars)
         /\ c = <<"%", "l", "x">> => /\ Len(c) = 3 /\ c[1] = "%" /\ c[2] = "l" /\ c[3] = "x"
                                    /\ c \in Seq(PrintChars)
<1>1. {"a", "%", "z", "c", "s", "d", "l", "x"} \subseteq PrintChars
  BY DEF PrintChars
<1>2. c = <<"a">> => /\ Len(c) = 1 /\ c[1] = "a" /\ c \in Seq(PrintChars)
  BY <1>1
<1>3. ASSUME NEW x \in PrintChars, NEW y \in PrintChars, c = <<x, y>>
      PROVE  Len(c) = 2 /\ c[1] = x /\ c[2] = y /\ c \in Seq(PrintChars)
  BY <1>3
<1>4. ASSUME NEW x \in PrintChars, NEW y \in PrintChars, NEW z \in PrintChars, c = <<x, y, z>>
      PROVE  Len(c) = 3 /\ c[1] = x /\ c[2] = y /\ c[3] = z /\ c \in Seq(PrintChars)
  BY <1>4
<1> QED BY <1>1, <1>2, <1>3, <1>4

LEMMA ItemTyped ==
  ASSUME NEW item \in Items
  PROVE  item.conv \in Seq(PrintChars) /\ Len(item.conv) > 0
<1> DEFINE c == item.conv
<1>1. \/ c = <<"a">> \/ c = <<"%", "%">> \/ c = <<"%", "z">> \/ c = <<"%", "c">> \/ c = <<"%", "s">>
      \/ c = <<"%", "d">> \/ c = <<"%", "l", "d">> \/ c = <<"%", "x">> \/ c = <<"%", "l", "x">>
  BY ItemKinds DEF isItem
<1> HIDE DEF c
<1>2. c \in Seq(PrintChars) /\ (Len(c) = 1 \/ Len(c) = 2 \/ Len(c) = 3)
  <2> DEFINE fits(x) == c = x => c \in Seq(PrintChars) /\ (Len(c) = 1 \/ Len(c) = 2 \/ Len(c) = 3)
  <2>1. /\ fits(<<"a">>) /\ fits(<<"%", "%">>) /\ fits(<<"%", "z">>)
        /\ fits(<<"%", "c">>) /\ fits(<<"%", "s">>) /\ fits(<<"%", "d">>) /\ fits(<<"%", "x">>)
        /\ fits(<<"%", "l", "d">>) /\ fits(<<"%", "l", "x">>)
    BY ConvFacts, Zenon
  <2> QED BY <1>1, <2>1, Zenon
<1>3. Len(c) > 0
  <2>1. \A l : l = 1 \/ l = 2 \/ l = 3 => l > 0
    OBVIOUS
  <2> QED BY <1>2, <2>1, Zenon
<1> QED BY <1>2, <1>3, Zenon DEF c

(* What a conversion prints of an item with its letter.                    *)
converted(item, letter) ==
  CASE letter = "%" -> <<"%">>
    [] letter = "c" -> item.arg
    [] letter = "s" -> item.arg
    [] letter = "d" -> number(item.arg, 10)
    [] letter = "x" -> number(item.arg, 16)

LEMMA DecimalText ==
  ASSUME NEW item, NEW args, args \subseteq -LongHalf .. LongHalf - 1,
         \/ isItem(item, <<"%", "d">>, args)
         \/ isItem(item, <<"%", "l", "d">>, args)
  PROVE  isTextOf(number(item.arg, 10), item) /\ number(item.arg, 10) \in Seq(PrintChars)
<1> DEFINE x == item.arg
           text == number(x, 10)
<1>1. x \in -LongHalf .. LongHalf - 1
  BY DEF isItem
<1>2. text = IF x < 0 THEN <<"-">> \o print_num(-x, 10) ELSE print_num(x, 10)
  BY <1>1, NumberSigned
<1>3. /\ x \in Int /\ 10 \in Bases
      /\ x < 0 => -x \in 0 .. LongValues
      /\ ~(x < 0) => x \in 0 .. LongValues
  BY <1>1, PrintConstants DEF LongValues, Bases
<1> HIDE DEF x, text
<1>4. CASE x < 0
  <2> DEFINE p == print_num(-x, 10)
  <2>1. p \in Seq(PrintChars) /\ isNumeral(p, -x, 10)
    BY <1>3, <1>4, NumeralTyped
  <2> HIDE DEF p
  <2>2. text = <<"-">> \o p /\ "-" \in PrintChars
    BY <1>2, <1>4 DEF p, PrintChars
  <2>3. text \in Seq(PrintChars) /\ Len(text) > 0 /\ text[1] = "-" /\ Tail(text) = p
    BY <2>1, <2>2
  <2>4. isTextOf(text, item)
    <3>1. item.conv[Len(item.conv)] = "d" /\ item.conv # <<"a">>
      BY ConvFacts DEF isItem
    <3> QED BY <3>1, <2>1, <2>3, <1>4 DEF isTextOf, x
  <2> QED BY <2>3, <2>4 DEF text, x
<1>5. CASE ~(x < 0)
  <2>1. text \in Seq(PrintChars) /\ isNumeral(text, x, 10)
    BY <1>2, <1>3, <1>5, NumeralTyped
  <2>2. isTextOf(text, item)
    <3>1. item.conv[Len(item.conv)] = "d" /\ item.conv # <<"a">>
      BY ConvFacts DEF isItem
    <3> QED BY <3>1, <2>1, <1>5 DEF isTextOf, x
  <2> QED BY <2>1, <2>2 DEF text, x
<1> QED BY <1>4, <1>5

LEMMA HexText ==
  ASSUME NEW item, NEW args, args \subseteq -LongHalf .. LongHalf - 1, lflag \in BOOLEAN,
         \/ isItem(item, <<"%", "x">>, args) /\ ~lflag
         \/ isItem(item, <<"%", "l", "x">>, args) /\ lflag
  PROVE  isTextOf(number(item.arg, 16), item) /\ number(item.arg, 16) \in Seq(PrintChars)
<1> DEFINE x == item.arg
           y == x % (IF lflag THEN LongValues ELSE IntValues)
           p == print_num(y, 16)
           text == number(x, 16)
<1>1. x \in -LongHalf .. LongHalf - 1
  BY DEF isItem
<1>2. text = <<"0", "x">> \o p /\ y \in 0 .. LongValues /\ 16 \in Bases
  BY <1>1, NumberUnsigned DEF Bases
<1>3. item.conv[Len(item.conv)] = "x" /\ item.conv # <<"a">> /\ (item.conv[2] = "l" <=> lflag)
  BY ConvFacts DEF isItem
<1>4. y = x % (IF item.conv[2] = "l" THEN LongValues ELSE IntValues)
  BY <1>3
<1> HIDE DEF y
<1>5. p \in Seq(PrintChars) /\ isNumeral(p, y, 16)
  BY <1>2, NumeralTyped
<1> HIDE DEF p
<1>6. "0" \in PrintChars /\ "x" \in PrintChars
  <2>1. 1 \in 1 .. 16
    OBVIOUS
  <2>2. "0" \in DigitChars
    BY <2>1, DigitsDiffer
  <2> QED BY <2>2 DEF PrintChars
<1> HIDE DEF text
<1>7. text \in Seq(PrintChars) /\ Len(text) = Len(p) + 2 /\ text[1] = "0" /\ text[2] = "x"
      /\ \A j \in 1 .. Len(p) : text[j + 2] = p[j]
  BY <1>2, <1>5, <1>6
<1>8. Len(p) > 0
  BY <1>5 DEF isNumeral
<1>9. SubSeq(text, 1, 2) = <<"0", "x">> /\ SubSeq(text, 3, Len(text)) = p
  <2>1. Len(p) \in Nat
    BY <1>5
  <2>2. SubSeq(text, 1, 2) = <<"0", "x">>
    <3> DEFINE u == SubSeq(text, 1, 2)
               w == <<"0", "x">>
    <3>1. u \in Seq(PrintChars) /\ Len(u) = 2 /\ u[1] = "0" /\ u[2] = "x"
      BY <1>7, <2>1
    <3>2. w \in Seq(PrintChars) /\ Len(w) = 2 /\ w[1] = "0" /\ w[2] = "x"
      BY <1>6
    <3> HIDE DEF u, w
    <3>3. \A j \in 1 .. Len(u) : u[j] = w[j]
      BY <3>1, <3>2
    <3>4. u = w
      BY <3>1, <3>2, <3>3, SeqEqual
    <3> QED BY <3>4 DEF u, w
  <2> DEFINE r == SubSeq(text, 3, Len(text))
  <2>3. r \in Seq(PrintChars) /\ Len(r) = Len(p) /\ \A j \in 1 .. Len(p) : r[j] = text[j + 2]
    BY <1>7, <2>1
  <2> HIDE DEF r
  <2>4. r = p
    BY <2>3, <1>5, <1>7, SeqEqual
  <2> QED BY <2>2, <2>4 DEF r
<1>10. Len(text) > 2
  BY <1>5, <1>7, <1>8
<1>11. isTextOf(text, item)
  BY <1>3, <1>4, <1>5, <1>9, <1>10 DEF isTextOf, x
<1> QED BY <1>7, <1>11 DEF text, x

(* Each conversion prints the text of its item, and takes its argument.    *)
Letters6 == {"%", "z", "c", "s", "d", "x"}

Prints(item, letter) ==
  /\ letter \in Letters6
  /\ letter = "z" <=> item.conv = <<"%", "z">>
  /\ letter # "z" => /\ isTextOf(converted(item, letter), item)
                     /\ converted(item, letter) \in Seq(PrintChars)
  /\ argument(item) = IF letter \in {"%", "z"} THEN << >> ELSE <<item.arg>>

isPlain(item) ==
  /\ item.conv = <<"a">> /\ Len(item.conv) = 1 /\ item.conv[1] = "a" /\ argument(item) = << >>
  /\ isTextOf(<<"a">>, item) /\ <<"a">> \in Seq(PrintChars)

isShortConversion(item) ==
  /\ item.conv[1] = "%" /\ item.conv[2] # "l" /\ Len(item.conv) = 2
  /\ ~lflag => Prints(item, item.conv[2])

isLongConversion(item) ==
  /\ item.conv[1] = "%" /\ item.conv[2] = "l" /\ item.conv[3] # "l" /\ Len(item.conv) = 3
  /\ lflag => Prints(item, item.conv[3])

LEMMA ArgumentOf ==
  ASSUME NEW item, NEW letter, letter = item.conv[Len(item.conv)]
  PROVE  /\ letter \in {"a", "%", "z"} => argument(item) = << >>
         /\ letter \in {"c", "s", "d", "x"} => argument(item) = <<item.arg>>
BY DEF argument

LEMMA ItemPrints ==
  ASSUME NEW item \in Items, lflag \in BOOLEAN
  PROVE  isPlain(item) \/ isShortConversion(item) \/ isLongConversion(item)
<1> DEFINE c == item.conv
<1>2. "a" \in PrintChars /\ "b" \in PrintChars /\ "%" \in PrintChars
  BY DEF PrintChars
<1>3. Ints \subseteq -LongHalf .. LongHalf - 1 /\ Longs \subseteq -LongHalf .. LongHalf - 1
  BY PrintConstants
<1>4. CASE isItem(item, <<"a">>, {0})
  <2>1. c = <<"a">> /\ Len(c) = 1 /\ c[1] = "a"
    BY <1>4, ConvFacts DEF isItem
  <2>2. isTextOf(<<"a">>, item)
    BY <2>1 DEF isTextOf
  <2>3. argument(item) = << >>
    BY <2>1, ArgumentOf
  <2> QED BY <2>1, <2>2, <2>3, <1>2 DEF isPlain
<1>5. CASE isItem(item, <<"%", "%">>, {0})
  <2>1. /\ Len(c) = 2 /\ c[1] = "%" /\ c[2] = "%" /\ c # <<"a">>
        /\ c # <<"%", "z">>
    BY <1>5, ConvFacts DEF isItem
  <2>2. isTextOf(<<"%">>, item)
    BY <2>1 DEF isTextOf
  <2>3. converted(item, "%") = <<"%">> /\ <<"%">> \in Seq(PrintChars)
    BY <1>2 DEF converted
  <2>4. argument(item) = << >>
    <3>1. c[Len(c)] = "%"
      BY <2>1
    <3> QED BY <3>1, ArgumentOf
  <2>5. Prints(item, "%")
    BY <2>1, <2>2, <2>3, <2>4 DEF Prints, Letters6
  <2> QED BY <2>1, <2>5 DEF isShortConversion
<1>6. CASE isItem(item, <<"%", "z">>, {0})
  <2>1. /\ Len(c) = 2 /\ c[1] = "%" /\ c[2] = "z" /\ c # <<"a">>
        /\ c = <<"%", "z">>
    BY <1>6, ConvFacts DEF isItem
  <2>2. argument(item) = << >>
    <3>1. c[Len(c)] = "z"
      BY <2>1
    <3> QED BY <3>1, ArgumentOf
  <2>3. Prints(item, "z")
    BY <2>1, <2>2 DEF Prints, Letters6
  <2> QED BY <2>1, <2>3 DEF isShortConversion
<1>7. CASE isItem(item, <<"%", "c">>, {<<"b">>})
  <2>1. /\ Len(c) = 2 /\ c[1] = "%" /\ c[2] = "c" /\ c # <<"a">>
        /\ c # <<"%", "z">>
    BY <1>7, ConvFacts DEF isItem
  <2>2. isTextOf(item.arg, item)
    BY <2>1 DEF isTextOf
  <2>3. converted(item, "c") = item.arg
    BY DEF converted
  <2>4. item.arg \in Seq(PrintChars)
    <3>1. item.arg = <<"b">>
      BY <1>7 DEF isItem
    <3>2. <<"b">> \in Seq(PrintChars)
      BY <1>2
    <3> QED BY <3>1, <3>2
  <2>5. argument(item) = <<item.arg>>
    <3>1. c[Len(c)] = "c"
      BY <2>1
    <3> QED BY <3>1, ArgumentOf
  <2>6. Prints(item, "c")
    BY <2>1, <2>2, <2>3, <2>4, <2>5 DEF Prints, Letters6
  <2> QED BY <2>1, <2>6 DEF isShortConversion
<1>8. CASE isItem(item, <<"%", "s">>, {<<"b", "%">>, << >>})
  <2>1. /\ Len(c) = 2 /\ c[1] = "%" /\ c[2] = "s" /\ c # <<"a">>
        /\ c # <<"%", "z">>
    BY <1>8, ConvFacts DEF isItem
  <2>2. isTextOf(item.arg, item)
    BY <2>1 DEF isTextOf
  <2>3. converted(item, "s") = item.arg
    BY DEF converted
  <2>4. item.arg \in Seq(PrintChars)
    <3>1. item.arg = <<"b", "%">> \/ item.arg = << >>
      BY <1>8 DEF isItem
    <3>2. <<"b", "%">> \in Seq(PrintChars) /\ << >> \in Seq(PrintChars)
      BY <1>2
    <3> QED BY <3>1, <3>2
  <2>5. argument(item) = <<item.arg>>
    <3>1. c[Len(c)] = "s"
      BY <2>1
    <3> QED BY <3>1, ArgumentOf
  <2>6. Prints(item, "s")
    BY <2>1, <2>2, <2>3, <2>4, <2>5 DEF Prints, Letters6
  <2> QED BY <2>1, <2>6 DEF isShortConversion
<1>9. CASE isItem(item, <<"%", "d">>, Ints)
  <2>1. /\ Len(c) = 2 /\ c[1] = "%" /\ c[2] = "d" /\ c # <<"a">>
        /\ c # <<"%", "z">>
    BY <1>9, ConvFacts DEF isItem
  <2>2. isTextOf(number(item.arg, 10), item) /\ number(item.arg, 10) \in Seq(PrintChars)
    BY <1>3, <1>9, DecimalText, Zenon
  <2>3. converted(item, "d") = number(item.arg, 10)
    BY DEF converted
  <2>4. argument(item) = <<item.arg>>
    <3>1. c[Len(c)] = "d"
      BY <2>1
    <3> QED BY <3>1, ArgumentOf
  <2>5. Prints(item, "d")
    BY <2>1, <2>2, <2>3, <2>4 DEF Prints, Letters6
  <2> QED BY <2>1, <2>5 DEF isShortConversion
<1>10. CASE isItem(item, <<"%", "l", "d">>, Longs)
  <2>1. /\ Len(c) = 3 /\ c[1] = "%" /\ c[2] = "l" /\ c[3] = "d" /\ c # <<"a">>
        /\ c # <<"%", "z">>
    BY <1>10, ConvFacts DEF isItem
  <2>2. isTextOf(number(item.arg, 10), item) /\ number(item.arg, 10) \in Seq(PrintChars)
    BY <1>3, <1>10, DecimalText, Zenon
  <2>3. converted(item, "d") = number(item.arg, 10)
    BY DEF converted
  <2>4. argument(item) = <<item.arg>>
    <3>1. c[Len(c)] = "d"
      BY <2>1
    <3> QED BY <3>1, ArgumentOf
  <2>5. Prints(item, "d")
    BY <2>1, <2>2, <2>3, <2>4 DEF Prints, Letters6
  <2> QED BY <2>1, <2>5 DEF isLongConversion
<1>11. CASE isItem(item, <<"%", "x">>, Ints)
  <2>1. /\ Len(c) = 2 /\ c[1] = "%" /\ c[2] = "x" /\ c # <<"a">>
        /\ c # <<"%", "z">>
    BY <1>11, ConvFacts DEF isItem
  <2>2. ~lflag => isTextOf(number(item.arg, 16), item) /\ number(item.arg, 16) \in Seq(PrintChars)
    BY <1>3, <1>11, HexText, Zenon
  <2>3. converted(item, "x") = number(item.arg, 16)
    BY DEF converted
  <2>4. argument(item) = <<item.arg>>
    <3>1. c[Len(c)] = "x"
      BY <2>1
    <3> QED BY <3>1, ArgumentOf
  <2>5. ~lflag => Prints(item, "x")
    BY <2>1, <2>2, <2>3, <2>4 DEF Prints, Letters6
  <2> QED BY <2>1, <2>5 DEF isShortConversion
<1>12. CASE isItem(item, <<"%", "l", "x">>, Longs)
  <2>1. /\ Len(c) = 3 /\ c[1] = "%" /\ c[2] = "l" /\ c[3] = "x" /\ c # <<"a">>
        /\ c # <<"%", "z">>
    BY <1>12, ConvFacts DEF isItem
  <2>2. lflag => isTextOf(number(item.arg, 16), item) /\ number(item.arg, 16) \in Seq(PrintChars)
    BY <1>3, <1>12, HexText, Zenon
  <2>3. converted(item, "x") = number(item.arg, 16)
    BY DEF converted
  <2>4. argument(item) = <<item.arg>>
    <3>1. c[Len(c)] = "x"
      BY <2>1
    <3> QED BY <3>1, ArgumentOf
  <2>5. lflag => Prints(item, "x")
    BY <2>1, <2>2, <2>3, <2>4 DEF Prints, Letters6
  <2> QED BY <2>1, <2>5 DEF isLongConversion
<1> QED BY <1>4, <1>5, <1>6, <1>7, <1>8, <1>9, <1>10, <1>11, <1>12, ItemKinds, Zenon

-------------------------------------------------------------------------------
(* The format and the arguments, from any item on.                         *)
FirstOf(seqs, k) == FlattenSeq([j \in 1 .. k |-> seqs[j]])
RestOf(seqs, m, k) == FlattenSeq([j \in 1 .. m - k |-> seqs[k + j]])

LEMMA FlattenNone ==
  ASSUME NEW seqs
  PROVE  FirstOf(seqs, 0) = << >> /\ \A m \in Nat : RestOf(seqs, m, m) = << >>
<1>1. ASSUME NEW g, g = [j \in 1 .. 0 |-> seqs[j]] PROVE FlattenSeq(g) = << >>
  <2>1. g = << >>
    BY <1>1
  <2> QED BY <2>1 DEF FlattenSeq
<1>2. ASSUME NEW m \in Nat PROVE RestOf(seqs, m, m) = << >>
  <2>1. [j \in 1 .. m - m |-> seqs[m + j]] = << >>
    OBVIOUS
  <2> QED BY <2>1 DEF FlattenSeq, RestOf
<1> QED BY <1>1, <1>2 DEF FirstOf

LEMMA FlattenOne ==
  ASSUME NEW V, NEW text \in Seq(V), NEW seqs, seqs = [j \in 1 .. 1 |-> text]
  PROVE  FlattenSeq(seqs) = text
<1>1. seqs \in [1 .. 1 -> Seq(V)] /\ seqs[1] = text
  OBVIOUS
<1>2. Flattens(seqs, seqs, 1)
  <2>1. 1 .. 1 - 1 = {}
    OBVIOUS
  <2> QED BY <2>1 DEF Flattens
<1>3. FlattenSeq(seqs) = seqs[1]
  <2>1. 1 \in Nat \ {0}
    OBVIOUS
  <2> QED BY <2>1, <1>1, <1>2, FlattenUnique, Zenon
<1> QED BY <1>1, <1>3

(* The whole is its beginning and its rest.                                *)
LEMMA FlattenCut ==
  ASSUME NEW V, NEW m \in Nat, NEW seqs \in [1 .. m -> Seq(V)], NEW k \in 0 .. m
  PROVE  /\ FirstOf(seqs, k) \in Seq(V) /\ RestOf(seqs, m, k) \in Seq(V)
         /\ FlattenSeq(seqs) = FirstOf(seqs, k) \o RestOf(seqs, m, k)
         /\ FlattenSeq(seqs) = FirstOf(seqs, m)
<1> DEFINE a == [j \in 1 .. k |-> seqs[j]]
           b == [j \in 1 .. m - k |-> seqs[k + j]]
<1>1. a \in [1 .. k -> Seq(V)] /\ b \in [1 .. m - k -> Seq(V)] /\ m - k \in Nat /\ k \in Nat
  OBVIOUS
<1>2. FirstOf(seqs, k) = FlattenSeq(a) /\ RestOf(seqs, m, k) = FlattenSeq(b)
  BY DEF FirstOf, RestOf
<1> HIDE DEF a, b
<1>3. FlattenSeq(a) \in Seq(V) /\ FlattenSeq(b) \in Seq(V)
  BY <1>1, FlattenTyped
<1>4. FlattenSeq(seqs) = FirstOf(seqs, m) /\ FlattenSeq(seqs) \in Seq(V)
  <2>1. [j \in 1 .. m |-> seqs[j]] = seqs
    OBVIOUS
  <2> QED BY <2>1, FlattenTyped DEF FirstOf
<1>5. CASE k = 0
  <2>1. FirstOf(seqs, k) = << >>
    BY <1>5, FlattenNone
  <2>2. b = seqs
    BY <1>5 DEF b
  <2>3. << >> \o FlattenSeq(seqs) = FlattenSeq(seqs)
    BY <1>4
  <2> QED BY <2>1, <2>2, <2>3, <1>2, <1>3, <1>4
<1>6. CASE k = m
  <2>1. RestOf(seqs, m, k) = << >>
    BY <1>6, FlattenNone
  <2>2. FlattenSeq(seqs) \o << >> = FlattenSeq(seqs)
    BY <1>4
  <2> QED BY <2>1, <2>2, <1>2, <1>3, <1>4, <1>6
<1>7. CASE k \in 1 .. m - 1
  <2>1. FlattenSeq(seqs) = FirstOf(seqs, k) \o RestOf(seqs, m, k)
    BY <1>7, FlattenParts DEF FirstOf, RestOf
  <2> QED BY <2>1, <1>2, <1>3, <1>4
<1> QED BY <1>5, <1>6, <1>7

(* One more.                                                               *)
LEMMA FlattenNext ==
  ASSUME NEW V, NEW m \in Nat, NEW seqs \in [1 .. m -> Seq(V)], NEW k \in 0 .. m - 1
  PROVE  /\ FirstOf(seqs, k + 1) = FirstOf(seqs, k) \o seqs[k + 1]
         /\ RestOf(seqs, m, k) = seqs[k + 1] \o RestOf(seqs, m, k + 1)
<1>1. k + 1 \in 1 .. m /\ k \in Nat /\ k + 1 \in Nat /\ m - k \in Nat /\ m - k >= 1
  OBVIOUS
<1>2. seqs[k + 1] \in Seq(V)
  BY <1>1
<1> DEFINE a == [j \in 1 .. k + 1 |-> seqs[j]]
<1>3. a \in [1 .. k + 1 -> Seq(V)] /\ FirstOf(seqs, k + 1) = FlattenSeq(a)
  BY <1>1 DEF FirstOf
<1>4. FirstOf(a, k) = FirstOf(seqs, k)
  <2>1. [j \in 1 .. k |-> a[j]] = [j \in 1 .. k |-> seqs[j]]
    BY <1>1
  <2> QED BY <2>1 DEF FirstOf
<1>5. RestOf(a, k + 1, k) = seqs[k + 1]
  <2> DEFINE g == [j \in 1 .. (k + 1) - k |-> a[k + j]]
  <2>1. g = [j \in 1 .. 1 |-> seqs[k + 1]]
    <3>1. (k + 1) - k = 1
      BY <1>1
    <3>2. \A j \in 1 .. 1 : j = 1 /\ a[k + j] = seqs[k + 1]
      BY <1>1
    <3> HIDE DEF a
    <3> QED BY <3>1, <3>2
  <2> HIDE DEF g
  <2>2. FlattenSeq(g) = seqs[k + 1]
    BY <2>1, <1>2, FlattenOne
  <2> QED BY <2>2 DEF RestOf, g
<1> HIDE DEF a
<1>6. FlattenSeq(a) = FirstOf(a, k) \o RestOf(a, k + 1, k)
  <2>1. k \in 0 .. k + 1
    BY <1>1
  <2> QED BY <2>1, <1>1, <1>3, FlattenCut, Zenon
<1> DEFINE b == [j \in 1 .. m - k |-> seqs[k + j]]
<1>7. b \in [1 .. m - k -> Seq(V)] /\ RestOf(seqs, m, k) = FlattenSeq(b)
  BY <1>1 DEF RestOf
<1>8. FirstOf(b, 1) = seqs[k + 1]
  <2> DEFINE g == [j \in 1 .. 1 |-> b[j]]
  <2>1. g = [j \in 1 .. 1 |-> seqs[k + 1]]
    <3>1. \A j \in 1 .. 1 : j = 1 /\ b[j] = seqs[k + 1]
      BY <1>1
    <3> HIDE DEF b
    <3> QED BY <3>1
  <2> HIDE DEF g
  <2>2. FlattenSeq(g) = seqs[k + 1]
    BY <2>1, <1>2, FlattenOne
  <2> QED BY <2>2 DEF FirstOf, g
<1>9. RestOf(b, m - k, 1) = RestOf(seqs, m, k + 1)
  <2>1. (m - k) - 1 = m - (k + 1)
    BY <1>1
  <2>2. \A j \in 1 .. m - (k + 1) : 1 + j \in 1 .. m - k /\ k + (1 + j) = (k + 1) + j
    BY <1>1
  <2>3. \A j \in 1 .. m - (k + 1) : b[1 + j] = seqs[(k + 1) + j]
    BY <2>2
  <2> HIDE DEF b
  <2>4. [j \in 1 .. (m - k) - 1 |-> b[1 + j]] = [j \in 1 .. m - (k + 1) |-> seqs[(k + 1) + j]]
    BY <2>1, <2>3
  <2> QED BY <2>4 DEF RestOf
<1> HIDE DEF b
<1>10. FlattenSeq(b) = FirstOf(b, 1) \o RestOf(b, m - k, 1)
  <2>1. 1 \in 0 .. m - k
    BY <1>1
  <2> QED BY <2>1, <1>1, <1>7, FlattenCut, ZenonT(30)
<1>11. FirstOf(seqs, k + 1) = FirstOf(seqs, k) \o seqs[k + 1]
  BY <1>3, <1>4, <1>5, <1>6, Zenon
<1>12. RestOf(seqs, m, k) = seqs[k + 1] \o RestOf(seqs, m, k + 1)
  BY <1>7, <1>8, <1>9, <1>10, Zenon
<1> QED BY <1>11, <1>12

-------------------------------------------------------------------------------
(* Where the pointer stands.                                               *)
convsOf(its) == [j \in 1 .. Len(its) |-> its[j].conv]
argsOf(its)  == [j \in 1 .. Len(its) |-> argument(its[j])]
Arguments    == {item.arg : item \in Items}

ReadPart(its, k)  == FirstOf(convsOf(its), k)
Behind(its, k) == RestOf(argsOf(its), Len(its), k)

LEMMA ItemSeqs ==
  ASSUME NEW its \in Seq(Items)
  PROVE  /\ Len(its) \in Nat /\ DOMAIN its = 1 .. Len(its)
         /\ convsOf(its) \in [1 .. Len(its) -> Seq(PrintChars)]
         /\ argsOf(its) \in [1 .. Len(its) -> Seq(Arguments)]
<1>1. Len(its) \in Nat /\ DOMAIN its = 1 .. Len(its) /\ \A j \in 1 .. Len(its) : its[j] \in Items
  OBVIOUS
<1>2. \A item \in Items : item.conv \in Seq(PrintChars)
  BY ItemTyped
<1>3. \A item \in Items : argument(item) \in Seq(Arguments)
  <2> TAKE item \in Items
  <2>1. item.arg \in Arguments
    BY DEF Arguments
  <2>2. argument(item) = << >> \/ argument(item) = <<item.arg>>
    BY DEF argument
  <2>3. << >> \in Seq(Arguments) /\ <<item.arg>> \in Seq(Arguments)
    BY <2>1
  <2> QED BY <2>2, <2>3
<1>4. convsOf(its) \in [1 .. Len(its) -> Seq(PrintChars)]
  BY <1>1, <1>2 DEF convsOf
<1>5. argsOf(its) \in [1 .. Len(its) -> Seq(Arguments)]
  BY <1>1, <1>3 DEF argsOf
<1> QED BY <1>1, <1>4, <1>5

LEMMA FormatAt ==
  ASSUME NEW its \in Seq(Items), NEW format, format = FlattenSeq(convsOf(its)), NEW k \in 0 .. Len(its) - 1
  PROVE  LET c == its[k + 1].conv
             P == Len(ReadPart(its, k))
         IN  /\ its[k + 1] \in Items /\ P \in Nat /\ Len(c) \in Nat /\ Len(c) > 0
             /\ Len(ReadPart(its, k + 1)) = P + Len(c) /\ P + Len(c) <= Len(format)
             /\ \A j \in 1 .. Len(c) : format[P + j] = c[j]
             /\ Behind(its, k + 1) \in Seq(Arguments)
             /\ Behind(its, k) = argument(its[k + 1]) \o Behind(its, k + 1)
<1> DEFINE c == its[k + 1].conv
           P == Len(ReadPart(its, k))
           m == Len(its)
           F == ReadPart(its, k)
           G == ReadPart(its, k + 1)
           R == RestOf(convsOf(its), m, k + 1)
<1>1. /\ m \in Nat /\ convsOf(its) \in [1 .. m -> Seq(PrintChars)]
      /\ argsOf(its) \in [1 .. m -> Seq(Arguments)]
      /\ k \in 0 .. m /\ k + 1 \in 0 .. m /\ k + 1 \in 1 .. m
  BY ItemSeqs
<1>2. its[k + 1] \in Items /\ convsOf(its)[k + 1] = c /\ argsOf(its)[k + 1] = argument(its[k + 1])
  BY <1>1 DEF convsOf, argsOf
<1>3. c \in Seq(PrintChars) /\ Len(c) > 0
  BY <1>2, ItemTyped
<1>4. G = F \o c
  BY <1>1, <1>2, FlattenNext DEF ReadPart
<1>5. F \in Seq(PrintChars) /\ G \in Seq(PrintChars) /\ R \in Seq(PrintChars) /\ format = G \o R
  BY <1>1, FlattenCut DEF ReadPart
<1>6. Behind(its, k + 1) \in Seq(Arguments)
  BY <1>1, FlattenCut DEF Behind
<1>7. Behind(its, k) = argument(its[k + 1]) \o Behind(its, k + 1)
  BY <1>1, <1>2, FlattenNext DEF Behind
<1> HIDE DEF F, G, R, c
<1>8. Len(F) \in Nat /\ Len(c) \in Nat /\ Len(G) = Len(F) + Len(c)
      /\ \A j \in 1 .. Len(c) : G[Len(F) + j] = c[j]
  BY <1>3, <1>4, <1>5
<1>9. Len(G) <= Len(format) /\ \A j \in 1 .. Len(G) : format[j] = G[j]
  BY <1>5
<1>10. \A j \in 1 .. Len(c) : Len(F) + j \in 1 .. Len(G)
  BY <1>8
<1>11. \A j \in 1 .. Len(c) : format[Len(F) + j] = c[j]
  BY <1>8, <1>9, <1>10
<1> QED BY <1>2, <1>3, <1>6, <1>7, <1>8, <1>9, <1>11 DEF F, G, c

LEMMA PieceOf ==
  ASSUME NEW V, NEW z \in Seq(V), NEW x \in Nat, NEW y \in Nat, x <= y, y <= Len(z)
  PROVE  /\ SubSeq(z, x + 1, y) \in Seq(V) /\ Len(SubSeq(z, x + 1, y)) = y - x
         /\ \A j \in 1 .. y - x : SubSeq(z, x + 1, y)[j] = z[x + j]
OBVIOUS

LEMMA FormatRest ==
  ASSUME NEW its \in Seq(Items), NEW format, format = FlattenSeq(convsOf(its)), NEW k \in 0 .. Len(its)
  PROVE  /\ format \in Seq(PrintChars) /\ Len(ReadPart(its, k)) \in Nat /\ Len(ReadPart(its, k)) <= Len(format)
         /\ SubSeq(format, Len(ReadPart(its, k)) + 1, Len(format)) = RestOf(convsOf(its), Len(its), k)
         /\ Len(ReadPart(its, 0)) = 0 /\ Len(ReadPart(its, Len(its))) = Len(format)
<1> DEFINE F == ReadPart(its, k)
           R == RestOf(convsOf(its), Len(its), k)
<1>1. Len(its) \in Nat /\ convsOf(its) \in [1 .. Len(its) -> Seq(PrintChars)]
  BY ItemSeqs
<1>2. F \in Seq(PrintChars) /\ R \in Seq(PrintChars) /\ format = F \o R /\ format = ReadPart(its, Len(its))
  BY <1>1, FlattenCut DEF ReadPart
<1>3. ReadPart(its, 0) = << >>
  BY FlattenNone DEF ReadPart
<1> HIDE DEF F, R
<1>4. /\ format \in Seq(PrintChars) /\ Len(F) \in Nat /\ Len(R) \in Nat /\ Len(format) = Len(F) + Len(R)
      /\ \A j \in 1 .. Len(R) : format[Len(F) + j] = R[j]
  <2>1. /\ F \o R \in Seq(PrintChars) /\ Len(F) \in Nat /\ Len(R) \in Nat /\ Len(F \o R) = Len(F) + Len(R)
        /\ \A j \in 1 .. Len(R) : (F \o R)[Len(F) + j] = R[j]
    <3>1. F \in Seq(PrintChars) /\ R \in Seq(PrintChars)
      BY <1>2
    <3> QED BY <3>1
  <2> QED BY <2>1, <1>2, Zenon
<1>5. SubSeq(format, Len(F) + 1, Len(format)) = R
  <2> DEFINE u == SubSeq(format, Len(F) + 1, Len(format))
  <2>1. u \in Seq(PrintChars) /\ Len(u) = Len(R) /\ \A j \in 1 .. Len(R) : u[j] = format[Len(F) + j]
    BY <1>4
  <2> HIDE DEF u
  <2>2. u = R
    BY <2>1, <1>2, <1>4, SeqEqual
  <2> QED BY <2>2 DEF u
<1> QED BY <1>2, <1>3, <1>4, <1>5 DEF F, R

(* The texts of the first k items are at the beginning of the line.        *)
TextsBy(its, o, k, e) ==
  \E cut \in [0 .. k -> 0 .. Len(o)] :
    /\ cut[0] = 0 /\ cut[k] = e
    /\ \A j \in 1 .. k : cut[j - 1] <= cut[j] /\ isTextOf(SubSeq(o, cut[j - 1] + 1, cut[j]), its[j])

LEMMA SubSeqKept ==
  ASSUME NEW V, NEW o \in Seq(V), NEW t \in Seq(V), NEW x \in 0 .. Len(o), NEW y \in 0 .. Len(o), x <= y
  PROVE  SubSeq(o \o t, x + 1, y) = SubSeq(o, x + 1, y)
<1> DEFINE u == SubSeq(o \o t, x + 1, y)
           w == SubSeq(o, x + 1, y)
<1>1. Len(o) \in Nat /\ o \o t \in Seq(V) /\ Len(o \o t) = Len(o) + Len(t) /\ Len(t) \in Nat
      /\ \A j \in 1 .. Len(o) : (o \o t)[j] = o[j]
  OBVIOUS
<1>2. u \in Seq(V) /\ Len(u) = y - x /\ \A j \in 1 .. y - x : u[j] = (o \o t)[x + j]
  <2> DEFINE z == o \o t
  <2>1. z \in Seq(V) /\ Len(z) \in Nat /\ x \in Nat /\ y \in Nat /\ y <= Len(z) /\ x <= y
    BY <1>1
  <2> HIDE DEF z
  <2>2. SubSeq(z, x + 1, y) \in Seq(V) /\ Len(SubSeq(z, x + 1, y)) = y - x
        /\ \A j \in 1 .. y - x : SubSeq(z, x + 1, y)[j] = z[x + j]
    BY <2>1
  <2> QED BY <2>2 DEF z
<1>3. w \in Seq(V) /\ Len(w) = y - x /\ \A j \in 1 .. y - x : w[j] = o[x + j]
  BY <1>1
<1>4. \A j \in 1 .. y - x : x + j \in 1 .. Len(o)
  BY <1>1
<1> HIDE DEF u, w
<1>5. \A j \in 1 .. Len(u) : u[j] = w[j]
  BY <1>1, <1>2, <1>3, <1>4
<1>6. u = w
  BY <1>2, <1>3, <1>5, SeqEqual
<1> QED BY <1>6 DEF u, w

LEMMA SubSeqJoined ==
  ASSUME NEW V, NEW o \in Seq(V), NEW t \in Seq(V), NEW x \in 0 .. Len(o)
  PROVE  SubSeq(o \o t, x + 1, Len(o) + Len(t)) = SubSeq(o, x + 1, Len(o)) \o t
<1> DEFINE z == o \o t
           h == SubSeq(o, x + 1, Len(o))
           u == SubSeq(z, x + 1, Len(o) + Len(t))
           w == h \o t
           d == Len(o) - x
<1>1. Len(o) \in Nat /\ Len(t) \in Nat /\ d \in Nat /\ Len(o) = x + d /\ x \in Nat
  OBVIOUS
<1>2. /\ z \in Seq(V) /\ Len(z) = Len(o) + Len(t)
      /\ \A j \in 1 .. Len(o) : z[j] = o[j]
      /\ \A j \in 1 .. Len(t) : z[Len(o) + j] = t[j]
  OBVIOUS
<1> HIDE DEF z, d
<1>3. h \in Seq(V) /\ Len(h) = d /\ \A j \in 1 .. d : h[j] = o[x + j]
  BY <1>1
<1>4. u \in Seq(V) /\ Len(u) = d + Len(t) /\ \A j \in 1 .. d + Len(t) : u[j] = z[x + j]
  <2> DEFINE y == Len(o) + Len(t)
  <2>1. y \in Nat /\ x <= y /\ y <= Len(z) /\ y - x = d + Len(t)
    BY <1>1, <1>2
  <2> HIDE DEF y, u
  <2>2. u = SubSeq(z, x + 1, y)
    BY DEF u, y
  <2>3. /\ SubSeq(z, x + 1, y) \in Seq(V) /\ Len(SubSeq(z, x + 1, y)) = y - x
        /\ \A j \in 1 .. y - x : SubSeq(z, x + 1, y)[j] = z[x + j]
    BY <1>1, <1>2, <2>1, PieceOf
  <2> QED BY <2>1, <2>2, <2>3
<1> HIDE DEF h, u
<1>5. /\ w \in Seq(V) /\ Len(w) = d + Len(t) /\ \A j \in 1 .. d : w[j] = h[j]
      /\ \A j \in 1 .. Len(t) : w[d + j] = t[j]
  <2>1. h \in Seq(V)
    BY <1>3
  <2>2. /\ w \in Seq(V) /\ Len(w) = Len(h) + Len(t)
        /\ \A j \in 1 .. Len(h) : w[j] = h[j]
        /\ \A j \in 1 .. Len(t) : w[Len(h) + j] = t[j]
    BY <2>1
  <2> HIDE DEF w
  <2>3. Len(h) = d
    BY <1>3
  <2> QED BY <2>2, <2>3
<1> HIDE DEF w
<1>6. ASSUME NEW j \in 1 .. Len(u) PROVE u[j] = w[j]
  <2>1. CASE j \in 1 .. d
    <3>1. x + j \in 1 .. Len(o) /\ j \in 1 .. d + Len(t)
      BY <2>1, <1>1
    <3> QED BY <2>1, <3>1, <1>2, <1>3, <1>4, <1>5
  <2>2. CASE j \notin 1 .. d
    <3> DEFINE i == j - d
    <3>1. i \in 1 .. Len(t) /\ j = d + i /\ x + j = Len(o) + i /\ j \in 1 .. d + Len(t)
      BY <2>2, <1>1, <1>4
    <3> HIDE DEF i
    <3> QED BY <3>1, <1>2, <1>4, <1>5
  <2> QED BY <2>1, <2>2
<1>7. u = w
  BY <1>4, <1>5, <1>6, SeqEqual
<1> QED BY <1>7 DEF u, w, h, z

LEMMA SubSeqNothing ==
  ASSUME NEW V, NEW o \in Seq(V)
  PROVE  SubSeq(o, Len(o) + 1, Len(o)) = << >>
OBVIOUS

LEMMA TextsNone ==
  ASSUME NEW its
  PROVE  TextsBy(its, << >>, 0, 0)
<1> DEFINE cut == [j \in 0 .. 0 |-> 0]
<1>1. cut \in [0 .. 0 -> 0 .. Len(<< >>)] /\ cut[0] = 0 /\ 1 .. 0 = {}
  OBVIOUS
<1> HIDE DEF cut
<1> QED BY <1>1 DEF TextsBy

LEMMA TextsMore ==
  ASSUME NEW its, NEW o \in Seq(PrintChars), NEW t \in Seq(PrintChars), NEW k \in Nat, NEW e,
         TextsBy(its, o, k, e)
  PROVE  TextsBy(its, o \o t, k, e)
<1>1. PICK cut \in [0 .. k -> 0 .. Len(o)] :
        /\ cut[0] = 0 /\ cut[k] = e
        /\ \A j \in 1 .. k : cut[j - 1] <= cut[j] /\ isTextOf(SubSeq(o, cut[j - 1] + 1, cut[j]), its[j])
  BY DEF TextsBy
<1>2. Len(o) \in Nat /\ Len(t) \in Nat /\ Len(o \o t) = Len(o) + Len(t)
  OBVIOUS
<1>3. cut \in [0 .. k -> 0 .. Len(o \o t)]
  <2>1. \A j \in 0 .. k : cut[j] \in 0 .. Len(o) + Len(t)
    BY <1>2
  <2>2. cut \in [0 .. k -> 0 .. Len(o) + Len(t)]
    BY <2>1
  <2> QED BY <2>2, <1>2
<1>4. ASSUME NEW j \in 1 .. k
      PROVE  isTextOf(SubSeq(o \o t, cut[j - 1] + 1, cut[j]), its[j])
  <2>1. j - 1 \in 0 .. k /\ j \in 0 .. k
    OBVIOUS
  <2>2. cut[j - 1] \in 0 .. Len(o) /\ cut[j] \in 0 .. Len(o) /\ cut[j - 1] <= cut[j]
    BY <2>1, <1>1
  <2>3. SubSeq(o \o t, cut[j - 1] + 1, cut[j]) = SubSeq(o, cut[j - 1] + 1, cut[j])
    BY <2>2, SubSeqKept
  <2>4. isTextOf(SubSeq(o, cut[j - 1] + 1, cut[j]), its[j])
    BY <1>1
  <2> QED BY <2>3, <2>4, Zenon
<1> QED BY <1>1, <1>3, <1>4, Zenon DEF TextsBy

LEMMA TextsNext ==
  ASSUME NEW its, NEW o \in Seq(PrintChars), NEW t \in Seq(PrintChars), NEW k \in Nat,
         TextsBy(its, o, k, Len(o)), isTextOf(t, its[k + 1])
  PROVE  TextsBy(its, o \o t, k + 1, Len(o) + Len(t))
<1>1. PICK cut \in [0 .. k -> 0 .. Len(o)] :
        /\ cut[0] = 0 /\ cut[k] = Len(o)
        /\ \A j \in 1 .. k : cut[j - 1] <= cut[j] /\ isTextOf(SubSeq(o, cut[j - 1] + 1, cut[j]), its[j])
  BY DEF TextsBy
<1> DEFINE n0 == Len(o) + Len(t)
           cut2 == [j \in 0 .. k + 1 |-> IF j = k + 1 THEN n0 ELSE cut[j]]
<1>2. Len(o) \in Nat /\ Len(t) \in Nat /\ Len(o \o t) = n0 /\ n0 \in Nat /\ Len(o) <= n0
  OBVIOUS
<1> HIDE DEF n0
<1>3. /\ cut2 \in [0 .. k + 1 -> 0 .. n0] /\ cut2[0] = 0 /\ cut2[k + 1] = n0
      /\ \A j \in 0 .. k : cut2[j] = cut[j]
  BY <1>1, <1>2
<1> HIDE DEF cut2
<1>4. ASSUME NEW j \in 1 .. k + 1
      PROVE  cut2[j - 1] <= cut2[j] /\ isTextOf(SubSeq(o \o t, cut2[j - 1] + 1, cut2[j]), its[j])
  <2>1. CASE j \in 1 .. k
    <3>1. j - 1 \in 0 .. k /\ j \in 0 .. k
      BY <2>1
    <3>2. cut[j - 1] \in 0 .. Len(o) /\ cut[j] \in 0 .. Len(o) /\ cut[j - 1] <= cut[j]
      BY <2>1, <3>1, <1>1
    <3>3. SubSeq(o \o t, cut[j - 1] + 1, cut[j]) = SubSeq(o, cut[j - 1] + 1, cut[j])
      BY <3>2, SubSeqKept
    <3>4. isTextOf(SubSeq(o, cut[j - 1] + 1, cut[j]), its[j])
      BY <2>1, <1>1
    <3>5. cut2[j - 1] = cut[j - 1] /\ cut2[j] = cut[j]
      BY <3>1, <1>3
    <3> QED BY <3>2, <3>3, <3>4, <3>5, Zenon
  <2>2. CASE j = k + 1
    <3>1. cut2[j - 1] = Len(o) /\ cut2[j] = n0
      BY <2>2, <1>1, <1>3
    <3>2. SubSeq(o \o t, Len(o) + 1, n0) = t
      <4>1. SubSeq(o \o t, Len(o) + 1, n0) = SubSeq(o, Len(o) + 1, Len(o)) \o t
        BY <1>2, SubSeqJoined, SMTT(20) DEF n0
      <4>2. SubSeq(o, Len(o) + 1, Len(o)) = << >>
        BY SubSeqNothing
      <4>3. << >> \o t = t
        OBVIOUS
      <4> QED BY <4>1, <4>2, <4>3, Zenon
    <3>3. isTextOf(SubSeq(o \o t, Len(o) + 1, n0), its[j])
      BY <2>2, <3>2
    <3> QED BY <1>2, <3>1, <3>3, Zenon
  <2> QED BY <2>1, <2>2
<1>5. cut2 \in [0 .. k + 1 -> 0 .. Len(o \o t)]
  BY <1>2, <1>3
<1>6. TextsBy(its, o \o t, k + 1, n0)
  BY <1>3, <1>4, <1>5, Zenon DEF TextsBy
<1> QED BY <1>6 DEF n0
-------------------------------------------------------------------------------
(* printf() reads the format between two items, inside a conversion, or copies *)
(* the rest of it.                                                         *)
UnknownConv == <<"%", "z">>

BetweenItems(k) ==
  /\ ~stop /\ printing \in {"copy", "written"}
  /\ TextsBy(items, out, k, Len(out)) /\ ap = Behind(items, k)
  /\ chAt = Len(ReadPart(items, k)) + 1
  /\ printing = "written" => chAt > Len(fmt)

Inside(k) ==
  /\ ~stop /\ printing = "convert" /\ k < Len(items)
  /\ TextsBy(items, out, k, Len(out)) /\ ap = Behind(items, k)
  /\ items[k + 1].conv[1] = "%" /\ (lflag => items[k + 1].conv[2] = "l")
  /\ percent = Len(ReadPart(items, k)) + 1
  /\ chAt = IF lflag THEN percent + 2 ELSE percent + 1

Copying(k) ==
  /\ stop /\ printing \in {"copy", "written"} /\ k < Len(items)
  /\ items[k + 1].conv = UnknownConv
  /\ chAt \in Len(ReadPart(items, k)) + 1 .. Len(fmt) + 1
  /\ \E e \in 0 .. Len(out) :
       /\ TextsBy(items, out, k, e)
       /\ SubSeq(out, e + 1, Len(out)) = SubSeq(fmt, Len(ReadPart(items, k)) + 1, chAt - 1)
  /\ printing = "written" => chAt > Len(fmt)

NotCalled == printing = "call" /\ out = << >> /\ chAt = 1 /\ ~stop

ReadTo(k) ==
  /\ fmt = FlattenSeq(convsOf(items))
  /\ \A j \in 1 .. k : items[j].conv # UnknownConv
  /\ BetweenItems(k) \/ Inside(k) \/ Copying(k)

PrintInv ==
  /\ items \in Seq(Items) /\ out \in Seq(PrintChars)
  /\ lflag \in BOOLEAN /\ stop \in BOOLEAN
  /\ NotCalled \/ \E k \in 0 .. Len(items) : ReadTo(k)

LEMMA PrintInvInit == PrintInit => PrintInv
<1> SUFFICES ASSUME PrintInit PROVE PrintInv
  OBVIOUS
<1>1. << >> \in Seq(Items) /\ << >> \in Seq(PrintChars)
  OBVIOUS
<1> QED BY <1>1 DEF PrintInit, PrintInv, NotCalled

LEMMA ItemAdded ==
  ASSUME PrintInv, NEW item \in Items, AddItem(item)
  PROVE  PrintInv'
<1>1. printing = "call"
  BY DEF AddItem
<1>2. NotCalled
  BY <1>1 DEF PrintInv, ReadTo, BetweenItems, Inside, Copying
<1>3. items \in Seq(Items) /\ out \in Seq(PrintChars)
  BY DEF PrintInv
<1>4. items' \in Seq(Items)
  BY <1>3 DEF AddItem
<1>5. NotCalled'
  BY <1>2 DEF NotCalled, AddItem
<1> QED BY <1>4, <1>5 DEF PrintInv, AddItem

LEMMA Called ==
  ASSUME PrintInv, CallPrintf
  PROVE  PrintInv'
<1>1. printing = "call"
  BY DEF CallPrintf
<1>2. NotCalled
  BY <1>1 DEF PrintInv, ReadTo, BetweenItems, Inside, Copying
<1>3. items \in Seq(Items) /\ Len(items) \in Nat /\ DOMAIN items = 1 .. Len(items)
  BY DEF PrintInv
<1>4. [k \in DOMAIN items |-> items[k].conv] = convsOf(items)
  BY <1>3 DEF convsOf
<1>5. [k \in DOMAIN items |-> argument(items[k])] = argsOf(items)
  BY <1>3 DEF argsOf
<1>6. fmt' = FlattenSeq(convsOf(items)) /\ ap' = FlattenSeq(argsOf(items)) /\ items' = items
  BY <1>4, <1>5, Zenon DEF CallPrintf
<1>7. FlattenSeq(argsOf(items)) = Behind(items, 0)
  <2> DEFINE R == RestOf(argsOf(items), Len(items), 0)
  <2>1. argsOf(items) \in [1 .. Len(items) -> Seq(Arguments)] /\ 0 \in 0 .. Len(items)
    BY <1>3, ItemSeqs
  <2>2. R \in Seq(Arguments) /\ FlattenSeq(argsOf(items)) = FirstOf(argsOf(items), 0) \o R
    BY <1>3, <2>1, FlattenCut
  <2>3. FirstOf(argsOf(items), 0) = << >>
    BY FlattenNone
  <2> HIDE DEF R
  <2>4. << >> \o R = R
    BY <2>2
  <2>5. FlattenSeq(argsOf(items)) = R
    BY <2>2, <2>3, <2>4, Zenon
  <2> QED BY <2>5 DEF R, Behind
<1>8. Len(ReadPart(items, 0)) = 0
  BY <1>3, FormatRest
<1>9. TextsBy(items, out, 0, Len(out))
  <2>1. out = << >> /\ Len(<< >>) = 0
    BY <1>2 DEF NotCalled
  <2> QED BY <2>1, TextsNone, Zenon
<1>10. BetweenItems(0)'
  <2>1. chAt' = 1 /\ ~stop' /\ out' = out /\ printing' = "copy"
    BY <1>2 DEF NotCalled, CallPrintf
  <2> QED BY <1>6, <1>7, <1>8, <1>9, <2>1 DEF BetweenItems
<1>11. ReadTo(0)'
  BY <1>6, <1>10 DEF ReadTo
<1>12. 0 \in 0 .. Len(items')
  BY <1>3, <1>6
<1> QED BY <1>11, <1>12 DEF PrintInv, CallPrintf

(* Which item is read.                                                     *)
LEMMA AtCopy ==
  ASSUME PrintInv, printing = "copy"
  PROVE  /\ items \in Seq(Items) /\ out \in Seq(PrintChars) /\ fmt = FlattenSeq(convsOf(items))
         /\ \E k \in 0 .. Len(items) : /\ \A j \in 1 .. k : items[j].conv # UnknownConv
                                       /\ BetweenItems(k) \/ Copying(k)
BY DEF PrintInv, NotCalled, ReadTo, Inside

LEMMA AtConvert ==
  ASSUME PrintInv, printing = "convert"
  PROVE  /\ items \in Seq(Items) /\ out \in Seq(PrintChars) /\ fmt = FlattenSeq(convsOf(items))
         /\ \E k \in 0 .. Len(items) : (\A j \in 1 .. k : items[j].conv # UnknownConv) /\ Inside(k)
BY DEF PrintInv, NotCalled, ReadTo, BetweenItems, Copying

LEMMA NextItem ==
  ASSUME items \in Seq(Items), fmt = FlattenSeq(convsOf(items)), NEW k \in 0 .. Len(items),
         BetweenItems(k), chAt <= Len(fmt)
  PROVE  k \in 0 .. Len(items) - 1 /\ fmt[chAt] = items[k + 1].conv[1]
<1>1. Len(items) \in Nat
  OBVIOUS
<1>2. chAt = Len(ReadPart(items, k)) + 1
  BY DEF BetweenItems
<1>3. Len(ReadPart(items, Len(items))) = Len(fmt) /\ Len(ReadPart(items, k)) \in Nat /\ Len(fmt) \in Nat
  <2>1. Len(ReadPart(items, Len(items))) = Len(fmt) /\ Len(ReadPart(items, k)) \in Nat /\ fmt \in Seq(PrintChars)
    BY FormatRest
  <2> QED BY <2>1
<1>4. k # Len(items)
  BY <1>2, <1>3
<1>5. k \in 0 .. Len(items) - 1
  BY <1>1, <1>4
<1>6. /\ Len(items[k + 1].conv) \in Nat /\ Len(items[k + 1].conv) > 0
      /\ \A j \in 1 .. Len(items[k + 1].conv) : fmt[Len(ReadPart(items, k)) + j] = items[k + 1].conv[j]
  BY <1>5, FormatAt
<1>7. 1 \in 1 .. Len(items[k + 1].conv)
  BY <1>6
<1>8. fmt[Len(ReadPart(items, k)) + 1] = items[k + 1].conv[1]
  BY <1>6, <1>7
<1> QED BY <1>2, <1>5, <1>8

LEMMA PercentRead ==
  ASSUME PrintInv, Percent
  PROVE  PrintInv'
<1>1. printing = "copy" /\ ~stop /\ chAt <= Len(fmt) /\ fmt[chAt] = "%"
  BY DEF Percent
<1>2. items \in Seq(Items) /\ out \in Seq(PrintChars) /\ fmt = FlattenSeq(convsOf(items))
  BY <1>1, AtCopy
<1>3. PICK k \in 0 .. Len(items) : /\ \A j \in 1 .. k : items[j].conv # UnknownConv
                                   /\ BetweenItems(k)
  BY <1>1, AtCopy DEF Copying
<1>4. k \in 0 .. Len(items) - 1 /\ items[k + 1].conv[1] = "%"
  BY <1>1, <1>2, <1>3, NextItem
<1>5. /\ items' = items /\ fmt' = fmt /\ out' = out /\ ap' = ap /\ stop' = stop /\ lflag' = FALSE
      /\ percent' = chAt /\ chAt' = chAt + 1 /\ printing' = "convert"
  BY DEF Percent
<1>6. k < Len(items)
  BY <1>2, <1>4
<1>7. Inside(k)'
  BY <1>1, <1>3, <1>4, <1>5, <1>6 DEF BetweenItems, Inside
<1>8. ReadTo(k)'
  BY <1>2, <1>3, <1>5, <1>7 DEF ReadTo
<1> QED BY <1>2, <1>3, <1>5, <1>8 DEF PrintInv

(* What is at the pointer inside a conversion.                             *)
LEMMA InConversion ==
  ASSUME items \in Seq(Items), fmt = FlattenSeq(convsOf(items)), NEW k \in 0 .. Len(items),
         lflag \in BOOLEAN, Inside(k)
  PROVE  /\ k \in 0 .. Len(items) - 1
         /\ \/ fmt[chAt] = "l" /\ ~lflag /\ items[k + 1].conv[2] = "l"
            \/ /\ fmt[chAt] # "l" /\ Prints(items[k + 1], fmt[chAt])
               /\ chAt = Len(ReadPart(items, k + 1))
<1> DEFINE c == items[k + 1].conv
           P == Len(ReadPart(items, k))
<1>1. k \in 0 .. Len(items) - 1
  BY DEF Inside
<1>2. /\ items[k + 1] \in Items /\ P \in Nat /\ Len(c) \in Nat /\ Len(ReadPart(items, k + 1)) = P + Len(c)
      /\ \A j \in 1 .. Len(c) : fmt[P + j] = c[j]
  <2>1. items \in Seq(Items) /\ fmt = FlattenSeq(convsOf(items))
    OBVIOUS
  <2> QED BY <1>1, <2>1, FormatAt, ZenonT(30)
<1>3. /\ c[1] = "%" /\ (lflag => c[2] = "l")
      /\ chAt = IF lflag THEN (P + 1) + 2 ELSE (P + 1) + 1
  BY DEF Inside
<1>4. isShortConversion(items[k + 1]) \/ isLongConversion(items[k + 1])
  <2>1. ~isPlain(items[k + 1])
    BY <1>3 DEF isPlain
  <2> QED BY <1>2, <2>1, ItemPrints
<1> HIDE DEF P
<1>5. CASE isShortConversion(items[k + 1])
  <2>1. Len(c) = 2 /\ c[2] # "l" /\ (~lflag => Prints(items[k + 1], c[2]))
    BY <1>5 DEF isShortConversion
  <2> HIDE DEF c
  <2>2. ~lflag /\ chAt = P + 2 /\ fmt[P + 2] = c[2]
    BY <1>2, <1>3, <2>1
  <2>3. chAt = Len(ReadPart(items, k + 1)) /\ fmt[chAt] = c[2]
    BY <1>2, <2>1, <2>2
  <2> QED BY <1>1, <2>1, <2>2, <2>3
<1>6. CASE isLongConversion(items[k + 1])
  <2>1. Len(c) = 3 /\ c[2] = "l" /\ c[3] # "l" /\ (lflag => Prints(items[k + 1], c[3]))
    BY <1>6 DEF isLongConversion
  <2>2. CASE lflag
    <3> HIDE DEF c
    <3>1. chAt = P + 3 /\ fmt[P + 3] = c[3]
      BY <1>2, <1>3, <2>1, <2>2
    <3>2. chAt = Len(ReadPart(items, k + 1)) /\ fmt[chAt] = c[3]
      BY <1>2, <2>1, <3>1
    <3> QED BY <1>1, <2>1, <2>2, <3>2
  <2>3. CASE ~lflag
    <3>1. chAt = P + 2 /\ fmt[P + 2] = c[2]
      BY <1>2, <1>3, <2>1, <2>3
    <3> QED BY <1>1, <2>1, <2>3, <3>1
  <2> QED BY <2>2, <2>3
<1> QED BY <1>4, <1>5, <1>6

LEMMA LongFlagRead ==
  ASSUME PrintInv, LongFlag
  PROVE  PrintInv'
<1>1. printing = "convert" /\ fmt[chAt] = "l"
  BY DEF LongFlag
<1>2. /\ items \in Seq(Items) /\ out \in Seq(PrintChars) /\ fmt = FlattenSeq(convsOf(items))
      /\ lflag \in BOOLEAN
  BY <1>1, AtConvert DEF PrintInv
<1>3. PICK k \in 0 .. Len(items) : (\A j \in 1 .. k : items[j].conv # UnknownConv) /\ Inside(k)
  BY <1>1, AtConvert
<1>4. ~lflag /\ items[k + 1].conv[2] = "l"
  BY <1>1, <1>2, <1>3, InConversion
<1>5. /\ items' = items /\ fmt' = fmt /\ out' = out /\ ap' = ap /\ stop' = stop /\ lflag' = TRUE
      /\ percent' = percent /\ chAt' = chAt + 1 /\ printing' = printing
  BY DEF LongFlag
<1>6. percent \in Nat
  <2>1. Len(ReadPart(items, k)) \in Nat
    BY <1>2, FormatRest
  <2> QED BY <1>3, <2>1 DEF Inside
<1>7. Inside(k)'
  BY <1>3, <1>4, <1>5, <1>6 DEF Inside
<1>8. ReadTo(k)'
  BY <1>2, <1>3, <1>5, <1>7 DEF ReadTo
<1> QED BY <1>2, <1>3, <1>5, <1>8 DEF PrintInv
(* The text of one more item is in the line.                               *)
LEMMA ItemPrinted ==
  ASSUME items \in Seq(Items), out \in Seq(PrintChars), NEW k \in 0 .. Len(items) - 1,
         TextsBy(items, out, k, Len(out)),
         NEW t \in Seq(PrintChars), isTextOf(t, items[k + 1]), out' = out \o t
  PROVE  out' \in Seq(PrintChars) /\ TextsBy(items, out', k + 1, Len(out'))
<1>1. out \o t \in Seq(PrintChars) /\ Len(out \o t) = Len(out) + Len(t) /\ k \in Nat
  OBVIOUS
<1>2. TextsBy(items, out \o t, k + 1, Len(out) + Len(t))
  BY <1>1, TextsNext
<1> QED BY <1>1, <1>2

LEMMA PlainCopied ==
  ASSUME PrintInv, CopyPlain, ~stop
  PROVE  PrintInv'
<1>1. printing = "copy" /\ chAt <= Len(fmt) /\ fmt[chAt] # "%"
  BY DEF CopyPlain
<1>2. items \in Seq(Items) /\ out \in Seq(PrintChars) /\ fmt = FlattenSeq(convsOf(items))
  BY <1>1, AtCopy
<1>3. PICK k \in 0 .. Len(items) : (\A j \in 1 .. k : items[j].conv # UnknownConv) /\ BetweenItems(k)
  BY <1>1, AtCopy DEF Copying
<1>4. k \in 0 .. Len(items) - 1 /\ fmt[chAt] = items[k + 1].conv[1]
  BY <1>1, <1>2, <1>3, NextItem
<1> DEFINE item == items[k + 1]
<1>5. /\ item \in Items /\ Len(ReadPart(items, k)) \in Nat
      /\ Len(ReadPart(items, k + 1)) = Len(ReadPart(items, k)) + Len(item.conv)
      /\ Behind(items, k + 1) \in Seq(Arguments)
      /\ Behind(items, k) = argument(item) \o Behind(items, k + 1)
  BY <1>2, <1>4, FormatAt
<1>6. isPlain(item)
  <2>1. item.conv[1] # "%"
    BY <1>1, <1>4
  <2>2. ~isShortConversion(item) /\ ~isLongConversion(item)
    BY <2>1 DEF isShortConversion, isLongConversion
  <2>3. lflag \in BOOLEAN
    BY DEF PrintInv
  <2> HIDE DEF item
  <2> QED BY <1>5, <2>2, <2>3, ItemPrints
<1>7. fmt[chAt] = "a" /\ Len(item.conv) = 1 /\ argument(item) = << >> /\ item.conv = <<"a">>
  BY <1>4, <1>6 DEF isPlain
<1>8. item.conv # UnknownConv
  <2>1. "a" # "%"
    OBVIOUS
  <2>2. item.conv[1] = "a"
    BY <1>4, <1>7
  <2>3. UnknownConv[1] = "%"
    BY DEF UnknownConv
  <2> QED BY <2>1, <2>2, <2>3
<1>9. /\ items' = items /\ fmt' = fmt /\ out' = Append(out, fmt[chAt]) /\ ap' = ap /\ stop' = stop
      /\ lflag' = lflag /\ chAt' = chAt + 1 /\ printing' = printing
  BY DEF CopyPlain
<1>10. isTextOf(<<"a">>, item) /\ <<"a">> \in Seq(PrintChars)
  BY <1>6 DEF isPlain
<1>11. out' = out \o <<"a">>
  BY <1>2, <1>7, <1>9, <1>10
<1>12. out' \in Seq(PrintChars) /\ TextsBy(items, out', k + 1, Len(out'))
  <2>1. TextsBy(items, out, k, Len(out))
    BY <1>3 DEF BetweenItems
  <2> QED BY <1>2, <1>4, <1>10, <1>11, <2>1, ItemPrinted
<1>13. chAt' = Len(ReadPart(items, k + 1)) + 1
  BY <1>3, <1>5, <1>7, <1>9 DEF BetweenItems
<1>14. ap' = Behind(items, k + 1)
  <2>1. << >> \o Behind(items, k + 1) = Behind(items, k + 1)
    BY <1>5
  <2> QED BY <1>3, <1>5, <1>7, <1>9, <2>1 DEF BetweenItems
<1>15. k + 1 \in 0 .. Len(items) /\ \A j \in 1 .. k + 1 : j \in 1 .. k \/ j = k + 1
  BY <1>2, <1>4
<1>16. \A j \in 1 .. k + 1 : items[j].conv # UnknownConv
  BY <1>3, <1>8, <1>15
<1>17. BetweenItems(k + 1)'
  BY <1>1, <1>9, <1>12, <1>13, <1>14 DEF BetweenItems
<1>18. ReadTo(k + 1)'
  BY <1>2, <1>9, <1>16, <1>17 DEF ReadTo
<1>19. \E m \in 0 .. Len(items') : ReadTo(m)'
  BY <1>9, <1>15, <1>18
<1> QED BY <1>2, <1>9, <1>12, <1>19 DEF PrintInv

LEMMA Converted ==
  ASSUME PrintInv, Convert
  PROVE  PrintInv'
<1>1. printing = "convert" /\ fmt[chAt] \in {"%", "c", "s", "d", "x"}
  BY DEF Convert
<1>2. /\ items \in Seq(Items) /\ out \in Seq(PrintChars) /\ fmt = FlattenSeq(convsOf(items))
      /\ lflag \in BOOLEAN
  BY <1>1, AtConvert DEF PrintInv
<1>3. PICK k \in 0 .. Len(items) : (\A j \in 1 .. k : items[j].conv # UnknownConv) /\ Inside(k)
  BY <1>1, AtConvert
<1> DEFINE item == items[k + 1]
           letter == fmt[chAt]
           B == Behind(items, k + 1)
<1>4. k \in 0 .. Len(items) - 1 /\ Prints(item, letter) /\ chAt = Len(ReadPart(items, k + 1))
  BY <1>1, <1>2, <1>3, InConversion
<1>5. B \in Seq(Arguments) /\ Behind(items, k) = argument(item) \o B /\ item \in Items
  BY <1>2, <1>4, FormatAt
<1>6. ap = argument(item) \o B
  BY <1>3, <1>5 DEF Inside
<1>7. letter # "z" /\ argument(item) = IF letter = "%" THEN << >> ELSE <<item.arg>>
  BY <1>1, <1>4 DEF Prints
<1>8. /\ isTextOf(converted(item, letter), item) /\ converted(item, letter) \in Seq(PrintChars)
      /\ item.conv # UnknownConv
  BY <1>4, <1>7 DEF Prints, UnknownConv
<1>9. /\ items' = items /\ fmt' = fmt /\ stop' = stop /\ lflag' = lflag /\ chAt' = chAt + 1
      /\ printing' = "copy" /\ ap' = (IF letter = "%" THEN ap ELSE Tail(ap))
  BY DEF Convert
<1> DEFINE text == CASE letter = "%" -> <<"%">>
                     [] letter = "c" -> ap[1]
                     [] letter = "s" -> ap[1]
                     [] letter = "d" -> number(ap[1], 10)
                     [] letter = "x" -> number(ap[1], 16)
<1>10. out' = out \o text
  BY DEF Convert
<1>11. letter # "%" => ap[1] = item.arg /\ Tail(ap) = B
  <2> HIDE DEF letter, item, B
  <2>1. ASSUME NEW a \in Arguments PROVE (<<a>> \o B)[1] = a /\ Tail(<<a>> \o B) = B
    <3>1. B \in Seq(Arguments)
      BY <1>5
    <3> QED BY <3>1
  <2>2. item.arg \in Arguments
    BY <1>5 DEF Arguments
  <2>3. (<<item.arg>> \o B)[1] = item.arg /\ Tail(<<item.arg>> \o B) = B
    BY <2>1, <2>2, Zenon
  <2>4. letter # "%" => ap = <<item.arg>> \o B
    BY <1>6, <1>7
  <2> QED BY <2>3, <2>4, Zenon
<1>12. text = converted(item, letter)
  <2>1. letter \in {"%", "c", "s", "d", "x"}
    BY <1>1
  <2> HIDE DEF letter, item
  <2> QED BY <1>11, <2>1 DEF converted
<1>13. ap' = B
  <2>1. << >> \o B = B
    BY <1>5
  <2> HIDE DEF letter, item, B
  <2> QED BY <1>6, <1>7, <1>9, <1>11, <2>1
<1> HIDE DEF text
<1>14. out' \in Seq(PrintChars) /\ TextsBy(items, out', k + 1, Len(out'))
  <2>1. TextsBy(items, out, k, Len(out))
    BY <1>3 DEF Inside
  <2>2. out' = out \o converted(item, letter)
    BY <1>10, <1>12
  <2> HIDE DEF letter
  <2>3. converted(item, letter) \in Seq(PrintChars) /\ isTextOf(converted(item, letter), items[k + 1])
    BY <1>8
  <2> HIDE DEF item
  <2> QED BY <1>2, <1>4, <2>1, <2>2, <2>3, ItemPrinted
<1>15. k + 1 \in 0 .. Len(items) /\ \A j \in 1 .. k + 1 : j \in 1 .. k \/ j = k + 1
  BY <1>2, <1>4
<1>16. \A j \in 1 .. k + 1 : items[j].conv # UnknownConv
  BY <1>3, <1>8, <1>15
<1>17. BetweenItems(k + 1)'
  <2>1. ~stop
    BY <1>3 DEF Inside
  <2> QED BY <1>4, <1>9, <1>13, <1>14, <2>1 DEF BetweenItems
<1>18. ReadTo(k + 1)'
  BY <1>2, <1>9, <1>16, <1>17 DEF ReadTo
<1>19. \E m \in 0 .. Len(items') : ReadTo(m)'
  BY <1>9, <1>15, <1>18
<1> QED BY <1>2, <1>9, <1>14, <1>19 DEF PrintInv

(* Behind an unknown conversion.                                           *)
LEMMA RestBegins ==
  ASSUME items \in Seq(Items), out \in Seq(PrintChars), NEW k \in 0 .. Len(items),
         TextsBy(items, out, k, Len(out)),
         NEW t \in Seq(PrintChars), out' = out \o t
  PROVE  /\ out' \in Seq(PrintChars)
         /\ \E e \in 0 .. Len(out') :
              TextsBy(items, out', k, e) /\ SubSeq(out', e + 1, Len(out')) = t
<1> DEFINE e == Len(out)
<1>1. out \o t \in Seq(PrintChars) /\ Len(out \o t) = e + Len(t) /\ k \in Nat /\ e \in 0 .. Len(out \o t)
      /\ e \in 0 .. Len(out)
  OBVIOUS
<1>2. TextsBy(items, out \o t, k, e)
  BY <1>1, TextsMore
<1>3. SubSeq(out \o t, e + 1, Len(out) + Len(t)) = SubSeq(out, e + 1, Len(out)) \o t
  BY <1>1, SubSeqJoined
<1>4. SubSeq(out, e + 1, Len(out)) = << >>
  BY SubSeqNothing
<1>5. << >> \o t = t
  OBVIOUS
<1>6. SubSeq(out \o t, e + 1, Len(out \o t)) = t
  BY <1>1, <1>3, <1>4, <1>5, Zenon
<1> QED BY <1>1, <1>2, <1>6, Zenon

LEMMA OneMore ==
  ASSUME NEW V, NEW g \in Seq(V), NEW p \in Nat, NEW h \in Nat, p < h, h <= Len(g)
  PROVE  /\ g[h] \in V
         /\ SubSeq(g, p + 1, h - 1) \o <<g[h]>> = SubSeq(g, p + 1, h)
<1> DEFINE x == g[h]
           h1 == h - 1
           a == SubSeq(g, p + 1, h1)
           b == SubSeq(g, p + 1, h)
           w == Append(a, x)
<1>1. /\ h1 \in Nat /\ p <= h1 /\ h1 <= Len(g) /\ p <= h /\ h \in 1 .. Len(g) /\ h = h1 + 1
  OBVIOUS
<1>2. x \in V
  BY <1>1
<1> HIDE DEF h1
<1>3. a \in Seq(V) /\ Len(a) = h1 - p /\ \A j \in 1 .. h1 - p : a[j] = g[p + j]
  BY <1>1, PieceOf
<1>4. b \in Seq(V) /\ Len(b) = h - p /\ \A j \in 1 .. h - p : b[j] = g[p + j]
  BY <1>1, PieceOf
<1> HIDE DEF a, b
<1>5. a \o <<x>> = w
  <2>1. a \in Seq(V)
    BY <1>3
  <2> HIDE DEF x
  <2> QED BY <1>2, <2>1
<1>6. /\ w \in Seq(V) /\ Len(w) = Len(a) + 1
      /\ \A j \in 1 .. Len(a) : w[j] = a[j]
      /\ w[Len(a) + 1] = x
  <2>1. a \in Seq(V)
    BY <1>3
  <2> HIDE DEF x
  <2> QED BY <1>2, <2>1
<1> HIDE DEF w
<1>7. Len(w) = Len(b) /\ Len(w) = h - p /\ Len(a) + 1 = h - p
  BY <1>1, <1>3, <1>4, <1>6
<1>8. ASSUME NEW j \in 1 .. Len(w) PROVE w[j] = b[j]
  <2>1. j \in 1 .. h - p /\ (j \in 1 .. h1 - p \/ j = h - p) /\ p + (h - p) = h
    BY <1>1, <1>7
  <2>2. b[j] = g[p + j]
    BY <1>4, <2>1
  <2>3. CASE j \in 1 .. h1 - p
    <3>1. w[j] = a[j] /\ a[j] = g[p + j]
      BY <1>3, <1>6, <2>3
    <3> QED BY <2>2, <3>1
  <2>4. CASE j = h - p
    <3>1. w[j] = x
      BY <1>6, <1>7, <2>4
    <3>2. g[p + j] = x
      BY <2>1, <2>4
    <3> QED BY <2>2, <3>1, <3>2
  <2> QED BY <2>1, <2>3, <2>4
<1>9. w = b
  BY <1>4, <1>6, <1>7, <1>8, SeqEqual
<1> QED BY <1>2, <1>5, <1>9 DEF a, b, h1

LEMMA RestCopied ==
  ASSUME PrintInv, CopyPlain, stop
  PROVE  PrintInv'
<1>1. printing = "copy" /\ chAt <= Len(fmt)
  BY DEF CopyPlain
<1>2. items \in Seq(Items) /\ out \in Seq(PrintChars) /\ fmt = FlattenSeq(convsOf(items))
  BY <1>1, AtCopy
<1>3. PICK k \in 0 .. Len(items) : (\A j \in 1 .. k : items[j].conv # UnknownConv) /\ Copying(k)
  BY <1>1, AtCopy DEF BetweenItems
<1> DEFINE P == Len(ReadPart(items, k))
           c == fmt[chAt]
<1>4. fmt \in Seq(PrintChars) /\ P \in Nat
  BY <1>2, FormatRest
<1>5. chAt \in Nat /\ P < chAt /\ chAt + 1 \in P + 1 .. Len(fmt) + 1 /\ (chAt + 1) - 1 = chAt
  <2>1. chAt \in P + 1 .. Len(fmt) + 1
    BY <1>3 DEF Copying
  <2>2. Len(fmt) \in Nat
    BY <1>4
  <2> HIDE DEF P
  <2> QED BY <1>1, <1>4, <2>1, <2>2
<1>6. PICK e \in 0 .. Len(out) : TextsBy(items, out, k, e) /\ SubSeq(out, e + 1, Len(out)) = SubSeq(fmt, P + 1, chAt - 1)
  BY <1>3 DEF Copying
<1> HIDE DEF P
<1>7. c \in PrintChars /\ SubSeq(out \o <<c>>, e + 1, Len(out \o <<c>>)) = SubSeq(fmt, P + 1, chAt)
  <2>1. P < chAt /\ chAt <= Len(fmt) /\ chAt \in Nat /\ P \in Nat /\ fmt \in Seq(PrintChars)
    BY <1>1, <1>4, <1>5
  <2>2. c \in PrintChars
    BY <2>1, OneMore
  <2>3. SubSeq(fmt, P + 1, chAt - 1) \o <<c>> = SubSeq(fmt, P + 1, chAt)
    BY <2>1, OneMore
  <2> DEFINE t == <<c>>
  <2>4. t \in Seq(PrintChars)
    BY <2>2
  <2> HIDE DEF t, c
  <2>5. Len(out \o t) = Len(out) + Len(t)
    BY <1>2, <2>4
  <2>6. SubSeq(out \o t, e + 1, Len(out) + Len(t)) = SubSeq(out, e + 1, Len(out)) \o t
    BY <1>2, <2>4, SubSeqJoined
  <2>7. SubSeq(out, e + 1, Len(out)) \o t = SubSeq(fmt, P + 1, chAt)
    BY <1>6, <2>3 DEF t
  <2>8. SubSeq(out \o t, e + 1, Len(out \o t)) = SubSeq(fmt, P + 1, chAt)
    BY <2>5, <2>6, <2>7, Zenon
  <2> QED BY <2>2, <2>8 DEF t
<1>8. /\ items' = items /\ fmt' = fmt /\ out' = Append(out, c) /\ ap' = ap /\ stop' = stop
      /\ lflag' = lflag /\ chAt' = chAt + 1 /\ printing' = printing
  BY DEF CopyPlain
<1> HIDE DEF c
<1>9. <<c>> \in Seq(PrintChars) /\ k \in Nat
  BY <1>7
<1>10. out' = out \o <<c>> /\ out' \in Seq(PrintChars) /\ Len(out) <= Len(out') /\ Len(out') \in Nat
  BY <1>2, <1>7, <1>8
<1>11. TextsBy(items, out', k, e)
  <2>1. TextsBy(items, out \o <<c>>, k, e)
    BY <1>2, <1>6, <1>9, TextsMore
  <2> QED BY <1>10, <2>1, Zenon
<1>12. e \in 0 .. Len(out')
  BY <1>2, <1>6, <1>10
<1>13. SubSeq(out', e + 1, Len(out')) = SubSeq(fmt', P + 1, chAt' - 1)
  BY <1>5, <1>7, <1>8, <1>10
<1>14. Copying(k)'
  <2>1. \E x \in 0 .. Len(out') : TextsBy(items', out', k, x)
          /\ SubSeq(out', x + 1, Len(out')) = SubSeq(fmt', Len(ReadPart(items', k)) + 1, chAt' - 1)
    BY <1>8, <1>11, <1>12, <1>13 DEF P
  <2>2. chAt' \in Len(ReadPart(items', k)) + 1 .. Len(fmt') + 1
    BY <1>5, <1>8 DEF P
  <2>3. stop' /\ printing' = "copy" /\ k < Len(items') /\ items'[k + 1].conv = UnknownConv
    BY <1>1, <1>3, <1>8 DEF Copying
  <2> QED BY <2>1, <2>2, <2>3 DEF Copying
<1>15. ReadTo(k)'
  BY <1>2, <1>3, <1>8, <1>14 DEF ReadTo
<1> QED BY <1>2, <1>3, <1>8, <1>10, <1>15 DEF PrintInv

LEMMA UnknownRead ==
  ASSUME PrintInv, Unknown
  PROVE  PrintInv'
<1>1. printing = "convert" /\ fmt[chAt] \notin {"%", "l", "c", "s", "d", "x"}
  BY DEF Unknown
<1>2. /\ items \in Seq(Items) /\ out \in Seq(PrintChars) /\ fmt = FlattenSeq(convsOf(items))
      /\ lflag \in BOOLEAN
  BY <1>1, AtConvert DEF PrintInv
<1>3. PICK k \in 0 .. Len(items) : (\A j \in 1 .. k : items[j].conv # UnknownConv) /\ Inside(k)
  BY <1>1, AtConvert
<1> DEFINE P == Len(ReadPart(items, k))
           t == SubSeq(fmt, percent, chAt)
<1>4. /\ k \in 0 .. Len(items) - 1 /\ Prints(items[k + 1], fmt[chAt])
      /\ chAt = Len(ReadPart(items, k + 1))
  BY <1>1, <1>2, <1>3, InConversion
<1>5. items[k + 1].conv = UnknownConv
  BY <1>1, <1>4 DEF Prints, Letters6, UnknownConv
<1>6. /\ P \in Nat /\ Len(ReadPart(items, k + 1)) = P + Len(items[k + 1].conv)
      /\ P + Len(items[k + 1].conv) <= Len(fmt) /\ fmt \in Seq(PrintChars)
  BY <1>2, <1>4, FormatAt, FormatRest
<1>7. Len(items[k + 1].conv) = 2
  BY <1>5, ConvFacts DEF UnknownConv
<1>8. percent = P + 1
  BY <1>3 DEF Inside
<1>9. chAt = P + 2 /\ P + 2 <= Len(fmt) /\ Len(fmt) \in Nat
  BY <1>4, <1>6, <1>7
<1>10. t = SubSeq(fmt, P + 1, P + 2) /\ t \in Seq(PrintChars)
  BY <1>6, <1>8, <1>9
<1>11. /\ items' = items /\ fmt' = fmt /\ out' = out \o t /\ ap' = ap /\ stop' = TRUE
      /\ lflag' = lflag /\ chAt' = chAt + 1 /\ printing' = "copy"
  BY DEF Unknown
<1> HIDE DEF P, t
<1>12. /\ out' \in Seq(PrintChars)
       /\ \E e \in 0 .. Len(out') : TextsBy(items, out', k, e) /\ SubSeq(out', e + 1, Len(out')) = t
  <2>1. TextsBy(items, out, k, Len(out))
    BY <1>3 DEF Inside
  <2> QED BY <1>2, <1>10, <1>11, <2>1, RestBegins, ZenonT(30)
<1>13. chAt' - 1 = P + 2 /\ chAt' \in P + 1 .. Len(fmt) + 1
  BY <1>6, <1>9, <1>11
<1>14. Copying(k)'
  <2>1. \E x \in 0 .. Len(out') : TextsBy(items', out', k, x)
          /\ SubSeq(out', x + 1, Len(out')) = SubSeq(fmt', Len(ReadPart(items', k)) + 1, chAt' - 1)
    BY <1>10, <1>11, <1>12, <1>13 DEF P
  <2>2. chAt' \in Len(ReadPart(items', k)) + 1 .. Len(fmt') + 1
    BY <1>11, <1>13 DEF P
  <2>3. stop' /\ printing' = "copy" /\ k < Len(items') /\ items'[k + 1].conv = UnknownConv
    BY <1>2, <1>4, <1>5, <1>11
  <2> QED BY <2>1, <2>2, <2>3 DEF Copying
<1>15. ReadTo(k)'
  BY <1>2, <1>3, <1>11, <1>14 DEF ReadTo
<1> QED BY <1>2, <1>3, <1>11, <1>12, <1>15 DEF PrintInv

LEMMA Written ==
  ASSUME PrintInv, Write
  PROVE  PrintInv'
<1>1. printing = "copy" /\ chAt > Len(fmt)
  BY DEF Write
<1>2. items \in Seq(Items) /\ out \in Seq(PrintChars) /\ fmt = FlattenSeq(convsOf(items))
  BY <1>1, AtCopy
<1>3. PICK k \in 0 .. Len(items) : /\ \A j \in 1 .. k : items[j].conv # UnknownConv
                                   /\ BetweenItems(k) \/ Copying(k)
  BY <1>1, AtCopy
<1>4. /\ items' = items /\ fmt' = fmt /\ out' = out /\ ap' = ap /\ stop' = stop
      /\ lflag' = lflag /\ chAt' = chAt /\ printing' = "written"
  BY DEF Write
<1>5. BetweenItems(k)' \/ Copying(k)'
  <2>1. BetweenItems(k) => BetweenItems(k)'
    BY <1>1, <1>4 DEF BetweenItems
  <2>2. Copying(k) => Copying(k)'
    BY <1>1, <1>4 DEF Copying
  <2> QED BY <1>3, <2>1, <2>2
<1>6. ReadTo(k)'
  BY <1>2, <1>3, <1>4, <1>5 DEF ReadTo
<1> QED BY <1>2, <1>3, <1>4, <1>6 DEF PrintInv

LEMMA PrintInvNext ==
  ASSUME PrintInv, [PrintNext]_printVars
  PROVE  PrintInv'
<1>1. CASE UNCHANGED printVars
  BY <1>1 DEF PrintInv, NotCalled, ReadTo, BetweenItems, Inside, Copying, printVars
<1>2. ASSUME CopyPlain PROVE PrintInv'
  BY <1>2, PlainCopied, RestCopied
<1> QED BY <1>1, <1>2, ItemAdded, Called, PercentRead, LongFlagRead, Converted, UnknownRead, Written
        DEF PrintNext

THEOREM LinePrinted == PrintSpec => []LineIsFormatted
<1>1. ASSUME PrintInv PROVE LineIsFormatted
  <2> SUFFICES ASSUME printing = "written" PROVE LineIsFormatted
    BY DEF LineIsFormatted
  <2>1. items \in Seq(Items) /\ out \in Seq(PrintChars) /\ fmt = FlattenSeq(convsOf(items))
    BY <1>1 DEF PrintInv, NotCalled, ReadTo
  <2>2. PICK k \in 0 .. Len(items) : /\ \A j \in 1 .. k : items[j].conv # UnknownConv
                                     /\ BetweenItems(k) \/ Copying(k)
    BY <1>1 DEF PrintInv, NotCalled, ReadTo, Inside
  <2>3. Len(items) \in Nat /\ DOMAIN items = 1 .. Len(items)
    BY <2>1
  <2> DEFINE P == Len(ReadPart(items, k))
             rest == [j \in 1 .. Len(items) - k |-> items[k + j].conv]
  <2>4. /\ SubSeq(fmt, P + 1, Len(fmt)) = FlattenSeq(rest)
        /\ P \in Nat /\ Len(fmt) \in Nat
    <3>1. /\ fmt \in Seq(PrintChars) /\ P \in Nat
          /\ SubSeq(fmt, P + 1, Len(fmt)) = RestOf(convsOf(items), Len(items), k)
      BY <2>1, FormatRest
    <3>2. [j \in 1 .. Len(items) - k |-> convsOf(items)[k + j]] = rest
      <4>1. \A j \in 1 .. Len(items) - k : k + j \in 1 .. Len(items)
        BY <2>3
      <4> QED BY <4>1 DEF convsOf
    <3>3. Len(fmt) \in Nat
      BY <3>1
    <3> HIDE DEF rest, P
    <3> QED BY <3>1, <3>2, <3>3 DEF RestOf
  <2> HIDE DEF P, rest
  <2>5. PICK e \in 0 .. Len(out) :
          TextsBy(items, out, k, e) /\ SubSeq(out, e + 1, Len(out)) = FlattenSeq(rest)
    <3>1. CASE BetweenItems(k)
      <4>1. TextsBy(items, out, k, Len(out)) /\ Len(out) \in 0 .. Len(out)
        BY <2>1, <3>1 DEF BetweenItems
      <4>2. SubSeq(out, Len(out) + 1, Len(out)) = << >>
        BY <2>1, SubSeqNothing
      <4>3. SubSeq(fmt, P + 1, Len(fmt)) = << >>
        <5>1. Len(fmt) < P + 1 /\ P <= Len(fmt)
          <6>1. P <= Len(fmt)
            BY <2>1, FormatRest DEF P
          <6> QED BY <2>4, <3>1, <6>1 DEF BetweenItems, P
        <5>2. P = Len(fmt)
          BY <2>4, <5>1
        <5>3. fmt \in Seq(PrintChars)
          BY <2>1, FormatRest
        <5> QED BY <5>2, <5>3, SubSeqNothing
      <4> QED BY <2>4, <4>1, <4>2, <4>3
    <3>2. CASE Copying(k)
      <4>1. chAt \in P + 1 .. Len(fmt) + 1 /\ chAt > Len(fmt)
        BY <3>2 DEF Copying, P
      <4>2. chAt - 1 = Len(fmt)
        BY <2>4, <4>1
      <4> QED BY <2>4, <3>2, <4>2 DEF Copying, P
    <3> QED BY <2>2, <3>1, <3>2
  <2>6. known = k
    <3>1. CASE BetweenItems(k)
      <4>1. k = Len(items)
        <5> SUFFICES ASSUME k # Len(items) PROVE FALSE
          OBVIOUS
        <5>1. k \in 0 .. Len(items) - 1
          <6>1. Len(items) \in Nat /\ k # Len(items)
            BY <2>3
          <6> QED BY <6>1
        <5>2. /\ Len(items[k + 1].conv) > 0 /\ Len(items[k + 1].conv) \in Nat
              /\ P + Len(items[k + 1].conv) <= Len(fmt)
          BY <2>1, <5>1, FormatAt DEF P
        <5>3. P + 1 > Len(fmt)
          BY <3>1 DEF BetweenItems, P
        <5> QED BY <2>4, <5>2, <5>3
      <4>2. unknown = {}
        BY <2>2, <2>3, <4>1 DEF unknown, UnknownConv
      <4> QED BY <4>1, <4>2 DEF known
    <3>2. CASE Copying(k)
      <4>1. k + 1 \in 1 .. Len(items) /\ k \in Nat /\ items[k + 1].conv = UnknownConv
        BY <2>3, <3>2 DEF Copying
      <4>2. k + 1 \in unknown
        BY <2>3, <4>1 DEF unknown, UnknownConv
      <4>3. \A m \in unknown : m \in Nat /\ k + 1 <= m
        <5> TAKE m \in unknown
        <5>1. m \in 1 .. Len(items) /\ items[m].conv = UnknownConv
          BY <2>3 DEF unknown, UnknownConv
        <5>2. m \notin 1 .. k
          BY <2>2, <5>1
        <5> QED BY <2>3, <4>1, <5>1, <5>2
      <4> DEFINE first == CHOOSE m \in unknown : \A x \in unknown : m <= x
      <4>4. first \in unknown /\ \A x \in unknown : first <= x
        BY <4>2, <4>3
      <4> HIDE DEF first
      <4>5. first = k + 1
        <5>1. first \in Nat /\ k + 1 <= first /\ first <= k + 1
          BY <4>2, <4>3, <4>4
        <5> QED BY <4>1, <5>1
      <4>6. known = first - 1
        BY <4>2 DEF known, first
      <4> QED BY <4>1, <4>5, <4>6
    <3> QED BY <2>2, <3>1, <3>2
  <2>7. PICK cut \in [0 .. k -> 0 .. Len(out)] :
          /\ cut[0] = 0 /\ cut[k] = e
          /\ \A j \in 1 .. k : /\ cut[j - 1] <= cut[j]
                               /\ isTextOf(SubSeq(out, cut[j - 1] + 1, cut[j]), items[j])
    BY <2>5 DEF TextsBy
  <2>8. SubSeq(out, cut[k] + 1, Len(out)) = FlattenSeq([j \in 1 .. Len(items) - k |-> items[k + j].conv])
    BY <2>5, <2>7 DEF rest
  <2> QED BY <2>6, <2>7, <2>8, Zenon DEF LineIsFormatted
<1> QED BY <1>1, PrintInvInit, PrintInvNext, PTL DEF PrintSpec

===============================================================================
