---------------------------------- MODULE Rio ----------------------------------
(***************************************************************************)
(* Robust input and output of libcsapp (rio.c): a reader and a writer over *)
(* descriptors whose read() and write() transfer fewer bytes than asked    *)
(* for, are interrupted by signals (EINTR) or fail (EIO).                  *)
(*                                                                         *)
(* A byte is its position in the stream; what it says matters only where   *)
(* it is a newline.  One action is one turn of a loop.                     *)
(***************************************************************************)
EXTENDS Integers, Sequences

CONSTANTS
  Size,       (* bytes that the descriptor delivers before end of file     *)
  Newlines,   (* positions of the newlines                                 *)
  BufSize,    (* sizeof(rio_buf)                                           *)
  MaxCount    (* bound: largest count a caller asks for                    *)

ASSUME SizeAssumption  == Size \in Nat /\ Newlines \subseteq 1 .. Size
ASSUME CountAssumption == BufSize \in Nat \ {0} /\ MaxCount \in Nat

VARIABLES
  pos,      (* bytes the kernel has delivered                              *)
  errno,
  cnt,      (* rio_cnt                                                     *)
  ptr,      (* rio_bufptr - rio_buf                                        *)
  buf,      (* rio_buf                                                     *)
  op,       (* the call that runs: "idle", or "died" in unix_error()       *)
  robust,   (* it was made through Rio_...(), which ends the process       *)
  want,     (* argument n or maxlen                                        *)
  n,        (* nleft; in rio_readlineb() the local n                       *)
  user,     (* bytes in the user's buffer, or accepted by write()          *)
  taken,    (* bytes that calls have returned or dropped so far            *)
  last      (* the call that returned last, and its result                 *)

stream  == <<pos, errno>>
rio_t   == <<cnt, ptr, buf>>
call    == <<op, robust, want, n, user>>
rioVars == <<stream, rio_t, call, taken, last>>

Reads    == {"rio_readn", "rio_readnb", "rio_readlineb"}
Buffered == {"rio_readnb", "rio_readlineb"}
Answer   == [op : Reads \cup {"rio_writen", "none"}, want : 0 .. MaxCount,
             rc : -1 .. MaxCount, bytes : Seq(1 .. Size + MaxCount), eof : BOOLEAN]
noAnswer == [op |-> "none", want |-> 0, rc |-> 0, bytes |-> << >>, eof |-> FALSE]

RioType ==
  /\ pos \in 0 .. Size
  /\ errno \in {"0", "EINTR", "EIO"}
  /\ cnt \in -1 .. BufSize
  /\ ptr \in 0 .. BufSize
  /\ buf \in [1 .. BufSize -> 0 .. Size]
  /\ op \in Reads \cup {"rio_writen", "idle", "died"}
  /\ robust \in BOOLEAN
  /\ want \in 0 .. MaxCount
  /\ n \in 0 .. MaxCount + 1
  /\ user \in Seq(1 .. Size + MaxCount)
  /\ taken \in Nat
  /\ last \in Answer

(* rio_readinitb() *)
RioInit ==
  /\ pos = 0 /\ errno = "0"
  /\ cnt = 0 /\ ptr = 0 /\ buf = [i \in 1 .. BufSize |-> 0]
  /\ op = "idle" /\ robust = FALSE /\ want = 0 /\ n = 0 /\ user = << >>
  /\ taken = 0 /\ last = noAnswer

span(from, k) == [i \in 1 .. k |-> from + i]
atMost(a, b)  == IF a < b THEN a ELSE b

-------------------------------------------------------------------------------
(* A call begins; one descriptor is read either through the buffer or      *)
(* directly.                                                               *)
Call(f, count, inWrapper) ==
  /\ op = "idle"
  /\ f = "rio_readn" => cnt <= 0
  /\ op' = f /\ want' = count /\ robust' = inWrapper
  /\ n' = IF f = "rio_readlineb" THEN 1 ELSE count
  /\ user' = << >>
  /\ last' = noAnswer
  /\ UNCHANGED <<stream, rio_t, taken>>

(* The running call returns rc; `got' is what it leaves in the buffer of   *)
(* the user, which nobody looks at if rc is -1.                            *)
Return(rc, got) ==
  /\ op' = IF rc < 0 /\ robust THEN "died" ELSE "idle"
  /\ taken' = taken + (IF op \in Reads THEN Len(got) ELSE 0)
  /\ last' = [op |-> op, want |-> want, rc |-> rc, bytes |-> got,
              eof |-> pos = Size /\ cnt <= 0]
  /\ user' = << >> /\ n' = 0 /\ want' = 0 /\ robust' = FALSE

(* read(fd, ..., count) as the callers see it. *)
ReadSome(count, k) == k \in 1 .. atMost(count, Size - pos)
ReadEof            == pos = Size
Fail(why)          == errno' = why /\ UNCHANGED pos

-------------------------------------------------------------------------------
(* rio_readn(): no buffer in between. *)

ReadnLoop ==
  /\ op = "rio_readn" /\ n > 0
  /\ \/ \E k \in 1 .. MaxCount :
          /\ ReadSome(n, k)
          /\ pos' = pos + k
          /\ user' = user \o span(pos, k)
          /\ n' = n - k
          /\ UNCHANGED <<errno, op, robust, want, taken, last>>
     \/ Fail("EINTR") /\ UNCHANGED <<call, taken, last>>
     \/ Fail("EIO") /\ Return(-1, user)
     \/ ReadEof /\ Return(want - n, user) /\ UNCHANGED stream
  /\ UNCHANGED rio_t

ReadnDone ==
  /\ op \in {"rio_readn", "rio_readnb"} /\ n = 0
  /\ Return(want, user)
  /\ UNCHANGED <<stream, rio_t>>

-------------------------------------------------------------------------------
(* rio_writen(): a result <= 0 counts as an interruption if errno says so, *)
(* also when write() returned 0 and errno is an old one.                   *)

WritenLoop ==
  /\ op = "rio_writen" /\ n > 0
  /\ \/ \E k \in 1 .. n :
          /\ user' = user \o span(want - n, k)
          /\ n' = n - k
          /\ UNCHANGED <<stream, op, robust, want, taken, last>>
     \/ Fail("EINTR") /\ UNCHANGED <<call, taken, last>>
     \/ Fail("EIO") /\ Return(-1, user)
     \/ errno # "EINTR" /\ Return(-1, user) /\ UNCHANGED stream
  /\ UNCHANGED rio_t

WritenDone ==
  /\ op = "rio_writen" /\ n = 0
  /\ Return(want, user)
  /\ UNCHANGED <<stream, rio_t>>

-------------------------------------------------------------------------------
(* rio_read(): the buffer is filled again when it is empty. *)

(* What rio_readnb() and rio_readlineb() still need. *)
needs ==
  \/ op = "rio_readnb" /\ n > 0
  \/ op = "rio_readlineb" /\ n < want

(* mutant: the buffer pointer is not reset *)
resetPtr_forgotten == ptr

resetPtr == 0

Refill ==
  /\ needs /\ cnt <= 0
  /\ \E k \in 1 .. BufSize :
       /\ ReadSome(BufSize, k)
       /\ pos' = pos + k
       /\ cnt' = k
       /\ buf' = [i \in 1 .. BufSize |-> IF i <= k THEN pos + i ELSE buf[i]]
       /\ ptr' = resetPtr
  /\ UNCHANGED <<errno, call, taken, last>>

RefillInterrupted ==
  /\ needs /\ cnt <= 0
  /\ Fail("EINTR")
  /\ cnt' = -1
  /\ UNCHANGED <<ptr, buf, call, taken, last>>

RefillFailed ==
  /\ needs /\ cnt <= 0
  /\ Fail("EIO")
  /\ cnt' = -1
  /\ Return(-1, user)
  /\ UNCHANGED <<ptr, buf>>

(* rio_read() returns 0. *)
RefillEof ==
  /\ needs /\ cnt <= 0
  /\ ReadEof
  /\ cnt' = 0
  /\ Return(IF op = "rio_readnb" THEN want - n ELSE n - 1, user)
  /\ UNCHANGED <<stream, ptr, buf>>

(* Bytes behind the end of the buffer are whatever lies there. *)
copied(k) == [i \in 1 .. k |-> IF ptr + i <= BufSize THEN buf[ptr + i] ELSE Size]

(* mutant: the count that was asked for is taken off *)
Copy_asked(k) ==
  /\ user' = user \o copied(k)
  /\ ptr' = ptr + k
  /\ cnt' = cnt - n

Copy(k) ==
  /\ user' = user \o copied(k)
  /\ ptr' = ptr + k
  /\ cnt' = cnt - k

(* rio_readnb(): as many bytes as there are. *)
CopyBlock ==
  /\ op = "rio_readnb" /\ needs /\ cnt > 0
  /\ Copy(atMost(n, cnt))
  /\ n' = n - atMost(n, cnt)
  /\ UNCHANGED <<stream, buf, op, robust, want, taken, last>>

(* mutant: the newline is not counted *)
lineLength_short(k) == k - 1

(* n++ for the newline, and n - 1 is returned. *)
lineLength(k) == (k + 1) - 1

(* rio_readlineb(): one byte at a time, until a newline. *)
CopyChar ==
  /\ op = "rio_readlineb" /\ needs /\ cnt > 0
  /\ copied(1)[1] \notin Newlines
  /\ Copy(1)
  /\ n' = n + 1
  /\ UNCHANGED <<stream, buf, op, robust, want, taken, last>>

CopyNewline ==
  /\ op = "rio_readlineb" /\ needs /\ cnt > 0
  /\ copied(1)[1] \in Newlines
  /\ ptr' = ptr + 1
  /\ cnt' = cnt - 1
  /\ Return(lineLength(n), user \o copied(1))
  /\ UNCHANGED <<stream, buf>>

(* n reaches maxlen: the rest of the line is left for the next call.       *)
LineFull ==
  /\ op = "rio_readlineb" /\ n >= want
  /\ Return(n - 1, user)
  /\ UNCHANGED <<stream, rio_t>>

-------------------------------------------------------------------------------

(* Left out: rio_readlineb() with maxlen 0, which would not read but       *)
(* write its zero behind a buffer of no bytes.                             *)
RioNext ==
  \/ \E f \in Reads \cup {"rio_writen"}, count \in 0 .. MaxCount, w \in BOOLEAN :
       (f = "rio_readlineb" => count > 0) /\ Call(f, count, w)
  \/ ReadnLoop \/ ReadnDone \/ WritenLoop \/ WritenDone
  \/ Refill \/ RefillInterrupted \/ RefillFailed \/ RefillEof
  \/ CopyBlock \/ CopyChar \/ CopyNewline \/ LineFull

RioSpec == RioInit /\ [][RioNext]_rioVars

-------------------------------------------------------------------------------
(* No byte is skipped, delivered twice or out of order, over any sequence  *)
(* of reads with short counts, interruptions and errors: what the caller   *)
(* has, then what is in the buffer, is what the kernel delivered.  Bytes   *)
(* are dropped only with a call that returns -1.                           *)
StreamInOrder ==
  /\ op # "rio_writen" => user = span(taken, Len(user))
  /\ \A i \in 1 .. cnt : ptr + i <= BufSize /\ buf[ptr + i] = pos - cnt + i
  /\ taken + (IF op = "rio_writen" THEN 0 ELSE Len(user))
       + (IF cnt > 0 THEN cnt ELSE 0) = pos

(* What a result says: the count is the number of bytes; a read is short   *)
(* at the end of the stream only, a line ends at its first newline, at     *)
(* maxlen - 1 bytes or at the end of the stream, and a write is complete.  *)
AnswerComplete ==
  last.rc >= 0 =>
    /\ last.rc = Len(last.bytes)
    /\ last.op \in {"rio_readn", "rio_readnb"} => last.rc = last.want \/ last.eof
    /\ last.op = "rio_writen" => last.bytes = span(0, last.want)
    /\ last.op = "rio_readlineb" =>
         LET lines == {i \in DOMAIN last.bytes : last.bytes[i] \in Newlines}
         IN  /\ lines \subseteq {last.rc}
             /\ lines # {} \/ last.rc = last.want - 1 \/ last.eof

===============================================================================
