------------------------------ MODULE OpenSocket ------------------------------
(***************************************************************************)
(* open_clientfd() and open_listenfd() of libcsapp: each walks the list of *)
(* addresses that getaddrinfo() returns until a socket can be connected or *)
(* bound.  Every call on the way may fail.                                 *)
(***************************************************************************)
EXTENDS Integers, FiniteSets

CONSTANTS
  MaxAddresses,   (* bound: length of the list                              *)
  MaxSockets,     (* bound: descriptors a process can have                  *)
  MaxBadCloses    (* bound: how often close() fails                         *)

ASSUME SocketAssumption ==
  MaxAddresses \in Nat /\ MaxSockets \in Nat /\ MaxBadCloses \in Nat

VARIABLES
  sockets,   (* descriptors of sockets that are open                        *)
  owned,     (* those of them that open_...() returned to its callers       *)
  place,     (* the call that comes next                                    *)
  f,         (* the function that runs                                      *)
  strict,    (* called through Open_...(), which ends the process           *)
  left,      (* addresses from p on                                         *)
  lists,     (* address lists that have not been freed                      *)
  fd,        (* clientfd, listenfd                                          *)
  result,    (* of the call that returned last                              *)
  badCloses  (* how often close() has failed                                *)

frame   == <<place, f, strict, left, fd>>
netVars == <<sockets, owned, lists, frame, result, badCloses>>

NoFd    == -1
Returns == {"open_clientfd", "open_listenfd"}

SocketType ==
  /\ sockets \subseteq 0 .. MaxSockets - 1 /\ owned \subseteq sockets
  /\ place \in {"idle", "getaddrinfo", "socket", "connect", "bind", "close",
                "freeaddrinfo", "listen", "close listen", "died"}
  /\ f \in Returns /\ strict \in BOOLEAN
  /\ left \in 0 .. MaxAddresses
  /\ lists \in Nat
  /\ fd \in {NoFd} \cup 0 .. MaxSockets - 1
  /\ result \in {-2, -1} \cup Nat
  /\ badCloses \in 0 .. MaxBadCloses

SocketInit ==
  /\ sockets = {} /\ owned = {}
  /\ place = "idle" /\ f = "open_clientfd" /\ strict = FALSE
  /\ left = 0 /\ lists = 0 /\ fd = NoFd
  /\ result = 0 /\ badCloses = 0

Begin(which, inWrapper) ==
  /\ place = "idle"
  /\ place' = "getaddrinfo" /\ f' = which /\ strict' = inWrapper
  /\ UNCHANGED <<sockets, owned, left, lists, fd, result, badCloses>>

(* The caller of open_...() closes a descriptor it got. *)
CallerCloses ==
  /\ place = "idle"
  /\ \E s \in owned : owned' = owned \ {s} /\ sockets' = sockets \ {s}
  /\ UNCHANGED <<lists, frame, result, badCloses>>

CallReturns(rc) ==
  /\ place' = IF rc < 0 /\ strict THEN "died" ELSE "idle"
  /\ result' = rc
  /\ owned' = IF rc >= 0 THEN owned \cup {rc} ELSE owned
  /\ left' = 0 /\ fd' = NoFd /\ strict' = FALSE /\ f' = "open_clientfd"

(* -2 without a list, or a list of at least one address.                   *)
Getaddrinfo ==
  /\ place = "getaddrinfo"
  /\ \/ CallReturns(-2) /\ UNCHANGED lists
     \/ /\ left' \in 1 .. MaxAddresses
        /\ lists' = lists + 1
        /\ place' = "socket"
        /\ UNCHANGED <<owned, f, strict, fd, result>>
  /\ UNCHANGED <<sockets, badCloses>>

unusedFds == (0 .. MaxSockets - 1) \ sockets

(* p = p->ai_next *)
Advance == left' = left - 1 /\ place' = "socket"

Socket ==
  /\ place = "socket" /\ left > 0
  /\ \/ \E s \in unusedFds :
          /\ \A t \in unusedFds : s <= t
          /\ sockets' = sockets \cup {s}
          /\ fd' = s
          /\ place' = IF f = "open_clientfd" THEN "connect" ELSE "bind"
          /\ UNCHANGED left
     \/ Advance /\ fd' = NoFd /\ UNCHANGED sockets
  /\ UNCHANGED <<owned, lists, f, strict, result, badCloses>>

(* connect() != -1; setsockopt(), whose result is not used, and bind()     *)
ConnectOrBind ==
  /\ place \in {"connect", "bind"}
  /\ place' \in {"freeaddrinfo", "close"}
  /\ UNCHANGED <<sockets, owned, lists, f, strict, left, fd, result, badCloses>>

(* mutant: the socket is not closed *)
closed_not(s) == sockets

closed(s) == sockets \ {s}

(* The descriptor is gone also when close() fails; the function then       *)
(* returns at once.                                                        *)
Close ==
  /\ place = "close"
  /\ sockets' = closed(fd)
  /\ \/ Advance /\ UNCHANGED <<owned, f, strict, fd, result, badCloses>>
     \/ badCloses < MaxBadCloses /\ badCloses' = badCloses + 1 /\ CallReturns(-1)
  /\ UNCHANGED lists

(* mutant: the list is freed on success only *)
freeList_success == IF left > 0 THEN lists - 1 ELSE lists

freeList == lists - 1

(* After the loop: p is NULL if no address worked. *)
Freeaddrinfo ==
  /\ place = "freeaddrinfo" \/ (place = "socket" /\ left = 0)
  /\ lists' = freeList
  /\ CASE left = 0 -> CallReturns(-1)
       [] left > 0 /\ f = "open_clientfd" -> CallReturns(fd)
       [] left > 0 /\ f = "open_listenfd" ->
            place' = "listen" /\ UNCHANGED <<owned, f, strict, left, fd, result>>
  /\ UNCHANGED <<sockets, badCloses>>

Listen ==
  /\ place = "listen"
  /\ \/ CallReturns(fd)
     \/ place' = "close listen" /\ UNCHANGED <<owned, f, strict, left, fd, result>>
  /\ UNCHANGED <<sockets, lists, badCloses>>

CloseListen ==
  /\ place = "close listen"
  /\ sockets' = closed(fd)
  /\ CallReturns(-1)
  /\ UNCHANGED <<lists, badCloses>>

SocketNext ==
  \/ \E which \in Returns, w \in BOOLEAN : Begin(which, w)
  \/ CallerCloses \/ Getaddrinfo \/ Socket \/ ConnectOrBind \/ Close
  \/ Freeaddrinfo \/ Listen \/ CloseListen

SocketSpec == SocketInit /\ [][SocketNext]_netVars

-------------------------------------------------------------------------------
(* The descriptor the running call is responsible for. *)
inCall ==
  IF place \in {"connect", "bind", "close", "listen", "close listen", "freeaddrinfo"}
  THEN {fd} ELSE {}

(* Whatever fails on the way and whichever address works, an open socket   *)
(* belongs to a caller or to the running call, never to both: none is      *)
(* leaked, none is returned twice, none is closed under its owner.         *)
NoSocketLeak == sockets = owned \cup inCall /\ owned \cap inCall = {}

(* The list of addresses is freed on every way out but one: it is lost     *)
(* each time that close() fails in the loop.                               *)
NoListLeak ==
  lists = badCloses + (IF place \in {"socket", "connect", "bind", "close", "freeaddrinfo"}
                       THEN 1 ELSE 0)

===============================================================================
