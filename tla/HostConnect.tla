----------------------------- MODULE HostConnect -----------------------------
(***************************************************************************)
(* get_socket and connect_retry, which fmc112.c, tcpio.c and udptest.c     *)
(* each carry in a version of their own: try the addresses of the host one *)
(* after the other until one gives a socket.  Every call into the kernel   *)
(* may fail.  The descriptors of the process are what the versions differ  *)
(* in, so they are kept with what each of them is: fmc112 gets it right,   *)
(* tcpio closes a wrong descriptor, and udptest may return a socket that   *)
(* is not bound.                                                           *)
(***************************************************************************)
EXTENDS Integers, FiniteSets, FiniteSetsExt

CONSTANTS
  Programs,   \* the programs that are run
  NAddr       \* addresses that getaddrinfo may return

ProgramsAssumption == Programs \subseteq {"fmc112", "tcpio", "udptest"}
NAddrAssumption == NAddr \in Nat \ {0}

Tries == 2    \* passes of the loop over nsec = 1, 2: MAXSLEEP is 2

VARIABLES
  program, pc,
  list,       \* length of addrList
  ap,         \* the address that is tried
  tried,      \* calls of connect for this address
  sockfd,     \* the local of get_socket
  fd,         \* what each descriptor of the process is
  peer,       \* external: the addresses that accept, and from which try on
  skipped     \* history: addresses for which a call other than connect failed

vars == <<program, pc, list, ap, tried, sockfd, fd, peer, skipped>>

Std  == 0 .. 2
Fds  == 0 .. NAddr + 3
Open == {d \in Fds : fd[d] # "closed"}
Free == Min(Fds \ Open)      \* the kernel hands out the lowest free number

Init ==
  /\ program \in Programs /\ pc = "getaddrinfo" /\ list = 0 /\ ap = 1 /\ tried = 0
  /\ sockfd = -1
  /\ fd = [d \in Fds |-> IF d \in Std THEN "std" ELSE "closed"]
  /\ peer \in [1 .. NAddr -> 1 .. Tries + 1] /\ skipped = {}
-----------------------------------------------------------------------------
Goto(here, next) == pc = here /\ pc' = next
Close(d) == fd' = [fd EXCEPT ![d] = "closed"]

GetAddrInfo ==
  /\ \/ Goto("getaddrinfo", "failed") /\ UNCHANGED list
     \/ Goto("getaddrinfo", "socket") /\ list' \in 1 .. NAddr
  /\ UNCHANGED <<program, ap, tried, sockfd, fd, peer, skipped>>

NextAddressPast ==      \* mutant of NextAddress: the end of the list is not looked at
  ap' = ap + 1 /\ tried' = 0 /\ pc' = "socket"

(* continue: the loop goes on with the next address, if there is one. *)
NextAddress ==
  /\ ap' = ap + 1 /\ tried' = 0
  /\ pc' = IF ap < list THEN "socket" ELSE "none"

Socket ==
  /\ pc = "socket"
  /\ \/ /\ pc' = "setsockopt" /\ sockfd' = Free /\ fd' = [fd EXCEPT ![Free] = "new"]
        /\ UNCHANGED <<ap, tried, skipped>>
     \/ NextAddress /\ sockfd' = -1 /\ skipped' = skipped \cup {ap} /\ UNCHANGED fd
  /\ UNCHANGED <<program, list, peer>>

(* The options of fmc112 (two), tcpio and udptest (one).                   *)
SetSockOpt ==
  /\ \/ Goto("setsockopt", "keepalive") /\ program = "fmc112"
     \/ Goto("keepalive", "connect")
     \/ Goto("setsockopt", "connect") /\ program = "tcpio"
     \/ Goto("setsockopt", "bind") /\ program = "udptest"
  /\ UNCHANGED <<program, list, ap, tried, sockfd, fd, peer, skipped>>

OptionClosesOther ==    \* mutant of OptionCloses: the number of the option
  {1}

(* tcpio closes the descriptor with the number of sockopt, which is 1.     *)
OptionCloses == {IF program = "tcpio" THEN 1 ELSE sockfd}

SetSockOptFails ==
  /\ pc \in {"setsockopt", "keepalive"}
  /\ fd' = [d \in Fds |-> IF d \in OptionCloses THEN "closed" ELSE fd[d]]
  /\ NextAddress /\ skipped' = skipped \cup {ap}
  /\ UNCHANGED <<program, list, sockfd, peer>>

ConnectOnceOnly ==      \* mutant of Connect: no second try
  /\ pc = "connect" /\ tried' = tried + 1
  /\ \/ /\ tried' >= peer[ap] /\ pc' = "success" /\ fd' = [fd EXCEPT ![sockfd] = "ready"]
     \/ tried' < peer[ap] /\ pc' = "refused" /\ UNCHANGED fd
  /\ UNCHANGED <<program, list, ap, sockfd, peer, skipped>>

ConnectForever ==       \* mutant of Connect: nsec is not doubled
  /\ pc = "connect" /\ tried' = tried
  /\ \/ /\ tried' + 1 >= peer[ap] /\ pc' = "success" /\ fd' = [fd EXCEPT ![sockfd] = "ready"]
     \/ tried' + 1 < peer[ap] /\ pc' = "sleep" /\ UNCHANGED fd
  /\ UNCHANGED <<program, list, ap, sockfd, peer, skipped>>

(* connect_retry: a try, a second's sleep and another try. *)
Connect ==
  /\ pc = "connect" /\ tried' = tried + 1
  /\ \/ /\ tried' >= peer[ap] /\ pc' = "success" /\ fd' = [fd EXCEPT ![sockfd] = "ready"]
     \/ /\ tried' < peer[ap] /\ UNCHANGED fd
        /\ pc' = IF tried' < Tries THEN "sleep" ELSE "refused"
  /\ UNCHANGED <<program, list, ap, sockfd, peer, skipped>>

Sleep == Goto("sleep", "connect") /\ UNCHANGED <<program, list, ap, tried, sockfd, fd, peer, skipped>>

RefusedKept ==          \* mutant of Refused: the socket is left open
  /\ pc = "refused" /\ UNCHANGED fd /\ NextAddress
  /\ UNCHANGED <<program, list, sockfd, peer, skipped>>

Refused ==
  /\ pc = "refused" /\ Close(sockfd) /\ NextAddress
  /\ UNCHANGED <<program, list, sockfd, peer, skipped>>

NoneForgets ==          \* mutant of None: ap == NULL is not looked at
  Goto("none", "success") /\ UNCHANGED <<program, list, ap, tried, sockfd, fd, peer, skipped>>

(* No address succeeded: return -1; udptest returns its sockfd all the     *)
(* same.                                                                   *)
None ==
  /\ Goto("none", IF program = "udptest" THEN "success" ELSE "failed")
  /\ UNCHANGED <<program, list, ap, tried, sockfd, fd, peer, skipped>>

(* udptest's errout returns sockfd, whether bind has worked or not. *)
Bind ==
  /\ Goto("bind", "success")
  /\ fd' \in {fd, [fd EXCEPT ![sockfd] = "ready"]}
  /\ UNCHANGED <<program, list, ap, tried, sockfd, peer, skipped>>

Returned == pc \in {"success", "failed"}
Return   == Returned /\ UNCHANGED vars

Call == GetAddrInfo \/ Socket \/ SetSockOpt \/ SetSockOptFails \/ Connect \/ Sleep
        \/ Refused \/ None \/ Bind
Next == Call \/ Return

(* Every call comes back: connect gives up, sleep ends. *)
Spec == Init /\ [][Next]_vars /\ WF_vars(Call)

Result == IF pc = "failed" THEN -1 ELSE sockfd
-----------------------------------------------------------------------------
TypeOK ==
  /\ program \in Programs
  /\ pc \in {"getaddrinfo", "socket", "setsockopt", "keepalive", "connect", "sleep",
             "refused", "none", "bind", "success", "failed"}
  /\ list \in 0 .. NAddr /\ ap \in 1 .. NAddr + 1 /\ tried \in 0 .. Tries
  /\ sockfd \in Fds \cup {-1}
  /\ fd \in [Fds -> {"closed", "std", "new", "ready"}]
  /\ peer \in [1 .. NAddr -> 1 .. Tries + 1] /\ skipped \subseteq 1 .. NAddr

(* What the callers take from "if(sockfd < 0) Failed to establish a        *)
(* socket": a descriptor that is not negative is a socket that is          *)
(* connected or bound.                                                     *)
SocketReady == Returned /\ Result >= 0 => fd[Result] = "ready"

(* Standard input, output and error stay what they were: what the program  *)
(* prints never goes to a socket.                                          *)
StandardStreams == \A d \in Std : fd[d] = "std"

(* The socket that the program goes on with is none of them, so that it    *)
(* does not talk to the board with every printf (tcpio.c 330).             *)
SocketApart == Returned => Result \notin Std

(* Nothing but the socket that is returned stays open, however many        *)
(* addresses failed in whatever way.                                       *)
NothingLeftOpen == Returned => Open \subseteq Std \cup {Result}

(* A host that accepts at one of its addresses, if only at the second try  *)
(* (a board that comes up late), is reached: failure means that every      *)
(* address refused twice or failed in a call other than connect.           *)
GivenUpOnlyWhenRefused ==
  pc = "failed" => \A a \in 1 .. list : peer[a] > Tries \/ a \in skipped
=============================================================================
