------------------------------ MODULE TcpEcho -------------------------------
(***************************************************************************)
(* tcpEchoServer (main.c): one thread that accepts a client, reads from it *)
(* until LEN bytes have come, writes LEN bytes back and closes.  Every     *)
(* read stores what it got at the start of the buffer; a failed accept is  *)
(* handled like a client, on descriptor -1; a failed read counts as -1     *)
(* bytes.                                                                  *)
(*                                                                         *)
(* Clients, the kernel's queue of connections and its errors are external. *)
(* A byte is <<client, position in what the client sent>>.                 *)
(***************************************************************************)
EXTENDS Integers, Sequences

CONSTANTS
    Client,
    NULL,         \* no client: descriptor -1
    LEN,
    INT_MAX,
    MAXBACKLOG,   \* connections the kernel keeps for accept
    MaxSent       \* bound: bytes a client sends

ASSUME TcpEchoAssumption ==
    /\ NULL \notin Client
    /\ LEN \in Nat \ {0}
    /\ INT_MAX \in Nat /\ INT_MAX > LEN
    /\ MAXBACKLOG \in Nat
    /\ MaxSent \in Nat

VARIABLES
    main,            \* where the server is
    clientfd,        \* whose connection it has, NULL for -1
    buffer, bytesRemaining,
    backlog,         \* connections waiting for accept
    conn,            \* state of each connection, as the server's kernel has it
    sent, consumed,  \* bytes the client sent; those the server read
    error,           \* the connection was reset: "none", "pending", "reported"
    got              \* what the client was sent back

serverVars == <<main, clientfd, buffer, bytesRemaining>>
netVars == <<backlog, conn, sent, consumed, error, got>>
vars == <<serverVars, netVars>>

Junk == [k \in 1..LEN |-> <<NULL, 0>>]

Init ==
    /\ main = "socket"
    /\ clientfd = NULL
    /\ buffer = Junk
    /\ bytesRemaining = 0
    /\ backlog = <<>>
    /\ conn = [c \in Client |-> "none"]
    /\ sent = [c \in Client |-> 0]
    /\ consumed = [c \in Client |-> 0]
    /\ error = [c \in Client |-> "none"]
    /\ got = [c \in Client |-> <<>>]

-----------------------------------------------------------------------------
(* socket_v4 *)

Go(from, to) == main = from /\ main' = to

SetUp ==
    /\ Go("socket", "bind") \/ Go("bind", "listen") \/ Go("listen", "accept")
    /\ UNCHANGED <<clientfd, buffer, bytesRemaining, netVars>>

SetUpFails ==
    /\ Go("socket", "exited") \/ Go("bind", "exited") \/ Go("listen", "exited")
    /\ UNCHANGED <<clientfd, buffer, bytesRemaining, netVars>>

\* client_handle's buffer is not initialised: it holds what the last call left
\* in its place on the stack, or something else.
BudgetOneMore == LEN + 1
Budget == LEN

Handle(c) ==
    /\ main' = "read"
    /\ clientfd' = c
    /\ buffer' \in {buffer, Junk}
    /\ bytesRemaining' = Budget

Accept ==
    /\ main = "accept"
    /\ backlog # <<>>
    /\ Handle(Head(backlog))
    /\ backlog' = Tail(backlog)
    /\ conn' = [conn EXCEPT ![Head(backlog)] = "open"]
    /\ UNCHANGED <<sent, consumed, error, got>>

AcceptFailsExits ==
    /\ Go("accept", "exited")
    /\ UNCHANGED <<clientfd, buffer, bytesRemaining, netVars>>
AcceptFails ==
    /\ main = "accept"
    /\ Handle(NULL)
    /\ UNCHANGED netVars

Close ==
    /\ Go("close", "accept")
    /\ conn' = [c \in Client |-> IF c = clientfd THEN "closed" ELSE conn[c]]
    /\ clientfd' = NULL
    /\ UNCHANGED <<buffer, bytesRemaining, backlog, sent, consumed, error, got>>

-----------------------------------------------------------------------------
(* client_handle.  A read at the end of the stream returns 0 and changes   *)
(* nothing, the loop goes round for ever: that has no action here, and so  *)
(* neither has a client that closes its side.                              *)

\* bytesRemaining - bread, an int; gcc without optimisation wraps it.
NeverWraps(r) == r
Wrapped(r) == IF r > INT_MAX THEN r - 2 * (INT_MAX + 1) ELSE r

SetRemaining(r) ==
    /\ bytesRemaining' = Wrapped(r)
    /\ main' = IF bytesRemaining' > 0 THEN "read" ELSE "write"

Unread(c) == sent[c] - consumed[c]

LeftForgets(k) == LEN - k
Left(k) == bytesRemaining - k

Read(k) ==
    /\ main = "read" /\ clientfd # NULL
    /\ k <= bytesRemaining /\ k <= Unread(clientfd)
    /\ buffer' = [j \in 1..LEN |->
                    IF j <= k THEN <<clientfd, consumed[clientfd] + j>> ELSE buffer[j]]
    /\ consumed' = [consumed EXCEPT ![clientfd] = @ + k]
    /\ SetRemaining(Left(k))
    /\ UNCHANGED <<clientfd, backlog, conn, sent, error, got>>

LeftIgnoringFailure == bytesRemaining
LeftByFailure == bytesRemaining + 1

\* ECONNRESET, once: from then on the stream is at its end.
ReadReset ==
    /\ main = "read" /\ clientfd # NULL
    /\ Unread(clientfd) = 0
    /\ error[clientfd] = "pending"
    /\ error' = [error EXCEPT ![clientfd] = "reported"]
    /\ SetRemaining(LeftByFailure)
    /\ UNCHANGED <<clientfd, buffer, backlog, conn, sent, consumed, got>>

\* EBADF: "bread < -1" is never true.
ReadFails ==
    /\ main = "read" /\ clientfd = NULL
    /\ SetRemaining(LeftByFailure)
    /\ UNCHANGED <<clientfd, buffer, netVars>>

Write ==
    /\ Go("write", "close")
    /\ clientfd # NULL
    /\ error[clientfd] = "none"
    /\ got' = [got EXCEPT ![clientfd] = buffer]
    /\ UNCHANGED <<clientfd, buffer, bytesRemaining, backlog, conn, sent, consumed, error>>

WriteFails ==
    /\ Go("write", "close")
    /\ clientfd # NULL => error[clientfd] # "none"
    /\ UNCHANGED <<clientfd, buffer, bytesRemaining, netVars>>

\* EPIPE comes with a SIGPIPE, which the program does not handle.
WriteKills ==
    /\ Go("write", "exited")
    /\ clientfd # NULL
    /\ error[clientfd] # "none"
    /\ UNCHANGED <<clientfd, buffer, bytesRemaining, netVars>>

ServerStep ==
    \/ SetUp \/ SetUpFails \/ Accept \/ AcceptFails
    \/ \E k \in 1..LEN : Read(k)
    \/ ReadReset \/ ReadFails \/ Write \/ WriteFails \/ WriteKills \/ Close

-----------------------------------------------------------------------------
(* Clients, external *)

Connect(c) ==
    /\ main \in {"accept", "read", "write", "close"}
    /\ conn[c] = "none"
    /\ Len(backlog) < MAXBACKLOG
    /\ conn' = [conn EXCEPT ![c] = "waiting"]
    /\ backlog' = Append(backlog, c)
    /\ UNCHANGED <<serverVars, sent, consumed, error, got>>

Send(c) ==
    /\ conn[c] \in {"waiting", "open"}
    /\ error[c] = "none"
    /\ sent[c] < MaxSent
    /\ sent' = [sent EXCEPT ![c] = @ + 1]
    /\ UNCHANGED <<serverVars, backlog, conn, consumed, error, got>>

Reset(c) ==
    /\ conn[c] \in {"waiting", "open"}
    /\ error[c] = "none"
    /\ error' = [error EXCEPT ![c] = "pending"]
    /\ UNCHANGED <<serverVars, backlog, conn, sent, consumed, got>>

ClientStep == \E c \in Client : Connect(c) \/ Send(c) \/ Reset(c)

Next == ServerStep \/ ClientStep

\* The one thread runs; clients owe nothing.
Spec == Init /\ [][Next]_vars /\ WF_vars(ServerStep)

-----------------------------------------------------------------------------
(* Properties *)

TypeOK ==
    /\ main \in {"socket", "bind", "listen", "accept", "read", "write", "close", "exited"}
    /\ clientfd \in Client \cup {NULL}
    /\ buffer \in [1..LEN -> (Client \cup {NULL}) \X Nat]
    /\ bytesRemaining \in -INT_MAX - 1..INT_MAX
    /\ backlog \in Seq(Client)
    /\ conn \in [Client -> {"none", "waiting", "open", "closed"}]
    /\ sent \in [Client -> 0..MaxSent]
    /\ consumed \in [Client -> Nat]
    /\ error \in [Client -> {"none", "pending", "reported"}]
    /\ got \in [Client -> {<<>>} \cup [1..LEN -> (Client \cup {NULL}) \X Nat]]

\* b begins with the latest of the m bytes read of c, in the order they came.
Latest(b, c, m) == \E k \in 1..LEN : k <= m /\ \A j \in 1..k : b[j] = <<c, m - k + j>>

\* What is left to read and what was read of the client add up to LEN, one more
\* once its reset was counted; nobody is answered before LEN bytes came from it,
\* and an answer begins with its own last bytes, up to the LENth, whatever an
\* earlier piece or an earlier client left behind them.
Counted ==
    /\ main = "read" /\ clientfd # NULL =>
         bytesRemaining + consumed[clientfd]
           = LEN + IF error[clientfd] = "reported" THEN 1 ELSE 0
    /\ \A c \in Client : got[c] # <<>> => consumed[c] = LEN /\ Latest(got[c], c, LEN)

\* No read that returns data was allowed more than the buffer holds, although
\* failed reads raise what is left above LEN.
InBuffer == [][consumed' # consumed => bytesRemaining <= LEN]_vars

\* Once it listens, only a connection that was reset under a write ends the
\* server; a failing accept does not, "Do not exit".
OnlyResetEnds ==
    [][main' = "exited" /\ main \in {"accept", "read", "write", "close"}
         => clientfd # NULL /\ error[clientfd] # "none" /\ consumed[clientfd] = LEN]_vars

\* A failed accept costs the time in which an int overflows; then the server
\* accepts again.
AcceptFailureSurvived ==
    main = "read" /\ clientfd = NULL ~> main = "accept"

\* A client that is being read and has sent LEN bytes is answered, in whatever
\* pieces they come, unless its connection is reset.
Answered ==
    \A c \in Client :
      main = "read" /\ clientfd = c /\ sent[c] >= LEN ~> got[c] # <<>> \/ error[c] # "none"

-----------------------------------------------------------------------------
(* What the README says and the code does not do *)

\* README.md: "echo back any input to the server" - so what comes back is what
\* was sent.
EchoesInput ==
    \A c \in Client : got[c] # <<>> => \A k \in 1..LEN : got[c][k] = <<c, k>>
=============================================================================
