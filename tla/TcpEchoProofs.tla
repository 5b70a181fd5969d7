--------------------------- MODULE TcpEchoProofs ----------------------------
(***************************************************************************)
(* Proofs about tcpEchoServer, for any number of clients, any buffer and   *)
(* any width of int above it.                                              *)
(*                                                                         *)
(* The count of bytes left is wrong after a failed read, which adds one.   *)
(* What keeps the next read inside the buffer is not the count: after the  *)
(* failure there is nothing to read any more.  The invariant says so.      *)
(***************************************************************************)
EXTENDS TcpEcho, SequenceTheorems, TLAPS

-----------------------------------------------------------------------------
(* The inductive invariant *)

\* The queue holds each waiting connection once.
Queue ==
    /\ \A j \in 1..Len(backlog) : conn[backlog[j]] = "waiting"
    /\ \A j, k \in 1..Len(backlog) : backlog[j] = backlog[k] => j = k

\* What was not accepted yet was neither read nor answered.
Fresh ==
    \A c \in Client :
      conn[c] \in {"none", "waiting"} =>
        consumed[c] = 0 /\ error[c] # "reported" /\ got[c] = <<>>

\* The server has a client only while it handles it, and answers it last.
Current ==
    /\ main \in {"socket", "bind", "listen", "accept"} => clientfd = NULL
    /\ clientfd # NULL => conn[clientfd] = "open"
    /\ main \in {"read", "write"} /\ clientfd # NULL => got[clientfd] = <<>>

\* A reset is reported when everything is read, and nothing is sent after it.
Streams ==
    \A c \in Client :
      /\ consumed[c] <= sent[c]
      /\ error[c] = "reported" => consumed[c] = sent[c]
      /\ got[c] # <<>> => consumed[c] = LEN

\* The count while a client is read from, and when the loop is left.
Counting ==
    clientfd # NULL =>
      /\ main = "read" =>
           bytesRemaining + consumed[clientfd]
             = LEN + IF error[clientfd] = "reported" THEN 1 ELSE 0
      /\ main = "read" => bytesRemaining > 0
      /\ main = "write" => consumed[clientfd] = LEN

IInv == TypeOK /\ Queue /\ Fresh /\ Current /\ Streams /\ Counting

LEMMA InitHolds ==
    ASSUME Init
    PROVE  IInv
<1> USE TcpEchoAssumption DEF Init
<1>1. TypeOK
  <2>1. buffer \in [1..LEN -> (Client \cup {NULL}) \X Nat]
    BY DEF Junk
  <2>2. backlog \in Seq(Client) /\ bytesRemaining \in -INT_MAX - 1..INT_MAX
    OBVIOUS
  <2>3. /\ conn \in [Client -> {"none", "waiting", "open", "closed"}]
        /\ sent \in [Client -> 0..MaxSent] /\ consumed \in [Client -> Nat]
        /\ error \in [Client -> {"none", "pending", "reported"}]
    OBVIOUS
  <2>4. got \in [Client -> {<<>>} \cup [1..LEN -> (Client \cup {NULL}) \X Nat]]
    OBVIOUS
  <2> QED
    BY <2>1, <2>2, <2>3, <2>4 DEF TypeOK
<1>2. Queue /\ Fresh /\ Current /\ Streams /\ Counting
  BY DEF Queue, Fresh, Current, Streams, Counting
<1> QED
  BY <1>1, <1>2 DEF IInv

-----------------------------------------------------------------------------
(* The server *)

LEMMA WrappedFits ==
    ASSUME NEW r \in -INT_MAX - 1..INT_MAX + 1
    PROVE  /\ Wrapped(r) \in -INT_MAX - 1..INT_MAX
           /\ r <= INT_MAX => Wrapped(r) = r
BY TcpEchoAssumption DEF Wrapped

\* Steps that only move on, those without a client included.
LEMMA MovesKeep ==
    ASSUME IInv, UNCHANGED <<clientfd, buffer, netVars>>,
           bytesRemaining' \in -INT_MAX - 1..INT_MAX,
           main' \in {"socket", "bind", "listen", "accept", "read", "write", "close", "exited"},
           \/ clientfd = NULL
           \/ main' \in {"close", "exited"}
           \/ main' = main /\ bytesRemaining' = bytesRemaining
    PROVE  IInv'
<1> USE DEF netVars
<1>1. TypeOK'
  BY DEF IInv, TypeOK
<1>2. Queue' /\ Fresh' /\ Streams'
  BY DEF IInv, Queue, Fresh, Streams
<1>3. Current' /\ Counting'
  BY DEF IInv, Current, Counting
<1> QED
  BY <1>1, <1>2, <1>3 DEF IInv

LEMMA OtherKeeps ==
    ASSUME IInv, SetUp \/ SetUpFails \/ ReadFails \/ WriteFails \/ WriteKills \/ UNCHANGED vars
    PROVE  IInv'
<1>1. bytesRemaining \in -INT_MAX - 1..INT_MAX
  BY DEF IInv, TypeOK
<1>2. CASE ReadFails
  <2>1. /\ UNCHANGED <<clientfd, buffer, netVars>> /\ clientfd = NULL
        /\ bytesRemaining' = Wrapped(bytesRemaining + 1) /\ main' \in {"read", "write"}
    BY <1>2 DEF ReadFails, SetRemaining, LeftByFailure
  <2>2. bytesRemaining + 1 \in -INT_MAX - 1..INT_MAX + 1
    BY <1>1, TcpEchoAssumption
  <2> QED
    BY <2>1, <2>2, WrappedFits, MovesKeep
<1>3. CASE SetUp \/ SetUpFails
  <2>1. clientfd = NULL
    BY <1>3 DEF SetUp, SetUpFails, Go, IInv, Current
  <2> QED
    BY <1>1, <1>3, <2>1, MovesKeep DEF SetUp, SetUpFails, Go
<1>4. CASE WriteFails \/ WriteKills
  BY <1>1, <1>4, MovesKeep DEF WriteFails, WriteKills, Go
<1>5. CASE UNCHANGED vars
  <2>1. UNCHANGED <<clientfd, buffer, netVars>> /\ UNCHANGED <<main, bytesRemaining>>
    BY <1>5 DEF vars, serverVars
  <2>2. main' \in {"socket", "bind", "listen", "accept", "read", "write", "close", "exited"}
    BY <2>1 DEF IInv, TypeOK
  <2> QED
    BY <1>1, <2>1, <2>2, MovesKeep
<1> QED
  BY <1>2, <1>3, <1>4, <1>5

LEMMA HandleType ==
    ASSUME TypeOK, NEW c \in Client \cup {NULL}, Handle(c)
    PROVE  /\ main' = "read" /\ clientfd' = c /\ bytesRemaining' = LEN
           /\ buffer' \in [1..LEN -> (Client \cup {NULL}) \X Nat]
           /\ bytesRemaining' \in -INT_MAX - 1..INT_MAX
<1>1. Junk \in [1..LEN -> (Client \cup {NULL}) \X Nat]
  BY DEF Junk
<1>2. LEN \in -INT_MAX - 1..INT_MAX
  BY TcpEchoAssumption
<1> QED
  BY <1>1, <1>2 DEF Handle, Budget, TypeOK

LEMMA AcceptFailsKeeps ==
    ASSUME IInv, AcceptFails
    PROVE  IInv'
<1> USE DEF netVars
<1>1. UNCHANGED netVars /\ main = "accept" /\ Handle(NULL) /\ TypeOK
  BY DEF AcceptFails, IInv
<1>2. /\ main' = "read" /\ clientfd' = NULL
      /\ buffer' \in [1..LEN -> (Client \cup {NULL}) \X Nat]
      /\ bytesRemaining' \in -INT_MAX - 1..INT_MAX
  BY <1>1, HandleType
<1>3. TypeOK'
  BY <1>1, <1>2 DEF TypeOK
<1>4. Queue' /\ Fresh' /\ Streams'
  BY <1>1 DEF IInv, Queue, Fresh, Streams
<1>5. Current' /\ Counting'
  BY <1>2 DEF Current, Counting
<1> QED
  BY <1>3, <1>4, <1>5 DEF IInv

LEMMA AcceptKeeps ==
    ASSUME IInv, Accept
    PROVE  IInv'
<1> DEFINE c == Head(backlog)
<1>1. /\ backlog \in Seq(Client) /\ backlog # <<>> /\ backlog' = Tail(backlog)
      /\ conn \in [Client -> {"none", "waiting", "open", "closed"}]
      /\ conn' = [conn EXCEPT ![c] = "open"] /\ Handle(c) /\ TypeOK
      /\ UNCHANGED <<sent, consumed, error, got>>
  BY DEF Accept, IInv, TypeOK
<1>2. /\ Len(backlog) \in Nat /\ Len(backlog) > 0 /\ c = backlog[1] /\ c \in Client
      /\ backlog' \in Seq(Client) /\ Len(backlog') = Len(backlog) - 1
      /\ \A j \in 1..Len(backlog) - 1 : backlog'[j] = backlog[j + 1]
  BY <1>1
<1>3. conn[c] = "waiting"
  BY <1>2 DEF IInv, Queue
<1> HIDE DEF c
<1>4. /\ main' = "read" /\ clientfd' = c /\ bytesRemaining' = LEN
      /\ buffer' \in [1..LEN -> (Client \cup {NULL}) \X Nat]
      /\ bytesRemaining' \in -INT_MAX - 1..INT_MAX
  BY <1>1, <1>2, HandleType
<1>5. TypeOK'
  BY <1>1, <1>2, <1>4 DEF TypeOK
<1>6. Queue'
  BY <1>1, <1>2 DEF IInv, Queue
<1>7. Fresh' /\ Streams'
  BY <1>1, <1>2 DEF IInv, Fresh, Streams
<1>8. consumed[c] = 0 /\ error[c] # "reported" /\ got[c] = <<>>
  BY <1>2, <1>3 DEF IInv, Fresh
<1>9. Current'
  BY <1>1, <1>2, <1>4, <1>8, TcpEchoAssumption DEF Current
<1>10. Counting'
  BY <1>1, <1>4, <1>8, TcpEchoAssumption DEF Counting
<1> QED
  BY <1>5, <1>6, <1>7, <1>9, <1>10 DEF IInv

\* k bytes more of the client, and so many fewer to come.
LEMMA ReadKeeps ==
    ASSUME IInv, NEW k \in 1..LEN, Read(k)
    PROVE  IInv'
<1>1. /\ main = "read" /\ clientfd \in Client /\ clientfd # NULL
      /\ k <= bytesRemaining /\ consumed[clientfd] + k <= sent[clientfd]
      /\ bytesRemaining \in -INT_MAX - 1..INT_MAX
      /\ consumed \in [Client -> Nat] /\ sent \in [Client -> 0..MaxSent]
      /\ consumed' = [consumed EXCEPT ![clientfd] = @ + k]
      /\ UNCHANGED <<clientfd, backlog, conn, sent, error, got>>
  BY DEF Read, Unread, IInv, TypeOK
<1>2. /\ consumed[clientfd] \in Nat /\ sent[clientfd] \in Nat
      /\ consumed'[clientfd] = consumed[clientfd] + k
      /\ \A c \in Client : c # clientfd => consumed'[c] = consumed[c]
      /\ consumed' \in [Client -> Nat]
  BY <1>1
<1>3. /\ bytesRemaining' = bytesRemaining - k
      /\ main' = IF bytesRemaining' > 0 THEN "read" ELSE "write"
      /\ bytesRemaining' \in -INT_MAX - 1..INT_MAX /\ bytesRemaining' >= 0
  <2>1. bytesRemaining - k \in -INT_MAX - 1..INT_MAX + 1 /\ bytesRemaining - k <= INT_MAX
    BY <1>1, TcpEchoAssumption
  <2>2. /\ bytesRemaining' = Wrapped(bytesRemaining - k)
        /\ main' = IF bytesRemaining' > 0 THEN "read" ELSE "write"
    BY DEF Read, SetRemaining, Left
  <2> QED
    BY <1>1, <2>1, <2>2, WrappedFits
<1>4. buffer' \in [1..LEN -> (Client \cup {NULL}) \X Nat]
  <2>1. ASSUME NEW j \in 1..LEN
        PROVE  (IF j <= k THEN <<clientfd, consumed[clientfd] + j>> ELSE buffer[j])
                 \in (Client \cup {NULL}) \X Nat
    BY <1>1, <1>2 DEF IInv, TypeOK
  <2> QED
    BY <2>1 DEF Read
<1>5. TypeOK'
  BY <1>1, <1>2, <1>3, <1>4 DEF IInv, TypeOK
<1>6. Queue'
  BY <1>1 DEF IInv, Queue
<1>7. conn[clientfd] = "open" /\ got[clientfd] = <<>> /\ error[clientfd] # "reported"
  BY <1>1, <1>2 DEF IInv, Current, Streams
<1>8. Fresh'
  BY <1>1, <1>2, <1>7 DEF IInv, Fresh
<1>9. Current'
  BY <1>1, <1>3, <1>7 DEF Current
<1>10. Streams'
  BY <1>1, <1>2, <1>7 DEF IInv, Streams
<1>11. bytesRemaining + consumed[clientfd] = LEN
  BY <1>1, <1>7, TcpEchoAssumption DEF IInv, Counting
<1>12. Counting'
  BY <1>1, <1>2, <1>3, <1>7, <1>11, TcpEchoAssumption DEF Counting
<1> QED
  BY <1>5, <1>6, <1>8, <1>9, <1>10, <1>12 DEF IInv

\* The failure counts one up; the loop goes on, with nothing left to read.
LEMMA ReadResetKeeps ==
    ASSUME IInv, ReadReset
    PROVE  IInv'
<1>1. /\ main = "read" /\ clientfd \in Client /\ clientfd # NULL
      /\ consumed \in [Client -> Nat] /\ sent \in [Client -> 0..MaxSent]
      /\ error \in [Client -> {"none", "pending", "reported"}]
      /\ sent[clientfd] - consumed[clientfd] = 0 /\ error[clientfd] = "pending"
      /\ error' = [error EXCEPT ![clientfd] = "reported"]
      /\ UNCHANGED <<clientfd, buffer, backlog, conn, sent, consumed, got>>
  BY DEF ReadReset, Unread, IInv, TypeOK
<1>2. /\ consumed[clientfd] \in Nat /\ sent[clientfd] \in Nat
      /\ consumed[clientfd] = sent[clientfd]
      /\ error'[clientfd] = "reported"
      /\ \A c \in Client : c # clientfd => error'[c] = error[c]
      /\ error' \in [Client -> {"none", "pending", "reported"}]
  BY <1>1
<1>3. bytesRemaining + consumed[clientfd] = LEN /\ bytesRemaining \in Int /\ bytesRemaining > 0
  BY <1>1, TcpEchoAssumption DEF IInv, Counting, TypeOK
<1>4. /\ bytesRemaining \in -INT_MAX - 1..INT_MAX
      /\ bytesRemaining + 1 \in -INT_MAX - 1..INT_MAX + 1 /\ bytesRemaining + 1 <= INT_MAX
  BY <1>2, <1>3, TcpEchoAssumption DEF IInv, TypeOK
<1>5. /\ bytesRemaining' = bytesRemaining + 1
      /\ main' = IF bytesRemaining' > 0 THEN "read" ELSE "write"
      /\ bytesRemaining' \in -INT_MAX - 1..INT_MAX
  BY <1>4, WrappedFits DEF ReadReset, SetRemaining, LeftByFailure
<1>6. TypeOK'
  BY <1>1, <1>2, <1>5 DEF IInv, TypeOK
<1>7. conn[clientfd] = "open" /\ got[clientfd] = <<>>
  BY <1>1 DEF IInv, Current
<1>8. Queue' /\ Fresh'
  BY <1>1, <1>2, <1>7 DEF IInv, Queue, Fresh
<1>9. Current'
  BY <1>1, <1>5, <1>7 DEF Current
<1>10. Streams'
  BY <1>1, <1>2 DEF IInv, Streams
<1>11. Counting'
  BY <1>1, <1>2, <1>3, <1>5 DEF Counting
<1> QED
  BY <1>6, <1>8, <1>9, <1>10, <1>11 DEF IInv

LEMMA WriteKeeps ==
    ASSUME IInv, Write
    PROVE  IInv'
<1>1. /\ main = "write" /\ main' = "close" /\ clientfd \in Client /\ clientfd # NULL
      /\ buffer \in [1..LEN -> (Client \cup {NULL}) \X Nat]
      /\ got \in [Client -> {<<>>} \cup [1..LEN -> (Client \cup {NULL}) \X Nat]]
      /\ got' = [got EXCEPT ![clientfd] = buffer]
      /\ UNCHANGED <<clientfd, buffer, bytesRemaining, backlog, conn, sent, consumed, error>>
  BY DEF Write, Go, IInv, TypeOK
<1>2. /\ \A c \in Client : c # clientfd => got'[c] = got[c]
      /\ got' \in [Client -> {<<>>} \cup [1..LEN -> (Client \cup {NULL}) \X Nat]]
  BY <1>1
<1>3. conn[clientfd] = "open" /\ consumed[clientfd] = LEN
  BY <1>1 DEF IInv, Current, Counting
<1>4. TypeOK'
  BY <1>1, <1>2 DEF IInv, TypeOK
<1>5. Queue' /\ Fresh' /\ Streams'
  BY <1>1, <1>2, <1>3 DEF IInv, Queue, Fresh, Streams
<1>6. Current' /\ Counting'
  BY <1>1, <1>3 DEF Current, Counting
<1> QED
  BY <1>4, <1>5, <1>6 DEF IInv

LEMMA CloseKeeps ==
    ASSUME IInv, Close
    PROVE  IInv'
<1>1. /\ main = "close" /\ main' = "accept" /\ clientfd' = NULL
      /\ conn \in [Client -> {"none", "waiting", "open", "closed"}]
      /\ conn' = [c \in Client |-> IF c = clientfd THEN "closed" ELSE conn[c]]
      /\ UNCHANGED <<buffer, bytesRemaining, backlog, sent, consumed, error, got>>
  BY DEF Close, Go, IInv, TypeOK
<1>2. TypeOK'
  BY <1>1 DEF IInv, TypeOK
<1>3. \A c \in Client : conn'[c] # conn[c] => conn[c] = "open" /\ conn'[c] = "closed"
  BY <1>1, TcpEchoAssumption DEF IInv, Current
<1>4. Queue'
  <2>1. backlog \in Seq(Client)
    BY DEF IInv, TypeOK
  <2>2. \A j \in 1..Len(backlog) : backlog[j] \in Client
    BY <2>1
  <2> QED
    BY <1>1, <1>3, <2>2 DEF IInv, Queue
<1>5. Fresh' /\ Streams'
  BY <1>1, <1>3 DEF IInv, Fresh, Streams
<1>6. Current' /\ Counting'
  BY <1>1 DEF Current, Counting
<1> QED
  BY <1>2, <1>4, <1>5, <1>6 DEF IInv

-----------------------------------------------------------------------------
(* The clients *)

LEMMA ConnectKeeps ==
    ASSUME IInv, NEW c \in Client, Connect(c)
    PROVE  IInv'
<1>1. /\ conn \in [Client -> {"none", "waiting", "open", "closed"}] /\ backlog \in Seq(Client)
      /\ conn[c] = "none" /\ conn' = [conn EXCEPT ![c] = "waiting"]
      /\ backlog' = Append(backlog, c)
      /\ UNCHANGED <<main, clientfd, buffer, bytesRemaining, sent, consumed, error, got>>
  BY DEF Connect, IInv, TypeOK, serverVars
<1>2. /\ backlog' \in Seq(Client) /\ Len(backlog') = Len(backlog) + 1 /\ Len(backlog) \in Nat
      /\ \A j \in 1..Len(backlog) : backlog'[j] = backlog[j] /\ backlog[j] \in Client
      /\ backlog'[Len(backlog) + 1] = c
  BY <1>1
<1>3. /\ conn'[c] = "waiting" /\ \A d \in Client : d # c => conn'[d] = conn[d]
      /\ conn' \in [Client -> {"none", "waiting", "open", "closed"}]
  BY <1>1
<1>4. TypeOK'
  BY <1>1, <1>2, <1>3 DEF IInv, TypeOK
<1>5. \A j \in 1..Len(backlog) : backlog[j] # c
  BY <1>1 DEF IInv, Queue
<1>6. Queue'
  <2>1. ASSUME NEW j \in 1..Len(backlog')
        PROVE  (j \in 1..Len(backlog) \/ j = Len(backlog) + 1) /\ conn'[backlog'[j]] = "waiting"
    BY <1>2, <1>3 DEF IInv, Queue
  <2>2. ASSUME NEW j \in 1..Len(backlog'), NEW k \in 1..Len(backlog'), backlog'[j] = backlog'[k]
        PROVE  j = k
    BY <1>2, <1>5, <2>1, <2>2 DEF IInv, Queue
  <2> QED
    BY <2>1, <2>2 DEF Queue
<1>7. Fresh' /\ Streams'
  BY <1>1, <1>3 DEF IInv, Fresh, Streams
<1>8. Current' /\ Counting'
  BY <1>1, <1>3 DEF IInv, TypeOK, Current, Counting
<1> QED
  BY <1>4, <1>6, <1>7, <1>8 DEF IInv

LEMMA SendKeeps ==
    ASSUME IInv, NEW c \in Client, Send(c)
    PROVE  IInv'
<1>1. /\ sent \in [Client -> 0..MaxSent] /\ sent[c] < MaxSent /\ error[c] = "none"
      /\ sent' = [sent EXCEPT ![c] = @ + 1]
      /\ UNCHANGED <<main, clientfd, buffer, bytesRemaining, backlog, conn, consumed, error, got>>
  BY DEF Send, IInv, TypeOK, serverVars
<1>2. sent[c] \in 0..MaxSent /\ sent[c] + 1 \in 0..MaxSent
  BY <1>1, TcpEchoAssumption
<1>3. /\ sent' \in [Client -> 0..MaxSent] /\ sent'[c] = sent[c] + 1
      /\ \A d \in Client : d # c => sent'[d] = sent[d]
  BY <1>1, <1>2
<1>4. TypeOK'
  BY <1>1, <1>3 DEF IInv, TypeOK
<1>5. Queue' /\ Fresh' /\ Current' /\ Counting'
  BY <1>1 DEF IInv, Queue, Fresh, Current, Counting
<1>6. Streams'
  BY <1>1, <1>2, <1>3 DEF IInv, Streams, TypeOK
<1> QED
  BY <1>4, <1>5, <1>6 DEF IInv

LEMMA ResetKeeps ==
    ASSUME IInv, NEW c \in Client, Reset(c)
    PROVE  IInv'
<1>1. /\ error \in [Client -> {"none", "pending", "reported"}] /\ error[c] = "none"
      /\ error' = [error EXCEPT ![c] = "pending"]
      /\ UNCHANGED <<main, clientfd, buffer, bytesRemaining, backlog, conn, sent, consumed, got>>
  BY DEF Reset, IInv, TypeOK, serverVars
<1>2. /\ error' \in [Client -> {"none", "pending", "reported"}]
      /\ \A d \in Client : error'[d] = "reported" <=> error[d] = "reported"
  BY <1>1
<1>3. TypeOK'
  BY <1>1, <1>2 DEF IInv, TypeOK
<1>4. Queue' /\ Fresh' /\ Current' /\ Streams'
  BY <1>1, <1>2 DEF IInv, Queue, Fresh, Current, Streams
<1>5. Counting'
  BY <1>1, <1>2 DEF IInv, TypeOK, Counting
<1> QED
  BY <1>3, <1>4, <1>5 DEF IInv

LEMMA StepIInv ==
    ASSUME IInv, [Next]_vars
    PROVE  IInv'
<1>1. CASE ServerStep
  BY <1>1, OtherKeeps, AcceptKeeps, AcceptFailsKeeps, ReadKeeps, ReadResetKeeps, WriteKeeps,
     CloseKeeps
  DEF ServerStep
<1>2. CASE ClientStep
  BY <1>2, ConnectKeeps, SendKeeps, ResetKeeps DEF ClientStep
<1> QED
  BY <1>1, <1>2, OtherKeeps DEF Next

LEMMA Inductive == Spec => []IInv
<1>1. Init => IInv
  BY InitHolds
<1>2. IInv /\ [Next]_vars => IInv'
  BY StepIInv
<1> QED
  BY <1>1, <1>2, PTL DEF Spec

-----------------------------------------------------------------------------
(* What is answered *)

\* While a client is handled the buffer begins with the latest of what was read
\* of it, and so does an answer.
Answers ==
    /\ clientfd # NULL /\ main \in {"read", "write"} /\ consumed[clientfd] > 0 =>
         Latest(buffer, clientfd, consumed[clientfd])
    /\ \A c \in Client : got[c] # <<>> => Latest(got[c], c, LEN)

\* A piece goes to the front of the buffer.
LEMMA ReadAnswers ==
    ASSUME IInv, Answers, NEW k \in 1..LEN, Read(k)
    PROVE  Answers'
<1>1. /\ clientfd \in Client /\ clientfd' = clientfd /\ got' = got
      /\ buffer' = [j \in 1..LEN |->
                      IF j <= k THEN <<clientfd, consumed[clientfd] + j>> ELSE buffer[j]]
      /\ consumed[clientfd] \in Nat /\ consumed'[clientfd] = consumed[clientfd] + k
  BY DEF Read, IInv, TypeOK
<1>2. Latest(buffer', clientfd, consumed'[clientfd])
  <2>1. \A j \in 1..k :
          buffer'[j] = <<clientfd, (consumed[clientfd] + k) - k + j>>
    BY <1>1, TcpEchoAssumption
  <2>2. k <= consumed[clientfd] + k
    BY <1>1
  <2> QED
    BY <1>1, <2>1, <2>2 DEF Latest
<1> QED
  BY <1>1, <1>2 DEF Answers

LEMMA StepAnswers ==
    ASSUME IInv, Answers, [Next]_vars
    PROVE  Answers'
<1> USE DEF netVars, serverVars
<1>1. CASE UNCHANGED vars
  BY <1>1 DEF vars, Answers
<1>2. ASSUME NEW k \in 1..LEN, Read(k) PROVE Answers'
  BY <1>2, ReadAnswers
<1>3. CASE ReadReset \/ ReadFails \/ SetUp \/ SetUpFails \/ WriteFails \/ WriteKills
  <2>1. /\ UNCHANGED <<clientfd, buffer, consumed, got>>
        /\ clientfd # NULL => main' \in {"close", "exited"} \/ main \in {"read", "write"}
    BY <1>3
    DEF ReadReset, ReadFails, SetUp, SetUpFails, WriteFails, WriteKills, Go, IInv, Current
  <2> QED
    BY <2>1 DEF Answers
<1>4. CASE Accept
  <2>1. /\ clientfd' = Head(backlog) /\ UNCHANGED <<consumed, got>>
        /\ backlog \in Seq(Client) /\ backlog # <<>>
    BY <1>4 DEF Accept, Handle, IInv, TypeOK
  <2>2. Len(backlog) \in Nat /\ 1 \in 1..Len(backlog) /\ Head(backlog) = backlog[1]
    BY <2>1
  <2>3. Head(backlog) \in Client /\ conn[Head(backlog)] = "waiting"
    BY <2>1, <2>2 DEF IInv, Queue
  <2>4. consumed[Head(backlog)] = 0
    BY <2>3 DEF IInv, Fresh
  <2> QED
    BY <2>1, <2>4 DEF Answers
<1>5. CASE AcceptFails \/ Close
  BY <1>5 DEF AcceptFails, Handle, Close, Answers
<1>6. CASE Write
  <2>1. /\ main = "write" /\ main' = "close" /\ clientfd \in Client
        /\ got' = [got EXCEPT ![clientfd] = buffer]
        /\ got \in [Client -> {<<>>} \cup [1..LEN -> (Client \cup {NULL}) \X Nat]]
    BY <1>6 DEF Write, Go, IInv, TypeOK
  <2>2. consumed[clientfd] = LEN /\ LEN > 0
    BY <1>6, <2>1, TcpEchoAssumption DEF Write, IInv, Counting
  <2>3. Latest(buffer, clientfd, LEN)
    BY <1>6, <2>1, <2>2 DEF Write, Answers
  <2>4. \A c \in Client : got'[c] = IF c = clientfd THEN buffer ELSE got[c]
    BY <2>1
  <2> QED
    BY <2>1, <2>3, <2>4 DEF Answers
<1>7. CASE ClientStep
  BY <1>7 DEF ClientStep, Connect, Send, Reset, Answers
<1> QED
  BY <1>1, <1>2, <1>3, <1>4, <1>5, <1>6, <1>7 DEF Next, ServerStep

LEMMA AnswersHold == Spec => []Answers
<1>1. Init => Answers
  BY DEF Init, Answers
<1>2. IInv /\ Answers /\ [Next]_vars => Answers'
  BY StepAnswers
<1> QED
  BY <1>1, <1>2, Inductive, PTL DEF Spec

-----------------------------------------------------------------------------
(* The theorems *)

\* The count stays an int however often a failed read raises it, and the queue
\* and the buffer hold what they can hold.
THEOREM TypeCorrect == Spec => []TypeOK
<1>1. IInv => TypeOK
  BY DEF IInv
<1> QED
  BY <1>1, Inductive, PTL

\* bytesRemaining and what was read of the client add up, and only who sent LEN
\* bytes is answered, first with the last piece of its own.
THEOREM CountsRight == Spec => []Counted
<1>1. IInv /\ Answers => Counted
  BY DEF IInv, Streams, Counting, Answers, Counted
<1> QED
  BY <1>1, Inductive, AnswersHold, PTL

\* No read that brings data is allowed more than the buffer holds.
THEOREM ReadsFit == Spec => InBuffer
<1>1. IInv /\ [Next]_vars => [consumed' # consumed => bytesRemaining <= LEN]_vars
  <2> SUFFICES ASSUME IInv, Next, consumed' # consumed
               PROVE  bytesRemaining <= LEN
    BY DEF vars, netVars
  <2>1. PICK k \in 1..LEN : Read(k)
    BY DEF Next, ServerStep, ClientStep, SetUp, SetUpFails, Accept, AcceptFails, ReadReset,
           ReadFails, Write, WriteFails, WriteKills, Close, Connect, Send, Reset, netVars
  <2>2. /\ main = "read" /\ clientfd \in Client /\ clientfd # NULL
        /\ k <= sent[clientfd] - consumed[clientfd]
        /\ consumed[clientfd] \in Nat /\ sent[clientfd] \in Nat /\ bytesRemaining \in Int
    BY <2>1 DEF Read, Unread, IInv, TypeOK
  <2>3. error[clientfd] # "reported"
    BY <2>2 DEF IInv, Streams
  <2> QED
    BY <2>2, <2>3, TcpEchoAssumption DEF IInv, Counting
<1> QED
  BY <1>1, Inductive, PTL DEF Spec, InBuffer

\* Once it listens, the server ends only by the write to a client whose
\* connection was reset after its LEN bytes.
THEOREM EndsByReset == Spec => OnlyResetEnds
<1>1. IInv /\ [Next]_vars =>
        [main' = "exited" /\ main \in {"accept", "read", "write", "close"}
           => clientfd # NULL /\ error[clientfd] # "none" /\ consumed[clientfd] = LEN]_vars
  <2> SUFFICES ASSUME IInv, Next, main' = "exited", main \in {"accept", "read", "write", "close"}
               PROVE  clientfd # NULL /\ error[clientfd] # "none" /\ consumed[clientfd] = LEN
    OBVIOUS
  <2>1. WriteKills
    BY DEF Next, ServerStep, ClientStep, SetUp, SetUpFails, Accept, AcceptFails, Handle, Read,
           ReadReset, ReadFails, SetRemaining, Write, WriteFails, Close, Connect, Send,
           Reset, Go, serverVars
  <2> QED
    BY <2>1 DEF WriteKills, Go, IInv, Counting
<1> QED
  BY <1>1, Inductive, PTL DEF Spec, OnlyResetEnds
=============================================================================
