----------------------------- MODULE SocketLoop -----------------------------
(***************************************************************************)
(* tcpPrintServer_poll (socketloop.c, clienthandle.c): one thread polls a  *)
(* listening socket (place 0) and places 1..POLLMAX-1 for clients, echoes  *)
(* what a client sends, and closes all clients when nothing happens for    *)
(* the length of the time-out.                                             *)
(*                                                                         *)
(* Descriptors are numbers: accept returns the lowest one that is not      *)
(* open, so a place that still holds the number of a closed connection     *)
(* comes to share it with a new one.                                       *)
(***************************************************************************)
EXTENDS Integers

CONSTANTS
    Last,         \* POLLMAX - 1, the last place for a client
    MaxFd,        \* descriptors 1..MaxFd can be open besides the listener's
    MaxData,      \* bound: reads of up to 10 bytes waiting on a connection
    MaxBacklog    \* bound: connections waiting to be accepted

ASSUME SocketLoopAssumption ==
    /\ Last \in Nat
    /\ MaxFd \in Nat /\ MaxFd > Last
    /\ MaxData \in Nat
    /\ MaxBacklog \in Nat

VARIABLES
    pc,           \* where the loop is
    fd,           \* fds[n].fd of each client place, -1 when it is free
    revents,      \* fds[n].revents of each client place
    listener,     \* fds[0].revents
    n,            \* index of the scan over the places
    open,         \* descriptors of open connections
    data,         \* what waits to be read on each
    peer,         \* what its peer has done: "up", "closed" or "reset"
    stalled,      \* connections whose peer no longer reads
    backlog,      \* number of connections waiting to be accepted
    broken,       \* the listening socket has a pending error
    timedOut,     \* history: a time-out has closed a connection
    idle          \* history: during one, the connections it found quiet

netVars == <<open, data, peer, stalled, backlog, broken>>
history == <<timedOut, idle>>
vars == <<pc, fd, revents, listener, n, netVars, history>>

Place == 1..Last
Desc == 1..MaxFd
PeerVars == <<data, peer, stalled>>

Init ==
    /\ pc = "socket"
    /\ fd = [m \in Place |-> -1]
    /\ revents = [m \in Place |-> {}]
    /\ listener = {}
    /\ n = 1
    /\ open = {}
    /\ data = [f \in Desc |-> 0]
    /\ peer = [f \in Desc |-> "up"]
    /\ stalled = {}
    /\ backlog = 0
    /\ broken = FALSE
    /\ timedOut = FALSE
    /\ idle = {}

-----------------------------------------------------------------------------
(* create_socket: socket, bind and listen; the program ends if one fails.  *)

CreateSocket ==
    /\ pc = "socket"
    /\ pc' = "poll"
    /\ UNCHANGED <<fd, revents, listener, n, netVars, history>>

CreateFails ==
    /\ pc = "socket"
    /\ pc' = "exited"
    /\ UNCHANGED <<fd, revents, listener, n, netVars, history>>

-----------------------------------------------------------------------------
(* poll *)

\* A closed connection is readable (read returns 0), a reset one hung up and,
\* until the error has been reported, in error.
Flags(f) ==
    IF f = -1 THEN {}
    ELSE IF f \notin open THEN {"NVAL"}
    ELSE (IF data[f] > 0 \/ peer[f] # "up" THEN {"IN"} ELSE {})
           \cup (IF peer[f] = "reset" THEN {"ERR", "HUP"} ELSE {})

ListenerFlags ==
    (IF backlog > 0 THEN {"IN"} ELSE {}) \cup (IF broken THEN {"ERR"} ELSE {})

Ready == ListenerFlags # {} \/ \E m \in Place : Flags(fd[m]) # {}

Poll ==
    /\ pc = "poll" /\ Ready
    /\ revents' = [m \in Place |-> Flags(fd[m])]
    /\ listener' = ListenerFlags
    /\ n' = 1
    /\ pc' = "scan"
    /\ UNCHANGED <<fd, netVars, history>>

\* "poll() failed" ends the program.
PollFails ==
    /\ pc = "poll"
    /\ pc' = "exited"
    /\ UNCHANGED <<fd, revents, listener, n, netVars, history>>

\* The connections in the set are closed; what they held is lost.
Closed(gone) ==
    /\ open' = open \ gone
    /\ data' = [f \in Desc |-> IF f \in gone THEN 0 ELSE data[f]]
    /\ peer' = [f \in Desc |-> IF f \in gone THEN "up" ELSE peer[f]]
    /\ stalled' = stalled \ gone

\* Nothing happened for the length of the time-out.
TimesOut ==
    /\ pc = "poll" /\ ~Ready
    /\ revents' = [m \in Place |-> {}]
    /\ listener' = {}
    /\ n' = 1
    /\ pc' = "kick"
    /\ idle' = {f \in open : data[f] = 0 /\ peer[f] = "up"}
    /\ UNCHANGED <<fd, netVars, timedOut>>

\* "Timeout, kicking all connected clients", one place after the other, while
\* the clients go on: fd is left as it is.  (poll has set every revents to 0,
\* so the test for POLLERR always succeeds; -1 is never open.)
Kick ==
    /\ pc = "kick" /\ n <= Last
    /\ Closed({fd[n]} \cap open)
    /\ timedOut' = (timedOut \/ fd[n] \in open)
    /\ n' = n + 1
    /\ UNCHANGED <<pc, fd, revents, listener, backlog, broken, idle>>

KickDone ==
    /\ pc = "kick" /\ n > Last
    /\ pc' = "poll"
    /\ idle' = {}
    /\ UNCHANGED <<fd, revents, listener, n, netVars, timedOut>>

-----------------------------------------------------------------------------
(* The scan over the clients: clienthandle, then the check for errors *)

ScanQuiet ==
    /\ pc = "scan" /\ n <= Last
    /\ "IN" \notin revents[n]
    /\ pc' = "check"
    /\ UNCHANGED <<fd, revents, listener, n, netVars, history>>

Read ==
    /\ pc = "scan" /\ n <= Last
    /\ "IN" \in revents[n]
    /\ fd[n] \in open
    /\ data[fd[n]] > 0
    /\ data' = [data EXCEPT ![fd[n]] = @ - 1]
    /\ pc' = "write"
    /\ UNCHANGED <<fd, revents, listener, n, open, peer, stalled, backlog, broken, history>>

\* read returned 0 or -1 (a closed descriptor included); it blocks while an
\* open connection has nothing to read.
NothingToReadHup == fd[n] \in open => peer[fd[n]] # "up"
NothingToRead == fd[n] \in open => data[fd[n]] = 0 /\ peer[fd[n]] # "up"

EndedLate == revents
Ended == [revents EXCEPT ![n] = {"ERR"}]

ReadEnds ==
    /\ pc = "scan" /\ n <= Last
    /\ "IN" \in revents[n]
    /\ NothingToRead
    /\ revents' = Ended
    /\ pc' = "check"
    /\ UNCHANGED <<fd, listener, n, netVars, history>>

\* Written back, or the failure logged; a peer that does not read blocks it.
Write ==
    /\ pc = "write"
    /\ fd[n] \in stalled => peer[fd[n]] = "reset"
    /\ pc' = "check"
    /\ UNCHANGED <<fd, revents, listener, n, netVars, history>>

\* SIGPIPE is not handled.
WriteKills ==
    /\ pc = "write"
    /\ peer[fd[n]] = "reset"
    /\ pc' = "exited"
    /\ UNCHANGED <<fd, revents, listener, n, netVars, history>>

CheckOk ==
    /\ pc = "check"
    /\ "ERR" \notin revents[n]
    /\ n' = n + 1
    /\ pc' = "scan"
    /\ UNCHANGED <<fd, revents, listener, netVars, history>>

DroppedZero == [fd EXCEPT ![n] = 0]
DroppedStale == fd
Dropped == [fd EXCEPT ![n] = -1]

Drop ==
    /\ pc = "check"
    /\ "ERR" \in revents[n]
    /\ Closed({fd[n]} \cap open)
    /\ fd' = Dropped
    /\ n' = n + 1
    /\ pc' = "scan"
    /\ UNCHANGED <<revents, listener, backlog, broken, history>>

-----------------------------------------------------------------------------
(* The listening socket *)

HasFreeSpot == \E m \in Place : fd[m] = -1

\* revents is compared with one flag: any other combination is passed over.
WantedWhenRoom == listener = {"IN"} /\ HasFreeSpot
Wanted == listener = {"IN"}

ScanDone ==
    /\ pc = "scan" /\ n > Last
    /\ pc' = CASE listener = {"ERR"} -> "exited"
               [] Wanted -> "accept"
               [] OTHER -> "poll"
    /\ UNCHANGED <<fd, revents, listener, n, netVars, history>>

FreeSpot(m) == fd[m] = -1 /\ \A k \in Place : k < m => fd[k] # -1

\* The descriptor accept returns.
Lowest(f) == f \notin open /\ \A g \in Desc : g < f => g \in open

Accept(m, f) ==
    /\ pc = "accept"
    /\ FreeSpot(m)
    /\ Lowest(f)
    /\ fd' = [fd EXCEPT ![m] = f]
    /\ open' = open \cup {f}
    /\ backlog' = backlog - 1
    /\ pc' = "poll"
    /\ UNCHANGED <<revents, listener, n, PeerVars, broken, history>>

\* accept, write "Server is full" and close.
RefusedOpen == \E f \in Desc : Lowest(f) /\ open' = open \cup {f}
Refused == open # Desc /\ open' = open

Refuse ==
    /\ pc = "accept"
    /\ ~HasFreeSpot
    /\ Refused
    /\ backlog' = backlog - 1
    /\ pc' = "poll"
    /\ UNCHANGED <<fd, revents, listener, n, PeerVars, broken, history>>

\* The newcomer has reset the connection already: SIGPIPE once more.
RefuseKills ==
    /\ pc = "accept"
    /\ ~HasFreeSpot
    /\ Refused
    /\ backlog' = backlog - 1
    /\ pc' = "exited"
    /\ UNCHANGED <<fd, revents, listener, n, PeerVars, broken, history>>

\* accept failed: the connection goes on waiting.
AcceptFails ==
    /\ pc = "accept"
    /\ pc' = "poll"
    /\ UNCHANGED <<fd, revents, listener, n, netVars, history>>

Step ==
    \/ CreateSocket \/ Poll \/ ScanQuiet \/ Read \/ ReadEnds \/ Write \/ CheckOk \/ Drop
    \/ ScanDone \/ Refuse \/ Kick \/ KickDone
    \/ \E m \in Place, f \in Desc : Accept(m, f)

-----------------------------------------------------------------------------
(* Clients and the network *)

Local == <<pc, fd, revents, listener, n, open>>

Connect ==
    /\ pc # "socket"
    /\ backlog < MaxBacklog
    /\ backlog' = backlog + 1
    /\ UNCHANGED <<Local, PeerVars, broken, history>>

Sends(f) ==
    /\ f \in open /\ peer[f] = "up"
    /\ data[f] < MaxData
    /\ data' = [data EXCEPT ![f] = @ + 1]
    /\ UNCHANGED <<Local, peer, stalled, backlog, broken, history>>

Leaves(f) ==
    /\ f \in open /\ peer[f] = "up"
    /\ peer' = [peer EXCEPT ![f] = "closed"]
    /\ UNCHANGED <<Local, data, stalled, backlog, broken, history>>

Resets(f) ==
    /\ f \in open /\ peer[f] # "reset"
    /\ peer' = [peer EXCEPT ![f] = "reset"]
    /\ UNCHANGED <<Local, data, stalled, backlog, broken, history>>

StopsReading(f) ==
    /\ f \in open \ stalled
    /\ stalled' = stalled \cup {f}
    /\ UNCHANGED <<Local, data, peer, backlog, broken, history>>

Breaks ==
    /\ pc # "socket" /\ ~broken
    /\ broken' = TRUE
    /\ UNCHANGED <<Local, PeerVars, backlog, history>>

Outside ==
    \/ Connect \/ Breaks
    \/ \E f \in Desc : Sends(f) \/ Leaves(f) \/ Resets(f) \/ StopsReading(f)

\* Results of a system call that nothing forces the kernel to give.
Fault == CreateFails \/ PollFails \/ WriteKills \/ RefuseKills \/ AcceptFails

Next == Step \/ TimesOut \/ Fault \/ Outside

\* The loop runs whenever no system call blocks it.
Spec == Init /\ [][Next]_vars /\ WF_vars(Step)

-----------------------------------------------------------------------------
(* Properties *)

TypeOK ==
    /\ pc \in {"socket", "poll", "kick", "scan", "write", "check", "accept", "exited"}
    /\ fd \in [Place -> Desc \cup {-1}]
    /\ revents \in [Place -> SUBSET {"IN", "ERR", "HUP", "NVAL"}]
    /\ listener \subseteq {"IN", "ERR"}
    /\ n \in 1..Last + 1
    /\ open \subseteq Desc
    /\ data \in [Desc -> 0..MaxData]
    /\ peer \in [Desc -> {"up", "closed", "reset"}]
    /\ stalled \subseteq Desc
    /\ backlog \in 0..MaxBacklog
    /\ broken \in BOOLEAN
    /\ timedOut \in BOOLEAN
    /\ idle \subseteq Desc

\* Every open connection stands in a place, also after time-outs have left
\* places that share a number: no client is lost and no descriptor leaks.
Held == open \subseteq {fd[m] : m \in Place}

\* Until a time-out, a place in use is one open connection of its own.
OwnPlace ==
    ~timedOut => \A m \in Place : fd[m] # -1 =>
      /\ fd[m] \in open
      /\ \A k \in Place : fd[k] = fd[m] => k = m

\* Within the scan no connection is cut short, whichever places are in error or
\* share a number: it is closed because its peer reset it, or has left and been
\* read to the end.  A time-out closes only what was quiet when poll gave up;
\* what a client sends after that, before its own close, is lost.
NothingCutShort ==
    [][\A f \in open \ open' :
         \/ peer[f] = "reset"
         \/ peer[f] = "closed" /\ data[f] = 0
         \/ pc = "kick" /\ f \in idle]_vars

\* One slow client holds up all: the thread sits in read or in write.
Blocked ==
    \/ pc = "write" /\ fd[n] \in stalled
    \/ /\ pc = "scan" /\ n <= Last /\ "IN" \in revents[n]
       /\ fd[n] \in open /\ data[fd[n]] = 0 /\ peer[fd[n]] = "up"

\* A client that leaves is noticed and its place given up, whatever the others
\* do, short of blocking the thread.  (After a time-out its place may be one of
\* two, and noticing it in one closes the connection.)
LeaverNoticed ==
    \A f \in Desc :
      f \in open /\ peer[f] # "up" ~> f \notin open \/ Blocked \/ pc = "exited"

\* A connection that waits is looked at, to be accepted or refused, also while
\* every place is taken and while left-over numbers make poll return at once.
NewcomerAnswered ==
    backlog > 0 ~> pc = "accept" \/ broken \/ Blocked \/ pc = "exited"

\* socketloop.c: "Server is full" is what a newcomer is told - only when there
\* is a client in every place.
FullMeansFull ==
    pc = "accept" /\ ~HasFreeSpot => \A m \in Place : fd[m] \in open
=============================================================================
