------------------------------ MODULE UdpChat -------------------------------
(***************************************************************************)
(* The udpchat server (main.c) around the table of active users: the main  *)
(* thread binds sockets, starts the master thread, sleeps in sigwait and   *)
(* on a signal stops it; the master thread polls the sockets, receives     *)
(* datagrams and drives the table.                                         *)
(*                                                                         *)
(* The two threads share run, the sockets and nothing else.  What the      *)
(* kernel does (queues, readiness, errors, signals) is external.           *)
(***************************************************************************)
EXTENDS Startup

CONSTANTS
    Addr, Node, Timeout, MaxNow,    \* as in UserTable
    MaxQueue                        \* bound: datagrams queued on a socket

VARIABLES
    alloc, heap, start, end, now, pc, user, p, ret, called, heard,

    run,       \* *master_args.run
    master,    \* where the master thread is
    n,         \* index of its scan over poll_arr
    revents,   \* what poll reported for each socket

    shut,      \* sockets that were shut down
    queue,     \* number of datagrams waiting on each socket
    failed,    \* sockets with a pending error
    sig        \* SIGTERM or SIGINT is pending

ASSUME UdpChatAssumption ==
    /\ NULL \notin Node \cup Addr
    /\ NULL \notin [last : Nat, slot : Nat, fd : Fd \cup {NULL}]
    /\ Timeout \in Nat /\ MaxNow \in Nat /\ MaxQueue \in Nat

Table == INSTANCE UserTable

tableVars == <<alloc, heap, start, end, now, pc, user, p, ret, called, heard>>
mainVars == <<main, startVars, i, open, run>>
masterVars == <<master, n, revents>>
netVars == <<shut, queue, failed, sig>>
vars == <<tableVars, mainVars, masterVars, netVars>>

\* The process runs until main returns or it crashes.
Running == main # "exited" /\ pc # "crashed"

Init ==
    /\ Table!Init
    /\ StartInit
    /\ run = TRUE
    /\ master = "none"
    /\ n = 1
    /\ revents = <<>>
    /\ shut = {}
    /\ queue = [f \in Fd |-> 0]
    /\ failed = {}
    /\ sig = FALSE

-----------------------------------------------------------------------------
(* main *)

SetUp ==
    /\ StartStep \/ BindLoopDone("create")
    /\ UNCHANGED <<tableVars, run, masterVars, netVars>>

CreateThread ==
    /\ Go("create", "sigwait")
    /\ master' = "check"
    /\ UNCHANGED <<tableVars, startVars, i, open, run, n, revents, netVars>>

CreateFails ==
    /\ Go("create", "close")
    /\ UNCHANGED <<tableVars, startVars, i, open, run, masterVars, netVars>>

Sigwait ==
    /\ Go("sigwait", "shutdown") /\ sig
    /\ sig' = FALSE
    /\ run' = FALSE
    /\ UNCHANGED <<tableVars, startVars, i, open, masterVars, shut, queue, failed>>

ShutdownFirst ==
    /\ main = "shutdown"
    /\ shut' = shut \cup {sfd_arr[1]}
    /\ LoopOver(1, "join")
    /\ UNCHANGED <<tableVars, startVars, open, run, masterVars, queue, failed, sig>>
Shutdown ==
    /\ main = "shutdown"
    /\ shut' = shut \cup {sfd_arr[i]}
    /\ LoopOver(Len(sfd_arr), "join")
    /\ UNCHANGED <<tableVars, startVars, open, run, masterVars, queue, failed, sig>>

JoinNoWait ==
    /\ Go("join", "close")
    /\ UNCHANGED <<tableVars, startVars, i, open, run, masterVars, netVars>>
JoinThread ==
    /\ Go("join", "close") /\ master = "done"
    /\ UNCHANGED <<tableVars, startVars, i, open, run, masterVars, netVars>>

\* Closing a socket discards what is queued on it.
Close ==
    /\ CloseSocket
    /\ queue' = [queue EXCEPT ![sfd_arr[i]] = 0]
    /\ UNCHANGED <<tableVars, run, masterVars, shut, failed, sig>>

Free == FreeAddrs /\ UNCHANGED <<tableVars, run, masterVars, netVars>>

MainStep ==
    /\ Running
    /\ \/ SetUp \/ CreateThread \/ CreateFails
       \/ Sigwait \/ Shutdown \/ JoinThread \/ Close \/ Free

-----------------------------------------------------------------------------
(* master_func *)

\* poll_err: the table is torn down and the thread ends.
GiveUp ==
    /\ Table!FreeCall
    /\ master' = "free"

CheckRun ==
    /\ master = "check"
    /\ IF run THEN master' = "poll" /\ UNCHANGED tableVars ELSE GiveUp
    /\ UNCHANGED <<mainVars, netVars, n, revents>>

\* Readiness of a socket, as a set of flags.  A socket that was shut down is
\* hung up; Linux reports it readable as well.
Flags(f, hup) ==
    (IF queue[f] > 0 THEN {"IN"} ELSE {})
      \cup (IF f \in failed THEN {"ERR"} ELSE {})
      \cup (IF f \in shut THEN hup ELSE {})

PollFromZero ==
    /\ master = "poll"
    /\ revents' = [k \in DOMAIN sfd_arr |-> Flags(sfd_arr[k], {"HUP"})]
    /\ \E k \in DOMAIN sfd_arr : revents'[k] # {}
    /\ master' = "scan"
    /\ n' = 0
    /\ UNCHANGED <<tableVars, mainVars, netVars>>
Poll ==
    /\ master = "poll"
    /\ \E hup \in {{"HUP"}, {"IN", "HUP"}} :
         revents' = [k \in DOMAIN sfd_arr |-> Flags(sfd_arr[k], hup)]
    /\ \E k \in DOMAIN sfd_arr : revents'[k] # {}
    /\ master' = "scan"
    /\ n' = 1
    /\ UNCHANGED <<tableVars, mainVars, netVars>>

\* EINTR, or any other error.
PollInterrupted ==
    /\ master = "poll"
    /\ master' = "check"
    /\ UNCHANGED <<tableVars, mainVars, netVars, n, revents>>

PollFails ==
    /\ master = "poll"
    /\ GiveUp
    /\ UNCHANGED <<mainVars, netVars, n, revents>>

ScanDone ==
    /\ master = "scan" /\ n > Len(sfd_arr)
    /\ master' = "check"
    /\ UNCHANGED <<tableVars, mainVars, netVars, n, revents>>

\* "The current impl does not support multiple events!": the switch compares
\* revents with single flags, any other combination is passed over.
ScanNext ==
    /\ master = "scan" /\ n <= Len(sfd_arr)
    /\ revents[n] \notin {{"IN"}, {"ERR"}, {"HUP"}}
    /\ n' = n + 1
    /\ UNCHANGED <<tableVars, mainVars, netVars, master, revents>>

ScanReadable ==
    /\ master = "scan" /\ n <= Len(sfd_arr)
    /\ revents[n] = {"IN"}
    /\ master' = "recv"
    /\ UNCHANGED <<tableVars, mainVars, netVars, n, revents>>

ScanError ==
    /\ master = "scan" /\ n <= Len(sfd_arr)
    /\ revents[n] \in {{"ERR"}, {"HUP"}}
    /\ GiveUp
    /\ UNCHANGED <<mainVars, netVars, n, revents>>

-----------------------------------------------------------------------------
(* msg_handle *)

\* The next socket of the scan.
NextPoll ==
    /\ master' = "check"
    /\ UNCHANGED <<n, revents>>
NextSocket ==
    /\ master' = "scan"
    /\ n' = n + 1
    /\ UNCHANGED revents

Receive ==
    /\ master = "recv"
    /\ sfd_arr[n] \notin failed
    /\ queue[sfd_arr[n]] > 0
    /\ queue' = [queue EXCEPT ![sfd_arr[n]] = @ - 1]
    /\ UNCHANGED <<mainVars, shut, failed, sig>>

RecvMessage(a) ==
    /\ Receive
    /\ Table!UpdateCall(a, sfd_arr[n])
    /\ master' = "update"
    /\ UNCHANGED <<n, revents>>

RecvEmptyDatagram ==
    /\ Receive
    /\ NextSocket
    /\ UNCHANGED tableVars

RecvDatagram == RecvEmptyDatagram \/ \E a \in Addr : RecvMessage(a)

\* recvfrom blocks on an empty queue until the socket is shut down.
RecvShut ==
    /\ master = "recv"
    /\ sfd_arr[n] \notin failed
    /\ queue[sfd_arr[n]] = 0
    /\ sfd_arr[n] \in shut
    /\ NextSocket
    /\ UNCHANGED <<tableVars, mainVars, netVars>>

\* EIO, ECONNRESET, EINTR and ETIMEDOUT are ignored, other errors end the
\* thread.  An error pending on the socket is reported once, and before data.
RecvIgnored ==
    /\ master = "recv"
    /\ failed' = failed \ {sfd_arr[n]}
    /\ NextSocket
    /\ UNCHANGED <<tableVars, mainVars, shut, queue, sig>>

RecvFails ==
    /\ master = "recv"
    /\ failed' = failed \ {sfd_arr[n]}
    /\ GiveUp
    /\ UNCHANGED <<mainVars, n, revents, shut, queue, sig>>

RecvPending ==
    /\ master = "recv"
    /\ sfd_arr[n] \in failed
    /\ RecvIgnored \/ RecvFails

\* A walk that returned 1 ends msg_handle, one that returned 0 goes on to
\* send the message to every member.
Update ==
    /\ master = "update"
    /\ Table!Update
    /\ IF pc' = "update" THEN UNCHANGED masterVars
       ELSE IF ret' = 1 THEN NextSocket
       ELSE master' = "send" /\ UNCHANGED <<n, revents>>
    /\ UNCHANGED <<mainVars, netVars>>

SendAll ==
    /\ master = "send"
    /\ Table!EveryCall
    /\ master' = "every"
    /\ UNCHANGED <<mainVars, netVars, n, revents>>

\* sendto to one member; its failure is logged only.
SendOneOnly ==
    /\ master = "every"
    /\ Table!EveryUser
    /\ NextSocket
    /\ UNCHANGED <<mainVars, netVars>>
SendOne ==
    /\ master = "every"
    /\ Table!EveryUser
    /\ UNCHANGED <<mainVars, masterVars, netVars>>

SentAll ==
    /\ master = "every"
    /\ Table!EveryReturn
    /\ NextSocket
    /\ UNCHANGED <<mainVars, netVars>>

FreeTable ==
    /\ master = "free"
    /\ Table!FreeUser \/ Table!FreeLast \/ Table!FreeNull
    /\ master' = IF pc' = "freed" THEN "done" ELSE master
    /\ UNCHANGED <<mainVars, netVars, n, revents>>

\* What the thread does by itself once it is scheduled.
MasterStep ==
    \/ CheckRun \/ Poll
    \/ ScanDone \/ ScanNext \/ ScanReadable \/ ScanError
    \/ RecvDatagram \/ RecvShut \/ RecvPending
    \/ Update \/ SendAll \/ SendOne \/ SentAll \/ FreeTable

\* Results of a system call that nothing forces the kernel to give.
MasterFault ==
    PollInterrupted \/ PollFails \/ RecvIgnored \/ RecvFails

-----------------------------------------------------------------------------
(* Outside *)

Tick ==
    /\ Running
    /\ Table!Tick
    /\ UNCHANGED <<mainVars, masterVars, netVars>>

\* Blocked from before the sockets are bound, and taken by sigwait; one is
\* enough, as main returns after it.
Signal ==
    /\ Running /\ main # "args"
    /\ ~sig /\ run
    /\ sig' = TRUE
    /\ UNCHANGED <<tableVars, mainVars, masterVars, shut, queue, failed>>

Arrive(f) ==
    /\ Running
    /\ f \in (Bound \cap open) \ shut
    /\ queue[f] < MaxQueue
    /\ queue' = [queue EXCEPT ![f] = @ + 1]
    /\ UNCHANGED <<tableVars, mainVars, masterVars, shut, failed, sig>>

\* A datagram that made its socket readable turns out to be damaged.
Discard(f) ==
    /\ Running
    /\ queue[f] > 0
    /\ queue' = [queue EXCEPT ![f] = @ - 1]
    /\ UNCHANGED <<tableVars, mainVars, masterVars, shut, failed, sig>>

Fail(f) ==
    /\ Running
    /\ f \in (Bound \cap open) \ failed
    /\ failed' = failed \cup {f}
    /\ UNCHANGED <<tableVars, mainVars, masterVars, shut, queue, sig>>

Outside ==
    \/ Tick \/ Signal
    \/ \E f \in Fd : Arrive(f) \/ Discard(f) \/ Fail(f)

Next == MainStep \/ MasterStep \/ MasterFault \/ Outside

\* Both threads are scheduled, poll is not interrupted for ever, and the kernel
\* does not discard every datagram just before it is read.
Spec ==
    /\ Init /\ [][Next]_vars
    /\ WF_vars(MainStep)
    /\ WF_vars(MasterStep)
    /\ SF_vars(Poll)
    /\ SF_vars(RecvDatagram)

-----------------------------------------------------------------------------
(* Properties *)

TypeOK ==
    /\ Table!TypeOK
    /\ StartTypeOK
    /\ main \in StartPlaces \cup {"create", "sigwait", "shutdown", "join"}
    /\ run \in BOOLEAN
    /\ master \in {"none", "check", "poll", "scan", "recv",
                   "update", "send", "every", "free", "done"}
    /\ n \in Nat \ {0}
    /\ DOMAIN revents \subseteq DOMAIN sfd_arr
    /\ \A k \in DOMAIN revents : revents[k] \subseteq {"IN", "ERR", "HUP"}
    /\ shut \subseteq Fd
    /\ queue \in [Fd -> 0..MaxQueue]
    /\ failed \subseteq Fd
    /\ sig \in BOOLEAN

\* The master thread and the users in its table only ever name sockets that
\* are open: main closes none before the thread has ended.
NoUseAfterClose ==
    master \notin {"none", "done"} =>
      /\ Bound \subseteq open
      /\ \A m \in alloc : heap[m].recv_fd \in Bound

\* When main returns, everything was given back: sockets, the address list and
\* the cells of the users.
AllReleased == StartReleased /\ (main = "exited" => alloc = {})

\* A signal ends the program (or the teardown of an empty table crashes it),
\* wherever the master thread is at that moment.
Terminates == sig ~> main = "exited" \/ pc = "crashed"

\* The master thread sits in recvfrom on a socket that has nothing to read.
Stuck ==
    master = "recv" /\ queue[sfd_arr[n]] = 0 /\ sfd_arr[n] \notin shut \cup failed

Reading(f) == master = "recv" /\ sfd_arr[n] = f

\* No socket starves: unless the thread is blocked for ever on a datagram that
\* was discarded, or gave up, it comes to read a socket on which one waits.  A
\* socket with a pending error may be passed over for ever.
Served ==
    []<>~Stuck =>
      \A f \in Fd :
        queue[f] > 0 ~> \/ queue[f] = 0 \/ Reading(f) \/ f \in failed
                        \/ ~run \/ master \in {"free", "done"} \/ pc = "crashed"

\* The server drives the table only through its interface, and carries every
\* call to its end.
UsesTable == Table!Spec

-----------------------------------------------------------------------------
(* What comments of main.c say and the code does not do *)

\* main.c: "Catch sigTERM and shutdown gracefully." - so once main has taken the
\* signal and shut the sockets down, and the master thread, which no error has
\* ended, looks at run, the program returns from main.
Graceful ==
    main = "join" /\ ~run /\ master = "check" /\ failed = {} ~> main = "exited"

\* main.c: "The master thread will handle all IO while main thread will sleep."
HandlesAllIO == main = "sigwait" /\ ~sig => master # "done"
=============================================================================
