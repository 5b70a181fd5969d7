------------------------------ MODULE UdpEcho -------------------------------
(***************************************************************************)
(* udpecho (main.c): the main thread sets up sockets (Startup), starts one *)
(* thread for each and sleeps in sigwait; a thread echoes what its socket  *)
(* receives and looks at its own run flag at least once per receive time-  *)
(* out.  On a signal, or when a thread cannot be started, main clears the  *)
(* flags, joins the threads and closes the sockets.  All threads write     *)
(* their log records under one lock.                                       *)
(***************************************************************************)
EXTENDS Startup

CONSTANT MaxQueue     \* bound: datagrams queued on a socket

ASSUME UdpEchoAssumption == MaxQueue \in Nat /\ NULL \notin 0..MaxBind

VARIABLES
    children,     \* children_len
    run,          \* children_args[k].run
    thread,       \* where thread k is
    says,         \* thread k has a log record to write before it goes on
    log,          \* holder of log_mutex: a thread, 0 for main, NULL for nobody
    queue,        \* number of datagrams waiting on each socket
    broken,       \* sockets on which receiving and sending fail
    sig           \* SIGTERM or SIGINT is pending

threadVars == <<run, thread, says>>
netVars == <<queue, broken, sig>>
vars == <<main, startVars, i, open, children, threadVars, log, netVars>>

Index == 1..MaxBind

Init ==
    /\ StartInit
    /\ children = 0
    /\ run = [k \in Index |-> FALSE]
    /\ thread = [k \in Index |-> "none"]
    /\ says = [k \in Index |-> FALSE]
    /\ log = NULL
    /\ queue = [f \in Fd |-> 0]
    /\ broken = {}
    /\ sig = FALSE

-----------------------------------------------------------------------------
(* main *)

\* Nobody else is running: records are written unhindered.
SetUp ==
    /\ StartStep \/ BindLoopDone("start")
    /\ UNCHANGED <<children, threadVars, log, netVars>>

StartThread ==
    /\ main = "start"
    /\ run' = [run EXCEPT ![i] = TRUE]
    /\ thread' = [thread EXCEPT ![i] = "check"]
    /\ says' = [says EXCEPT ![i] = TRUE]
    /\ children' = children + 1
    /\ LoopOver(Len(sfd_arr), "sigwait")
    /\ UNCHANGED <<startVars, open, log, netVars>>

\* The threads started so far are stopped again.
StartFailsClose ==
    /\ Go("start", "close")
    /\ i' = 1
    /\ UNCHANGED <<startVars, open, children, threadVars, log, netVars>>
StartFails ==
    /\ Go("start", "log")
    /\ run' = [run EXCEPT ![i] = TRUE]
    /\ i' = 1
    /\ UNCHANGED <<startVars, open, children, thread, says, log, netVars>>

Sigwait ==
    /\ Go("sigwait", "log") /\ sig
    /\ sig' = FALSE
    /\ UNCHANGED <<startVars, i, open, children, threadVars, log, queue, broken>>

\* main logs the failure or the signal.
MainLock ==
    /\ Go("log", "logging")
    /\ log = NULL /\ log' = 0
    /\ UNCHANGED <<startVars, i, open, children, threadVars, netVars>>

MainUnlock ==
    /\ Go("logging", IF children = 0 THEN "close" ELSE "stop")
    /\ log' = NULL
    /\ UNCHANGED <<startVars, i, open, children, threadVars, netVars>>

\* atomic_store(&children_args[n].run, false)
StopFirst ==
    /\ main = "stop"
    /\ run' = [run EXCEPT ![1] = FALSE]
    /\ LoopOver(1, "join")
    /\ UNCHANGED <<startVars, open, children, thread, says, log, netVars>>
Stop ==
    /\ main = "stop"
    /\ run' = [run EXCEPT ![i] = FALSE]
    /\ LoopOver(children, "join")
    /\ UNCHANGED <<startVars, open, children, thread, says, log, netVars>>

Join ==
    /\ main = "join"
    /\ thread[i] = "done" /\ ~says[i]
    /\ LoopOver(children, "close")
    /\ UNCHANGED <<startVars, open, children, threadVars, log, netVars>>

\* Closing a socket discards what is queued on it.
Close ==
    /\ CloseSocket
    /\ queue' = [queue EXCEPT ![sfd_arr[i]] = 0]
    /\ UNCHANGED <<children, threadVars, log, broken, sig>>

Free == FreeAddrs /\ UNCHANGED <<children, threadVars, log, netVars>>

MainStep ==
    \/ SetUp \/ StartThread \/ StartFails \/ Sigwait \/ MainLock \/ MainUnlock
    \/ Stop \/ Join \/ Close \/ Free

-----------------------------------------------------------------------------
(* rw_loop_func: thread k, on socket sfd_arr[k] *)

\* Thread k goes on and has a record to write, or has not.
Step(k, from, to, record) ==
    /\ thread[k] = from /\ ~says[k]
    /\ thread' = [thread EXCEPT ![k] = to]
    /\ says' = [says EXCEPT ![k] = record]
    /\ UNCHANGED <<main, startVars, i, open, children, run, log, broken, sig>>

CheckRun(k) ==
    /\ Step(k, "check", IF run[k] THEN "recv" ELSE "done", FALSE)
    /\ UNCHANGED queue

Recv(k) ==
    /\ queue[sfd_arr[k]] > 0
    /\ Step(k, "recv", "send", TRUE)
    /\ queue' = [queue EXCEPT ![sfd_arr[k]] = @ - 1]

\* EAGAIN: nothing arrived for MAX_RECV_TIMEOUT seconds.
RecvTimeoutEnds(k) ==
    queue[sfd_arr[k]] = 0 /\ Step(k, "recv", "done", TRUE) /\ UNCHANGED queue
RecvTimeout(k) ==
    queue[sfd_arr[k]] = 0 /\ Step(k, "recv", "check", TRUE) /\ UNCHANGED queue

RecvFails(k) ==
    sfd_arr[k] \in broken /\ Step(k, "recv", "done", TRUE) /\ UNCHANGED queue

\* Echoed in full or, with a warning, in part.
Send(k) ==
    /\ \E partly \in BOOLEAN : Step(k, "send", "check", partly)
    /\ UNCHANGED queue

SendFails(k) ==
    sfd_arr[k] \in broken /\ Step(k, "send", "done", TRUE) /\ UNCHANGED queue

-----------------------------------------------------------------------------
(* pdebug, pwarn, perr: lock, write the record, unlock.  (None of the levels *)
(* is ever disabled; a disabled one would return with the lock held.)        *)

LoggingIdle == UNCHANGED <<main, startVars, i, open, children, run, thread, netVars>>

Lock(k) ==
    /\ says[k] /\ log = NULL
    /\ log' = k
    /\ LoggingIdle /\ UNCHANGED says

UnlockNot(k) ==
    /\ log = k
    /\ says' = [says EXCEPT ![k] = FALSE]
    /\ LoggingIdle /\ UNCHANGED log
Unlock(k) ==
    /\ log = k
    /\ log' = NULL
    /\ says' = [says EXCEPT ![k] = FALSE]
    /\ LoggingIdle

ThreadStep(k) ==
    CheckRun(k) \/ Recv(k) \/ RecvTimeout(k) \/ Send(k) \/ Lock(k) \/ Unlock(k)
ThreadFault(k) == RecvFails(k) \/ SendFails(k)

-----------------------------------------------------------------------------
(* Outside *)

Others == <<main, startVars, i, open, children, threadVars, log>>

\* Blocked, and so kept for sigwait, from before the addresses are resolved.
Signal ==
    /\ main \notin {"args", "exited"} /\ ~sig
    /\ sig' = TRUE
    /\ UNCHANGED <<Others, queue, broken>>

Arrive(f) ==
    /\ main # "exited"
    /\ f \in Bound \cap open
    /\ queue[f] < MaxQueue
    /\ queue' = [queue EXCEPT ![f] = @ + 1]
    /\ UNCHANGED <<Others, broken, sig>>

Break(f) ==
    /\ main # "exited"
    /\ f \in (Bound \cap open) \ broken
    /\ broken' = broken \cup {f}
    /\ UNCHANGED <<Others, queue, sig>>

Outside == Signal \/ \E f \in Fd : Arrive(f) \/ Break(f)

Next ==
    \/ MainStep
    \/ \E k \in DOMAIN sfd_arr : ThreadStep(k) \/ ThreadFault(k)
    \/ Outside

\* Every thread is scheduled; recvfrom returns, after its time-out at the
\* latest; and nobody waits for ever for a lock that is released again and
\* again.
Spec ==
    /\ Init /\ [][Next]_vars
    /\ WF_vars(MainStep) /\ SF_vars(MainLock)
    /\ \A k \in Index :
         /\ WF_vars(k \in DOMAIN sfd_arr /\ ThreadStep(k))
         /\ SF_vars(k \in DOMAIN sfd_arr /\ Lock(k))

-----------------------------------------------------------------------------
(* Properties *)

TypeOK ==
    /\ StartTypeOK
    /\ main \in StartPlaces \cup {"start", "sigwait", "log", "logging", "stop", "join"}
    /\ i \in Index \cup {1}
    /\ children \in 0..MaxBind
    /\ run \in [Index -> BOOLEAN]
    /\ thread \in [Index -> {"none", "check", "recv", "send", "done"}]
    /\ says \in [Index -> BOOLEAN]
    /\ log \in 0..MaxBind \cup {NULL}
    /\ queue \in [Fd -> 0..MaxQueue]
    /\ broken \subseteq Fd
    /\ sig \in BOOLEAN

Active(k) == thread[k] \notin {"none", "done"} \/ says[k]

\* A thread reads its arguments from main's frame, uses the socket in them and
\* the lock: while it lives, the socket is open, nobody else's, and main has
\* not returned, although threads may be started in part and end on their own.
NoUseAfterClose ==
    \A k \in Index : Active(k) =>
      /\ main # "exited"
      /\ sfd_arr[k] \in open
      /\ \A l \in DOMAIN sfd_arr : sfd_arr[l] = sfd_arr[k] => l = k

\* When main returns no socket is open, no address allocated and, since the
\* lock is destroyed, the lock not held, whichever step failed.
AllReleased == StartReleased /\ (main = "exited" => log = NULL)

\* A signal, like a thread that cannot be started, ends the program, however
\* busy or silent the sockets are and whoever holds the lock.
Terminates == sig \/ main \in {"log", "stop", "close"} ~> main = "exited"

\* Each socket is served independently of the others: what arrives on it is
\* picked up unless that very socket fails or the thread is told to stop.
Served ==
    \A k \in Index :
      /\ main = "sigwait"
      /\ k \in DOMAIN sfd_arr /\ queue[sfd_arr[k]] > 0
      ~> \/ thread[k] = "send"
         \/ k \in DOMAIN sfd_arr /\ sfd_arr[k] \in broken
         \/ ~run[k]
=============================================================================
