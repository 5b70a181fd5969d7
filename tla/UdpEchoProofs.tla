--------------------------- MODULE UdpEchoProofs ----------------------------
(***************************************************************************)
(* Proofs about udpecho, for any number of sockets, addresses and threads. *)
(* StartupProofs has what setting up and closing the sockets keeps.        *)
(***************************************************************************)
EXTENDS UdpEcho, StartupProofs

Early == main \in {"args", "resolve", "bind"}
Over == main \in {"close", "free", "exited"}

\* Which threads may be alive at each place of main.
Threads ==
    /\ children <= Len(sfd_arr)
    /\ \A k \in Index : k > children => ~Active(k)
    /\ Early => children = 0
    /\ main = "start" => i = children + 1 /\ i <= Len(sfd_arr)
    /\ main \in {"sigwait", "log", "logging"} => i = 1
    /\ main \in {"stop", "join"} => i <= children
    /\ main = "join" => \A k \in Index : k < i => ~Active(k)
    /\ Over => \A k \in Index : ~Active(k)

\* Only who has something to write holds the lock.
LogHeld ==
    /\ log \in Index => says[log]
    /\ log = 0 => main = "logging"

IInv == Kept /\ TypeOK /\ Threads /\ LogHeld

LEMMA Sizes ==
    ASSUME IInv
    PROVE  /\ Index \subseteq Nat \ {0} /\ MaxBind \in Nat /\ 0 \notin Index
           /\ Len(sfd_arr) \in Nat /\ Len(sfd_arr) <= MaxBind
           /\ children \in Nat /\ children <= MaxBind /\ children <= Len(sfd_arr)
           /\ i \in Nat \ {0}
BY StartupAssumption DEF IInv, Kept, StartTypeOK, Sockets, TypeOK, Threads, Index

LEMMA InitHolds == Init => IInv
<1> SUFFICES ASSUME Init PROVE IInv
  OBVIOUS
<1> USE StartupAssumption, UdpEchoAssumption
<1>1. Kept
  BY StartHolds DEF Init
<1>2. TypeOK
  <2>1. /\ run \in [Index -> BOOLEAN] /\ says \in [Index -> BOOLEAN]
        /\ thread \in [Index -> {"none", "check", "recv", "send", "done"}]
        /\ queue \in [Fd -> 0..MaxQueue]
    BY DEF Init
  <2>2. children \in 0..MaxBind /\ main \in StartPlaces /\ i = 1
    BY DEF Init, StartInit, StartPlaces
  <2> QED
    BY <1>1, <2>1, <2>2 DEF Init, TypeOK, Kept
<1>3. Threads
  <2>1. children = 0 /\ main = "args" /\ i = 1 /\ \A k \in Index : ~Active(k)
    BY DEF Init, StartInit, Active
  <2>2. Len(sfd_arr) \in Nat
    BY <1>1 DEF Kept, StartTypeOK
  <2> QED
    BY <2>1, <2>2 DEF Threads, Early, Over
<1>4. LogHeld
  BY DEF Init, LogHeld, Index
<1> QED
  BY <1>1, <1>2, <1>3, <1>4 DEF IInv

-----------------------------------------------------------------------------
(* main: the sockets *)

LEMMA SetUpStep ==
    ASSUME IInv, SetUp
    PROVE  IInv'
<1>1. UNCHANGED <<children, run, thread, says, log, queue, broken, sig>>
  BY DEF SetUp, threadVars, netVars
<1>2. Early /\ children = 0 /\ (\A k \in Index : ~Active(k)) /\ i' = 1
  <2>1. Early /\ i' = i
    BY StartMoves DEF SetUp, BindLoopDone, Go, Early, startVars
  <2>2. children = 0 /\ i = 1
    BY <2>1 DEF IInv, Threads, Kept, Sockets, Early
  <2>3. \A k \in Index : k > 0
    BY Sizes
  <2> QED
    BY <2>1, <2>2, <2>3 DEF IInv, Threads
<1>3. Kept'
  <2>1. CASE StartStep
    BY <2>1, StartKeeps DEF IInv
  <2>2. CASE BindLoopDone("start")
    BY <2>2, BindLoopKeeps DEF IInv, StartPlaces
  <2> QED
    BY <2>1, <2>2 DEF SetUp
<1>4. main' \in {"resolve", "bind", "exited", "free", "start"}
  BY StartMoves DEF SetUp, BindLoopDone, Go
<1>5. TypeOK'
  BY <1>1, <1>2, <1>3, <1>4 DEF IInv, TypeOK, Kept, StartPlaces
<1>6. Threads'
  <2>1. Len(sfd_arr') \in Nat
    BY <1>3 DEF Kept, StartTypeOK
  <2>2. main' = "start" => Len(sfd_arr') > 0
    BY <1>3 DEF Kept, Sockets, StartPlaces
  <2>3. \A k \in Index : ~Active(k)'
    BY <1>1, <1>2 DEF Active
  <2> QED
    BY <1>1, <1>2, <1>4, <2>1, <2>2, <2>3 DEF Threads, Early, Over
<1>7. LogHeld'
  BY <1>1, <1>2 DEF IInv, LogHeld, Early
<1> QED
  BY <1>3, <1>5, <1>6, <1>7 DEF IInv

LEMMA CloseStep ==
    ASSUME IInv, Close
    PROVE  IInv'
<1>1. /\ main = "close" /\ main' \in {"close", "free"}
      /\ UNCHANGED <<sfd_arr, children, run, thread, says, log, broken, sig>>
  BY DEF Close, CloseSocket, LoopOver, threadVars, startVars
<1>2. Kept'
  BY CloseKeeps DEF Close, IInv
<1>3. TypeOK'
  <2>1. queue' \in [Fd -> 0..MaxQueue]
    <3>1. queue \in [Fd -> 0..MaxQueue] /\ 0 \in 0..MaxQueue
      BY UdpEchoAssumption DEF IInv, TypeOK
    <3>2. queue' = [queue EXCEPT ![sfd_arr[i]] = 0]
      BY DEF Close
    <3> QED
      BY <3>1, <3>2
  <2>2. i' \in Index \cup {1}
    <3>1. main' = "close" => i' \in Nat \ {0} /\ i' <= Len(sfd_arr)
      BY <1>1, <1>2 DEF Kept, StartTypeOK, Sockets
    <3>2. main' = "free" => i' = 1
      BY <1>1 DEF Close, CloseSocket, LoopOver
    <3> QED
      BY <1>1, <3>1, <3>2, Sizes DEF Index
  <2> QED
    BY <1>1, <1>2, <2>1, <2>2 DEF IInv, TypeOK, Kept, StartPlaces
<1>4. Threads'
  BY <1>1 DEF IInv, Threads, Early, Over, Active
<1>5. LogHeld'
  BY <1>1 DEF IInv, LogHeld
<1> QED
  BY <1>2, <1>3, <1>4, <1>5 DEF IInv

LEMMA FreeStep ==
    ASSUME IInv, Free
    PROVE  IInv'
<1>1. /\ main = "free" /\ main' = "exited"
      /\ UNCHANGED <<sfd_arr, i, children, run, thread, says, log, queue, broken, sig>>
  BY DEF Free, FreeAddrs, Go, threadVars, netVars
<1>2. Kept'
  BY FreeKeeps DEF Free, IInv
<1>3. TypeOK'
  BY <1>1, <1>2 DEF IInv, TypeOK, Kept, StartPlaces
<1>4. Threads'
  BY <1>1 DEF IInv, Threads, Early, Over, Active
<1>5. LogHeld'
  BY <1>1 DEF IInv, LogHeld
<1> QED
  BY <1>2, <1>3, <1>4, <1>5 DEF IInv

-----------------------------------------------------------------------------
(* main: the threads *)

LEMMA LoopOverType ==
    ASSUME IInv, NEW len \in Nat, NEW next, LoopOver(len, next), len <= MaxBind
    PROVE  i' \in Index \cup {1} /\ i' \in Nat \ {0}
BY Sizes DEF LoopOver, Index

LEMMA StartThreadStep ==
    ASSUME IInv, StartThread
    PROVE  IInv'
<1>1. /\ main = "start" /\ i = children + 1 /\ i <= Len(sfd_arr) /\ i \in Index
      /\ children' = i
      /\ UNCHANGED <<names, addrs, list, infos, sfd, sfd_arr, open, log, queue, broken, sig>>
  BY Sizes DEF StartThread, IInv, Threads, Index, startVars, listVars, netVars
<1>2. \/ i = Len(sfd_arr) /\ main' = "sigwait" /\ i' = 1
      \/ i < Len(sfd_arr) /\ main' = "start" /\ i' = i + 1
  BY <1>1, Sizes DEF StartThread, LoopOver
<1>3. i' \in Index \cup {1} /\ i' \in Nat \ {0}
  BY Sizes, LoopOverType DEF StartThread
<1>4. Kept'
  <2>1. main \notin StartPlaces /\ (main' \notin StartPlaces \/ (main' = "close" /\ i' = 1))
    BY <1>1, <1>2 DEF StartPlaces
  <2>2. UNCHANGED <<startVars, open>>
    BY <1>1 DEF startVars, listVars
  <2> QED
    BY <1>3, <2>1, <2>2, BetweenKeeps DEF IInv
<1>5. TypeOK'
  <2>1. /\ run' \in [Index -> BOOLEAN] /\ says' \in [Index -> BOOLEAN]
        /\ thread' \in [Index -> {"none", "check", "recv", "send", "done"}]
    BY <1>1 DEF StartThread, IInv, TypeOK
  <2>2. children' \in 0..MaxBind
    BY <1>1 DEF Index
  <2> QED
    BY <1>1, <1>2, <1>3, <1>4, <2>1, <2>2 DEF IInv, TypeOK, Kept, StartPlaces
<1>6. Threads'
  <2>1. \A k \in Index : k > i => thread'[k] = thread[k] /\ says'[k] = says[k]
    <3>1. /\ thread' = [thread EXCEPT ![i] = "check"] /\ says' = [says EXCEPT ![i] = TRUE]
          /\ thread \in [Index -> {"none", "check", "recv", "send", "done"}]
          /\ says \in [Index -> BOOLEAN]
      BY DEF StartThread, IInv, TypeOK
    <3>2. \A k \in Index : k > i => k # i
      BY Sizes
    <3> QED
      BY <3>1, <3>2
  <2>2. \A k \in Index : k > i => ~Active(k)'
    BY <1>1, <2>1, Sizes DEF IInv, Threads, Active
  <2> QED
    BY <1>1, <1>2, <2>2, Sizes DEF Threads, Early, Over
<1>7. LogHeld'
  BY <1>1 DEF StartThread, IInv, TypeOK, LogHeld
<1> QED
  BY <1>4, <1>5, <1>6, <1>7 DEF IInv

LEMMA StartFailsStep ==
    ASSUME IInv, StartFails
    PROVE  IInv'
<1>1. /\ main = "start" /\ main' = "log" /\ i' = 1
      /\ UNCHANGED <<names, addrs, list, infos, sfd, sfd_arr, open, children, thread, says,
                     log, queue, broken, sig>>
      /\ run' = [run EXCEPT ![i] = TRUE]
  BY DEF StartFails, Go, startVars, listVars, netVars
<1>2. Kept'
  BY <1>1, BetweenKeeps DEF IInv, startVars, listVars, StartPlaces
<1>3. TypeOK'
  <2>1. run' \in [Index -> BOOLEAN]
    BY <1>1 DEF IInv, TypeOK
  <2> QED
    BY <1>1, <1>2, <2>1 DEF IInv, TypeOK, Kept, StartPlaces
<1>4. Threads'
  BY <1>1 DEF IInv, Threads, Early, Over, Active
<1>5. LogHeld'
  BY <1>1 DEF IInv, LogHeld
<1> QED
  BY <1>2, <1>3, <1>4, <1>5 DEF IInv

LEMMA WaitStep ==
    ASSUME IInv, Sigwait \/ MainLock \/ MainUnlock
    PROVE  IInv'
<1>1. /\ main \in {"sigwait", "log", "logging"}
      /\ main' \in {"log", "logging", "stop", "close"}
      /\ main' = "stop" => children # 0
      /\ main' = "close" => children = 0
      /\ (main = "sigwait" /\ log' = log) \/ (log' = 0 /\ main' = "logging") \/ log' = NULL
      /\ sig' \in BOOLEAN
      /\ UNCHANGED <<startVars, open, i, children, threadVars, queue, broken>>
  <2>1. CASE Sigwait
    BY <2>1 DEF Sigwait, Go
  <2>2. CASE MainLock
    BY <2>2 DEF MainLock, Go, netVars, IInv, TypeOK
  <2>3. CASE MainUnlock
    BY <2>3 DEF MainUnlock, Go, netVars, IInv, TypeOK
  <2> QED
    BY <2>1, <2>2, <2>3
<1>2. i = 1
  BY <1>1 DEF IInv, Threads
<1>3. Kept'
  <2>1. main \notin StartPlaces /\ (main' \notin StartPlaces \/ (main' = "close" /\ i' = 1))
    BY <1>1, <1>2 DEF StartPlaces
  <2> QED
    BY <1>1, <1>2, <2>1, BetweenKeeps DEF IInv
<1>4. TypeOK'
  <2>1. log' \in 0..MaxBind \cup {NULL}
    BY <1>1, Sizes DEF IInv, TypeOK
  <2> QED
    BY <1>1, <1>3, <2>1 DEF threadVars, IInv, TypeOK, Kept, StartPlaces
<1>5. Threads'
  <2>1. children = 0 => \A k \in Index : ~Active(k)
    BY Sizes DEF IInv, Threads
  <2> QED
    BY <1>1, <1>2, <2>1, Sizes DEF startVars, threadVars, IInv, Threads, Early, Over, Active
<1>6. LogHeld'
  BY <1>1, Sizes, UdpEchoAssumption DEF threadVars, IInv, LogHeld, Index
<1> QED
  BY <1>3, <1>4, <1>5, <1>6 DEF IInv

LEMMA StopStep ==
    ASSUME IInv, Stop
    PROVE  IInv'
<1>1. /\ main = "stop" /\ i <= children
      /\ run' = [run EXCEPT ![i] = FALSE]
      /\ UNCHANGED <<names, addrs, list, infos, sfd, sfd_arr, open, children, thread, says,
                     log, queue, broken, sig>>
  BY DEF Stop, IInv, Threads, startVars, listVars, netVars
<1>2. \/ i = children /\ main' = "join" /\ i' = 1
      \/ i < children /\ main' = "stop" /\ i' = i + 1
  BY <1>1, Sizes DEF Stop, LoopOver
<1>3. i' \in Index \cup {1} /\ i' \in Nat \ {0}
  BY Sizes, LoopOverType DEF Stop
<1>4. Kept'
  <2>1. main \notin StartPlaces /\ (main' \notin StartPlaces \/ (main' = "close" /\ i' = 1))
    BY <1>1, <1>2 DEF StartPlaces
  <2>2. UNCHANGED <<startVars, open>>
    BY <1>1 DEF startVars, listVars
  <2> QED
    BY <1>3, <2>1, <2>2, BetweenKeeps DEF IInv
<1>5. TypeOK'
  <2>1. run' \in [Index -> BOOLEAN]
    BY <1>1 DEF IInv, TypeOK
  <2> QED
    BY <1>1, <1>2, <1>3, <1>4, <2>1 DEF IInv, TypeOK, Kept, StartPlaces
<1>6. Threads'
  BY <1>1, <1>2, Sizes DEF IInv, Threads, Early, Over, Active
<1>7. LogHeld'
  BY <1>1 DEF IInv, LogHeld
<1> QED
  BY <1>4, <1>5, <1>6, <1>7 DEF IInv

LEMMA JoinStep ==
    ASSUME IInv, Join
    PROVE  IInv'
<1>1. /\ main = "join" /\ i <= children /\ ~Active(i)
      /\ UNCHANGED <<names, addrs, list, infos, sfd, sfd_arr, open, children, run, thread,
                     says, log, queue, broken, sig>>
  BY DEF Join, IInv, Threads, Active, startVars, listVars, threadVars, netVars
<1>2. \/ i = children /\ main' = "close" /\ i' = 1
      \/ i < children /\ main' = "join" /\ i' = i + 1
  BY <1>1, Sizes DEF Join, LoopOver
<1>3. i' \in Index \cup {1} /\ i' \in Nat \ {0}
  BY Sizes, LoopOverType DEF Join
<1>4. Kept'
  <2>1. main \notin StartPlaces /\ (main' \notin StartPlaces \/ (main' = "close" /\ i' = 1))
    BY <1>1, <1>2 DEF StartPlaces
  <2>2. UNCHANGED <<startVars, open>>
    BY <1>1 DEF startVars, listVars
  <2> QED
    BY <1>3, <2>1, <2>2, BetweenKeeps DEF IInv
<1>5. TypeOK'
  BY <1>1, <1>2, <1>3, <1>4 DEF IInv, TypeOK, Kept, StartPlaces
<1>6. Threads'
  <2>1. \A k \in Index : k < i + 1 => ~Active(k)
    <3> SUFFICES ASSUME NEW k \in Index, k < i + 1 PROVE ~Active(k)
      OBVIOUS
    <3>1. k < i \/ k = i
      BY Sizes
    <3> QED
      BY <1>1, <3>1 DEF IInv, Threads
  <2>2. i = children => \A k \in Index : ~Active(k)
    <3> SUFFICES ASSUME i = children, NEW k \in Index PROVE ~Active(k)
      OBVIOUS
    <3>1. k < i + 1 \/ k > children
      BY Sizes
    <3> QED
      BY <2>1, <3>1 DEF IInv, Threads
  <2>3. \A k \in Index : Active(k)' <=> Active(k)
    BY <1>1 DEF Active
  <2> QED
    BY <1>1, <1>2, <2>1, <2>2, <2>3, Sizes DEF IInv, Threads, Early, Over
<1>7. LogHeld'
  BY <1>1 DEF IInv, LogHeld
<1> QED
  BY <1>4, <1>5, <1>6, <1>7 DEF IInv

-----------------------------------------------------------------------------
(* The threads of the sockets, and outside *)

\* What any step of thread k does to the rest: nothing that Threads and LogHeld
\* of the others depend on.
LEMMA ThreadMoves ==
    ASSUME IInv, NEW k \in DOMAIN sfd_arr, Active(k),
           NEW to \in {"none", "check", "recv", "send", "done"}, NEW record \in BOOLEAN,
           thread' = [thread EXCEPT ![k] = to],
           says' = [says EXCEPT ![k] = record],
           (log' = log /\ log # k) \/ (log' = k /\ record) \/ log' = NULL,
           queue' \in [Fd -> 0..MaxQueue],
           UNCHANGED <<main, startVars, i, open, children, run, broken, sig>>
    PROVE  IInv'
<1>1. k \in Index
  BY Sizes DEF IInv, Kept, StartTypeOK, Index
<1>2. Kept'
  BY SteadyKeeps DEF IInv
<1>3. sfd_arr' = sfd_arr
  BY DEF startVars
<1>4. TypeOK'
  <2>1. /\ thread' \in [Index -> {"none", "check", "recv", "send", "done"}]
        /\ says' \in [Index -> BOOLEAN]
    BY DEF IInv, TypeOK
  <2>2. log' \in 0..MaxBind \cup {NULL}
    BY <1>1 DEF IInv, TypeOK, Index
  <2> QED
    BY <1>2, <2>1, <2>2 DEF IInv, TypeOK, Kept
<1>5. Threads'
  <2>1. \A j \in Index : j # k => thread'[j] = thread[j] /\ says'[j] = says[j]
    BY DEF IInv, TypeOK
  <2>2. ~Over /\ ~(k > children) /\ (main = "join" => ~(k < i))
    BY <1>1 DEF IInv, Threads
  <2>3. \A j \in Index : j # k => (Active(j)' <=> Active(j))
    BY <2>1 DEF Active
  <2> QED
    BY <1>1, <1>3, <2>2, <2>3 DEF IInv, Threads, Early, Over
<1>6. LogHeld'
  <2>1. says'[k] = record /\ \A j \in Index : j # k => says'[j] = says[j]
    BY <1>1 DEF IInv, TypeOK
  <2>2. log' = 0 => main' = "logging"
    BY <1>1, Sizes, UdpEchoAssumption DEF IInv, LogHeld
  <2>3. log' \in Index => says'[log']
    <3>1. CASE log' = log /\ log # k
      BY <2>1, <3>1 DEF IInv, LogHeld
    <3>2. CASE log' = k /\ record
      BY <2>1, <3>2
    <3>3. CASE log' = NULL
      BY <3>3, UdpEchoAssumption DEF Index
    <3> QED
      BY <3>1, <3>2, <3>3
  <2> QED
    BY <2>2, <2>3 DEF LogHeld
<1> QED
  BY <1>2, <1>4, <1>5, <1>6 DEF IInv

LEMMA ThreadStepKeeps ==
    ASSUME IInv, NEW k \in DOMAIN sfd_arr, ThreadStep(k) \/ ThreadFault(k)
    PROVE  IInv'
<1>1. k \in Index /\ sfd_arr[k] \in Fd
  BY Sizes DEF IInv, Kept, StartTypeOK, Index
<1>2. ASSUME NEW from, from \notin {"none", "done"},
             NEW to \in {"check", "recv", "send", "done"}, NEW record \in BOOLEAN,
             Step(k, from, to, record), queue' \in [Fd -> 0..MaxQueue]
      PROVE  IInv'
  <2>1. log' = log /\ log # k
    BY <1>1, <1>2 DEF Step, IInv, LogHeld
  <2>2. Active(k)
    BY <1>2 DEF Step, Active
  <2>3. /\ thread' = [thread EXCEPT ![k] = to]
        /\ says' = [says EXCEPT ![k] = record]
        /\ UNCHANGED <<main, startVars, i, open, children, run, broken, sig>>
        /\ to \in {"none", "check", "recv", "send", "done"}
    BY <1>2 DEF Step
  <2> QED
    BY <1>2, <2>1, <2>2, <2>3, ThreadMoves
<1>3. queue \in [Fd -> 0..MaxQueue]
  BY DEF IInv, TypeOK
<1>4. CASE CheckRun(k)
  BY <1>2, <1>3, <1>4 DEF CheckRun
<1>5. CASE Recv(k)
  <2>1. queue[sfd_arr[k]] - 1 \in 0..MaxQueue
    BY <1>1, <1>3, <1>5, UdpEchoAssumption DEF Recv
  <2>2. queue' = [queue EXCEPT ![sfd_arr[k]] = queue[sfd_arr[k]] - 1]
    BY <1>5 DEF Recv
  <2>3. queue' \in [Fd -> 0..MaxQueue]
    BY <1>3, <2>1, <2>2
  <2> QED
    BY <1>2, <1>5, <2>3 DEF Recv
<1>6. CASE RecvTimeout(k) \/ RecvFails(k)
  BY <1>2, <1>3, <1>6 DEF RecvTimeout, RecvFails
<1>7. CASE Send(k) \/ SendFails(k)
  BY <1>2, <1>3, <1>7 DEF Send, SendFails
<1>8. CASE Lock(k)
  <2>1. says[k] /\ thread[k] \in {"none", "check", "recv", "send", "done"}
    BY <1>1, <1>8 DEF Lock, IInv, TypeOK
  <2>2. thread' = [thread EXCEPT ![k] = thread[k]] /\ says' = [says EXCEPT ![k] = TRUE]
    BY <2>1, <1>8 DEF Lock, LoggingIdle, IInv, TypeOK
  <2> QED
    BY <1>3, <1>8, <2>1, <2>2, ThreadMoves DEF Lock, LoggingIdle, netVars, Active
<1>9. CASE Unlock(k)
  <2>1. says[k] /\ thread[k] \in {"none", "check", "recv", "send", "done"}
    BY <1>1, <1>9 DEF Unlock, IInv, TypeOK, LogHeld
  <2>2. thread' = [thread EXCEPT ![k] = thread[k]]
    BY <1>9 DEF Unlock, LoggingIdle, IInv, TypeOK
  <2> QED
    BY <1>3, <1>9, <2>1, <2>2, ThreadMoves DEF Unlock, LoggingIdle, netVars, Active
<1> QED
  BY <1>4, <1>5, <1>6, <1>7, <1>8, <1>9 DEF ThreadStep, ThreadFault

LEMMA OutsideStep ==
    ASSUME IInv, Outside
    PROVE  IInv'
<1>1. UNCHANGED <<main, startVars, i, open, children, run, thread, says, log>>
  BY DEF Outside, Signal, Arrive, Break, Others, threadVars
<1>2. queue' \in [Fd -> 0..MaxQueue]
  <2>1. ASSUME NEW f \in Fd, Arrive(f) PROVE queue' \in [Fd -> 0..MaxQueue]
    <3>1. queue[f] + 1 \in 0..MaxQueue
      BY <2>1, UdpEchoAssumption DEF Arrive, IInv, TypeOK
    <3> QED
      BY <3>1, <2>1 DEF Arrive, IInv, TypeOK
  <2>2. CASE queue' = queue
    BY <2>2 DEF IInv, TypeOK
  <2> QED
    BY <2>1, <2>2 DEF Outside, Signal, Break
<1>3. broken' \subseteq Fd /\ sig' \in BOOLEAN
  BY DEF Outside, Signal, Arrive, Break, IInv, TypeOK
<1>4. Kept'
  BY <1>1, SteadyKeeps DEF IInv
<1>5. TypeOK'
  BY <1>1, <1>2, <1>3, <1>4 DEF IInv, TypeOK, Kept
<1>6. Threads'
  BY <1>1 DEF startVars, IInv, Threads, Early, Over, Active
<1>7. LogHeld'
  BY <1>1 DEF IInv, LogHeld
<1> QED
  BY <1>4, <1>5, <1>6, <1>7 DEF IInv

-----------------------------------------------------------------------------
(* The theorems *)

LEMMA StutterStep ==
    ASSUME IInv, UNCHANGED vars
    PROVE  IInv'
<1>1. UNCHANGED <<main, startVars, i, open, children, run, thread, says, log, queue,
                  broken, sig>>
  BY DEF vars, threadVars, netVars
<1>2. Kept'
  BY <1>1, SteadyKeeps DEF IInv
<1>3. TypeOK'
  BY <1>1, <1>2 DEF IInv, TypeOK, Kept
<1>4. Threads' /\ LogHeld'
  BY <1>1 DEF startVars, IInv, Threads, LogHeld, Early, Over, Active
<1> QED
  BY <1>2, <1>3, <1>4 DEF IInv

\* The inductive invariant holds in every state of the echo server.
THEOREM Inductive == Spec => []IInv
<1>1. IInv /\ [Next]_vars => IInv'
  <2> SUFFICES ASSUME IInv, [Next]_vars PROVE IInv'
    OBVIOUS
  <2>1. CASE MainStep
    BY <2>1, SetUpStep, StartThreadStep, StartFailsStep, WaitStep, StopStep, JoinStep,
       CloseStep, FreeStep
    DEF MainStep
  <2>2. CASE \E k \in DOMAIN sfd_arr : ThreadStep(k) \/ ThreadFault(k)
    BY <2>2, ThreadStepKeeps
  <2> QED
    BY <2>1, <2>2, OutsideStep, StutterStep DEF Next
<1> QED
  BY <1>1, InitHolds, PTL DEF Spec

\* rw_loop_func, main: while a thread lives its socket is open and its own, and
\* main, whose frame holds its arguments, has not returned; for any number of
\* threads, wherever starting them failed.
THEOREM ThreadsSafe == Spec => []NoUseAfterClose
<1>1. IInv => NoUseAfterClose
  <2> SUFFICES ASSUME IInv, NEW k \in Index, Active(k)
               PROVE  /\ main # "exited"
                      /\ sfd_arr[k] \in open
                      /\ \A l \in DOMAIN sfd_arr : sfd_arr[l] = sfd_arr[k] => l = k
    BY DEF NoUseAfterClose
  <2>1. ~Over
    BY DEF IInv, Threads
  <2>2. k \in 1..Len(sfd_arr) /\ sfd_arr[k] \in Fd /\ DOMAIN sfd_arr = 1..Len(sfd_arr)
    <3>1. ~(k > children)
      BY DEF IInv, Threads
    <3> QED
      BY <3>1, Sizes DEF IInv, Kept, StartTypeOK
  <2> QED
    BY <2>1, <2>2 DEF IInv, Kept, Sockets, Over
<1> QED
  BY <1>1, Inductive, PTL

\* main: no socket is left open, no address allocated and the log lock is not
\* held when it returns, whichever of getaddrinfo, socket, bind, setsockopt and
\* pthread_create failed on the way.
THEOREM AllIsReleased == Spec => []AllReleased
<1>1. IInv => AllReleased
  <2> SUFFICES ASSUME IInv PROVE AllReleased
    OBVIOUS
  <2>1. StartReleased
    BY KeptOpen DEF IInv
  <2>2. main = "exited" => log \notin Index /\ log # 0
    BY DEF IInv, Threads, LogHeld, Over, Active
  <2>3. log \in Index \cup {0, NULL}
    BY Sizes DEF IInv, TypeOK, Index
  <2> QED
    BY <2>1, <2>2, <2>3 DEF AllReleased
<1> QED
  BY <1>1, Inductive, PTL

\* main: no socket is lost, and more sockets or threads than fit are never put
\* into the arrays, on any path through setting up.
THEOREM NoSocketLost == Spec => []SocketsKept
<1>1. IInv => SocketsKept
  BY KeptOpen DEF IInv
<1> QED
  BY <1>1, Inductive, PTL

\* Types: in particular the threads' arrays are never indexed past MaxBind.
THEOREM ArraysFit == Spec => []TypeOK
<1>1. IInv => TypeOK
  BY DEF IInv
<1> QED
  BY <1>1, Inductive, PTL
=============================================================================
