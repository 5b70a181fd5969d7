---------------------------- MODULE UdpChatProofs ---------------------------
(***************************************************************************)
(* Proofs about the whole udpchat server, for any number of sockets,       *)
(* clients and users: setting up (StartupProofs), the table                *)
(* (UserTableProofs) and the two threads between them.                     *)
(***************************************************************************)
EXTENDS UdpChat, StartupProofs

TP == INSTANCE RosterProofs

LEMMA TableAssumption ==
    /\ NULL \notin Node \cup Addr \cup Fd
    /\ NULL \notin [last : Nat, slot : Nat, fd : Fd \cup {NULL}]
    /\ Timeout \in Nat
    /\ MaxNow \in Nat
BY UdpChatAssumption, StartupAssumption

-----------------------------------------------------------------------------
(* The table's actions here are those of its proofs *)

LEMMA TableInit ==
    ASSUME Table!Init
    PROVE  TP!IInv
<1>1. TP!Init
  BY DEF Table!Init, TP!Init, Table!Zero, TP!Zero, Table!Never, TP!Never
<1> QED
  BY <1>1, TP!InitIInv, TableAssumption

LEMMA TableNext ==
    ASSUME Table!Next
    PROVE  TP!Next
<1> USE DEF TP!Next, TP!TableStep, TP!Update, Table!tableVars, TP!tableVars
<1>1. CASE Table!Tick
  BY <1>1
  DEF Table!Tick, TP!Tick
<1>2. ASSUME NEW a \in Addr, NEW f \in Fd, Table!UpdateCall(a, f) PROVE TP!Next
  <2>1. TP!UpdateCall(a, f)
    BY <1>2 DEF Table!UpdateCall, TP!UpdateCall, Table!NewUser, TP!NewUser,
                  Table!Slot, TP!Slot
  <2> QED
    BY <2>1
<1>3. CASE Table!EveryCall
  BY <1>3
  DEF Table!EveryCall, TP!EveryCall
<1>4. CASE Table!FreeCall
  BY <1>4
  DEF Table!FreeCall, TP!FreeCall
<1>5. CASE Table!Spam
  BY <1>5
  DEF Table!Spam, TP!Spam, Table!Matches, TP!Matches, Table!IsSpam, TP!IsSpam,
      Table!Return, TP!Return, Table!Zero, TP!Zero
<1>6. CASE Table!RefreshInLoop
  BY <1>6
  DEF Table!RefreshInLoop, TP!RefreshInLoop, Table!InLoop, TP!InLoop,
      Table!Matches, TP!Matches, Table!IsSpam, TP!IsSpam,
      Table!RefreshedInLoop, TP!RefreshedInLoop, Table!Accepted, TP!Accepted,
      Table!Return, TP!Return, Table!Zero, TP!Zero
<1>7. CASE Table!RefreshLast
  BY <1>7
  DEF Table!RefreshLast, TP!RefreshLast, Table!PastLoop, TP!PastLoop,
      Table!InLoop, TP!InLoop, Table!Matches, TP!Matches, Table!IsSpam,
      TP!IsSpam, Table!RefreshedLast, TP!RefreshedLast, Table!Accepted,
      TP!Accepted, Table!Return, TP!Return, Table!Zero, TP!Zero
<1>8. CASE Table!Kick
  BY <1>8
  DEF Table!Kick, TP!Kick, Table!InLoop, TP!InLoop, Table!Matches, TP!Matches,
      Table!Expired, TP!Expired, Table!Unlinked, TP!Unlinked, Table!Zero,
      TP!Zero
<1>9. CASE Table!Skip
  BY <1>9
  DEF Table!Skip, TP!Skip, Table!InLoop, TP!InLoop, Table!Matches, TP!Matches,
      Table!Expired, TP!Expired
<1>10. ASSUME NEW m \in Node, Table!Join(m) PROVE TP!Next
  <2>1. Table!Appended(m) = TP!Appended(m)
    BY DEF Table!Appended, TP!Appended
  <2>2. TP!Join(m)
    BY <1>10, <2>1
    DEF Table!Join, TP!Join, Table!NotFound, TP!NotFound, Table!PastLoop, TP!PastLoop,
        Table!InLoop, TP!InLoop, Table!Matches, TP!Matches,
        Table!Accepted, TP!Accepted, Table!Return, TP!Return, Table!Zero, TP!Zero
  <2> QED
    BY <2>2
<1>11. CASE Table!JoinFails
  BY <1>11
  DEF Table!JoinFails, TP!JoinFails, Table!NotFound, TP!NotFound,
      Table!PastLoop, TP!PastLoop, Table!InLoop, TP!InLoop, Table!Matches,
      TP!Matches, Table!Return, TP!Return, Table!Zero, TP!Zero
<1>12. CASE Table!EveryUser
  BY <1>12
  DEF Table!EveryUser, TP!EveryUser
<1>13. CASE Table!EveryReturn
  BY <1>13
  DEF Table!EveryReturn, TP!EveryReturn
<1>14. CASE Table!FreeUser
  BY <1>14
  DEF Table!FreeUser, TP!FreeUser, Table!Zero, TP!Zero
<1>15. CASE Table!FreeLast
  BY <1>15
  DEF Table!FreeLast, TP!FreeLast, Table!Zero, TP!Zero
<1>16. CASE Table!FreeNull
  BY <1>16
  DEF Table!FreeNull, TP!FreeNull
<1> QED
  BY <1>1, <1>2, <1>3, <1>4, <1>5, <1>6, <1>7, <1>8, <1>9, <1>10, <1>11, <1>12, <1>13, <1>14, <1>15, <1>16
  DEF Table!Next, Table!TableStep, Table!Update

LEMMA TableKeeps ==
    ASSUME TP!IInv, Table!Next \/ UNCHANGED tableVars
    PROVE  TP!IInv'
<1>1. TP!Next \/ UNCHANGED TP!vars
  BY TableNext DEF tableVars, TP!vars, TP!tableVars
<1> QED
  BY <1>1, TP!StepIInv, TableAssumption

-----------------------------------------------------------------------------
(* The inductive invariant *)

\* Types of what neither Startup nor the table knows.
NetType ==
    /\ main \in StartPlaces \cup {"create", "sigwait", "shutdown", "join"}
    /\ run \in BOOLEAN
    /\ master \in {"none", "check", "poll", "scan", "recv",
                   "update", "send", "every", "free", "done"}
    /\ n \in Nat \ {0}
    /\ DOMAIN revents \subseteq DOMAIN sfd_arr
    /\ \A k \in DOMAIN revents : revents[k] \subseteq {"IN", "ERR", "HUP"}
    /\ shut \subseteq Fd
    /\ queue \in [Fd -> 0..MaxQueue]
    /\ failed \subseteq Fd
    /\ sig \in BOOLEAN

\* Where one thread is while the other is somewhere, and the loop indices.
Places ==
    /\ main \in {"args", "resolve", "bind", "create"} => master = "none" /\ revents = <<>>
    /\ main \in {"close", "free", "exited"} => master \in {"none", "done"}
    /\ main \in {"create", "sigwait", "join"} => i = 1
    /\ main = "shutdown" => i <= Len(sfd_arr)
    /\ master \in {"recv", "update", "send", "every"} => n <= Len(sfd_arr)

\* Which call of the table is in progress while the master thread is somewhere.
Phase ==
    /\ master \in {"none", "check", "poll", "scan", "recv", "send"} => pc = "idle"
    /\ master = "update" => pc = "update"
    /\ master = "every" => pc = "every"
    /\ master = "free" => pc \in {"free", "crashed"}
    /\ master = "done" => pc = "freed"

\* The users name sockets of the server; the first comes with the thread.
Users ==
    /\ master = "none" => alloc = {}
    /\ \A m \in alloc : heap[m].recv_fd \in Bound
    /\ pc = "update" => user.recv_fd \in Bound

IInv == Kept /\ TP!IInv /\ NetType /\ Places /\ Phase /\ Users

LEMMA InitHolds ==
    ASSUME Init
    PROVE  IInv
<1>1. Kept /\ TP!IInv
  BY StartHolds, TableInit DEF Init
<1>2. main = "args" /\ master = "none" /\ revents = <<>> /\ pc = "idle" /\ alloc = {}
  BY DEF Init, StartInit, Table!Init
<1>3. DOMAIN revents = {}
  BY <1>2
<1>4. queue \in [Fd -> 0..MaxQueue]
  BY UdpChatAssumption DEF Init
<1>5. NetType
  <2>1. /\ DOMAIN revents \subseteq DOMAIN sfd_arr
        /\ \A k \in DOMAIN revents : revents[k] \subseteq {"IN", "ERR", "HUP"}
    BY <1>3
  <2>2. /\ main \in StartPlaces /\ master = "none"
        /\ n \in Nat \ {0} /\ shut \subseteq Fd /\ failed \subseteq Fd
        /\ run \in BOOLEAN /\ sig \in BOOLEAN
    <3>1. run = TRUE /\ n = 1 /\ shut = {} /\ failed = {} /\ sig = FALSE
      BY DEF Init
    <3>2. n \in Nat \ {0} /\ shut \subseteq Fd /\ failed \subseteq Fd
      BY <3>1
    <3>3. run \in BOOLEAN /\ sig \in BOOLEAN
      BY <3>1
    <3>4. main \in StartPlaces /\ master = "none"
      BY <1>2 DEF StartPlaces
    <3> QED
      BY <3>2, <3>3, <3>4
  <2>3. /\ main \in StartPlaces \cup {"create", "sigwait", "shutdown", "join"}
        /\ master \in {"none", "check", "poll", "scan", "recv",
                       "update", "send", "every", "free", "done"}
    BY <2>2
  <2> HIDE <1>2
  <2> QED
    BY <1>4, <2>1, <2>2, <2>3 DEF NetType
<1>6. Places /\ Phase /\ Users
  BY <1>2 DEF Places, Phase, Users
<1> QED
  BY <1>1, <1>5, <1>6 DEF IInv

-----------------------------------------------------------------------------
(* What the steps do to the table *)

\* A cell keeps its socket or gets the one of the user of this call.
LEMMA FdsKept ==
    ASSUME TP!IInv,
           \/ Table!Update \/ Table!EveryCall \/ Table!EveryUser \/ Table!EveryReturn
           \/ Table!FreeCall \/ Table!FreeUser \/ Table!FreeLast \/ Table!FreeNull
           \/ UNCHANGED tableVars
    PROVE  /\ \A m \in alloc' :
                \/ m \in alloc /\ heap'[m].recv_fd = heap[m].recv_fd
                \/ pc = "update" /\ heap'[m].recv_fd = user.recv_fd
           /\ pc' = "update" => pc = "update" /\ user' = user
<1> USE DEF Table!tableVars, Table!Return
<1>1. /\ alloc \subseteq Node /\ heap \in [Node -> TP!Cell] /\ user \in TP!Cell
      /\ p \in Node \cup {NULL}
  BY DEF TP!IInv, TP!TypeOK, TP!Ptr
<1>2. \A m \in Node : heap[m] \in TP!Cell
  BY <1>1
<1>3. CASE Table!Spam \/ Table!Skip \/ Table!JoinFails
  BY <1>3 DEF Table!Spam, Table!Skip, Table!JoinFails
<1>4. CASE Table!RefreshInLoop \/ Table!RefreshLast
  <2>1. pc = "update" /\ alloc' = alloc /\ p \in Node /\ pc' = "idle"
    BY <1>1, <1>4 DEF Table!RefreshInLoop, Table!RefreshLast, Table!InLoop, Table!PastLoop
  <2>2. PICK c : c.recv_fd = user.recv_fd /\ heap' = [heap EXCEPT ![p] = c]
    <3>1. /\ Table!RefreshedInLoop(heap[p]).recv_fd = user.recv_fd
          /\ Table!RefreshedLast(heap[p]).recv_fd = user.recv_fd
      BY <1>2, <2>1 DEF Table!RefreshedInLoop, Table!RefreshedLast, TP!Cell
    <3>2. CASE Table!RefreshInLoop
      BY <3>1, <3>2 DEF Table!RefreshInLoop
    <3>3. CASE Table!RefreshLast
      BY <3>1, <3>3 DEF Table!RefreshLast
    <3> QED
      BY <1>4, <3>2, <3>3
  <2>3. \A m \in Node : heap'[m] = IF m = p THEN c ELSE heap[m]
    BY <1>1, <2>2
  <2> QED
    BY <1>1, <2>1, <2>2, <2>3
<1>5. CASE Table!Kick
  <2>1. alloc' = alloc \ {p} /\ heap' = Table!Unlinked(p) /\ UNCHANGED <<pc, user>>
    BY <1>5 DEF Table!Kick
  <2>2. \A m \in Node : m # p => heap'[m].recv_fd = heap[m].recv_fd
    BY <1>2, <2>1 DEF Table!Unlinked, TP!Cell
  <2> QED
    BY <1>1, <1>5, <2>1, <2>2
<1>6. ASSUME NEW j \in Node, Table!Join(j)
      PROVE  /\ pc = "update" /\ pc' = "idle"
             /\ \A m \in alloc' :
                  \/ m \in alloc /\ heap'[m].recv_fd = heap[m].recv_fd
                  \/ heap'[m].recv_fd = user.recv_fd
  <2>1. /\ pc = "update" /\ pc' = "idle" /\ alloc' = alloc \cup {j} /\ heap' = Table!Appended(j)
    BY <1>6 DEF Table!Join, Table!NotFound, Table!PastLoop
  <2>2. \A m \in Node : m # j => heap'[m].recv_fd = heap[m].recv_fd
    BY <1>2, <2>1 DEF Table!Appended, TP!Cell
  <2>3. heap'[j].recv_fd = user.recv_fd
    BY <1>1, <2>1 DEF Table!Appended, TP!Cell
  <2> QED
    BY <1>1, <2>1, <2>2, <2>3
<1>7. CASE Table!EveryCall \/ Table!EveryUser \/ Table!EveryReturn \/ Table!FreeCall
           \/ Table!FreeNull \/ UNCHANGED tableVars
  BY <1>7 DEF Table!EveryCall, Table!EveryUser, Table!EveryReturn, Table!FreeCall,
              Table!FreeNull, tableVars
<1>8. CASE Table!FreeUser \/ Table!FreeLast
  <2>1. /\ alloc' = alloc \ {p} /\ heap' = [heap EXCEPT ![p] = Table!Zero]
        /\ pc' \in {pc, "freed"} /\ pc = "free"
    BY <1>8 DEF Table!FreeUser, Table!FreeLast
  <2> QED
    BY <1>1, <2>1
<1> QED
  BY <1>3, <1>4, <1>5, <1>6, <1>7, <1>8 DEF Table!Update

\* Each call moves on, or comes to its end.
LEMMA CallMoves ==
    /\ Table!Update => pc = "update" /\ pc' \in {"update", "idle"}
    /\ Table!EveryCall => pc = "idle" /\ pc' = "every"
    /\ Table!EveryUser => pc = "every" /\ pc' = "every"
    /\ Table!EveryReturn => pc = "every" /\ pc' = "idle"
    /\ Table!FreeCall => pc = "idle" /\ pc' = "free"
    /\ Table!FreeUser \/ Table!FreeLast \/ Table!FreeNull =>
         pc = "free" /\ pc' \in {"free", "freed", "crashed"}
BY DEF Table!Update, Table!Spam, Table!RefreshInLoop, Table!RefreshLast, Table!Kick,
       Table!Skip, Table!Join, Table!JoinFails, Table!NotFound, Table!PastLoop,
       Table!InLoop, Table!Return, Table!EveryCall, Table!EveryUser, Table!EveryReturn,
       Table!FreeCall, Table!FreeUser, Table!FreeLast, Table!FreeNull

LEMMA TableCalls ==
    ASSUME \/ Table!Update \/ Table!EveryCall \/ Table!EveryUser \/ Table!EveryReturn
           \/ Table!FreeCall \/ Table!FreeUser \/ Table!FreeLast \/ Table!FreeNull
    PROVE  Table!Next
BY DEF Table!Next, Table!TableStep

-----------------------------------------------------------------------------
(* The main thread *)

\* What main leaves alone when it only moves on.
LEMMA MainMoves ==
    ASSUME IInv, Kept', UNCHANGED <<tableVars, masterVars>>,
           run' \in BOOLEAN, sig' \in BOOLEAN, shut' \subseteq Fd,
           queue' \in [Fd -> 0..MaxQueue], UNCHANGED failed,
           main' \in StartPlaces \cup {"create", "sigwait", "shutdown", "join"},
           Bound' = Bound, UNCHANGED sfd_arr, Places'
    PROVE  IInv'
<1>1. TP!IInv'
  BY TableKeeps DEF IInv
<1>2. UNCHANGED <<alloc, heap, pc, user, master, n, revents>>
  BY DEF tableVars, masterVars
<1>3. NetType'
  BY <1>2 DEF IInv, NetType
<1>4. Phase' /\ Users'
  BY <1>2 DEF IInv, Phase, Users
<1> QED
  BY <1>1, <1>3, <1>4 DEF IInv

LEMMA SetUpKeeps ==
    ASSUME IInv, SetUp
    PROVE  IInv'
<1>1. Kept'
  BY StartKeeps, BindLoopKeeps DEF SetUp, IInv, StartPlaces
<1>2. /\ main \in {"args", "resolve", "bind"}
      /\ main' \in {"resolve", "bind", "exited", "free", "create"}
      /\ i' = i /\ i = 1
  BY StartMoves DEF SetUp, BindLoopDone, Go, IInv, Kept, Sockets
<1>3. /\ master = "none" /\ revents = <<>> /\ pc = "idle" /\ alloc = {}
      /\ UNCHANGED <<tableVars, run, master, n, revents, shut, queue, failed, sig>>
  BY <1>2 DEF SetUp, IInv, Places, Phase, Users, masterVars, netVars
<1>4. TP!IInv'
  BY <1>3, TableKeeps DEF IInv
<1>5. NetType'
  <2>1. DOMAIN revents' = {}
    BY <1>3
  <2>2. /\ DOMAIN revents' \subseteq DOMAIN sfd_arr'
        /\ \A k \in DOMAIN revents' : revents'[k] \subseteq {"IN", "ERR", "HUP"}
    BY <2>1
  <2>3. main' \in StartPlaces \cup {"create", "sigwait", "shutdown", "join"}
    BY <1>2 DEF StartPlaces
  <2> QED
    BY <1>3, <2>2, <2>3 DEF IInv, NetType
<1>6. Places' /\ Phase' /\ Users'
  BY <1>2, <1>3 DEF Places, Phase, Users, tableVars
<1> QED
  BY <1>1, <1>4, <1>5, <1>6 DEF IInv

LEMMA BetweenStep ==
    ASSUME IInv, CreateFails \/ Sigwait \/ Shutdown \/ JoinThread
    PROVE  IInv'
<1>1. /\ main \in {"create", "sigwait", "shutdown", "join"}
      /\ UNCHANGED <<startVars, open, tableVars, masterVars, failed, queue>>
      /\ sfd_arr \in Seq(Fd) /\ i \in Nat \ {0} /\ Len(sfd_arr) \in Nat
  BY DEF CreateFails, Sigwait, Shutdown, JoinThread, Go, netVars, IInv, Kept, StartTypeOK
<1>2. main \notin StartPlaces /\ Len(sfd_arr) > 0
  BY <1>1 DEF IInv, Kept, Sockets, StartPlaces
<1>3. \/ main = "create" /\ main' = "close" /\ i' = 1 /\ master = "none"
      \/ main = "sigwait" /\ main' = "shutdown" /\ i' = 1
      \/ main = "shutdown" /\ main' = "shutdown" /\ i' = i + 1 /\ i < Len(sfd_arr)
      \/ main = "shutdown" /\ main' = "join" /\ i' = 1
      \/ main = "join" /\ main' = "close" /\ i' = 1 /\ master = "done"
  BY <1>1 DEF CreateFails, Sigwait, Shutdown, JoinThread, Go, LoopOver, IInv, Places
<1>4. i' \in Nat \ {0} /\ (main' \notin StartPlaces \/ (main' = "close" /\ i' = 1))
  BY <1>1, <1>3 DEF StartPlaces
<1>5. Kept'
  BY <1>1, <1>2, <1>4, BetweenKeeps DEF IInv
<1>6. run' \in BOOLEAN /\ sig' \in BOOLEAN
  BY DEF CreateFails, Sigwait, Shutdown, JoinThread, netVars, IInv, NetType
<1>7. shut' \subseteq Fd
  <2>1. CASE Shutdown
    <3>1. sfd_arr[i] \in Fd
      BY <1>1, <2>1 DEF Shutdown, IInv, Places
    <3> QED
      BY <2>1, <3>1 DEF Shutdown, IInv, NetType
  <2>2. CASE UNCHANGED shut
    BY <2>2 DEF IInv, NetType
  <2> QED
    BY <2>1, <2>2 DEF CreateFails, Sigwait, JoinThread, netVars
<1>8. sfd_arr' = sfd_arr /\ master' = master /\ n' = n
  BY <1>1 DEF startVars, masterVars
<1>9. Places'
  BY <1>1, <1>2, <1>3, <1>8 DEF IInv, Places
<1>10. main' \in StartPlaces \cup {"create", "sigwait", "shutdown", "join"}
  BY <1>3 DEF StartPlaces
<1>11. queue' \in [Fd -> 0..MaxQueue]
  BY <1>1 DEF IInv, NetType
<1>12. Bound' = Bound
  BY <1>8 DEF Bound
<1> QED
  BY <1>1, <1>5, <1>6, <1>7, <1>8, <1>9, <1>10, <1>11, <1>12, MainMoves

LEMMA CreateKeeps ==
    ASSUME IInv, CreateThread
    PROVE  IInv'
<1>1. /\ main = "create" /\ main' = "sigwait" /\ master = "none" /\ master' = "check"
      /\ i = 1 /\ pc = "idle" /\ alloc = {}
      /\ UNCHANGED <<tableVars, startVars, i, open, run, n, revents, shut, queue, failed, sig>>
  BY DEF CreateThread, Go, netVars, IInv, Places, Phase, Users
<1>2. Kept'
  <2>1. main \notin StartPlaces /\ main' \notin StartPlaces /\ i' \in Nat \ {0}
    BY <1>1 DEF StartPlaces
  <2>2. UNCHANGED <<startVars, open>>
    BY <1>1
  <2> QED
    BY <2>1, <2>2, BetweenKeeps DEF IInv
<1>3. TP!IInv'
  BY <1>1, TableKeeps DEF IInv
<1>4. sfd_arr' = sfd_arr /\ alloc' = alloc /\ pc' = pc
  BY <1>1 DEF startVars, tableVars
<1>5. NetType'
  BY <1>1, <1>4 DEF IInv, NetType
<1>6. Places' /\ Phase' /\ Users'
  BY <1>1, <1>4 DEF Places, Phase, Users
<1> QED
  BY <1>2, <1>3, <1>5, <1>6 DEF IInv

LEMMA EndKeeps ==
    ASSUME IInv, Close \/ Free
    PROVE  IInv'
<1>1. Kept'
  BY CloseKeeps, FreeKeeps DEF Close, Free, IInv
<1>2. /\ UNCHANGED <<tableVars, run, masterVars, shut, failed, sig>>
      /\ UNCHANGED sfd_arr
      /\ main' \in {"close", "free", "exited"} /\ main \in {"close", "free"}
  BY DEF Close, Free, CloseSocket, FreeAddrs, Go, LoopOver, startVars, netVars
<1>3. master \in {"none", "done"} /\ master' = master
  BY <1>2 DEF IInv, Places, masterVars
<1>4. Places'
  BY <1>2, <1>3 DEF Places
<1>5. queue' \in [Fd -> 0..MaxQueue]
  BY UdpChatAssumption DEF Close, Free, netVars, IInv, NetType
<1>6. main' \in StartPlaces \cup {"create", "sigwait", "shutdown", "join"}
  BY <1>2 DEF StartPlaces
<1>7. run' \in BOOLEAN /\ sig' \in BOOLEAN /\ shut' \subseteq Fd /\ failed' = failed
  BY <1>2 DEF IInv, NetType
<1>8. Bound' = Bound
  BY <1>2 DEF Bound
<1> QED
  BY <1>1, <1>2, <1>4, <1>5, <1>6, <1>7, <1>8, MainMoves

-----------------------------------------------------------------------------
(* The master thread *)

\* While the thread runs, main waits for it: the sockets stay as they are.
LEMMA MasterFrame ==
    ASSUME IInv, UNCHANGED <<mainVars, shut, sig>>, TP!IInv', Phase', Users',
           master \notin {"none", "done"},
           master' \in {"check", "poll", "scan", "recv",
                       "update", "send", "every", "free", "done"},
           n' \in Nat \ {0},
           master' \in {"recv", "update", "send", "every"} => n' <= Len(sfd_arr),
           DOMAIN revents' \subseteq DOMAIN sfd_arr,
           \A k \in DOMAIN revents' : revents'[k] \subseteq {"IN", "ERR", "HUP"},
           queue' \in [Fd -> 0..MaxQueue], failed' \subseteq Fd
    PROVE  IInv'
<1>1. UNCHANGED <<main, startVars, i, open>> /\ UNCHANGED <<run, sfd_arr>>
  BY DEF mainVars, startVars
<1>2. Kept'
  BY <1>1, SteadyKeeps DEF IInv
<1>3. NetType'
  BY <1>1 DEF IInv, NetType
<1>4. main \notin {"args", "resolve", "bind", "create", "close", "free", "exited"}
  BY DEF IInv, Places
<1>5. Places'
  BY <1>1, <1>4 DEF IInv, Places
<1> QED
  BY <1>2, <1>3, <1>5 DEF IInv

\* A step of the thread that goes on with the table's call, ends it, or begins
\* one other than an update.
LEMMA MasterMoves ==
    ASSUME IInv, UNCHANGED <<mainVars, shut, sig>>, Phase',
           master \notin {"none", "done"},
           \/ Table!Update \/ Table!EveryCall \/ Table!EveryUser \/ Table!EveryReturn
           \/ Table!FreeCall \/ Table!FreeUser \/ Table!FreeLast \/ Table!FreeNull
           \/ UNCHANGED tableVars,
           master' \in {"check", "poll", "scan", "recv",
                       "update", "send", "every", "free", "done"},
           n' \in Nat \ {0},
           master' \in {"recv", "update", "send", "every"} => n' <= Len(sfd_arr),
           DOMAIN revents' \subseteq DOMAIN sfd_arr,
           \A k \in DOMAIN revents' : revents'[k] \subseteq {"IN", "ERR", "HUP"},
           queue' \in [Fd -> 0..MaxQueue], failed' \subseteq Fd
    PROVE  IInv'
<1>1. TP!IInv
  BY DEF IInv
<1>2. TP!IInv'
  BY <1>1, TableCalls, TableKeeps
<1>3. sfd_arr' = sfd_arr /\ Bound' = Bound
  BY DEF mainVars, startVars, Bound
<1>4. Users'
  <2>1. /\ \A m \in alloc' :
             \/ m \in alloc /\ heap'[m].recv_fd = heap[m].recv_fd
             \/ pc = "update" /\ heap'[m].recv_fd = user.recv_fd
        /\ pc' = "update" => pc = "update" /\ user' = user
    BY <1>1, FdsKept
  <2>2. /\ \A m \in alloc : heap[m].recv_fd \in Bound
        /\ pc = "update" => user.recv_fd \in Bound
    BY DEF IInv, Users
  <2>3. master' # "none"
    OBVIOUS
  <2> QED
    BY <1>3, <2>1, <2>2, <2>3 DEF Users
<1> QED
  BY <1>2, <1>4, MasterFrame

\* What the thread knows before each of its steps.
LEMMA Known ==
    ASSUME IInv
    PROVE  /\ n \in Nat \ {0} /\ Len(sfd_arr) \in Nat /\ sfd_arr \in Seq(Fd)
           /\ DOMAIN revents \subseteq DOMAIN sfd_arr
           /\ \A k \in DOMAIN revents : revents[k] \subseteq {"IN", "ERR", "HUP"}
           /\ queue \in [Fd -> 0..MaxQueue] /\ failed \subseteq Fd /\ MaxQueue \in Nat
BY UdpChatAssumption DEF IInv, NetType, Kept, StartTypeOK

LEMMA GiveUpKeeps ==
    ASSUME IInv, CheckRun \/ PollFails \/ ScanError
    PROVE  IInv'
<1> USE Known
<1>1. /\ UNCHANGED <<mainVars, netVars, n, revents>> /\ master \in {"check", "poll", "scan"}
      /\ \/ GiveUp
         \/ master' = "poll" /\ UNCHANGED tableVars
  BY DEF CheckRun, PollFails, ScanError
<1>2. UNCHANGED <<shut, sig, queue, failed, n, revents>>
  BY <1>1 DEF netVars
<1>3. pc = "idle"
  BY <1>1 DEF IInv, Phase
<1>4. \/ Table!FreeCall /\ master' = "free" /\ pc' = "free"
      \/ UNCHANGED tableVars /\ master' = "poll" /\ pc' = "idle"
  BY <1>1, <1>3, CallMoves DEF GiveUp, tableVars
<1>5. Phase'
  BY <1>4 DEF Phase
<1> QED
  BY <1>1, <1>2, <1>4, <1>5, MasterMoves

LEMMA ScanKeeps ==
    ASSUME IInv, PollInterrupted \/ ScanDone \/ ScanNext \/ ScanReadable
    PROVE  IInv'
<1> USE Known
<1>1. /\ UNCHANGED <<tableVars, mainVars, netVars, revents>>
      /\ master \in {"poll", "scan"} /\ master' \in {"check", "scan", "recv"}
      /\ n' \in {n, n + 1}
      /\ master' = "recv" => n' <= Len(sfd_arr)
  BY DEF PollInterrupted, ScanDone, ScanNext, ScanReadable
<1>2. UNCHANGED <<shut, sig, queue, failed, revents>>
  BY <1>1 DEF netVars
<1>3. n' \in Nat \ {0}
  BY <1>1
<1>4. pc' = "idle"
  BY <1>1 DEF IInv, Phase, tableVars
<1>5. Phase'
  BY <1>1, <1>4 DEF Phase
<1> QED
  BY <1>1, <1>2, <1>3, <1>5, MasterMoves

LEMMA PollKeeps ==
    ASSUME IInv, Poll
    PROVE  IInv'
<1> USE Known
<1>1. /\ UNCHANGED <<tableVars, mainVars, netVars>>
      /\ master = "poll" /\ master' = "scan" /\ n' = 1
  BY DEF Poll
<1>2. PICK hup \in {{"HUP"}, {"IN", "HUP"}} :
        revents' = [k \in DOMAIN sfd_arr |-> Flags(sfd_arr[k], hup)]
  BY DEF Poll
<1>3. /\ DOMAIN revents' \subseteq DOMAIN sfd_arr
      /\ \A k \in DOMAIN revents' : revents'[k] \subseteq {"IN", "ERR", "HUP"}
  BY <1>2 DEF Flags
<1>4. UNCHANGED <<shut, sig, queue, failed>> /\ n' \in Nat \ {0}
  BY <1>1 DEF netVars
<1>5. pc' = "idle"
  BY <1>1 DEF IInv, Phase, tableVars
<1>6. Phase'
  BY <1>1, <1>5 DEF Phase
<1> QED
  BY <1>1, <1>3, <1>4, <1>6, MasterMoves

\* msg_handle comes back without a message.
LEMMA NoMessageKeeps ==
    ASSUME IInv, RecvEmptyDatagram \/ RecvShut \/ RecvIgnored \/ RecvFails
    PROVE  IInv'
<1> USE Known
<1>1. /\ UNCHANGED <<mainVars, revents, shut, sig>> /\ master = "recv"
      /\ \/ UNCHANGED tableVars /\ master' = "scan" /\ n' = n + 1
         \/ GiveUp /\ n' = n
  BY DEF RecvEmptyDatagram, RecvShut, RecvIgnored, RecvFails, Receive, NextSocket, netVars
<1>2. pc = "idle" /\ n <= Len(sfd_arr) /\ n \in DOMAIN sfd_arr /\ sfd_arr[n] \in Fd
  BY <1>1 DEF IInv, Phase, Places
<1>3. queue' \in [Fd -> 0..MaxQueue]
  <2>1. CASE queue' = queue
    BY <2>1
  <2>2. CASE queue[sfd_arr[n]] > 0 /\ queue' = [queue EXCEPT ![sfd_arr[n]] = @ - 1]
    <3>1. queue[sfd_arr[n]] \in 0..MaxQueue
      BY <1>2
    <3>2. queue[sfd_arr[n]] - 1 \in 0..MaxQueue
      BY <2>2, <3>1
    <3> QED
      BY <1>2, <2>2, <3>2
  <2> QED
    BY <2>1, <2>2 DEF RecvEmptyDatagram, RecvShut, RecvIgnored, RecvFails, Receive, netVars
<1>4. failed' \subseteq Fd
  BY DEF RecvEmptyDatagram, RecvShut, RecvIgnored, RecvFails, Receive, netVars
<1>5. \/ Table!FreeCall /\ master' = "free" /\ pc' = "free" /\ n' = n
      \/ UNCHANGED tableVars /\ master' = "scan" /\ pc' = "idle" /\ n' = n + 1
  BY <1>1, <1>2, CallMoves DEF GiveUp, tableVars
<1>6. Phase' /\ n' \in Nat \ {0}
  BY <1>5 DEF Phase
<1> QED
  BY <1>1, <1>3, <1>4, <1>5, <1>6, MasterMoves

\* The user of a message gets the socket it was received on.
LEMMA MessageKeeps ==
    ASSUME IInv, NEW a \in Addr, RecvMessage(a)
    PROVE  IInv'
<1> USE Known
<1>1. /\ UNCHANGED <<mainVars, n, revents, shut, failed, sig>>
      /\ master = "recv" /\ master' = "update" /\ queue[sfd_arr[n]] > 0
      /\ queue' = [queue EXCEPT ![sfd_arr[n]] = @ - 1]
      /\ Table!UpdateCall(a, sfd_arr[n])
  BY DEF RecvMessage, Receive
<1>2. n <= Len(sfd_arr) /\ n \in DOMAIN sfd_arr /\ sfd_arr[n] \in Fd /\ sfd_arr[n] \in Bound
  BY <1>1 DEF IInv, Places, Bound
<1>3. queue' \in [Fd -> 0..MaxQueue]
  <2>1. queue[sfd_arr[n]] \in 0..MaxQueue
    BY <1>2
  <2>2. queue[sfd_arr[n]] - 1 \in 0..MaxQueue
    BY <1>1, <2>1
  <2> QED
    BY <1>1, <1>2, <2>2
<1>4. TP!IInv'
  BY <1>1, <1>2, TableKeeps DEF Table!Next, IInv
<1>5. pc' = "update" /\ user'.recv_fd = sfd_arr[n] /\ alloc' = alloc /\ heap' = heap
  BY <1>1 DEF Table!UpdateCall, Table!NewUser, Table!tableVars
<1>6. Bound' = Bound
  BY <1>1 DEF mainVars, startVars, Bound
<1>7. Phase' /\ Users'
  BY <1>1, <1>2, <1>5, <1>6 DEF IInv, Phase, Users
<1>8. n' <= Len(sfd_arr) /\ n' \in Nat \ {0} /\ failed' = failed /\ revents' = revents
  BY <1>1, <1>2
<1> QED
  BY <1>1, <1>3, <1>4, <1>7, <1>8, MasterFrame

\* The walk of an update, the broadcast, and the end of the table.
LEMMA CallKeeps ==
    ASSUME IInv, Update \/ SendAll \/ SendOne \/ SentAll
    PROVE  IInv'
<1> USE Known
<1>1. /\ UNCHANGED <<mainVars, netVars, revents>>
      /\ master \in {"update", "send", "every"}
      /\ \/ Table!Update \/ Table!EveryCall \/ Table!EveryUser \/ Table!EveryReturn
  BY DEF Update, SendAll, SendOne, SentAll, NextSocket, masterVars
<1>2. n <= Len(sfd_arr)
  BY <1>1 DEF IInv, Places
<1>3. \/ master' = "update" /\ pc' = "update" /\ n' = n
      \/ master' = "scan" /\ pc' = "idle" /\ n' = n + 1
      \/ master' = "send" /\ pc' = "idle" /\ n' = n
      \/ master' = "every" /\ pc' = "every" /\ n' = n
  BY CallMoves DEF Update, SendAll, SendOne, SentAll, NextSocket, masterVars
<1>4. Phase' /\ n' \in Nat \ {0}
  BY <1>3 DEF Phase
<1>5. UNCHANGED <<shut, sig, queue, failed>>
  BY <1>1 DEF netVars
<1> QED
  BY <1>1, <1>2, <1>3, <1>4, <1>5, MasterMoves

LEMMA FreeTableKeeps ==
    ASSUME IInv, FreeTable
    PROVE  IInv'
<1> USE Known
<1>1. /\ UNCHANGED <<mainVars, netVars, n, revents>> /\ master = "free"
      /\ Table!FreeUser \/ Table!FreeLast \/ Table!FreeNull
      /\ master' = IF pc' = "freed" THEN "done" ELSE master
  BY DEF FreeTable
<1>2. pc = "free" /\ pc' \in {"free", "freed", "crashed"}
  BY <1>1, CallMoves
<1>3. Phase' /\ master' \in {"free", "done"}
  BY <1>1, <1>2 DEF Phase
<1>4. UNCHANGED <<shut, sig, queue, failed, n, revents>>
  BY <1>1 DEF netVars
<1> QED
  BY <1>1, <1>3, <1>4, MasterMoves

-----------------------------------------------------------------------------
(* Outside *)

\* The clock, the network and the signal touch neither thread.
LEMMA OutsideKeeps ==
    ASSUME IInv, Outside
    PROVE  IInv'
<1> USE Known
<1>1. UNCHANGED <<mainVars, masterVars>>
  BY DEF Outside, Tick, Signal, Arrive, Discard, Fail
<1>2. /\ UNCHANGED <<main, startVars, i, open>>
      /\ UNCHANGED <<run, sfd_arr, master, n, revents>>
  BY <1>1 DEF mainVars, startVars, masterVars
<1>3. /\ Table!Tick \/ UNCHANGED tableVars
      /\ UNCHANGED <<alloc, heap, pc, user>>
  BY DEF Outside, Tick, Signal, Arrive, Discard, Fail, Table!Tick, Table!tableVars,
         tableVars
<1>4. TP!IInv'
  BY <1>3, TableKeeps DEF IInv, Table!Next
<1>5. Kept'
  BY <1>2, SteadyKeeps DEF IInv
<1>6. shut' = shut /\ failed' \subseteq Fd /\ sig' \in BOOLEAN
  BY DEF Outside, Tick, Signal, Arrive, Discard, Fail, netVars, IInv, NetType
<1>7. queue' \in [Fd -> 0..MaxQueue]
  <2>1. CASE queue' = queue
    BY <2>1
  <2>2. ASSUME NEW f \in Fd, Arrive(f) PROVE queue' \in [Fd -> 0..MaxQueue]
    <3>1. queue[f] \in 0..MaxQueue /\ queue[f] < MaxQueue
      BY <2>2 DEF Arrive
    <3>2. queue[f] + 1 \in 0..MaxQueue /\ queue' = [queue EXCEPT ![f] = @ + 1]
      BY <2>2, <3>1 DEF Arrive
    <3> QED
      BY <3>2
  <2>3. ASSUME NEW f \in Fd, Discard(f) PROVE queue' \in [Fd -> 0..MaxQueue]
    <3>1. queue[f] \in 0..MaxQueue /\ queue[f] > 0
      BY <2>3 DEF Discard
    <3>2. queue[f] - 1 \in 0..MaxQueue /\ queue' = [queue EXCEPT ![f] = @ - 1]
      BY <2>3, <3>1 DEF Discard
    <3> QED
      BY <3>2
  <2>4. \/ queue' = queue
        \/ \E f \in Fd : Arrive(f)
        \/ \E f \in Fd : Discard(f)
    BY DEF Outside, Tick, Signal, Fail, netVars
  <2> QED
    BY <2>1, <2>2, <2>3, <2>4
<1>8. NetType'
  BY <1>2, <1>6, <1>7 DEF IInv, NetType
<1>9. Bound' = Bound
  BY <1>2 DEF Bound
<1>10. Places' /\ Phase' /\ Users'
  BY <1>2, <1>3, <1>9 DEF IInv, Places, Phase, Users
<1> QED
  BY <1>4, <1>5, <1>8, <1>10 DEF IInv

LEMMA StutterKeeps ==
    ASSUME IInv, UNCHANGED vars
    PROVE  IInv'
<1>1. UNCHANGED <<tableVars, mainVars, masterVars, netVars>>
  BY DEF vars
<1>2. /\ UNCHANGED <<main, startVars, i, open>>
      /\ UNCHANGED <<run, sfd_arr, master, n, revents>>
  BY <1>1 DEF mainVars, startVars, masterVars
<1>3. UNCHANGED <<alloc, heap, pc, user>> /\ UNCHANGED <<shut, queue, failed, sig>>
  BY <1>1 DEF tableVars, netVars
<1>4. TP!IInv'
  BY <1>1, TableKeeps DEF IInv
<1>5. Kept'
  BY <1>2, SteadyKeeps DEF IInv
<1>6. NetType'
  BY <1>2, <1>3 DEF IInv, NetType
<1>7. Bound' = Bound
  BY <1>2 DEF Bound
<1>8. Places' /\ Phase' /\ Users'
  BY <1>2, <1>3, <1>7 DEF IInv, Places, Phase, Users
<1> QED
  BY <1>4, <1>5, <1>6, <1>8 DEF IInv

LEMMA StepIInv ==
    ASSUME IInv, [Next]_vars
    PROVE  IInv'
<1>1. CASE MainStep
  BY <1>1, SetUpKeeps, CreateKeeps, BetweenStep, EndKeeps DEF MainStep
<1>2. CASE MasterStep \/ MasterFault
  BY <1>2, GiveUpKeeps, ScanKeeps, PollKeeps, NoMessageKeeps, MessageKeeps, CallKeeps,
     FreeTableKeeps
  DEF MasterStep, MasterFault, RecvDatagram, RecvPending
<1> QED
  BY <1>1, <1>2, OutsideKeeps, StutterKeeps DEF Next

LEMMA Inductive == Spec => []IInv
<1>1. Init => IInv
  BY InitHolds
<1>2. IInv /\ [Next]_vars => IInv'
  BY StepIInv
<1> QED
  BY <1>1, <1>2, PTL DEF Spec

-----------------------------------------------------------------------------
(* The theorems *)

\* Every variable holds values of its C type: in particular a walk over the
\* list and the scan over poll_arr stay within what they walk over.
THEOREM TypeCorrect == Spec => []TypeOK
<1>1. IInv => TypeOK
  <2> SUFFICES ASSUME IInv PROVE TypeOK
    OBVIOUS
  <2>1. TP!TypeOK => Table!TypeOK
    BY DEF TP!TypeOK, Table!TypeOK, TP!Cell, Table!Cell, TP!Ptr, Table!Ptr
  <2>2. Table!TypeOK
    BY <2>1 DEF IInv, TP!IInv
  <2>3. StartTypeOK
    BY DEF IInv, Kept
  <2> QED
    BY <2>2, <2>3 DEF TypeOK, IInv, NetType
<1> QED
  BY <1>1, Inductive, PTL

\* main loses no socket: those it opened are those in sfd_arr, each once, and
\* the one it is setting up.
THEOREM NoSocketLost == Spec => []SocketsKept
<1>1. IInv => SocketsKept
  BY KeptOpen DEF IInv
<1> QED
  BY <1>1, Inductive, PTL

\* No socket that the thread or a user of its table still names is closed.
THEOREM SocketsOpen == Spec => []NoUseAfterClose
<1>1. IInv => NoUseAfterClose
  <2> SUFFICES ASSUME IInv, master \notin {"none", "done"} PROVE NoUseAfterClose
    BY DEF NoUseAfterClose
  <2>1. main \notin {"close", "free", "exited"}
    BY DEF IInv, Places
  <2>2. Bound \subseteq open
    BY <2>1, KeptOpen DEF SocketsKept, IInv
  <2> QED
    BY <2>2 DEF NoUseAfterClose, IInv, Users
<1> QED
  BY <1>1, Inductive, PTL

\* When main returns, the sockets are closed, the address list and all users
\* are freed.
THEOREM AllIsReleased == Spec => []AllReleased
<1>1. IInv => AllReleased
  <2> SUFFICES ASSUME IInv PROVE AllReleased
    OBVIOUS
  <2>1. StartReleased
    BY KeptOpen DEF IInv
  <2>2. ASSUME main = "exited" PROVE alloc = {}
    <3>1. master = "none" \/ (master = "done" /\ pc = "freed")
      BY <2>2 DEF IInv, Places, Phase
    <3>2. pc = "freed" => alloc = {}
      BY DEF IInv, TP!IInv, TP!Shape, TP!Walker
    <3> QED
      BY <3>1, <3>2 DEF IInv, Users
  <2> QED
    BY <2>1, <2>2 DEF AllReleased
<1> QED
  BY <1>1, Inductive, PTL

\* The server implements the table's interface: all it does with the table is
\* to call it, with clients and with sockets it has bound, one call at a time.
THEOREM UsesTableSafely == Spec => Table!Init /\ [][Table!Next]_tableVars
<1>1. Init => Table!Init
  BY DEF Init
<1>2. IInv /\ [Next]_vars => [Table!Next]_tableVars
  <2> SUFFICES ASSUME IInv, [Next]_vars PROVE Table!Next \/ UNCHANGED tableVars
    OBVIOUS
  <2>1. CASE MainStep
    BY <2>1 DEF MainStep, SetUp, CreateThread, CreateFails, Sigwait, Shutdown, JoinThread,
                Close, Free
  <2>2. ASSUME NEW a \in Addr, RecvMessage(a) PROVE Table!Next
    <3>1. Table!UpdateCall(a, sfd_arr[n]) /\ master = "recv"
      BY <2>2 DEF RecvMessage, Receive
    <3>2. sfd_arr[n] \in Fd
      BY <3>1, Known DEF IInv, Places
    <3> QED
      BY <3>1, <3>2 DEF Table!Next
  <2>3. CASE CheckRun \/ Poll \/ ScanDone \/ ScanNext \/ ScanReadable \/ ScanError
    BY <2>3, TableCalls DEF CheckRun, Poll, ScanDone, ScanNext, ScanReadable, ScanError, GiveUp
  <2>4. CASE \/ PollInterrupted \/ PollFails \/ RecvEmptyDatagram \/ RecvShut
             \/ RecvIgnored \/ RecvFails
    BY <2>4, TableCalls
    DEF PollInterrupted, PollFails, RecvEmptyDatagram, RecvShut, RecvIgnored, RecvFails, GiveUp
  <2>5. CASE Update \/ SendAll \/ SendOne \/ SentAll \/ FreeTable
    BY <2>5, TableCalls DEF Update, SendAll, SendOne, SentAll, FreeTable
  <2>6. CASE Outside
    BY <2>6 DEF Outside, Tick, Signal, Arrive, Discard, Fail, Table!Next
  <2>7. CASE UNCHANGED vars
    BY <2>7 DEF vars
  <2> QED
    BY <2>1, <2>2, <2>3, <2>4, <2>5, <2>6, <2>7
    DEF Next, MasterStep, MasterFault, RecvDatagram, RecvPending
<1> QED
  BY <1>1, <1>2, Inductive, PTL DEF Spec

\* What is proved of the table alone holds in the server: no walk, end or link
\* leads to a freed cell, the list holds every user in both directions and none
\* twice, each is answered on the socket of its last accepted message, and the
\* teardown crashes only if there was none.
THEOREM TableSound ==
    Spec => [](/\ Table!NoDangling /\ Table!ListIntact /\ Table!UniqueAddr
               /\ Table!LastAccepted /\ Table!CrashOnlyUnused)
<1>1. IInv => /\ Table!NoDangling /\ Table!ListIntact /\ Table!UniqueAddr
              /\ Table!LastAccepted /\ Table!CrashOnlyUnused
  <2> SUFFICES ASSUME TP!IInv
               PROVE  /\ Table!NoDangling /\ Table!ListIntact /\ Table!UniqueAddr
                      /\ Table!LastAccepted /\ Table!CrashOnlyUnused
    BY DEF IInv
  <2>1. TP!NoDangling /\ TP!UniqueAddr /\ TP!LastAccepted /\ TP!CrashOnlyUnused
    BY TP!IInvSafe, TableAssumption
  <2>2. TP!ListIntact
    BY TP!IInvIntact, TableAssumption
  <2>3. Table!NoDangling /\ Table!UniqueAddr
    BY <2>1 DEF TP!NoDangling, Table!NoDangling, TP!UniqueAddr, Table!UniqueAddr
  <2>4. Table!LastAccepted /\ Table!CrashOnlyUnused
    BY <2>1 DEF TP!LastAccepted, Table!LastAccepted, TP!Slot, Table!Slot,
                TP!CrashOnlyUnused, Table!CrashOnlyUnused, TP!Never, Table!Never
  <2>5. Table!ListIntact
    BY <2>2 DEF TP!ListIntact, Table!ListIntact, TP!Closed, Table!Closed
  <2> QED
    BY <2>3, <2>4, <2>5
<1> QED
  BY <1>1, Inductive, PTL

\* So do its action properties: in the server too a member has at most one
\* accepted message per slot, a walk to the end removes whoever timed out but the
\* last, no update empties the table, and a broadcast calls back for each member
\* once, whatever the master thread is interrupted by.
THEOREM TableServes ==
    Spec => Table!OncePerSlot /\ Table!WalkRemovesAll /\ Table!NeverEmptied
              /\ Table!EveryReachesAll
<1>1. TP!IInv /\ [Table!Next]_tableVars => TP!IInv /\ [TP!Next]_(TP!vars)
  BY TableNext DEF tableVars, TP!vars, TP!tableVars
<1>2. TP!IInv /\ [Table!Next]_tableVars => [Table!NewSlot]_(Table!vars)
  BY <1>1, TP!StepOncePerSlot, TableAssumption
  DEF Table!NewSlot, Table!AcceptStep, TP!AcceptStep, Table!Slot, TP!Slot
<1>3. TP!IInv /\ [Table!Next]_tableVars => [Table!JoinedLast]_(Table!vars)
  BY <1>1, TP!StepRemovesAll, TableAssumption
  DEF Table!JoinedLast, Table!AcceptStep, TP!AcceptStep
<1>4. TP!IInv /\ [Table!Next]_tableVars =>
        [pc # "free" /\ alloc # {} => alloc' # {}]_(Table!vars)
  BY <1>1, TP!StepKeepsOne, TableAssumption
<1>5. TP!IInv /\ [Table!Next]_tableVars => [Table!EachOnce]_(Table!vars)
  BY <1>1, TP!StepReachesAll, TableAssumption DEF Table!EachOnce
<1>6. IInv => TP!IInv
  BY DEF IInv
<1> QED
  BY <1>2, <1>3, <1>4, <1>5, <1>6, Inductive, UsesTableSafely, PTL
  DEF Table!OncePerSlot, Table!WalkRemovesAll, Table!NeverEmptied, Table!EveryReachesAll

\* The whole server implements the roster: whatever the two threads, the
\* network and the signal do, users come and go only as Roster allows.
THEOREM ServerImplementsRoster == Spec => Table!ImplementsRoster
<1>1. Init => Table!TheRoster!Init
  <2> SUFFICES ASSUME Table!Init PROVE Table!TheRoster!Init
    BY DEF Init
  <2>1. \A a \in Addr : Table!MemberOf(a) = NULL
    BY DEF Table!Init, Table!MemberOf
  <2> QED
    BY <2>1 DEF Table!Init, Table!TheRoster!Init
<1>2. TP!IInv /\ [Table!Next]_tableVars => [Table!TheRoster!Next]_(Table!TheRoster!vars)
  <2> SUFFICES ASSUME TP!IInv, [Table!Next]_tableVars
               PROVE  [Table!TheRoster!Next]_(Table!TheRoster!vars)
    OBVIOUS
  <2>1. [TP!Next]_(TP!vars)
    BY TableNext DEF tableVars, TP!vars, TP!tableVars
  <2>2. [TP!TheRoster!Next]_(TP!TheRoster!vars)
    BY <2>1, TP!MapStep, TableAssumption
  <2>3. CASE TP!TheRoster!Next
    BY <2>3
    DEF TP!TheRoster!Next, TP!TheRoster!Tick, TP!TheRoster!Accept, TP!TheRoster!Kick,
        TP!TheRoster!Drop, TP!TheRoster!Close, TP!TheRoster!Slot, TP!MemberOf,
        Table!TheRoster!Next, Table!TheRoster!Tick, Table!TheRoster!Accept, Table!TheRoster!Kick,
        Table!TheRoster!Drop, Table!TheRoster!Close, Table!TheRoster!Slot,
        Table!MemberOf
  <2>4. CASE UNCHANGED TP!TheRoster!vars
    BY <2>4 DEF TP!TheRoster!vars, Table!TheRoster!vars, TP!MemberOf, Table!MemberOf
  <2> QED
    BY <2>2, <2>3, <2>4
<1>3. IInv => TP!IInv
  BY DEF IInv
<1> QED
  BY <1>1, <1>2, <1>3, Inductive, UsesTableSafely, PTL
  DEF Spec, Table!ImplementsRoster, Table!TheRoster!Spec
=============================================================================
