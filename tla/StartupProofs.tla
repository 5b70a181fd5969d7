--------------------------- MODULE StartupProofs ----------------------------
(***************************************************************************)
(* What setting up and closing the sockets keeps true, whatever the        *)
(* program does in between: the part of the proofs about udpchat and       *)
(* udpecho that they share.  A program's own places are not StartPlaces.   *)
(***************************************************************************)
EXTENDS Startup, TLAPS

\* Which sockets are open, and that sfd_arr names each once.
Sockets ==
    /\ Len(sfd_arr) <= MaxBind
    /\ \A k, l \in 1..Len(sfd_arr) : sfd_arr[k] = sfd_arr[l] => k = l
    /\ sfd # NULL => main = "bind" /\ infos > 0 /\ \A k \in 1..Len(sfd_arr) : sfd_arr[k] # sfd
    /\ main \notin {"close", "free", "exited"} =>
         \A f \in Fd : f \in open <=> f = sfd \/ \E k \in 1..Len(sfd_arr) : sfd_arr[k] = f
    /\ main = "close" =>
         /\ i <= Len(sfd_arr)
         /\ \A f \in open : \E k \in i..Len(sfd_arr) : sfd_arr[k] = f
    /\ main \in {"free", "exited"} => open = {}
    /\ main \in {"args", "resolve"} => Len(sfd_arr) = 0
    /\ main \in {"args", "resolve", "bind"} => i = 1
    /\ main \notin StartPlaces => Len(sfd_arr) > 0

\* What is allocated is what the list reaches; nothing is once main is over.
Lists ==
    /\ addrs = list
    /\ main \in {"args", "exited"} => list = 0
    /\ main # "bind" => infos = 0
    /\ main = "resolve" => names > 0

Kept == StartTypeOK /\ Sockets /\ Lists

LEMMA StartHolds ==
    ASSUME StartInit
    PROVE  Kept
<1>1. sfd_arr = <<>> /\ sfd_arr \in Seq(Fd) /\ Len(sfd_arr) = 0
  BY DEF StartInit
<1>2. StartTypeOK
  BY <1>1 DEF StartInit, StartTypeOK
<1>3. Sockets /\ Lists
  BY <1>1, StartupAssumption DEF StartInit, Sockets, Lists, StartPlaces
<1> QED
  BY <1>2, <1>3 DEF Kept

-----------------------------------------------------------------------------
(* The frames for what the programs add *)

LEMMA SteadyKeeps ==
    ASSUME Kept, UNCHANGED <<main, startVars, i, open>>
    PROVE  Kept'
BY DEF Kept, StartTypeOK, Sockets, Lists, startVars, listVars

\* A step of main between setting up and closing.
LEMMA BetweenKeeps ==
    ASSUME Kept, UNCHANGED <<startVars, open>>, main \notin StartPlaces,
           i' \in Nat \ {0},
           main' \notin StartPlaces \/ (main' = "close" /\ i' = 1)
    PROVE  Kept'
<1> USE DEF startVars, listVars
<1>1. StartTypeOK'
  BY DEF Kept, StartTypeOK
<1>2. Lists'
  BY DEF Kept, Lists, StartPlaces
<1>3. CASE main' \notin StartPlaces
  <2>1. Sockets'
    BY <1>3 DEF Kept, Sockets, StartPlaces
  <2> QED
    BY <1>1, <1>2, <2>1 DEF Kept
<1>4. CASE main' = "close" /\ i' = 1
  <2>1. sfd = NULL /\ Len(sfd_arr) > 0 /\ open \subseteq Fd /\ Len(sfd_arr) \in Nat
    BY DEF Kept, StartTypeOK, Sockets, StartPlaces
  <2>2. \A f \in open : \E k \in 1..Len(sfd_arr) : sfd_arr[k] = f
    BY <2>1, StartupAssumption DEF Kept, Sockets, StartPlaces
  <2>3. Sockets'
    BY <1>4, <2>1, <2>2 DEF Kept, Sockets, StartPlaces
  <2> QED
    BY <1>1, <1>2, <2>3 DEF Kept
<1> QED
  BY <1>3, <1>4

-----------------------------------------------------------------------------
(* Setting up *)

\* Until the sockets are bound main moves among the first three places.
LEMMA StartMoves ==
    ASSUME StartStep
    PROVE  /\ main \in {"args", "resolve", "bind"}
           /\ main' \in {"resolve", "bind", "exited"}
           /\ main' = "exited" => main # "bind"
           /\ i' = i
BY DEF StartStep, ArgsFail, Args, Resolve, ResolveFails, SocketFails, BindFails, Bind,
       BindDropped, Socket, NextInfo, Go

LEMMA ArgsKeeps ==
    ASSUME Kept, ArgsFail \/ Args
    PROVE  Kept'
<1> USE DEF ArgsFail, Args, Go, startVars, listVars
<1>1. StartTypeOK'
  <2>1. names' \in Nat
    BY StartupAssumption DEF Kept, StartTypeOK
  <2>2. UNCHANGED <<addrs, list, infos, sfd, sfd_arr, i, open>>
    OBVIOUS
  <2> QED
    BY <2>1, <2>2 DEF Kept, StartTypeOK
<1>2. \A f \in Fd : f \notin open
  BY StartupAssumption DEF Kept, Sockets
<1>3. open = {}
  BY <1>2 DEF Kept, StartTypeOK
<1>4. Sockets'
  BY <1>3 DEF Kept, Sockets, StartPlaces
<1>5. Lists'
  BY StartupAssumption DEF Kept, Lists
<1> QED
  BY <1>1, <1>4, <1>5 DEF Kept

LEMMA ResolveKeeps ==
    ASSUME Kept, Resolve \/ ResolveFails
    PROVE  Kept'
<1>1. /\ main = "resolve" /\ sfd = NULL /\ infos = 0 /\ names > 0 /\ names \in Nat
      /\ addrs = list /\ list \in Nat /\ Len(sfd_arr) = 0 /\ open \subseteq Fd
  BY DEF Resolve, ResolveFails, Go, Kept, StartTypeOK, Sockets, Lists
<1>2. open = {}
  BY <1>1, StartupAssumption DEF Kept, Sockets
<1>3. CASE Resolve
  <2>1. PICK k \in Answers : addrs' = addrs + k /\ list' = list + k
    BY <1>3 DEF Resolve
  <2>2. k \in Nat /\ k > 0
    BY StartupAssumption
  <2>3. /\ names' = names - 1
        /\ main' = IF names = 1 THEN "bind" ELSE "resolve"
        /\ infos' = IF names = 1 THEN list' ELSE infos
        /\ UNCHANGED <<sfd, sfd_arr, i, open>>
    BY <1>1, <1>3 DEF Resolve
  <2>4. StartTypeOK'
    BY <1>1, <2>1, <2>2, <2>3 DEF Kept, StartTypeOK
  <2>5. Sockets'
    BY <1>1, <2>3 DEF Kept, Sockets, StartPlaces
  <2>6. Lists'
    BY <1>1, <2>1, <2>2, <2>3 DEF Lists
  <2> QED
    BY <2>4, <2>5, <2>6 DEF Kept
<1>4. CASE ResolveFails
  <2>1. StartTypeOK'
    BY <1>1, <1>4 DEF ResolveFails, Kept, StartTypeOK
  <2>2. Sockets'
    BY <1>1, <1>2, <1>4 DEF ResolveFails, Go, Kept, Sockets, StartPlaces
  <2>3. Lists'
    BY <1>1, <1>4 DEF ResolveFails, Go, Lists
  <2> QED
    BY <2>1, <2>2, <2>3 DEF Kept
<1> QED
  BY <1>3, <1>4

\* A socket that is set up and then closed, or not created at all.
LEMMA NoBindKeeps ==
    ASSUME Kept, SocketFails \/ BindFails \/ BindDropped
    PROVE  Kept'
<1>1. infos > 0
  BY DEF SocketFails, BindFails, BindDropped, Kept, Sockets
<1>2. /\ main = "bind" /\ main' = main /\ sfd' = NULL
      /\ open' = open \ {sfd}
      /\ UNCHANGED <<names, addrs, list, sfd_arr, i>>
      /\ infos' = infos - 1 \/ infos' = 0
  BY StartupAssumption
  DEF SocketFails, BindFails, BindDropped, NextInfo, listVars, Kept, StartTypeOK
<1>3. StartTypeOK'
  BY <1>1, <1>2 DEF Kept, StartTypeOK
<1>4. Sockets'
  BY <1>2, StartupAssumption DEF Kept, StartTypeOK, Sockets, StartPlaces
<1>5. Lists'
  BY <1>2 DEF Kept, Lists
<1> QED
  BY <1>3, <1>4, <1>5 DEF Kept

LEMMA SocketKeeps ==
    ASSUME Kept, NEW f \in Fd, Socket(f)
    PROVE  Kept'
<1> USE DEF Socket, listVars
<1>1. StartTypeOK'
  BY DEF Kept, StartTypeOK
<1>2. Sockets'
  BY StartupAssumption DEF Kept, StartTypeOK, Sockets, StartPlaces
<1>3. Lists'
  BY DEF Kept, Lists
<1> QED
  BY <1>1, <1>2, <1>3 DEF Kept

LEMMA BindKeeps ==
    ASSUME Kept, Bind
    PROVE  Kept'
<1>1. /\ sfd \in Fd /\ sfd_arr \in Seq(Fd) /\ sfd_arr' = Append(sfd_arr, sfd)
      /\ main = "bind" /\ main' = "bind" /\ sfd' = NULL
      /\ infos' = infos - 1 /\ infos > 0 /\ Len(sfd_arr) < MaxBind
      /\ UNCHANGED <<names, addrs, list, i, open>>
  BY StartupAssumption
  DEF Bind, Full, NextInfo, listVars, Kept, StartTypeOK, Sockets
<1>2. /\ sfd_arr' \in Seq(Fd) /\ Len(sfd_arr') = Len(sfd_arr) + 1
      /\ \A k \in 1..Len(sfd_arr) : sfd_arr'[k] = sfd_arr[k]
      /\ sfd_arr'[Len(sfd_arr) + 1] = sfd
      /\ Len(sfd_arr) \in Nat
  BY <1>1
<1>3. StartTypeOK'
  BY <1>1, <1>2 DEF Kept, StartTypeOK
<1>4. \A j \in 1..Len(sfd_arr') : j \in 1..Len(sfd_arr) \/ j = Len(sfd_arr) + 1
  BY <1>2
<1>5. \A j \in 1..Len(sfd_arr) : sfd_arr[j] # sfd
  BY <1>1, StartupAssumption DEF Kept, Sockets
<1>6. \A k, l \in 1..Len(sfd_arr') : sfd_arr'[k] = sfd_arr'[l] => k = l
  BY <1>2, <1>4, <1>5 DEF Kept, Sockets
<1>7. \A f \in Fd : f \in open' <=> \E k \in 1..Len(sfd_arr') : sfd_arr'[k] = f
  <2> SUFFICES ASSUME NEW f \in Fd
               PROVE  f \in open <=> \E k \in 1..Len(sfd_arr') : sfd_arr'[k] = f
    BY <1>1
  <2>1. f \in open <=> f = sfd \/ \E k \in 1..Len(sfd_arr) : sfd_arr[k] = f
    BY <1>1 DEF Kept, Sockets
  <2>2. /\ Len(sfd_arr) + 1 \in 1..Len(sfd_arr')
        /\ \A j \in 1..Len(sfd_arr) : j \in 1..Len(sfd_arr')
    BY <1>2
  <2> QED
    BY <2>1, <2>2, <1>2, <1>4
<1>8. Sockets'
  <2>1. Len(sfd_arr') <= MaxBind
    BY <1>1, <1>2, StartupAssumption
  <2> QED
    BY <1>1, <1>6, <1>7, <2>1, StartupAssumption DEF Kept, Sockets, StartPlaces
<1>9. Lists'
  BY <1>1 DEF Kept, Lists
<1> QED
  BY <1>3, <1>8, <1>9 DEF Kept

LEMMA StartKeeps ==
    ASSUME Kept, StartStep
    PROVE  Kept'
BY ArgsKeeps, ResolveKeeps, NoBindKeeps, SocketKeeps, BindKeeps DEF StartStep

LEMMA BindLoopKeeps ==
    ASSUME Kept, NEW next, next \notin StartPlaces, BindLoopDone(next)
    PROVE  Kept'
<1>1. /\ main = "bind" /\ sfd = NULL /\ infos = 0
      /\ main' = IF sfd_arr = <<>> THEN "free" ELSE next
      /\ UNCHANGED <<names, addrs, list, infos, sfd, sfd_arr, i, open>>
  BY DEF BindLoopDone, Go, startVars, listVars
<1>2. StartTypeOK' /\ Lists'
  BY <1>1 DEF Kept, StartTypeOK, Lists, StartPlaces
<1>3. sfd_arr \in Seq(Fd) /\ open \subseteq Fd
  BY DEF Kept, StartTypeOK
<1>4. CASE sfd_arr = <<>>
  <2>1. Len(sfd_arr) = 0
    BY <1>4
  <2>2. open = {}
    BY <1>1, <1>3, <2>1, StartupAssumption DEF Kept, Sockets
  <2>3. Sockets'
    BY <1>1, <1>4, <2>1, <2>2, StartupAssumption DEF Kept, Sockets, StartPlaces
  <2> QED
    BY <1>2, <2>3 DEF Kept
<1>5. CASE sfd_arr # <<>>
  <2>1. Len(sfd_arr) > 0
    BY <1>3, <1>5
  <2>2. Sockets'
    BY <1>1, <1>5, <2>1 DEF Kept, Sockets, StartPlaces
  <2> QED
    BY <1>2, <2>2 DEF Kept
<1> QED
  BY <1>4, <1>5

-----------------------------------------------------------------------------
(* The end of main *)

LEMMA CloseKeeps ==
    ASSUME Kept, CloseSocket
    PROVE  Kept'
<1>1. /\ main = "close" /\ open' = open \ {sfd_arr[i]} /\ i \in Nat \ {0}
      /\ i <= Len(sfd_arr) /\ Len(sfd_arr) \in Nat /\ open \subseteq Fd /\ sfd = NULL
      /\ UNCHANGED <<names, addrs, list, infos, sfd, sfd_arr>>
  BY DEF CloseSocket, startVars, listVars, Kept, StartTypeOK, Sockets
<1>2. IF i >= Len(sfd_arr) THEN main' = "free" /\ i' = 1 ELSE i' = i + 1 /\ main' = main
  BY DEF CloseSocket, LoopOver
<1>3. StartTypeOK'
  BY <1>1, <1>2 DEF Kept, StartTypeOK
<1>4. Lists'
  BY <1>1, <1>2 DEF Kept, Lists
<1>5. \A f \in open' : \E k \in i..Len(sfd_arr) : k # i /\ sfd_arr[k] = f
  BY <1>1 DEF Kept, Sockets
<1>6. CASE i >= Len(sfd_arr)
  <2>1. open' = {}
    BY <1>1, <1>5, <1>6
  <2>2. Sockets'
    BY <1>1, <1>2, <1>6, <2>1 DEF Kept, Sockets, StartPlaces
  <2> QED
    BY <1>3, <1>4, <2>2 DEF Kept
<1>7. CASE i < Len(sfd_arr)
  <2>1. i' = i + 1 /\ main' = "close"
    BY <1>1, <1>2, <1>7
  <2>2. \A f \in open' : \E k \in i + 1..Len(sfd_arr) : sfd_arr[k] = f
    BY <1>1, <1>5
  <2>3. Sockets'
    BY <1>1, <1>7, <2>1, <2>2 DEF Kept, Sockets, StartPlaces
  <2> QED
    BY <1>3, <1>4, <2>3 DEF Kept
<1> QED
  BY <1>1, <1>6, <1>7

LEMMA FreeKeeps ==
    ASSUME Kept, FreeAddrs
    PROVE  Kept'
<1>1. /\ main = "free" /\ main' = "exited" /\ addrs' = addrs - list /\ list' = 0
      /\ UNCHANGED <<names, infos, sfd, sfd_arr, i, open>>
  BY DEF FreeAddrs, Go
<1>2. addrs = list /\ list \in Nat /\ infos = 0
  BY <1>1 DEF Kept, StartTypeOK, Lists
<1>3. StartTypeOK'
  BY <1>1, <1>2 DEF Kept, StartTypeOK
<1>4. Sockets'
  BY <1>1 DEF Kept, Sockets, StartPlaces
<1>5. Lists'
  BY <1>1, <1>2 DEF Lists
<1> QED
  BY <1>3, <1>4, <1>5 DEF Kept

-----------------------------------------------------------------------------
(* What Kept says of the properties of Startup *)

LEMMA KeptOpen ==
    ASSUME Kept
    PROVE  SocketsKept /\ StartReleased
<1>1. DOMAIN sfd_arr = 1..Len(sfd_arr) /\ sfd_arr \in Seq(Fd) /\ open \subseteq Fd
  BY DEF Kept, StartTypeOK
<1>2. main \notin {"close", "free", "exited"} => open = Bound \cup ({sfd} \ {NULL})
  <2> SUFFICES ASSUME main \notin {"close", "free", "exited"}
               PROVE  open = Bound \cup ({sfd} \ {NULL})
    OBVIOUS
  <2>1. \A f \in Fd : f \in open <=> f = sfd \/ \E k \in 1..Len(sfd_arr) : sfd_arr[k] = f
    BY DEF Kept, Sockets
  <2>2. Bound \subseteq Fd /\ sfd \in Fd \cup {NULL}
    BY <1>1 DEF Bound, Kept, StartTypeOK
  <2>3. \A f \in Fd : f \in Bound <=> \E k \in 1..Len(sfd_arr) : sfd_arr[k] = f
    BY <1>1 DEF Bound
  <2> QED
    BY <1>1, <2>1, <2>2, <2>3, StartupAssumption
<1>3. SocketsKept
  BY <1>1, <1>2 DEF SocketsKept, Kept, Sockets
<1>4. StartReleased
  BY DEF StartReleased, Kept, Sockets, Lists
<1> QED
  BY <1>3, <1>4
=============================================================================
