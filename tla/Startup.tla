------------------------------ MODULE Startup -------------------------------
(***************************************************************************)
(* What main of udpchat and main of udpecho share.  Both resolve the       *)
(* addresses given on the command line into one list of addrinfo, bind a   *)
(* socket for each entry until sfd_arr is full and, in the end, close the  *)
(* sockets and free the list.  UdpChat and UdpEcho extend this module and  *)
(* say what happens in between; lines are those of udpchat, whose text     *)
(* udpecho repeats.                                                        *)
(***************************************************************************)
EXTENDS Integers, Sequences

CONSTANTS
    Fd,        \* descriptors that sockets can have
    NULL,      \* no socket
    MaxBind,   \* MAX_BIND_COUNT
    Answers    \* bound: lengths of the lists getaddrinfo answers with

ASSUME StartupAssumption ==
    /\ Fd \subseteq Int
    /\ NULL \notin Fd
    /\ MaxBind \in Nat
    /\ Answers \subseteq Nat \ {0}

VARIABLES
    main,      \* where the main thread is
    names,     \* calls of getaddrinfo still to make
    addrs,     \* addrinfo entries that are allocated
    list,      \* addrinfo entries reached from first, later from addr
    infos,     \* those not yet tried, from ca on
    sfd,       \* the socket being set up, NULL outside the loop body
    sfd_arr,   \* sockets bound
    i,         \* loop index over sfd_arr
    open       \* open sockets

listVars == <<names, addrs, list>>
startVars == <<listVars, infos, sfd, sfd_arr>>

StartInit ==
    /\ main = "args"
    /\ names = 0 /\ addrs = 0 /\ list = 0 /\ infos = 0
    /\ sfd = NULL
    /\ sfd_arr = <<>>
    /\ i = 1
    /\ open = {}

Go(from, to) == main = from /\ main' = to

\* Whoever leaves a loop over the sockets goes on to "next".
LoopOver(len, next) ==
    IF i >= len THEN main' = next /\ i' = 1 ELSE i' = i + 1 /\ UNCHANGED main

-----------------------------------------------------------------------------
(* Arguments, signal set and addresses *)

\* No port, too many addresses, or the signals could not be blocked.
ArgsFail == Go("args", "exited") /\ UNCHANGED <<startVars, i, open>>

\* One call for each address given, or one to let the system choose.
Args ==
    /\ Go("args", "resolve")
    /\ names' \in {1} \cup 1..MaxBind - 1
    /\ UNCHANGED <<addrs, list, infos, sfd, sfd_arr, i, open>>

\* create_addrinfo: the answer is hung behind what was gathered before.
ResolveReplacing ==
    /\ main = "resolve"
    /\ \E k \in Answers : addrs' = addrs + k /\ list' = k
    /\ names' = names - 1
    /\ IF names = 1 THEN main' = "bind" /\ infos' = list' ELSE UNCHANGED <<main, infos>>
    /\ UNCHANGED <<sfd, sfd_arr, i, open>>
Resolve ==
    /\ main = "resolve"
    /\ \E k \in Answers : addrs' = addrs + k /\ list' = list + k
    /\ names' = names - 1
    /\ IF names = 1 THEN main' = "bind" /\ infos' = list' ELSE UNCHANGED <<main, infos>>
    /\ UNCHANGED <<sfd, sfd_arr, i, open>>

\* What was gathered is freed, and addr stays NULL.
ResolveFails ==
    /\ Go("resolve", "exited")
    /\ addrs' = addrs - list
    /\ list' = 0
    /\ UNCHANGED <<names, infos, sfd, sfd_arr, i, open>>

-----------------------------------------------------------------------------
(* One iteration of the loop over the list *)

NextInfo == main = "bind" /\ infos' = infos - 1 /\ UNCHANGED <<main, listVars, i>>

SocketFailsPastEnd ==
    /\ sfd = NULL
    /\ NextInfo
    /\ UNCHANGED <<sfd, sfd_arr, open>>
SocketFails ==
    /\ sfd = NULL /\ infos > 0
    /\ NextInfo
    /\ UNCHANGED <<sfd, sfd_arr, open>>

\* The system hands out the lowest descriptor that is free.
Socket(f) ==
    /\ main = "bind" /\ sfd = NULL /\ infos > 0
    /\ f \in Fd \ open /\ \A g \in Fd : g < f => g \in open
    /\ sfd' = f
    /\ open' = open \cup {f}
    /\ UNCHANGED <<main, listVars, infos, sfd_arr, i>>

\* setsockopt or bind failed: the socket is closed, the next entry tried.
BindFailsOpen ==
    /\ sfd # NULL /\ sfd' = NULL
    /\ NextInfo
    /\ UNCHANGED <<sfd_arr, open>>
BindFails ==
    /\ sfd # NULL /\ sfd' = NULL
    /\ open' = open \ {sfd}
    /\ NextInfo
    /\ UNCHANGED sfd_arr

FullLate == Len(sfd_arr) > MaxBind
Full == Len(sfd_arr) >= MaxBind

Bind ==
    /\ sfd # NULL /\ ~Full
    /\ sfd_arr' = Append(sfd_arr, sfd) /\ sfd' = NULL
    /\ NextInfo
    /\ UNCHANGED open

\* The socket is bound but the array is full: close it and leave the loop.
BindDropped ==
    /\ main = "bind" /\ sfd # NULL /\ Full
    /\ open' = open \ {sfd}
    /\ sfd' = NULL
    /\ infos' = 0
    /\ UNCHANGED <<main, listVars, sfd_arr, i>>

BindLoopDone(next) ==
    /\ Go("bind", IF sfd_arr = <<>> THEN "free" ELSE next)
    /\ sfd = NULL /\ infos = 0
    /\ UNCHANGED <<startVars, i, open>>

StartStep ==
    \/ ArgsFail \/ Args \/ Resolve \/ ResolveFails
    \/ SocketFails \/ BindFails \/ Bind \/ BindDropped
    \/ \E f \in Fd : Socket(f)

-----------------------------------------------------------------------------
(* The end of main *)

CloseSocket ==
    /\ main = "close"
    /\ open' = open \ {sfd_arr[i]}
    /\ LoopOver(Len(sfd_arr), "free")
    /\ UNCHANGED startVars

\* freeaddrinfo, then main returns.
FreeAddrs ==
    /\ Go("free", "exited")
    /\ addrs' = addrs - list
    /\ list' = 0
    /\ UNCHANGED <<names, infos, sfd, sfd_arr, i, open>>

-----------------------------------------------------------------------------
(* Properties *)

Bound == {sfd_arr[k] : k \in DOMAIN sfd_arr}

StartPlaces == {"args", "resolve", "bind", "close", "free", "exited"}

StartTypeOK ==
    /\ names \in Nat /\ addrs \in Nat /\ list \in Nat /\ infos \in 0..list
    /\ sfd \in Fd \cup {NULL}
    /\ sfd_arr \in Seq(Fd)
    /\ i \in Nat \ {0}
    /\ open \subseteq Fd

\* main keeps every open socket in sfd_arr, each once and no more than fit,
\* but for the one it is just setting up: nothing it opened gets lost.
SocketsKept ==
    /\ Len(sfd_arr) <= MaxBind
    /\ \A k, l \in DOMAIN sfd_arr : sfd_arr[k] = sfd_arr[l] => k = l
    /\ main \notin {"close", "free", "exited"} => open = Bound \cup ({sfd} \ {NULL})

\* When main returns, no socket is left open and no addrinfo allocated,
\* wherever setting up has stopped.
StartReleased == main = "exited" => open = {} /\ addrs = 0
=============================================================================
