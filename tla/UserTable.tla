----------------------------- MODULE UserTable ------------------------------
(***************************************************************************)
(* udpchat's table of active users (users.c): a doubly linked list on the  *)
(* heap that user_table_update walks cell by cell, removing timed-out      *)
(* users on the way, that user_table_every walks to call back for each     *)
(* user, and that user_table_free tears down.  One action is one iteration *)
(* of a loop, since the clock may advance between two of them: the code    *)
(* reads time(NULL) anew for every cell it passes.                         *)
(*                                                                         *)
(* The caller (main.c) may start any call whenever none is in progress;    *)
(* UdpChat restricts it to what the server does.  user_table_init is Init. *)
(***************************************************************************)
EXTENDS Integers

CONSTANTS
    Addr,      \* addresses of chat clients (what sockaddr_cmp tells apart)
    Fd,        \* sockets the server receives on
    Node,      \* heap cells malloc may return
    NULL,      \* the null pointer, and the value of an all-zero field
    Timeout,   \* table->timeout, in seconds
    MaxNow     \* bound: the last second of a run

ASSUME UserTableAssumption ==
    /\ NULL \notin Node \cup Addr \cup Fd
    /\ NULL \notin [last : Nat, slot : Nat, fd : Fd \cup {NULL}]
    /\ Timeout \in Nat
    /\ MaxNow \in Nat

VARIABLES
    alloc,     \* cells that are allocated
    heap,      \* contents of every cell: struct user
    start,     \* table->start
    end,       \* table->end
    now,       \* time(NULL)
    pc,        \* the call in progress, or how the last one ended
    user,      \* the argument of user_table_update
    p,         \* local p (of update and every), prev (of free)
    ret,       \* result of the last user_table_update
    called,    \* history: users every_func was called with, this call
    heard      \* history: last accepted message of each address

tableVars == <<alloc, heap, start, end>>
vars == <<tableVars, now, pc, user, p, ret, called, heard>>

-----------------------------------------------------------------------------
Ptr == Node \cup {NULL}

Cell == [addr : Addr \cup {NULL}, recv_fd : Fd \cup {NULL},
         last_msg : Nat, last_msg_xs : Nat, next : Ptr, prev : Ptr]

\* A cell after memset(.., 0, ..).
Zero == [addr |-> NULL, recv_fd |-> NULL, last_msg |-> 0, last_msg_xs |-> 0,
         next |-> NULL, prev |-> NULL]

\* last_msg rounded down to its two-second slot.
Slot(t) == (t \div 2) * 2

\* The user that msg_handle fills in for a datagram of a on socket f.
NewUser(a, f) ==
    [addr |-> a, recv_fd |-> f, last_msg |-> now, last_msg_xs |-> Slot(now),
     next |-> NULL, prev |-> NULL]

Never == [at |-> -1, fd |-> NULL]

Init ==
    /\ alloc = {}
    /\ heap = [n \in Node |-> Zero]
    /\ start = NULL
    /\ end = NULL
    /\ now = 0
    /\ pc = "idle"
    /\ user = Zero
    /\ p = NULL
    /\ ret = 0
    /\ called = {}
    /\ heard = [a \in Addr |-> Never]

Tick ==
    /\ now < MaxNow
    /\ now' = now + 1
    /\ UNCHANGED <<tableVars, pc, user, p, ret, called, heard>>

-----------------------------------------------------------------------------
(* user_table_update *)

UpdateCall(a, f) ==
    /\ pc = "idle"
    /\ pc' = "update"
    /\ user' = NewUser(a, f)
    /\ p' = start
    /\ UNCHANGED <<tableVars, now, ret, called, heard>>

\* The loop runs while p has a successor, so it never looks at the last cell.
InLoopToTheEnd == pc = "update" /\ p # NULL
InLoop == pc = "update" /\ p # NULL /\ heap[p].next # NULL
PastLoop == pc = "update" /\ ~InLoop

Matches(c) == c.addr = user.addr
IsSpam(c) == c.last_msg = user.last_msg \/ c.last_msg_xs = user.last_msg_xs
ExpiredLate(c) == c.last_msg + Timeout + 1 < now
Expired(c) == c.last_msg + Timeout < now

Return(r) ==
    /\ pc' = "idle"
    /\ ret' = r
    /\ user' = Zero
    /\ p' = NULL

Accepted ==
    heard' = [heard EXCEPT ![user.addr] = [at |-> user.last_msg, fd |-> user.recv_fd]]

Spam ==
    /\ pc = "update"
    /\ p # NULL
    /\ Matches(heap[p])
    /\ IsSpam(heap[p])
    /\ Return(1)
    /\ UNCHANGED <<tableVars, now, called, heard>>

\* A member in front of the last one speaks.
RefreshedInLoopOldTime(c) ==
    [c EXCEPT !.last_msg_xs = user.last_msg_xs, !.recv_fd = user.recv_fd]
RefreshedInLoop(c) ==
    [c EXCEPT !.last_msg = user.last_msg, !.last_msg_xs = user.last_msg_xs,
              !.recv_fd = user.recv_fd]

RefreshInLoop ==
    /\ InLoop
    /\ Matches(heap[p])
    /\ ~IsSpam(heap[p])
    /\ heap' = [heap EXCEPT ![p] = RefreshedInLoop(@)]
    /\ Accepted
    /\ Return(0)
    /\ UNCHANGED <<alloc, start, end, now, called>>

\* The last member speaks: "p->last_msg = p->last_msg" leaves last_msg alone.
RefreshedLastOldSlot(c) == [c EXCEPT !.recv_fd = user.recv_fd]
RefreshedLast(c) ==
    [c EXCEPT !.last_msg_xs = user.last_msg_xs, !.recv_fd = user.recv_fd]

RefreshLast ==
    /\ PastLoop
    /\ p # NULL
    /\ Matches(heap[p])
    /\ ~IsSpam(heap[p])
    /\ heap' = [heap EXCEPT ![p] = RefreshedLast(@)]
    /\ Accepted
    /\ Return(0)
    /\ UNCHANGED <<alloc, start, end, now, called>>

\* The heap once n is taken out of the list, wiped and freed.
UnlinkedForward(n) ==
    [m \in Node |->
        IF m = n THEN Zero
        ELSE [heap[m] EXCEPT !.next = IF m = heap[n].prev THEN heap[n].next ELSE @]]
Unlinked(n) ==
    [m \in Node |->
        IF m = n THEN Zero
        ELSE [heap[m] EXCEPT
                !.next = IF m = heap[n].prev THEN heap[n].next ELSE @,
                !.prev = IF m = heap[n].next THEN heap[n].prev ELSE @]]

\* Another user has been silent for too long: timeout_func tells it so (up to
\* MSG_USR_TIMEOUT_COUNT datagrams, no state), then the cell is removed.
Kick ==
    /\ InLoop
    /\ ~Matches(heap[p])
    /\ Expired(heap[p])
    /\ heap' = Unlinked(p)
    /\ alloc' = alloc \ {p}
    /\ start' = IF heap[p].prev = NULL THEN heap[p].next ELSE start
    /\ end' = IF heap[p].next = NULL THEN heap[p].prev ELSE end
    /\ p' = heap[p].next
    /\ UNCHANGED <<now, pc, user, ret, called, heard>>

SkipNowhere ==
    /\ InLoop
    /\ ~Matches(heap[p])
    /\ ~Expired(heap[p])
    /\ UNCHANGED vars
Skip ==
    /\ InLoop
    /\ ~Matches(heap[p])
    /\ ~Expired(heap[p])
    /\ p' = heap[p].next
    /\ UNCHANGED <<tableVars, now, pc, user, ret, called, heard>>

NotFoundUnseen == PastLoop
NotFound == PastLoop /\ (p # NULL => ~Matches(heap[p]))

\* The heap once the copy of user in cell n is linked in behind end.
AppendedForward(n) ==
    [m \in Node |->
        IF m = n THEN user
        ELSE IF start # NULL /\ m = end THEN [heap[m] EXCEPT !.next = n]
        ELSE heap[m]]
Appended(n) ==
    [m \in Node |->
        IF m = n THEN [user EXCEPT !.prev = IF start = NULL THEN NULL ELSE end]
        ELSE IF start # NULL /\ m = end THEN [heap[m] EXCEPT !.next = n]
        ELSE heap[m]]

Join(n) ==
    /\ NotFound
    /\ n \in Node \ alloc
    /\ alloc' = alloc \cup {n}
    /\ heap' = Appended(n)
    /\ start' = IF start = NULL THEN n ELSE start
    /\ end' = n
    /\ Accepted
    /\ Return(0)
    /\ UNCHANGED <<now, called>>

\* malloc returned NULL: the result is the one spam has.
JoinFailsNegative ==
    /\ NotFound
    /\ Return(-1)
    /\ UNCHANGED <<tableVars, now, called, heard>>
JoinFails ==
    /\ NotFound
    /\ Return(1)
    /\ UNCHANGED <<tableVars, now, called, heard>>

Update ==
    \/ Spam \/ RefreshInLoop \/ RefreshLast \/ Kick \/ Skip
    \/ \E n \in Node : Join(n)
    \/ JoinFails

-----------------------------------------------------------------------------
(* user_table_every *)

EveryCall ==
    /\ pc = "idle"
    /\ pc' = "every"
    /\ p' = start
    /\ called' = {}
    /\ UNCHANGED <<tableVars, now, user, ret, heard>>

EveryUser ==
    /\ pc = "every"
    /\ p # NULL
    /\ called' = called \cup {heap[p].addr}
    /\ p' = heap[p].next
    /\ UNCHANGED <<tableVars, now, pc, user, ret, heard>>

EveryReturnEarly ==
    /\ pc = "every"
    /\ p # NULL => heap[p].next = NULL
    /\ pc' = "idle"
    /\ p' = NULL
    /\ called' = {}
    /\ UNCHANGED <<tableVars, now, user, ret, heard>>
EveryReturn ==
    /\ pc = "every"
    /\ p = NULL
    /\ pc' = "idle"
    /\ called' = {}
    /\ UNCHANGED <<tableVars, now, user, p, ret, heard>>

-----------------------------------------------------------------------------
(* user_table_free *)

FreeCall ==
    /\ pc = "idle"
    /\ pc' = "free"
    /\ p' = start
    /\ UNCHANGED <<tableVars, now, user, ret, called, heard>>

FreeUser ==
    /\ pc = "free"
    /\ p # NULL
    /\ heap[p].next # NULL
    /\ alloc' = alloc \ {p}
    /\ heap' = [heap EXCEPT ![p] = Zero]
    /\ p' = heap[p].next
    /\ UNCHANGED <<start, end, now, pc, user, ret, called, heard>>

\* The last cell, and the wiped struct user_table.
FreeLast ==
    /\ pc = "free"
    /\ p # NULL
    /\ heap[p].next = NULL
    /\ alloc' = alloc \ {p}
    /\ heap' = [heap EXCEPT ![p] = Zero]
    /\ start' = NULL
    /\ end' = NULL
    /\ p' = NULL
    /\ pc' = "freed"
    /\ UNCHANGED <<now, user, ret, called, heard>>

\* "prev->next" of an empty table: the null pointer is dereferenced.
FreeNull ==
    /\ pc = "free"
    /\ p = NULL
    /\ pc' = "crashed"
    /\ UNCHANGED <<tableVars, now, user, p, ret, called, heard>>

TableStep ==
    Update \/ EveryUser \/ EveryReturn \/ FreeUser \/ FreeLast \/ FreeNull

Next ==
    \/ Tick
    \/ \E a \in Addr, f \in Fd : UpdateCall(a, f)
    \/ EveryCall \/ FreeCall
    \/ TableStep

\* A call, once made, runs to its end: the thread in it is not stopped.
Spec == Init /\ [][Next]_vars /\ WF_vars(TableStep)

-----------------------------------------------------------------------------
(* Properties *)

TypeOK ==
    /\ alloc \subseteq Node
    /\ heap \in [Node -> Cell]
    /\ start \in Ptr
    /\ end \in Ptr
    /\ now \in 0..MaxNow
    /\ pc \in {"idle", "update", "every", "free", "freed", "crashed"}
    /\ user \in Cell
    /\ p \in Ptr
    /\ ret \in {0, 1}
    /\ called \subseteq Addr \cup {NULL}
    /\ heard \in [Addr -> [at : Int, fd : Fd \cup {NULL}]]

\* No pointer the code may still follow leads to a freed cell: not the local
\* of a walk, not the ends of the table, not the links of a live cell.  (While
\* user_table_free runs, start, end and prev do dangle; it does not use them.)
NoDangling ==
    /\ p \in alloc \cup {NULL}
    /\ \A n \in alloc : heap[n].next \in alloc \cup {NULL}
    /\ pc # "free" =>
         /\ start \in alloc \cup {NULL}
         /\ end \in alloc \cup {NULL}
         /\ \A n \in alloc : heap[n].prev \in alloc \cup {NULL}

\* A set of cells that holds start and that no link leads out of.
Closed(S) ==
    /\ start # NULL => start \in S
    /\ \A n \in S : heap[n].next # NULL => heap[n].next \in S

\* Every allocated cell is reached from start along next (no leak, no lost
\* tail), prev inverts next, and end is where the chain stops.
ListIntact ==
    pc # "free" =>
      /\ \A S \in SUBSET alloc : Closed(S) => S = alloc
      /\ \A n \in alloc :
           /\ IF n = start THEN heap[n].prev = NULL
              ELSE heap[n].prev \in alloc /\ heap[heap[n].prev].next = n
           /\ heap[n].next = NULL <=> n = end

\* The walk finds a member wherever it stands, even behind cells the same walk
\* removes: no client is ever in the table twice.
UniqueAddr ==
    \A m, n \in alloc : heap[m].addr = heap[n].addr => m = n

\* A member is answered on the socket, and judged for spam by the slot, of its
\* last accepted message, whichever of the two refreshes recorded it.
LastAccepted ==
    \A n \in alloc :
      /\ heap[n].recv_fd = heard[heap[n].addr].fd
      /\ heap[n].last_msg_xs = Slot(heard[heap[n].addr].at)

\* Tearing the table down crashes only if no message was ever accepted.
CrashOnlyUnused ==
    pc = "crashed" => \A a \in Addr : heard[a] = Never

\* Updates never empty the table: its last cell outlives every time-out.
NeverEmptied == [][pc # "free" /\ alloc # {} => alloc' # {}]_vars

AcceptStep == pc = "update" /\ pc' = "idle" /\ ret' = 0

\* Between two accepted messages of a user that stays in the table a slot
\* boundary has passed: spam is stopped for members at every list position.
NewSlot ==
    AcceptStep /\ (\E n \in alloc : heap[n].addr = user.addr)
      => Slot(heard[user.addr].at) # Slot(user.last_msg)
OncePerSlot == [][NewSlot]_vars

\* When a walk ends with a new user, every member but the one that was last had
\* its say: none that was timed out when the call began is left.
JoinedLast ==
    AcceptStep /\ alloc \subseteq alloc' /\ alloc # alloc'
      => \A n \in alloc \ {end} : heap[n].last_msg + Timeout >= user.last_msg
WalkRemovesAll == [][JoinedLast]_vars

\* user_table_every calls back for each member, and for none twice.
EachOnce ==
    /\ pc = "every" /\ pc' = "idle" => called = {heap[n].addr : n \in alloc}
    /\ pc = "every" /\ p' # p => called' # called
EveryReachesAll == [][EachOnce]_vars

\* The table as users.h describes it, forgetting cells and links.
MemberOf(a) ==
    IF \E n \in alloc : heap[n].addr = a
    THEN LET c == heap[CHOOSE n \in alloc : heap[n].addr = a]
         IN [last |-> c.last_msg, slot |-> c.last_msg_xs, fd |-> c.recv_fd]
    ELSE NULL

TheRoster ==
    INSTANCE Roster WITH member <- [a \in Addr |-> MemberOf(a)],
                         newest <- IF end = NULL THEN NULL ELSE heap[end].addr,
                         open <- pc \notin {"free", "freed", "crashed"}

\* The list implements the roster.
ImplementsRoster == TheRoster!Spec

-----------------------------------------------------------------------------
(* What comments of users.c and users.h say and the code does not do *)

\* users.c: "If we don't update last_msg, they will time out" - so only a user
\* whose accepted messages are all too old is removed.
OnlySilentKicked ==
    [][\A n \in alloc : pc = "update" /\ n \notin alloc'
         => heard[heap[n].addr].at + Timeout < now]_vars

\* users.h: user_table_update "will also kick timeed out users" - so after a
\* successful call no other user is left that was timed out when it began.
KicksTimedOut ==
    [][AcceptStep
         => \A n \in alloc' :
              heap'[n].addr # user.addr => heap'[n].last_msg + Timeout >= user.last_msg]_vars
=============================================================================
