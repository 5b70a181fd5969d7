---------------------------- MODULE RosterProofs ----------------------------
(***************************************************************************)
(* The linked list implements the roster: every step of users.c is a step  *)
(* of Roster, or changes nothing that Roster knows of.                     *)
(***************************************************************************)
EXTENDS UserTableProofs

\* What the roster sees of a cell.
Entry(c) == [last |-> c.last_msg, slot |-> c.last_msg_xs, fd |-> c.recv_fd]

\* And of the end of the list.
Newest == IF end = NULL THEN NULL ELSE heap[end].addr

\* The cell without a successor is the one end points at.
LEMMA EndIsLast ==
    ASSUME IInv, NEW n \in alloc
    PROVE  /\ end # NULL /\ end \in alloc
           /\ heap[n].next = NULL <=> n = end
           /\ heap[n].addr = Newest <=> n = end
<1>1. PICK rank \in [Node -> Int] : Shape(rank)
  BY DEF IInv
<1>2. alloc \subseteq Node /\ \A m \in alloc : rank[m] \in Int
  BY DEF IInv, TypeOK
<1>3. end # NULL /\ end \in alloc /\ \A m \in alloc : rank[m] <= rank[end]
  BY <1>1 DEF Shape, Ends
<1>4. heap[n].next = NULL => n = end
  BY <1>1, <1>2, <1>3 DEF Shape, Ordered
<1>5. heap[end].next = NULL
  BY <1>1, <1>2, <1>3 DEF Shape, Ordered
<1>6. heap[n].addr = Newest <=> n = end
  BY <1>3 DEF IInv, UniqueAddr, Newest
<1> QED
  BY <1>3, <1>4, <1>5, <1>6

LEMMA EntryNotNull ==
    ASSUME IInv, NEW n \in alloc
    PROVE  Entry(heap[n]) # NULL
<1>1. /\ heap[n].last_msg \in Nat /\ heap[n].last_msg_xs \in Nat
      /\ heap[n].recv_fd \in Fd \cup {NULL}
  BY DEF IInv, TypeOK, Cell
<1> QED
  BY <1>1, UserTableAssumption DEF Entry

LEMMA IsMember ==
    ASSUME IInv, NEW a, NEW n \in alloc, heap[n].addr = a
    PROVE  MemberOf(a) = Entry(heap[n])
<1>1. (CHOOSE m \in alloc : heap[m].addr = a) = n
  BY DEF IInv, UniqueAddr
<1> QED
  BY <1>1 DEF MemberOf, Entry

LEMMA IsMemberNext ==
    ASSUME IInv', NEW a, NEW n \in alloc', heap'[n].addr = a
    PROVE  MemberOf(a)' = Entry(heap'[n])
<1>1. (CHOOSE m \in alloc' : heap'[m].addr = a) = n
  BY DEF IInv, UniqueAddr
<1> QED
  BY <1>1 DEF MemberOf, Entry

LEMMA NoMember ==
    ASSUME NEW a, \A n \in alloc : heap[n].addr # a
    PROVE  MemberOf(a) = NULL
BY DEF MemberOf

LEMMA NoMemberNext ==
    ASSUME NEW a, \A n \in alloc' : heap'[n].addr # a
    PROVE  MemberOf(a)' = NULL
BY DEF MemberOf

\* A step that touches the cells of no other address leaves the others' entries.
LEMMA OthersKeep ==
    ASSUME IInv, IInv', NEW a,
           \A n \in alloc \cap alloc' :
             heap[n].addr # a => /\ heap'[n].addr = heap[n].addr
                                 /\ Entry(heap'[n]) = Entry(heap[n]),
           \A n \in alloc \ alloc' : heap[n].addr = a,
           \A n \in alloc' \ alloc : heap'[n].addr = a,
           \A n \in alloc \cap alloc' : heap[n].addr = a => heap'[n].addr = a
    PROVE  \A b \in Addr \ {a} : MemberOf(b)' = MemberOf(b)
<1> SUFFICES ASSUME NEW b \in Addr \ {a} PROVE MemberOf(b)' = MemberOf(b)
  OBVIOUS
<1>1. CASE \E n \in alloc : heap[n].addr = b
  <2>1. PICK n \in alloc : heap[n].addr = b
    BY <1>1
  <2>2. n \in alloc' /\ heap'[n].addr = b /\ Entry(heap'[n]) = Entry(heap[n])
    BY <2>1
  <2> QED
    BY <2>1, <2>2, IsMember, IsMemberNext
<1>2. CASE \A n \in alloc : heap[n].addr # b
  <2>1. \A n \in alloc' : heap'[n].addr # b
    BY <1>2
  <2> QED
    BY <1>2, <2>1, NoMember, NoMemberNext
<1> QED
  BY <1>1, <1>2

\* Steps that change no cell.
LEMMA MapNothing ==
    ASSUME UNCHANGED <<alloc, heap, end, now>>,
           (pc \in {"free", "freed", "crashed"}) <=> (pc' \in {"free", "freed", "crashed"})
    PROVE  UNCHANGED TheRoster!vars
<1>1. ASSUME NEW a \in Addr PROVE MemberOf(a)' = MemberOf(a)
  BY DEF MemberOf
<1> QED
  BY <1>1 DEF TheRoster!vars

\* A call accepted from a: its entry is new or renewed, and no other changes.
LEMMA MapAccept ==
    ASSUME IInv, IInv', NEW n \in alloc', NEW a, a = user.addr,
           NEW t, t = user.last_msg, NEW f, f = user.recv_fd, pc = "update", pc' = "idle", now' = now,
           heap'[n].addr = a, heap'[n].recv_fd = f,
           heap'[n].last_msg_xs = user.last_msg_xs,
           \/ /\ n \in alloc /\ heap[n].addr = a
              /\ heap[n].last_msg_xs # user.last_msg_xs
              /\ heap'[n].last_msg = IF n = end THEN heap[n].last_msg ELSE t
              /\ end' = end
           \/ /\ n \notin alloc /\ \A m \in alloc : heap[m].addr # a
              /\ heap'[n].last_msg = t
              /\ end' = n,
           alloc' = alloc \cup {n},
           \A m \in alloc \ {n} : /\ heap'[m].addr = heap[m].addr
                                  /\ Entry(heap'[m]) = Entry(heap[m])
    PROVE  TheRoster!Next
<1> DEFINE old == MemberOf(a)
           new == [last |-> heap'[n].last_msg, slot |-> TheRoster!Slot(t), fd |-> f]
<1>1. PICK rank \in [Node -> Int] : Shape(rank)
  BY DEF IInv
<1>2. a \in Addr /\ f \in Fd /\ t \in 0..now /\ user.last_msg_xs = TheRoster!Slot(t)
  BY <1>1, UserTableAssumption
  DEF Shape, Updating, IInv, TypeOK, Cell, Slot, TheRoster!Slot
<1>3. MemberOf(a)' = new
  <2>1. MemberOf(a)' = Entry(heap'[n])
    BY IsMemberNext
  <2> QED
    BY <2>1, <1>2 DEF Entry
<1>4. \A b \in Addr \ {a} : MemberOf(b)' = MemberOf(b)
  <2>1. \A m \in alloc \cap alloc' : heap[m].addr # a =>
          heap'[m].addr = heap[m].addr /\ Entry(heap'[m]) = Entry(heap[m])
    OBVIOUS
  <2>2. \A m \in alloc \cap alloc' : heap[m].addr = a => heap'[m].addr = a
    OBVIOUS
  <2>3. alloc \ alloc' = {} /\ \A m \in alloc' \ alloc : heap'[m].addr = a
    OBVIOUS
  <2> QED
    BY <2>1, <2>2, <2>3, OthersKeep
<1>5. /\ heap'[n].last_msg = IF old # NULL /\ a = Newest THEN old.last ELSE t
      /\ old # NULL => old.slot # TheRoster!Slot(t)
      /\ Newest' = IF old = NULL THEN a ELSE Newest
  <2>1. CASE n \in alloc /\ heap[n].addr = a
    <3>1. old = Entry(heap[n]) /\ old # NULL
      BY <2>1, IsMember, EntryNotNull
    <3>2. end \in alloc /\ end # NULL /\ (a = Newest <=> n = end)
      BY <2>1, EndIsLast
    <3>3. end' = end /\ heap'[end].addr = heap[end].addr
      BY <2>1, <3>2
    <3> QED
      BY <2>1, <3>1, <3>2, <3>3, <1>2 DEF Entry, Newest
  <2>2. CASE n \notin alloc
    <3>1. old = NULL
      BY <2>2, NoMember
    <3>2. n # NULL
      BY UserTableAssumption DEF IInv, TypeOK
    <3> QED
      BY <2>2, <3>1, <3>2 DEF Newest
  <2> QED
    BY <2>1, <2>2
<1> DEFINE mem == [b \in Addr |-> MemberOf(b)]
<1>6. mem' = [mem EXCEPT ![a] = new]
  <2>1. mem' = [b \in Addr |-> MemberOf(b)']
    OBVIOUS
  <2> HIDE DEF new
  <2>2. mem' = [b \in Addr |-> IF b = a THEN new ELSE MemberOf(b)]
    BY <2>1, <1>3, <1>4
  <2> QED
    BY <2>2
<1>7. mem[a] = old
  BY <1>2
<1>8. TheRoster!Accept(a, f, t)
  <2> HIDE DEF old
  <2>1. t <= now
    BY <1>2
  <2>2. heap'[n].last_msg = IF mem[a] # NULL /\ a = Newest THEN mem[a].last ELSE t
    BY <1>5, <1>7
  <2>3. mem[a] # NULL => mem[a].slot # TheRoster!Slot(t)
    BY <1>5, <1>7
  <2>4. Newest' = IF mem[a] = NULL THEN a ELSE Newest
    BY <1>5, <1>7
  <2> QED
    BY <1>6, <2>1, <2>2, <2>3, <2>4 DEF TheRoster!Accept, Newest
<1> QED
  BY <1>2, <1>8 DEF TheRoster!Next

\* A cell is freed: its user's entry is gone, and no other changes.
LEMMA MapRemove ==
    ASSUME IInv, IInv', p \in alloc, alloc' = alloc \ {p},
           \A m \in alloc' : /\ heap'[m].addr = heap[m].addr
                             /\ Entry(heap'[m]) = Entry(heap[m]),
           NEW a, a = heap[p].addr
    PROVE  [b \in Addr |-> MemberOf(b)]' = [[b \in Addr |-> MemberOf(b)] EXCEPT ![a] = NULL]
<1>1. \A m \in alloc' : heap'[m].addr # a
  BY DEF IInv, UniqueAddr
<1>2. MemberOf(a)' = NULL
  BY <1>1, NoMemberNext
<1>3. \A b \in Addr \ {a} : MemberOf(b)' = MemberOf(b)
  BY OthersKeep
<1>4. [b \in Addr |-> MemberOf(b)]' = [b \in Addr |-> MemberOf(b)']
  OBVIOUS
<1>5. [b \in Addr |-> MemberOf(b)]' = [b \in Addr |-> IF b = a THEN NULL ELSE MemberOf(b)]
  BY <1>2, <1>3, <1>4
<1> QED
  BY <1>5

LEMMA MapKick ==
    ASSUME IInv, IInv', Kick
    PROVE  TheRoster!Next
<1>1. PICK rank \in [Node -> Int] : Shape(rank)
  BY DEF IInv
<1>2. PICK q : q = heap[p].next
  OBVIOUS
<1>3. /\ pc = "update" /\ p \in alloc /\ q \in alloc /\ rank[p] < rank[q]
      /\ alloc' = alloc \ {p} /\ heap' = Unlinked(p) /\ pc' = pc /\ now' = now
      /\ heap[p].last_msg + Timeout < now
  BY <1>1, <1>2 DEF Kick, InLoop, Expired, Shape, Walker, Ordered
<1>4. q # p
  BY <1>1, <1>3 DEF IInv, TypeOK
<1>5. ASSUME NEW m \in alloc'
      PROVE  heap'[m].addr = heap[m].addr /\ Entry(heap'[m]) = Entry(heap[m])
  <2>1. m \in Node /\ m # p /\ heap[m] \in Cell
    BY <1>3 DEF IInv, TypeOK
  <2>2. heap'[m] = [heap[m] EXCEPT
                      !.next = IF m = heap[p].prev THEN heap[p].next ELSE @,
                      !.prev = IF m = heap[p].next THEN heap[p].prev ELSE @]
    BY <1>3, <2>1 DEF Unlinked
  <2> QED
    BY <2>1, <2>2 DEF Cell, Entry
<1>6. PICK a : a = heap[p].addr
  OBVIOUS
<1>7. a \in Addr /\ a # Newest /\ end # NULL /\ end \in alloc /\ end # p
  BY <1>2, <1>3, <1>6, EndIsLast, UserTableAssumption DEF IInv, Contents, TypeOK
<1>8. MemberOf(a) = Entry(heap[p]) /\ MemberOf(a) # NULL
  BY <1>3, <1>6, IsMember, EntryNotNull
<1>9. [b \in Addr |-> MemberOf(b)]' = [[b \in Addr |-> MemberOf(b)] EXCEPT ![a] = NULL]
  BY <1>3, <1>5, <1>6, MapRemove
<1>10. Newest' = Newest
  <2>1. end' = end
    BY <1>7 DEF Kick, InLoop
  <2> QED
    BY <1>3, <1>5, <1>7, <2>1 DEF Newest
<1>11. MemberOf(a).last + Timeout < now
  BY <1>3, <1>6, <1>8 DEF Entry
<1>12. TheRoster!Kick(a)
  BY <1>3, <1>7, <1>8, <1>9, <1>10, <1>11 DEF TheRoster!Kick, Newest
<1> QED
  BY <1>7, <1>12 DEF TheRoster!Next

LEMMA MapFree ==
    ASSUME IInv, IInv', FreeUser \/ FreeLast
    PROVE  TheRoster!Next
<1>1. PICK rank \in [Node -> Int] : Shape(rank)
  BY DEF IInv
<1>2. /\ pc = "free" /\ pc' \in {"free", "freed"} /\ p \in alloc /\ alloc' = alloc \ {p}
      /\ heap' = [heap EXCEPT ![p] = Zero] /\ now' = now
  BY <1>1 DEF FreeUser, FreeLast, Shape, Walker
<1>3. \A m \in alloc' : heap'[m] = heap[m]
  BY <1>2 DEF IInv, TypeOK
<1>4. PICK a : a = heap[p].addr
  OBVIOUS
<1>5. a \in Addr
  BY <1>2, <1>4 DEF IInv, Contents
<1>6. MemberOf(a) # NULL
  BY <1>2, <1>4, IsMember, EntryNotNull
<1>7. [b \in Addr |-> MemberOf(b)]' = [[b \in Addr |-> MemberOf(b)] EXCEPT ![a] = NULL]
  BY <1>2, <1>3, <1>4, MapRemove
<1>8. Newest' = IF a = Newest THEN NULL ELSE Newest
  <2>1. end # NULL /\ end \in alloc /\ (heap[p].next = NULL <=> p = end) /\ (a = Newest <=> p = end)
    BY <1>2, <1>4, EndIsLast
  <2>2. CASE FreeUser
    BY <1>2, <1>3, <2>1, <2>2 DEF FreeUser, Newest
  <2>3. CASE FreeLast
    BY <2>1, <2>3 DEF FreeLast, Newest
  <2> QED
    BY <2>2, <2>3
<1>9. TheRoster!Drop(a)
  BY <1>2, <1>5, <1>6, <1>7, <1>8 DEF TheRoster!Drop, Newest
<1> QED
  BY <1>5, <1>9 DEF TheRoster!Next

LEMMA MapRefresh ==
    ASSUME IInv, IInv', RefreshInLoop \/ RefreshLast
    PROVE  TheRoster!Next
<1>1. PICK rank \in [Node -> Int] : Shape(rank)
  BY DEF IInv
<1>2. PICK n : n = p
  OBVIOUS
<1>3. /\ pc = "update" /\ pc' = "idle" /\ n \in alloc /\ alloc' = alloc /\ now' = now
      /\ heap[n].addr = user.addr /\ ~IsSpam(heap[n])
      /\ end' = end
      /\ \/ heap[n].next # NULL /\ heap' = [heap EXCEPT ![n] = RefreshedInLoop(@)]
         \/ heap[n].next = NULL /\ heap' = [heap EXCEPT ![n] = RefreshedLast(@)]
  BY <1>1, <1>2
  DEF RefreshInLoop, RefreshLast, InLoop, PastLoop, Matches, Return, Shape, Walker
<1>4. heap \in [Node -> Cell] /\ n \in Node
  BY <1>3 DEF IInv, TypeOK
<1>5. /\ heap'[n].addr = heap[n].addr /\ heap'[n].recv_fd = user.recv_fd
      /\ heap'[n].last_msg_xs = user.last_msg_xs
      /\ heap'[n].last_msg = IF n = end THEN heap[n].last_msg ELSE user.last_msg
  <2>1. n = end <=> heap[n].next = NULL
    BY <1>3, EndIsLast
  <2>2. CASE heap[n].next # NULL
    <3>1. heap'[n] = RefreshedInLoop(heap[n])
      BY <1>3, <1>4, <2>2
    <3> QED
      BY <1>4, <2>1, <2>2, <3>1 DEF RefreshedInLoop, Cell
  <2>3. CASE heap[n].next = NULL
    <3>1. heap'[n] = RefreshedLast(heap[n])
      BY <1>3, <1>4, <2>3
    <3> QED
      BY <1>4, <2>1, <2>3, <3>1 DEF RefreshedLast, Cell
  <2> QED
    BY <2>2, <2>3
<1>6. \A m \in alloc \ {n} : heap'[m] = heap[m]
  <2>1. alloc \subseteq Node
    BY DEF IInv, TypeOK
  <2> QED
    BY <2>1, <1>3, <1>4
<1>7. heap[n].last_msg_xs # user.last_msg_xs
  BY <1>3 DEF IsSpam
<1>8. PICK a : a = user.addr
  OBVIOUS
<1>9. PICK t : t = user.last_msg
  OBVIOUS
<1>10. PICK f : f = user.recv_fd
  OBVIOUS
<1>11. alloc' = alloc \cup {n} /\ n \in alloc'
  BY <1>3
<1> QED
  BY <1>3, <1>5, <1>6, <1>7, <1>8, <1>9, <1>10, <1>11, MapAccept

LEMMA MapJoin ==
    ASSUME IInv, IInv', NEW n \in Node, Join(n)
    PROVE  TheRoster!Next
<1>1. PICK rank \in [Node -> Int] : Shape(rank)
  BY DEF IInv
<1>2. /\ NotFound /\ n \notin alloc /\ alloc' = alloc \cup {n} /\ heap' = Appended(n)
      /\ pc = "update" /\ pc' = "idle" /\ now' = now /\ end' = n
  BY DEF Join, NotFound, PastLoop, Return
<1>3. \A m \in alloc : heap[m].addr # user.addr
  BY <1>1, <1>2, FreshAddr
<1>4. /\ heap'[n].addr = user.addr /\ heap'[n].recv_fd = user.recv_fd
      /\ heap'[n].last_msg_xs = user.last_msg_xs /\ heap'[n].last_msg = user.last_msg
  <2>1. heap'[n] = [user EXCEPT !.prev = IF start = NULL THEN NULL ELSE end]
    BY <1>2 DEF Appended
  <2> QED
    BY <2>1 DEF IInv, TypeOK, Cell
<1>5. ASSUME NEW m \in alloc \ {n}
      PROVE  heap'[m].addr = heap[m].addr /\ Entry(heap'[m]) = Entry(heap[m])
  <2>1. m \in Node /\ heap[m] \in Cell
    BY DEF IInv, TypeOK
  <2>2. heap'[m] = IF start # NULL /\ m = end THEN [heap[m] EXCEPT !.next = n] ELSE heap[m]
    BY <1>2, <2>1 DEF Appended
  <2> QED
    BY <2>1, <2>2 DEF Cell, Entry
<1>6. PICK a : a = user.addr
  OBVIOUS
<1>7. PICK t : t = user.last_msg
  OBVIOUS
<1>8. PICK f : f = user.recv_fd
  OBVIOUS
<1>9. n \in alloc'
  BY <1>2
<1> QED
  BY <1>2, <1>3, <1>4, <1>5, <1>6, <1>7, <1>8, <1>9, MapAccept

-----------------------------------------------------------------------------
LEMMA MapStep ==
    ASSUME IInv, [Next]_vars
    PROVE  [TheRoster!Next]_(TheRoster!vars)
<1>1. IInv'
  BY StepIInv
<1>2. CASE Tick
  <2>1. ASSUME NEW a \in Addr PROVE MemberOf(a)' = MemberOf(a)
    BY <1>2 DEF Tick, tableVars, MemberOf
  <2>2. TheRoster!Tick
    BY <1>2, <2>1 DEF Tick, tableVars, TheRoster!Tick
  <2> QED
    BY <2>2 DEF TheRoster!Next
<1>3. CASE FreeCall
  <2>1. ASSUME NEW a \in Addr PROVE MemberOf(a)' = MemberOf(a)
    BY <1>3 DEF FreeCall, tableVars, MemberOf
  <2>2. TheRoster!Close
    BY <1>3, <2>1 DEF FreeCall, tableVars, TheRoster!Close
  <2> QED
    BY <2>2 DEF TheRoster!Next
<1>4. CASE \/ \E a \in Addr, f \in Fd : UpdateCall(a, f)
           \/ EveryCall \/ Spam \/ Skip \/ JoinFails
           \/ EveryUser \/ EveryReturn \/ FreeNull \/ UNCHANGED vars
  <2>1. UNCHANGED <<alloc, heap, end, now>>
    BY <1>4 DEF UpdateCall, EveryCall, Spam, Skip, JoinFails, EveryUser, EveryReturn,
                FreeNull, vars, tableVars
  <2>2. (pc \in {"free", "freed", "crashed"}) <=> (pc' \in {"free", "freed", "crashed"})
    BY <1>4 DEF UpdateCall, EveryCall, Spam, Skip, InLoop, JoinFails, NotFound, PastLoop,
                Return, EveryUser, EveryReturn, FreeNull, vars
  <2> QED
    BY <2>1, <2>2, MapNothing
<1>5. CASE RefreshInLoop \/ RefreshLast
  BY <1>1, <1>5, MapRefresh
<1>6. CASE Kick
  BY <1>1, <1>6, MapKick
<1>7. ASSUME NEW n \in Node, Join(n) PROVE TheRoster!Next
  BY <1>1, <1>7, MapJoin
<1>8. CASE FreeUser \/ FreeLast
  BY <1>1, <1>8, MapFree
<1> QED
  BY <1>2, <1>3, <1>4, <1>5, <1>6, <1>7, <1>8 DEF Next, TableStep, Update

LEMMA MapInit ==
    ASSUME Init
    PROVE  TheRoster!Init
<1>1. \A a \in Addr : MemberOf(a) = NULL
  BY DEF Init, MemberOf
<1> QED
  BY <1>1 DEF Init, TheRoster!Init

\* users.c implements the roster: users come and go, and their accepted
\* messages are recorded, only as Roster allows, whatever the order of the
\* list, the addresses and the clock.
THEOREM Implements == Spec => ImplementsRoster
<1>1. Init => TheRoster!Init
  BY MapInit
<1>2. IInv /\ [Next]_vars => [TheRoster!Next]_(TheRoster!vars)
  BY MapStep
<1> QED
  BY <1>1, <1>2, Inductive, PTL DEF Spec, ImplementsRoster, TheRoster!Spec
=============================================================================
