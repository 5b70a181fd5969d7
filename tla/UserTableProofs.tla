-------------------------- MODULE UserTableProofs ---------------------------
(***************************************************************************)
(* Proofs about the table of active users, for any sets of clients,        *)
(* sockets and cells and any time-out.                                     *)
(*                                                                         *)
(* None of the table's invariants is inductive: what makes the pointer     *)
(* surgery right is that the list orders the cells.  The inductive         *)
(* invariant therefore says that some rank of the cells grows along next,  *)
(* with no allocated cell between two neighbours.  Removing a cell leaves  *)
(* the rank as it is; appending one gives it the highest.                  *)
(***************************************************************************)
EXTENDS UserTable, WellFoundedInduction, TLAPS

-----------------------------------------------------------------------------
(* Types *)

LEMMA SlotType ==
    ASSUME NEW t \in Nat
    PROVE  Slot(t) \in Nat
BY DEF Slot

LEMMA ZeroType == Zero \in Cell
BY DEF Zero, Cell, Ptr

LEMMA NewUserType ==
    ASSUME TypeOK, NEW a \in Addr, NEW f \in Fd
    PROVE  NewUser(a, f) \in Cell
<1>1. now \in Nat /\ Slot(now) \in Nat
  BY UserTableAssumption, SlotType DEF TypeOK
<1> QED
  BY <1>1 DEF NewUser, Cell, Ptr

LEMMA AcceptedType ==
    ASSUME TypeOK, Accepted
    PROVE  heard' \in [Addr -> [at : Int, fd : Fd \cup {NULL}]]
<1> DEFINE entry == [at |-> user.last_msg, fd |-> user.recv_fd]
<1>1. entry \in [at : Int, fd : Fd \cup {NULL}]
  BY DEF TypeOK, Cell
<1>2. heard \in [Addr -> [at : Int, fd : Fd \cup {NULL}]]
  BY DEF TypeOK
<1>3. heard' = [heard EXCEPT ![user.addr] = entry]
  BY DEF Accepted
<1> HIDE DEF entry
<1> QED
  BY <1>1, <1>2, <1>3

LEMMA TypeStep ==
    ASSUME TypeOK, [Next]_vars
    PROVE  TypeOK'
<1> USE UserTableAssumption
<1>1. TypeOK'
  <2> USE DEF TypeOK, Ptr
  <2>1. CASE Tick
    BY <2>1 DEF Tick, tableVars
  <2>2. ASSUME NEW a \in Addr, NEW f \in Fd, UpdateCall(a, f) PROVE TypeOK'
    BY <2>2, NewUserType DEF UpdateCall, tableVars
  <2>3. CASE EveryCall
    BY <2>3 DEF EveryCall, tableVars
  <2>4. CASE FreeCall
    BY <2>4 DEF FreeCall, tableVars
  <2>5. CASE Spam
    BY <2>5, ZeroType DEF Spam, Return, tableVars
  <2>6. CASE RefreshInLoop
    <3>1. heap[p] \in Cell /\ p \in Node
      BY <2>6 DEF RefreshInLoop, InLoop
    <3>2. RefreshedInLoop(heap[p]) \in Cell
      BY <3>1 DEF RefreshedInLoop, Cell
    <3>3. heap' \in [Node -> Cell]
      BY <2>6, <3>1, <3>2 DEF RefreshInLoop
    <3>4. heard' \in [Addr -> [at : Int, fd : Fd \cup {NULL}]]
      BY <2>6, AcceptedType DEF RefreshInLoop
    <3>5. /\ UNCHANGED <<alloc, start, end, now, called>>
          /\ pc' = "idle" /\ ret' = 0 /\ user' = Zero /\ p' = NULL
      BY <2>6 DEF RefreshInLoop, Return
    <3> QED
      BY <3>3, <3>4, <3>5, ZeroType
  <2>7. CASE RefreshLast
    <3>1. heap[p] \in Cell /\ p \in Node
      BY <2>7 DEF RefreshLast
    <3>2. RefreshedLast(heap[p]) \in Cell
      BY <3>1 DEF RefreshedLast, Cell
    <3>3. heap' \in [Node -> Cell]
      BY <2>7, <3>1, <3>2 DEF RefreshLast
    <3>4. heard' \in [Addr -> [at : Int, fd : Fd \cup {NULL}]]
      BY <2>7, AcceptedType DEF RefreshLast
    <3>5. /\ UNCHANGED <<alloc, start, end, now, called>>
          /\ pc' = "idle" /\ ret' = 0 /\ user' = Zero /\ p' = NULL
      BY <2>7 DEF RefreshLast, Return
    <3> QED
      BY <3>3, <3>4, <3>5, ZeroType
  <2>8. CASE Kick
    <3>1. p \in Node /\ heap[p].next \in Ptr /\ heap[p].prev \in Ptr
      BY <2>8 DEF Kick, InLoop, Cell
    <3>2. Unlinked(p) \in [Node -> Cell]
      <4>1. ASSUME NEW m \in Node PROVE Unlinked(p)[m] \in Cell
        <5>1. CASE m = p
          BY <5>1, ZeroType DEF Unlinked
        <5>2. CASE m # p
          <6>1. heap[m] \in Cell
            OBVIOUS
          <6>2. Unlinked(p)[m] = [heap[m] EXCEPT
                    !.next = IF m = heap[p].prev THEN heap[p].next ELSE @,
                    !.prev = IF m = heap[p].next THEN heap[p].prev ELSE @]
            BY <5>2 DEF Unlinked
          <6> QED
            BY <3>1, <6>1, <6>2 DEF Cell
        <5> QED
          BY <5>1, <5>2
      <4> QED
        BY <4>1 DEF Unlinked
    <3> QED
      BY <2>8, <3>1, <3>2 DEF Kick
  <2>9. CASE Skip
    BY <2>9 DEF Skip, InLoop, Cell, tableVars
  <2>10. ASSUME NEW n \in Node, Join(n) PROVE TypeOK'
    <3>1. Appended(n) \in [Node -> Cell]
      <4>1. ASSUME NEW m \in Node PROVE Appended(n)[m] \in Cell
        BY DEF Appended, Cell
      <4> QED
        BY <4>1 DEF Appended
    <3>2. heard' \in [Addr -> [at : Int, fd : Fd \cup {NULL}]]
      BY <2>10, AcceptedType DEF Join
    <3>3. /\ UNCHANGED <<now, called>>
          /\ alloc' = alloc \cup {n} /\ heap' = Appended(n)
          /\ start' \in {start, n} /\ end' = n
          /\ pc' = "idle" /\ ret' = 0 /\ user' = Zero /\ p' = NULL
      BY <2>10 DEF Join, Return
    <3> QED
      BY <3>1, <3>2, <3>3, ZeroType
  <2>11. CASE JoinFails
    BY <2>11, ZeroType DEF JoinFails, Return, tableVars
  <2>12. CASE EveryUser
    BY <2>12 DEF EveryUser, Cell, tableVars
  <2>13. CASE EveryReturn
    BY <2>13 DEF EveryReturn, tableVars
  <2>14. CASE FreeUser
    BY <2>14, ZeroType DEF FreeUser, Cell
  <2>15. CASE FreeLast
    BY <2>15, ZeroType DEF FreeLast, Cell
  <2>16. CASE FreeNull
    BY <2>16 DEF FreeNull, tableVars
  <2>17. CASE UNCHANGED vars
    BY <2>17 DEF vars, tableVars
  <2> QED
    BY <2>1, <2>2, <2>3, <2>4, <2>5, <2>6, <2>7, <2>8, <2>9, <2>10, <2>11,
       <2>12, <2>13, <2>14, <2>15, <2>16, <2>17
    DEF Next, TableStep, Update
<1> QED
  BY <1>1

\* Every cell, the freed ones included, and every local hold values of their C
\* types: the links are cells or the null pointer.
THEOREM TypeCorrect == Spec => []TypeOK
<1>1. Init => TypeOK
  BY ZeroType, UserTableAssumption DEF Init, TypeOK, Ptr, Never
<1>2. TypeOK /\ [Next]_vars => TypeOK'
  BY TypeStep
<1> QED
  BY <1>1, <1>2, PTL DEF Spec

-----------------------------------------------------------------------------
(* The inductive invariant *)

\* A cell's successor is the next one up in rank; only the highest has none.
Ordered(rank) ==
    /\ \A m, n \in alloc : rank[m] = rank[n] => m = n
    /\ \A n \in alloc :
         IF heap[n].next = NULL THEN \A m \in alloc : rank[m] <= rank[n]
         ELSE /\ heap[n].next \in alloc
              /\ rank[n] < rank[heap[n].next]
              /\ \A m \in alloc : rank[m] <= rank[n] \/ rank[heap[n].next] <= rank[m]

\* The table points at the lowest and at the highest cell.
Ends(rank) ==
    /\ pc # "free" =>
         IF start = NULL THEN alloc = {}
         ELSE start \in alloc /\ \A m \in alloc : rank[start] <= rank[m]
    /\ IF end = NULL THEN alloc = {}
       ELSE end \in alloc /\ \A m \in alloc : rank[m] <= rank[end]

\* prev is the inverse of next.
Back ==
    pc # "free" =>
      \A n \in alloc :
        /\ IF n = start THEN heap[n].prev = NULL
           ELSE heap[n].prev \in alloc /\ heap[heap[n].prev].next = n
        /\ heap[n].next # NULL => heap[heap[n].next].prev = n

\* Where the local of a walk may stand.
Walker(rank) ==
    /\ p \in alloc \cup {NULL}
    /\ pc \in {"idle", "freed", "crashed"} => p = NULL
    /\ pc \in {"update", "free", "freed", "crashed"} /\ p = NULL => alloc = {}
    /\ pc = "free" => IF p = NULL THEN start = NULL /\ end = NULL
                      ELSE \A m \in alloc : rank[p] <= rank[m]

\* The cells a walk has passed.
Passed(rank) == {n \in alloc : p = NULL \/ rank[n] < rank[p]}

\* What an update knows of the cells it has passed, and of its argument.
Updating(rank) ==
    pc = "update" =>
      /\ user.addr \in Addr
      /\ user.recv_fd \in Fd
      /\ user.last_msg <= now
      /\ user.last_msg_xs = Slot(user.last_msg)
      /\ user.next = NULL
      /\ \A n \in Passed(rank) :
           /\ heap[n].addr # user.addr
           /\ heap[n].last_msg + Timeout >= user.last_msg

\* user_table_every has called back for the cells it has passed.
Calling(rank) ==
    pc = "every" => called = {heap[n].addr : n \in Passed(rank)}

\* What the cells hold.
Contents ==
    \A n \in alloc : /\ heap[n].addr \in Addr
                     /\ heap[n].last_msg <= now
                     /\ heard[heap[n].addr].at >= 0

\* Only a table nobody has spoken to is empty while it is in use.
EmptyUnused ==
    alloc = {} /\ pc # "freed" => \A a \in Addr : heard[a] = Never

Shape(rank) ==
    Ordered(rank) /\ Ends(rank) /\ Walker(rank) /\ Updating(rank) /\ Calling(rank)

IInv ==
    /\ TypeOK
    /\ Back
    /\ Contents
    /\ UniqueAddr
    /\ LastAccepted
    /\ EmptyUnused
    /\ \E rank \in [Node -> Int] : Shape(rank)

-----------------------------------------------------------------------------
(* The walks: actions that leave the list alone *)

LEMMA SameList ==
    ASSUME NEW rank \in [Node -> Int], IInv, Shape(rank),
           UNCHANGED <<tableVars, heard>>, now <= now', TypeOK',
           pc' # "free" => pc # "free"
    PROVE  /\ Ordered(rank)' /\ Ends(rank)' /\ Back'
           /\ Contents' /\ UniqueAddr' /\ LastAccepted'
<1> USE DEF IInv, Shape, tableVars
<1>1. Ordered(rank)'
  BY DEF Ordered
<1>2. Ends(rank)'
  BY DEF Ends
<1>3. Back'
  BY DEF Back
<1>4. now \in Int /\ now' \in Int /\ \A n \in alloc : heap[n].last_msg \in Int
  BY UserTableAssumption DEF TypeOK, Cell
<1>5. Contents'
  BY <1>4 DEF Contents
<1>6. UniqueAddr' /\ LastAccepted'
  BY DEF UniqueAddr, LastAccepted
<1> QED
  BY <1>1, <1>2, <1>3, <1>5, <1>6

LEMMA TickKeeps ==
    ASSUME IInv, TypeOK', Tick
    PROVE  IInv'
<1>1. PICK rank \in [Node -> Int] : Shape(rank)
  BY DEF IInv
<1>2. now \in Int /\ now' = now + 1 /\ user.last_msg \in Int
  BY UserTableAssumption DEF Tick, IInv, TypeOK, Cell
<1>3. UNCHANGED <<tableVars, pc, user, p, ret, called, heard>>
  BY DEF Tick
<1>4. /\ Ordered(rank)' /\ Ends(rank)' /\ Back'
      /\ Contents' /\ UniqueAddr' /\ LastAccepted'
  BY <1>1, <1>2, <1>3, SameList
<1>5. Walker(rank)' /\ Calling(rank)' /\ EmptyUnused'
  BY <1>1, <1>3 DEF IInv, Shape, Walker, Calling, Passed, EmptyUnused, tableVars
<1>6. Updating(rank)'
  BY <1>1, <1>2, <1>3 DEF Shape, Updating, Passed, tableVars
<1> QED
  BY <1>1, <1>4, <1>5, <1>6 DEF IInv, Shape

LEMMA UpdateCallKeeps ==
    ASSUME IInv, TypeOK', NEW a \in Addr, NEW f \in Fd, UpdateCall(a, f)
    PROVE  IInv'
<1>1. PICK rank \in [Node -> Int] : Shape(rank)
  BY DEF IInv
<1>2. /\ pc = "idle" /\ pc' = "update" /\ p' = start /\ user' = NewUser(a, f)
      /\ UNCHANGED <<tableVars, now, ret, called, heard>>
  BY DEF UpdateCall
<1>3. now \in Int /\ now' = now
  BY <1>2, UserTableAssumption DEF IInv, TypeOK
<1>4. /\ Ordered(rank)' /\ Ends(rank)' /\ Back'
      /\ Contents' /\ UniqueAddr' /\ LastAccepted'
  BY <1>1, <1>2, <1>3, SameList
<1>5. EmptyUnused' /\ Calling(rank)'
  BY <1>2 DEF IInv, EmptyUnused, Calling, tableVars
<1>6. Walker(rank)'
  BY <1>1, <1>2 DEF Shape, Ends, Walker, tableVars
<1>7. Passed(rank)' = {}
  BY <1>1, <1>2 DEF Shape, Ends, Passed, tableVars, IInv, TypeOK
<1>8. Updating(rank)'
  BY <1>2, <1>3, <1>7 DEF Updating, NewUser
<1> QED
  BY <1>1, <1>4, <1>5, <1>6, <1>8 DEF IInv, Shape

LEMMA EveryCallKeeps ==
    ASSUME IInv, TypeOK', EveryCall
    PROVE  IInv'
<1>1. PICK rank \in [Node -> Int] : Shape(rank)
  BY DEF IInv
<1>2. /\ pc = "idle" /\ pc' = "every" /\ p' = start /\ called' = {}
      /\ UNCHANGED <<tableVars, now, user, ret, heard>>
  BY DEF EveryCall
<1>3. now \in Int /\ now' = now
  BY <1>2, UserTableAssumption DEF IInv, TypeOK
<1>4. /\ Ordered(rank)' /\ Ends(rank)' /\ Back'
      /\ Contents' /\ UniqueAddr' /\ LastAccepted'
  BY <1>1, <1>2, <1>3, SameList
<1>5. EmptyUnused' /\ Updating(rank)'
  BY <1>2 DEF IInv, EmptyUnused, Updating, tableVars
<1>6. Walker(rank)'
  BY <1>1, <1>2 DEF Shape, Ends, Walker, tableVars
<1>7. Passed(rank)' = {}
  BY <1>1, <1>2 DEF Shape, Ends, Passed, tableVars, IInv, TypeOK
<1>8. Calling(rank)'
  BY <1>2, <1>7 DEF Calling
<1> QED
  BY <1>1, <1>4, <1>5, <1>6, <1>8 DEF IInv, Shape

LEMMA FreeCallKeeps ==
    ASSUME IInv, TypeOK', FreeCall
    PROVE  IInv'
<1>1. PICK rank \in [Node -> Int] : Shape(rank)
  BY DEF IInv
<1>2. /\ pc = "idle" /\ pc' = "free" /\ p' = start
      /\ UNCHANGED <<tableVars, now, user, ret, called, heard>>
  BY DEF FreeCall
<1>3. now \in Int /\ now' = now
  BY <1>2, UserTableAssumption DEF IInv, TypeOK
<1>4. /\ Ordered(rank)' /\ Ends(rank)' /\ Back'
      /\ Contents' /\ UniqueAddr' /\ LastAccepted'
  BY <1>1, <1>2, <1>3, SameList
<1>5. EmptyUnused' /\ Updating(rank)' /\ Calling(rank)'
  BY <1>2 DEF IInv, EmptyUnused, Updating, Calling, tableVars
<1>6. Walker(rank)'
  BY <1>1, <1>2 DEF Shape, Ends, Walker, tableVars
<1> QED
  BY <1>1, <1>4, <1>5, <1>6 DEF IInv, Shape

\* An update that returns and leaves the list alone.
LEMMA ReturnKeeps ==
    ASSUME IInv, TypeOK', pc = "update", NEW r, Return(r),
           UNCHANGED <<tableVars, now, called, heard>>
    PROVE  IInv'
<1>1. PICK rank \in [Node -> Int] : Shape(rank)
  BY DEF IInv
<1>2. pc = "update" /\ pc' = "idle" /\ p' = NULL
  BY DEF Return
<1>3. now \in Int /\ now' = now
  BY UserTableAssumption DEF IInv, TypeOK
<1>4. /\ Ordered(rank)' /\ Ends(rank)' /\ Back'
      /\ Contents' /\ UniqueAddr' /\ LastAccepted'
  BY <1>1, <1>2, <1>3, SameList
<1>5. EmptyUnused' /\ Updating(rank)' /\ Calling(rank)' /\ Walker(rank)'
  BY <1>2 DEF IInv, EmptyUnused, Updating, Calling, Walker, tableVars
<1> QED
  BY <1>1, <1>4, <1>5 DEF IInv, Shape

\* One step forward along next passes exactly the cell it leaves.
LEMMA OneFurther ==
    ASSUME NEW rank \in [Node -> Int], TypeOK, Ordered(rank), p \in alloc
    PROVE  {n \in alloc : heap[p].next = NULL \/ rank[n] < rank[heap[p].next]}
             = {n \in alloc : rank[n] < rank[p]} \cup {p}
<1>1. \A n \in alloc : rank[n] \in Int
  BY DEF TypeOK
<1>2. CASE heap[p].next = NULL
  BY <1>1, <1>2 DEF Ordered
<1>3. CASE heap[p].next # NULL
  BY <1>1, <1>3 DEF Ordered
<1> QED
  BY <1>2, <1>3

LEMMA SkipKeeps ==
    ASSUME IInv, TypeOK', Skip
    PROVE  IInv'
<1>1. PICK rank \in [Node -> Int] : Shape(rank)
  BY DEF IInv
<1>2. /\ pc = "update" /\ p # NULL /\ heap[p].next # NULL
      /\ heap[p].addr # user.addr
      /\ ~(heap[p].last_msg + Timeout < now)
      /\ p' = heap[p].next
      /\ UNCHANGED <<tableVars, now, pc, user, ret, called, heard>>
  BY DEF Skip, InLoop, Matches, Expired
<1>3. now \in Int /\ now' = now
  BY <1>2, UserTableAssumption DEF IInv, TypeOK
<1>4. /\ Ordered(rank)' /\ Ends(rank)' /\ Back'
      /\ Contents' /\ UniqueAddr' /\ LastAccepted'
  BY <1>1, <1>2, <1>3, SameList
<1>5. EmptyUnused' /\ Calling(rank)'
  BY <1>2 DEF IInv, EmptyUnused, Calling, tableVars
<1>6. p \in alloc
  BY <1>1, <1>2 DEF Shape, Walker
<1>7. Walker(rank)'
  BY <1>1, <1>2, <1>6 DEF Shape, Walker, Ordered, tableVars
<1>8. Passed(rank)' = Passed(rank) \cup {p}
  BY <1>1, <1>2, <1>6, OneFurther DEF IInv, Shape, Passed, tableVars
<1>9. heap[p].last_msg + Timeout >= user.last_msg
  <2>1. heap[p].last_msg \in Int /\ user.last_msg \in Int /\ Timeout \in Int
    BY <1>6, UserTableAssumption DEF IInv, TypeOK, Cell
  <2>2. user.last_msg <= now
    BY <1>1, <1>2 DEF Shape, Updating
  <2> QED
    BY <1>2, <1>3, <2>1, <2>2
<1>10. Updating(rank)'
  BY <1>1, <1>2, <1>8, <1>9 DEF Shape, Updating, tableVars
<1> QED
  BY <1>1, <1>4, <1>5, <1>7, <1>10 DEF IInv, Shape

LEMMA EveryUserKeeps ==
    ASSUME IInv, TypeOK', EveryUser
    PROVE  IInv'
<1>1. PICK rank \in [Node -> Int] : Shape(rank)
  BY DEF IInv
<1>2. /\ pc = "every" /\ p # NULL
      /\ called' = called \cup {heap[p].addr} /\ p' = heap[p].next
      /\ UNCHANGED <<tableVars, now, pc, user, ret, heard>>
  BY DEF EveryUser
<1>3. now \in Int /\ now' = now
  BY <1>2, UserTableAssumption DEF IInv, TypeOK
<1>4. /\ Ordered(rank)' /\ Ends(rank)' /\ Back'
      /\ Contents' /\ UniqueAddr' /\ LastAccepted'
  BY <1>1, <1>2, <1>3, SameList
<1>5. EmptyUnused' /\ Updating(rank)'
  BY <1>2 DEF IInv, EmptyUnused, Updating, tableVars
<1>6. p \in alloc
  BY <1>1, <1>2 DEF Shape, Walker
<1>7. Walker(rank)'
  BY <1>1, <1>2, <1>6 DEF Shape, Walker, Ordered, tableVars
<1>8. Passed(rank)' = Passed(rank) \cup {p}
  BY <1>1, <1>2, <1>6, OneFurther DEF IInv, Shape, Passed, tableVars
<1>9. Calling(rank)'
  <2>1. called = {heap[n].addr : n \in Passed(rank)}
    BY <1>1, <1>2 DEF Shape, Calling
  <2>2. called' = {heap[n].addr : n \in Passed(rank) \cup {p}}
    BY <1>2, <2>1
  <2> QED
    BY <1>2, <1>8, <2>2 DEF Calling, tableVars
<1> QED
  BY <1>1, <1>4, <1>5, <1>7, <1>9 DEF IInv, Shape

LEMMA EveryReturnKeeps ==
    ASSUME IInv, TypeOK', EveryReturn
    PROVE  IInv'
<1>1. PICK rank \in [Node -> Int] : Shape(rank)
  BY DEF IInv
<1>2. /\ pc = "every" /\ p = NULL /\ pc' = "idle"
      /\ UNCHANGED <<tableVars, now, user, p, ret, heard>>
  BY DEF EveryReturn
<1>3. now \in Int /\ now' = now
  BY <1>2, UserTableAssumption DEF IInv, TypeOK
<1>4. /\ Ordered(rank)' /\ Ends(rank)' /\ Back'
      /\ Contents' /\ UniqueAddr' /\ LastAccepted'
  BY <1>1, <1>2, <1>3, SameList
<1>5. EmptyUnused' /\ Updating(rank)' /\ Calling(rank)' /\ Walker(rank)'
  BY <1>2 DEF IInv, EmptyUnused, Updating, Calling, Walker, tableVars
<1> QED
  BY <1>1, <1>4, <1>5 DEF IInv, Shape

LEMMA FreeNullKeeps ==
    ASSUME IInv, TypeOK', FreeNull
    PROVE  IInv'
<1>1. PICK rank \in [Node -> Int] : Shape(rank)
  BY DEF IInv
<1>2. /\ pc = "free" /\ p = NULL /\ pc' = "crashed"
      /\ UNCHANGED <<tableVars, now, user, p, ret, called, heard>>
  BY DEF FreeNull
<1>3. alloc = {} /\ start = NULL /\ end = NULL /\ alloc' = {}
  BY <1>1, <1>2 DEF Shape, Walker, tableVars
<1>4. Ordered(rank)' /\ Back' /\ Contents' /\ UniqueAddr' /\ LastAccepted'
  BY <1>3 DEF Ordered, Back, Contents, UniqueAddr, LastAccepted
<1>5. Ends(rank)' /\ Walker(rank)' /\ Updating(rank)' /\ Calling(rank)'
  BY <1>2, <1>3 DEF Ends, Walker, Updating, Calling, tableVars
<1>6. EmptyUnused'
  BY <1>2, <1>3 DEF IInv, EmptyUnused
<1> QED
  BY <1>4, <1>5, <1>6 DEF IInv, Shape

-----------------------------------------------------------------------------
(* The surgery: actions that change the list *)

\* Both refreshes change no link and no address.
LEMMA RefreshKeeps ==
    ASSUME IInv, TypeOK', pc = "update", p # NULL, Matches(heap[p]),
           NEW c, heap' = [heap EXCEPT ![p] = c],
           c.next = heap[p].next, c.prev = heap[p].prev, c.addr = heap[p].addr,
           c.recv_fd = user.recv_fd, c.last_msg_xs = user.last_msg_xs,
           c.last_msg \in {heap[p].last_msg, user.last_msg},
           Accepted, Return(0), UNCHANGED <<alloc, start, end, now, called>>
    PROVE  IInv'
<1>1. PICK rank \in [Node -> Int] : Shape(rank)
  BY DEF IInv
<1>2. p \in alloc /\ p \in Node /\ heap \in [Node -> Cell] /\ alloc \subseteq Node
  BY <1>1 DEF IInv, TypeOK, Shape, Walker
<1>3. \A n \in alloc : /\ heap'[n].next = heap[n].next
                       /\ heap'[n].prev = heap[n].prev
                       /\ heap'[n].addr = heap[n].addr
                       /\ n # p => heap'[n] = heap[n]
  BY <1>2
<1>4. heap'[p] = c
  BY <1>2
<1>5. pc = "update" /\ pc' = "idle" /\ p' = NULL
  BY DEF Return
<1>6. Ordered(rank)'
  BY <1>1, <1>3 DEF Shape, Ordered
<1>7. Ends(rank)'
  BY <1>1, <1>5 DEF Shape, Ends
<1>8. Back'
  <2>1. \A n \in alloc :
          /\ IF n = start THEN heap[n].prev = NULL
             ELSE heap[n].prev \in alloc /\ heap[heap[n].prev].next = n
          /\ heap[n].next # NULL =>
               heap[n].next \in alloc /\ heap[heap[n].next].prev = n
    BY <1>1, <1>5 DEF IInv, Back, Shape, Ordered
  <2> QED
    BY <1>3, <2>1 DEF Back
<1>9. Walker(rank)' /\ Updating(rank)' /\ Calling(rank)'
  BY <1>5 DEF Walker, Updating, Calling
<1>10. /\ user.addr \in Addr /\ user.last_msg <= now /\ user.last_msg \in Nat
       /\ user.last_msg_xs = Slot(user.last_msg)
  BY <1>1 DEF Shape, Updating, IInv, TypeOK, Cell
<1>11. /\ heard'[user.addr] = [at |-> user.last_msg, fd |-> user.recv_fd]
       /\ \A a \in Addr : a # user.addr => heard'[a] = heard[a]
  BY <1>10 DEF Accepted, IInv, TypeOK
<1>12. \A n \in alloc : n # p => heap[n].addr # user.addr
  BY <1>2 DEF IInv, UniqueAddr, Matches
<1>13. Contents'
  <2> SUFFICES ASSUME NEW n \in alloc
               PROVE  /\ heap'[n].addr \in Addr
                      /\ heap'[n].last_msg <= now
                      /\ heard'[heap'[n].addr].at >= 0
    BY DEF Contents
  <2>1. CASE n = p
    BY <2>1, <1>2, <1>4, <1>10, <1>11 DEF IInv, Contents, Matches
  <2>2. CASE n # p
    BY <2>2, <1>3, <1>11, <1>12 DEF IInv, Contents
  <2> QED
    BY <2>1, <2>2
<1>14. UniqueAddr'
  BY <1>3 DEF IInv, UniqueAddr
<1>15. LastAccepted'
  <2> SUFFICES ASSUME NEW n \in alloc
               PROVE  /\ heap'[n].recv_fd = heard'[heap'[n].addr].fd
                      /\ heap'[n].last_msg_xs = Slot(heard'[heap'[n].addr].at)
    BY DEF LastAccepted
  <2>1. CASE n = p
    BY <2>1, <1>4, <1>10, <1>11 DEF Matches
  <2>2. CASE n # p
    BY <2>2, <1>3, <1>11, <1>12 DEF IInv, Contents, LastAccepted
  <2> QED
    BY <2>1, <2>2
<1>16. EmptyUnused'
  BY <1>2 DEF EmptyUnused
<1> QED
  BY <1>6, <1>7, <1>8, <1>9, <1>13, <1>14, <1>15, <1>16 DEF IInv, Shape

LEMMA RefreshInLoopKeeps ==
    ASSUME IInv, TypeOK', RefreshInLoop
    PROVE  IInv'
<1> DEFINE c == RefreshedInLoop(heap[p])
<1>1. heap[p] \in Cell
  BY DEF RefreshInLoop, InLoop, IInv, TypeOK, Ptr
<1>2. /\ c.next = heap[p].next /\ c.prev = heap[p].prev /\ c.addr = heap[p].addr
      /\ c.recv_fd = user.recv_fd /\ c.last_msg_xs = user.last_msg_xs
      /\ c.last_msg = user.last_msg
  BY <1>1 DEF RefreshedInLoop, Cell
<1>3. pc = "update" /\ p # NULL
  BY DEF RefreshInLoop, InLoop
<1>4. /\ heap' = [heap EXCEPT ![p] = c] /\ Matches(heap[p]) /\ Accepted /\ Return(0)
      /\ UNCHANGED <<alloc, start, end, now, called>>
  BY DEF RefreshInLoop
<1> HIDE DEF c
<1> QED
  BY <1>2, <1>3, <1>4, RefreshKeeps

LEMMA RefreshLastKeeps ==
    ASSUME IInv, TypeOK', RefreshLast
    PROVE  IInv'
<1> DEFINE c == RefreshedLast(heap[p])
<1>1. heap[p] \in Cell
  BY DEF RefreshLast, IInv, TypeOK, Ptr
<1>2. /\ c.next = heap[p].next /\ c.prev = heap[p].prev /\ c.addr = heap[p].addr
      /\ c.recv_fd = user.recv_fd /\ c.last_msg_xs = user.last_msg_xs
      /\ c.last_msg = heap[p].last_msg
  BY <1>1 DEF RefreshedLast, Cell
<1>3. pc = "update" /\ p # NULL
  BY DEF RefreshLast, PastLoop
<1>4. /\ heap' = [heap EXCEPT ![p] = c] /\ Matches(heap[p]) /\ Accepted /\ Return(0)
      /\ UNCHANGED <<alloc, start, end, now, called>>
  BY DEF RefreshLast
<1> HIDE DEF c
<1> QED
  BY <1>2, <1>3, <1>4, RefreshKeeps

\* The cell a walk removes and the one behind it; the list is cut around p.
LEMMA KickKeeps ==
    ASSUME IInv, TypeOK', Kick
    PROVE  IInv'
<1> DEFINE q == heap[p].next
           r == heap[p].prev
<1>1. PICK rank \in [Node -> Int] : Shape(rank)
  BY DEF IInv
<1>2. /\ pc = "update" /\ p # NULL /\ q # NULL
      /\ heap' = Unlinked(p) /\ alloc' = alloc \ {p}
      /\ start' = (IF r = NULL THEN q ELSE start)
      /\ end' = end /\ p' = q
      /\ UNCHANGED <<now, pc, user, ret, called, heard>>
  BY DEF Kick, InLoop
<1>3. /\ p \in alloc /\ alloc \subseteq Node /\ heap \in [Node -> Cell]
      /\ \A n \in alloc : rank[n] \in Int /\ n # NULL
  BY <1>1, <1>2, UserTableAssumption DEF Shape, Walker, IInv, TypeOK
<1>4. \A m, n \in alloc : rank[m] = rank[n] => m = n
  BY <1>1 DEF Shape, Ordered
<1>5. \A n \in alloc :
        heap[n].next # NULL =>
          /\ heap[n].next \in alloc
          /\ rank[n] < rank[heap[n].next]
          /\ heap[heap[n].next].prev = n
          /\ \A m \in alloc : rank[m] <= rank[n] \/ rank[heap[n].next] <= rank[m]
  BY <1>1, <1>2 DEF Shape, Ordered, IInv, Back
<1>6. \A n \in alloc :
        IF n = start THEN heap[n].prev = NULL
        ELSE heap[n].prev \in alloc /\ heap[heap[n].prev].next = n
  BY <1>2 DEF IInv, Back
<1>7. /\ start \in alloc /\ \A m \in alloc : rank[start] <= rank[m]
      /\ end \in alloc /\ \A m \in alloc : rank[m] <= rank[end]
  BY <1>1, <1>2, <1>3 DEF Shape, Ends
<1>8. q \in alloc /\ q # p /\ rank[p] < rank[q] /\ heap[q].prev = p
  BY <1>2, <1>3, <1>5
<1>9. \A m \in alloc' :
        /\ heap'[m].next = (IF m = r THEN q ELSE heap[m].next)
        /\ heap'[m].prev = (IF m = q THEN r ELSE heap[m].prev)
        /\ heap'[m].addr = heap[m].addr
        /\ heap'[m].recv_fd = heap[m].recv_fd
        /\ heap'[m].last_msg = heap[m].last_msg
        /\ heap'[m].last_msg_xs = heap[m].last_msg_xs
  <2> SUFFICES ASSUME NEW m \in alloc'
               PROVE  /\ heap'[m].next = (IF m = r THEN q ELSE heap[m].next)
                      /\ heap'[m].prev = (IF m = q THEN r ELSE heap[m].prev)
                      /\ heap'[m].addr = heap[m].addr
                      /\ heap'[m].recv_fd = heap[m].recv_fd
                      /\ heap'[m].last_msg = heap[m].last_msg
                      /\ heap'[m].last_msg_xs = heap[m].last_msg_xs
    OBVIOUS
  <2>1. m \in Node /\ m # p /\ heap[m] \in Cell
    BY <1>2, <1>3
  <2>2. heap'[m] = [heap[m] EXCEPT !.next = IF m = r THEN q ELSE @,
                                   !.prev = IF m = q THEN r ELSE @]
    BY <1>2, <2>1 DEF Unlinked
  <2> QED
    BY <2>1, <2>2 DEF Cell
<1> HIDE DEF q, r
<1>10. p = start <=> r = NULL
  BY <1>3, <1>6 DEF r
<1>11. p # start => r \in alloc' /\ heap[r].next = p /\ rank[r] < rank[p]
  BY <1>2, <1>3, <1>5, <1>6 DEF r
<1>12. \A n \in alloc' : heap[n].next = p => n = r
  BY <1>2, <1>3, <1>5 DEF r
<1>13. \A m \in alloc' : rank[m] < rank[p] \/ rank[q] <= rank[m]
  BY <1>2, <1>3, <1>4, <1>5, <1>8 DEF q
<1>14. Ordered(rank)'
  <2>1. \A m, n \in alloc' : rank[m] = rank[n] => m = n
    BY <1>2, <1>4
  <2>2. ASSUME NEW n \in alloc', n = r
        PROVE  /\ heap'[n].next # NULL
               /\ heap'[n].next \in alloc'
               /\ rank[n] < rank[heap'[n].next]
               /\ \A m \in alloc' : rank[m] <= rank[n] \/ rank[heap'[n].next] <= rank[m]
    <3>1. heap'[n].next = q /\ q # NULL /\ q \in alloc' /\ n \in alloc /\ n # NULL
      BY <2>2, <1>2, <1>3, <1>8, <1>9
    <3>2. heap[n].next = p /\ rank[n] < rank[p]
      BY <2>2, <3>1, <1>10, <1>11
    <3>3. \A m \in alloc' : rank[m] <= rank[n] \/ rank[q] <= rank[m]
      BY <3>1, <3>2, <1>2, <1>3, <1>5, <1>13
    <3> QED
      BY <3>1, <3>2, <3>3, <1>3, <1>8
  <2>3. ASSUME NEW n \in alloc', n # r
        PROVE  IF heap'[n].next = NULL THEN \A m \in alloc' : rank[m] <= rank[n]
               ELSE /\ heap'[n].next \in alloc'
                    /\ rank[n] < rank[heap'[n].next]
                    /\ \A m \in alloc' :
                         rank[m] <= rank[n] \/ rank[heap'[n].next] <= rank[m]
    <3>1. heap'[n].next = heap[n].next /\ heap[n].next # p /\ n \in alloc
      BY <2>3, <1>2, <1>9, <1>12
    <3>2. alloc' = alloc \ {p}
      BY <1>2
    <3> QED
      BY <3>1, <3>2, <1>1 DEF Shape, Ordered
  <2> QED
    BY <2>1, <2>2, <2>3 DEF Ordered
<1>15. Ends(rank)'
  <2>1. end' \in alloc' /\ \A m \in alloc' : rank[m] <= rank[end']
    BY <1>2, <1>3, <1>7, <1>8
  <2>2. start' \in alloc' /\ \A m \in alloc' : rank[start'] <= rank[m]
    <3>1. CASE p = start
      BY <3>1, <1>2, <1>3, <1>7, <1>8, <1>10, <1>13
    <3>2. CASE p # start
      BY <3>2, <1>2, <1>7, <1>10
    <3> QED
      BY <3>1, <3>2
  <2>3. start' # NULL /\ end' # NULL
    BY <2>1, <2>2, <1>2, <1>3
  <2> QED
    BY <2>1, <2>2, <2>3 DEF Ends
<1>16. Back'
  <2> SUFFICES ASSUME NEW n \in alloc'
               PROVE  /\ IF n = start' THEN heap'[n].prev = NULL
                         ELSE heap'[n].prev \in alloc' /\ heap'[heap'[n].prev].next = n
                      /\ heap'[n].next # NULL => heap'[heap'[n].next].prev = n
    BY DEF Back
  <2>1. n \in alloc /\ n # p /\ n # NULL
    BY <1>2, <1>3
  <2>2. CASE n = q
    <3>1. heap'[n].prev = r
      BY <2>2, <1>9
    <3>2. ASSUME p = start
          PROVE  n = start' /\ heap'[n].prev = NULL
      BY <3>1, <3>2, <2>2, <1>2, <1>10
    <3>3. ASSUME p # start
          PROVE  /\ n # start'
                 /\ heap'[n].prev \in alloc'
                 /\ heap'[heap'[n].prev].next = n
      <4>1. start' = start /\ start # q
        BY <3>3, <1>2, <1>3, <1>7, <1>8, <1>10
      <4>2. heap'[r].next = q /\ r \in alloc'
        BY <3>3, <1>9, <1>11
      <4> QED
        BY <4>1, <4>2, <3>1, <2>2
    <3>4. IF n = start' THEN heap'[n].prev = NULL
          ELSE heap'[n].prev \in alloc' /\ heap'[heap'[n].prev].next = n
      BY <3>2, <3>3
    <3>5. n # r
      BY <2>2, <1>3, <1>8, <1>10, <1>11
    <3>6. heap'[n].next = heap[n].next /\ heap[n].next # p
      BY <3>5, <1>9, <1>12
    <3>7. heap[n].next # NULL =>
            heap[n].next \in alloc' /\ heap[n].next # q /\ heap[heap[n].next].prev = n
      BY <3>6, <2>1, <2>2, <1>2, <1>3, <1>5
    <3> QED
      BY <3>4, <3>6, <3>7, <1>9
  <2>3. CASE n # q
    <3>1. heap'[n].prev = heap[n].prev
      BY <2>3, <1>9
    <3>2. n = start' <=> n = start
      BY <2>1, <2>3, <1>2, <1>10
    <3>3. ASSUME n # start
          PROVE  heap[n].prev \in alloc' /\ heap'[heap[n].prev].next = n
      <4>1. heap[n].prev \in alloc /\ heap[heap[n].prev].next = n
        BY <3>3, <2>1, <1>6
      <4>2. heap[n].prev # p
        BY <4>1, <2>3 DEF q
      <4>3. heap[n].prev # r
        BY <4>1, <4>2, <2>1, <1>2, <1>10, <1>11, <1>3
      <4> QED
        BY <4>1, <4>2, <4>3, <1>2, <1>9
    <3>4. IF n = start' THEN heap'[n].prev = NULL
          ELSE heap'[n].prev \in alloc' /\ heap'[heap'[n].prev].next = n
      BY <3>1, <3>2, <3>3, <2>1, <1>6
    <3>5. heap'[n].next # NULL => heap'[heap'[n].next].prev = n
      <4>1. CASE n = r
        BY <4>1, <1>2, <1>8, <1>9
      <4>2. CASE n # r
        <5>1. heap'[n].next = heap[n].next /\ heap[n].next # p
          BY <4>2, <1>9, <1>12
        <5>2. heap[n].next # NULL =>
                heap[n].next \in alloc' /\ heap[n].next # q /\ heap[heap[n].next].prev = n
          BY <5>1, <2>1, <1>2, <1>5, <1>8
        <5> QED
          BY <5>1, <5>2, <1>9
      <4> QED
        BY <4>1, <4>2
    <3> QED
      BY <3>4, <3>5
  <2> QED
    BY <2>2, <2>3
<1>17. Walker(rank)'
  BY <1>2, <1>3, <1>8 DEF Walker
<1>18. Passed(rank)' = Passed(rank)
  BY <1>2, <1>3, <1>8, <1>13 DEF Passed
<1>19. Updating(rank)' /\ Calling(rank)'
  <2>1. \A n \in Passed(rank) : n \in alloc'
    BY <1>18 DEF Passed
  <2> QED
    BY <2>1, <1>1, <1>2, <1>9, <1>18 DEF Shape, Updating, Calling
<1>20. Contents' /\ UniqueAddr' /\ LastAccepted'
  BY <1>2, <1>9 DEF IInv, Contents, UniqueAddr, LastAccepted
<1>21. EmptyUnused'
  BY <1>2, <1>8 DEF EmptyUnused
<1> QED
  BY <1>14, <1>15, <1>16, <1>17, <1>19, <1>20, <1>21 DEF IInv, Shape

\* The cells in front of the end of the walk, and the one at its end, belong
\* to others: the address that is appended is new.
LEMMA FreshAddr ==
    ASSUME NEW rank \in [Node -> Int], IInv, Shape(rank), NotFound
    PROVE  /\ \A m \in alloc : heap[m].addr # user.addr
           /\ \A m \in alloc \ {end} : heap[m].last_msg + Timeout >= user.last_msg
           /\ alloc # {} => p = end /\ p \in alloc
<1>1. CASE p = NULL
  BY <1>1 DEF NotFound, PastLoop, Shape, Walker
<1>2. CASE p # NULL
  <2>1. pc = "update" /\ p \in alloc /\ heap[p].next = NULL /\ heap[p].addr # user.addr
    BY <1>2 DEF NotFound, PastLoop, InLoop, Matches, Shape, Walker
  <2>2. \A m \in alloc : rank[m] \in Int
    BY DEF IInv, TypeOK
  <2>3. \A m \in alloc : m # p => rank[m] < rank[p]
    BY <2>1, <2>2 DEF Shape, Ordered
  <2>4. p = end
    BY <2>1, <2>2, <2>3 DEF Shape, Ends
  <2>5. \A m \in alloc : m # p =>
          heap[m].addr # user.addr /\ heap[m].last_msg + Timeout >= user.last_msg
    BY <2>1, <2>3 DEF Shape, Updating, Passed
  <2> QED
    BY <2>1, <2>4, <2>5
<1> QED
  BY <1>1, <1>2

\* A new cell ranks above all others.
LEMMA JoinKeeps ==
    ASSUME IInv, TypeOK', NEW n \in Node, Join(n)
    PROVE  IInv'
<1>1. PICK low \in [Node -> Int] : Shape(low)
  BY DEF IInv
<1> DEFINE top == IF end = NULL THEN 0 ELSE low[end] + 1
<1>2. /\ NotFound /\ n \notin alloc /\ alloc' = alloc \cup {n}
      /\ heap' = Appended(n) /\ end' = n
      /\ start' = (IF start = NULL THEN n ELSE start)
      /\ pc' = "idle" /\ p' = NULL /\ UNCHANGED <<now, called>> /\ Accepted
  BY DEF Join, Return
<1>3. /\ pc = "update" /\ user.addr \in Addr /\ user.recv_fd \in Fd
      /\ user.last_msg <= now /\ user.last_msg_xs = Slot(user.last_msg)
      /\ user.next = NULL
  BY <1>1, <1>2 DEF NotFound, PastLoop, Shape, Updating
<1>4. \A m \in alloc : heap[m].addr # user.addr
  BY <1>1, <1>2, FreshAddr
<1>5. alloc \subseteq Node /\ heap \in [Node -> Cell] /\ user \in Cell /\ NULL \notin Node
  BY UserTableAssumption DEF IInv, TypeOK
<1>6. IF start = NULL THEN alloc = {} /\ end = NULL
      ELSE /\ start \in alloc /\ \A m \in alloc : low[start] <= low[m]
           /\ end \in alloc /\ \A m \in alloc : low[m] <= low[end]
  BY <1>1, <1>3 DEF Shape, Ends
<1>7. top \in Int /\ \A m \in alloc : low[m] \in Int /\ low[m] < top
  BY <1>5, <1>6
<1> HIDE DEF top
<1>8. PICK rank \in [Node -> Int] : rank[n] = top /\ \A m \in alloc : rank[m] = low[m]
  <2>1. [low EXCEPT ![n] = top] \in [Node -> Int]
    BY <1>7
  <2> QED
    BY <2>1, <1>2, <1>5
<1>9. /\ heap'[n].next = NULL /\ heap'[n].prev = (IF start = NULL THEN NULL ELSE end)
      /\ heap'[n].addr = user.addr /\ heap'[n].recv_fd = user.recv_fd
      /\ heap'[n].last_msg = user.last_msg /\ heap'[n].last_msg_xs = user.last_msg_xs
  <2>1. heap'[n] = [user EXCEPT !.prev = IF start = NULL THEN NULL ELSE end]
    BY <1>2 DEF Appended
  <2> QED
    BY <2>1, <1>3, <1>5 DEF Cell
<1>10. \A m \in alloc :
         /\ heap'[m].next = (IF m = end THEN n ELSE heap[m].next)
         /\ heap'[m].prev = heap[m].prev
         /\ heap'[m].addr = heap[m].addr
         /\ heap'[m].recv_fd = heap[m].recv_fd
         /\ heap'[m].last_msg = heap[m].last_msg
         /\ heap'[m].last_msg_xs = heap[m].last_msg_xs
  <2> SUFFICES ASSUME NEW m \in alloc
               PROVE  /\ heap'[m].next = (IF m = end THEN n ELSE heap[m].next)
                      /\ heap'[m].prev = heap[m].prev
                      /\ heap'[m].addr = heap[m].addr
                      /\ heap'[m].recv_fd = heap[m].recv_fd
                      /\ heap'[m].last_msg = heap[m].last_msg
                      /\ heap'[m].last_msg_xs = heap[m].last_msg_xs
    OBVIOUS
  <2>1. m \in Node /\ m # n /\ start # NULL /\ heap[m] \in Cell
    BY <1>2, <1>5, <1>6
  <2>2. heap'[m] = IF m = end THEN [heap[m] EXCEPT !.next = n] ELSE heap[m]
    BY <1>2, <2>1 DEF Appended
  <2> QED
    BY <2>1, <2>2 DEF Cell
<1>11. \A m \in alloc : heap[m].next = NULL <=> m = end
  BY <1>1, <1>5, <1>6, <1>7 DEF Shape, Ordered
<1>12. Ordered(rank)'
  <2>1. \A k, m \in alloc' : rank[k] = rank[m] => k = m
    BY <1>1, <1>2, <1>7, <1>8 DEF Shape, Ordered
  <2>2. \A m \in alloc' : rank[m] <= rank[n]
    BY <1>2, <1>7, <1>8
  <2>3. ASSUME NEW k \in alloc
        PROVE  /\ heap'[k].next \in alloc'
               /\ heap'[k].next # NULL
               /\ rank[k] < rank[heap'[k].next]
               /\ \A m \in alloc' : rank[m] <= rank[k] \/ rank[heap'[k].next] <= rank[m]
    <3>1. CASE k = end
      BY <3>1, <1>2, <1>5, <1>6, <1>7, <1>8, <1>10
    <3>2. CASE k # end
      <4>1. heap'[k].next = heap[k].next /\ heap[k].next # NULL
        BY <3>2, <1>10, <1>11
      <4>2. /\ heap[k].next \in alloc /\ low[k] < low[heap[k].next]
            /\ \A m \in alloc : low[m] <= low[k] \/ low[heap[k].next] <= low[m]
        BY <4>1, <1>1 DEF Shape, Ordered
      <4>3. low[heap[k].next] <= top
        BY <4>2, <1>7
      <4> QED
        BY <4>1, <4>2, <4>3, <1>2, <1>8
    <3> QED
      BY <3>1, <3>2
  <2> QED
    BY <2>1, <2>2, <2>3, <1>2, <1>9 DEF Ordered
<1>13. Ends(rank)'
  <2>1. end' # NULL /\ end' \in alloc' /\ \A m \in alloc' : rank[m] <= rank[end']
    BY <1>2, <1>5, <1>7, <1>8
  <2>2. start' # NULL /\ start' \in alloc' /\ \A m \in alloc' : rank[start'] <= rank[m]
    BY <1>2, <1>5, <1>6, <1>7, <1>8
  <2> QED
    BY <2>1, <2>2 DEF Ends
<1>14. Back'
  <2>1. \A k \in alloc :
          /\ IF k = start THEN heap[k].prev = NULL
             ELSE heap[k].prev \in alloc /\ heap[heap[k].prev].next = k
          /\ heap[k].next # NULL =>
               heap[k].next \in alloc /\ heap[heap[k].next].prev = k
    BY <1>1, <1>3 DEF IInv, Back, Shape, Ordered
  <2>2. IF n = start' THEN heap'[n].prev = NULL
        ELSE heap'[n].prev \in alloc' /\ heap'[heap'[n].prev].next = n
    BY <1>2, <1>6, <1>9, <1>10
  <2>3. ASSUME NEW k \in alloc
        PROVE  /\ IF k = start' THEN heap'[k].prev = NULL
                  ELSE heap'[k].prev \in alloc' /\ heap'[heap'[k].prev].next = k
               /\ heap'[k].next # NULL => heap'[heap'[k].next].prev = k
    <3>1. k = start' <=> k = start
      BY <1>2, <1>6
    <3>2. k # start => heap[k].prev # end
      BY <2>1, <1>5, <1>11
    <3>3. IF k = start' THEN heap'[k].prev = NULL
          ELSE heap'[k].prev \in alloc' /\ heap'[heap'[k].prev].next = k
      BY <2>1, <3>1, <3>2, <1>2, <1>10
    <3>4. heap'[k].next # NULL => heap'[heap'[k].next].prev = k
      <4>1. CASE k = end
        BY <4>1, <1>6, <1>9, <1>10
      <4>2. CASE k # end
        BY <4>2, <2>1, <1>10
      <4> QED
        BY <4>1, <4>2
    <3> QED
      BY <3>3, <3>4
  <2> QED
    BY <2>2, <2>3, <1>2, <1>9 DEF Back
<1>15. Walker(rank)' /\ Updating(rank)' /\ Calling(rank)'
  BY <1>2 DEF Walker, Updating, Calling
<1>16. /\ heard'[user.addr] = [at |-> user.last_msg, fd |-> user.recv_fd]
       /\ \A a \in Addr : a # user.addr => heard'[a] = heard[a]
       /\ user.last_msg >= 0
  BY <1>2, <1>3 DEF Accepted, IInv, TypeOK, Cell
<1>17. Contents'
  BY <1>2, <1>3, <1>4, <1>9, <1>10, <1>16 DEF IInv, Contents
<1>18. UniqueAddr'
  BY <1>2, <1>4, <1>9, <1>10 DEF IInv, UniqueAddr
<1>19. LastAccepted'
  BY <1>2, <1>3, <1>4, <1>9, <1>10, <1>16 DEF IInv, Contents, LastAccepted
<1>20. EmptyUnused'
  BY <1>2 DEF EmptyUnused
<1> QED
  BY <1>8, <1>12, <1>13, <1>14, <1>15, <1>17, <1>18, <1>19, <1>20 DEF IInv, Shape

LEMMA FreeUserKeeps ==
    ASSUME IInv, TypeOK', FreeUser
    PROVE  IInv'
<1>1. PICK rank \in [Node -> Int] : Shape(rank)
  BY DEF IInv
<1>2. /\ pc = "free" /\ p # NULL /\ heap[p].next # NULL
      /\ alloc' = alloc \ {p} /\ heap' = [heap EXCEPT ![p] = Zero]
      /\ p' = heap[p].next
      /\ UNCHANGED <<start, end, now, pc, user, ret, called, heard>>
  BY DEF FreeUser
<1>3. /\ p \in alloc /\ alloc \subseteq Node /\ heap \in [Node -> Cell]
      /\ \A n \in alloc : rank[n] \in Int /\ rank[p] <= rank[n]
  BY <1>1, <1>2, UserTableAssumption DEF Shape, Walker, IInv, TypeOK
<1>4. /\ heap[p].next \in alloc /\ rank[p] < rank[heap[p].next]
      /\ \A m \in alloc : rank[m] <= rank[p] \/ rank[heap[p].next] <= rank[m]
  BY <1>1, <1>2, <1>3 DEF Shape, Ordered
<1>5. \A n \in alloc' : n \in alloc /\ n # p /\ heap'[n] = heap[n]
  BY <1>2, <1>3
<1>6. \A n \in alloc' : heap[n].next # p
  BY <1>1, <1>2, <1>3, <1>5 DEF Shape, Ordered
<1>7. Ordered(rank)'
  BY <1>1, <1>2, <1>5, <1>6 DEF Shape, Ordered
<1>8. Ends(rank)' /\ Back' /\ Updating(rank)' /\ Calling(rank)'
  <2>1. /\ end # NULL /\ end \in alloc /\ rank[heap[p].next] <= rank[end]
        /\ \A m \in alloc : rank[m] <= rank[end]
    BY <1>1, <1>3, <1>4 DEF Shape, Ends
  <2>2. end \in alloc'
    BY <1>2, <1>3, <1>4, <2>1
  <2> QED
    BY <1>2, <1>5, <2>1, <2>2 DEF Ends, Back, Updating, Calling
<1>9. Walker(rank)'
  <2>1. \A m \in alloc' : rank[heap[p].next] <= rank[m]
    BY <1>1, <1>3, <1>4, <1>5 DEF Shape, Ordered
  <2> QED
    BY <2>1, <1>2, <1>3, <1>4 DEF Walker
<1>10. Contents' /\ UniqueAddr' /\ LastAccepted'
  BY <1>2, <1>5 DEF IInv, Contents, UniqueAddr, LastAccepted
<1>11. EmptyUnused'
  BY <1>2, <1>3, <1>4 DEF EmptyUnused
<1> QED
  BY <1>7, <1>8, <1>9, <1>10, <1>11 DEF IInv, Shape

LEMMA FreeLastKeeps ==
    ASSUME IInv, TypeOK', FreeLast
    PROVE  IInv'
<1>1. PICK rank \in [Node -> Int] : Shape(rank)
  BY DEF IInv
<1>2. /\ pc = "free" /\ p # NULL /\ heap[p].next = NULL /\ pc' = "freed"
      /\ alloc' = alloc \ {p} /\ start' = NULL /\ end' = NULL /\ p' = NULL
      /\ UNCHANGED <<now, user, ret, called, heard>>
  BY DEF FreeLast
<1>3. /\ p \in alloc /\ \A n \in alloc : rank[n] \in Int /\ rank[p] <= rank[n]
  BY <1>1, <1>2 DEF Shape, Walker, IInv, TypeOK
<1>4. alloc' = {}
  BY <1>1, <1>2, <1>3 DEF Shape, Ordered
<1>5. Ordered(rank)' /\ Back' /\ Contents' /\ UniqueAddr' /\ LastAccepted'
  BY <1>4 DEF Ordered, Back, Contents, UniqueAddr, LastAccepted
<1>6. Ends(rank)' /\ Walker(rank)' /\ Updating(rank)' /\ Calling(rank)'
  BY <1>2, <1>4 DEF Ends, Walker, Updating, Calling
<1>7. EmptyUnused'
  BY <1>2 DEF EmptyUnused
<1> QED
  BY <1>5, <1>6, <1>7 DEF IInv, Shape

-----------------------------------------------------------------------------
(* The invariant holds *)

LEMMA InitIInv ==
    ASSUME Init
    PROVE  IInv
<1>1. TypeOK
  BY ZeroType, UserTableAssumption DEF Init, TypeOK, Ptr, Never
<1>2. alloc = {} /\ start = NULL /\ end = NULL /\ p = NULL /\ pc = "idle"
  BY DEF Init
<1>3. Back /\ Contents /\ UniqueAddr /\ LastAccepted
  BY <1>2 DEF Back, Contents, UniqueAddr, LastAccepted
<1>4. EmptyUnused
  BY DEF Init, EmptyUnused
<1>5. \A rank \in [Node -> Int] : Shape(rank)
  BY <1>2 DEF Shape, Ordered, Ends, Walker, Updating, Calling
<1>6. [n \in Node |-> 0] \in [Node -> Int]
  OBVIOUS
<1> QED
  BY <1>1, <1>3, <1>4, <1>5, <1>6 DEF IInv

LEMMA StepIInv ==
    ASSUME IInv, [Next]_vars
    PROVE  IInv'
<1>1. TypeOK'
  BY TypeStep DEF IInv
<1>2. CASE Tick
  BY <1>1, <1>2, TickKeeps
<1>3. ASSUME NEW a \in Addr, NEW f \in Fd, UpdateCall(a, f) PROVE IInv'
  BY <1>1, <1>3, UpdateCallKeeps
<1>4. CASE EveryCall
  BY <1>1, <1>4, EveryCallKeeps
<1>5. CASE FreeCall
  BY <1>1, <1>5, FreeCallKeeps
<1>6. CASE Spam
  BY <1>1, <1>6, ReturnKeeps DEF Spam
<1>7. CASE RefreshInLoop
  BY <1>1, <1>7, RefreshInLoopKeeps
<1>8. CASE RefreshLast
  BY <1>1, <1>8, RefreshLastKeeps
<1>9. CASE Kick
  BY <1>1, <1>9, KickKeeps
<1>10. CASE Skip
  BY <1>1, <1>10, SkipKeeps
<1>11. ASSUME NEW n \in Node, Join(n) PROVE IInv'
  BY <1>1, <1>11, JoinKeeps
<1>12. CASE JoinFails
  BY <1>1, <1>12, ReturnKeeps DEF JoinFails, NotFound, PastLoop
<1>13. CASE EveryUser
  BY <1>1, <1>13, EveryUserKeeps
<1>14. CASE EveryReturn
  BY <1>1, <1>14, EveryReturnKeeps
<1>15. CASE FreeUser
  BY <1>1, <1>15, FreeUserKeeps
<1>16. CASE FreeLast
  BY <1>1, <1>16, FreeLastKeeps
<1>17. CASE FreeNull
  BY <1>1, <1>17, FreeNullKeeps
<1>18. CASE UNCHANGED vars
  BY <1>1, <1>18
  DEF vars, tableVars, IInv, Shape, Ordered, Ends, Back, Walker, Updating,
      Passed, Calling, Contents, UniqueAddr, LastAccepted, EmptyUnused
<1> QED
  BY <1>2, <1>3, <1>4, <1>5, <1>6, <1>7, <1>8, <1>9, <1>10, <1>11, <1>12,
     <1>13, <1>14, <1>15, <1>16, <1>17, <1>18
  DEF Next, TableStep, Update

LEMMA Inductive == Spec => []IInv
<1>1. Init => IInv
  BY InitIInv
<1>2. IInv /\ [Next]_vars => IInv'
  BY StepIInv
<1> QED
  BY <1>1, <1>2, PTL DEF Spec

-----------------------------------------------------------------------------
(* Safety *)

LEMMA IInvSafe ==
    ASSUME IInv
    PROVE  NoDangling /\ UniqueAddr /\ LastAccepted /\ CrashOnlyUnused
<1>1. NoDangling
  BY DEF IInv, Shape, NoDangling, Walker, Ordered, Ends, Back
<1>2. UniqueAddr /\ LastAccepted
  BY DEF IInv
<1>3. ASSUME pc = "crashed" PROVE \A a \in Addr : heard[a] = Never
  <2>1. alloc = {}
    BY <1>3 DEF IInv, Shape, Walker
  <2> QED
    BY <1>3, <2>1 DEF IInv, EmptyUnused
<1> QED
  BY <1>1, <1>2, <1>3 DEF CrashOnlyUnused

\* No walk, end or link of the table leads to a freed cell.
THEOREM Safe == Spec => []NoDangling
<1>1. IInv => NoDangling
  BY IInvSafe
<1> QED
  BY <1>1, Inductive, PTL

\* No client is in the table twice.
THEOREM Unique == Spec => []UniqueAddr
<1>1. IInv => UniqueAddr
  BY IInvSafe
<1> QED
  BY <1>1, Inductive, PTL

\* Each member has the socket and the slot of its last accepted message.
THEOREM Current == Spec => []LastAccepted
<1>1. IInv => LastAccepted
  BY IInvSafe
<1> QED
  BY <1>1, Inductive, PTL

\* user_table_free crashes only if no message was ever accepted.
THEOREM CrashUnused == Spec => []CrashOnlyUnused
<1>1. IInv => CrashOnlyUnused
  BY IInvSafe
<1> QED
  BY <1>1, Inductive, PTL

LEMMA LeastNumber ==
    ASSUME NEW T \in SUBSET Nat, T # {}
    PROVE  \E k \in T : \A l \in T : k <= l
<1> DEFINE Less == {ss \in Nat \X Nat : ss[1] < ss[2]}
<1>1. IsWellFoundedOn(Less, Nat)
  BY NatLessThanWellFounded, Zenon DEF OpToRel
<1> HIDE DEF Less
<1>2. PICK k \in T : \A l \in T : ~(<<l, k>> \in Less)
  BY <1>1, WFMin
<1>3. ASSUME NEW l \in T PROVE k <= l
  <2>1. l \in Nat /\ k \in Nat
    OBVIOUS
  <2>2. <<l, k>> \notin Less
    BY <1>2
  <2>3. ~(l < k)
    <3> SUFFICES ASSUME l < k PROVE <<l, k>> \in Less
      BY <2>2
    <3> DEFINE ss == <<l, k>>
    <3>1. ss \in Nat \X Nat /\ ss[1] = l /\ ss[2] = k
      BY <2>1
    <3> HIDE DEF ss
    <3> QED
      BY <3>1 DEF Less, ss
  <2> QED
    BY <2>1, <2>3
<1> QED
  BY <1>3

\* A set of cells that holds start and follows next holds every cell: of those
\* outside, the lowest would have its predecessor inside.
LEMMA Reach ==
    ASSUME IInv, pc # "free", NEW S \in SUBSET alloc, Closed(S)
    PROVE  S = alloc
<1>1. PICK rank \in [Node -> Int] : Shape(rank)
  BY DEF IInv
<1> SUFFICES ASSUME S # alloc PROVE FALSE
  OBVIOUS
<1>2. start \in alloc /\ \A m \in alloc : rank[start] <= rank[m] /\ rank[m] \in Int
  BY <1>1 DEF Shape, Ends, IInv, TypeOK
<1> DEFINE Above == {rank[m] - rank[start] : m \in alloc \ S}
<1>3. Above \in SUBSET Nat /\ Above # {}
  <2>1. \A m \in alloc \ S : rank[m] - rank[start] \in Nat
    BY <1>2
  <2>2. \E m \in alloc : m \notin S
    OBVIOUS
  <2> QED
    BY <2>1, <2>2
<1>4. PICK k \in Above : \A l \in Above : k <= l
  BY <1>3, LeastNumber
<1>5. PICK m \in alloc \ S : k = rank[m] - rank[start]
  OBVIOUS
<1>6. m # start
  BY <1>2, <1>5, UserTableAssumption DEF Closed, IInv, TypeOK
<1> DEFINE before == heap[m].prev
<1>7. before \in alloc /\ heap[before].next = m
  BY <1>5, <1>6 DEF IInv, Back
<1>8. m # NULL
  BY <1>5, UserTableAssumption DEF IInv, TypeOK
<1>9. rank[before] < rank[m]
  BY <1>1, <1>7, <1>8 DEF Shape, Ordered
<1>10. before \notin S
  BY <1>5, <1>7, <1>8 DEF Closed
<1>11. rank[before] - rank[start] \in Above
  BY <1>7, <1>10
<1>12. k <= rank[before] - rank[start]
  BY <1>4, <1>11
<1> QED
  BY <1>2, <1>5, <1>7, <1>9, <1>12

LEMMA IInvIntact ==
    ASSUME IInv
    PROVE  ListIntact
<1> SUFFICES ASSUME pc # "free"
             PROVE  /\ \A S \in SUBSET alloc : Closed(S) => S = alloc
                    /\ \A n \in alloc :
                         /\ IF n = start THEN heap[n].prev = NULL
                            ELSE heap[n].prev \in alloc /\ heap[heap[n].prev].next = n
                         /\ heap[n].next = NULL <=> n = end
  BY DEF ListIntact
<1>1. \A S \in SUBSET alloc : Closed(S) => S = alloc
  BY Reach
<1>2. PICK rank \in [Node -> Int] : Shape(rank)
  BY DEF IInv
<1>3. \A n \in alloc : heap[n].next = NULL <=> n = end
  <2>1. \A n \in alloc : rank[n] \in Int
    BY DEF IInv, TypeOK
  <2>2. alloc # {} => end \in alloc /\ \A m \in alloc : rank[m] <= rank[end]
    BY <1>2 DEF Shape, Ends
  <2> QED
    BY <1>2, <2>1, <2>2 DEF Shape, Ordered
<1> QED
  BY <1>1, <1>3 DEF IInv, Back

\* The list holds every allocated cell, in both directions: no update leaks or
\* loses one.
THEOREM Intact == Spec => []ListIntact
<1>1. IInv => ListIntact
  BY IInvIntact
<1> QED
  BY <1>1, Inductive, PTL

\* The cell a walk has reached is followed by another one, so a time-out leaves
\* the table with that.
LEMMA StepKeepsOne ==
    ASSUME IInv, [Next]_vars, pc # "free", alloc # {}
    PROVE  alloc' # {}
<1>1. CASE Kick
  <2>1. PICK rank \in [Node -> Int] : Shape(rank)
    BY DEF IInv
  <2>2. p \in alloc /\ heap[p].next \in alloc /\ rank[p] < rank[heap[p].next]
    BY <1>1, <2>1 DEF Kick, InLoop, Shape, Walker, Ordered
  <2>3. heap[p].next # p
    BY <2>1, <2>2 DEF IInv, TypeOK
  <2> QED
    BY <1>1, <2>2, <2>3 DEF Kick
<1>2. CASE \E n \in Node : Join(n)
  BY <1>2 DEF Join
<1>3. CASE UNCHANGED vars
  BY <1>3 DEF vars, tableVars
<1>4. CASE Next /\ ~Kick /\ ~\E n \in Node : Join(n)
  BY <1>4
  DEF Next, TableStep, Update, Tick, UpdateCall, EveryCall, FreeCall, Spam,
      RefreshInLoop, RefreshLast, Skip, JoinFails, EveryUser, EveryReturn,
      FreeUser, FreeLast, FreeNull, tableVars
<1> QED
  BY <1>1, <1>2, <1>3, <1>4

\* An update never empties the table, whoever it times out.
THEOREM LastOneStays == Spec => NeverEmptied
<1>1. IInv /\ [Next]_vars => [pc # "free" /\ alloc # {} => alloc' # {}]_vars
  BY StepKeepsOne
<1> QED
  BY <1>1, Inductive, PTL DEF Spec, NeverEmptied

\* The three ways in which an update returns 0.
LEMMA AcceptWays ==
    ASSUME [Next]_vars, AcceptStep
    PROVE  RefreshInLoop \/ RefreshLast \/ \E n \in Node : Join(n)
BY DEF AcceptStep, Next, TableStep, Update, Tick, UpdateCall, EveryCall, FreeCall,
       Spam, Kick, Skip, JoinFails, EveryUser, EveryReturn, FreeUser, FreeLast,
       FreeNull, Return, vars

\* What an update compared with was the slot of the member's last message.
LEMMA StepOncePerSlot ==
    ASSUME IInv, [Next]_vars, AcceptStep,
           NEW n \in alloc, heap[n].addr = user.addr
    PROVE  Slot(heard[user.addr].at) # Slot(user.last_msg)
<1>1. PICK rank \in [Node -> Int] : Shape(rank)
  BY DEF IInv
<1>2. user.last_msg_xs = Slot(user.last_msg)
  BY <1>1 DEF AcceptStep, Shape, Updating
<1>3. ASSUME NEW m \in Node, Join(m) PROVE FALSE
  BY <1>1, <1>3, FreshAddr DEF Join
<1>4. CASE RefreshInLoop \/ RefreshLast
  <2>1. p \in alloc /\ heap[p].addr = user.addr /\ ~IsSpam(heap[p])
    BY <1>1, <1>4 DEF RefreshInLoop, RefreshLast, InLoop, PastLoop, Matches, Shape, Walker
  <2>2. heap[p].last_msg_xs = Slot(heard[user.addr].at)
    BY <2>1 DEF IInv, LastAccepted
  <2> QED
    BY <1>2, <2>1, <2>2 DEF IsSpam
<1> QED
  BY <1>3, <1>4, AcceptWays

\* A member has at most one accepted message per two-second slot.
THEOREM SpamStopped == Spec => OncePerSlot
<1>1. IInv /\ [Next]_vars => [NewSlot]_vars
  BY StepOncePerSlot DEF NewSlot
<1> QED
  BY <1>1, Inductive, PTL DEF Spec, OncePerSlot

\* A user joins at the end of a walk, when only the last cell is unjudged.
LEMMA StepRemovesAll ==
    ASSUME IInv, [Next]_vars, AcceptStep, alloc # alloc'
    PROVE  \A n \in alloc \ {end} : heap[n].last_msg + Timeout >= user.last_msg
<1>1. PICK rank \in [Node -> Int] : Shape(rank)
  BY DEF IInv
<1>2. PICK n \in Node : Join(n)
  BY AcceptWays DEF RefreshInLoop, RefreshLast
<1> QED
  BY <1>1, <1>2, FreshAddr DEF Join

\* A walk that ends with a new user has removed every member that was timed
\* out when the call began, but for the one at the end of the list.
THEOREM WalkThorough == Spec => WalkRemovesAll
<1>1. IInv /\ [Next]_vars => [JoinedLast]_vars
  BY StepRemovesAll DEF JoinedLast
<1> QED
  BY <1>1, Inductive, PTL DEF Spec, WalkRemovesAll

\* Those called are the members of the cells passed; the next one is not among
\* them.
LEMMA StepReachesAll ==
    ASSUME IInv, [Next]_vars, pc = "every"
    PROVE  /\ pc' = "idle" => called = {heap[n].addr : n \in alloc}
           /\ p' # p => called' # called
<1>1. PICK rank \in [Node -> Int] : Shape(rank)
  BY DEF IInv
<1>2. called = {heap[n].addr : n \in Passed(rank)}
  BY <1>1 DEF Shape, Calling
<1>3. Tick \/ EveryUser \/ EveryReturn \/ UNCHANGED vars
  BY DEF Next, TableStep, Update, UpdateCall, EveryCall, FreeCall, Spam,
         RefreshInLoop, RefreshLast, Kick, Skip, Join, JoinFails, NotFound,
         InLoop, PastLoop, FreeUser, FreeLast, FreeNull
<1>4. CASE Tick \/ UNCHANGED vars
  BY <1>4 DEF Tick, vars, tableVars
<1>5. CASE EveryReturn
  BY <1>2, <1>5 DEF EveryReturn, Passed
<1>6. CASE EveryUser
  <2>1. p \in alloc /\ p \notin Passed(rank) /\ Passed(rank) \subseteq alloc
    BY <1>1, <1>6 DEF EveryUser, Shape, Walker, Passed, IInv, TypeOK
  <2>2. \A n \in Passed(rank) : heap[n].addr # heap[p].addr
    BY <2>1 DEF IInv, UniqueAddr
  <2>3. heap[p].addr \notin called
    BY <1>2, <2>2
  <2> QED
    BY <1>6, <2>3 DEF EveryUser
<1> QED
  BY <1>3, <1>4, <1>5, <1>6

\* A broadcast reaches every member, and none twice.
THEOREM Broadcast == Spec => EveryReachesAll
<1>1. IInv /\ [Next]_vars => [EachOnce]_vars
  BY StepReachesAll DEF EachOnce
<1> QED
  BY <1>1, Inductive, PTL DEF Spec, EveryReachesAll
=============================================================================
