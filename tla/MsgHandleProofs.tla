-------------------------- MODULE MsgHandleProofs ---------------------------
(***************************************************************************)
(* Proofs about the addresses of udpchat's clients (SockAddr) and about    *)
(* the message that msg_handle passes on, for any clients and any lengths. *)
(*                                                                         *)
(* sockaddr_cmp compares more bytes than an address has.  It is right as   *)
(* long as both addresses were received into zeroed memory; that every     *)
(* cell and the local of every call hold such bytes is one part of the     *)
(* invariant.  Another is the table's own (UserTableProofs), of which      *)
(* msg_handle only takes steps: from it follows who is called back.  The   *)
(* last is the datagram in hand.  What msg_formatter makes of it, whatever *)
(* its buffer last held, is shown character by character.                  *)
(***************************************************************************)
EXTENDS MsgHandle, SequenceTheorems, TLAPS

TP == INSTANCE UserTableProofs

-----------------------------------------------------------------------------
(* SockAddr *)

LEMMA BytesType ==
    ASSUME NEW a \in Client
    PROVE  Bytes(a) \in Storage /\ Known(Bytes(a))
<1> USE DEF Known
<1>1. CASE a \in Client4
  <2>1. /\ a.family = AF_INET /\ a.port \in Nat
        /\ \A k \in 0..3 : a.ip[k] \in Byte
    BY <1>1 DEF Client4
  <2>2. Address4(Zeroed.mem, a) \in [Offset -> Byte]
    BY <2>1 DEF Address4, Zeroed, Byte, Offset
  <2>3. PICK mem \in [Offset -> Byte] :
          Bytes(a) = [family |-> AF_INET, port |-> a.port, mem |-> mem]
    BY <2>1, <2>2 DEF Bytes, RecvFrom
  <2> QED
    BY <2>1, <2>3 DEF Storage
<1>2. CASE a \in Client6
  <2>1. /\ a.family = AF_INET6 /\ a.family # AF_INET /\ a.port \in Nat
        /\ \A k \in 0..15 : a.ip[k] \in Byte
        /\ \A k \in 0..3 : a.scope[k] \in Byte
    BY <1>2 DEF Client6, AF_INET, AF_INET6
  <2>2. Address6(Zeroed.mem, a) \in [Offset -> Byte]
    <3>1. ASSUME NEW k \in Offset PROVE Address6(Zeroed.mem, a)[k] \in Byte
      <4>1. k \in Int /\ 0 \in Byte /\ Zeroed.mem[k] \in Byte
        BY DEF Zeroed, Byte, Offset
      <4>2. k >= 8 /\ k < 24 => k - 8 \in 0..15
        BY <4>1
      <4>3. k >= 24 /\ k < 28 => k - 24 \in 0..3
        BY <4>1
      <4>4. Address6(Zeroed.mem, a)[k]
              = IF k < 8 THEN 0
                ELSE IF k < 24 THEN a.ip[k - 8]
                ELSE IF k < 28 THEN a.scope[k - 24] ELSE Zeroed.mem[k]
        BY DEF Address6
      <4> QED
        BY <2>1, <4>1, <4>2, <4>3, <4>4
    <3> QED
      BY <3>1 DEF Address6
  <2>3. PICK mem \in [Offset -> Byte] :
          Bytes(a) = [family |-> AF_INET6, port |-> a.port, mem |-> mem]
    BY <2>1, <2>2 DEF Bytes, RecvFrom
  <2> QED
    BY <2>1, <2>3 DEF Storage
<1> QED
  BY <1>1, <1>2 DEF Client

\* memcmp returns 0 only if it found no difference.
LEMMA MemcmpZero ==
    ASSUME NEW s, NEW t
    PROVE  /\ memcmp(s, t, 4, 16) = 0 <=> \A k \in 4..19 : s[k] = t[k]
           /\ memcmp(s, t, 8, 28) = 0 <=> \A k \in 8..35 : s[k] = t[k]
<1>1. memcmp(s, t, 4, 16) = 0 <=> \A k \in 4..4 + 16 - 1 : s[k] = t[k]
  BY DEF memcmp, Order
<1>2. memcmp(s, t, 8, 28) = 0 <=> \A k \in 8..8 + 28 - 1 : s[k] = t[k]
  BY DEF memcmp, Order
<1> QED
  BY <1>1, <1>2

LEMMA SameBytes4 ==
    ASSUME NEW a \in Client4, NEW b \in Client4,
           \A k \in 4..19 : Bytes(a).mem[k] = Bytes(b).mem[k]
    PROVE  a.ip = b.ip
<1>1. \A k \in 0..3 : a.ip[k] = Bytes(a).mem[k + 4] /\ b.ip[k] = Bytes(b).mem[k + 4]
  BY DEF Client4, Bytes, RecvFrom, Address4, Offset
<1>2. \A k \in 0..3 : a.ip[k] = b.ip[k]
  BY <1>1
<1>3. a.ip \in [0..3 -> Byte] /\ b.ip \in [0..3 -> Byte]
  BY DEF Client4
<1> QED
  BY <1>2, <1>3

LEMMA SameBytes6 ==
    ASSUME NEW a \in Client6, NEW b \in Client6,
           \A k \in 8..35 : Bytes(a).mem[k] = Bytes(b).mem[k]
    PROVE  a.ip = b.ip /\ a.scope = b.scope
<1>1. ASSUME NEW c \in Client6, NEW k \in 0..15 PROVE c.ip[k] = Bytes(c).mem[k + 8]
  BY DEF Client6, Bytes, RecvFrom, Address6, Offset, AF_INET, AF_INET6
<1>2. ASSUME NEW c \in Client6, NEW k \in 0..3 PROVE c.scope[k] = Bytes(c).mem[k + 24]
  BY DEF Client6, Bytes, RecvFrom, Address6, Offset, AF_INET, AF_INET6
<1>3. ASSUME NEW k \in 0..15 PROVE a.ip[k] = b.ip[k]
  BY <1>1, k + 8 \in 8..35
<1>4. ASSUME NEW k \in 0..3 PROVE a.scope[k] = b.scope[k]
  BY <1>2, k + 24 \in 8..35
<1>5. /\ a.ip \in [0..15 -> Byte] /\ b.ip \in [0..15 -> Byte]
      /\ a.scope \in [0..3 -> Byte] /\ b.scope \in [0..3 -> Byte]
  BY DEF Client6
<1> QED
  BY <1>3, <1>4, <1>5

\* Two addresses received into zeroed memory compare equal if and only if they
\* are those of the same client: family, address, zone and port.
THEOREM ToldApart ==
    ASSUME NEW a \in Client, NEW b \in Client, NEW size
    PROVE  sockaddr_cmp(RecvFrom(Zeroed, a), RecvFrom(Zeroed, b), size) = 0 <=> a = b
<1> USE DEF AF_INET, AF_INET6
<1>1. /\ Bytes(a).family = a.family /\ Bytes(b).family = b.family
      /\ Bytes(a).port = a.port /\ Bytes(b).port = b.port
  BY DEF Bytes, RecvFrom
<1>2. ASSUME a = b PROVE sockaddr_cmp(Bytes(a), Bytes(b), size) = 0
  <2>1. Bytes(a).family \in {AF_INET, AF_INET6}
    BY BytesType DEF Known
  <2>2. /\ memcmp(Bytes(a).mem, Bytes(a).mem, 4, 16) = 0
        /\ memcmp(Bytes(a).mem, Bytes(a).mem, 8, 28) = 0
    BY MemcmpZero
  <2> QED
    BY <1>2, <2>1, <2>2 DEF sockaddr_cmp
<1>3. ASSUME sockaddr_cmp(Bytes(a), Bytes(b), size) = 0 PROVE a = b
  <2>1. a.family = b.family
    BY <1>1, <1>3 DEF sockaddr_cmp, Order
  <2>2. a.port = b.port
    BY <1>1, <1>3, <2>1 DEF sockaddr_cmp, Order
  <2>3. CASE a \in Client4
    <3>1. b \in Client4
      BY <2>1, <2>3 DEF Client, Client4, Client6
    <3>2. memcmp(Bytes(a).mem, Bytes(b).mem, 4, 16) = 0
      BY <1>1, <1>3, <2>1, <2>2, <2>3 DEF sockaddr_cmp, Client4
    <3>3. \A k \in 4..19 : Bytes(a).mem[k] = Bytes(b).mem[k]
      BY <3>2, MemcmpZero
    <3>4. a.ip = b.ip
      BY <2>3, <3>1, <3>3, SameBytes4
    <3> QED
      BY <2>1, <2>2, <2>3, <3>1, <3>4 DEF Client4
  <2>4. CASE a \in Client6
    <3>1. b \in Client6
      BY <2>1, <2>4 DEF Client, Client4, Client6
    <3>2. memcmp(Bytes(a).mem, Bytes(b).mem, 8, 28) = 0
      BY <1>1, <1>3, <2>1, <2>2, <2>4 DEF sockaddr_cmp, Client6
    <3>3. \A k \in 8..35 : Bytes(a).mem[k] = Bytes(b).mem[k]
      BY <3>2, MemcmpZero
    <3>4. a.ip = b.ip /\ a.scope = b.scope
      BY <2>4, <3>1, <3>3, SameBytes6
    <3> QED
      BY <2>1, <2>2, <2>4, <3>1, <3>4 DEF Client6
  <2> QED
    BY <2>3, <2>4 DEF Client
<1> QED
  BY <1>2, <1>3 DEF Bytes

\* An address of one of the two families has an id from 1 to 999, any other the
\* server's 0.  The formatter shows an id modulo 999, so the one that is put in
\* the place of 0 is shown as 0 all the same, and no other.
THEOREM IdsInRange ==
    ASSUME NEW s \in Storage
    PROVE  LET id == user_calculate_id(s)
           IN IF Known(s) THEN id \in 1..999 /\ (id % 999 = 0 <=> id = 999)
              ELSE id = 0
<1>1. \A k \in Offset : s.mem[k] \in Nat
  BY DEF Storage, Byte
<1>2. Sum4(s.mem) \in Nat
  <2>1. s.mem[4] \in Nat /\ s.mem[5] \in Nat /\ s.mem[6] \in Nat /\ s.mem[7] \in Nat
    BY <1>1 DEF Offset
  <2> QED
    BY <2>1 DEF Sum4
<1>3. Sum6(s.mem) \in Nat
  <2> DEFINE Two(id, k) == (id + s.mem[k] + s.mem[k + 1]) % 997
  <2>1. ASSUME NEW id \in Nat, NEW k \in 8..22 PROVE Two(id, k) \in Nat
    <3>1. s.mem[k] \in Nat /\ s.mem[k + 1] \in Nat
      BY <1>1 DEF Offset
    <3> QED
      BY <3>1
  <2>2. Sum6(s.mem) = Two(Two(Two(Two(Two(Two(Two(Two(0, 8), 10), 12), 14), 16), 18), 20), 22)
    BY DEF Sum6
  <2> HIDE DEF Two
  <2>3. Two(Two(Two(Two(0, 8), 10), 12), 14) \in Nat
    <3>1. Two(0, 8) \in Nat
      BY <2>1
    <3>2. Two(Two(0, 8), 10) \in Nat
      BY <2>1, <3>1
    <3>3. Two(Two(Two(0, 8), 10), 12) \in Nat
      BY <2>1, <3>2
    <3> QED
      BY <2>1, <3>3
  <2> DEFINE half == Two(Two(Two(Two(0, 8), 10), 12), 14)
  <2> HIDE DEF half
  <2>4. half \in Nat
    BY <2>3 DEF half
  <2>5. Two(Two(half, 16), 18) \in Nat
    <3>1. Two(half, 16) \in Nat
      BY <2>1, <2>4
    <3> QED
      BY <2>1, <3>1
  <2>6. Two(Two(Two(half, 16), 18), 20) \in Nat
    BY <2>1, <2>5
  <2>7. Two(Two(Two(Two(half, 16), 18), 20), 22) \in Nat
    BY <2>1, <2>6
  <2> QED
    BY <2>2, <2>7 DEF half
<1>4. \A x \in Nat : x % 999 \in 0..998
  OBVIOUS
<1> DEFINE sum == IF s.family = AF_INET THEN Sum4(s.mem) ELSE Sum6(s.mem)
           rest == sum % 999
<1>5. sum \in Nat
  BY <1>2, <1>3
<1>6. user_calculate_id(s) = IF Known(s) THEN NotZero(rest) ELSE 0
  BY DEF user_calculate_id
<1> HIDE DEF sum
<1>7. rest \in 0..998
  BY <1>4, <1>5
<1> HIDE DEF rest
<1>8. NotZero(rest) \in 1..999
  BY <1>7 DEF NotZero
<1>9. \A x \in 1..999 : x % 999 = 0 <=> x = 999
  OBVIOUS
<1> HIDE DEF Known
<1> QED
  BY <1>6, <1>8, <1>9

\* What IdsInRange says of a client.
LEMMA ClientId ==
    ASSUME NEW a \in Client
    PROVE  IdOf(Bytes(a)) \in 1..999 /\ (Shown(IdOf(Bytes(a))) = 0 <=> IdOf(Bytes(a)) = 999)
BY BytesType, IdsInRange DEF IdOf, Shown

-----------------------------------------------------------------------------
(* The table's actions here are those of its proofs *)

LEMMA TableAssumption ==
    /\ NULL \notin Node \cup Addr \cup Fd
    /\ NULL \notin [last : Nat, slot : Nat, fd : Fd \cup {NULL}]
    /\ Timeout \in Nat
    /\ MaxNow \in Nat
BY MsgHandleAssumption

LEMMA TableInit ==
    ASSUME Table!Init
    PROVE  TP!IInv
<1>1. TP!Init
  BY DEF Table!Init, TP!Init, Table!Zero, TP!Zero, Table!Never, TP!Never
<1> QED
  BY <1>1, TP!InitIInv, TableAssumption

LEMMA TableNext ==
    ASSUME Table!Next
    PROVE  TP!Next
<1> USE DEF TP!Next, TP!TableStep, TP!Update, Table!tableVars, TP!tableVars
<1>1. CASE Table!Tick
  BY <1>1
  DEF Table!Tick, TP!Tick
<1>2. ASSUME NEW a \in Addr, NEW f \in Fd, Table!UpdateCall(a, f) PROVE TP!Next
  <2>1. TP!UpdateCall(a, f)
    BY <1>2 DEF Table!UpdateCall, TP!UpdateCall, Table!NewUser, TP!NewUser,
                  Table!Slot, TP!Slot
  <2> QED
    BY <2>1
<1>3. CASE Table!EveryCall
  BY <1>3
  DEF Table!EveryCall, TP!EveryCall
<1>4. CASE Table!FreeCall
  BY <1>4
  DEF Table!FreeCall, TP!FreeCall
<1>5. CASE Table!Spam
  BY <1>5
  DEF Table!Spam, TP!Spam, Table!Matches, TP!Matches, Table!IsSpam, TP!IsSpam,
      Table!Return, TP!Return, Table!Zero, TP!Zero
<1>6. CASE Table!RefreshInLoop
  BY <1>6
  DEF Table!RefreshInLoop, TP!RefreshInLoop, Table!InLoop, TP!InLoop,
      Table!Matches, TP!Matches, Table!IsSpam, TP!IsSpam,
      Table!RefreshedInLoop, TP!RefreshedInLoop, Table!Accepted, TP!Accepted,
      Table!Return, TP!Return, Table!Zero, TP!Zero
<1>7. CASE Table!RefreshLast
  BY <1>7
  DEF Table!RefreshLast, TP!RefreshLast, Table!PastLoop, TP!PastLoop,
      Table!InLoop, TP!InLoop, Table!Matches, TP!Matches, Table!IsSpam,
      TP!IsSpam, Table!RefreshedLast, TP!RefreshedLast, Table!Accepted,
      TP!Accepted, Table!Return, TP!Return, Table!Zero, TP!Zero
<1>8. CASE Table!Kick
  BY <1>8
  DEF Table!Kick, TP!Kick, Table!InLoop, TP!InLoop, Table!Matches, TP!Matches,
      Table!Expired, TP!Expired, Table!Unlinked, TP!Unlinked, Table!Zero,
      TP!Zero
<1>9. CASE Table!Skip
  BY <1>9
  DEF Table!Skip, TP!Skip, Table!InLoop, TP!InLoop, Table!Matches, TP!Matches,
      Table!Expired, TP!Expired
<1>10. ASSUME NEW m \in Node, Table!Join(m) PROVE TP!Next
  <2>1. Table!Appended(m) = TP!Appended(m)
    BY DEF Table!Appended, TP!Appended
  <2>2. TP!Join(m)
    BY <1>10, <2>1
    DEF Table!Join, TP!Join, Table!NotFound, TP!NotFound, Table!PastLoop, TP!PastLoop,
        Table!InLoop, TP!InLoop, Table!Matches, TP!Matches,
        Table!Accepted, TP!Accepted, Table!Return, TP!Return, Table!Zero, TP!Zero
  <2> QED
    BY <2>2
<1>11. CASE Table!JoinFails
  BY <1>11
  DEF Table!JoinFails, TP!JoinFails, Table!NotFound, TP!NotFound,
      Table!PastLoop, TP!PastLoop, Table!InLoop, TP!InLoop, Table!Matches,
      TP!Matches, Table!Return, TP!Return, Table!Zero, TP!Zero
<1>12. CASE Table!EveryUser
  BY <1>12
  DEF Table!EveryUser, TP!EveryUser
<1>13. CASE Table!EveryReturn
  BY <1>13
  DEF Table!EveryReturn, TP!EveryReturn
<1>14. CASE Table!FreeUser
  BY <1>14
  DEF Table!FreeUser, TP!FreeUser, Table!Zero, TP!Zero
<1>15. CASE Table!FreeLast
  BY <1>15
  DEF Table!FreeLast, TP!FreeLast, Table!Zero, TP!Zero
<1>16. CASE Table!FreeNull
  BY <1>16
  DEF Table!FreeNull, TP!FreeNull
<1> QED
  BY <1>1, <1>2, <1>3, <1>4, <1>5, <1>6, <1>7, <1>8, <1>9, <1>10, <1>11, <1>12, <1>13, <1>14, <1>15, <1>16
  DEF Table!Next, Table!TableStep, Table!Update

LEMMA TableKeeps ==
    ASSUME TP!IInv, Table!Next \/ UNCHANGED tableVars
    PROVE  TP!IInv'
<1>1. TP!Next \/ UNCHANGED TP!vars
  BY TableNext DEF tableVars, TP!vars, TP!tableVars
<1> QED
  BY <1>1, TP!StepIInv, TableAssumption

-----------------------------------------------------------------------------
(* What the table's steps do to the clients *)

Cells ==
    /\ alloc \subseteq Node
    /\ heap \in [Node -> Table!Cell]
    /\ user \in Table!Cell
    /\ p \in alloc \cup {NULL}
    /\ NULL \notin Node

LEMMA CellsOf ==
    ASSUME TP!IInv
    PROVE  Cells
<1>1. p \in alloc \cup {NULL}
  BY DEF TP!IInv, TP!Shape, TP!Walker
<1>2. NULL \notin Node
  BY MsgHandleAssumption
<1> QED
  BY <1>1, <1>2 DEF TP!IInv, TP!TypeOK, TP!Cell, TP!Ptr, Table!Cell, Table!Ptr, Cells

\* A cell that stays keeps its client, a new one gets that of the user.
ClientsKept ==
    \A m \in alloc' : IF m \in alloc THEN heap'[m].addr = heap[m].addr
                      ELSE heap'[m].addr = user.addr

LEMMA RefreshStays ==
    ASSUME Cells, Table!RefreshInLoop \/ Table!RefreshLast
    PROVE  /\ ClientsKept
           /\ p \in alloc' /\ heap'[p].addr = user.addr
<1>1. p \in alloc /\ p \in Node /\ alloc' = alloc /\ heap[p].addr = user.addr
  BY DEF Table!RefreshInLoop, Table!RefreshLast, Table!InLoop, Table!Matches, Cells
<1>2. heap[p] \in Table!Cell
  BY <1>1 DEF Cells
<1>3. /\ Table!RefreshedInLoop(heap[p]).addr = heap[p].addr
      /\ Table!RefreshedLast(heap[p]).addr = heap[p].addr
  BY <1>2 DEF Table!RefreshedInLoop, Table!RefreshedLast, Table!Cell
<1>4. PICK c : c.addr = heap[p].addr /\ heap' = [heap EXCEPT ![p] = c]
  BY <1>3 DEF Table!RefreshInLoop, Table!RefreshLast
<1>5. \A m \in Node : heap'[m].addr = heap[m].addr
  BY <1>1, <1>4 DEF Cells
<1> QED
  BY <1>1, <1>5 DEF Cells, ClientsKept

LEMMA KickStays ==
    ASSUME Cells, Table!Kick
    PROVE  ClientsKept /\ p \in alloc /\ alloc' = alloc \ {p}
<1>1. /\ p \in alloc /\ alloc' = alloc \ {p} /\ heap' = Table!Unlinked(p)
  BY DEF Table!Kick, Table!InLoop, Cells
<1>2. ASSUME NEW m \in Node, m # p PROVE heap'[m].addr = heap[m].addr
  <2>1. heap[m] \in Table!Cell
    BY DEF Cells
  <2> QED
    BY <1>1, <1>2, <2>1 DEF Table!Unlinked, Table!Cell
<1> QED
  BY <1>1, <1>2 DEF Cells, ClientsKept

LEMMA JoinStays ==
    ASSUME Cells, NEW j \in Node, Table!Join(j)
    PROVE  /\ ClientsKept
           /\ j \in alloc' /\ heap'[j].addr = user.addr
<1>1. j \in Node \ alloc /\ alloc' = alloc \cup {j} /\ heap' = Table!Appended(j)
  BY DEF Table!Join
<1>2. ASSUME NEW m \in Node
      PROVE  heap'[m].addr = IF m = j THEN user.addr ELSE heap[m].addr
  <2>1. heap[m] \in Table!Cell /\ user \in Table!Cell
    BY DEF Cells
  <2> QED
    BY <1>1, <2>1 DEF Table!Appended, Table!Cell
<1> QED
  BY <1>1, <1>2 DEF Cells, ClientsKept

LEMMA UpdateStays ==
    ASSUME Cells, Table!Update
    PROVE  ClientsKept
<1>1. CASE Table!Spam \/ Table!JoinFails \/ Table!Skip
  <2>1. UNCHANGED <<alloc, heap>>
    BY <1>1 DEF Table!Spam, Table!JoinFails, Table!Skip, Table!tableVars
  <2> QED
    BY <2>1 DEF ClientsKept
<1> QED
  BY <1>1, RefreshStays, KickStays, JoinStays DEF Table!Update

LEMMA UpdatePc ==
    ASSUME Table!Update
    PROVE  pc = "update" /\ (pc' = "idle" \/ (pc' = "update" /\ user' = user))
BY DEF Table!Update, Table!Spam, Table!RefreshInLoop, Table!RefreshLast, Table!Kick,
       Table!Skip, Table!Join, Table!JoinFails, Table!NotFound, Table!PastLoop,
       Table!InLoop, Table!Return

\* An update that accepts leaves the sender in the table.
LEMMA AcceptedIn ==
    ASSUME Cells, Table!Update, pc' = "idle", ret' # 1
    PROVE  \E m \in alloc' : heap'[m].addr = user.addr
<1>1. pc = "update"
  BY UpdatePc
<1>2. ~Table!Spam /\ ~Table!JoinFails /\ ~Table!Kick /\ ~Table!Skip
  BY <1>1 DEF Table!Spam, Table!JoinFails, Table!Kick, Table!Skip, Table!Return
<1> QED
  BY <1>2, RefreshStays, JoinStays DEF Table!Update

-----------------------------------------------------------------------------
(* msg_formatter *)

Body == [1..MSG_BODY_LEN -> Char]

LEMMA SmallModulo ==
    ASSUME NEW x \in Nat, NEW y \in Nat, x < y
    PROVE  x % y = x
OBVIOUS

\* The length that is copied does not wrap unless it was 0.
LEMMA CopiedLen ==
    ASSUME NEW len \in Nat \ {0}
    PROVE  /\ Copied(len) = (IF len < MSG_BODY_LEN THEN len ELSE MSG_BODY_LEN) - 1
           /\ Copied(len) \in 0..MSG_BODY_LEN - 1
<1> DEFINE k == (IF len < MSG_BODY_LEN THEN len ELSE MSG_BODY_LEN) - 1
<1>1. MSG_BODY_LEN \in Nat \ {0} /\ SIZE_MAX \in Nat /\ SIZE_MAX > MSG_BODY_LEN
  BY MsgHandleAssumption
<1>2. k \in 0..MSG_BODY_LEN - 1 /\ k \in Nat /\ k < SIZE_MAX + 1 /\ SIZE_MAX + 1 \in Nat
  BY <1>1
<1>3. Copied(len) = k % (SIZE_MAX + 1)
  BY DEF Copied
<1> HIDE DEF k
<1>4. Copied(len) = k
  BY <1>2, <1>3, SmallModulo
<1> QED
  BY <1>2, <1>4 DEF k

LEMMA Sizes ==
    /\ MSG_BODY_LEN \in Nat \ {0}
    /\ MSG_ID_LEN = 4 /\ BodyAt = 5 /\ MSG_TOTAL_LEN = 6 + MSG_BODY_LEN
BY MsgHandleAssumption DEF MSG_ID_LEN, MSG_F_LEN, MSG_TOTAL_LEN, BodyAt

\* What is returned ends within the buffer, behind what is copied.
LEMMA FormattedFits ==
    ASSUME NEW len \in Nat \ {0}
    PROVE  /\ FormattedLen(len) = Copied(len) + 6
           /\ FormattedLen(len) \in BodyAt + 1..MSG_TOTAL_LEN
BY CopiedLen, Sizes DEF FormattedLen

LEMMA Triples ==
    ASSUME NEW A, NEW B, NEW C, NEW a \in A, NEW b \in B, NEW c \in C
    PROVE  <<a, b, c>> \in A \X B \X C
OBVIOUS

LEMMA Singles ==
    ASSUME NEW S, NEW a \in S
    PROVE  <<a>> \in Seq(S) /\ Len(<<a>>) = 1 /\ <<a>>[1] = a
OBVIOUS

LEMMA Pairs ==
    ASSUME NEW S, NEW a \in S, NEW b \in S
    PROVE  <<a, b>> \in Seq(S) /\ Len(<<a, b>>) = 2
OBVIOUS

LEMMA FunctionSeq ==
    ASSUME NEW S, NEW n \in Nat, NEW T \in [1..n -> S]
    PROVE  T \in Seq(S) /\ Len(T) = n
<1>1. T \in Seq(S)
  BY SeqDef
<1>2. DOMAIN T = 1..n /\ DOMAIN T = 1..Len(T) /\ Len(T) \in Nat
  BY <1>1, LenProperties
<1> QED
  BY <1>1, <1>2

\* The three kinds of characters, and the numbers in them.
Plain == {""} \X {0} \X Nat
Digits == 0..998
Ids == 0..999
IdChar(x, c) == <<"id", x, c>>
InId == {"id"} \X Digits \X (1..3)
InBody == {"body"} \X Ids \X Nat

LEMMA Kinds == Char = Plain \cup InId \cup InBody
BY DEF Char, Plain, InId, InBody, Digits, Ids

LEMMA PlainChars ==
    ASSUME NEW c \in Nat
    PROVE  <<"", 0, c>> \in Char
<1>1. <<"", 0, c>> \in Plain
  BY Triples DEF Plain
<1> QED
  BY <1>1, Kinds

LEMMA IdChars ==
    ASSUME NEW x \in Digits, NEW c \in 1..3
    PROVE  IdChar(x, c) \in Char
<1>1. IdChar(x, c) \in InId
  BY Triples DEF IdChar, InId
<1> QED
  BY <1>1, Kinds

LEMMA BodyChars ==
    ASSUME NEW x \in Ids, NEW c \in Nat
    PROVE  <<"body", x, c>> \in Char
<1>1. <<"body", x, c>> \in InBody
  BY Triples DEF InBody
<1> QED
  BY <1>1, Kinds

LEMMA ShownDigits ==
    ASSUME NEW id \in Ids
    PROVE  Shown(id) \in Digits
BY DEF Ids, Digits, Shown

LEMMA FixedChars ==
    /\ NewLine \in Char /\ Zero \in Char
    /\ Bar \in Seq(Char) /\ Len(Bar) = 2
<1>1. /\ <<"", 0, 0>> \in Char /\ <<"", 0, 10>> \in Char
      /\ <<"", 0, 124>> \in Char /\ <<"", 0, 32>> \in Char
  BY PlainChars
<1>2. Bar \in Seq(Char) /\ Len(Bar) = 2
  BY <1>1, Pairs DEF Bar
<1> QED
  BY <1>1, <1>2 DEF NewLine, Zero

\* One character of the buffer: which part it belongs to.
LEMMA FormattedChar ==
    ASSUME NEW id, NEW body, NEW len \in Nat \ {0}, NEW c \in 1..MSG_TOTAL_LEN
    PROVE  LET F == Formatted(id, body, len)
               k == Copied(len)
           IN  /\ c <= 3 => F[c] = IdChar(Shown(id), c)
               /\ c > 3 /\ c <= 5 => F[c] = Bar[c - 3]
               /\ c > 5 /\ c <= 5 + k => F[c] = body[c - 5]
               /\ c > 5 + k => F[c] = IF c = 6 + k \/ c = MSG_TOTAL_LEN
                                      THEN NewLine ELSE return_buffer[c]
<1> DEFINE k == Copied(len)
<1>1. k \in Nat /\ k <= MSG_BODY_LEN - 1 /\ FormattedLen(len) = k + 6
  BY CopiedLen, FormattedFits, Sizes
<1>2. Formatted(id, body, len)[c] =
        CASE c < 4 -> IdChar(Shown(id), c)
          [] c >= 4 /\ c <= 5 -> Bar[c - 4 + 1]
          [] c > 5 /\ c <= 5 + k -> body[c - 5]
          [] c = k + 6 \/ c = MSG_TOTAL_LEN -> NewLine
          [] OTHER -> return_buffer[c]
  BY <1>1, Sizes DEF Formatted, IdChar
<1>3. c \in Nat
  BY Sizes
<1> DEFINE F == Formatted(id, body, len)[c]
<1> HIDE DEF k, F
<1>4. F =
        CASE c < 4 -> IdChar(Shown(id), c)
          [] c >= 4 /\ c <= 5 -> Bar[c - 4 + 1]
          [] c > 5 /\ c <= 5 + k -> body[c - 5]
          [] c = k + 6 \/ c = MSG_TOTAL_LEN -> NewLine
          [] OTHER -> return_buffer[c]
  BY <1>2 DEF F
<1>5. c <= 3 => F = IdChar(Shown(id), c)
  BY <1>1, <1>3, <1>4, Sizes
<1>6. c > 3 /\ c <= 5 => F = Bar[c - 3]
  <2>1. c - 4 + 1 = c - 3
    BY <1>3
  <2> QED
    BY <1>1, <1>3, <1>4, <2>1, Sizes
<1>7. c > 5 /\ c <= 5 + k => F = body[c - 5]
  BY <1>1, <1>3, <1>4, Sizes
<1>8. c > 5 + k => F = IF c = 6 + k \/ c = MSG_TOTAL_LEN THEN NewLine ELSE return_buffer[c]
  BY <1>1, <1>3, <1>4, Sizes
<1> QED
  BY <1>5, <1>6, <1>7, <1>8 DEF F, k

LEMMA FormattedType ==
    ASSUME return_buffer \in [1..MSG_TOTAL_LEN -> Char],
           NEW id \in Ids, NEW body \in Body, NEW len \in Nat \ {0}
    PROVE  Formatted(id, body, len) \in [1..MSG_TOTAL_LEN -> Char]
<1> DEFINE F == Formatted(id, body, len)
           k == Copied(len)
<1>1. F = [c \in 1..MSG_TOTAL_LEN |-> F[c]]
  BY DEF Formatted
<1>2. k \in Nat /\ k <= MSG_BODY_LEN - 1
  BY CopiedLen, Sizes
<1>3. ASSUME NEW c \in 1..MSG_TOTAL_LEN PROVE F[c] \in Char
  <2>1. /\ c <= 3 => F[c] = IdChar(Shown(id), c)
        /\ c > 3 /\ c <= 5 => F[c] = Bar[c - 3]
        /\ c > 5 /\ c <= 5 + k => F[c] = body[c - 5]
        /\ c > 5 + k => F[c] = NewLine \/ F[c] = return_buffer[c]
    BY FormattedChar
  <2> HIDE DEF F, k
  <2>2. CASE c <= 3
    <3>1. Shown(id) \in Digits /\ c \in 1..3
      BY <2>2, Sizes, ShownDigits
    <3>2. IdChar(Shown(id), c) \in Char
      BY <3>1, IdChars
    <3> QED
      BY <2>1, <2>2, <3>2
  <2>3. CASE c > 3 /\ c <= 5
    <3>1. c - 3 \in 1..2
      BY <2>3, Sizes
    <3>2. Bar[c - 3] \in Char
      BY <3>1, FixedChars, ElementOfSeq
    <3> QED
      BY <2>1, <2>3, <3>2
  <2>4. CASE c > 5 /\ c <= 5 + k
    <3>1. c - 5 \in 1..MSG_BODY_LEN
      BY <1>2, <2>4, Sizes
    <3>2. body[c - 5] \in Char
      BY <3>1 DEF Body
    <3> QED
      BY <2>1, <2>4, <3>2
  <2>5. CASE c > 5 + k
    BY <2>1, <2>5, FixedChars
  <2> QED
    BY <1>2, <2>2, <2>3, <2>4, <2>5, Sizes
<1> HIDE DEF F
<1> QED
  BY <1>1, <1>3 DEF F

\* The digits of i, and any three characters that are.
Number(i) == [c \in 1..3 |-> IdChar(i, c)]

LEMMA NumberSeq ==
    ASSUME NEW i \in Digits
    PROVE  /\ Number(i) \in Seq(Char) /\ Len(Number(i)) = 3
           /\ \A c \in 1..3 : Number(i)[c] = IdChar(i, c)
<1>1. ASSUME NEW c \in 1..3 PROVE IdChar(i, c) \in Char
  BY IdChars
<1>2. Number(i) \in [1..3 -> Char]
  BY <1>1 DEF Number
<1>3. 3 \in Nat
  OBVIOUS
<1>4. Number(i) \in Seq(Char) /\ Len(Number(i)) = 3
  BY <1>2, <1>3, FunctionSeq
<1> QED
  BY <1>4 DEF Number

\* T is four pieces put together in order.
Pieces(S, T, k, a, b, c, d) ==
    /\ T \in Seq(S) /\ Len(T) = 6 + k
    /\ \A i \in 1..6 + k :
         T[i] = IF i <= 3 THEN a[i] ELSE IF i <= 5 THEN b[i - 3]
                ELSE IF i <= 5 + k THEN c[i - 5] ELSE d[1]

LEMMA Joined ==
    ASSUME NEW S, NEW k \in Nat, NEW a, NEW b, NEW c, NEW d,
           a \in Seq(S), b \in Seq(S), c \in Seq(S), d \in Seq(S),
           Len(a) = 3, Len(b) = 2, Len(c) = k, Len(d) = 1,
           NEW T, T = a \o b \o c \o d
    PROVE  Pieces(S, T, k, a, b, c, d)
<1> DEFINE X == a \o b
           Y == X \o c
           Z == Y \o d
<1>1. X \in Seq(S) /\ Len(X) = 5 /\ \A i \in 1..5 : X[i] = IF i <= 3 THEN a[i] ELSE b[i - 3]
  <2>1. /\ X \in Seq(S) /\ Len(X) = Len(a) + Len(b)
        /\ \A i \in 1..Len(a) + Len(b) : X[i] = IF i <= Len(a) THEN a[i] ELSE b[i - Len(a)]
    BY ConcatProperties, Zenon
  <2> HIDE DEF X
  <2> QED
    BY <2>1
<1> HIDE DEF X
<1>2. Y \in Seq(S) /\ Len(Y) = 5 + k /\ \A i \in 1..5 + k : Y[i] = IF i <= 5 THEN X[i] ELSE c[i - 5]
  <2>1. X \in Seq(S)
    BY <1>1
  <2>2. /\ Y \in Seq(S) /\ Len(Y) = Len(X) + Len(c)
        /\ \A i \in 1..Len(X) + Len(c) : Y[i] = IF i <= Len(X) THEN X[i] ELSE c[i - Len(X)]
    BY <2>1, ConcatProperties, Zenon
  <2> HIDE DEF Y
  <2> QED
    BY <1>1, <2>2
<1> HIDE DEF Y
<1>3. Z \in Seq(S) /\ Len(Z) = 6 + k /\ \A i \in 1..6 + k : Z[i] = IF i <= 5 + k THEN Y[i] ELSE d[1]
  <2>1. Y \in Seq(S)
    BY <1>2
  <2>2. /\ Z \in Seq(S) /\ Len(Z) = Len(Y) + Len(d)
        /\ \A i \in 1..Len(Y) + Len(d) : Z[i] = IF i <= Len(Y) THEN Y[i] ELSE d[i - Len(Y)]
    BY <2>1, ConcatProperties, Zenon
  <2> HIDE DEF Z
  <2>3. Len(Z) = 6 + k
    BY <1>2, <2>2
  <2>4. ASSUME NEW i \in 1..6 + k PROVE Z[i] = IF i <= 5 + k THEN Y[i] ELSE d[1]
    <3>1. i \in 1..Len(Y) + Len(d) /\ (i <= Len(Y) <=> i <= 5 + k)
      BY <1>2
    <3>2. ~(i <= 5 + k) => i - Len(Y) = 1
      BY <1>2
    <3> QED
      BY <2>2, <3>1, <3>2
  <2> QED
    BY <2>2, <2>3, <2>4
<1>4. Z = T
  BY DEF X, Y, Z
<1> HIDE DEF Z
<1>5. ASSUME NEW i \in 1..6 + k
      PROVE  Z[i] = IF i <= 3 THEN a[i] ELSE IF i <= 5 THEN b[i - 3]
                    ELSE IF i <= 5 + k THEN c[i - 5] ELSE d[1]
  <2>1. CASE i <= 5
    <3>1. i \in 1..5 /\ i \in 1..5 + k /\ i <= 5 + k
      BY <2>1
    <3> QED
      BY <1>1, <1>2, <1>3, <2>1, <3>1
  <2>2. CASE i > 5
    <3>1. ~(i <= 3) /\ ~(i <= 5)
      BY <2>2
    <3>2. i <= 5 + k => i \in 1..5 + k
      OBVIOUS
    <3> QED
      BY <1>2, <1>3, <2>2, <3>1, <3>2
  <2> QED
    BY <2>1, <2>2
<1> QED
  BY <1>3, <1>4, <1>5 DEF Pieces

\* The parts of the text: number, bar, copy of the body and line end.
Reads(T, i, body, k) ==
    /\ T \in Seq(Char) /\ Len(T) = 6 + k
    /\ \A c \in 1..6 + k :
         T[c] = IF c <= 3 THEN IdChar(i, c)
                ELSE IF c <= 5 THEN Bar[c - 3]
                ELSE IF c <= 5 + k THEN body[c - 5] ELSE NewLine

LEMMA TextChars ==
    ASSUME NEW id \in Ids, NEW body \in Body, NEW len \in Nat \ {0}
    PROVE  Reads(Text(id, body, len), Shown(id), body, Copied(len))
<1> DEFINE k == Copied(len)
           i == Shown(id)
           number == Number(i)
           copy == SubSeq(body, 1, k)
           last == <<NewLine>>
           T == Text(id, body, len)
<1>1. k \in Nat /\ k <= MSG_BODY_LEN - 1
  BY CopiedLen, Sizes
<1>2. i \in Digits
  BY ShownDigits
<1>3. T = number \o Bar \o copy \o last
  BY CopiedLen DEF Text, Number, IdChar, Shown
<1> HIDE DEF i
<1>4. /\ number \in Seq(Char) /\ Len(number) = 3
      /\ \A c \in 1..3 : number[c] = IdChar(i, c)
  BY <1>2, NumberSeq
<1>5. copy \in Seq(Char) /\ Len(copy) = k /\ \A c \in 1..k : copy[c] = body[c]
  <2> HIDE DEF k
  <2>1. \A c \in 1..k : body[c] \in Char
    BY <1>1, Sizes DEF Body
  <2>2. /\ copy \in Seq(Char) /\ Len(copy) = IF 1 <= k THEN k - 1 + 1 ELSE 0
        /\ \A c \in 1..k - 1 + 1 : copy[c] = body[1 + c - 1]
    BY <1>1, <2>1, SubSeqProperties
  <2>3. k - 1 + 1 = k /\ \A c \in 1..k : 1 + c - 1 = c
    BY <1>1
  <2> QED
    BY <1>1, <2>2, <2>3
<1>6. last \in Seq(Char) /\ Len(last) = 1 /\ last[1] = NewLine
  BY Singles, FixedChars
<1>7. Bar \in Seq(Char) /\ Len(Bar) = 2
  BY FixedChars
<1> HIDE DEF k, number, copy, last, T
<1>8. /\ T \in Seq(Char) /\ Len(T) = 6 + k
      /\ \A c \in 1..6 + k :
           T[c] = IF c <= 3 THEN number[c] ELSE IF c <= 5 THEN Bar[c - 3]
                  ELSE IF c <= 5 + k THEN copy[c - 5] ELSE last[1]
  <2>1. k \in Nat
    BY <1>1
  <2>2. number \in Seq(Char) /\ Len(number) = 3
    BY <1>4
  <2>3. copy \in Seq(Char) /\ Len(copy) = k
    BY <1>5
  <2>4. last \in Seq(Char) /\ Len(last) = 1
    BY <1>6
  <2>5. Pieces(Char, T, k, number, Bar, copy, last)
    BY <1>3, <1>7, <2>1, <2>2, <2>3, <2>4, Joined
  <2> QED
    BY <2>5 DEF Pieces
<1>9. ASSUME NEW c \in 1..6 + k
      PROVE  T[c] = IF c <= 3 THEN IdChar(i, c)
                     ELSE IF c <= 5 THEN Bar[c - 3]
                     ELSE IF c <= 5 + k THEN body[c - 5] ELSE NewLine
  <2>1. CASE c <= 3
    BY <1>4, <1>8, <2>1
  <2>2. CASE c > 5 /\ c <= 5 + k
    <3>1. c - 5 \in 1..k
      BY <1>1, <2>2
    <3> QED
      BY <1>1, <1>5, <1>8, <2>2, <3>1
  <2> QED
    BY <1>1, <1>6, <1>8, <2>1, <2>2
<1> QED
  BY <1>8, <1>9 DEF i, k, T, Reads

\* The text behind the id and the bar fits, with the newline, into the buffer.
LEMMA FormattedBounds ==
    ASSUME NEW len \in Nat \ {0}
    PROVE  /\ Copied(len) \in Nat /\ Copied(len) <= MSG_BODY_LEN - 1
           /\ FormattedLen(len) = 6 + Copied(len) /\ 6 + Copied(len) <= MSG_TOTAL_LEN
BY CopiedLen, FormattedFits, Sizes

\* What is sent is the text as it should read, whatever the buffer last held.
LEMMA FormattedText ==
    ASSUME return_buffer \in [1..MSG_TOTAL_LEN -> Char],
           NEW id \in Ids, NEW body \in Body, NEW len \in Nat \ {0}
    PROVE  /\ SubSeq(Formatted(id, body, len), 1, FormattedLen(len)) = Text(id, body, len)
           /\ Text(id, body, len) \in Seq(Char)
<1> DEFINE F == Formatted(id, body, len)
           T == Text(id, body, len)
           k == Copied(len)
           S == SubSeq(F, 1, 6 + k)
           i == Shown(id)
<1>1. k \in Nat /\ k <= MSG_BODY_LEN - 1 /\ FormattedLen(len) = 6 + k /\ 6 + k <= MSG_TOTAL_LEN
  BY FormattedBounds
<1>2. /\ T \in Seq(Char) /\ Len(T) = 6 + k
      /\ \A c \in 1..6 + k :
           T[c] = IF c <= 3 THEN IdChar(i, c)
                  ELSE IF c <= 5 THEN Bar[c - 3]
                  ELSE IF c <= 5 + k THEN body[c - 5] ELSE NewLine
  <2>1. Reads(T, i, body, k)
    BY TextChars
  <2> QED
    BY <2>1 DEF Reads
<1>3. \A c \in 1..MSG_TOTAL_LEN :
        /\ c <= 3 => F[c] = IdChar(i, c)
        /\ c > 3 /\ c <= 5 => F[c] = Bar[c - 3]
        /\ c > 5 /\ c <= 5 + k => F[c] = body[c - 5]
        /\ c > 5 + k => F[c] = IF c = 6 + k \/ c = MSG_TOTAL_LEN THEN NewLine ELSE return_buffer[c]
  BY FormattedChar
<1>4. F \in [1..MSG_TOTAL_LEN -> Char]
  BY FormattedType
<1> HIDE DEF F, T, k, i
<1>5. /\ S \in Seq(Char) /\ Len(S) = 6 + k
      /\ \A c \in 1..6 + k : S[c] = F[c]
  <2>1. \A c \in 1..6 + k : F[c] \in Char
    BY <1>1, <1>4, Sizes
  <2>2. /\ S \in Seq(Char)
        /\ Len(S) = IF 1 <= 6 + k THEN 6 + k - 1 + 1 ELSE 0
        /\ \A c \in 1..6 + k - 1 + 1 : S[c] = F[1 + c - 1]
    BY <1>1, <2>1, SubSeqProperties
  <2>3. 6 + k - 1 + 1 = 6 + k /\ 1 <= 6 + k /\ \A c \in 1..6 + k : 1 + c - 1 = c
    BY <1>1
  <2> QED
    BY <2>2, <2>3
<1> HIDE DEF S
<1>6. ASSUME NEW c \in 1..6 + k PROVE S[c] = T[c]
  <2>1. c \in 1..MSG_TOTAL_LEN /\ c \in Nat
    BY <1>1, Sizes
  <2>2. CASE c <= 3
    <3>1. F[c] = IdChar(i, c)
      BY <1>3, <2>1, <2>2
    <3>2. T[c] = IdChar(i, c)
      BY <1>2, <2>2
    <3>3. S[c] = F[c]
      BY <1>5
    <3> QED
      BY <3>1, <3>2, <3>3
  <2>3. CASE c > 3 /\ c <= 5
    BY <1>2, <1>3, <1>5, <2>1, <2>3
  <2>4. CASE c > 5 /\ c <= 5 + k
    BY <1>1, <1>2, <1>3, <1>5, <2>1, <2>4
  <2>5. CASE c = 6 + k
    <3>1. F[c] = NewLine
      BY <1>1, <1>3, <2>1, <2>5
    <3>2. ~(c <= 3) /\ ~(c <= 5) /\ ~(c <= 5 + k)
      BY <1>1, <2>5
    <3>3. T[c] = NewLine
      BY <1>2, <3>2
    <3> QED
      BY <1>5, <3>1, <3>3
  <2> QED
    BY <1>1, <1>5, <2>1, <2>2, <2>3, <2>4, <2>5
<1>7. S = T
  BY <1>2, <1>5, <1>6, SeqEqual
<1> QED
  BY <1>1, <1>2, <1>7 DEF F, T, S

\* This text goes out, and the buffer holds characters still.
Says(fd, to, text) ==
    /\ return_buffer' \in [1..MSG_TOTAL_LEN -> Char]
    /\ out' \in [fd : Fd \cup {NULL}, to : Storage, text : Seq(Char)]
    /\ out'.fd = fd /\ out'.to = to /\ out'.text = text

LEMMA Sent ==
    ASSUME TypeOK, NEW fd \in Fd \cup {NULL}, NEW to \in Storage, NEW id \in Ids,
           NEW body \in Body, NEW len \in Nat \ {0}, SendTo(fd, to, id, body, len)
    PROVE  Says(fd, to, Text(id, body, len))
<1>1. return_buffer \in [1..MSG_TOTAL_LEN -> Char]
  BY DEF TypeOK
<1>2. return_buffer' = Formatted(id, body, len)
  BY DEF SendTo
<1>3. /\ SubSeq(Formatted(id, body, len), 1, FormattedLen(len)) = Text(id, body, len)
      /\ Text(id, body, len) \in Seq(Char)
  BY <1>1, FormattedText
<1>4. out' = [fd |-> fd, to |-> to, text |-> Text(id, body, len)]
  BY <1>2, <1>3 DEF SendTo
<1>5. return_buffer' \in [1..MSG_TOTAL_LEN -> Char]
  BY <1>1, <1>2, FormattedType
<1> QED
  BY <1>3, <1>4, <1>5 DEF Says

LEMMA BufferType ==
    ASSUME NEW m, m.from \in Client
    PROVE  Buffer(m) \in Body
<1>1. IdOf(Bytes(m.from)) \in Ids
  <2>1. IdOf(Bytes(m.from)) \in 1..999
    BY ClientId
  <2> QED
    BY <2>1 DEF Ids
<1> DEFINE id == IdOf(Bytes(m.from))
           Char1(k) == IF k <= m.len THEN <<"body", id, k>> ELSE Zero
<1> HIDE DEF id
<1>2. ASSUME NEW k \in 1..MSG_BODY_LEN PROVE Char1(k) \in Char
  <2>1. k \in Nat
    BY Sizes
  <2>2. <<"body", id, k>> \in Char
    BY <1>1, <2>1, BodyChars DEF id
  <2> QED
    BY <2>2, FixedChars
<1>3. Buffer(m) = [k \in 1..MSG_BODY_LEN |-> Char1(k)]
  BY DEF Buffer, id
<1> HIDE DEF Char1
<1> QED
  BY <1>2, <1>3 DEF Body

LEMMA TimeoutStrType == TimeoutStr \in Body
<1>1. ASSUME NEW k \in 1..MSG_BODY_LEN PROVE <<"body", 0, k>> \in Char
  <2>1. k \in Nat /\ 0 \in Ids
    BY Sizes DEF Ids
  <2> QED
    BY <2>1, BodyChars
<1> QED
  BY <1>1 DEF TimeoutStr, Body

LEMMA ZeroedType == Zeroed \in Storage
BY DEF Zeroed, Storage, Byte

-----------------------------------------------------------------------------
(* The inductive invariant *)

\* The bytes kept for a client are those that recvfrom writes over zeros.
Remembered ==
    \A m \in alloc : heap[m].addr \in Addr /\ stored[m] = Bytes(heap[m].addr)

\* The datagram in hand: its sender, the table's argument and peeraddr agree,
\* its length is not 0, and whoever it is sent for is in the table.
InHand ==
    /\ stage = "recv" => pc = "idle"
    /\ stage = "update" => pc = "update" /\ user.addr = msg.from
    /\ stage = "send" => /\ pc \in {"idle", "every"}
                         /\ buffer_len = msg.len
                         /\ \E m \in alloc : heap[m].addr = msg.from
    /\ stage # "recv" => /\ msg.from \in Addr /\ peer = Bytes(msg.from)
                         /\ msg.len \in Nat \ {0}

IInv == TP!IInv /\ TypeOK /\ Remembered /\ InHand

\* What the table's invariant says of the members, and of a finished broadcast.
LEMMA Members ==
    ASSUME TP!IInv
    PROVE  /\ Cells
           /\ \A n \in alloc : /\ heap[n].addr \in Addr
                               /\ heap[n].recv_fd \in Fd \cup {NULL}
                               /\ heap[n].recv_fd = heard[heap[n].addr].fd
           /\ pc = "every" /\ p = NULL => called = {heap[n].addr : n \in alloc}
<1>1. Cells
  BY CellsOf
<1>2. ASSUME NEW n \in alloc
      PROVE  /\ heap[n].addr \in Addr /\ heap[n].recv_fd \in Fd \cup {NULL}
             /\ heap[n].recv_fd = heard[heap[n].addr].fd
  <2>1. heap[n] \in Table!Cell
    BY <1>1 DEF Cells
  <2> QED
    BY <2>1 DEF TP!IInv, TP!Contents, TP!LastAccepted, Table!Cell
<1>3. pc = "every" /\ p = NULL => called = {heap[n].addr : n \in alloc}
  BY DEF TP!IInv, TP!Shape, TP!Calling, TP!Passed
<1> QED
  BY <1>1, <1>2, <1>3

LEMMA InitHolds ==
    ASSUME Init
    PROVE  IInv
<1>1. TP!IInv
  BY TableInit DEF Init
<1>2. TypeOK
  <2>1. [c \in 1..MSG_TOTAL_LEN |-> Zero] \in [1..MSG_TOTAL_LEN -> Char]
    BY FixedChars
  <2>2. Nothing \in [fd : Fd \cup {NULL}, to : Storage, text : Seq(Char)]
    BY ZeroedType DEF Nothing
  <2>3. NoMessage \in [from : Addr \cup {NULL}, len : Nat]
    BY DEF NoMessage
  <2>4. [m \in Node |-> Zeroed] \in [Node -> Storage]
    BY ZeroedType
  <2> QED
    BY <2>1, <2>2, <2>3, <2>4, ZeroedType DEF Init, TypeOK
<1>3. Remembered /\ InHand
  BY DEF Init, Table!Init, Remembered, InHand
<1> QED
  BY <1>1, <1>2, <1>3 DEF IInv

LEMMA ReceiveKeeps ==
    ASSUME IInv, NEW a \in Addr, NEW f \in Fd, NEW len \in Lens, Receive(a, f, len)
    PROVE  IInv'
<1>1. /\ stage' = "update" /\ peer' = Bytes(a)
      /\ msg' = [from |-> a, len |-> len] /\ len \in Nat \ {0}
      /\ UNCHANGED <<buffer_len, stored, return_buffer, out>>
  BY MsgHandleAssumption DEF Receive, Taken, PeerZeroed, Bytes
<1>2. /\ UNCHANGED <<alloc, heap>> /\ pc' = "update" /\ user'.addr = a
  BY DEF Receive, Table!UpdateCall, Table!tableVars, Table!NewUser
<1>3. TP!IInv'
  BY TableKeeps DEF IInv, Receive, Table!Next
<1>4. TypeOK'
  <2>1. Bytes(a) \in Storage
    BY MsgHandleAssumption, BytesType
  <2> QED
    BY <1>1, <2>1 DEF IInv, TypeOK
<1>5. Remembered'
  BY <1>1, <1>2 DEF IInv, Remembered
<1>6. InHand'
  BY <1>1, <1>2 DEF InHand
<1> QED
  BY <1>3, <1>4, <1>5, <1>6 DEF IInv

\* The text of a time-out, to the client that is about to be removed.
LEMMA KickTells ==
    ASSUME IInv, Kick
    PROVE  /\ return_buffer' \in [1..MSG_TOTAL_LEN -> Char]
           /\ out' \in [fd : Fd \cup {NULL}, to : Storage, text : Seq(Char)]
           /\ p \in alloc /\ alloc' = alloc \ {p}
           /\ out'.to = Bytes(heap[p].addr)
           /\ out'.text = Text(0, TimeoutStr, TimeoutLen)
<1>1. p \in alloc /\ alloc' = alloc \ {p}
  BY CellsOf, KickStays DEF IInv, Kick
<1>2. SendTo(heap[p].recv_fd, stored[p], 0, TimeoutStr, TimeoutLen)
  BY DEF Kick, TellKicked, Tell
<1>3. heap[p].recv_fd \in Fd \cup {NULL} /\ stored[p] = Bytes(heap[p].addr)
  BY <1>1, Members DEF IInv, Remembered
<1>4. stored[p] \in Storage
  BY <1>1, CellsOf DEF IInv, TypeOK, Cells
<1>5. TypeOK /\ TimeoutStr \in Body /\ TimeoutLen \in Nat \ {0} /\ 0 \in Ids
  BY TimeoutStrType, MsgHandleAssumption DEF IInv, Ids
<1>6. Says(heap[p].recv_fd, stored[p], Text(0, TimeoutStr, TimeoutLen))
  BY <1>2, <1>3, <1>4, <1>5, Sent
<1> QED
  BY <1>1, <1>3, <1>6 DEF Says

\* The walk: the new cell, if any, gets the user and the bytes in peeraddr.
LEMMA UpdateKeeps ==
    ASSUME IInv, Kick \/ Walk \/ Done
    PROVE  IInv'
<1>1. /\ Table!Update
      /\ Stored \/ (alloc' = alloc /\ stored' = stored)
      /\ peer' = peer
  BY DEF Kick, Walk, Done, Table!Update, Table!Skip, Table!tableVars
<1>2. pc = "update" /\ (pc' = "idle" \/ (pc' = "update" /\ user' = user))
  BY <1>1, UpdatePc
<1>3. stage = "update" /\ user.addr = msg.from /\ msg.from \in Addr
      /\ peer = Bytes(msg.from) /\ msg.len \in Nat \ {0}
  BY <1>2 DEF IInv, InHand, TypeOK
<1>4. TP!IInv'
  BY <1>1, TableKeeps DEF IInv, Table!Next, Table!TableStep
<1>5. Cells /\ alloc' \subseteq Node /\ ClientsKept
  BY <1>1, <1>4, CellsOf, UpdateStays DEF IInv, TP!IInv, TP!TypeOK
<1>6. stored' \in [Node -> Storage]
  <2>1. CASE Stored
    <3>1. \A m \in Node : stored[m] \in Storage /\ peer \in Storage
      BY DEF IInv, TypeOK
    <3> QED
      BY <2>1, <3>1, ZeroedType DEF Stored
  <2>2. CASE stored' = stored
    BY <2>2 DEF IInv, TypeOK
  <2> QED
    BY <1>1, <2>1, <2>2
<1>7. Remembered'
  <2> SUFFICES ASSUME NEW m \in alloc'
               PROVE  heap'[m].addr \in Addr /\ stored'[m] = Bytes(heap'[m].addr)
    BY DEF Remembered
  <2>1. m \in Node
    BY <1>5
  <2>2. CASE m \in alloc
    <3>1. heap'[m].addr = heap[m].addr /\ stored'[m] = stored[m]
      BY <1>1, <1>5, <2>1, <2>2 DEF ClientsKept, Stored
    <3> QED
      BY <2>2, <3>1 DEF IInv, Remembered
  <2>3. CASE m \notin alloc
    <3>1. heap'[m].addr = user.addr /\ stored'[m] = peer
      BY <1>1, <1>5, <2>1, <2>3 DEF ClientsKept, Stored
    <3> QED
      BY <1>3, <3>1
  <2> QED
    BY <2>2, <2>3
<1>8. TypeOK' /\ InHand'
  <2>1. CASE Kick
    <3>1. UNCHANGED <<stage, peer, msg, buffer_len>> /\ pc' = "update" /\ user' = user
      BY <1>2, <2>1 DEF Kick, Table!Kick
    <3>2. TypeOK'
      BY <1>6, <2>1, <3>1, KickTells DEF IInv, TypeOK
    <3> QED
      BY <1>3, <3>1, <3>2 DEF InHand
  <2>2. CASE Walk
    <3>1. /\ UNCHANGED <<stage, peer, msg, buffer_len, stored, return_buffer, out>>
          /\ pc' = "update" /\ user' = user
      BY <1>2, <2>2 DEF Walk, Table!Skip
    <3> QED
      BY <1>3, <3>1 DEF IInv, TypeOK, InHand
  <2>3. CASE Done /\ Drop
    <3>1. /\ Handled /\ pc' = "idle" /\ UNCHANGED <<peer, return_buffer>>
      BY <2>3 DEF Done
    <3>2. Nothing \in [fd : Fd \cup {NULL}, to : Storage, text : Seq(Char)]
      BY ZeroedType DEF Nothing
    <3>3. NoMessage \in [from : Addr \cup {NULL}, len : Nat]
      BY DEF NoMessage
    <3>4. TypeOK'
      BY <1>6, <3>1, <3>2, <3>3 DEF IInv, TypeOK, Handled
    <3> QED
      BY <3>1, <3>4 DEF InHand, Handled
  <2>4. CASE Done /\ ~Drop
    <3>1. /\ stage' = "send" /\ buffer_len' = msg.len /\ pc' = "idle" /\ ret' # 1
          /\ UNCHANGED <<peer, msg, return_buffer, out>>
      BY <2>4 DEF Done, Drop
    <3>2. \E m \in alloc' : heap'[m].addr = user.addr
      BY <1>1, <1>5, <3>1, AcceptedIn
    <3>3. TypeOK'
      BY <1>3, <1>6, <3>1 DEF IInv, TypeOK
    <3> QED
      BY <1>3, <3>1, <3>2, <3>3 DEF InHand
  <2> QED
    BY <2>1, <2>2, <2>3, <2>4
<1> QED
  BY <1>4, <1>7, <1>8 DEF IInv

\* The sender's text, to the member whose turn it is.
LEMMA SendTells ==
    ASSUME IInv, SendOne
    PROVE  /\ return_buffer' \in [1..MSG_TOTAL_LEN -> Char]
           /\ out' \in [fd : Fd \cup {NULL}, to : Storage, text : Seq(Char)]
           /\ out'.to = Bytes(heap[p].addr)
           /\ out'.fd = heard[heap[p].addr].fd
           /\ out'.text = Text(IdOf(Bytes(msg.from)), Buffer(msg), msg.len)
<1>1. stage = "send"
  BY DEF IInv, InHand, TypeOK, SendOne, Table!EveryUser
<1>2. msg.from \in Client /\ peer = Bytes(msg.from) /\ msg.len \in Nat \ {0} /\ buffer_len = msg.len
  BY <1>1, MsgHandleAssumption DEF IInv, InHand
<1>3. p \in alloc /\ p \in Node
  BY CellsOf DEF IInv, SendOne, Table!EveryUser, Cells
<1>4. /\ heap[p].recv_fd \in Fd \cup {NULL} /\ heap[p].recv_fd = heard[heap[p].addr].fd
      /\ stored[p] = Bytes(heap[p].addr) /\ stored[p] \in Storage
  BY <1>3, Members DEF IInv, Remembered, TypeOK
<1>5. IdOf(peer) \in Ids
  <2>1. IdOf(peer) \in 1..999
    BY <1>2, ClientId
  <2> QED
    BY <2>1 DEF Ids
<1>6. SendTo(heap[p].recv_fd, stored[p], IdOf(peer), Buffer(msg), msg.len)
  BY <1>2 DEF SendOne
<1>7. TypeOK /\ Buffer(msg) \in Body
  BY <1>2, BufferType DEF IInv
<1>8. Says(heap[p].recv_fd, stored[p], Text(IdOf(peer), Buffer(msg), msg.len))
  BY <1>2, <1>4, <1>5, <1>6, <1>7, Sent
<1> QED
  BY <1>2, <1>4, <1>8 DEF Says

LEMMA SendKeeps ==
    ASSUME IInv, SendAll \/ SendOne \/ SentAll
    PROVE  IInv'
<1>1. UNCHANGED <<alloc, heap, stored, peer>>
  BY DEF SendAll, SendOne, SentAll, Table!EveryCall, Table!EveryUser, Table!EveryReturn,
         Table!tableVars
<1>2. TP!IInv'
  BY TableKeeps DEF IInv, SendAll, SendOne, SentAll, Table!Next, Table!TableStep
<1>3. stage = "send" /\ pc' \in {"idle", "every"}
  BY DEF SendAll, SendOne, SentAll, Table!EveryCall, Table!EveryUser, Table!EveryReturn,
         IInv, InHand, TypeOK
<1>4. Remembered'
  BY <1>1 DEF IInv, Remembered
<1>5. TypeOK' /\ InHand'
  <2>1. CASE SendAll
    <3>1. UNCHANGED <<stage, msg, buffer_len, return_buffer, out>>
      BY <2>1 DEF SendAll
    <3> QED
      BY <1>1, <1>3, <3>1 DEF IInv, TypeOK, InHand
  <2>2. CASE SendOne
    <3>1. UNCHANGED <<stage, msg, buffer_len>>
      BY <2>2 DEF SendOne, LengthCopied
    <3>2. TypeOK'
      BY <1>1, <2>2, <3>1, SendTells DEF IInv, TypeOK
    <3> QED
      BY <1>1, <1>3, <3>1, <3>2 DEF IInv, InHand
  <2>3. CASE SentAll
    <3>1. Handled /\ pc' = "idle" /\ UNCHANGED return_buffer
      BY <2>3 DEF SentAll, Table!EveryReturn
    <3>2. Nothing \in [fd : Fd \cup {NULL}, to : Storage, text : Seq(Char)]
      BY ZeroedType DEF Nothing
    <3>3. NoMessage \in [from : Addr \cup {NULL}, len : Nat]
      BY DEF NoMessage
    <3>4. TypeOK'
      BY <1>1, <3>1, <3>2, <3>3 DEF IInv, TypeOK, Handled
    <3> QED
      BY <3>1, <3>4 DEF InHand, Handled
  <2> QED
    BY <2>1, <2>2, <2>3
<1> QED
  BY <1>2, <1>4, <1>5 DEF IInv

LEMMA TickKeeps ==
    ASSUME IInv, Tick \/ UNCHANGED vars
    PROVE  IInv'
<1>1. UNCHANGED <<alloc, heap, pc, user, stage, peer, msg, buffer_len, stored,
                  return_buffer, out>>
  BY DEF Tick, Table!Tick, Table!tableVars, vars, tableVars
<1>2. TP!IInv'
  BY TableKeeps DEF IInv, Tick, Table!Next, vars
<1> QED
  BY <1>1, <1>2 DEF IInv, TypeOK, Remembered, InHand

LEMMA Inductive == Spec => []IInv
<1>1. Init => IInv
  BY InitHolds
<1>2. IInv /\ [Next]_vars => IInv'
  BY ReceiveKeeps, UpdateKeeps, SendKeeps, TickKeeps DEF Next, Step
<1> QED
  BY <1>1, <1>2, PTL DEF Spec

-----------------------------------------------------------------------------
(* The theorems *)

\* The datagram in hand, the bytes of every cell, the formatter's buffer and
\* what was sent last are what their C types hold; what is shown has 3 digits.
THEOREM TypeCorrect == Spec => []TypeOK
<1>1. IInv => TypeOK
  BY DEF IInv
<1> QED
  BY <1>1, Inductive, PTL

\* While a datagram is in hand, sockaddr_cmp takes its sender for the user of
\* a cell if and only if it is that client, whatever clients came before.
THEOREM SenderFound == Spec => []AddressTold
<1>1. IInv => AddressTold
  <2> SUFFICES ASSUME IInv, stage # "recv", NEW m \in alloc
               PROVE  sockaddr_cmp(stored[m], peer, addr_len(stored[m])) = 0
                        <=> heap[m].addr = msg.from
    BY DEF AddressTold
  <2>1. /\ stored[m] = Bytes(heap[m].addr) /\ peer = Bytes(msg.from)
        /\ heap[m].addr \in Client /\ msg.from \in Client
    BY MsgHandleAssumption DEF IInv, Remembered, InHand
  <2> QED
    BY <2>1, ToldApart DEF Bytes
<1> QED
  BY <1>1, Inductive, PTL

\* msg_formatter writes and returns no more than its buffer has, whatever the
\* length: an empty datagram, for which the length would wrap, never gets there.
\* Every user has an id in 1..999 and only 999 is shown as 0.
THEOREM FormatterFits == Spec => []InBuffer
<1>1. IInv => InBuffer
  <2> SUFFICES ASSUME IInv PROVE InBuffer
    OBVIOUS
  <2>1. stage # "recv" => FormattedLen(msg.len) \in BodyAt + 1..MSG_TOTAL_LEN
    BY FormattedFits DEF IInv, InHand
  <2>2. ASSUME NEW m \in alloc
        PROVE  /\ IdOf(stored[m]) \in 1..999
               /\ Shown(IdOf(stored[m])) = 0 <=> IdOf(stored[m]) = 999
    <3>1. stored[m] = Bytes(heap[m].addr) /\ heap[m].addr \in Client
      BY MsgHandleAssumption DEF IInv, Remembered
    <3> QED
      BY <3>1, ClientId
  <2> QED
    BY <2>1, <2>2 DEF InBuffer
<1> QED
  BY <1>1, Inductive, PTL

\* Only a call-back of the broadcast changes who was called without ending it.
LEMMA CallBack ==
    ASSUME IInv, Next, stage = "send", called' # called, pc' = pc
    PROVE  SendOne
<1>1. pc \in {"idle", "every"}
  BY DEF IInv, InHand
<1>2. ~Kick /\ ~Walk /\ ~Done
  BY <1>1, UpdatePc DEF Kick, Walk, Done, Table!Update
<1>3. ~Tick /\ ~SendAll /\ ~SentAll
  BY <1>1 DEF Tick, Table!Tick, SendAll, Table!EveryCall, SentAll, Table!EveryReturn
<1>4. ASSUME NEW a \in Addr, NEW f \in Fd, NEW len \in Lens PROVE ~Receive(a, f, len)
  BY DEF Receive
<1> QED
  BY <1>2, <1>3, <1>4 DEF Next, Step

\* Each user is sent the sender's whole text, put together anew for it, at its
\* own address and on the socket of its last accepted message.
THEOREM TextsDelivered == Spec => Delivered
<1>1. IInv /\ [Next]_vars =>
        [stage = "send" /\ called' # called /\ pc' = pc
           => /\ out'.text = Text(IdOf(Bytes(msg.from)), Buffer(msg), msg.len)
              /\ out'.to = Bytes(heap[p].addr)
              /\ heard[heap[p].addr].fd = out'.fd]_vars
  <2> SUFFICES ASSUME IInv, Next, stage = "send", called' # called, pc' = pc
               PROVE  /\ out'.text = Text(IdOf(Bytes(msg.from)), Buffer(msg), msg.len)
                      /\ out'.to = Bytes(heap[p].addr)
                      /\ heard[heap[p].addr].fd = out'.fd
    BY DEF vars, tableVars
  <2> QED
    BY CallBack, SendTells
<1> QED
  BY <1>1, Inductive, PTL DEF Spec, Delivered

\* The sender is in the table when the broadcast begins and when it ends, and
\* a broadcast that ends has reached whoever is in the table.
THEOREM SenderServed == Spec => SenderHears
<1>1. IInv /\ [Next]_vars =>
        [stage = "send" /\ stage' # "send" => msg.from \in called]_vars
  <2> SUFFICES ASSUME IInv, Next, stage = "send", stage' # "send"
               PROVE  msg.from \in called
    BY DEF vars
  <2>1. pc \in {"idle", "every"}
    BY DEF IInv, InHand
  <2>2. SentAll
    BY <2>1, UpdatePc
    DEF Next, Step, Tick, Receive, Kick, Walk, Done, SendAll, SendOne, Table!Update
  <2>3. called = {heap[n].addr : n \in alloc}
    BY <2>2, Members DEF IInv, SentAll, Table!EveryReturn
  <2> QED
    BY <2>3 DEF IInv, InHand
<1> QED
  BY <1>1, Inductive, PTL DEF Spec, SenderHears

\* Only a time-out removes a user.
LEMMA Removal ==
    ASSUME Next, NEW m \in alloc, m \notin alloc'
    PROVE  Kick
BY DEF Next, Step, Tick, Table!Tick, Receive, Table!UpdateCall, Walk, Table!Skip,
       Done, Table!Update, Table!Spam, Table!RefreshInLoop, Table!RefreshLast,
       Table!Kick, Table!Join, Table!JoinFails, Table!NotFound, Table!PastLoop,
       Table!InLoop, SendAll, Table!EveryCall, SendOne, Table!EveryUser, SentAll,
       Table!EveryReturn, Table!tableVars

\* A user that is removed is told so by the server at its own address.
THEOREM RemovedTold == Spec => TimeoutTold
<1>1. IInv /\ [Next]_vars =>
        [\A m \in alloc \ alloc' :
           /\ out'.to = Bytes(heap[m].addr)
           /\ out'.text = Text(0, TimeoutStr, TimeoutLen)]_vars
  <2> SUFFICES ASSUME IInv, Next, NEW m \in alloc, m \notin alloc'
               PROVE  /\ out'.to = Bytes(heap[m].addr)
                      /\ out'.text = Text(0, TimeoutStr, TimeoutLen)
    OBVIOUS
  <2>1. Kick
    BY Removal
  <2> QED
    BY <2>1, KickTells
<1> QED
  BY <1>1, Inductive, PTL DEF Spec, TimeoutTold

\* Seen from the table, msg_handle and the clock take its steps and no others.
THEOREM TakesTableSteps == Spec => Table!Init /\ [][Table!Next]_tableVars
<1>1. Init => Table!Init
  BY DEF Init
<1>2. [Next]_vars => [Table!Next]_tableVars
  BY DEF Next, Step, Tick, Receive, Kick, Walk, Done, SendAll, SendOne, SentAll,
         Table!Next, Table!TableStep, Table!Update, vars
<1> QED
  BY <1>1, <1>2, PTL DEF Spec
=============================================================================
