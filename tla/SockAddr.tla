------------------------------ MODULE SockAddr ------------------------------
(***************************************************************************)
(* Addresses of clients as udpchat keeps them: what recvfrom leaves in a   *)
(* struct sockaddr_storage, how sockaddr_cmp (util/net.c) compares two of  *)
(* them byte by byte, and the id that user_calculate_id (users.c) makes of *)
(* one.  mem holds the bytes from offset 4 on; family and port lie before. *)
(***************************************************************************)
EXTENDS Integers

AF_INET == 2
AF_INET6 == 10

Byte == 0..255
Offset == 4..35     \* as far as sockaddr_cmp looks

\* A client is an address, a port and, for IPv6, the zone of the address.
Client4 == [family : {AF_INET}, port : Nat, ip : [0..3 -> Byte]]
Client6 == [family : {AF_INET6}, port : Nat, ip : [0..15 -> Byte], scope : [0..3 -> Byte]]
Client == Client4 \cup Client6

Storage == [family : {0, AF_INET, AF_INET6}, port : Nat, mem : [Offset -> Byte]]

\* struct sockaddr_storage peeraddr = {0}
Zeroed == [family |-> 0, port |-> 0, mem |-> [k \in Offset |-> 0]]

\* The kernel writes a sockaddr_in (sin_addr at 4, padding to 16) or a
\* sockaddr_in6 (flow label at 4, address at 8, scope at 24, to 28) and leaves
\* the bytes behind it as they were.
Address4(old, c) ==
    [k \in Offset |-> IF k < 8 THEN c.ip[k - 4] ELSE IF k < 16 THEN 0 ELSE old[k]]

Address6(old, c) ==
    [k \in Offset |-> IF k < 8 THEN 0
                      ELSE IF k < 24 THEN c.ip[k - 8]
                      ELSE IF k < 28 THEN c.scope[k - 24] ELSE old[k]]

RecvFrom(old, c) ==
    [family |-> c.family, port |-> c.port,
     mem |-> IF c.family = AF_INET THEN Address4(old.mem, c) ELSE Address6(old.mem, c)]

-----------------------------------------------------------------------------
(* sockaddr_cmp *)

Order(x, y) == IF x < y THEN -1 ELSE 1

memcmp(s, t, from, len) ==
    IF \A k \in from..from + len - 1 : s[k] = t[k] THEN 0
    ELSE LET k == CHOOSE k \in from..from + len - 1 :
                    s[k] # t[k] /\ \A j \in from..k - 1 : s[j] = t[j]
         IN Order(s[k], t[k])

Known(s) == s.family \in {AF_INET, AF_INET6}

\* The lengths are those of the whole structs, counted from the address: the
\* comparison runs into the bytes behind them.  Of an unknown family the first
\* len bytes of all are compared, those before mem first.
sockaddr_cmp_ip(s, t, len) ==
    IF s.family # t.family THEN Order(s.family, t.family)
    ELSE IF s.family = AF_INET THEN memcmp(s.mem, t.mem, 4, 16)
    ELSE memcmp(s.mem, t.mem, 8, 28)
sockaddr_cmp(s, t, len) ==
    IF s.family # t.family THEN Order(s.family, t.family)
    ELSE IF s.port # t.port THEN Order(s.port, t.port)
    ELSE IF s.family = AF_INET THEN memcmp(s.mem, t.mem, 4, 16)
    ELSE IF s.family = AF_INET6 THEN memcmp(s.mem, t.mem, 8, 28)
    ELSE memcmp(s.mem, t.mem, 4, len - 4)

\* The length recvfrom reports with an address.
addr_len(s) == IF s.family = AF_INET THEN 16 ELSE 28

-----------------------------------------------------------------------------
(* user_calculate_id: no sum reaches 2^16 *)

\* The loop over sixteen bytes, unrolled: two bytes, then a reduction.
Sum6(mem) ==
    LET Two(id, k) == (id + mem[k] + mem[k + 1]) % 997
    IN Two(Two(Two(Two(Two(Two(Two(Two(0, 8), 10), 12), 14), 16), 18), 20), 22)

Sum4(mem) == ((mem[4] + mem[5]) % 997) + mem[6] + mem[7]

\* 0 is what the server signs with.
NotZeroUnchecked(id) == id
NotZero(id) == IF id = 0 THEN 999 ELSE id

user_calculate_id(s) ==
    IF Known(s) THEN NotZero((IF s.family = AF_INET THEN Sum4(s.mem) ELSE Sum6(s.mem)) % 999)
    ELSE 0
=============================================================================
