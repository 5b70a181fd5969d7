---------------------------- MODULE MCMsgHandle -----------------------------
(***************************************************************************)
(* Two clients for MsgHandle: 255.255.255.234, whose sum is 999 before the *)
(* last reduction, and an IPv6 client with bytes where the IPv4 comparison *)
(* runs to.                                                                *)
(***************************************************************************)
EXTENDS MsgHandle

Client1 == [family |-> AF_INET, port |-> 7, ip |-> [k \in 0..3 |-> IF k = 3 THEN 234 ELSE 255]]
Client2 == [family |-> AF_INET6, port |-> 7, ip |-> [k \in 0..15 |-> 16 + k],
            scope |-> [k \in 0..3 |-> 1]]
Client3 == [Client1 EXCEPT !.port = 8]

Clients == {Client1, Client2, Client3}
=============================================================================
