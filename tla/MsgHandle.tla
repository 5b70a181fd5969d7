----------------------------- MODULE MsgHandle ------------------------------
(***************************************************************************)
(* One datagram on its way through udpchat: msg_handle (main.c) receives   *)
(* it, enters its sender in the table and sends it to every user, each     *)
(* time through msg_formatter (msg_formatter.c) and its static buffer;     *)
(* timeout_func uses the same buffer in the middle of user_table_update.   *)
(* UserTable gives the table's steps, with a whole address per client;     *)
(* here every cell keeps the bytes of it as well, in stored.               *)
(*                                                                         *)
(* Receive errors and the teardown of the table are UdpChat's.             *)
(***************************************************************************)
EXTENDS SockAddr, Sequences

CONSTANTS
    Addr,                         \* the clients, a set of Client
    Fd, Node, NULL, Timeout, MaxNow,          \* as in UserTable
    MSG_BODY_LEN,
    Lens,                         \* what recvfrom may return
    TimeoutLen,                   \* sizeof(MSG_USR_TIMEOUT_STR)
    SIZE_MAX

ASSUME MsgHandleAssumption ==
    /\ Addr \subseteq Client
    /\ NULL \notin Node \cup Addr \cup Fd
    /\ NULL \notin [last : Nat, slot : Nat, fd : Fd \cup {NULL}]
    /\ Timeout \in Nat /\ MaxNow \in Nat
    /\ MSG_BODY_LEN \in Nat \ {0}
    /\ Lens \subseteq Nat
    /\ TimeoutLen \in Nat \ {0}
    /\ SIZE_MAX \in Nat /\ SIZE_MAX > MSG_BODY_LEN

VARIABLES
    alloc, heap, start, end, now, pc, user, p, ret, called, heard,

    stage,          \* where msg_handle is: "recv", "update" or "send"
    peer,           \* its local peeraddr
    msg,            \* the datagram: who sent it and its length
    buffer_len,     \* of sendall_args
    stored,         \* the addr field of every cell, as bytes
    return_buffer,  \* of msg_formatter
    out             \* what sendto was last called with

Table == INSTANCE UserTable

tableVars == <<alloc, heap, start, end, now, pc, user, p, ret, called, heard>>
vars == <<tableVars, stage, peer, msg, buffer_len, stored, return_buffer, out>>

-----------------------------------------------------------------------------
(* msg_formatter.  A character is <<"id", number shown, digit>>,           *)
(* <<"body", id of the writer, index>> or <<"", 0, c>>.                    *)

MSG_ID_LEN == 4
MSG_F_LEN == 3
MSG_TOTAL_LEN == 1 + (MSG_ID_LEN - 1) + (MSG_F_LEN - 1) + MSG_BODY_LEN

Zero == <<"", 0, 0>>
NewLine == <<"", 0, 10>>
Bar == <<<<"", 0, 124>>, <<"", 0, 32>>>>

\* Bytes of the body that are copied, a size_t.
Copied(len) ==
    ((IF len < MSG_BODY_LEN THEN len ELSE MSG_BODY_LEN) - 1) % (SIZE_MAX + 1)

BodyAt == (MSG_ID_LEN - 1) + (MSG_F_LEN - 1)

FormattedLen(len) == BodyAt + Copied(len) + 1

ShownWhole(id) == id
Shown(id) == id % 999

\* return_buffer afterwards; what is not written stays.
Formatted(id, body, len) ==
    [c \in 1..MSG_TOTAL_LEN |->
        CASE c < MSG_ID_LEN -> <<"id", Shown(id), c>>
          [] c >= MSG_ID_LEN /\ c <= BodyAt -> Bar[c - MSG_ID_LEN + 1]
          [] c > BodyAt /\ c <= BodyAt + Copied(len) -> body[c - BodyAt]
          [] c = FormattedLen(len) \/ c = MSG_TOTAL_LEN -> NewLine
          [] OTHER -> return_buffer[c]]

-----------------------------------------------------------------------------
(* Addresses in memory *)

Bytes(a) == RecvFrom(Zeroed, a)
IdOf(s) == user_calculate_id(s)

\* The receive buffer: the message, then the zeros it was initialised with.
Buffer(m) ==
    [k \in 1..MSG_BODY_LEN |->
        IF k <= m.len THEN <<"body", IdOf(Bytes(m.from)), k>> ELSE Zero]

\* MSG_USR_TIMEOUT_STR is nobody's; the server is 0.
TimeoutStr == [k \in 1..MSG_BODY_LEN |-> <<"body", 0, k>>]

\* A cell that is freed is wiped; a new one is a copy of the user.
Stored ==
    stored' = [m \in Node |-> IF m \notin alloc' THEN Zeroed
                              ELSE IF m \notin alloc THEN peer ELSE stored[m]]

\* sendto with what msg_formatter returned.
SendTo(fd, to, id, body, len) ==
    /\ return_buffer' = Formatted(id, body, len)
    /\ out' = [fd |-> fd, to |-> to,
               text |-> SubSeq(return_buffer', 1, FormattedLen(len))]

NoMessage == [from |-> NULL, len |-> 0]
Nothing == [fd |-> NULL, to |-> Zeroed, text |-> <<>>]

Init ==
    /\ Table!Init
    /\ stage = "recv"
    /\ peer = Zeroed
    /\ msg = NoMessage
    /\ buffer_len = 0
    /\ stored = [m \in Node |-> Zeroed]
    /\ return_buffer = [c \in 1..MSG_TOTAL_LEN |-> Zero]
    /\ out = Nothing

Tick ==
    /\ Table!Tick
    /\ UNCHANGED <<stage, peer, msg, buffer_len, stored, return_buffer, out>>

-----------------------------------------------------------------------------
(* msg_handle *)

PeerStale == peer
PeerZeroed == Zeroed

TakenAlways(len) == TRUE
Taken(len) == len # 0

\* peeraddr starts as zeros in every call; an empty datagram is ignored.
Receive(a, f, len) ==
    /\ stage = "recv" /\ Taken(len)
    /\ Table!UpdateCall(a, f)
    /\ stage' = "update"
    /\ peer' = RecvFrom(PeerZeroed, a)
    /\ msg' = [from |-> a, len |-> len]
    /\ UNCHANGED <<buffer_len, stored, return_buffer, out>>

\* Back in the server loop; the datagram's buffers go out of scope.
Handled ==
    /\ stage' = "recv"
    /\ msg' = NoMessage
    /\ buffer_len' = 0
    /\ out' = Nothing

\* timeout_func says it MSG_USR_TIMEOUT_COUNT times, while the cell is whole.
Tell(u, to) == SendTo(u.recv_fd, to, 0, TimeoutStr, TimeoutLen)
TellSender == Tell(user, peer)
TellKicked == Tell(heap[p], stored[p])

Kick ==
    /\ Table!Kick
    /\ TellKicked
    /\ Stored
    /\ UNCHANGED <<stage, peer, msg, buffer_len>>

Walk ==
    /\ Table!Skip
    /\ UNCHANGED <<stage, peer, msg, buffer_len, stored, return_buffer, out>>

\* The result 1 drops the message, any other sends it.
DropNever == FALSE
Drop == ret' = 1

Done ==
    /\ Table!Update /\ pc' = "idle"
    /\ IF Drop THEN Handled
       ELSE stage' = "send" /\ buffer_len' = msg.len /\ UNCHANGED <<msg, out>>
    /\ Stored
    /\ UNCHANGED <<peer, return_buffer>>

SendAll ==
    /\ stage = "send"
    /\ Table!EveryCall
    /\ UNCHANGED <<stage, peer, msg, buffer_len, stored, return_buffer, out>>

\* sendall_func: msg_formatter's in-out length is a copy of buffer_len.
LengthInOut == FormattedLen(buffer_len)
LengthCopied == buffer_len

SendOne ==
    /\ Table!EveryUser
    /\ SendTo(heap[p].recv_fd, stored[p], IdOf(peer), Buffer(msg), buffer_len)
    /\ buffer_len' = LengthCopied
    /\ UNCHANGED <<stage, peer, msg, stored>>

SentAll ==
    /\ Table!EveryReturn
    /\ Handled
    /\ UNCHANGED <<peer, stored, return_buffer>>

Step == Kick \/ Walk \/ Done \/ SendAll \/ SendOne \/ SentAll

Next ==
    \/ Tick
    \/ \E a \in Addr, f \in Fd, len \in Lens : Receive(a, f, len)
    \/ Step

\* The master thread runs a call of msg_handle to its end.
Spec == Init /\ [][Next]_vars /\ WF_vars(Step)

-----------------------------------------------------------------------------
(* Properties *)

\* A number shown has three digits.
Char ==
    ({""} \X {0} \X Nat) \cup ({"id"} \X (0..998) \X (1..3))
      \cup ({"body"} \X (0..999) \X Nat)

TypeOK ==
    /\ stage \in {"recv", "update", "send"}
    /\ peer \in Storage
    /\ msg \in [from : Addr \cup {NULL}, len : Nat]
    /\ buffer_len \in Nat
    /\ stored \in [Node -> Storage]
    /\ return_buffer \in [1..MSG_TOTAL_LEN -> Char]
    /\ out \in [fd : Fd \cup {NULL}, to : Storage, text : Seq(Char)]

\* The bytes tell clients apart exactly as the clients differ: a sender is
\* taken for the user of a cell if and only if it is that client, though the
\* comparison reads the bytes behind both addresses.
AddressTold ==
    stage # "recv" =>
      \A m \in alloc : sockaddr_cmp(stored[m], peer, addr_len(stored[m])) = 0 <=> heap[m].addr = msg.from

\* No message the formatter is called with is copied past the end of its
\* buffer and none is sent beyond what was written.  The ids of users are 1 to
\* 999, and of these exactly 999, which user_calculate_id puts in the place of
\* 0, reads as the server's 0: the formatter prints ids modulo 999.
InBuffer ==
    /\ stage # "recv" => FormattedLen(msg.len) \in BodyAt + 1..MSG_TOTAL_LEN
    /\ \A m \in alloc :
         LET id == IdOf(stored[m])
         IN id \in 1..999 /\ (Shown(id) = 0 <=> id = 999)

\* The message as its receivers should read it, put together in order.
Text(id, body, len) ==
    [c \in 1..3 |-> <<"id", id % 999, c>>] \o Bar
      \o SubSeq(body, 1, (IF len < MSG_BODY_LEN THEN len ELSE MSG_BODY_LEN) - 1)
      \o <<NewLine>>

\* Each user in turn gets the sender's whole text, whoever was formatted for
\* before and whatever the buffer last held, time-outs of this call included.
Delivered ==
    [][stage = "send" /\ called' # called /\ pc' = pc
         => /\ out'.text = Text(IdOf(Bytes(msg.from)), Buffer(msg), msg.len)
            /\ out'.to = Bytes(heap[p].addr)
            /\ heard[heap[p].addr].fd = out'.fd]_vars

\* A message that was formatted for anybody came back to its sender too: it
\* is in the table by then, and stays there until the last one is served.
SenderHears == [][stage = "send" /\ stage' # "send" => msg.from \in called]_vars

\* Who is removed is told so, at its own address, before its cell is wiped.
TimeoutTold ==
    [][\A m \in alloc \ alloc' :
         /\ out'.to = Bytes(heap[m].addr)
         /\ out'.text = Text(0, TimeoutStr, TimeoutLen)]_vars

\* Every datagram is dealt with: both walks over the table end.
CallsReturn == stage # "recv" ~> stage = "recv"
=============================================================================
