# A verification project for csockets

csockets is a folder of small socket programs in C. Its largest program, `udpchat`, is a chat
server over UDP with a master thread, a timed table of users on the heap and an orderly
shutdown; the others are an echo server over UDP with a thread per socket (`udpecho`), a
printing TCP server around one `poll` (`tcpPrintServer_poll`), and a one-client TCP echo server
(`tcpEchoServer`).

This directory holds TLA+ modules translated from that code, the configurations under which
TLC checks them, and proofs that TLAPS checks. Paths below are relative to `src/`.

## The system

| component | state it keeps | operations | modelled by |
|---|---|---|---|
| `udpchat`: user table (`udpchat/src/users.c`) | a doubly linked list of `struct user` on the heap, `start`, `end`, `timeout` | `user_table_init`, `_update`, `_every`, `_free`, `user_calculate_id` | `UserTable`, promises in `Roster`; ids in `SockAddr` |
| `udpchat`: server threads (`udpchat/src/main.c`) | `sfd_arr`, the address list, `run`, `poll_arr`, where each thread is, the pending signal | `main`, `master_func`, `msg_handle`, `sendall_func`, `timeout_func` | `Startup` and `UdpChat` (threads, sockets), `MsgHandle` (content of a datagram) |
| `udpchat`: formatter (`msg_formatter.c`) | one reused static buffer | `msg_formatter` | `MsgHandle` |
| `udpchat`: `util/net.c` | a reused text buffer for the log | `create_addrinfo`, `sockaddr_cmp`, `addr2str` | `Startup`, `SockAddr`; not `addr2str` |
| `udpchat`: `util/print.h` | a lock it takes and releases itself | `perror`, `pwarn`, ... | no: output only |
| `udpecho` (`udpecho/main.c`) | sockets, one thread per socket with its flag `run`, the log's lock | `main`, `create_addrinfo`, `rw_loop_func`, `perr`, `pwarn`, `pdebug` | `Startup`, `UdpEcho` |
| `tcpPrintServer_poll` (`socketloop.c`, `clienthandle.c`) | an array of poll slots | `create_socket`, `socketloop`, `clienthandle` | `SocketLoop` |
| `tcpEchoServer` (`src/main.c`) | a buffer, a count of bytes still to be read | `socket_v4`, `client_handle` | `TcpEcho` |
| `udpmsg/main.c`, `demojs/test.js`, the `main.old.c` files | none, or not built | | no |

How the parts of `udpchat` interact. The main thread resolves the addresses on its command line
into one list, binds a socket for each entry until the array is full, creates the master thread,
and sleeps in `sigwait` with SIGTERM and SIGINT blocked. The master thread polls all sockets; for
a readable one it calls `msg_handle`, which receives a datagram, fills in a `struct user` with
the sender's address, the receiving socket and `time(NULL)`, and calls `user_table_update`. That
call looks the sender up (`sockaddr_cmp`), rejects it as spam, refreshes it or appends it, and
removes users who have been silent for too long from the cells it passes, calling back
`timeout_func` for each, which sends them a text through `msg_formatter`. If it accepted the
message, `user_table_every` calls back `sendall_func` for every user, which formats the message
for each and sends it. On a signal the main thread clears `run`, shuts all sockets down (which
wakes `poll` and `recvfrom`), joins the master thread and closes the sockets. The threads share
`run` and the sockets and nothing else.

What is hard in it, and where: the list changes under the walk that reads it, and the walk never
examines its last cell in the loop (users.c:26), so the last user follows different rules; the
clock is read anew for each cell (users.c:41); two refreshes are written twice and differently
(users.c:35, users.c:73); every user names a socket another thread will close (main.c:214); the
signal can arrive at any step of the other thread (main.c:207); a datagram that made a socket
readable may be gone when `recvfrom` is called on a blocking socket (main.c:317); the socket
array has a limit (main.c:171); the list of addresses is freed by whoever gives up first
(util/net.c:59); addresses are compared over more bytes than they have (util/net.c:128); the
formatter's one buffer serves the text of a time-out in the middle of another user's message
(msg_formatter.c:30), and its length argument is overwritten by each call (main.c:388).
`PROJECT.json` lists each hazard at its line with the properties that would catch it.

In `udpecho` the hard part is the end: each thread sits in `recvfrom` on a socket that may stay
silent, looks at an atomic flag at least every five seconds, reads its arguments from main's
frame, writes its log under a lock that main destroys, and may already have ended on an error;
and starting the threads may fail half-way. In `tcpPrintServer_poll` it is the array of poll
slots: when nothing happens for five seconds the loop closes all clients and keeps their numbers
(socketloop.c:38), which `accept` then hands out again, so that two slots share one connection.
In `tcpEchoServer` it is the byte stream: a message comes in any pieces, `read` may fail, and a
failure counts as -1 bytes (main.c:100), so that the room for the next read grows.

What makes each part correct:

- table: no pointer to a freed cell is followed; the list reaches every cell, in both
  directions; an address occurs once; the spam rule holds at every list position; the walks
  reach everybody; every call returns;
- server: no socket, address list or user is leaked, and no socket is used after it is closed; a
  signal ends the program wherever the other thread is; no readable socket starves; the table is
  used through its interface, one call at a time;
- a message: its sender is recognised if and only if it is that client; every user gets the
  sender's text, whole, on the socket it last wrote to; a user is told of its removal; nothing is
  written past the formatter's buffer;
- `udpecho`: no thread outlives its socket or main's frame, and none keeps the lock; a signal
  ends all of them although nothing arrives; a failing socket does not disturb the others;
- `tcpPrintServer_poll`: no connection is lost from the slots; the scan closes none while its client
  is there or before what it sent was read, the time-out only those that were quiet when `poll` gave
  up; leavers and newcomers are noticed whatever the other clients do;
- `tcpEchoServer`: nobody is answered before all its bytes came, nor with another's bytes where its
  own last ones belong, no read overruns the buffer, and a failing `accept` or a broken connection before the answer does not end the server.

## The modules

**`UserTable`** is the linked list. `alloc` and `heap` are the memory: `heap` maps each cell to
a `struct user` (address, receiving socket, `last_msg`, `last_msg_xs`, `next`, `prev`), `alloc`
is the set of cells `malloc` has handed out and `free` has not taken back, so following a
dangling pointer is a fact the model can express. `start` and `end` are the fields of
`struct user_table`. `pc`, `user` and `p` are the call in progress, its argument and its local
pointer; `p` stands for `tmp` inside the loop of `user_table_update`, for `p` behind it, and
for `prev` in `user_table_free`. One action is one iteration of a loop, because `time(NULL)` is
read in each: `Spam`, `RefreshInLoop`, `Kick` and `Skip` are the branches of the loop body,
`RefreshLast`, `Join` and `JoinFails` what follows the loop, `EveryUser`, `FreeUser`, `FreeLast`
and `FreeNull` the other two functions. `malloc` picks any free cell or fails whenever it likes.
`heard` and `called` are history variables: the last accepted message of each address, and the
users called back so far. Addresses are values here; their bytes are in `MsgHandle`.

**`Roster`** is what the table promises, with no list: a function from addresses to what is
known of each member, who joined last (`newest`), and the only ways that may change (`Accept`,
`Kick`, `Drop`, `Close`, the clock). The member that joined last is the only one whose silence is
not counted anew when it speaks, and the only one that cannot be removed. `UserTable!TheRoster` is
the refinement mapping, which finds `newest` in the cell `end` points at; `ImplementsRoster` is its
specification.

**`Startup`** is what the mains of `udpchat` and `udpecho` share, word for word: `create_addrinfo`
with its growing list (`addrs` counts the entries that are allocated, `list` those the pointer
reaches, so a leak or a second free is their difference), the loop that binds a socket for each
entry, and the loop and call that give both back. Descriptors are numbers and `socket` returns
the lowest that is free. `UdpChat` and `UdpEcho` extend it and say what happens in between.

**`UdpChat`** is the server. It instantiates `UserTable` on its own variables and adds to
`Startup`'s main thread the master thread (`master`, `n`, `revents`), the flag `run` and what the
kernel keeps (`open`, `shut`, `queue`, `failed`, `sig`). One action is one system call with the
code up to the next one, or one step of the table. A socket's readiness is the set of flags
`poll` would report; the `switch` in `master_func` compares with single flags only, so every
combination is passed over (`ScanNext`), as in the code. A socket that was shut down is reported
hung up, with or without being readable. `recvfrom` blocks on a socket that has nothing to read:
no action of the master thread is then enabled. A datagram is its sender only. `run`, a plain
`volatile bool` written by one thread and read by the other, is modelled as atomic.

**`SockAddr`** is an address as bytes: what `recvfrom` leaves in a `struct sockaddr_storage` of an
IPv4 or IPv6 client (and what it leaves as it was), `sockaddr_cmp` with its `memcmp` over the
length of the whole struct from the address on, and `user_calculate_id`, both with what they do of
a family they do not know.

**`MsgHandle`** follows the content of one datagram from `recvfrom` to `sendto`. It instantiates
`UserTable` for the walks, with addresses of `SockAddr`; `stored` holds the bytes of the `addr`
field of every cell, `peer` the local `peeraddr`, `return_buffer` the formatter's static buffer,
`out` the last `sendto`. A character is a pair of what it is part of and its place there, enough
to tell whose text it is. A length is a `size_t`: it wraps at `SIZE_MAX`.
The several identical datagrams that `timeout_func` sends are one. Receive errors and the
teardown are `UdpChat`'s.

**`UdpEcho`** is udpecho: after `Startup`'s bind loop, `main` walks through the loop that starts
the threads, `sigwait`, and the loops that stop, join and close; `thread[k]` and `run[k]` are the
thread of socket `k` and its flag. `RecvTimeout` is `EAGAIN`, which SO_RCVTIMEO makes certain; a
failing socket is one the network broke. `says[k]` means that thread `k` has a log record to
write before it goes on, `log` is the holder of `log_mutex`; main takes it as well.

**`SocketLoop`** is tcpPrintServer_poll: `fd` and `revents` are the client slots of `fds`,
`listener` the `revents` of slot 0, `open`, `data` and `peer` what the kernel knows of each
descriptor. Descriptors are numbers and `accept` returns the lowest that is free, as POSIX says,
because reuse is the point: a closed number is reported as `POLLNVAL` until it names a new
connection. One action is one system call or one check of the scan; `create_socket` is one step
or the end. A time-out is a `poll` that returns 0 (`TimesOut`), a `close` per slot (`Kick`) and the
return to `poll` (`KickDone`); clients send, leave and reset between any two of these. `idle`, a
history variable, keeps the connections that were quiet when `poll` gave up. A client that stops reading makes `write` block, and a second slot of a shared
connection makes `read` block (`Blocked`); writing to a reset connection may end the process by
SIGPIPE (`WriteKills`), also when it is a newcomer that is told "Server is full" (`RefuseKills`).

**`TcpEcho`** is tcpEchoServer: `backlog` is the kernel's queue of connections, `clientfd` the
client being handled (or descriptor -1, after a failed `accept`), `buffer` and `bytesRemaining`
the locals of `client_handle`. A byte is a client and a position in what it sent, `Read(k)` stores
`k` of them at the start of the buffer, wherever earlier ones went. `bytesRemaining` is an `int`
that wraps, which is what ends the loop over a descriptor that does not exist. The buffer is not
initialised: it begins with what the call before left, or with something else (`Junk`).

**`MCUserTable`** adds the symmetry sets for TLC, **`MCMsgHandle`** three clients: the address
whose sum is 999 before its last reduction, another port of it, and an IPv6 client. The other
modules are checked as they are.

**`UserTableProofs`, `RosterProofs`, `StartupProofs`, `UdpChatProofs`, `MsgHandleProofs`,
`UdpEchoProofs`, `SocketLoopProofs`, `TcpEchoProofs`** hold the theorems.

## The runs

| run | instance | checks |
|---|---|---|
| `user_table` | 3 clients, 2 sockets, 3 cells, `Timeout` 1, clock to 4 | `TypeOK`, `NoDangling`, `ListIntact`, `UniqueAddr`, `CrashOnlyUnused`, `OncePerSlot`, `WalkRemovesAll`, `EveryReachesAll`, `ImplementsRoster` (`LastAccepted` and `NeverEmptied`, which these include, are proved) |
| `udpchat` | 1 client, 1 cell, 3 entries resolve, 2 sockets fit, queue 1, clock to 1 | `TypeOK`, `SocketsKept`, `NoUseAfterClose`, `AllReleased`, `Terminates`, `Served`, `UsesTable` |
| `msg_handle` | 3 clients, 2 cells, body of 3, datagrams of 0, 1 and 5 bytes, `SIZE_MAX` 99, clock to 3 | `TypeOK`, `AddressTold`, `InBuffer` (the user ids included), `Delivered`, `SenderHears`, `TimeoutTold`, `CallsReturn` |
| `udpecho` | up to 2 addresses of 1 or 2 entries, 2 descriptors, an array of 3, queue 1 | `TypeOK`, `NoUseAfterClose`, `AllReleased`, `Terminates`, `Served` |
| `socketloop` | 2 slots, 3 descriptors, 2 reads of data, backlog 1 | `TypeOK`, `Held`, `OwnPlace`, `NothingCutShort`, `LeaverNoticed`, `NewcomerAnswered` |
| `tcpecho` | 2 clients, `LEN` 3, up to 4 bytes sent, `INT_MAX` 6, backlog 2 | `TypeOK`, `Counted`, `InBuffer`, `OnlyResetEnds`, `AcceptFailureSurvived`, `Answered` |
| `only_silent_kicked`, `kicks_timed_out`, `graceful`, `handles_all_io`, `server_full`, `echoes_input` | a small one that shows it | one statement of the code or its documentation each, which the code contradicts |

Bounds, and why they are enough:

- three clients and three cells give a first, a middle and a last cell: every pointer update
  of the removal and of the append has all its cases (a removal of the head, of an inner cell,
  of two cells in a row, in the same walk as a match behind them). `malloc` may fail with cells
  left, so a full heap needs no separate case;
- `MaxNow` = 4 with `Timeout` = 1 gives three two-second slots, a user that joins, falls silent,
  times out and joins again, and walks whose time-out test changes while they run;
- `MaxQueue` = 1: a socket is readable or it is not, the code never counts datagrams;
- more entries than `MaxBind` (`udpchat`) reach the limit of `sfd_arr` (the code's 10 in
  `config.h`), on the code of `Startup` that `udpecho` shares; the `udpecho` run does not reach it
  (an instance that does is too large for its liveness), the proofs cover both programs; more entries than descriptors (`udpecho`) reach a `socket` that must fail; two
  calls of `getaddrinfo` (`udpecho` only) reach a failure behind a gathered list;
- the `udpchat` run is about the two threads and keeps the table small, with one client, so that
  its liveness can be checked; what the table does with several is the `user_table` run, its
  safety properties are proved for any number, and so is that the server uses the table properly;
- two cells with three clients in `msg_handle` give a walk that passes, removes and appends in
  one call, in front of a broadcast to two users; 1 and 5 bytes are below and above the body's 3,
  0 is the length that would wrap;
- two threads in `UdpEcho` are enough for one to fail, to hold the lock, or not to be started,
  beside another;
- two slots in `SocketLoop` are enough for one connection to stand in both, and `MaxFd` above the
  number of slots leaves a descriptor to refuse a newcomer on (the code has 19 slots);
- `LEN` 3 lets a message come in one, two or three pieces, `MaxSent` above it lets bytes be left
  over, and `INT_MAX` 6 lets failed reads reach the overflow.

Deadlock checking is off: a program that has returned, a crashed one and a table that was freed
stop, and so does a clock at its bound.

Fairness. In `UserTable` and `MsgHandle`, a call, once made, is executed by a running thread
(weak fairness of its steps). New calls, the clock and failures are not fair. In `UdpChat`, each
thread is weakly fair, as threads of a running process are; two steps are strongly fair, `Poll`
(it is not interrupted for ever) and the reception of a datagram (the kernel does not discard
every datagram just before it is read). Nothing forces a signal, a datagram, an error or the
clock. In `UdpEcho`, main and each thread are weakly fair, `recvfrom` included, since its time-out
makes it return; taking the log's lock is strongly fair, for main and each thread, because a lock
that is released again and again is not withheld from one thread for ever. In `SocketLoop`, the
loop is weakly fair, except for its time-out and for failing system calls; `LeaverNoticed` and
`NewcomerAnswered` make no promise while a client blocks the thread, because the code makes none.
In `TcpEcho` the one thread is weakly fair and the clients owe nothing: `Answered` speaks of a
client that has sent `LEN` bytes.
`UdpChat!Served` is claimed only for behaviours in which the master thread is never blocked for
good on a datagram that was discarded: on blocking sockets the code cannot do better, and a
signal still ends it (`Terminates`). A socket with a pending error may be passed over for ever,
since its flags are then never exactly `POLLIN`.

## What comments say and the code does not do

- `users.c:34,72` "If we don't update last_msg, they will time out." The refresh of the last
  cell assigns `p->last_msg = p->last_msg`, so a user who keeps writing from the last cell is
  removed as soon as another one joins behind it (`only_silent_kicked`).
- `users.h:37` "will also kick timeed out users." The last cell, and all cells behind the one
  that matched, are not examined, so users other than the sender stay (`kicks_timed_out`).
- `users.h:38` "Return 1 when spam is detected." A failing `malloc` returns 1 as well
  (`JoinFails`), and the caller takes it for spam: its error branch for results above 1 is never
  reached. No run is spent on it.
- `main.c:74` "Catch sigTERM and shutdown gracefully." If nobody ever wrote, the master thread that
  sees `run` cleared calls `user_table_free`, which reads `next` of a null pointer. `graceful` asks
  that a program whose main thread has taken the signal, while the other one is about to look at
  `run` and no socket or call has failed, comes to its end.
- `main.c:64` "The master thread will handle all IO while main thread will sleep." After an
  error of `poll`, of a socket or of `recvfrom` the master thread ends and main sleeps on with
  nobody to serve the sockets (`handles_all_io`).
- `socketloop.c:91` tells newcomers "Server is full". After the time-out has closed the clients,
  their slots are not free again, and newcomers are refused although nobody is connected
  (`server_full`). Until then poll returns at once, every time, with `POLLNVAL`.
- `tcpEchoServer/README.md:2` "echo back any input to the server". Each read stores at the start
  of the buffer, so a message that comes in pieces is sent back overwritten, with an
  uninitialised rest (`echoes_input`).

The properties that hold are stated for the code as it is: `WalkRemovesAll` exempts the last
cell, `CrashOnlyUnused` says that the crash needs an empty table, `Roster!Accept` leaves the second
from which the silence of the newest member is counted where it was, `Text` leaves out the last byte
of a message as the formatter does, and `NothingCutShort` allows that a time-out closes a client that
has spoken since `poll` gave up: what it sent then is lost.

One observation has no run, because nothing in the repository says otherwise: `user_calculate_id`
puts 999 where its sum is 0, the id of the server, but `msg_formatter` shows ids modulo 999, so such
a user is shown as 0 after all. `InBuffer` states it: the ids of users are 1 to 999 and exactly 999
is shown as 0. The first client of the `msg_handle` run is one.

## What is proved

Each theorem holds for every value of the constants that the named assumption of its module
admits (the null pointer is none of the others, numbers are naturals), and the assumptions are
evaluated by the runs.

| module | theorems |
|---|---|
| `UserTableProofs` | `TypeCorrect`, `Safe`, `Intact`, `Unique`, `Current`, `CrashUnused`: `TypeOK`, `NoDangling`, `ListIntact`, `UniqueAddr`, `LastAccepted`, `CrashOnlyUnused` always hold; `LastOneStays`, `SpamStopped`, `WalkThorough`, `Broadcast`: `Spec` implies `NeverEmptied`, `OncePerSlot`, `WalkRemovesAll`, `EveryReachesAll` |
| `RosterProofs` | `Implements`: `Spec => ImplementsRoster` |
| `UdpChatProofs` | `TypeCorrect`, `NoSocketLost`, `SocketsOpen`, `AllIsReleased`: `TypeOK`, `SocketsKept`, `NoUseAfterClose`, `AllReleased` always hold; `UsesTableSafely`: the server's steps are steps of the table; `TableSound`, `TableServes`: in the server, `NoDangling`, `ListIntact`, `UniqueAddr`, `LastAccepted` and `CrashOnlyUnused` of its table always hold, and so do the table's action properties; `ServerImplementsRoster`: `Spec => Table!ImplementsRoster` |
| `MsgHandleProofs` | `ToldApart`, `IdsInRange` about `SockAddr`; `TypeCorrect`, `SenderFound`, `FormatterFits`: `TypeOK`, `AddressTold`, `InBuffer` always hold; `TextsDelivered`, `SenderServed`, `RemovedTold`: `Spec` implies `Delivered`, `SenderHears`, `TimeoutTold`; `TakesTableSteps`: its steps are steps of the table |
| `UdpEchoProofs` | `ThreadsSafe`, `AllIsReleased`, `ArraysFit`, `NoSocketLost`: `NoUseAfterClose`, `AllReleased`, `TypeOK`, `SocketsKept` always hold |
| `SocketLoopProofs` | `ConnectionsHeld`, `PlacesOwned`, `LoopTypes`: `Held`, `OwnPlace`, `TypeOK` always hold; `NobodyCutShort`: `Spec => NothingCutShort` |
| `TcpEchoProofs` | `TypeCorrect`, `CountsRight`: `TypeOK`, `Counted` always hold; `ReadsFit`, `EndsByReset`: `Spec` implies `InBuffer`, `OnlyResetEnds` |

`UserTable`. What makes a linked list a list, that `start` reaches every cell, is not a
statement about neighbours, and the closure that states it (`ListIntact` quantifies over sets of
cells) is awkward to carry through a step. The inductive invariant `IInv` therefore says that
there is a *rank*: a function from cells to integers, different for different allocated cells,
for which `next` leads to the next higher one (`Ordered`), `start` is the lowest and `end` the
highest (`Ends`), and the local pointer of `user_table_free` is the lowest still there
(`Walker`). Removing a cell keeps the rank, appending one gives it a rank above `end`'s, and
tearing down removes the lowest. `Back` says that `prev` inverts `next`. The rank also tells
which cells a walk has passed, and so carries what a walk knows of them: they do not hold the
address looked for, whence `UniqueAddr` when it is appended; they were not timed out when the
call began, whence `WalkRemovesAll`; they have been called back, whence `EveryReachesAll`.
`ListIntact` follows by the well-foundedness of the naturals: in a closed set that missed a
cell, take the missing cell of lowest rank (counted from `start`'s); its predecessor is in the
set and leads to it. `Implements` maps each step to a step of the roster or to a stutter. What it needs of the invariant
is that the cell without a successor is the one `end` points at (`EndIsLast`): the cells the loop
refreshes or removes are then others than the newest member's, and the cell behind the loop is its,
also while the table is torn down.

`Startup`. `StartupProofs` holds no theorem of its own but the part of two invariants: `Kept`
says which sockets are open (those in `sfd_arr` and the one in `sfd`; once closing has begun, at
most those not yet reached: `Sockets`) and that what is allocated is what the list reaches
(`Lists`). Every step of setting up and closing keeps it, and so does whatever a program does in
between without touching them.

`UdpChat`. The invariant is `Kept`, the table's `IInv`, and three relations between the threads:
`Places` (main is past the start of the thread and before closing while the thread runs; the scan
index is within the array while a socket is handled), `Phase` (which call of the table is in
progress where the thread is) and `Users` (every user, and the argument of a call, names a socket
of `sfd_arr`). The steps of the table enter only through two lemmas: a cell keeps its socket or
gets that of the argument (`FdsKept`), and a call moves on or ends (`CallMoves`). `AllReleased`
needs the table's own invariant: the teardown that has ended has freed every cell.
`UsesTableSafely` is the refinement's step part. With it the theorems about `UserTable` are carried
over to the server: what follows from the table's `IInv` (`TableSound`), what its steps keep
(`TableServes`), and its refinement of `Roster`, so that the whole program, threads, network and
signal included, implements the roster (`ServerImplementsRoster`).

`MsgHandle`. `sockaddr_cmp` reads behind the addresses, so it is right only if both were received
into zeroed memory: `Remembered` says that every cell holds such bytes of its own client, `InHand`
that `peeraddr` does of the sender. `ToldApart` then gives `AddressTold`. The table's `IInv` is part
of the invariant as well: it tells who is in the table while the sender is served (`SenderHears`: an
accepted sender is a member, and a broadcast that ends has called every member) and that a removed
cell was the one just told (`TimeoutTold`). What `msg_formatter` makes of the static buffer is shown
character by character: every position of the text it returns is written by the call itself, from
the id, the bar, the body or the newline (`FormattedText`), so nothing depends on what the buffer
held before, and `Delivered` compares with a text put together in order.

`UdpEcho`. Besides `Kept`, the invariant says which threads may run (only those counted in
`children`; none before the join index; none once main closes: `Threads`) and that the holder of
the lock is about to write (`LogHeld`).

`SocketLoop`. `Held` and `OwnPlace` are inductive once `Scanning` is added: the index is a slot's
while one is handled, and `accept` is called only for a connection that waits. `NothingCutShort`
needs a second invariant, `EndSeen`: a slot that the scan has not left and that is marked in error
holds a connection that is over (reset, or left and read to the end), or the number of one that
another slot has closed. It is inductive because nothing is accepted during a scan, so a number that
was closed is not in use again before the marks are renewed; and a connection that is over stays so. A
third, `AllQuiet`, is about the time-out: while it closes places, every connection still open is in
`idle`, since nothing is accepted before it is over.

`TcpEcho`. The count is wrong after a failed read. What keeps the next read inside the buffer is
that there is no next read with data: `Streams` says that once a reset was reported everything the
client sent is consumed and nothing is sent after. `Fresh` says that a connection not yet accepted
was not read from, so the count starts at `LEN`. `Answers` says that the buffer begins with the
latest of what was read of the client in hand, whoever's bytes lie behind: all that is left of
"echo" when a message comes in pieces, and the whole of it when it comes in one.

## Only model-checked, and not modelled

Liveness (`CallsReturn`, `Terminates`, `Served`, `LeaverNoticed`, `NewcomerAnswered`,
`AcceptFailureSurvived`, `Answered`) is out of the prover's reach and left to TLC, as is the
fairness in `UsesTable`. Every safety property of a passing run, invariant or action property, is
the statement of a theorem.

Not modelled:

- the text of log records and the conversion `addr2str`, which nothing reads back; `print.h`,
  whose lock no thread holds across anything but the one line it prints;
- in `udpchat` and `udpecho`, the parsing of arguments beyond its result (a number of addresses,
  or failure);
- in `tcpEchoServer`, a client that closes its side early: `read` then returns 0 for ever, the loop
  changes nothing, and nobody else is served; the model has such a client as one that sends no
  more;
- in `udpecho` and `tcpPrintServer_poll`, the bytes that are echoed: they are sent from the buffer
  they were received into;
- `udpmsg/main.c` (an empty program), `demojs/test.js` (sends one datagram), and the two
  `main.old.c`, which no build file names and whose headers have changed since.

## Plan

Done: every program that is built, its runs, and a proof of each of their safety properties. Left,
in this order: what a call of the table needs to end, as far as it is a safety property (no walk
comes to a cell twice); the same refinement of `Roster` for `MsgHandle`, whose table steps are
proved to be the table's; a larger `udpchat` instance for liveness with two clients.
