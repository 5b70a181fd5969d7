------------------------------- MODULE Roster -------------------------------
(***************************************************************************)
(* What the active-user table of udpchat promises, with no list in it: who *)
(* is a member, since when each member counts as silent, in which          *)
(* two-second slot its last accepted message fell, and who joined last.    *)
(* Accept, Kick, Close and Drop are the only ways in which users.c may     *)
(* change that.                                                            *)
(***************************************************************************)
EXTENDS Integers

CONSTANTS
    Addr,      \* addresses of chat clients (what sockaddr_cmp tells apart)
    Fd,        \* sockets the server receives on
    NULL,      \* "not a member"
    Timeout    \* seconds of silence after which a member may be removed

VARIABLES
    member,    \* [Addr -> NULL or [last, slot, fd]]
    newest,    \* the member that joined last, NULL if there is none
    open,      \* FALSE once user_table_free has been called
    now        \* time(NULL)

vars == <<member, newest, open, now>>

\* The slot a second falls in: "user.last_msg_xs = (last_msg / 2) * 2".
Slot(t) == (t \div 2) * 2

Init ==
    /\ member = [a \in Addr |-> NULL]
    /\ newest = NULL
    /\ open = TRUE
    /\ now = 0

Tick ==
    /\ now' = now + 1
    /\ UNCHANGED <<member, newest, open>>

\* A message of a, stamped t when it was received on f, is accepted: a joins,
\* or is a member whose last accepted message fell in another slot.  From then
\* on its silence is counted anew, except for the member that joined last.
Accept(a, f, t) ==
    /\ open
    /\ t <= now
    /\ member[a] # NULL => member[a].slot # Slot(t)
    /\ LET last == IF member[a] # NULL /\ a = newest THEN member[a].last ELSE t
       IN member' = [member EXCEPT ![a] = [last |-> last, slot |-> Slot(t), fd |-> f]]
    /\ newest' = IF member[a] = NULL THEN a ELSE newest
    /\ UNCHANGED <<open, now>>

\* A member that counts as silent for longer than Timeout is removed, but
\* never the one that joined last.
Kick(a) ==
    /\ open
    /\ member[a] # NULL
    /\ member[a].last + Timeout < now
    /\ a # newest
    /\ member' = [member EXCEPT ![a] = NULL]
    /\ UNCHANGED <<newest, open, now>>

\* The table is torn down, member by member, and never opened again.
Close ==
    /\ open
    /\ open' = FALSE
    /\ UNCHANGED <<member, newest, now>>

Drop(a) ==
    /\ ~open
    /\ member[a] # NULL
    /\ member' = [member EXCEPT ![a] = NULL]
    /\ newest' = IF a = newest THEN NULL ELSE newest
    /\ UNCHANGED <<open, now>>

Next ==
    \/ Tick
    \/ \E a \in Addr, f \in Fd, t \in 0..now : Accept(a, f, t)
    \/ \E a \in Addr : Kick(a) \/ Drop(a)
    \/ Close

Spec == Init /\ [][Next]_vars
=============================================================================
