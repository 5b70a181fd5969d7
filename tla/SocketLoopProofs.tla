-------------------------- MODULE SocketLoopProofs --------------------------
(***************************************************************************)
(* Proofs about the poll loop of tcpPrintServer_poll, for any number of    *)
(* places and descriptors.                                                 *)
(***************************************************************************)
EXTENDS SocketLoop, TLAPS

\* While a place is being handled the index is one of a place, and what poll
\* said about the listener stays true until accept is called.
Scanning ==
    /\ pc \in {"write", "check"} => n \in Place
    /\ pc = "accept" => listener = {"IN"}
    /\ "IN" \in listener /\ pc \in {"scan", "write", "check", "accept"} => backlog > 0

IInv == TypeOK /\ Scanning /\ Held /\ OwnPlace

\* A step that opens and closes nothing, and leaves the places alone.
Steady == UNCHANGED <<fd, open, timedOut>>

LEMMA SteadyKeeps ==
    ASSUME IInv, Steady
    PROVE  Held' /\ OwnPlace'
BY DEF IInv, Steady, Held, OwnPlace

LEMMA ClosedType ==
    ASSUME IInv, NEW gone \in SUBSET Desc, Closed(gone)
    PROVE  /\ open' \subseteq Desc
           /\ data' \in [Desc -> 0..MaxData]
           /\ peer' \in [Desc -> {"up", "closed", "reset"}]
           /\ stalled' \subseteq Desc
           /\ open' = open \ gone
<1>1. MaxData \in Nat
  BY SocketLoopAssumption
<1> QED
  BY <1>1 DEF IInv, TypeOK, Closed

LEMMA InitHolds == Init => IInv
<1> SUFFICES ASSUME Init PROVE IInv
  OBVIOUS
<1> USE SocketLoopAssumption DEF Init
<1>1. TypeOK
  <2>1. 1 \in 1..Last + 1 /\ 0 \in 0..MaxData /\ 0 \in 0..MaxBacklog
    OBVIOUS
  <2>2. fd \in [Place -> Desc \cup {-1}]
    OBVIOUS
  <2>3. revents \in [Place -> SUBSET {"IN", "ERR", "HUP", "NVAL"}]
    OBVIOUS
  <2>4. data \in [Desc -> 0..MaxData] /\ peer \in [Desc -> {"up", "closed", "reset"}]
    BY <2>1
  <2> QED
    BY <2>1, <2>2, <2>3, <2>4 DEF TypeOK
<1>2. Scanning
  BY DEF Scanning
<1>3. Held /\ OwnPlace
  BY DEF Held, OwnPlace
<1> QED
  BY <1>1, <1>2, <1>3 DEF IInv

-----------------------------------------------------------------------------
(* The loop *)

LEMMA FlagsType ==
    ASSUME NEW f
    PROVE  Flags(f) \in SUBSET {"IN", "ERR", "HUP", "NVAL"}
BY DEF Flags

LEMMA PollStep ==
    ASSUME IInv, Poll
    PROVE  IInv'
<1> USE SocketLoopAssumption
<1>1. revents' \in [Place -> SUBSET {"IN", "ERR", "HUP", "NVAL"}]
  BY FlagsType DEF Poll
<1>2. listener' \subseteq {"IN", "ERR"}
  BY DEF Poll, ListenerFlags
<1>3. TypeOK'
  BY <1>1, <1>2 DEF Poll, netVars, history, IInv, TypeOK
<1>4. Scanning'
  <2>1. "IN" \in listener' => backlog > 0
    BY DEF Poll, ListenerFlags
  <2> QED
    BY <2>1 DEF Poll, netVars, Scanning
<1>5. Held' /\ OwnPlace'
  BY SteadyKeeps DEF Poll, netVars, history, Steady
<1> QED
  BY <1>3, <1>4, <1>5 DEF IInv

LEMMA TimesOutStep ==
    ASSUME IInv, TimesOut
    PROVE  IInv'
<1> USE SocketLoopAssumption DEF netVars
<1>1. 1 \in 1..Last + 1 /\ idle' \subseteq Desc
  BY DEF TimesOut, IInv, TypeOK
<1>2. TypeOK' /\ Scanning'
  BY <1>1 DEF TimesOut, IInv, TypeOK, Scanning
<1> QED
  BY <1>2, SteadyKeeps DEF TimesOut, IInv, Steady

\* A place may hold the number of a connection that another place has closed
\* already, or -1: then nothing is closed.
LEMMA KickStep ==
    ASSUME IInv, Kick
    PROVE  IInv'
<1> DEFINE gone == {fd[n]} \cap open
<1>1. gone \in SUBSET Desc /\ Closed(gone)
  BY DEF Kick, IInv, TypeOK
<1>2. /\ open' \subseteq Desc /\ data' \in [Desc -> 0..MaxData]
      /\ peer' \in [Desc -> {"up", "closed", "reset"}] /\ stalled' \subseteq Desc
      /\ open' = open \ {fd[n]}
  BY <1>1, ClosedType
<1>3. n + 1 \in 1..Last + 1 /\ timedOut' \in BOOLEAN
  BY SocketLoopAssumption DEF Kick, IInv, TypeOK
<1>4. TypeOK' /\ Scanning'
  BY <1>2, <1>3 DEF Kick, IInv, TypeOK, Scanning
<1>5. Held'
  BY <1>2 DEF Kick, IInv, Held
<1>6. OwnPlace'
  BY <1>2 DEF Kick, IInv, OwnPlace
<1> QED
  BY <1>4, <1>5, <1>6 DEF IInv

LEMMA KickDoneStep ==
    ASSUME IInv, KickDone
    PROVE  IInv'
<1> USE SocketLoopAssumption DEF netVars
<1>1. TypeOK' /\ Scanning'
  BY DEF KickDone, IInv, TypeOK, Scanning
<1> QED
  BY <1>1, SteadyKeeps DEF KickDone, IInv, Steady

\* Steps of the scan that neither open nor close.
LEMMA ScanStep ==
    ASSUME IInv,
           CreateSocket \/ CreateFails \/ PollFails \/ ScanQuiet \/ Read \/ ReadEnds \/ Write \/ WriteKills
             \/ CheckOk \/ ScanDone \/ AcceptFails
    PROVE  IInv'
<1> USE SocketLoopAssumption DEF netVars, history
<1>1. CASE CreateSocket \/ CreateFails \/ PollFails \/ WriteKills \/ AcceptFails
  <2>1. TypeOK' /\ Scanning'
    BY <1>1 DEF CreateSocket, CreateFails, PollFails, WriteKills, AcceptFails, IInv, TypeOK, Scanning
  <2> QED
    BY <2>1, <1>1, SteadyKeeps
    DEF IInv, CreateSocket, CreateFails, PollFails, WriteKills, AcceptFails, Steady
<1>2. CASE ScanQuiet
  <2>1. TypeOK' /\ Scanning'
    BY <1>2 DEF ScanQuiet, IInv, TypeOK, Scanning, Place
  <2> QED
    BY <2>1, <1>2, SteadyKeeps DEF IInv, ScanQuiet, Steady
<1>3. CASE Read
  <2>1. data' \in [Desc -> 0..MaxData]
    <3>1. fd[n] \in Desc /\ data[fd[n]] - 1 \in 0..MaxData
      BY <1>3 DEF Read, IInv, TypeOK
    <3> QED
      BY <3>1, <1>3 DEF Read, IInv, TypeOK
  <2>2. TypeOK' /\ Scanning'
    BY <2>1, <1>3 DEF Read, IInv, TypeOK, Scanning, Place
  <2> QED
    BY <2>2, <1>3, SteadyKeeps DEF IInv, Read, Steady
<1>4. CASE ReadEnds
  <2>1. revents' \in [Place -> SUBSET {"IN", "ERR", "HUP", "NVAL"}]
    BY <1>4 DEF ReadEnds, Ended, IInv, TypeOK
  <2>2. TypeOK' /\ Scanning'
    BY <2>1, <1>4 DEF ReadEnds, IInv, TypeOK, Scanning, Place
  <2> QED
    BY <2>2, <1>4, SteadyKeeps DEF IInv, ReadEnds, Steady
<1>5. CASE Write
  <2>1. TypeOK' /\ Scanning'
    BY <1>5 DEF Write, IInv, TypeOK, Scanning
  <2> QED
    BY <2>1, <1>5, SteadyKeeps DEF IInv, Write, Steady
<1>6. CASE CheckOk
  <2>1. TypeOK' /\ Scanning'
    BY <1>6 DEF CheckOk, IInv, TypeOK, Scanning, Place
  <2> QED
    BY <2>1, <1>6, SteadyKeeps DEF IInv, CheckOk, Steady
<1>7. CASE ScanDone
  <2>1. /\ pc' \in {"exited", "accept", "poll"}
        /\ pc' = "accept" => listener = {"IN"}
    BY <1>7 DEF ScanDone, Wanted
  <2>2. TypeOK'
    BY <2>1, <1>7 DEF ScanDone, IInv, TypeOK
  <2>3. Scanning'
    BY <2>1, <1>7 DEF ScanDone, IInv, Scanning
  <2> QED
    BY <2>2, <2>3, <1>7, SteadyKeeps DEF IInv, ScanDone, Steady
<1> QED
  BY <1>1, <1>2, <1>3, <1>4, <1>5, <1>6, <1>7

LEMMA DropStep ==
    ASSUME IInv, Drop
    PROVE  IInv'
<1> USE SocketLoopAssumption
<1>1. n \in Place /\ fd[n] \in Desc \cup {-1} /\ open \subseteq Desc
  BY DEF Drop, IInv, Scanning, TypeOK
<1> DEFINE gone == {fd[n]} \cap open
<1>2. gone \in SUBSET Desc /\ Closed(gone)
  BY <1>1 DEF Drop
<1>3. /\ open' \subseteq Desc /\ data' \in [Desc -> 0..MaxData]
      /\ peer' \in [Desc -> {"up", "closed", "reset"}] /\ stalled' \subseteq Desc
      /\ open' = open \ {fd[n]}
  BY <1>2, ClosedType
<1>4. fd \in [Place -> Desc \cup {-1}] /\ fd' = [fd EXCEPT ![n] = -1]
  BY DEF Drop, Dropped, IInv, TypeOK
<1>5. TypeOK'
  BY <1>1, <1>3, <1>4 DEF Drop, IInv, TypeOK, Place, history
<1>6. Scanning'
  BY DEF Drop, IInv, Scanning
<1>7. Held'
  <2> SUFFICES ASSUME NEW f \in open' PROVE \E m \in Place : fd'[m] = f
    BY DEF Held
  <2>1. PICK m \in Place : fd[m] = f
    BY <1>3 DEF IInv, Held
  <2>2. m # n
    BY <1>3, <2>1
  <2> QED
    BY <1>4, <2>1, <2>2
<1>8. OwnPlace'
  <2> SUFFICES ASSUME ~timedOut, NEW m \in Place, fd'[m] # -1
               PROVE  /\ fd'[m] \in open'
                      /\ \A k \in Place : fd'[k] = fd'[m] => k = m
    BY DEF OwnPlace, Drop, history
  <2>1. m # n /\ fd'[m] = fd[m]
    BY <1>1, <1>4
  <2>2. fd[m] \in open /\ \A k \in Place : fd[k] = fd[m] => k = m
    BY <2>1 DEF IInv, OwnPlace
  <2>3. fd[m] # fd[n]
    BY <1>1, <2>1, <2>2
  <2> QED
    BY <1>3, <1>4, <2>1, <2>2, <2>3
<1> QED
  BY <1>5, <1>6, <1>7, <1>8 DEF IInv

LEMMA AcceptStep ==
    ASSUME IInv, NEW m \in Place, NEW f \in Desc, Accept(m, f)
    PROVE  IInv'
<1> USE SocketLoopAssumption
<1>1. /\ fd \in [Place -> Desc \cup {-1}] /\ fd' = [fd EXCEPT ![m] = f]
      /\ fd[m] = -1 /\ f \notin open /\ open' = open \cup {f} /\ open \subseteq Desc
  BY DEF Accept, FreeSpot, Lowest, IInv, TypeOK
<1>2. f # -1 /\ -1 \notin Desc
  BY DEF Desc
<1>3. TypeOK'
  <2>1. fd' \in [Place -> Desc \cup {-1}] /\ open' \subseteq Desc
    BY <1>1
  <2>2. backlog > 0
    BY DEF Accept, IInv, Scanning
  <2>3. backlog' \in 0..MaxBacklog
    BY <2>2 DEF Accept, IInv, TypeOK
  <2> QED
    BY <2>1, <2>3 DEF Accept, PeerVars, IInv, TypeOK, history
<1>4. Scanning'
  BY DEF Accept, Scanning
<1>5. Held'
  <2> SUFFICES ASSUME NEW g \in open' PROVE \E k \in Place : fd'[k] = g
    BY DEF Held
  <2>1. CASE g = f
    BY <1>1, <2>1
  <2>2. CASE g \in open
    <3>1. PICK k \in Place : fd[k] = g
      BY <2>2 DEF IInv, Held
    <3>2. k # m
      BY <1>1, <1>2, <2>2, <3>1
    <3> QED
      BY <1>1, <3>1, <3>2
  <2> QED
    BY <1>1, <2>1, <2>2
<1>6. OwnPlace'
  <2> SUFFICES ASSUME ~timedOut, NEW k \in Place, fd'[k] # -1
               PROVE  /\ fd'[k] \in open'
                      /\ \A l \in Place : fd'[l] = fd'[k] => l = k
    BY DEF OwnPlace, Accept, history
  <2>1. \A l \in Place : l # m => fd'[l] = fd[l] /\ fd[l] # f
    BY <1>1, <1>2 DEF IInv, OwnPlace
  <2>2. fd'[m] = f
    BY <1>1
  <2>3. k # m => fd[k] \in open /\ \A l \in Place : fd[l] = fd[k] => l = k
    BY <2>1 DEF IInv, OwnPlace
  <2> QED
    BY <1>1, <2>1, <2>2, <2>3
<1> QED
  BY <1>3, <1>4, <1>5, <1>6 DEF IInv

LEMMA RefuseStep ==
    ASSUME IInv, Refuse \/ RefuseKills
    PROVE  IInv'
<1> USE DEF Refuse, RefuseKills, Refused
<1>1. backlog > 0
  BY DEF IInv, Scanning
<1>2. backlog' \in 0..MaxBacklog
  BY <1>1, SocketLoopAssumption DEF IInv, TypeOK
<1>3. /\ pc' \in {"poll", "exited"}
      /\ open' = open
      /\ UNCHANGED <<fd, revents, listener, n, data, peer, stalled, broken, timedOut, idle>>
  BY DEF PeerVars, history
<1>4. TypeOK'
  BY <1>2, <1>3 DEF IInv, TypeOK
<1>5. Scanning'
  BY <1>3 DEF Scanning
<1> QED
  BY <1>3, <1>4, <1>5, SteadyKeeps DEF history, IInv, Steady

-----------------------------------------------------------------------------
(* Clients and the network *)

LEMMA OutsideStep ==
    ASSUME IInv, Outside
    PROVE  IInv'
<1> USE SocketLoopAssumption DEF Local, PeerVars, history
<1>1. CASE Connect
  <2>1. backlog' \in 0..MaxBacklog
    BY <1>1 DEF Connect, IInv, TypeOK
  <2>2. TypeOK'
    BY <2>1, <1>1 DEF Connect, IInv, TypeOK
  <2>3. Scanning'
    BY <1>1 DEF Connect, IInv, TypeOK, Scanning
  <2> QED
    BY <2>2, <2>3, <1>1, SteadyKeeps DEF IInv, Connect, Steady
<1>5. CASE Breaks
  <2>1. TypeOK' /\ Scanning'
    BY <1>5 DEF Breaks, IInv, TypeOK, Scanning
  <2> QED
    BY <2>1, <1>5, SteadyKeeps DEF IInv, Breaks, Steady
<1>2. ASSUME NEW f \in Desc, Sends(f) PROVE IInv'
  <2>1. data' \in [Desc -> 0..MaxData]
    BY <1>2 DEF Sends, IInv, TypeOK
  <2>2. TypeOK' /\ Scanning'
    BY <2>1, <1>2 DEF Sends, IInv, TypeOK, Scanning
  <2> QED
    BY <2>2, <1>2, SteadyKeeps DEF IInv, Sends, Steady
<1>3. ASSUME NEW f \in Desc, Leaves(f) \/ Resets(f) PROVE IInv'
  <2>1. TypeOK' /\ Scanning'
    BY <1>3 DEF Leaves, Resets, IInv, TypeOK, Scanning
  <2> QED
    BY <2>1, <1>3, SteadyKeeps DEF IInv, Leaves, Resets, Steady
<1>4. ASSUME NEW f \in Desc, StopsReading(f) PROVE IInv'
  <2>1. TypeOK' /\ Scanning'
    BY <1>4 DEF StopsReading, IInv, TypeOK, Scanning
  <2> QED
    BY <2>1, <1>4, SteadyKeeps DEF IInv, StopsReading, Steady
<1> QED
  BY <1>1, <1>2, <1>3, <1>4, <1>5 DEF Outside

-----------------------------------------------------------------------------
(* No connection is cut short *)

\* f was reset, or its peer left and all it sent has been read.
Over(f) == peer[f] = "reset" \/ (peer[f] = "closed" /\ data[f] = 0)

\* A place that the scan has not left, marked in error, holds a connection that
\* is over, or the number of one closed before.
EndSeen ==
    pc \in {"scan", "write", "check"} =>
      \A m \in Place : m >= n /\ "ERR" \in revents[m] /\ fd[m] \in open => Over(fd[m])

\* What a time-out closes was quiet when it began.
AllQuiet == pc = "kick" => open \subseteq idle

\* A step closes only what is over, or was quiet at the time-out.
CutsNone == \A f \in open \ open' : Over(f) \/ (pc = "kick" /\ f \in idle)

\* Steps of the scan that leave the places, the connections and what is marked.
LEMMA EndKept ==
    ASSUME EndSeen, UNCHANGED <<fd, revents, n, open>>,
           pc' \in {"scan", "write", "check"} => pc \in {"scan", "write", "check"},
           \A f \in open : Over(f) => Over(f)'
    PROVE  EndSeen' /\ CutsNone
BY DEF EndSeen, CutsNone

LEMMA PollMarks ==
    ASSUME IInv, Poll
    PROVE  EndSeen' /\ CutsNone
<1>1. CutsNone
  BY DEF Poll, netVars, CutsNone
<1>2. EndSeen'
  <2> SUFFICES ASSUME NEW m \in Place, "ERR" \in revents'[m], fd'[m] \in open'
               PROVE  Over(fd[m])'
    BY DEF EndSeen, Poll
  <2>1. "ERR" \in Flags(fd[m]) /\ fd[m] \in open
    BY DEF Poll, netVars
  <2>2. peer[fd[m]] = "reset"
    BY <2>1 DEF Flags
  <2> QED
    BY <2>2 DEF Over, Poll, netVars
<1> QED
  BY <1>1, <1>2

\* A time-out means that poll had nothing to say of any client, and every open
\* connection is one that poll was asked about.
LEMMA TimesOutQuiet ==
    ASSUME IInv, TimesOut
    PROVE  EndSeen' /\ CutsNone /\ AllQuiet'
<1>1. EndSeen' /\ CutsNone
  BY DEF EndSeen, CutsNone, TimesOut, netVars
<1>2. AllQuiet'
  <2> SUFFICES ASSUME NEW f \in open
               PROVE  peer[f] = "up" /\ data[f] = 0
    BY DEF AllQuiet, TimesOut, netVars
  <2>1. PICK m \in Place : fd[m] = f
    BY DEF IInv, Held
  <2>2. Flags(f) = {}
    BY <2>1 DEF TimesOut, Ready
  <2>3. f # -1 /\ f \in Desc
    BY DEF IInv, TypeOK, Desc
  <2>4. ~(data[f] > 0) /\ peer[f] = "up"
    BY <2>2, <2>3 DEF Flags
  <2> QED
    BY <2>3, <2>4, SocketLoopAssumption DEF IInv, TypeOK
<1> QED
  BY <1>1, <1>2

LEMMA KickQuiet ==
    ASSUME IInv, AllQuiet, Kick \/ KickDone
    PROVE  EndSeen' /\ CutsNone /\ AllQuiet'
BY DEF Kick, KickDone, Closed, netVars, EndSeen, CutsNone, AllQuiet

LEMMA ReadEndsOver ==
    ASSUME IInv, EndSeen, ReadEnds
    PROVE  EndSeen' /\ CutsNone
<1>1. CutsNone
  BY DEF ReadEnds, netVars, CutsNone
<1>2. EndSeen'
  <2> SUFFICES ASSUME NEW m \in Place, m >= n, "ERR" \in revents'[m], fd[m] \in open
               PROVE  Over(fd[m])
    BY DEF EndSeen, ReadEnds, netVars, Over
  <2>1. CASE m = n
    BY <2>1 DEF ReadEnds, NothingToRead, Over, IInv, TypeOK
  <2>2. CASE m # n
    BY <2>2 DEF ReadEnds, Ended, EndSeen, IInv, TypeOK
  <2> QED
    BY <2>1, <2>2
<1> QED
  BY <1>1, <1>2

\* The connection that is dropped is over; what the rest of the scan finds in
\* other places with the same number is closed already.
LEMMA DropCutsNone ==
    ASSUME IInv, EndSeen, Drop
    PROVE  EndSeen' /\ CutsNone
<1>1. n \in Place /\ open' = open \ {fd[n]}
  BY DEF Drop, Closed, IInv, Scanning
<1>2. CutsNone
  BY <1>1 DEF CutsNone, Drop, EndSeen, Place
<1>3. EndSeen'
  <2> SUFFICES ASSUME NEW m \in Place, m >= n + 1, "ERR" \in revents[m], fd'[m] \in open'
               PROVE  Over(fd[m])'
    BY DEF EndSeen, Drop
  <2>1. m # n /\ m >= n
    BY <1>1 DEF Place
  <2>2. fd'[m] = fd[m]
    BY <1>1, <2>1 DEF Drop, Dropped, IInv, TypeOK
  <2>3. Over(fd[m]) /\ fd[m] \in Desc /\ fd[m] # fd[n]
    BY <1>1, <2>1, <2>2 DEF EndSeen, Drop, IInv, TypeOK
  <2>4. peer'[fd[m]] = peer[fd[m]] /\ data'[fd[m]] = data[fd[m]]
    BY <2>3 DEF Drop, Closed
  <2> QED
    BY <2>2, <2>3, <2>4 DEF Over
<1> QED
  BY <1>2, <1>3

LEMMA ScanCutsNone ==
    ASSUME IInv, EndSeen,
           CreateSocket \/ Fault \/ ScanQuiet \/ Read \/ Write \/ CheckOk \/ ScanDone \/ Refuse
    PROVE  EndSeen' /\ CutsNone
<1> USE DEF netVars
<1>1. CASE CreateSocket \/ Fault \/ ScanDone \/ Refuse
  <2>1. open' = open /\ pc' \notin {"scan", "write", "check"}
    BY <1>1 DEF CreateSocket, Fault, CreateFails, PollFails, WriteKills, AcceptFails, ScanDone,
                Refuse, RefuseKills, Refused
  <2> QED
    BY <2>1 DEF EndSeen, CutsNone
<1>2. CASE ScanQuiet \/ Write
  BY <1>2, EndKept DEF ScanQuiet, Write, Over
<1>3. CASE Read
  <2>1. \A f \in open : Over(f) => Over(f)'
    BY <1>3 DEF Read, Over, IInv, TypeOK
  <2> QED
    BY <1>3, <2>1, EndKept DEF Read
<1>4. CASE CheckOk
  <2>1. \A m \in Place : m >= n + 1 => m >= n
    BY <1>4 DEF IInv, TypeOK, Place
  <2> QED
    BY <1>4, <2>1 DEF CheckOk, EndSeen, CutsNone, Over
<1> QED
  BY <1>1, <1>2, <1>3, <1>4

LEMMA OutsideCutsNone ==
    ASSUME IInv, EndSeen, Outside
    PROVE  EndSeen' /\ CutsNone
<1>1. UNCHANGED <<fd, revents, n, open, pc>>
  BY DEF Outside, Connect, Breaks, Sends, Leaves, Resets, StopsReading, Local
<1>2. \A f \in open : Over(f) => Over(f)'
  <2> SUFFICES ASSUME NEW f \in open, Over(f) PROVE Over(f)'
    OBVIOUS
  <2>1. CASE UNCHANGED <<data, peer>>
    BY <2>1 DEF Over
  <2>2. ASSUME NEW g \in Desc, Sends(g) PROVE Over(f)'
    BY <2>2 DEF Sends, Over, IInv, TypeOK
  <2>3. ASSUME NEW g \in Desc, Leaves(g) \/ Resets(g) PROVE Over(f)'
    BY <2>3 DEF Leaves, Resets, Over, IInv, TypeOK
  <2> QED
    BY <2>1, <2>2, <2>3 DEF Outside, Connect, Breaks, StopsReading, PeerVars
<1> QED
  BY <1>1, <1>2, EndKept

LEMMA StepCutsNone ==
    ASSUME IInv, EndSeen, AllQuiet, [Next]_vars
    PROVE  EndSeen' /\ CutsNone
<1>1. ASSUME NEW m \in Place, NEW f \in Desc, Accept(m, f) PROVE EndSeen' /\ CutsNone
  BY <1>1 DEF Accept, EndSeen, CutsNone
<1>2. CASE UNCHANGED vars
  BY <1>2, EndKept DEF vars, netVars, Over
<1> QED
  BY <1>1, <1>2, PollMarks, TimesOutQuiet, KickQuiet, ReadEndsOver, DropCutsNone, ScanCutsNone,
     OutsideCutsNone
  DEF Next, Step

\* Only a time-out begins to kick, and nothing is accepted before it is over.
LEMMA StepQuiet ==
    ASSUME IInv, AllQuiet, [Next]_vars
    PROVE  AllQuiet'
<1>1. CASE TimesOut
  BY <1>1, TimesOutQuiet
<1>2. CASE Kick \/ KickDone
  BY <1>2, KickQuiet
<1>3. CASE Outside \/ UNCHANGED vars
  <2>1. ASSUME Outside PROVE UNCHANGED <<pc, open, idle>>
    BY <2>1
    DEF Outside, Connect, Breaks, Sends, Leaves, Resets, StopsReading, Local, history
  <2>2. ASSUME UNCHANGED vars PROVE UNCHANGED <<pc, open, idle>>
    BY <2>2 DEF vars, netVars, history
  <2>3. UNCHANGED <<pc, open, idle>>
    BY <1>3, <2>1, <2>2
  <2> QED
    BY <2>3 DEF AllQuiet
<1>4. ASSUME pc' # "kick" PROVE AllQuiet'
  BY <1>4 DEF AllQuiet
<1>5. CASE Fault \/ (Step /\ ~Kick /\ ~KickDone)
  BY <1>4, <1>5
  DEF Fault, CreateFails, PollFails, WriteKills, RefuseKills, AcceptFails, Step, CreateSocket, Poll,
      ScanQuiet, Read, ReadEnds, Write, CheckOk, Drop, ScanDone, Refuse, Accept
<1> QED
  BY <1>1, <1>2, <1>3, <1>5 DEF Next

-----------------------------------------------------------------------------
(* The theorems *)

LEMMA StutterStep ==
    ASSUME IInv, UNCHANGED vars
    PROVE  IInv'
BY DEF IInv, TypeOK, Scanning, Held, OwnPlace, vars, netVars, history

\* The inductive invariant holds in every state the loop reaches.
THEOREM Inductive == Spec => []IInv
<1>1. IInv /\ [Next]_vars => IInv'
  <2> SUFFICES ASSUME IInv, [Next]_vars PROVE IInv'
    OBVIOUS
  <2>1. ASSUME NEW m \in Place, NEW f \in Desc, Accept(m, f) PROVE IInv'
    BY <2>1, AcceptStep
  <2> QED
    BY <2>1, PollStep, TimesOutStep, KickStep, KickDoneStep, ScanStep, DropStep, RefuseStep,
       OutsideStep, StutterStep
    DEF Next, Step, Fault
<1> QED
  BY <1>1, InitHolds, PTL DEF Spec

\* socketloop, clienthandle: every open connection stands in a place of fds,
\* so nothing leaks and no client is forgotten, for any number of places.
THEOREM ConnectionsHeld == Spec => []Held
<1>1. IInv => Held
  BY DEF IInv
<1> QED
  BY <1>1, Inductive, PTL

\* Until the loop has kicked clients for being idle, a place in use is one open
\* connection, and no two places share one.
THEOREM PlacesOwned == Spec => []OwnPlace
<1>1. IInv => OwnPlace
  BY DEF IInv
<1> QED
  BY <1>1, Inductive, PTL

\* The loop's variables keep their types: the index stays in fds, and accept is
\* called only for a connection that waits.
THEOREM LoopTypes == Spec => []TypeOK
<1>1. IInv => TypeOK
  BY DEF IInv
<1> QED
  BY <1>1, Inductive, PTL

\* socketloop, clienthandle: the scan cuts no connection short, whichever places
\* are in error or share a number: one is closed after its peer reset it, or
\* after its peer left and all it sent has been read.  What a time-out closes
\* was open, and quiet, when poll gave up.
THEOREM NobodyCutShort == Spec => NothingCutShort
<1>1. Init => EndSeen /\ AllQuiet
  BY DEF Init, EndSeen, AllQuiet
<1>2. IInv /\ EndSeen /\ AllQuiet /\ [Next]_vars => EndSeen' /\ AllQuiet'
  BY StepCutsNone, StepQuiet
<1>3. IInv /\ EndSeen /\ AllQuiet /\ [Next]_vars =>
        [\A f \in open \ open' :
           \/ peer[f] = "reset"
           \/ peer[f] = "closed" /\ data[f] = 0
           \/ pc = "kick" /\ f \in idle]_vars
  BY StepCutsNone DEF CutsNone, Over
<1> QED
  BY <1>1, <1>2, <1>3, Inductive, PTL DEF Spec, NothingCutShort
=============================================================================
