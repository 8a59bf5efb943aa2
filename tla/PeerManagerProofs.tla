------------------------- MODULE PeerManagerProofs --------------------------
(***************************************************************************)
(* No peer is lost by PeerManager, for any number of peers and of API      *)
(* callers.  Two invariants: types and the ownership of peerMutex, and on  *)
(* top of them what each request has left in the two tables of peers.      *)
(***************************************************************************)
EXTENDS PeerManager, TLAPS

(* peerMutex belongs to the report that is being sent, or to Stop, and a   *)
(* lookup under it meets neither.                                          *)
LockOwned ==
    /\ \A c \in Conn : disc[c] = "donePeerMsg" <=> holder = c
    /\ holder = "stop" <=> close \in {"loop", "wait"}
    /\ query => Free

IInv == TypeOK /\ LockOwned

----------------------------------------------------------------------------
LEMMA IInvInit == Init => IInv
BY PeerAssumption DEF Init, IInv, TypeOK, LockOwned, Free

(* Steps of a connection that leave the mutex and its owners alone.        *)
LEMMA ConnStep ==
    ASSUME IInv, NEW c \in Conn, ConnNext(c)
    PROVE  IInv'
<1>1. CASE getNewAddress(c)
  BY <1>1, SMTT(30) DEF IInv, TypeOK, LockOwned, Free, getNewAddress, lockVars, outside
<1>2. CASE DialFails(c)
  BY <1>2, SMTT(30) DEF IInv, TypeOK, LockOwned, Free, DialFails, lockVars, outside
<1>3. CASE onConnection(c)
  <2>1. TypeOK'
    <3>1. req' \in [Conn -> {"unused", "dialing", "peer", "closed"}]
      BY <1>3, SMTT(30) DEF IInv, TypeOK, onConnection
    <3>2. alive' \in [Conn -> BOOLEAN]
      <4>1. alive \in [Conn -> BOOLEAN] /\ (alive' = alive \/ alive' = [alive EXCEPT ![c] = TRUE])
        BY <1>3 DEF IInv, TypeOK, onConnection
      <4> QED BY <4>1
    <3>3. reader' \in [Conn -> {"off", "handshake", "newPeerMsg", "reading", "message", "done"}]
      BY <1>3, SMTT(30) DEF IInv, TypeOK, onConnection
    <3>4. disc' \in [Conn -> {"off", "wait", "lock", "donePeerMsg", "done"}]
      BY <1>3, SMTT(30) DEF IInv, TypeOK, onConnection
    <3>5. connectedPeers' \subseteq Conn
      BY <1>3, SMTT(30) DEF IInv, TypeOK, onConnection
    <3>6. UNCHANGED <<holder, query, outside>>
      BY <1>3 DEF onConnection
    <3> QED BY <3>1, <3>2, <3>3, <3>4, <3>5, <3>6 DEF IInv, TypeOK, outside
  <2>2. Free
    BY <1>3 DEF onConnection, Unread
  <2>3. \A d \in Conn : disc[d] # "donePeerMsg" /\ disc'[d] # "donePeerMsg"
    BY <1>3, <2>2, PeerAssumption DEF IInv, TypeOK, LockOwned, Free, onConnection
  <2> QED BY <1>3, <2>1, <2>2, <2>3, PeerAssumption DEF IInv, LockOwned, Free, onConnection, outside
<1>4. CASE Disconnect(c)
  BY <1>4, SMTT(30) DEF IInv, TypeOK, LockOwned, Free, Disconnect, lockVars, outside
<1>5. CASE onVerack(c)
  <2>1. alive' \in [Conn -> BOOLEAN]
    <3>1. alive \in [Conn -> BOOLEAN] /\ (alive' = alive \/ alive' = [alive EXCEPT ![c] = FALSE])
      BY <1>5 DEF IInv, TypeOK, onVerack
    <3> QED BY <3>1
  <2>2. reader' \in [Conn -> {"off", "handshake", "newPeerMsg", "reading", "message", "done"}]
    BY <1>5, SMTT(30) DEF IInv, TypeOK, onVerack
  <2>3. UNCHANGED <<req, disc, lockVars, outside>>
    BY <1>5 DEF onVerack
  <2> QED BY <2>1, <2>2, <2>3 DEF IInv, TypeOK, LockOwned, Free, lockVars, outside
<1>6. CASE onMessage(c)
  BY <1>6, SMTT(30) DEF IInv, TypeOK, LockOwned, Free, onMessage, lockVars, outside
<1> QED BY <1>1, <1>2, <1>3, <1>4, <1>5, <1>6 DEF ConnNext

(* The reader's messages are taken by the loop; no mutex is involved.      *)
LEMMA ReaderStep ==
    ASSUME IInv, NEW c \in Conn, Reader(c)
    PROVE  IInv'
<1>1. CASE ReaderEnds(c)
  BY <1>1, SMTT(30) DEF IInv, TypeOK, LockOwned, Free, ReaderEnds, lockVars, outside
<1>2. CASE takeNewPeer(c)
  BY <1>2, SMTT(30) DEF IInv, TypeOK, LockOwned, Free, takeNewPeer, lockVars, stopVars
<1>3. CASE takeMessage(c)
  BY <1>3, SMTT(30) DEF IInv, TypeOK, LockOwned, Free, takeMessage, lockVars, stopVars
<1> QED BY <1>1, <1>2, <1>3 DEF Reader

(* onDisconnection takes the mutex when nobody has it and gives it back    *)
(* when the loop has taken its message.                                    *)
LEMMA ReporterStep ==
    ASSUME IInv, NEW c \in Conn, Reporter(c)
    PROVE  IInv'
<1>1. CASE WaitForDisconnect(c)
  BY <1>1, SMTT(30) DEF IInv, TypeOK, LockOwned, Free, WaitForDisconnect, lockVars, outside
<1>2. CASE onDisconnection(c)
  <2>1. TypeOK'
    BY <1>2, SMTT(30) DEF IInv, TypeOK, onDisconnection, outside
  <2>2. holder = "free" /\ ~query /\ \A d \in Conn : disc[d] # "donePeerMsg"
    BY <1>2, PeerAssumption DEF IInv, LockOwned, onDisconnection, Unread, Free
  <2>3. close \notin {"loop", "wait"} /\ close' = close /\ query' = query
    BY <1>2, <2>2 DEF IInv, LockOwned, onDisconnection, outside
  <2>4. CASE c \in connectedPeers
    BY <1>2, <2>1, <2>2, <2>3, <2>4, PeerAssumption DEF IInv, TypeOK, LockOwned, Free, onDisconnection
  <2>5. CASE c \notin connectedPeers
    BY <1>2, <2>1, <2>2, <2>3, <2>5, PeerAssumption DEF IInv, TypeOK, LockOwned, Free, onDisconnection
  <2> QED BY <2>4, <2>5
<1>3. CASE takeDonePeer(c)
  <2>1. TypeOK'
    BY <1>3, SMTT(30) DEF IInv, TypeOK, takeDonePeer, stopVars
  <2>2. holder = c /\ holder' = "free" /\ close' = close
    BY <1>3 DEF IInv, LockOwned, takeDonePeer
  <2>3. \A d \in Conn : disc'[d] # "donePeerMsg"
    BY <1>3, <2>2 DEF IInv, TypeOK, LockOwned, takeDonePeer
  <2>4. close' \notin {"loop", "wait"}
    BY <2>2, PeerAssumption DEF IInv, LockOwned
  <2> QED BY <2>1, <2>2, <2>3, <2>4, PeerAssumption DEF IInv, LockOwned, Free
<1> QED BY <1>1, <1>2, <1>3 DEF Reporter

(* The goroutines of Stop.                                                 *)
LEMMA HelperStep ==
    ASSUME IInv, NEW c \in Conn, Helper(c)
    PROVE  IInv'
<1>1. CASE HelperDisconnects(c)
  <2>1. alive' \in [Conn -> BOOLEAN]
    <3>1. alive \in [Conn -> BOOLEAN] /\ alive' = [alive EXCEPT ![peer] = FALSE]
      BY <1>1 DEF IInv, TypeOK, HelperDisconnects
    <3> QED BY <3>1
  <2>2. helper' \in [Conn -> Conn \cup {"disconnect", "disconnected", None}]
    BY <1>1, SMTT(30) DEF IInv, TypeOK, HelperDisconnects
  <2>3. UNCHANGED <<req, reader, disc, lockVars, wire, quit, peerStates, call, close, rest, peer>>
    BY <1>1 DEF HelperDisconnects
  <2> QED BY <2>1, <2>2, <2>3 DEF IInv, TypeOK, LockOwned, Free, lockVars
<1>2. CASE HelperWaits(c)
  BY <1>2, SMTT(30) DEF IInv, TypeOK, LockOwned, Free, HelperWaits, lockVars, connVars
<1>3. CASE HelperDone(c)
  BY <1>3, SMTT(30) DEF IInv, TypeOK, LockOwned, Free, HelperDone, lockVars, connVars
<1> QED BY <1>1, <1>2, <1>3 DEF Helper

(* Stop has the mutex from its first step to its last.                     *)
LEMMA CloserStep ==
    ASSUME IInv, Closer
    PROVE  IInv'
<1>1. CASE Stop
  <2>1. TypeOK'
    BY <1>1, SMTT(30) DEF IInv, TypeOK, Stop, connVars
  <2>2. \A d \in Conn : disc'[d] # "donePeerMsg"
    BY <1>1, PeerAssumption DEF IInv, LockOwned, Stop, Unread, Free, connVars
  <2> QED BY <1>1, <2>1, <2>2, PeerAssumption DEF IInv, LockOwned, Stop, Unread, Free
<1>2. ASSUME NEW c \in Conn, StopLoop(c) PROVE IInv'
  BY <1>2, SMTT(30) DEF IInv, TypeOK, LockOwned, Free, StopLoop, lockVars, connVars
<1>3. CASE StopClears
  BY <1>3, SMTT(30) DEF IInv, TypeOK, LockOwned, Free, StopClears, connVars, stopVars
<1>4. CASE StopEnds
  <2>1. TypeOK'
    BY <1>4, SMTT(30) DEF IInv, TypeOK, StopEnds, connVars
  <2>2. holder = "stop" /\ holder' = "free" /\ close' = "wire" /\ disc' = disc
    BY <1>4 DEF IInv, LockOwned, StopEnds, connVars
  <2>3. \A d \in Conn : disc'[d] # "donePeerMsg"
    BY <2>2, PeerAssumption DEF IInv, LockOwned
  <2> QED BY <2>1, <2>2, <2>3, PeerAssumption DEF IInv, LockOwned, Free
<1>5. CASE CloseEnds
  BY <1>5, SMTT(30) DEF IInv, TypeOK, LockOwned, Free, CloseEnds, connVars, lockVars, stopVars
<1> QED BY <1>1, <1>2, <1>3, <1>4, <1>5 DEF Closer

(* The loop, the API, the start, Close up to Stop, and the DNS lookups.    *)
LEMMA OtherStep ==
    ASSUME IInv,
           \/ Start \/ getMoreAddresses \/ queryDNSSeeds \/ Loop \/ Close
           \/ \E a \in Caller : Api(a) \/ \E what \in {"send", "lock"} : Call(a, what)
    PROVE  IInv'
<1>1. CASE Start
  BY <1>1, SMTT(30) DEF IInv, TypeOK, LockOwned, Free, Start, connVars, lockVars, stopVars
<1>2. CASE getMoreAddresses
  BY <1>2, SMTT(30) DEF IInv, TypeOK, LockOwned, Free, getMoreAddresses, connVars, outside
<1>3. CASE queryDNSSeeds
  BY <1>3 DEF IInv, TypeOK, LockOwned, Free, queryDNSSeeds, connVars, outside
<1>4. CASE Loop
  BY <1>4, SMTT(30) DEF IInv, TypeOK, LockOwned, Free, Loop, WireStart, ListenerReturns, WireStops,
              connVars, lockVars, stopVars
<1>5. CASE Close
  BY <1>5, SMTT(30) DEF IInv, TypeOK, LockOwned, Free, Close, connVars, lockVars, stopVars
<1>6. ASSUME NEW a \in Caller, Api(a) PROVE IInv'
  BY <1>6, SMTT(30) DEF IInv, TypeOK, LockOwned, Free, Api, takeUpdateFilters, ConnectedPeers,
              connVars, lockVars, stopVars
<1>7. ASSUME NEW a \in Caller, NEW what \in {"send", "lock"}, Call(a, what) PROVE IInv'
  BY <1>7, SMTT(30) DEF IInv, TypeOK, LockOwned, Free, Call, connVars, lockVars, stopVars
<1> QED BY <1>1, <1>2, <1>3, <1>4, <1>5, <1>6, <1>7

LEMMA IInvNext == IInv /\ [Next]_vars => IInv'
<1> SUFFICES ASSUME IInv, [Next]_vars PROVE IInv'
  OBVIOUS
<1>1. CASE Next
  BY <1>1, ConnStep, ReaderStep, ReporterStep, HelperStep, CloserStep, OtherStep DEF Next
<1>2. CASE UNCHANGED vars
  BY <1>2 DEF vars, IInv, TypeOK, LockOwned, Free
<1> QED BY <1>1, <1>2

----------------------------------------------------------------------------
(* The state of every goroutine around PeerManager and the message loop is *)
(* one the code has, whatever the number of peers and callers.             *)
THEOREM TypeCorrect == Spec => []TypeOK
<1>1. IInv => TypeOK
  BY DEF IInv
<1> QED BY <1>1, IInvInit, IInvNext, PTL DEF Spec

(* What NoPeerLost says of one request, and what keeps it so: a request    *)
(* that is not a peer yet has left no trace, and a connection that is up   *)
(* has the goroutine that waits for its end.                               *)
Tracked(c) ==
    /\ req[c] \in {"unused", "dialing"} =>
          ~alive[c] /\ reader[c] = "off" /\ disc[c] = "off" /\ c \notin connectedPeers
    /\ alive[c] => disc[c] = "wait"
    /\ disc[c] = "wait" /\ close \in {"open", "lock", "loop"} => c \in connectedPeers
    /\ c \in connectedPeers => disc[c] \in {"wait", "lock"}
    /\ c \in connectedPeers /\ reader[c] \in {"reading", "message"} => c \in peerStates

Visits == close = "loop" => rest \subseteq connectedPeers

TInv == IInv /\ (\A c \in Conn : Tracked(c)) /\ Visits

LEMMA TInvInit == Init => TInv
<1> SUFFICES ASSUME Init PROVE TInv
  OBVIOUS
<1>1. \A c \in Conn : Tracked(c)
  BY DEF Init, Tracked
<1>2. Visits
  BY DEF Init, Visits
<1> QED BY <1>1, <1>2, IInvInit DEF TInv

(* A step of the goroutines of one request leaves the others alone.        *)
LEMMA TrackedConn ==
    ASSUME TInv, NEW c \in Conn, ConnNext(c)
    PROVE  (\A d \in Conn : Tracked(d)') /\ Visits'
<1> USE DEF TInv, IInv
<1>1. CASE getNewAddress(c)
  BY <1>1 DEF TypeOK, Tracked, Visits, getNewAddress, lockVars, outside
<1>2. CASE DialFails(c)
  BY <1>2 DEF TypeOK, Tracked, Visits, DialFails, lockVars, outside
<1>3. CASE onConnection(c)
  <2>1. \A d \in Conn : Tracked(d)'
    BY <1>3 DEF TypeOK, Tracked, onConnection, outside
  <2>2. Visits'
    BY <1>3 DEF Visits, onConnection, outside
  <2> QED BY <2>1, <2>2
<1>4. CASE Disconnect(c)
  BY <1>4 DEF TypeOK, Tracked, Visits, Disconnect, lockVars, outside
<1>5. CASE onVerack(c)
  BY <1>5 DEF TypeOK, Tracked, Visits, onVerack, lockVars, outside
<1>6. CASE onMessage(c)
  BY <1>6 DEF TypeOK, Tracked, Visits, onMessage, lockVars, outside
<1> QED BY <1>1, <1>2, <1>3, <1>4, <1>5, <1>6 DEF ConnNext

LEMMA TrackedReader ==
    ASSUME TInv, NEW c \in Conn, Reader(c)
    PROVE  (\A d \in Conn : Tracked(d)') /\ Visits'
<1> USE DEF TInv, IInv
<1>1. CASE ReaderEnds(c)
  BY <1>1 DEF TypeOK, Tracked, Visits, ReaderEnds, lockVars, outside
<1>2. CASE takeNewPeer(c)
  BY <1>2 DEF TypeOK, Tracked, Visits, takeNewPeer, lockVars, stopVars
<1>3. CASE takeMessage(c)
  BY <1>3 DEF TypeOK, Tracked, Visits, takeMessage, lockVars, stopVars
<1> QED BY <1>1, <1>2, <1>3 DEF Reader

(* A report starts when the connection is down; it takes the peer out of   *)
(* the map under the mutex, which Stop does not have then.                 *)
LEMMA TrackedReporter ==
    ASSUME TInv, NEW c \in Conn, Reporter(c)
    PROVE  (\A d \in Conn : Tracked(d)') /\ Visits'
<1> USE DEF TInv, IInv
<1>1. CASE WaitForDisconnect(c)
  BY <1>1 DEF TypeOK, Tracked, Visits, WaitForDisconnect, lockVars, outside
<1>2. CASE onDisconnection(c)
  <2>1. \A d \in Conn : Tracked(d)'
    BY <1>2 DEF TypeOK, Tracked, onDisconnection, outside
  <2>2. close' # "loop"
    BY <1>2 DEF LockOwned, onDisconnection, Unread, Free, outside
  <2> QED BY <2>1, <2>2 DEF Visits
<1>3. CASE takeDonePeer(c)
  BY <1>3 DEF TypeOK, Tracked, Visits, takeDonePeer, stopVars
<1> QED BY <1>1, <1>2, <1>3 DEF Reporter

LEMMA TrackedHelper ==
    ASSUME TInv, NEW c \in Conn, Helper(c)
    PROVE  (\A d \in Conn : Tracked(d)') /\ Visits'
<1> USE DEF TInv, IInv
<1>1. CASE HelperDisconnects(c)
  BY <1>1 DEF TypeOK, Tracked, Visits, HelperDisconnects, lockVars
<1>2. CASE HelperWaits(c)
  BY <1>2 DEF Tracked, Visits, HelperWaits, connVars, lockVars
<1>3. CASE HelperDone(c)
  BY <1>3 DEF Tracked, Visits, HelperDone, connVars, lockVars
<1> QED BY <1>1, <1>2, <1>3 DEF Helper

(* Stop leaves the peers to their reports; only its end empties the map.   *)
LEMMA TrackedCloser ==
    ASSUME TInv, Closer
    PROVE  (\A d \in Conn : Tracked(d)') /\ Visits'
<1> USE DEF TInv, IInv
<1>1. CASE Stop
  BY <1>1 DEF Tracked, Visits, Stop, connVars
<1>2. ASSUME NEW c \in Conn, StopLoop(c) PROVE (\A d \in Conn : Tracked(d)') /\ Visits'
  BY <1>2 DEF Tracked, Visits, StopLoop, connVars, lockVars
<1>3. CASE StopClears
  BY <1>3 DEF Tracked, Visits, StopClears, connVars, stopVars
<1>4. CASE StopEnds
  BY <1>4 DEF Tracked, Visits, StopEnds, connVars
<1>5. CASE CloseEnds
  BY <1>5 DEF Tracked, Visits, CloseEnds, connVars, lockVars, stopVars
<1> QED BY <1>1, <1>2, <1>3, <1>4, <1>5 DEF Closer

LEMMA TrackedOther ==
    ASSUME TInv,
           \/ Start \/ getMoreAddresses \/ queryDNSSeeds \/ Loop \/ Close
           \/ \E a \in Caller : Api(a) \/ \E what \in {"send", "lock"} : Call(a, what)
    PROVE  (\A d \in Conn : Tracked(d)') /\ Visits'
<1>1. /\ UNCHANGED <<req, alive, reader, disc, connectedPeers, peerStates, rest>>
      /\ close' = close \/ (close = "open" /\ close' = "lock")
  BY DEF Start, getMoreAddresses, queryDNSSeeds, Loop, WireStart, ListenerReturns, WireStops,
         Close, Api, takeUpdateFilters, ConnectedPeers, Call, connVars, lockVars, stopVars, outside
<1> QED BY <1>1 DEF TInv, Tracked, Visits

LEMMA TInvNext == TInv /\ [Next]_vars => TInv'
<1> SUFFICES ASSUME TInv, [Next]_vars PROVE TInv'
  OBVIOUS
<1>1. IInv'
  BY IInvNext DEF TInv
<1>2. CASE Next
  <2>1. (\A d \in Conn : Tracked(d)') /\ Visits'
    BY <1>2, TrackedConn, TrackedReader, TrackedReporter, TrackedHelper, TrackedCloser,
       TrackedOther DEF Next
  <2> QED BY <1>1, <2>1 DEF TInv
<1>3. CASE UNCHANGED vars
  BY <1>1, <1>3 DEF vars, TInv, Tracked, Visits
<1> QED BY <1>2, <1>3

(* For any number of peers and of callers, through the contention for      *)
(* peerMutex and for msgChan and in the middle of Stop: a live connection  *)
(* is in connectedPeers, the end of every peer there is still going to be  *)
(* reported, the wire service knows those that read messages, and the map  *)
(* does not change under the loop of Stop.                                 *)
THEOREM NoPeerIsLost == Spec => []NoPeerLost
<1>1. TInv => NoPeerLost
  BY DEF TInv, IInv, TypeOK, Tracked, Visits, NoPeerLost
<1> QED BY <1>1, TInvInit, TInvNext, PTL DEF Spec
=============================================================================
