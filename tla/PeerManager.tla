---------------------------- MODULE PeerManager ----------------------------
(***************************************************************************)
(* The goroutines around PeerManager of peers.go and the message loop of   *)
(* WireService (eight333.go): who waits for peerMutex, who waits for the   *)
(* unbuffered msgChan, and what Close of the wallet does to them.          *)
(*                                                                         *)
(* A connection request c of the connection manager becomes a peer with    *)
(* three goroutines: its reader, which calls the onXxx listeners, the one  *)
(* that waits for its end, and the one connmgr starts for onDisconnection. *)
(* A critical section that cannot block is one step, taken when the mutex  *)
(* is free; onDisconnection, Stop and getMoreAddresses block while they    *)
(* hold it, and are split there.  What the messages contain is the         *)
(* business of module WireService.                                         *)
(***************************************************************************)
EXTENDS Naturals, FiniteSets

CONSTANTS
    Conn,            \* connection requests
    AddrOf,          \* the address the address manager draws for a request
    Good,            \* peers with the services the wallet needs
    TargetOutbound,  \* connections to hold
    TrustedPeer,     \* a trusted peer is configured
    Caller,          \* goroutines of the API
    None

ASSUME PeerAssumption ==
    /\ Good \subseteq Conn
    /\ None \notin Conn
    /\ {"free", "stop", "disconnect", "disconnected"} \cap Conn = {}
    /\ TrustedPeer \in BOOLEAN

VARIABLES
    req,             \* connmgr: state of each request
    alive,           \* the connection of a peer is up (its quit channel is open)
    reader,          \* the reader goroutine of each peer
    disc,            \* the goroutines that report its end
    connectedPeers,  \* PeerManager.connectedPeers, by request
    holder,          \* who has peerMutex for writing
    query,           \* getMoreAddresses asks the DNS seeds, reading under peerMutex
    wire,            \* the loop of WireService.Start
    quit,            \* its quit channel
    peerStates,      \* WireService.peerStates
    call,            \* what each API goroutine waits for
    close,           \* where SPVWallet.Close is
    rest, peer,      \* Stop: peers its loop has not reached, and its loop variable
    helper           \* Stop: its goroutines, by the peer they were started at

vars == <<req, alive, reader, disc, connectedPeers, holder, query, wire, quit,
          peerStates, call, close, rest, peer, helper>>
stopVars == <<rest, peer, helper>>
connVars == <<req, alive, reader, disc>>
lockVars == <<connectedPeers, holder, query>>
outside == <<wire, quit, peerStates, call, close, rest, peer, helper>>

Free == holder = "free"
Unread == Free /\ ~query         \* peerMutex can be had for writing

Active == {c \in Conn : req[c] \in {"dialing", "peer"}}

----------------------------------------------------------------------------
(***************************************************************************)
(* Connections.  connmgr keeps TargetOutbound requests going: it asks for  *)
(* an address, dials, and starts a goroutine for onConnection.             *)
(***************************************************************************)
Start ==
    /\ wire = "off"
    /\ wire' = "starting"
    /\ UNCHANGED <<connVars, lockVars, quit, peerStates, call, close, stopVars>>

(* getNewAddress: the trusted peer, or an address no connected peer has;   *)
(* after a hundred draws without one connmgr tries again later.            *)
getNewAddress(c) ==
    /\ wire # "off"
    /\ req[c] = "unused" /\ Cardinality(Active) < TargetOutbound
    /\ TrustedPeer \/ (Unread /\ \A d \in connectedPeers : AddrOf[d] # AddrOf[c])
    /\ req' = [req EXCEPT ![c] = "dialing"]
    /\ UNCHANGED <<alive, reader, disc, lockVars, outside>>

DialFails(c) ==
    /\ req[c] = "dialing"
    /\ req' = [req EXCEPT ![c] = "unused"]
    /\ UNCHANGED <<alive, reader, disc, lockVars, outside>>

onConnection(c) ==
    /\ req[c] = "dialing" /\ Unread
    /\ \/ /\ req' = [req EXCEPT ![c] = "peer"]
          /\ connectedPeers' = connectedPeers \cup {c}
          /\ alive' = [alive EXCEPT ![c] = TRUE]
          /\ reader' = [reader EXCEPT ![c] = "handshake"]
          /\ disc' = [disc EXCEPT ![c] = "wait"]
       \/ /\ req' = [req EXCEPT ![c] = "closed"]   \* NewOutboundPeer fails
          /\ disc' = [disc EXCEPT ![c] = "lock"]
          /\ UNCHANGED <<connectedPeers, alive, reader>>
    /\ UNCHANGED <<holder, query, outside>>

(* The remote side, a failed handshake or a handler of the wire service    *)
(* ends the connection.                                                    *)
Disconnect(c) ==
    /\ alive[c]
    /\ alive' = [alive EXCEPT ![c] = FALSE]
    /\ UNCHANGED <<req, reader, disc, lockVars, outside>>

onVerack(c) ==
    /\ reader[c] = "handshake" /\ alive[c]
    /\ \/ /\ c \notin Good
          /\ alive' = [alive EXCEPT ![c] = FALSE]
          /\ reader' = [reader EXCEPT ![c] = "done"]
       \/ /\ c \in Good
          /\ reader' = [reader EXCEPT ![c] = "newPeerMsg"]
          /\ UNCHANGED alive
    /\ UNCHANGED <<req, disc, lockVars, outside>>

(* onHeaders, onMerkleBlock, onInv and onTx hand the message to the loop   *)
(* from the reader's goroutine, which reads nothing else until it is       *)
(* taken.                                                                  *)
onMessage(c) ==
    /\ reader[c] = "reading" /\ alive[c]
    /\ reader' = [reader EXCEPT ![c] = "message"]
    /\ UNCHANGED <<req, alive, disc, lockVars, outside>>

ReaderEnds(c) ==
    /\ reader[c] \in {"handshake", "reading"} /\ ~alive[c]
    /\ reader' = [reader EXCEPT ![c] = "done"]
    /\ UNCHANGED <<req, alive, disc, lockVars, outside>>

(* WaitForDisconnect returns and connmgr starts onDisconnection; the       *)
(* request counts no more and another one may be made.                     *)
WaitForDisconnect(c) ==
    /\ disc[c] = "wait" /\ ~alive[c]
    /\ disc' = [disc EXCEPT ![c] = "lock"]
    /\ req' = [req EXCEPT ![c] = "closed"]
    /\ UNCHANGED <<alive, reader, lockVars, outside>>

(* Mutant: the peer is taken out of the map without the mutex, which is    *)
(* not held while the message is sent either.                              *)
onDisconnectionUnlocked(c) ==
    /\ disc[c] = "lock"
    /\ connectedPeers' = connectedPeers \ {c}
    /\ disc' = [disc EXCEPT ![c] = IF c \in connectedPeers THEN "donePeerMsg" ELSE "done"]
    /\ UNCHANGED <<req, alive, reader, holder, query, outside>>

(* Mutant: the peer stays in the map.                                      *)
onDisconnectionKept(c) ==
    /\ disc[c] = "lock" /\ Unread
    /\ IF c \in connectedPeers
       THEN disc' = [disc EXCEPT ![c] = "donePeerMsg"] /\ holder' = c
       ELSE disc' = [disc EXCEPT ![c] = "done"] /\ UNCHANGED holder
    /\ UNCHANGED <<req, alive, reader, connectedPeers, query, outside>>

(* onDisconnection keeps peerMutex until the loop has taken donePeerMsg.   *)
onDisconnection(c) ==
    /\ disc[c] = "lock" /\ Unread
    /\ connectedPeers' = connectedPeers \ {c}
    /\ IF c \in connectedPeers
       THEN disc' = [disc EXCEPT ![c] = "donePeerMsg"] /\ holder' = c
       ELSE disc' = [disc EXCEPT ![c] = "done"] /\ UNCHANGED holder
    /\ UNCHANGED <<req, alive, reader, query, outside>>

(* getMoreAddresses, once a minute: with peers their address messages are  *)
(* queued, without the DNS seeds are asked while the mutex is held.        *)
getMoreAddresses ==
    /\ wire # "off" /\ Free /\ ~query
    /\ connectedPeers = {}
    /\ query' = TRUE
    /\ UNCHANGED <<connVars, connectedPeers, holder, outside>>

queryDNSSeeds ==
    /\ query
    /\ query' = FALSE
    /\ UNCHANGED <<connVars, connectedPeers, holder, outside>>

----------------------------------------------------------------------------
(***************************************************************************)
(* The loop of WireService.Start.  msgChan is unbuffered: a sender goes on *)
(* when the loop takes its message.  The handler of a merkle block calls   *)
(* the block listeners, here a call that takes its time and returns; the   *)
(* other handlers do not block.                                            *)
(***************************************************************************)
WireStart ==
    /\ wire = "starting"
    /\ wire' = "select" /\ quit' = "open"
    /\ UNCHANGED <<connVars, lockVars, peerStates, call, close, stopVars>>

takeNewPeer(c) ==
    /\ wire = "select" /\ reader[c] = "newPeerMsg"
    /\ peerStates' = peerStates \cup {c}
    /\ reader' = [reader EXCEPT ![c] = "reading"]
    /\ UNCHANGED <<req, alive, disc, lockVars, wire, quit, call, close, stopVars>>

takeMessage(c) ==
    /\ wire = "select" /\ reader[c] = "message"
    /\ reader' = [reader EXCEPT ![c] = "reading"]
    /\ wire' \in {"select", "listener"}
    /\ UNCHANGED <<req, alive, disc, lockVars, quit, peerStates, call, close, stopVars>>

takeDonePeer(c) ==
    /\ wire = "select" /\ disc[c] = "donePeerMsg"
    /\ peerStates' = peerStates \ {c}
    /\ disc' = [disc EXCEPT ![c] = "done"]
    /\ holder' = "free"
    /\ UNCHANGED <<req, alive, reader, connectedPeers, query, wire, quit, call, close, stopVars>>

(* updateFiltersMsg, of Broadcast, which goes on to ask for the peers, or  *)
(* of AddWatchedAddress, which returns.                                    *)
takeUpdateFilters(a) ==
    /\ wire = "select" /\ call[a] = "send"
    /\ \E next \in {"lock", "idle"} : call' = [call EXCEPT ![a] = next]
    /\ UNCHANGED <<connVars, lockVars, wire, quit, peerStates, close, stopVars>>

(* Mutant: the listener asks for the connected peers.                      *)
ListenerReturnsLocked ==
    /\ wire = "listener" /\ Free
    /\ wire' = "select"
    /\ UNCHANGED <<connVars, lockVars, quit, peerStates, call, close, stopVars>>

ListenerReturns ==
    /\ wire = "listener"
    /\ wire' = "select"
    /\ UNCHANGED <<connVars, lockVars, quit, peerStates, call, close, stopVars>>

WireStops ==
    /\ wire = "select" /\ quit = "closed"
    /\ wire' = "stopped"
    /\ UNCHANGED <<connVars, lockVars, quit, peerStates, call, close, stopVars>>

----------------------------------------------------------------------------
(***************************************************************************)
(* The API.  Broadcast sends updateFiltersMsg and then asks for the        *)
(* connected peers; AddWatchedAddress and RemoveWatchedAddress only send;  *)
(* the RPC Peers only asks.                                                *)
(***************************************************************************)
Call(a, what) ==
    /\ wire # "off" /\ call[a] = "idle"
    /\ call' = [call EXCEPT ![a] = what]
    /\ UNCHANGED <<connVars, lockVars, wire, quit, peerStates, close, stopVars>>

ConnectedPeers(a) ==
    /\ call[a] = "lock" /\ Free
    /\ call' = [call EXCEPT ![a] = "idle"]
    /\ UNCHANGED <<connVars, lockVars, wire, quit, peerStates, close, stopVars>>

----------------------------------------------------------------------------
(***************************************************************************)
(* Close: PeerManager.Stop, then the database, then WireService.Stop.      *)
(* Stop starts a goroutine per peer, and they all read the loop's variable *)
(* `peer', at Disconnect and again at WaitForDisconnect: each may see the  *)
(* peer it was started at or any later one.  connmgr is not stopped.       *)
(***************************************************************************)
(* Mutant: the wire service is stopped first.                              *)
CloseWireFirst ==
    /\ wire # "off" /\ close = "open" /\ quit = "open"
    /\ close' = "lock" /\ quit' = "closed"
    /\ UNCHANGED <<connVars, lockVars, wire, peerStates, call, stopVars>>

Close ==
    /\ wire # "off" /\ close = "open"
    /\ close' = "lock"
    /\ UNCHANGED <<connVars, lockVars, wire, quit, peerStates, call, stopVars>>

Stop ==
    /\ close = "lock" /\ Unread
    /\ close' = "loop" /\ holder' = "stop" /\ rest' = connectedPeers
    /\ UNCHANGED <<connVars, connectedPeers, query, wire, quit, peerStates, call, peer, helper>>

StopLoop(c) ==
    /\ close = "loop" /\ c \in rest
    /\ rest' = rest \ {c} /\ peer' = c
    /\ helper' = [helper EXCEPT ![c] = "disconnect"]
    /\ UNCHANGED <<connVars, lockVars, wire, quit, peerStates, call, close>>

HelperDisconnects(c) ==
    /\ helper[c] = "disconnect"
    /\ alive' = [alive EXCEPT ![peer] = FALSE]
    /\ helper' = [helper EXCEPT ![c] = "disconnected"]
    /\ UNCHANGED <<req, reader, disc, lockVars, wire, quit, peerStates, call, close, rest, peer>>

HelperWaits(c) ==
    /\ helper[c] = "disconnected"
    /\ helper' = [helper EXCEPT ![c] = peer]
    /\ UNCHANGED <<connVars, lockVars, wire, quit, peerStates, call, close, rest, peer>>

HelperDone(c) ==
    /\ helper[c] \in Conn /\ ~alive[helper[c]]
    /\ helper' = [helper EXCEPT ![c] = None]
    /\ UNCHANGED <<connVars, lockVars, wire, quit, peerStates, call, close, rest, peer>>

StopClears ==
    /\ close = "loop" /\ rest = {}
    /\ close' = "wait" /\ connectedPeers' = {}
    /\ UNCHANGED <<connVars, holder, query, wire, quit, peerStates, call, stopVars>>

StopEnds ==
    /\ close = "wait" /\ \A c \in Conn : helper[c] = None
    /\ close' = "wire" /\ holder' = "free" /\ peer' = None
    /\ UNCHANGED <<connVars, connectedPeers, query, wire, quit, peerStates, call, rest, helper>>

(* close(ws.quit) of a loop that has not made the channel yet panics.      *)
CloseEnds ==
    /\ close = "wire"
    /\ \/ quit = "open" /\ close' = "closed" /\ quit' = "closed"
       \/ quit = "nil" /\ close' = "panic" /\ UNCHANGED quit
    /\ UNCHANGED <<connVars, lockVars, wire, peerStates, call, stopVars>>

----------------------------------------------------------------------------
Init ==
    /\ req = [c \in Conn |-> "unused"]
    /\ alive = [c \in Conn |-> FALSE]
    /\ reader = [c \in Conn |-> "off"]
    /\ disc = [c \in Conn |-> "off"]
    /\ connectedPeers = {} /\ holder = "free" /\ query = FALSE
    /\ wire = "off" /\ quit = "nil" /\ peerStates = {}
    /\ call = [a \in Caller |-> "idle"]
    /\ close = "open"
    /\ rest = {} /\ peer = None /\ helper = [c \in Conn |-> None]

ConnNext(c) ==
    \/ getNewAddress(c) \/ DialFails(c) \/ onConnection(c)
    \/ Disconnect(c) \/ onVerack(c) \/ onMessage(c)

(* The goroutines.                                                         *)
Reader(c) == ReaderEnds(c) \/ takeNewPeer(c) \/ takeMessage(c)
Reporter(c) == WaitForDisconnect(c) \/ onDisconnection(c) \/ takeDonePeer(c)
Helper(c) == HelperDisconnects(c) \/ HelperWaits(c) \/ HelperDone(c)
Closer == Stop \/ (\E c \in Conn : StopLoop(c)) \/ StopClears \/ StopEnds \/ CloseEnds
Api(a) == takeUpdateFilters(a) \/ ConnectedPeers(a)
Loop == WireStart \/ ListenerReturns \/ WireStops

Next ==
    /\ close # "panic"
    /\ \/ Start \/ getMoreAddresses \/ queryDNSSeeds \/ Loop \/ Close \/ Closer
       \/ \E c \in Conn : ConnNext(c) \/ Reader(c) \/ Reporter(c) \/ Helper(c)
       \/ \E a \in Caller : Api(a) \/ \E what \in {"send", "lock"} : Call(a, what)

(* A goroutine that can run does; Go's mutex and the queues of a channel   *)
(* are first come first served, so one that is overtaken again and again   *)
(* gets its turn.  Listeners return and lookups end.  Nothing is assumed   *)
(* of the remote peers, of the users or of connmgr.                        *)
Fairness ==
    /\ WF_vars(Loop) /\ WF_vars(queryDNSSeeds) /\ SF_vars(Closer)
    /\ \A c \in Conn : SF_vars(Reader(c)) /\ SF_vars(Reporter(c)) /\ WF_vars(Helper(c))
    /\ \A a \in Caller : SF_vars(Api(a))

Spec == Init /\ [][Next]_vars /\ Fairness

----------------------------------------------------------------------------
(***************************************************************************)
(* Properties.                                                             *)
(***************************************************************************)
TypeOK ==
    /\ req \in [Conn -> {"unused", "dialing", "peer", "closed"}]
    /\ alive \in [Conn -> BOOLEAN]
    /\ reader \in [Conn -> {"off", "handshake", "newPeerMsg", "reading", "message", "done"}]
    /\ disc \in [Conn -> {"off", "wait", "lock", "donePeerMsg", "done"}]
    /\ connectedPeers \subseteq Conn
    /\ holder \in Conn \cup {"free", "stop"}
    /\ query \in BOOLEAN
    /\ wire \in {"off", "starting", "select", "listener", "stopped"}
    /\ quit \in {"nil", "open", "closed"}
    /\ peerStates \subseteq Conn
    /\ call \in [Caller -> {"idle", "send", "lock"}]
    /\ close \in {"open", "lock", "loop", "wait", "wire", "closed", "panic"}
    /\ rest \subseteq Conn /\ peer \in Conn \cup {None}
    /\ helper \in [Conn -> Conn \cup {"disconnect", "disconnected", None}]

(* Whoever waits for the mutex or for the loop is served while the wallet  *)
(* is open, though onDisconnection waits for one while it holds the other: *)
(* no call of the API hangs.                                               *)
CallsReturn ==
    \A a \in Caller : call[a] # "idle" ~> (call[a] = "idle" \/ close # "open")

(* A peer that left is taken out of connectedPeers and out of peerStates,  *)
(* if the wire service knew of it, while the wallet is open.               *)
DepartedForgotten ==
    \A c \in Conn : (c \in connectedPeers \cap peerStates /\ ~alive[c])
                        ~> (c \notin connectedPeers \cup peerStates \/ close # "open")

(* Close always gets the mutex from the goroutines that hold it while they *)
(* wait for the loop: the loop runs until Stop has returned.               *)
StopEntered == (close = "lock") ~> (close # "lock")

(* No peer is lost between the connection, the two tables and the report:  *)
(* until Stop empties the map a live connection is in it, so that Stop and *)
(* Broadcast reach it; the end of a peer in the map is still to be         *)
(* reported; one that reads messages is known to the wire service, which   *)
(* ignores those of strangers; and no report takes a peer out of the map   *)
(* while Stop is still to come to it.                                      *)
NoPeerLost ==
    /\ \A c \in Conn : alive[c] /\ close \in {"open", "lock", "loop"} => c \in connectedPeers
    /\ \A c \in connectedPeers :
          /\ disc[c] \in {"wait", "lock"}
          /\ reader[c] \in {"reading", "message"} => c \in peerStates
    /\ close = "loop" => rest \subseteq connectedPeers
=============================================================================
