----------------------------- MODULE UDPBridge ------------------------------
(***************************************************************************)
(* The UDP bridge of socktunnel (main.cpp): datagrams that reach the agent *)
(* socket are forwarded to one server, each sender through a socket of its *)
(* own, and what the server answers there goes back to that sender.  One   *)
(* forwarder at a time may borrow the socket that was bound to a preferred *)
(* port.  A forwarder that is idle for Timeout seconds is freed by the     *)
(* manager's timer, which looks at one of two slots each second, and only  *)
(* at bridges that are on its check list.                                  *)
(*                                                                         *)
(* A socket remembers in remoteAddr_ whom it last received from (see recv  *)
(* of XSocketImpl), and sends there.  time_ is kept as the seconds since   *)
(* it was set, NotSet standing for 0.                                      *)
(***************************************************************************)
EXTENDS Integers, FiniteSets

CONSTANTS
  Sender,     \* the addresses whose datagrams reach the agent socket
  Server,     \* ip2_ and port2_
  Stranger,   \* other addresses that send to a forwarder's socket
  Timeout,    \* 90: seconds
  None        \* no callback on the preferred socket

ASSUME TimeoutNat == Timeout \in Nat
ASSUME NoneApart == None \notin Sender

VARIABLES
  forwardMap,     \* forwardMap_: sender -> forwarder
  slotCounter,    \* slotCounter_ % FORWARD_MAX_SLOTS
  checkCounter,   \* checkCounter_ % FORWARD_MAX_SLOTS
  preferSockRef,  \* preferSockRef_
  preferRemote,   \* remoteAddr_ of preferSock_
  preferCallback, \* callback_ of preferSock_: the sender of its forwarder
  listed,         \* the bridge is in timeCheckBridges_
  closed          \* agentSock_ was deleted

vars == <<forwardMap, slotCounter, checkCounter, preferSockRef, preferRemote,
          preferCallback, listed, closed>>

NotSet == -1
Slot == 0 .. 1
Remote == {Server} \cup Stranger

\* A forwarder: the slot it is in, whether it has the preferred socket, to_,
\* remoteAddr_ of its own socket, time_, and the seconds since its last datagram.
Forwarder == [slot : Slot, prefer : BOOLEAN, to : Remote, remote : Remote,
              time : Nat \cup {NotSet}, idle : Nat]

\* Forwarder f with time_ t, its last datagram i seconds ago.
Timed(f, t, i) == [slot |-> f.slot, prefer |-> f.prefer, to |-> f.to, remote |-> f.remote,
                   time |-> t, idle |-> i]

Senders == DOMAIN forwardMap

TypeOK ==
  /\ Senders \subseteq Sender /\ forwardMap \in [Senders -> Forwarder]
  /\ slotCounter \in Slot /\ checkCounter \in Slot
  /\ preferSockRef \in Int
  /\ preferRemote \in Remote
  /\ preferCallback \in Sender \cup {None}
  /\ listed \in BOOLEAN /\ closed \in BOOLEAN

Init ==
  /\ forwardMap = [a \in {} |-> {}]
  /\ slotCounter = 0 /\ checkCounter = 0
  /\ preferSockRef = 0 /\ preferRemote = Server /\ preferCallback = None
  /\ listed = FALSE /\ closed = FALSE
-----------------------------------------------------------------------------
(* A datagram from a sender. *)

\* The forwarder that is made for a new sender.  to_ is what the socket has as
\* its remote address; the datagram itself sets time_ to 0.
NewForwarder(lend) ==
  LET remote == IF lend THEN preferRemote ELSE Server
  IN  [slot |-> slotCounter, prefer |-> lend, to |-> remote, remote |-> remote,
       time |-> NotSet, idle |-> 0]

\* The preferred socket is lent if nobody has it.
Lend == preferSockRef = 0

\* slotCounter_ and checkCounter_ are used modulo FORWARD_MAX_SLOTS.
NextSlot(s) == (s + 1) % 2

\* addToCheck is called for the first of the senders S.
FirstOf(S) == Cardinality(S) = 1

\* Faulty variant: every forwarder uses the address of the preferred socket.
SendsToPreferred(a) == preferRemote

\* Where the datagrams of sender a are sent.
SendsTo(a) == IF forwardMap[a].prefer THEN preferRemote ELSE forwardMap[a].remote

\* Faulty variant: time_ stays set.
ForwardKnownKeepsTime(a) ==
  /\ a \in Senders
  /\ forwardMap' = [forwardMap EXCEPT ![a] = Timed(@, @.time, 0)]
  /\ UNCHANGED <<slotCounter, checkCounter, preferSockRef, preferRemote, preferCallback, listed>>

\* onSocketRecvDataReady, a known sender.
ForwardKnown(a) ==
  /\ a \in Senders
  /\ forwardMap' = [forwardMap EXCEPT ![a] = Timed(@, NotSet, 0)]
  /\ UNCHANGED <<slotCounter, checkCounter, preferSockRef, preferRemote, preferCallback, listed>>

\* onSocketRecvDataReady, a new sender, all goes well.
ForwardNew(a) ==
  /\ a \notin Senders
  /\ forwardMap' = [b \in Senders \cup {a} |->
                      IF b = a THEN NewForwarder(Lend) ELSE forwardMap[b]]
  /\ slotCounter' = NextSlot(slotCounter)
  /\ preferSockRef' = IF Lend THEN preferSockRef + 1 ELSE preferSockRef
  /\ preferCallback' = IF Lend THEN a ELSE preferCallback
  /\ listed' = (listed \/ FirstOf(Senders'))
  /\ UNCHANGED <<checkCounter, preferRemote>>

\* onSocketRecvDataReady, a new sender, and bind of a new socket fails.
BindFails(a) ==
  /\ a \notin Senders /\ ~ Lend
  /\ UNCHANGED <<forwardMap, slotCounter, checkCounter, preferSockRef, preferRemote,
                 preferCallback, listed>>

\* onSocketRecvDataReady, a new sender, and kickIO fails: freeFoward takes the
\* forwarder out again and returns the preferred socket, which keeps its
\* callback.
KickFails(a) ==
  /\ a \notin Senders
  /\ slotCounter' = NextSlot(slotCounter)
  /\ preferCallback' = IF Lend THEN a ELSE preferCallback
  /\ UNCHANGED <<forwardMap, checkCounter, preferSockRef, preferRemote, listed>>

onSocketRecvDataReady(a) ==
  /\ ~ closed
  /\ ForwardKnown(a) \/ ForwardNew(a) \/ BindFails(a) \/ KickFails(a)
  /\ UNCHANGED closed

\* Forwarder::onSocketRecvDataReady: a datagram from address r on the socket of
\* the forwarder of a.  Only what comes from to_ goes back to the sender.
onForwarderRecv(a, r) ==
  /\ ~ closed /\ a \in Senders
  /\ LET f == forwardMap[a]
         g == IF r = f.to THEN Timed(f, NotSet, 0) ELSE f
     IN  /\ forwardMap' = [forwardMap EXCEPT ![a] = IF f.prefer THEN g ELSE [g EXCEPT !.remote = r]]
         /\ preferRemote' = IF f.prefer THEN r ELSE preferRemote
  /\ UNCHANGED <<slotCounter, checkCounter, preferSockRef, preferCallback, listed, closed>>
-----------------------------------------------------------------------------
(* The timer. *)

\* Faulty variant: the preferred socket is not returned.
freeFowardKeepsRef(F, m) ==
  /\ forwardMap' = [a \in DOMAIN m \ F |-> m[a]]
  /\ UNCHANGED preferSockRef

\* freeFoward of the forwarders of F: they leave the map, which is otherwise m,
\* and their slot, and the preferred socket is returned; its callback stays.
freeFoward(F, m) ==
  /\ forwardMap' = [a \in DOMAIN m \ F |-> m[a]]
  /\ preferSockRef' = preferSockRef - Cardinality({a \in F : m[a].prefer})

\* The forwarder f a second later.
Aged(f) == Timed(f, IF f.time = NotSet THEN NotSet ELSE f.time + 1, f.idle + 1)

\* timeToCheck of the bridge finds f, of the slot it looks at, too old.
TimedOut(f) == f.slot = checkCounter /\ f.time # NotSet /\ f.time > Timeout

\* Faulty variant: every check sets time_ anew.
MarkedAnew(f) == IF f.slot = checkCounter THEN Timed(f, 0, f.idle) ELSE f

\* timeToCheck marks a forwarder of that slot that was active since.
Marked(f) == IF f.slot = checkCounter /\ f.time = NotSet THEN Timed(f, 0, f.idle) ELSE f

\* timeToCheck of the manager, once a second; it takes the bridge off its list
\* when no forwarder is left.
timeToCheck ==
  /\ ~ closed /\ listed
  /\ LET F == {a \in Senders : TimedOut(Aged(forwardMap[a]))}
     IN  /\ freeFoward(F, [a \in Senders |-> Marked(Aged(forwardMap[a]))])
         /\ listed' = (Senders \ F # {})
  /\ checkCounter' = NextSlot(checkCounter)
  /\ UNCHANGED <<slotCounter, preferRemote, preferCallback, closed>>

\* A second passes for a bridge that the timer does not look at.
NotChecked ==
  /\ ~ closed /\ ~ listed
  /\ forwardMap' = [a \in Senders |-> Aged(forwardMap[a])]
  /\ UNCHANGED <<slotCounter, checkCounter, preferSockRef, preferRemote, preferCallback,
                 listed, closed>>

\* close, when the manager is deleted at the end of the program.
close ==
  /\ ~ closed /\ closed' = TRUE
  /\ freeFoward(Senders, forwardMap)
  /\ UNCHANGED <<slotCounter, checkCounter, preferRemote, preferCallback, listed>>

Next ==
  \/ \E a \in Sender : onSocketRecvDataReady(a) \/ \E r \in Remote : onForwarderRecv(a, r)
  \/ timeToCheck \/ NotChecked \/ close

Spec == Init /\ [][Next]_vars
-----------------------------------------------------------------------------
(* Properties. *)

\* A bridge with forwarders is on the manager's check list: otherwise they would
\* never be freed.
Checked == Senders # {} => listed

\* The preferred socket is counted right: lent to one forwarder at most, and then
\* its callback is that forwarder and not one that was freed.
PreferLentOnce ==
  /\ preferSockRef = Cardinality({a \in Senders : forwardMap[a].prefer})
  /\ \A a \in Senders : forwardMap[a].prefer => preferSockRef = 1 /\ preferCallback = a

\* No forwarder outlives its last datagram by more than Timeout + 3 seconds: two to
\* be marked, Timeout, and one until its slot is looked at.
IdleBound == \A a \in Senders : forwardMap[a].idle <= Timeout + 3

\* Before the bridge is closed a forwarder is freed only after more than Timeout
\* seconds without a datagram in either direction.
FreedOnlyIdle ==
  [][closed' \/ \A a \in Senders : a \in Senders' \/ forwardMap[a].idle >= Timeout]_vars

\* What a sender sends is redirected by datagrams on the socket of its own
\* forwarder only (recv overwrites remoteAddr_): neither another sender or its
\* forwarder, nor a socket that fails, nor the timer changes where it goes.
RedirectedByOwnSocket ==
  [][\A a \in Senders : a \in Senders' /\ SendsTo(a)' # SendsTo(a)
       => \E r \in Remote : onForwarderRecv(a, r)]_vars
=============================================================================
