---------------------------- MODULE SimpleSignal ----------------------------
(***************************************************************************)
(* Signalling for hole punching: SimpleSignalServer.java and the clients   *)
(* of SimpleSignalClient.java, over UDP.                                   *)
(*                                                                         *)
(* A client registers, signals the first peer that the registration lists, *)
(* sleeps 6 s and then sends a heartbeat whenever nothing came for 1 s; a  *)
(* client that found no peer goes to the heartbeats at once and answers    *)
(* the first peer that signals it.  The server forgets, when somebody      *)
(* registers, those who were silent for more than 3 s.                     *)
(*                                                                         *)
(* Time is counted in seconds (Tick).  A random 64-bit seq is unique, so   *)
(* a request is named by its command and the client that first made it: an *)
(* answer repeats the seq of the request it answers.  Heartbeats have a    *)
(* seq each, which nothing depends on: every heart response, the current   *)
(* one or a late one, only ends one round of the receive loop.             *)
(***************************************************************************)
EXTENDS Integers, FiniteSets

CONSTANTS
  Client,        \* the clients; also their names, ip:port of the sender
  Server,        \* the server's address
  None,          \* null
  World,         \* the circumstances: which clients are used, which of their
                 \* processes may be killed, what the network does to packets
                 \* ("lose", "repeat") and, a bound, how many at a time may
                 \* take longer than a second
  RegTimeout,    \* 2: setSoTimeout(2000) of doReg, in force in doRequest too
  HeartTimeout,  \* 1: setSoTimeout(1000) of workLoop
  SleepTime,     \* 6: Thread.sleep(6000) after the signalling
  ExpireTime     \* 3: 3*1000 of handleReg

ASSUME Distinct == Server \notin Client /\ None \notin Client /\ Server # None
ASSUME Worlds ==
  World \subseteq [clients : SUBSET Client, killed : SUBSET Client,
                  faults : SUBSET {"lose", "repeat"}, late : Nat]

ASSUME Times == {RegTimeout, HeartTimeout, SleepTime, ExpireTime} \subseteq Nat \ {0}
\* A heartbeat a second against the three seconds of silence of handleReg.
ASSUME HeartInTime == HeartTimeout <= ExpireTime

VARIABLES
  world,      \* the circumstances of this behaviour, which never change
  regUsers,   \* the server: name -> seconds since activeTime, capped
  net,        \* the packets under way
  pc,         \* where workLoop of a client is
  main,       \* where start() of a client is
  peer,       \* whom a client signalled, or whom it answered
  timer,      \* seconds to the timeout of receive, or to the end of sleep
  punDue      \* the clients whose last pun is a second old

vars == <<world, regUsers, net, pc, main, peer, timer, punDue>>

Packet == [cmd : {"reg", "sig", "heart", "pun"}, dst : Client \cup {Server},
           seq : Client, err : {0, -1}, peers : SUBSET Client,
           thisPeer : Client, other : Client \cup {None}]

TypeOK ==
  /\ world \in World
  /\ \E U \in SUBSET Client : regUsers \in [U -> 0 .. ExpireTime + 1]
  /\ net \subseteq Packet
  /\ pc \in [Client -> {"off", "reg", "sig", "sleep", "beat", "ended"}]
  /\ main \in [Client -> {"off", "started", "waiting", "returned"}]
  /\ peer \in [Client -> Client \cup {None}]
  /\ timer \in [Client -> Nat]
  /\ punDue \subseteq Client

Init ==
  /\ world \in World
  /\ regUsers = [c \in {} |-> 0]
  /\ net = {}
  /\ pc = [c \in Client |-> "off"]
  /\ main = [c \in Client |-> "off"]
  /\ peer = [c \in Client |-> None]
  /\ timer = [c \in Client |-> 0]
  /\ punDue = Client
-----------------------------------------------------------------------------
(* Packets. *)

\* A packet of client c, seq that of the request of client s.
FromClient(cmd, c, dst, s, other) ==
  [cmd |-> cmd, dst |-> dst, seq |-> s, err |-> 0, peers |-> {}, thisPeer |-> c, other |-> other]

\* Faulty variant: the answer has a seq of its own.
SigAnswerOwnSeq(c, p) == FromClient("sig", c, Server, c, p)

\* sendRequest of a reg, a sig to peer p and a heartbeat, and of the answer
\* to a sig of peer p, which has the seq of that sig.
RegReq(c) == FromClient("reg", c, Server, c, None)
SigReq(c, p) == FromClient("sig", c, Server, c, p)
HeartReq(c) == FromClient("heart", c, Server, c, None)
SigAnswer(c, p) == FromClient("sig", c, Server, p, p)

\* constSendPun: the pun goes to the peer, at most once a second.
Pun(c, p) == IF p # None /\ c \in punDue THEN {FromClient("pun", c, p, c, None)} ELSE {}

\* Packet m leaves the network, and those of out enter it; the network may
\* deliver m once more.
Deliver(m, out) ==
  \/ net' = (net \ {m}) \cup out
  \/ "repeat" \in world.faults /\ net' = net \cup out
-----------------------------------------------------------------------------
(* The server: serve takes one packet and handles it. *)

\* handleReg: enters the client, forgets those who expired, and answers with
\* the ones that are left.
handleReg(m) ==
  LET users == [c \in DOMAIN regUsers \cup {m.thisPeer} |->
                  IF c = m.thisPeer THEN 0 ELSE regUsers[c]]
      left  == {c \in DOMAIN users : users[c] <= ExpireTime}
  IN  /\ regUsers' = [c \in left |-> users[c]]
      /\ Deliver(m, {[m EXCEPT !.dst = m.thisPeer, !.peers = left]})

\* Faulty variant: activeTime is left as it was.
handleHeartKeepsTime(m) ==
  /\ Deliver(m, {[m EXCEPT !.dst = m.thisPeer]})
  /\ UNCHANGED regUsers

\* handleHeart: an unknown name is answered with errCode -1.
handleHeart(m) ==
  LET known == m.thisPeer \in DOMAIN regUsers
  IN  /\ regUsers' = IF known THEN [regUsers EXCEPT ![m.thisPeer] = 0] ELSE regUsers
      /\ Deliver(m, {[m EXCEPT !.dst = m.thisPeer, !.err = IF known THEN 0 ELSE -1]})

\* handleSig: the packet goes on to the other peer as it is, or back with
\* errCode -1 when the other peer is not registered.
handleSig(m) ==
  /\ Deliver(m, {IF m.other \in DOMAIN regUsers
                 THEN [m EXCEPT !.dst = m.other]
                 ELSE [m EXCEPT !.dst = m.thisPeer, !.err = -1]})
  /\ UNCHANGED regUsers

serve(m) ==
  /\ m \in net /\ m.dst = Server
  /\ \/ m.cmd = "reg" /\ handleReg(m)
     \/ m.cmd = "heart" /\ handleHeart(m)
     \/ m.cmd = "sig" /\ handleSig(m)
  /\ UNCHANGED <<pc, main, peer, timer, punDue>>
-----------------------------------------------------------------------------
(* A client. *)

\* start makes the socket and the thread of workLoop, which begins with doReg.
start(c) ==
  /\ c \in world.clients /\ pc[c] = "off"
  /\ pc' = [pc EXCEPT ![c] = "reg"]
  /\ main' = [main EXCEPT ![c] = "started"]
  /\ timer' = [timer EXCEPT ![c] = RegTimeout]
  /\ net' = net \cup {RegReq(c)}
  /\ UNCHANGED <<regUsers, peer, punDue>>

\* start waits before it has looked at selfP.
startWait(c) ==
  /\ main[c] = "started"
  /\ main' = [main EXCEPT ![c] = "waiting"]
  /\ UNCHANGED <<regUsers, net, pc, peer, timer, punDue>>

\* Faulty variant: nobody is notified.
NotifyNobody(c) == UNCHANGED main

\* notifyAll of doReg: it reaches start only if start waits already; selfP is
\* set by then, so start returns.
Notify(c) == main' = [main EXCEPT ![c] = IF @ = "waiting" THEN "returned" ELSE @]

\* The response to the reg, which lists the client itself: workLoop goes on
\* with the first peer of the map, or with the heartbeats if there is none.
RegDone(c, m) ==
  LET peers == m.peers \ {c}
  IN  /\ Notify(c)
      /\ \/ \E p \in peers :
              /\ pc' = [pc EXCEPT ![c] = "sig"]
              /\ peer' = [peer EXCEPT ![c] = p]
              /\ timer' = [timer EXCEPT ![c] = RegTimeout]
              /\ Deliver(m, {SigReq(c, p)})
         \/ /\ peers = {}
            /\ pc' = [pc EXCEPT ![c] = "beat"]
            /\ timer' = [timer EXCEPT ![c] = HeartTimeout]
            /\ Deliver(m, {HeartReq(c)})
            /\ UNCHANGED peer
      /\ UNCHANGED punDue

\* doRequest of doSig has the response with its seq: errCode -1 is thrown and
\* ends workLoop, an answer is followed by the sleep.
SigDone(c, m) ==
  /\ pc' = [pc EXCEPT ![c] = IF m.err < 0 THEN "ended" ELSE "sleep"]
  /\ timer' = [timer EXCEPT ![c] = IF m.err < 0 THEN 0 ELSE SleepTime]
  /\ Deliver(m, {})
  /\ UNCHANGED <<main, peer, punDue>>

\* A response that is not the one doReg or doRequest waits for is skipped; the
\* next receive has the whole timeout again.
Skip(c, m) ==
  /\ timer' = [timer EXCEPT ![c] = RegTimeout]
  /\ Deliver(m, {})
  /\ UNCHANGED <<pc, main, peer, punDue>>

\* Faulty variant: a client that has a peer answers another one.
AnswersAnyone(c, m) == m.cmd = "sig"

\* A sig is answered by a client that has no peer yet.
Answers(c, m) == m.cmd = "sig" /\ peer[c] = None

\* The receive loop between two heartbeats.  A packet that is not answered has no
\* effect but that the wait starts anew, with a pun if one is due.
HeartLoop(c, m) ==
  LET answers == Answers(c, m)
      p == IF answers THEN m.thisPeer ELSE peer[c]
  IN  /\ peer' = [peer EXCEPT ![c] = p]
      /\ timer' = [timer EXCEPT ![c] = HeartTimeout]
      /\ Deliver(m, Pun(c, p) \cup IF answers THEN {SigAnswer(c, p)} ELSE {})
      /\ punDue' = IF p # None THEN punDue \ {c} ELSE punDue
      /\ UNCHANGED <<pc, main>>

receive(c, m) ==
  /\ m \in net /\ m.dst = c
  /\ \/ pc[c] = "reg" /\ IF m.cmd = "reg" THEN RegDone(c, m) ELSE Skip(c, m)
     \/ pc[c] = "sig" /\ IF m.cmd = "sig" /\ m.seq = c THEN SigDone(c, m) ELSE Skip(c, m)
     \/ pc[c] = "beat" /\ HeartLoop(c, m)
  /\ UNCHANGED regUsers

\* Faulty variant: the request is sent again without waiting for the timeout.
ResendAtOnce(c) ==
  /\ pc[c] \in {"reg", "sig"}
  /\ net' = net \cup {IF pc[c] = "reg" THEN RegReq(c) ELSE SigReq(c, peer[c])}
  /\ timer' = [timer EXCEPT ![c] = RegTimeout]
  /\ UNCHANGED <<regUsers, pc, main, peer, punDue>>

\* SocketTimeoutException in doReg or doRequest: the same request again.
Resend(c) ==
  /\ pc[c] \in {"reg", "sig"} /\ timer[c] = 0
  /\ net' = net \cup {IF pc[c] = "reg" THEN RegReq(c) ELSE SigReq(c, peer[c])}
  /\ timer' = [timer EXCEPT ![c] = RegTimeout]
  /\ UNCHANGED <<regUsers, pc, main, peer, punDue>>

\* The sleep is over, or nothing came for a second: the next heartbeat, and a
\* pun if one is due.
Heartbeat(c) ==
  /\ pc[c] \in {"sleep", "beat"} /\ timer[c] = 0
  /\ pc' = [pc EXCEPT ![c] = "beat"]
  /\ net' = net \cup {HeartReq(c)} \cup Pun(c, peer[c])
  /\ timer' = [timer EXCEPT ![c] = HeartTimeout]
  /\ punDue' = IF peer[c] # None THEN punDue \ {c} ELSE punDue
  /\ UNCHANGED <<regUsers, main, peer>>
-----------------------------------------------------------------------------
(* Faults, the network and the clock. *)

\* The process of a client is killed.
Crash(c) ==
  /\ c \in world.killed /\ pc[c] \notin {"off", "ended"}
  /\ pc' = [pc EXCEPT ![c] = "ended"]
  /\ main' = [main EXCEPT ![c] = "off"]
  /\ timer' = [timer EXCEPT ![c] = 0]
  /\ UNCHANGED <<regUsers, net, peer, punDue>>

\* A packet is lost, or comes to a client that no longer runs.
Lose(m) ==
  /\ m \in net
  /\ "lose" \in world.faults \/ (m.dst \in Client /\ pc[m.dst] = "ended")
  /\ net' = net \ {m}
  /\ UNCHANGED <<regUsers, pc, main, peer, timer, punDue>>

Running(c) == pc[c] \notin {"off", "ended"}

\* A packet that somebody would take now: a client that sleeps leaves the
\* packets in the buffer of its socket.
Takeable(m) == m.dst = Server \/ pc[m.dst] \in {"reg", "sig", "beat"}

\* A second passes.  A timeout that is due comes first, and so does what can be
\* received, but for some late packets: on a prompt network there are none.
Tick ==
  /\ \A c \in Client : Running(c) => timer[c] > 0
  /\ Cardinality({m \in net : Takeable(m)}) <= world.late
  /\ timer' = [c \in Client |-> IF Running(c) THEN timer[c] - 1 ELSE timer[c]]
  /\ regUsers' = [c \in DOMAIN regUsers |->
                    IF regUsers[c] > ExpireTime THEN regUsers[c] ELSE regUsers[c] + 1]
  /\ punDue' = Client
  /\ UNCHANGED <<net, pc, main, peer>>

Next ==
  /\ \/ \E m \in net : serve(m) \/ Lose(m)
     \/ \E c \in Client : \/ start(c) \/ startWait(c) \/ Resend(c) \/ Heartbeat(c) \/ Crash(c)
                          \/ \E m \in net : receive(c, m)
     \/ Tick
  /\ UNCHANGED world

Spec == Init /\ [][Next]_vars
-----------------------------------------------------------------------------
(* Fairness. *)

ServeKind(c, k) == (\E m \in net : m.cmd = k /\ m.thisPeer = c /\ serve(m)) /\ UNCHANGED world
ReceiveKind(c, k) == (\E m \in net : m.cmd = k /\ receive(c, m)) /\ UNCHANGED world

\* Threads run, clocks go on and packets that are not lost arrive.
Progress ==
  /\ WF_vars(Tick /\ UNCHANGED world)
  /\ \A c \in Client :
       /\ WF_vars(Resend(c) /\ UNCHANGED world) /\ WF_vars(Heartbeat(c) /\ UNCHANGED world)
       /\ \A k \in {"reg", "sig", "heart"} : WF_vars(ServeKind(c, k))
       /\ \A k \in {"reg", "sig", "heart", "pun"} : WF_vars(ReceiveKind(c, k))

\* A reg that is sent again and again arrives at last, and so does its response:
\* the least one may ask of a network that loses packets.
FairLossy ==
  \A c \in Client : SF_vars(ServeKind(c, "reg")) /\ SF_vars(ReceiveKind(c, "reg"))

FairSpec == Spec /\ Progress /\ FairLossy
-----------------------------------------------------------------------------
(* Properties. *)

\* Pairing is mutual: whoever has an answer, or has given one, has for its peer a
\* client whose peer it is.  An answerer keeps its first caller, and an answer is
\* taken only by the one whose request it repeats.
PairingMutual ==
  \A c \in Client : pc[c] \in {"sleep", "beat"} /\ peer[c] # None => peer[peer[c]] = c

\* Nothing is lost, repeated or late.
Prompt == world.faults = {} /\ world.late = 0

\* On a prompt network two clients never wait for each other's answer: while a
\* client waits in doRequest it skips the sig of another, so such a pair would
\* never leave.
NoMutualWait ==
  Prompt =>
    \A c, d \in Client : ~ (pc[c] = "sig" /\ peer[c] = d /\ pc[d] = "sig" /\ peer[d] = c)

\* On a prompt network a client that waits to be called is registered: its
\* heartbeats reach the server before handleReg of another client could take it
\* for silent, whoever was killed.
IdleStaysRegistered ==
  Prompt => \A c \in Client : pc[c] = "beat" /\ peer[c] = None => c \in DOMAIN regUsers

\* start() of a client that waits before the registration is done returns,
\* however often the request or the response is lost, unless the client is
\* called meanwhile: the calls that doReg skips keep its timeout from coming,
\* and without a timeout it does not register again.
WaiterWoken ==
  \A c \in Client :
    (main[c] = "waiting" /\ pc[c] = "reg")
      ~> \/ main[c] = "returned" \/ pc[c] = "ended"
         \/ \E m \in net : m.cmd = "sig" /\ m.dst = c

\* Nobody can answer c any more: its peer has ended, is paired with another, or
\* is itself a caller that waits for c; or c, which sends no heartbeats while it
\* waits, has expired, so that the server turns the answer down.
CannotAnswer(c) ==
  LET p == peer[c]
  IN  \/ pc[p] = "ended" \/ peer[p] \notin {None, c} \/ pc[p] = "sig"
      \/ c \notin DOMAIN regUsers

\* If nothing is lost, whatever the delays and the reordering, a caller gets an
\* answer unless nobody can give one.
SignallingCompletes ==
  \A c \in Client :
    (world.faults = {} /\ pc[c] = "sig") ~> (pc[c] # "sig" \/ CannotAnswer(c))
=============================================================================
