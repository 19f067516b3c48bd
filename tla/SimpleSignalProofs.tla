------------------------- MODULE SimpleSignalProofs -------------------------
(***************************************************************************)
(* Proofs about SimpleSignal, for any number of clients and any times.     *)
(***************************************************************************)
EXTENDS SimpleSignal, FiniteSetTheorems, TLAPS

\* A peer is never given up, so who has none has made no call and is not
\* answered.
ClientInv ==
  \A c \in Client :
    /\ peer[c] # c
    /\ pc[c] \in {"off", "reg"} => peer[c] = None
    /\ pc[c] \in {"sig", "sleep"} => peer[c] # None

\* A sig is from a client to its peer, or comes back to it with an error; it
\* is a request, or an answer to somebody whose peer is the answerer.
SigOK(m) ==
  /\ m.other \in Client /\ m.other # m.thisPeer
  /\ peer[m.thisPeer] = m.other
  /\ IF m.err = 0 THEN m.dst \in {Server, m.other} ELSE m.dst = m.thisPeer
  /\ m.seq = m.thisPeer \/ (m.seq = m.other /\ peer[m.other] = m.thisPeer)

SigInv == \A m \in net : m.cmd = "sig" => SigOK(m)

\* Who is punched has a peer.
PunOK(m) == m.dst \in Client /\ peer[m.dst] # None
PunInv == \A m \in net : m.cmd = "pun" => PunOK(m)

PacketOK(m) == (m.cmd = "sig" => SigOK(m)) /\ (m.cmd = "pun" => PunOK(m))

PairInv == TypeOK /\ ClientInv /\ SigInv /\ PunInv /\ PairingMutual
-----------------------------------------------------------------------------
(* Packets are packets. *)

LEMMA RequestTypes ==
  ASSUME NEW c \in Client
  PROVE  /\ RegReq(c) \in Packet /\ HeartReq(c) \in Packet
         /\ \A p \in Client : SigReq(c, p) \in Packet /\ SigAnswer(c, p) \in Packet
         /\ \A p \in Client \cup {None} : Pun(c, p) \subseteq Packet
  BY DEF RegReq, HeartReq, SigReq, SigAnswer, Pun, FromClient, Packet

LEMMA DeliverSubset ==
  ASSUME NEW m, NEW out, Deliver(m, out)
  PROVE  net' \subseteq net \cup out
  BY DEF Deliver

\* What serve does to the packets.
LEMMA ServeStep ==
  ASSUME TypeOK, NEW m \in net, serve(m)
  PROVE  /\ regUsers' \in [DOMAIN regUsers' -> 0 .. ExpireTime + 1]
         /\ DOMAIN regUsers' \subseteq Client
         /\ UNCHANGED <<pc, main, peer, timer, punDue>>
         /\ \E r \in Packet : /\ r.cmd = m.cmd /\ r.cmd # "pun"
                              /\ r.thisPeer = m.thisPeer /\ r.other = m.other /\ r.seq = m.seq
                              /\ Deliver(m, {r})
                              /\ m.cmd = "sig" => \/ r.dst = m.other /\ r.err = m.err
                                                  \/ r.dst = m.thisPeer /\ r.err = -1
  <1>0. m \in Packet /\ m.thisPeer \in Client
    BY DEF TypeOK, Packet
  <1>1. PICK U \in SUBSET Client : regUsers \in [U -> 0 .. ExpireTime + 1]
    BY DEF TypeOK
  <1>2. ExpireTime \in Nat
    BY Times
  <1>3. CASE m.cmd = "reg" /\ handleReg(m)
    <2> DEFINE users == [c \in DOMAIN regUsers \cup {m.thisPeer} |->
                  IF c = m.thisPeer THEN 0 ELSE regUsers[c]]
               left  == {c \in DOMAIN users : users[c] <= ExpireTime}
               r == [m EXCEPT !.dst = m.thisPeer, !.peers = left]
    <2>1. left \subseteq Client /\ \A c \in left : users[c] \in 0 .. ExpireTime + 1
      BY <1>0, <1>1, <1>2
    <2>2. regUsers' = [c \in left |-> users[c]] /\ Deliver(m, {r})
      BY <1>3 DEF handleReg
    <2> HIDE DEF users, left
    <2>3. r \in Packet /\ r.cmd = m.cmd /\ r.thisPeer = m.thisPeer /\ r.other = m.other /\ r.seq = m.seq
      BY <1>0, <2>1 DEF Packet
    <2>4. UNCHANGED <<pc, main, peer, timer, punDue>>
      BY DEF serve
    <2> QED BY <1>3, <2>1, <2>2, <2>3, <2>4
  <1>4. CASE m.cmd = "heart" /\ handleHeart(m)
    <2> DEFINE known == m.thisPeer \in DOMAIN regUsers
               r == [m EXCEPT !.dst = m.thisPeer, !.err = IF known THEN 0 ELSE -1]
    <2>1. regUsers' \in [DOMAIN regUsers' -> 0 .. ExpireTime + 1] /\ DOMAIN regUsers' \subseteq Client
      BY <1>0, <1>1, <1>2, <1>4 DEF handleHeart
    <2>2. Deliver(m, {r})
      BY <1>4 DEF handleHeart
    <2>3. r \in Packet /\ r.cmd = m.cmd /\ r.thisPeer = m.thisPeer /\ r.other = m.other /\ r.seq = m.seq
      BY <1>0 DEF Packet
    <2>4. UNCHANGED <<pc, main, peer, timer, punDue>>
      BY DEF serve
    <2> QED BY <1>4, <2>1, <2>2, <2>3, <2>4
  <1>5. CASE m.cmd = "sig" /\ handleSig(m)
    <2> DEFINE r == IF m.other \in DOMAIN regUsers
                    THEN [m EXCEPT !.dst = m.other]
                    ELSE [m EXCEPT !.dst = m.thisPeer, !.err = -1]
    <2>1. regUsers' \in [DOMAIN regUsers' -> 0 .. ExpireTime + 1] /\ DOMAIN regUsers' \subseteq Client
      BY <1>1, <1>5 DEF handleSig
    <2>2. Deliver(m, {r})
      BY <1>5 DEF handleSig
    <2>3. r \in Packet /\ r.cmd = m.cmd /\ r.thisPeer = m.thisPeer /\ r.other = m.other /\ r.seq = m.seq
          /\ ((r.dst = m.other /\ r.err = m.err) \/ (r.dst = m.thisPeer /\ r.err = -1))
      <3>1. CASE m.other \in DOMAIN regUsers
        <4>1. r = [m EXCEPT !.dst = m.other] /\ m.other \in Client
          BY <3>1, <1>1
        <4> QED BY <4>1, <1>0 DEF Packet
      <3>2. CASE m.other \notin DOMAIN regUsers
        <4>1. r = [m EXCEPT !.dst = m.thisPeer, !.err = -1]
          BY <3>2
        <4> QED BY <4>1, <1>0 DEF Packet
      <3> QED BY <3>1, <3>2
    <2>4. UNCHANGED <<pc, main, peer, timer, punDue>>
      BY DEF serve
    <2> QED BY <1>5, <2>1, <2>2, <2>3, <2>4
  <1> QED BY <1>3, <1>4, <1>5 DEF serve
-----------------------------------------------------------------------------
(* Types. *)

LEMMA InitType == Init => TypeOK
  <1> SUFFICES ASSUME Init PROVE TypeOK
    OBVIOUS
  <1>1. regUsers \in [{} -> 0 .. ExpireTime + 1]
    BY DEF Init
  <1> QED BY <1>1 DEF Init, TypeOK

LEMMA ReceiveType ==
  ASSUME TypeOK, NEW c \in Client, NEW m \in net, receive(c, m)
  PROVE  /\ net' \subseteq Packet
         /\ pc' \in [Client -> {"off", "reg", "sig", "sleep", "beat", "ended"}]
         /\ main' \in [Client -> {"off", "started", "waiting", "returned"}]
         /\ peer' \in [Client -> Client \cup {None}]
         /\ timer' \in [Client -> Nat]
         /\ punDue' \subseteq Client
  <1> USE DEF TypeOK
  <1>0. m \in Packet /\ m.thisPeer \in Client /\ m.peers \subseteq Client
    BY DEF Packet
  <1>1. CASE pc[c] = "reg" /\ m.cmd = "reg" /\ RegDone(c, m)
    <2>1. main' \in [Client -> {"off", "started", "waiting", "returned"}] /\ punDue' \subseteq Client
      BY <1>1 DEF RegDone, Notify
    <2>2. ASSUME NEW p \in m.peers \ {c},
                 pc' = [pc EXCEPT ![c] = "sig"], peer' = [peer EXCEPT ![c] = p],
                 timer' = [timer EXCEPT ![c] = RegTimeout], Deliver(m, {SigReq(c, p)})
          PROVE  /\ net' \subseteq Packet
                 /\ pc' \in [Client -> {"off", "reg", "sig", "sleep", "beat", "ended"}]
                 /\ peer' \in [Client -> Client \cup {None}] /\ timer' \in [Client -> Nat]
      BY <1>0, <2>2, DeliverSubset, RequestTypes, Times
    <2>3. ASSUME pc' = [pc EXCEPT ![c] = "beat"], UNCHANGED peer,
                 timer' = [timer EXCEPT ![c] = HeartTimeout], Deliver(m, {HeartReq(c)})
          PROVE  /\ net' \subseteq Packet
                 /\ pc' \in [Client -> {"off", "reg", "sig", "sleep", "beat", "ended"}]
                 /\ peer' \in [Client -> Client \cup {None}] /\ timer' \in [Client -> Nat]
      BY <2>3, DeliverSubset, RequestTypes, Times
    <2> QED BY <1>1, <2>1, <2>2, <2>3 DEF RegDone
  <1>2. CASE Skip(c, m)
    BY <1>2, DeliverSubset, Times DEF Skip
  <1>3. CASE SigDone(c, m)
    BY <1>3, DeliverSubset, Times DEF SigDone
  <1>4. CASE HeartLoop(c, m)
    <2> DEFINE answers == Answers(c, m)
               p == IF answers THEN m.thisPeer ELSE peer[c]
               out == Pun(c, p) \cup IF answers THEN {SigAnswer(c, p)} ELSE {}
    <2>1. p \in Client \cup {None} /\ (answers => p \in Client)
      BY <1>0
    <2>2. out \subseteq Packet
      <3> HIDE DEF p, answers
      <3> QED BY <2>1, RequestTypes
    <2>3. Deliver(m, out) /\ peer' = [peer EXCEPT ![c] = p]
          /\ timer' = [timer EXCEPT ![c] = HeartTimeout]
          /\ punDue' = (IF p # None THEN punDue \ {c} ELSE punDue) /\ UNCHANGED <<pc, main>>
      BY <1>4 DEF HeartLoop
    <2> HIDE DEF p, out
    <2> QED BY <2>1, <2>2, <2>3, DeliverSubset, Times
  <1> QED BY <1>1, <1>2, <1>3, <1>4 DEF receive

LEMMA TypeStep == TypeOK /\ [Next]_vars => TypeOK'
  <1> SUFFICES ASSUME TypeOK, [Next]_vars PROVE TypeOK'
    OBVIOUS
  <1> USE DEF TypeOK
  <1>1. ASSUME NEW m \in net, serve(m), UNCHANGED world PROVE TypeOK'
    <2>1. PICK r \in Packet : Deliver(m, {r})
      BY <1>1, ServeStep
    <2>2. net' \subseteq Packet
      BY <2>1, DeliverSubset
    <2> QED BY <1>1, <2>2, ServeStep
  <1>2. ASSUME NEW m \in net, Lose(m), UNCHANGED world PROVE TypeOK'
    BY <1>2 DEF Lose
  <1>3. ASSUME NEW c \in Client, start(c), UNCHANGED world PROVE TypeOK'
    BY <1>3, RequestTypes, Times DEF start
  <1>4. ASSUME NEW c \in Client, startWait(c), UNCHANGED world PROVE TypeOK'
    BY <1>4 DEF startWait
  <1>5. ASSUME NEW c \in Client, Resend(c), UNCHANGED world PROVE TypeOK'
    <2>1. pc[c] = "sig" => SigReq(c, peer[c]) \in Packet
      BY DEF SigReq, FromClient, Packet
    <2> QED BY <1>5, <2>1, RequestTypes, Times DEF Resend
  <1>6. ASSUME NEW c \in Client, Heartbeat(c), UNCHANGED world PROVE TypeOK'
    <2>1. Pun(c, peer[c]) \subseteq Packet
      BY RequestTypes
    <2> QED BY <1>6, <2>1, RequestTypes, Times DEF Heartbeat
  <1>7. ASSUME NEW c \in Client, Crash(c), UNCHANGED world PROVE TypeOK'
    BY <1>7 DEF Crash
  <1>8. ASSUME NEW c \in Client, NEW m \in net, receive(c, m), UNCHANGED world PROVE TypeOK'
    <2>1. UNCHANGED regUsers
      BY <1>8 DEF receive
    <2> QED BY <1>8, <2>1, ReceiveType
  <1>9. CASE Tick /\ UNCHANGED world
    <2>1. PICK U \in SUBSET Client : regUsers \in [U -> 0 .. ExpireTime + 1]
      OBVIOUS
    <2>2. regUsers' \in [U -> 0 .. ExpireTime + 1]
      BY <1>9, <2>1, Times DEF Tick
    <2>3. timer' \in [Client -> Nat]
      BY <1>9 DEF Tick
    <2> QED BY <1>9, <2>2, <2>3 DEF Tick
  <1>10. CASE UNCHANGED vars
    BY <1>10 DEF vars
  <1> QED BY <1>1, <1>2, <1>3, <1>4, <1>5, <1>6, <1>7, <1>8, <1>9, <1>10 DEF Next
-----------------------------------------------------------------------------
(* Pairing, on any network. *)

\* Peers are not given up, and the packets sent are right: so are all.
LEMMA PacketsKept ==
  ASSUME PairInv,
         \A c \in Client : peer[c] # None => peer'[c] = peer[c],
         \A m \in net' : m \in net \/ PacketOK(m)'
  PROVE  SigInv' /\ PunInv'
  <1>1. ASSUME NEW m \in net, m.cmd = "sig" PROVE SigOK(m)'
    <2>1. SigOK(m) /\ m.thisPeer \in Client
      BY <1>1 DEF PairInv, SigInv, TypeOK, Packet
    <2> QED BY <2>1, Distinct DEF SigOK
  <1>2. ASSUME NEW m \in net, m.cmd = "pun" PROVE PunOK(m)'
    BY <1>2 DEF PairInv, PunInv, PunOK
  <1> QED BY <1>1, <1>2 DEF SigInv, PunInv, PacketOK

\* Neither a client's peer nor, but for its end, where it is has changed.
LEMMA PeersKept ==
  ASSUME PairInv, UNCHANGED peer,
         pc' \in [Client -> {"off", "reg", "sig", "sleep", "beat", "ended"}],
         \A c \in Client : \/ pc'[c] \in {pc[c], "ended"}
                           \/ pc[c] = "off" /\ pc'[c] = "reg"
                           \/ pc[c] = "sleep" /\ pc'[c] = "beat",
         \A m \in net' : m \in net \/ PacketOK(m)
  PROVE  ClientInv' /\ SigInv' /\ PunInv' /\ PairingMutual'
  <1>1. \A m \in net' : m \in net \/ PacketOK(m)'
    BY DEF PacketOK, SigOK, PunOK
  <1>2. SigInv' /\ PunInv'
    BY <1>1, PacketsKept
  <1>3. ClientInv'
    BY DEF PairInv, ClientInv
  <1>4. PairingMutual'
    BY DEF PairInv, PairingMutual, TypeOK, ClientInv
  <1> QED BY <1>2, <1>3, <1>4

\* A client whose own request returns with errCode 0 was answered by its peer.
LEMMA AnswerIsPeers ==
  ASSUME PairInv, NEW c \in Client, NEW m \in net,
         m.cmd = "sig", m.dst = c, m.seq = c, m.err = 0
  PROVE  peer[c] \in Client /\ peer[peer[c]] = c
  <1>1. SigOK(m) /\ m.thisPeer \in Client
    BY DEF PairInv, SigInv, TypeOK, Packet
  <1>2. m.other = c
    BY <1>1, Distinct DEF SigOK
  <1>3. peer[c] = m.thisPeer /\ peer[m.thisPeer] = c
    BY <1>1, <1>2 DEF SigOK
  <1> QED BY <1>1, <1>3

\* A sig that reaches a client without a peer is from a caller whose peer it is.
LEMMA CallerIsPeers ==
  ASSUME PairInv, NEW c \in Client, NEW m \in net, m.cmd = "sig", m.dst = c, peer[c] = None
  PROVE  /\ m.thisPeer \in Client /\ m.thisPeer # c
         /\ peer[m.thisPeer] = c
  <1>1. SigOK(m) /\ m.thisPeer \in Client
    BY DEF PairInv, SigInv, TypeOK, Packet
  <1> QED BY <1>1, Distinct DEF SigOK

LEMMA RegDonePair ==
  ASSUME PairInv, TypeOK', NEW c \in Client, NEW m \in net, pc[c] = "reg", RegDone(c, m)
  PROVE  ClientInv' /\ SigInv' /\ PunInv' /\ PairingMutual'
  <1>0. peer[c] = None /\ m.peers \subseteq Client
    BY DEF PairInv, ClientInv, TypeOK, Packet
  <1>1. ASSUME NEW p \in m.peers \ {c},
               pc' = [pc EXCEPT ![c] = "sig"], peer' = [peer EXCEPT ![c] = p],
               Deliver(m, {SigReq(c, p)})
        PROVE  ClientInv' /\ SigInv' /\ PunInv' /\ PairingMutual'
    <2>0. p \in Client /\ p # c /\ p # None /\ peer \in [Client -> Client \cup {None}]
          /\ pc \in [Client -> {"off", "reg", "sig", "sleep", "beat", "ended"}]
      BY <1>0, <1>1, Distinct DEF PairInv, TypeOK
    <2>1. \A d \in Client : peer[d] # None => peer'[d] = peer[d]
      BY <1>0, <1>1, <2>0
    <2>2. PacketOK(SigReq(c, p))'
      BY <1>1, <2>0 DEF PacketOK, SigOK, SigReq, FromClient
    <2>3. \A r \in net' : r \in net \/ PacketOK(r)'
      BY <1>1, <2>2, DeliverSubset
    <2>4. SigInv' /\ PunInv'
      BY <2>1, <2>3, PacketsKept
    <2>5. ClientInv'
      BY <1>1, <2>0 DEF PairInv, ClientInv
    <2>6. PairingMutual'
      BY <1>0, <1>1, <2>0, Distinct DEF PairInv, PairingMutual
    <2> QED BY <2>4, <2>5, <2>6
  <1>2. ASSUME pc' = [pc EXCEPT ![c] = "beat"], UNCHANGED peer, Deliver(m, {HeartReq(c)})
        PROVE  ClientInv' /\ SigInv' /\ PunInv' /\ PairingMutual'
    <2>0. PacketOK(HeartReq(c))'
      BY DEF PacketOK, HeartReq, FromClient
    <2>1. \A r \in net' : r \in net \/ PacketOK(r)'
      BY <1>2, <2>0, DeliverSubset
    <2>2. SigInv' /\ PunInv'
      BY <1>2, <2>1, PacketsKept
    <2>3. ClientInv' /\ PairingMutual'
      BY <1>0, <1>2 DEF PairInv, TypeOK, ClientInv, PairingMutual
    <2> QED BY <2>2, <2>3
  <1> QED BY <1>1, <1>2 DEF RegDone

LEMMA HeartLoopPair ==
  ASSUME PairInv, TypeOK', NEW c \in Client, NEW m \in net, m.dst = c, pc[c] = "beat", HeartLoop(c, m)
  PROVE  ClientInv' /\ SigInv' /\ PunInv' /\ PairingMutual'
  <1> DEFINE p == IF Answers(c, m) THEN m.thisPeer ELSE peer[c]
             out == Pun(c, p) \cup IF Answers(c, m) THEN {SigAnswer(c, p)} ELSE {}
  <1>0. /\ Deliver(m, out) /\ peer' = [peer EXCEPT ![c] = p] /\ UNCHANGED pc
        /\ peer \in [Client -> Client \cup {None}]
    BY DEF HeartLoop, PairInv, TypeOK
  <1>1. Answers(c, m) => peer[c] = None /\ p \in Client /\ p # c /\ peer[p] = c
    BY CallerIsPeers DEF Answers
  <1>2. p \in Client \cup {None} /\ (peer[c] # None => p = peer[c])
    BY <1>0, <1>1 DEF Answers
  <1>3. p # None => p # c /\ peer[p] = c
    <2>1. CASE Answers(c, m)
      BY <1>1, <2>1
    <2>2. CASE ~ Answers(c, m)
      BY <2>2 DEF PairInv, PairingMutual, ClientInv
    <2> QED BY <2>1, <2>2
  <1> HIDE DEF p
  <1>4. \A d \in Client : peer[d] # None => peer'[d] = peer[d]
    BY <1>0, <1>2
  <1>5. ASSUME NEW r \in out PROVE PacketOK(r)'
    <2>1. CASE r \in Pun(c, p)
      <3>1. p # None /\ r.cmd = "pun" /\ r.dst = p
        BY <2>1 DEF Pun, FromClient
      <3>2. p \in Client /\ peer[p] = c /\ p # c
        BY <1>2, <1>3, <3>1
      <3> QED BY <3>1, <3>2, <1>0, Distinct DEF PacketOK, PunOK
    <2>2. CASE Answers(c, m) /\ r = SigAnswer(c, p)
      <3>1. p \in Client /\ p # c /\ peer[p] = c
        BY <1>1, <2>2 DEF p
      <3>2. peer'[c] = p /\ peer'[p] = c
        BY <1>0, <3>1
      <3> QED BY <2>2, <3>1, <3>2 DEF SigAnswer, FromClient, PacketOK, SigOK
    <2> QED BY <1>5, <2>1, <2>2
  <1> HIDE DEF out
  <1>6. \A r \in net' : r \in net \/ PacketOK(r)'
    BY <1>0, <1>5, DeliverSubset
  <1>7. SigInv' /\ PunInv'
    BY <1>4, <1>6, PacketsKept
  <1>8. ClientInv'
    BY <1>0, <1>2, <1>3, Distinct DEF PairInv, ClientInv
  <1>9. PairingMutual'
    BY <1>0, <1>2, <1>3, <1>4, Distinct DEF PairInv, PairingMutual
  <1> QED BY <1>7, <1>8, <1>9

LEMMA PairStep == PairInv /\ [Next]_vars => PairInv'
  <1> SUFFICES ASSUME PairInv, [Next]_vars PROVE PairInv'
    OBVIOUS
  <1> DEFINE Rest == ClientInv' /\ SigInv' /\ PunInv' /\ PairingMutual'
  <1>0. TypeOK /\ TypeOK'
    BY TypeStep DEF PairInv
  <1>a. pc' \in [Client -> {"off", "reg", "sig", "sleep", "beat", "ended"}]
    BY <1>0 DEF TypeOK
  <1>1. ASSUME NEW m \in net, serve(m) PROVE Rest
    <2>1. PICK r \in Packet : /\ r.cmd = m.cmd /\ r.cmd # "pun"
                              /\ r.thisPeer = m.thisPeer /\ r.other = m.other /\ r.seq = m.seq
                              /\ Deliver(m, {r})
                              /\ m.cmd = "sig" => \/ r.dst = m.other /\ r.err = m.err
                                                  \/ r.dst = m.thisPeer /\ r.err = -1
      BY <1>0, <1>1, ServeStep
    <2>2. ASSUME r.cmd = "sig" PROVE SigOK(r)
      <3>1. SigOK(m) /\ m.err = 0
        <4>1. SigOK(m) /\ m.dst = Server /\ m.thisPeer \in Client
          BY <1>0, <1>1, <2>1, <2>2 DEF PairInv, SigInv, serve, TypeOK, Packet
        <4> QED BY <4>1, Distinct DEF SigOK
      <3> QED BY <2>1, <2>2, <3>1 DEF SigOK
    <2>3. UNCHANGED <<peer, pc>> /\ \A x \in net' : x \in net \/ PacketOK(x)
      BY <1>1, <2>1, <2>2, DeliverSubset DEF serve, PacketOK
    <2> QED BY <1>a, <2>3, PeersKept
  <1>2. ASSUME NEW m \in net, Lose(m) PROVE Rest
    <2>1. net' \subseteq net /\ UNCHANGED <<peer, pc>>
      BY <1>2 DEF Lose
    <2> QED BY <1>a, <2>1, PeersKept
  <1>3. ASSUME NEW c \in Client, start(c) PROVE Rest
    <2>1. /\ UNCHANGED peer /\ \A x \in net' : x \in net \/ PacketOK(x)
          /\ \A d \in Client : pc'[d] = pc[d] \/ (pc[d] = "off" /\ pc'[d] = "reg")
      BY <1>0, <1>3 DEF start, TypeOK, RegReq, FromClient, PacketOK
    <2> QED BY <1>a, <2>1, PeersKept
  <1>4. ASSUME NEW c \in Client, startWait(c) PROVE Rest
    <2>1. net' \subseteq net /\ UNCHANGED <<peer, pc>>
      BY <1>4 DEF startWait
    <2> QED BY <1>a, <2>1, PeersKept
  <1>5. ASSUME NEW c \in Client, Resend(c) PROVE Rest
    <2> DEFINE r == IF pc[c] = "reg" THEN RegReq(c) ELSE SigReq(c, peer[c])
    <2>1. net' \subseteq net \cup {r} /\ UNCHANGED <<peer, pc>> /\ pc[c] \in {"reg", "sig"}
      BY <1>5 DEF Resend
    <2>2. PacketOK(r)
      <3>1. CASE pc[c] = "reg"
        BY <3>1 DEF RegReq, FromClient, PacketOK
      <3>2. CASE pc[c] = "sig"
        <4>1. peer[c] \in Client /\ peer[c] # c
          BY <1>0, <3>2 DEF PairInv, ClientInv, TypeOK
        <4>2. r = SigReq(c, peer[c])
          BY <3>2
        <4> QED BY <4>1, <4>2 DEF SigReq, FromClient, SigOK, PacketOK
      <3> QED BY <2>1, <3>1, <3>2
    <2> HIDE DEF r
    <2> QED BY <1>a, <2>1, <2>2, PeersKept
  <1>6. ASSUME NEW c \in Client, Heartbeat(c) PROVE Rest
    <2> DEFINE out == {HeartReq(c)} \cup Pun(c, peer[c])
    <2>1. /\ net' \subseteq net \cup out /\ UNCHANGED peer
          /\ \A d \in Client : pc'[d] = pc[d] \/ (pc[d] = "sleep" /\ pc'[d] = "beat")
      BY <1>0, <1>6 DEF Heartbeat, TypeOK
    <2>2. ASSUME NEW r \in out
          PROVE  PacketOK(r)
      <3>1. CASE r = HeartReq(c)
        BY <3>1 DEF HeartReq, FromClient, PacketOK
      <3>2. CASE r \in Pun(c, peer[c])
        <4>1. r.cmd = "pun" /\ r.dst = peer[c] /\ peer[c] # None
          BY <3>2 DEF Pun, FromClient
        <4>2. peer[c] \in Client /\ peer[peer[c]] = c
          BY <1>0, <1>6, <4>1 DEF PairInv, PairingMutual, TypeOK, Heartbeat
        <4> QED BY <4>1, <4>2, Distinct DEF PacketOK, PunOK
      <3> QED BY <2>2, <3>1, <3>2
    <2> HIDE DEF out
    <2> QED BY <1>a, <2>1, <2>2, PeersKept
  <1>7. ASSUME NEW c \in Client, Crash(c) PROVE Rest
    <2>1. /\ net' \subseteq net /\ UNCHANGED peer
          /\ \A d \in Client : pc'[d] \in {pc[d], "ended"}
      BY <1>0, <1>7 DEF Crash, TypeOK
    <2> QED BY <1>a, <2>1, PeersKept
  <1>8. ASSUME NEW c \in Client, NEW m \in net, receive(c, m) PROVE Rest
    <2>1. CASE pc[c] = "reg" /\ RegDone(c, m)
      BY <1>0, <2>1, RegDonePair
    <2>2. CASE Skip(c, m)
      <3>1. net' \subseteq net /\ UNCHANGED <<peer, pc>>
        BY <2>2, DeliverSubset DEF Skip
      <3> QED BY <1>a, <3>1, PeersKept
    <2>3. CASE pc[c] = "sig" /\ m.cmd = "sig" /\ m.seq = c /\ SigDone(c, m)
      <3>0. /\ net' \subseteq net /\ UNCHANGED peer /\ m.dst = c
            /\ pc' = [pc EXCEPT ![c] = IF m.err < 0 THEN "ended" ELSE "sleep"]
        BY <1>8, <2>3, DeliverSubset DEF SigDone, receive
      <3>1. CASE m.err < 0
        <4>1. \A d \in Client : pc'[d] \in {pc[d], "ended"}
          BY <1>0, <3>0, <3>1 DEF TypeOK
        <4> QED BY <1>a, <3>0, <4>1, PeersKept
      <3>2. CASE ~ (m.err < 0)
        <4>1. m.err = 0
          BY <1>0, <3>2 DEF TypeOK, Packet
        <4>2. peer[c] \in Client /\ peer[peer[c]] = c
          BY <2>3, <3>0, <4>1, AnswerIsPeers
        <4>3. SigInv' /\ PunInv'
          BY <3>0, PacketsKept
        <4>4. ClientInv'
          BY <1>0, <3>0, <3>2, <4>2, Distinct DEF PairInv, ClientInv, TypeOK
        <4>5. PairingMutual'
          BY <1>0, <3>0, <3>2, <4>2 DEF PairInv, PairingMutual, TypeOK
        <4> QED BY <4>3, <4>4, <4>5
      <3> QED BY <3>1, <3>2
    <2>4. CASE pc[c] = "beat" /\ HeartLoop(c, m)
      BY <1>0, <1>8, <2>4, HeartLoopPair DEF receive
    <2> QED BY <1>8, <2>1, <2>2, <2>3, <2>4 DEF receive
  <1>9. ASSUME Tick PROVE Rest
    <2>1. net' \subseteq net /\ UNCHANGED <<peer, pc>>
      BY <1>9 DEF Tick
    <2> QED BY <1>a, <2>1, PeersKept
  <1>10. ASSUME UNCHANGED vars PROVE Rest
    <2>1. net' \subseteq net /\ UNCHANGED <<peer, pc>>
      BY <1>10 DEF vars
    <2> QED BY <1>a, <2>1, PeersKept
  <1> HIDE DEF Rest
  <1>11. Rest
    BY <1>1, <1>2, <1>3, <1>4, <1>5, <1>6, <1>7, <1>8, <1>9, <1>10 DEF Next
  <1> QED BY <1>0, <1>11 DEF PairInv, Rest

LEMMA InitPair == Init => PairInv
  BY InitType, Distinct DEF Init, PairInv, ClientInv, SigInv, PunInv, PairingMutual

\* Each client's registration, call, answer and heartbeats keep the state within
\* its types, whatever the network does.
THEOREM SignalTypeCorrect == Spec => []TypeOK
  <1>1. TypeOK /\ [Next]_vars => TypeOK'
    BY TypeStep
  <1> QED BY <1>1, InitType, PTL DEF Spec

\* Pairing is mutual for any number of clients, whatever is lost, repeated or
\* late and whoever is killed: workLoop and handleSig never leave a client with
\* an answered or a given call to somebody that has another peer.
THEOREM PairingMutualAlways == Spec => []PairingMutual
  <1>1. PairInv /\ [Next]_vars => PairInv'
    BY PairStep
  <1>2. PairInv => PairingMutual
    BY DEF PairInv
  <1> QED BY <1>1, <1>2, InitPair, PTL DEF Spec
-----------------------------------------------------------------------------
(* Registration and heartbeats, on a prompt network. *)

\* Neither the server nor any client has heard of c.
Unknown(c) ==
  /\ c \notin DOMAIN regUsers /\ peer[c] = None
  /\ \A d \in Client : peer[d] # c
  /\ \A m \in net : m.cmd = "reg" => c \notin m.peers

\* A reg is the request of a client nobody has heard of, or its response.
RegOK(m) ==
  LET c == m.thisPeer
  IN  /\ pc[c] \in {"reg", "ended"}
      /\ \/ m = RegReq(c) /\ Unknown(c)
         \/ m.dst = c /\ (pc[c] = "reg" => c \in DOMAIN regUsers /\ regUsers[c] = 0)

\* A client registers once, and waits while its reg or the response is under way.
RegInv ==
  /\ \A m \in net : m.cmd = "reg" => RegOK(m)
  /\ \A m, n \in net : m.cmd = "reg" /\ n.cmd = "reg" /\ m.thisPeer = n.thisPeer => m = n
  /\ \A c \in Client :
       /\ pc[c] = "off" => Unknown(c)
       /\ pc[c] = "reg" => timer[c] > 0 /\ \E m \in net : m.cmd = "reg" /\ m.thisPeer = c

\* c has been told of d and may be calling it.
Told(c, d) ==
  \/ \E m \in net : m.cmd = "reg" /\ m.dst = c /\ d \in m.peers
  \/ pc[c] = "sig" /\ peer[c] = d

\* Of two clients the server told only the later one of the other.
OrderInv == \A c, d \in Client : c # d => ~ (Told(c, d) /\ Told(d, c))

Idle(c) == pc[c] = "beat" /\ peer[c] = None

\* A client that waits to be called is registered, and its heartbeats keep the
\* server from forgetting it.
IdleOK(c) ==
  /\ c \in DOMAIN regUsers /\ regUsers[c] <= HeartTimeout /\ timer[c] <= HeartTimeout
  /\ HeartReq(c) \in net \/ regUsers[c] + timer[c] <= HeartTimeout
  /\ \A m \in net : m.cmd = "heart" /\ m.dst = c => regUsers[c] = 0

IdleInv == \A c \in Client : Idle(c) => IdleOK(c)

PromptInv == RegInv /\ OrderInv /\ IdleInv

SignalInv == PairInv /\ IsFiniteSet(net) /\ (Prompt => PromptInv)
\* The network holds finitely many packets.
LEMMA FiniteStep == PairInv /\ IsFiniteSet(net) /\ [Next]_vars => IsFiniteSet(net')
  <1> SUFFICES ASSUME PairInv, IsFiniteSet(net), [Next]_vars PROVE IsFiniteSet(net')
    OBVIOUS
  <1>a. ASSUME NEW r, net' \subseteq net \cup {r} PROVE IsFiniteSet(net')
    <2>1. IsFiniteSet(net \cup {r})
      BY FS_AddElement
    <2> QED BY <1>a, <2>1, FS_Subset
  <1>b. ASSUME NEW c, NEW p, NEW r, net' \subseteq (net \cup {r}) \cup Pun(c, p)
        PROVE  IsFiniteSet(net')
    <2>1. IsFiniteSet(net \cup {r}) /\ IsFiniteSet(Pun(c, p))
      BY FS_AddElement, FS_EmptySet, FS_Singleton DEF Pun
    <2>2. IsFiniteSet((net \cup {r}) \cup Pun(c, p))
      BY <2>1, FS_Union
    <2> QED BY <1>b, <2>2, FS_Subset
  <1>1. ASSUME NEW m \in net, serve(m) PROVE IsFiniteSet(net')
    <2>1. PICK r : Deliver(m, {r})
      BY <1>1, ServeStep DEF PairInv
    <2>2. net' \subseteq net \cup {r}
      BY <2>1, DeliverSubset
    <2> QED BY <2>2, <1>a
  <1>2. ASSUME NEW m \in net, Lose(m) PROVE IsFiniteSet(net')
    BY <1>2, FS_RemoveElement DEF Lose
  <1>3. ASSUME NEW c \in Client, start(c) PROVE IsFiniteSet(net')
    BY <1>3, FS_AddElement DEF start
  <1>4. ASSUME NEW c \in Client, startWait(c) PROVE IsFiniteSet(net')
    BY <1>4 DEF startWait
  <1>5. ASSUME NEW c \in Client, Resend(c) PROVE IsFiniteSet(net')
    BY <1>5, FS_AddElement DEF Resend
  <1>6. ASSUME NEW c \in Client, Heartbeat(c) PROVE IsFiniteSet(net')
    BY <1>6, <1>b DEF Heartbeat
  <1>7. ASSUME NEW c \in Client, Crash(c) PROVE IsFiniteSet(net')
    BY <1>7 DEF Crash
  <1>8. ASSUME NEW c \in Client, NEW m \in net, receive(c, m) PROVE IsFiniteSet(net')
    <2>1. ASSUME RegDone(c, m) PROVE IsFiniteSet(net')
      <3>1. PICK r : Deliver(m, {r})
        BY <2>1 DEF RegDone
      <3>2. net' \subseteq net \cup {r}
        BY <3>1, DeliverSubset
      <3> QED BY <3>2, <1>a
    <2>2. ASSUME Skip(c, m) \/ SigDone(c, m) PROVE IsFiniteSet(net')
      <3>1. Deliver(m, {})
        BY <2>2 DEF Skip, SigDone
      <3>2. net' \subseteq net \cup {m}
        BY <3>1 DEF Deliver
      <3> QED BY <3>2, <1>a
    <2>3. ASSUME HeartLoop(c, m) PROVE IsFiniteSet(net')
      <3> DEFINE p == IF Answers(c, m) THEN m.thisPeer ELSE peer[c]
                 out == Pun(c, p) \cup IF Answers(c, m) THEN {SigAnswer(c, p)} ELSE {}
      <3>1. Deliver(m, out)
        BY <2>3 DEF HeartLoop
      <3>2. net' \subseteq (net \cup {SigAnswer(c, p)}) \cup Pun(c, p)
        BY <3>1 DEF Deliver
      <3> QED BY <3>2, <1>b
    <2> QED BY <1>8, <2>1, <2>2, <2>3 DEF receive
  <1>9. ASSUME Tick PROVE IsFiniteSet(net')
    BY <1>9 DEF Tick
  <1>10. ASSUME UNCHANGED vars PROVE IsFiniteSet(net')
    BY <1>10 DEF vars
  <1> QED BY <1>1, <1>2, <1>3, <1>4, <1>5, <1>6, <1>7, <1>8, <1>9, <1>10 DEF Next

\* On a prompt network a second passes only when nothing can be taken.
LEMMA TickAlone ==
  ASSUME IsFiniteSet(net), Prompt, Tick, NEW m \in net
  PROVE  ~ Takeable(m)
  <1> DEFINE S == {x \in net : Takeable(x)}
  <1>1. IsFiniteSet(S) /\ Cardinality(S) \in Nat
    BY FS_Subset, FS_CardinalityType
  <1>2. Cardinality(S) <= 0
    BY DEF Tick, Prompt
  <1>3. S = {}
    BY <1>1, <1>2, FS_EmptySet
  <1> QED BY <1>3

LEMMA DeliverPrompt ==
  ASSUME Prompt, NEW m, NEW out, Deliver(m, out)
  PROVE  net' = (net \ {m}) \cup out
  BY DEF Prompt, Deliver
-----------------------------------------------------------------------------
(* What a step other than start and handleReg leaves of the registrations. *)

\* No reg is sent, and those of the clients that wait for it stay; the server
\* knows whom it knew; nobody takes a peer that is unknown.
RegFrame ==
  /\ \A m \in net' : m.cmd = "reg" =>
       m \in net /\ (pc[m.thisPeer] = "reg" => pc'[m.thisPeer] \in {"reg", "ended"})
  /\ \A m \in net : m.cmd = "reg" /\ pc'[m.thisPeer] = "reg" => m \in net'
  /\ DOMAIN regUsers' = DOMAIN regUsers
  /\ \A c \in DOMAIN regUsers : pc'[c] = "reg" /\ regUsers[c] = 0 => regUsers'[c] = 0
  /\ \A c \in Client :
       /\ pc[c] = "ended" => pc'[c] = "ended"
       /\ pc'[c] = "off" => pc[c] = "off"
       /\ pc'[c] = "reg" => pc[c] = "reg" /\ timer'[c] > 0
       /\ pc'[c] = "sig" => Told(c, peer'[c])
       /\ peer'[c] = peer[c] \/ (~ Unknown(c) /\ ~ Unknown(peer'[c]))

LEMMA FrameKeepsReg ==
  ASSUME PairInv, RegInv, RegFrame
  PROVE  RegInv'
  <1>0. \A m \in net : m.thisPeer \in Client
    BY DEF PairInv, TypeOK, Packet
  <1>1. ASSUME NEW c \in Client, Unknown(c) PROVE Unknown(c)'
    <2>1. c \notin DOMAIN regUsers' /\ peer'[c] = None
      BY <1>1 DEF RegFrame, Unknown
    <2>2. \A d \in Client : peer'[d] # c
      BY <1>1 DEF RegFrame, Unknown
    <2>3. \A m \in net' : m.cmd = "reg" => c \notin m.peers
      BY <1>1 DEF RegFrame, Unknown
    <2> QED BY <2>1, <2>2, <2>3 DEF Unknown
  <1>2. ASSUME NEW m \in net', m.cmd = "reg" PROVE RegOK(m)'
    <2> DEFINE c == m.thisPeer
    <2>1. m \in net /\ RegOK(m) /\ c \in Client
      BY <1>0, <1>2 DEF RegFrame, RegInv
    <2>2. pc'[c] \in {"reg", "ended"}
      BY <1>2, <2>1 DEF RegFrame, RegOK
    <2>3. CASE m = RegReq(c) /\ Unknown(c)
      <3>1. Unknown(c)'
        BY <1>1, <2>1, <2>3
      <3> QED BY <2>2, <2>3, <3>1 DEF RegOK, RegReq, FromClient
    <2>4. CASE m.dst = c /\ (pc[c] = "reg" => c \in DOMAIN regUsers /\ regUsers[c] = 0)
      <3>1. pc'[c] = "reg" => c \in DOMAIN regUsers' /\ regUsers'[c] = 0
        BY <2>1, <2>4 DEF RegFrame
      <3> QED BY <2>2, <2>4, <3>1 DEF RegOK
    <2> QED BY <2>1, <2>3, <2>4 DEF RegOK
  <1>3. \A m, n \in net' : m.cmd = "reg" /\ n.cmd = "reg" /\ m.thisPeer = n.thisPeer => m = n
    BY DEF RegFrame, RegInv
  <1>4. ASSUME NEW c \in Client, pc'[c] = "off" PROVE Unknown(c)'
    BY <1>1, <1>4 DEF RegFrame, RegInv
  <1>5. ASSUME NEW c \in Client, pc'[c] = "reg"
        PROVE  timer'[c] > 0 /\ \E m \in net' : m.cmd = "reg" /\ m.thisPeer = c
    <2>1. pc[c] = "reg" /\ timer'[c] > 0
      BY <1>5 DEF RegFrame
    <2>2. PICK m \in net : m.cmd = "reg" /\ m.thisPeer = c
      BY <2>1 DEF RegInv
    <2>3. m \in net'
      BY <1>5, <2>2 DEF RegFrame
    <2> QED BY <2>1, <2>2, <2>3
  <1> QED BY <1>2, <1>3, <1>4, <1>5 DEF RegInv

LEMMA FrameKeepsOrder ==
  ASSUME OrderInv, RegFrame
  PROVE  OrderInv'
  <1>1. ASSUME NEW c \in Client, NEW d \in Client, Told(c, d)' PROVE Told(c, d)
    <2>1. ASSUME NEW m \in net', m.cmd = "reg", m.dst = c, d \in m.peers PROVE Told(c, d)
      BY <2>1 DEF RegFrame, Told
    <2>2. ASSUME pc'[c] = "sig", peer'[c] = d PROVE Told(c, d)
      BY <2>2 DEF RegFrame
    <2> QED BY <1>1, <2>1, <2>2 DEF Told
  <1> QED BY <1>1 DEF OrderInv
-----------------------------------------------------------------------------
(* The steps of a prompt network. *)

\* The invariant on a prompt network, with what its steps preserve anyhow.
Good == PairInv /\ IsFiniteSet(net) /\ Prompt /\ PromptInv

LEMMA GoodFacts ==
  ASSUME Good
  PROVE  /\ Prompt /\ RegInv /\ OrderInv /\ IdleInv /\ PairInv /\ TypeOK /\ ClientInv
         /\ \A m \in net : m \in Packet /\ m.thisPeer \in Client
         /\ DOMAIN regUsers \subseteq Client
         /\ \A c \in DOMAIN regUsers : regUsers[c] \in 0 .. ExpireTime + 1
         /\ pc \in [Client -> {"off", "reg", "sig", "sleep", "beat", "ended"}]
         /\ peer \in [Client -> Client \cup {None}]
         /\ timer \in [Client -> Nat]
  BY DEF Good, PromptInv, PairInv, TypeOK, Packet

\* A reg comes only to the client that sent it.
LEMMA RegComesHome ==
  ASSUME Good, NEW m \in net, m.cmd = "reg", m.dst # Server
  PROVE  /\ m.thisPeer \in Client /\ m.dst = m.thisPeer /\ pc[m.dst] \in {"reg", "ended"}
         /\ pc[m.dst] = "reg" => m.dst \in DOMAIN regUsers /\ regUsers[m.dst] = 0
  <1>1. RegOK(m) /\ m.thisPeer \in Client
    BY GoodFacts DEF RegInv
  <1> QED BY <1>1 DEF RegOK, RegReq, FromClient

\* What keeps a client that waits to be called registered.
LEMMA IdleKept ==
  ASSUME NEW c \in Client, IdleOK(c),
         c \in DOMAIN regUsers', regUsers'[c] = regUsers[c], timer'[c] = timer[c],
         HeartReq(c) \in net => HeartReq(c) \in net',
         \A m \in net' : m.cmd = "heart" /\ m.dst = c => m \in net
  PROVE  IdleOK(c)'
  <1>1. HeartReq(c)' = HeartReq(c)
    BY DEF HeartReq, FromClient
  <1> QED BY <1>1 DEF IdleOK

LEMMA StartPrompt ==
  ASSUME Good, NEW c \in Client, start(c)
  PROVE  PromptInv'
  <1> DEFINE r == RegReq(c)
  <1>0. /\ net' = net \cup {r} /\ UNCHANGED <<regUsers, peer>> /\ pc[c] = "off"
        /\ pc' = [pc EXCEPT ![c] = "reg"] /\ timer' = [timer EXCEPT ![c] = RegTimeout]
    BY DEF start
  <1>1. /\ r.cmd = "reg" /\ r.thisPeer = c /\ r.dst = Server /\ r.peers = {}
        /\ r' = r /\ r \in Packet
    BY RequestTypes DEF RegReq, FromClient
  <1> HIDE DEF r
  <1>2. \A d \in Client : Unknown(d) => Unknown(d)'
    BY <1>0, <1>1 DEF Unknown
  <1>3. \A m \in net : m.cmd = "reg" => m.thisPeer # c
    BY <1>0, GoodFacts DEF RegInv, RegOK
  <1>4. RegInv'
    <2>1. Unknown(c)'
      BY <1>0, <1>2, GoodFacts DEF RegInv
    <2>2. RegOK(r)'
      BY <1>0, <1>1, <2>1, GoodFacts DEF RegOK, r
    <2>3. ASSUME NEW m \in net, m.cmd = "reg" PROVE RegOK(m)'
      <3>1. RegOK(m) /\ m.thisPeer \in Client /\ m.thisPeer # c
        BY <1>3, <2>3, GoodFacts DEF RegInv
      <3>2. RegReq(m.thisPeer)' = RegReq(m.thisPeer)
        BY DEF RegReq, FromClient
      <3> QED BY <1>0, <1>2, <3>1, <3>2, GoodFacts DEF RegOK
    <2>4. \A m, n \in net' : m.cmd = "reg" /\ n.cmd = "reg" /\ m.thisPeer = n.thisPeer => m = n
      BY <1>0, <1>1, <1>3, GoodFacts DEF RegInv
    <2>5. ASSUME NEW d \in Client
          PROVE  /\ pc'[d] = "off" => Unknown(d)'
                 /\ pc'[d] = "reg" => timer'[d] > 0 /\ \E m \in net' : m.cmd = "reg" /\ m.thisPeer = d
      <3>1. CASE d = c
        BY <1>0, <1>1, <3>1, GoodFacts, Times
      <3>2. CASE d # c
        BY <1>0, <1>2, <3>2, GoodFacts DEF RegInv
      <3> QED BY <3>1, <3>2
    <2> QED BY <1>0, <2>2, <2>3, <2>4, <2>5 DEF RegInv
  <1>5. OrderInv'
    <2>1. \A d, e \in Client : Told(d, e)' => Told(d, e)
      BY <1>0, <1>1, GoodFacts DEF Told
    <2> QED BY <2>1, GoodFacts DEF OrderInv
  <1>6. ASSUME NEW d \in Client, Idle(d)' PROVE IdleOK(d)'
    <2>1. d # c /\ Idle(d) /\ IdleOK(d)
      BY <1>0, <1>6, GoodFacts DEF Idle, IdleInv
    <2>2. d \in DOMAIN regUsers
      BY <2>1 DEF IdleOK
    <2> QED BY <1>0, <1>1, <2>1, <2>2, IdleKept, GoodFacts
  <1> QED BY <1>4, <1>5, <1>6 DEF PromptInv, IdleInv

LEMMA RegServedPrompt ==
  ASSUME Good, NEW m \in net, serve(m), m.cmd = "reg"
  PROVE  PromptInv'
  <1> DEFINE c == m.thisPeer
             users == [d \in DOMAIN regUsers \cup {c} |-> IF d = c THEN 0 ELSE regUsers[d]]
             left == {d \in DOMAIN users : users[d] <= ExpireTime}
  <1>a. PICK r : r = [m EXCEPT !.dst = c, !.peers = left]
    OBVIOUS
  <1>0. /\ c \in Client /\ m.dst = Server /\ c # Server
        /\ UNCHANGED <<pc, peer, timer>>
        /\ regUsers' = [d \in left |-> users[d]] /\ net' = (net \ {m}) \cup {r}
    <2>1. handleReg(m) /\ c \in Client /\ m.dst = Server /\ UNCHANGED <<pc, peer, timer>>
      BY GoodFacts DEF serve
    <2>2. regUsers' = [d \in left |-> users[d]] /\ Deliver(m, {r})
      BY <1>a, <2>1 DEF handleReg
    <2> HIDE DEF users, left, c
    <2> QED BY <2>1, <2>2, DeliverPrompt, GoodFacts, Distinct
  <1>1. m = RegReq(c) /\ Unknown(c) /\ pc[c] \in {"reg", "ended"}
    BY <1>0, GoodFacts DEF RegInv, RegOK
  <1>2. /\ c \in left /\ users[c] = 0
        /\ left \subseteq DOMAIN regUsers \cup {c}
        /\ \A d \in DOMAIN regUsers : d # c => users[d] = regUsers[d]
        /\ \A d \in DOMAIN regUsers : d # c /\ regUsers[d] <= ExpireTime => d \in left
    <2>1. 0 <= ExpireTime
      BY Times
    <2>2. /\ DOMAIN users = DOMAIN regUsers \cup {c} /\ users[c] = 0
          /\ \A d \in DOMAIN regUsers : d # c => users[d] = regUsers[d]
      OBVIOUS
    <2> HIDE DEF users, c
    <2> QED BY <2>1, <2>2
  <1>3. r.cmd = "reg" /\ r.thisPeer = c /\ r.dst = c /\ r.peers = left
    BY <1>a, <1>0, GoodFacts DEF Packet
  <1> HIDE DEF users, left, c
  <1>4. \A n \in net : n.cmd = "reg" /\ n.thisPeer = c => n = m
    BY GoodFacts DEF RegInv, c
  <1>5. ASSUME NEW d \in Client, Unknown(d), d # c PROVE Unknown(d)'
    BY <1>0, <1>2, <1>3, <1>5 DEF Unknown
  <1>6. ASSUME NEW d \in DOMAIN regUsers, d # c, regUsers[d] <= ExpireTime
        PROVE  d \in DOMAIN regUsers' /\ regUsers'[d] = regUsers[d]
    BY <1>0, <1>2, <1>6
  <1>7. c \in DOMAIN regUsers' /\ regUsers'[c] = 0
    BY <1>0, <1>2
  <1>8. RegInv'
    <2>1. RegOK(r)'
      BY <1>0, <1>1, <1>3, <1>7 DEF RegOK
    <2>2. ASSUME NEW n \in net, n.cmd = "reg", n # m PROVE RegOK(n)'
      <3>1. RegOK(n) /\ n.thisPeer \in Client /\ n.thisPeer # c
        BY <1>4, <2>2, GoodFacts DEF RegInv
      <3>2. RegReq(n.thisPeer)' = RegReq(n.thisPeer)
        BY DEF RegReq, FromClient
      <3>3. CASE n = RegReq(n.thisPeer) /\ Unknown(n.thisPeer)
        BY <1>0, <1>5, <3>1, <3>2, <3>3 DEF RegOK
      <3>4. CASE n.dst = n.thisPeer /\ (pc[n.thisPeer] = "reg" => n.thisPeer \in DOMAIN regUsers /\ regUsers[n.thisPeer] = 0)
        <4>1. pc'[n.thisPeer] = "reg" => n.thisPeer \in DOMAIN regUsers' /\ regUsers'[n.thisPeer] = 0
          BY <1>0, <1>6, <3>1, <3>4, Times
        <4> QED BY <1>0, <3>1, <3>4, <4>1 DEF RegOK
      <3> QED BY <3>1, <3>3, <3>4 DEF RegOK
    <2>3. \A x, y \in net' : x.cmd = "reg" /\ y.cmd = "reg" /\ x.thisPeer = y.thisPeer => x = y
      BY <1>0, <1>3, <1>4, GoodFacts DEF RegInv
    <2>4. ASSUME NEW d \in Client
          PROVE  /\ pc'[d] = "off" => Unknown(d)'
                 /\ pc'[d] = "reg" => timer'[d] > 0 /\ \E x \in net' : x.cmd = "reg" /\ x.thisPeer = d
      <3>1. CASE d = c
        BY <1>0, <1>1, <1>3, <3>1, GoodFacts DEF RegInv
      <3>2. CASE d # c
        <4>1. pc[d] = "off" => Unknown(d)'
          BY <1>5, <3>2, GoodFacts DEF RegInv
        <4>2. ASSUME pc[d] = "reg" PROVE timer[d] > 0 /\ \E x \in net' : x.cmd = "reg" /\ x.thisPeer = d
          <5>1. PICK x \in net : x.cmd = "reg" /\ x.thisPeer = d
            BY <4>2, GoodFacts DEF RegInv
          <5>2. x # m
            BY <3>2, <5>1 DEF c
          <5> QED BY <1>0, <4>2, <5>1, <5>2, GoodFacts DEF RegInv
        <4> QED BY <1>0, <4>1, <4>2
      <3> QED BY <3>1, <3>2
    <2> QED BY <1>0, <2>1, <2>2, <2>3, <2>4 DEF RegInv
  <1>9. OrderInv'
    <2>1. \A d, e \in Client : Told(d, e)' => Told(d, e) \/ d = c
      BY <1>0, <1>3, GoodFacts DEF Told
    <2>2. \A d \in Client : ~ Told(d, c)
      BY <1>1 DEF Told, Unknown
    <2> QED BY <1>0, <2>1, <2>2, GoodFacts DEF OrderInv
  <1>10. ASSUME NEW d \in Client, Idle(d)' PROVE IdleOK(d)'
    <2>1. d # c /\ IdleOK(d)
      BY <1>0, <1>1, <1>10, GoodFacts DEF Idle, IdleInv
    <2>2. d \in DOMAIN regUsers /\ regUsers[d] <= ExpireTime
      BY <2>1, HeartInTime, GoodFacts, Times DEF IdleOK
    <2>3. d \in DOMAIN regUsers' /\ regUsers'[d] = regUsers[d]
      BY <1>6, <2>1, <2>2
    <2>4. HeartReq(d).cmd = "heart"
      BY DEF HeartReq, FromClient
    <2> QED BY <1>0, <1>3, <2>1, <2>3, <2>4, IdleKept
  <1> QED BY <1>8, <1>9, <1>10 DEF PromptInv, IdleInv

LEMMA HeartServedPrompt ==
  ASSUME Good, NEW m \in net, serve(m), m.cmd = "heart"
  PROVE  PromptInv'
  <1> DEFINE c == m.thisPeer
             known == c \in DOMAIN regUsers
  <1>a. PICK r : r = [m EXCEPT !.dst = c, !.err = IF known THEN 0 ELSE -1]
    OBVIOUS
  <1>0. /\ c \in Client /\ m.dst = Server /\ UNCHANGED <<pc, peer, timer>>
        /\ regUsers' = (IF known THEN [regUsers EXCEPT ![c] = 0] ELSE regUsers)
        /\ net' = (net \ {m}) \cup {r}
    <2>1. handleHeart(m) /\ c \in Client /\ m.dst = Server /\ UNCHANGED <<pc, peer, timer>>
      BY GoodFacts DEF serve
    <2>2. /\ regUsers' = (IF known THEN [regUsers EXCEPT ![c] = 0] ELSE regUsers)
          /\ Deliver(m, {r})
      BY <1>a, <2>1 DEF handleHeart
    <2> QED BY <2>1, <2>2, DeliverPrompt, GoodFacts
  <1>1. r.cmd = "heart" /\ r.dst = c
    BY <1>a, GoodFacts DEF Packet
  <1>2. /\ DOMAIN regUsers' = DOMAIN regUsers
        /\ \A d \in DOMAIN regUsers : regUsers'[d] = IF d = c THEN 0 ELSE regUsers[d]
    BY <1>0
  <1> HIDE DEF c, known
  <1>3. RegFrame
    BY <1>0, <1>1, <1>2, GoodFacts DEF RegFrame, RegInv, Told
  <1>4. ASSUME NEW d \in Client, Idle(d)' PROVE IdleOK(d)'
    <2>1. IdleOK(d) /\ d \in DOMAIN regUsers
      BY <1>0, <1>4, GoodFacts DEF Idle, IdleInv, IdleOK
    <2>2. CASE d = c
      <3>1. d \in DOMAIN regUsers' /\ regUsers'[d] = 0 /\ timer'[d] <= HeartTimeout /\ timer'[d] \in Nat
        BY <1>0, <1>2, <2>1, <2>2, GoodFacts DEF IdleOK
      <3> QED BY <3>1, Times DEF IdleOK
    <2>3. CASE d # c
      <3>1. HeartReq(d) # m
        BY <2>3 DEF HeartReq, FromClient, c
      <3> QED BY <1>0, <1>1, <1>2, <2>1, <2>3, <3>1, IdleKept
    <2> QED BY <2>2, <2>3
  <1> QED BY <1>3, <1>4, FrameKeepsReg, FrameKeepsOrder, GoodFacts DEF PromptInv, IdleInv

LEMMA SigServedPrompt ==
  ASSUME Good, NEW m \in net, serve(m), m.cmd = "sig"
  PROVE  PromptInv'
  <1>1. PICK r : r.cmd = "sig" /\ Deliver(m, {r})
    BY ServeStep, GoodFacts
  <1>2. net' = (net \ {m}) \cup {r} /\ UNCHANGED <<regUsers, pc, peer, timer>>
    BY <1>1, DeliverPrompt, GoodFacts DEF serve, handleSig
  <1>3. RegFrame
    BY <1>1, <1>2, GoodFacts DEF RegFrame, RegInv, Told
  <1>4. ASSUME NEW d \in Client, Idle(d)' PROVE IdleOK(d)'
    <2>1. IdleOK(d) /\ d \in DOMAIN regUsers
      BY <1>2, <1>4, GoodFacts DEF Idle, IdleInv, IdleOK
    <2>2. HeartReq(d).cmd = "heart"
      BY DEF HeartReq, FromClient
    <2> QED BY <1>1, <1>2, <2>1, <2>2, IdleKept
  <1> QED BY <1>3, <1>4, FrameKeepsReg, FrameKeepsOrder, GoodFacts DEF PromptInv, IdleInv

LEMMA LosePrompt ==
  ASSUME Good, NEW m \in net, Lose(m)
  PROVE  PromptInv'
  <1>1. /\ net' = net \ {m} /\ UNCHANGED <<regUsers, pc, peer, timer>>
        /\ m.dst \in Client /\ pc[m.dst] = "ended"
    BY GoodFacts DEF Lose, Prompt
  <1>2. m.cmd = "reg" => pc[m.thisPeer] = "ended"
    BY <1>1, RegComesHome, Distinct
  <1>3. RegFrame
    BY <1>1, <1>2, GoodFacts DEF RegFrame, RegInv, Told
  <1>4. ASSUME NEW d \in Client, Idle(d)' PROVE IdleOK(d)'
    <2>1. IdleOK(d) /\ d \in DOMAIN regUsers
      BY <1>1, <1>4, GoodFacts DEF Idle, IdleInv, IdleOK
    <2>2. HeartReq(d) # m
      BY <1>1, Distinct DEF HeartReq, FromClient
    <2> QED BY <1>1, <2>1, <2>2, IdleKept
  <1> QED BY <1>3, <1>4, FrameKeepsReg, FrameKeepsOrder, GoodFacts DEF PromptInv, IdleInv

\* The steps of a client that send no reg and take nothing from the network.
LEMMA ClientPrompt ==
  ASSUME Good, NEW c \in Client, startWait(c) \/ Resend(c) \/ Heartbeat(c) \/ Crash(c)
  PROVE  PromptInv'
  <1>1. CASE startWait(c)
    <2>1. UNCHANGED <<regUsers, net, pc, peer, timer>>
      BY <1>1 DEF startWait
    <2>2. RegFrame
      BY <2>1, GoodFacts DEF RegFrame, RegInv, Told
    <2>3. ASSUME NEW d \in Client, Idle(d)' PROVE IdleOK(d)'
      <3>1. IdleOK(d) /\ d \in DOMAIN regUsers
        BY <2>1, <2>3, GoodFacts DEF Idle, IdleInv, IdleOK
      <3> QED BY <2>1, <3>1, IdleKept
    <2> QED BY <2>2, <2>3, FrameKeepsReg, FrameKeepsOrder, GoodFacts DEF PromptInv, IdleInv
  <1>2. CASE Resend(c)
    <2>1. pc[c] = "sig"
      BY <1>2, GoodFacts DEF Resend, RegInv
    <2>2. /\ UNCHANGED <<regUsers, pc, peer>> /\ net' = net \cup {SigReq(c, peer[c])}
          /\ timer' = [timer EXCEPT ![c] = RegTimeout]
      BY <1>2, <2>1 DEF Resend
    <2>3. SigReq(c, peer[c]).cmd = "sig"
      BY DEF SigReq, FromClient
    <2>4. RegFrame
      BY <2>1, <2>2, <2>3, GoodFacts DEF RegFrame, RegInv, Told
    <2>5. ASSUME NEW d \in Client, Idle(d)' PROVE IdleOK(d)'
      <3>1. IdleOK(d) /\ d \in DOMAIN regUsers /\ d # c
        BY <2>1, <2>2, <2>5, GoodFacts DEF Idle, IdleInv, IdleOK
      <3> QED BY <2>2, <2>3, <3>1, IdleKept, GoodFacts
    <2> QED BY <2>4, <2>5, FrameKeepsReg, FrameKeepsOrder, GoodFacts DEF PromptInv, IdleInv
  <1>3. CASE Heartbeat(c)
    <2>1. /\ pc[c] \in {"sleep", "beat"} /\ pc' = [pc EXCEPT ![c] = "beat"]
          /\ UNCHANGED <<regUsers, peer>> /\ timer' = [timer EXCEPT ![c] = HeartTimeout]
          /\ net' = (net \cup {HeartReq(c)}) \cup Pun(c, peer[c])
      BY <1>3 DEF Heartbeat
    <2>2. /\ HeartReq(c).cmd = "heart" /\ HeartReq(c).dst = Server /\ HeartReq(c)' = HeartReq(c)
          /\ \A r \in Pun(c, peer[c]) : r.cmd = "pun"
      BY DEF HeartReq, FromClient, Pun
    <2>3. RegFrame
      BY <2>1, <2>2, GoodFacts DEF RegFrame, RegInv, Told
    <2>4. ASSUME NEW d \in Client, Idle(d)' PROVE IdleOK(d)'
      <3>1. Idle(d)
        BY <2>1, <2>4, GoodFacts DEF Idle, ClientInv
      <3>2. IdleOK(d) /\ d \in DOMAIN regUsers
        BY <3>1, GoodFacts DEF IdleInv, IdleOK
      <3>3. CASE d = c
        <4>1. HeartReq(d) \in net' /\ regUsers' = regUsers /\ timer'[d] = HeartTimeout
          BY <2>1, <3>3, GoodFacts
        <4>2. \A m \in net' : m.cmd = "heart" /\ m.dst = d => m \in net
          BY <2>1, <2>2, Distinct
        <4> QED BY <2>2, <3>2, <3>3, <4>1, <4>2, Times DEF IdleOK
      <3>4. CASE d # c
        <4>1. \A m \in net' : m.cmd = "heart" /\ m.dst = d => m \in net
          BY <2>1, <2>2, Distinct
        <4> QED BY <2>1, <3>2, <3>4, <4>1, IdleKept, GoodFacts
      <3> QED BY <3>3, <3>4
    <2> QED BY <2>3, <2>4, FrameKeepsReg, FrameKeepsOrder, GoodFacts DEF PromptInv, IdleInv
  <1>4. CASE Crash(c)
    <2>1. /\ UNCHANGED <<regUsers, net, peer>> /\ pc' = [pc EXCEPT ![c] = "ended"]
          /\ timer' = [timer EXCEPT ![c] = 0]
      BY <1>4 DEF Crash
    <2>2. RegFrame
      BY <2>1, GoodFacts DEF RegFrame, RegInv, RegOK, Told
    <2>3. ASSUME NEW d \in Client, Idle(d)' PROVE IdleOK(d)'
      <3>1. IdleOK(d) /\ d \in DOMAIN regUsers /\ d # c
        BY <2>1, <2>3, GoodFacts DEF Idle, IdleInv, IdleOK
      <3> QED BY <2>1, <3>1, IdleKept, GoodFacts
    <2> QED BY <2>2, <2>3, FrameKeepsReg, FrameKeepsOrder, GoodFacts DEF PromptInv, IdleInv
  <1> QED BY <1>1, <1>2, <1>3, <1>4

LEMMA TickPrompt ==
  ASSUME Good, Tick
  PROVE  PromptInv'
  <1>1. /\ UNCHANGED <<net, pc, peer>>
        /\ timer' = [d \in Client |-> IF Running(d) THEN timer[d] - 1 ELSE timer[d]]
        /\ regUsers' = [d \in DOMAIN regUsers |->
                          IF regUsers[d] > ExpireTime THEN regUsers[d] ELSE regUsers[d] + 1]
        /\ \A d \in Client : Running(d) => timer[d] > 0
    BY DEF Tick
  <1>2. \A m \in net : m.dst # Server /\ pc[m.dst] \notin {"reg", "sig", "beat"}
    BY TickAlone DEF Good, Takeable
  <1>3. \A d \in Client : pc[d] # "reg"
    <2>1. SUFFICES ASSUME NEW d \in Client, pc[d] = "reg" PROVE FALSE
      OBVIOUS
    <2>2. PICK m \in net : m.cmd = "reg" /\ m.thisPeer = d
      BY <2>1, GoodFacts DEF RegInv
    <2>3. m.dst # Server => m.dst = d
      BY <2>2, RegComesHome
    <2> QED BY <1>2, <2>1, <2>2, <2>3
  <1>4. RegFrame
    BY <1>1, <1>3, GoodFacts DEF RegFrame, RegInv, RegOK, Told
  <1>5. ASSUME NEW d \in Client, Idle(d)' PROVE IdleOK(d)'
    <2>1. IdleOK(d) /\ pc[d] = "beat"
      BY <1>1, <1>5, GoodFacts DEF Idle, IdleInv
    <2>2. HeartReq(d) \notin net
      BY <1>2 DEF HeartReq, FromClient
    <2>3. /\ regUsers[d] + timer[d] <= HeartTimeout /\ timer[d] > 0 /\ Running(d)
          /\ d \in DOMAIN regUsers /\ regUsers[d] \in Nat /\ timer[d] \in Nat
      BY <1>1, <2>1, <2>2, GoodFacts DEF IdleOK, Running
    <2>4. /\ timer'[d] = timer[d] - 1 /\ d \in DOMAIN regUsers' /\ regUsers'[d] = regUsers[d] + 1
      BY <1>1, <2>3, HeartInTime, Times
    <2>5. \A m \in net' : m.dst # d
      BY <1>1, <1>2, <2>1
    <2> QED BY <2>3, <2>4, <2>5, Times DEF IdleOK
  <1> QED BY <1>4, <1>5, FrameKeepsReg, FrameKeepsOrder, GoodFacts DEF PromptInv, IdleInv

LEMMA RegDonePrompt ==
  ASSUME Good, NEW c \in Client, NEW m \in net, m.dst = c, m.cmd = "reg", pc[c] = "reg",
         RegDone(c, m), UNCHANGED regUsers
  PROVE  PromptInv'
  <1>0. /\ m.thisPeer = c /\ c \in DOMAIN regUsers /\ regUsers[c] = 0
        /\ \A n \in net : n.cmd = "reg" /\ n.thisPeer = c => n = m
    <2>1. m.thisPeer = c /\ c \in DOMAIN regUsers /\ regUsers[c] = 0
      BY RegComesHome, Distinct
    <2> QED BY <2>1, GoodFacts DEF RegInv
  <1>1. ~ Unknown(c) /\ \A p \in m.peers : ~ Unknown(p) /\ Told(c, p)
    BY <1>0 DEF Unknown, Told
  <1>2. ASSUME NEW p \in m.peers \ {c},
               pc' = [pc EXCEPT ![c] = "sig"], peer' = [peer EXCEPT ![c] = p],
               timer' = [timer EXCEPT ![c] = RegTimeout], Deliver(m, {SigReq(c, p)})
        PROVE  PromptInv'
    <2>1. net' = (net \ {m}) \cup {SigReq(c, p)} /\ SigReq(c, p).cmd = "sig"
      BY <1>2, DeliverPrompt, GoodFacts DEF SigReq, FromClient
    <2>2. RegFrame
      BY <1>0, <1>1, <1>2, <2>1, GoodFacts DEF RegFrame, RegInv, Told
    <2>3. ASSUME NEW d \in Client, Idle(d)' PROVE IdleOK(d)'
      <3>1. d # c /\ IdleOK(d) /\ d \in DOMAIN regUsers
        BY <1>2, <2>3, GoodFacts DEF Idle, IdleInv, IdleOK
      <3>2. HeartReq(d) # m
        BY DEF HeartReq, FromClient
      <3> QED BY <1>2, <2>1, <3>1, <3>2, IdleKept, GoodFacts
    <2> QED BY <2>2, <2>3, FrameKeepsReg, FrameKeepsOrder, GoodFacts DEF PromptInv, IdleInv
  <1>3. ASSUME pc' = [pc EXCEPT ![c] = "beat"], UNCHANGED peer,
               timer' = [timer EXCEPT ![c] = HeartTimeout], Deliver(m, {HeartReq(c)})
        PROVE  PromptInv'
    <2>1. /\ net' = (net \ {m}) \cup {HeartReq(c)} /\ HeartReq(c).cmd = "heart"
          /\ HeartReq(c).dst = Server /\ HeartReq(c)' = HeartReq(c)
      BY <1>3, DeliverPrompt, GoodFacts DEF HeartReq, FromClient
    <2>2. RegFrame
      BY <1>0, <1>3, <2>1, GoodFacts DEF RegFrame, RegInv, Told
    <2>3. ASSUME NEW d \in Client, Idle(d)' PROVE IdleOK(d)'
      <3>1. CASE d = c
        <4>1. HeartReq(d) \in net' /\ timer'[d] = HeartTimeout /\ d \in DOMAIN regUsers' /\ regUsers'[d] = 0
          BY <1>0, <1>3, <2>1, <3>1, GoodFacts
        <4> QED BY <2>1, <3>1, <4>1, Times DEF IdleOK
      <3>2. CASE d # c
        <4>1. IdleOK(d) /\ d \in DOMAIN regUsers
          BY <1>3, <2>3, <3>2, GoodFacts DEF Idle, IdleInv, IdleOK
        <4>2. HeartReq(d) # m
          BY DEF HeartReq, FromClient
        <4> QED BY <1>3, <2>1, <3>2, <4>1, <4>2, IdleKept, GoodFacts, Distinct
      <3> QED BY <3>1, <3>2
    <2> QED BY <2>2, <2>3, FrameKeepsReg, FrameKeepsOrder, GoodFacts DEF PromptInv, IdleInv
  <1> QED BY <1>2, <1>3 DEF RegDone

LEMMA SkipPrompt ==
  ASSUME Good, NEW c \in Client, NEW m \in net, m.dst = c, UNCHANGED regUsers,
         \/ pc[c] = "reg" /\ m.cmd # "reg" /\ Skip(c, m)
         \/ pc[c] = "sig" /\ Skip(c, m)
         \/ pc[c] = "sig" /\ SigDone(c, m)
  PROVE  PromptInv'
  <1>1. m.cmd # "reg"
    BY RegComesHome, Distinct
  <1>2. net' = net \ {m} /\ UNCHANGED peer
    BY DeliverPrompt, GoodFacts DEF Skip, SigDone
  <1>3. \A d \in Client : d # c => pc'[d] = pc[d] /\ timer'[d] = timer[d]
    BY GoodFacts DEF Skip, SigDone
  <1>4. \/ pc' = pc /\ timer'[c] > 0 /\ pc[c] \in {"reg", "sig"}
        \/ pc[c] = "sig" /\ pc'[c] \in {"ended", "sleep"}
    BY GoodFacts, Times DEF Skip, SigDone
  <1>5. RegFrame
    BY <1>1, <1>2, <1>3, <1>4, GoodFacts DEF RegFrame, RegInv, RegOK, Told
  <1>6. ASSUME NEW d \in Client, Idle(d)' PROVE IdleOK(d)'
    <2>1. d # c /\ IdleOK(d) /\ d \in DOMAIN regUsers
      BY <1>2, <1>3, <1>4, <1>6, GoodFacts DEF Idle, IdleInv, IdleOK
    <2>2. HeartReq(d) # m
      BY Distinct DEF HeartReq, FromClient
    <2> QED BY <1>2, <1>3, <2>1, <2>2, IdleKept
  <1> QED BY <1>5, <1>6, FrameKeepsReg, FrameKeepsOrder, GoodFacts DEF PromptInv, IdleInv

LEMMA HeartLoopPrompt ==
  ASSUME Good, NEW c \in Client, NEW m \in net, m.dst = c, pc[c] = "beat",
         HeartLoop(c, m), UNCHANGED regUsers
  PROVE  PromptInv'
  <1> DEFINE p == IF Answers(c, m) THEN m.thisPeer ELSE peer[c]
  <1>1. m.cmd # "reg"
    BY RegComesHome, Distinct
  <1>2. PICK out : Deliver(m, out) /\ \A r \in out : r.cmd \in {"sig", "pun"}
    <2>1. \A r \in Pun(c, p) : r.cmd = "pun"
      BY DEF Pun, FromClient
    <2>2. SigAnswer(c, p).cmd = "sig"
      BY DEF SigAnswer, FromClient
    <2>3. Deliver(m, Pun(c, p) \cup IF Answers(c, m) THEN {SigAnswer(c, p)} ELSE {})
      BY DEF HeartLoop
    <2> HIDE DEF p
    <2> QED BY <2>1, <2>2, <2>3
  <1>3. /\ net' = (net \ {m}) \cup out /\ pc' = pc
        /\ peer' = [peer EXCEPT ![c] = p] /\ timer' = [timer EXCEPT ![c] = HeartTimeout]
    BY <1>2, DeliverPrompt, GoodFacts DEF HeartLoop
  <1>4. ASSUME Answers(c, m)
        PROVE  p \in Client /\ ~ Unknown(p) /\ peer[c] = None
    <2>1. p = m.thisPeer /\ peer[c] = None /\ m.cmd = "sig"
      BY <1>4 DEF Answers
    <2>2. p \in Client /\ peer[p] = c
      BY <2>1, CallerIsPeers, GoodFacts
    <2> QED BY <2>1, <2>2, Distinct DEF Unknown
  <1>5. ASSUME peer[c] = None
        PROVE  ~ Unknown(c)
    BY <1>5, GoodFacts DEF IdleInv, Idle, IdleOK, Unknown
  <1>6. ~ Answers(c, m) => p = peer[c]
    OBVIOUS
  <1> HIDE DEF p
  <1>7. RegFrame
    BY <1>1, <1>2, <1>3, <1>4, <1>5, <1>6, GoodFacts DEF RegFrame, RegInv, RegOK, Told
  <1>8. ASSUME NEW d \in Client, Idle(d)' PROVE IdleOK(d)'
    <2>1. CASE d = c
      <3>1. p = None /\ ~ Answers(c, m) /\ peer[c] = None
        BY <1>3, <1>4, <1>6, <1>8, <2>1, GoodFacts, Distinct DEF Idle
      <3>2. IdleOK(c) /\ c \in DOMAIN regUsers
        BY <3>1, GoodFacts DEF Idle, IdleInv, IdleOK
      <3>3. m.cmd = "heart"
        <4>1. m.cmd # "sig"
          BY <3>1 DEF Answers
        <4>2. m.cmd # "pun"
          BY <3>1, GoodFacts DEF PairInv, PunInv, PunOK
        <4> QED BY <1>1, <4>1, <4>2, GoodFacts DEF Packet
      <3>4. regUsers[c] = 0
        BY <3>2, <3>3 DEF IdleOK
      <3>5. timer'[c] = HeartTimeout
        BY <1>3, GoodFacts
      <3> QED BY <2>1, <3>2, <3>4, <3>5, Times DEF IdleOK
    <2>2. CASE d # c
      <3>1. IdleOK(d) /\ d \in DOMAIN regUsers
        BY <1>3, <1>8, <2>2, GoodFacts DEF Idle, IdleInv, IdleOK
      <3>2. HeartReq(d) # m
        BY Distinct DEF HeartReq, FromClient
      <3> QED BY <1>2, <1>3, <2>2, <3>1, <3>2, IdleKept, GoodFacts
    <2> QED BY <2>1, <2>2
  <1> QED BY <1>7, <1>8, FrameKeepsReg, FrameKeepsOrder, GoodFacts DEF PromptInv, IdleInv

LEMMA PromptStep == Good /\ [Next]_vars => PromptInv'
  <1> SUFFICES ASSUME Good, [Next]_vars PROVE PromptInv'
    OBVIOUS
  <1>1. ASSUME NEW m \in net, serve(m) PROVE PromptInv'
    BY <1>1, RegServedPrompt, HeartServedPrompt, SigServedPrompt DEF serve
  <1>2. ASSUME NEW m \in net, Lose(m) PROVE PromptInv'
    BY <1>2, LosePrompt
  <1>3. ASSUME NEW c \in Client, start(c) PROVE PromptInv'
    BY <1>3, StartPrompt
  <1>4. ASSUME NEW c \in Client, startWait(c) \/ Resend(c) \/ Heartbeat(c) \/ Crash(c) PROVE PromptInv'
    BY <1>4, ClientPrompt
  <1>5. ASSUME NEW c \in Client, NEW m \in net, receive(c, m) PROVE PromptInv'
    <2>1. m.dst = c /\ UNCHANGED regUsers
      BY <1>5 DEF receive
    <2>2. CASE pc[c] = "reg" /\ m.cmd = "reg" /\ RegDone(c, m)
      BY <2>1, <2>2, RegDonePrompt
    <2>3. CASE \/ pc[c] = "reg" /\ m.cmd # "reg" /\ Skip(c, m)
               \/ pc[c] = "sig" /\ Skip(c, m)
               \/ pc[c] = "sig" /\ SigDone(c, m)
      BY <2>1, <2>3, SkipPrompt
    <2>4. CASE pc[c] = "beat" /\ HeartLoop(c, m)
      BY <2>1, <2>4, HeartLoopPrompt
    <2> QED BY <1>5, <2>2, <2>3, <2>4 DEF receive
  <1>6. ASSUME Tick PROVE PromptInv'
    BY <1>6, TickPrompt
  <1>7. ASSUME UNCHANGED vars PROVE PromptInv'
    <2>1. UNCHANGED <<regUsers, net, pc, peer, timer>>
      BY <1>7 DEF vars
    <2>2. RegFrame
      BY <2>1, GoodFacts DEF RegFrame, RegInv, RegOK, Told
    <2>3. ASSUME NEW d \in Client, Idle(d)' PROVE IdleOK(d)'
      <3>1. IdleOK(d) /\ d \in DOMAIN regUsers
        BY <2>1, <2>3, GoodFacts DEF Idle, IdleInv, IdleOK
      <3> QED BY <2>1, <3>1, IdleKept
    <2> QED BY <2>2, <2>3, FrameKeepsReg, FrameKeepsOrder, GoodFacts DEF PromptInv, IdleInv
  <1> QED BY <1>1, <1>2, <1>3, <1>4, <1>5, <1>6, <1>7 DEF Next

LEMMA SignalStep == SignalInv /\ [Next]_vars => SignalInv'
  <1> SUFFICES ASSUME SignalInv, [Next]_vars PROVE SignalInv'
    OBVIOUS
  <1>1. PairInv' /\ IsFiniteSet(net)'
    BY PairStep, FiniteStep DEF SignalInv
  <1>2. ASSUME Prompt' PROVE PromptInv'
    <2>1. world' = world
      BY DEF Next, vars
    <2>2. Prompt
      BY <1>2, <2>1 DEF Prompt
    <2> QED BY <2>2, PromptStep DEF Good, SignalInv
  <1> QED BY <1>1, <1>2 DEF SignalInv

LEMMA InitSignal == Init => SignalInv
  <1> SUFFICES ASSUME Init PROVE SignalInv
    OBVIOUS
  <1>1. PairInv /\ IsFiniteSet(net)
    BY InitPair, FS_EmptySet DEF Init
  <1>2. RegInv
    BY Distinct DEF Init, RegInv, Unknown
  <1>3. OrderInv /\ IdleInv
    BY DEF Init, OrderInv, Told, IdleInv, Idle
  <1> QED BY <1>1, <1>2, <1>3 DEF SignalInv, PromptInv

\* When nothing is lost, repeated or late, no two clients, of however many, wait
\* in doRequest for each other's answer: handleReg tells only the later of the two
\* of the other.
THEOREM NoMutualWaitAlways == Spec => []NoMutualWait
  <1>1. SignalInv => NoMutualWait
    <2> SUFFICES ASSUME SignalInv, Prompt,
                        NEW c \in Client, NEW d \in Client,
                        pc[c] = "sig", peer[c] = d, pc[d] = "sig", peer[d] = c
                 PROVE  FALSE
      BY DEF NoMutualWait
    <2>1. c # d
      BY DEF SignalInv, PairInv, ClientInv
    <2> QED BY <2>1 DEF SignalInv, PromptInv, OrderInv, Told
  <1> QED BY <1>1, SignalStep, InitSignal, PTL DEF Spec

\* When nothing is lost, repeated or late, a client that waits to be called is
\* registered, whoever else registers, calls or is killed: its heartbeat always
\* comes before handleReg would take it for silent.
THEOREM IdleStaysRegisteredAlways == Spec => []IdleStaysRegistered
  <1>1. SignalInv => IdleStaysRegistered
    BY DEF SignalInv, PromptInv, IdleInv, Idle, IdleOK, IdleStaysRegistered
  <1> QED BY <1>1, SignalStep, InitSignal, PTL DEF Spec
=============================================================================
