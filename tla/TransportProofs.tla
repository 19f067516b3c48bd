--------------------------- MODULE TransportProofs --------------------------
(***************************************************************************)
(* The UDP bridge: for every set of senders, every set of strangers and    *)
(* every Timeout it is checked while it has forwarders, the preferred      *)
(* socket is lent to one forwarder at a time, and no forwarder outlives    *)
(* its last datagram by more than Timeout + 3 seconds.                     *)
(*                                                                         *)
(* The RTMP push client keeps its timer and its parameter sets right for   *)
(* every file, every set of parameter sets and every number of attempts.   *)
(***************************************************************************)
EXTENDS UDPBridge, EvrtmpClient, TLAPS, FiniteSetTheorems

-----------------------------------------------------------------------------
(* The UDP bridge.                                                         *)

\* Who has the preferred socket, without counting.
PreferInv ==
  \/ /\ preferSockRef = 0
     /\ \A a \in Senders : ~ forwardMap[a].prefer
  \/ /\ preferSockRef = 1
     /\ preferCallback \in Senders
     /\ \A a \in Senders : forwardMap[a].prefer <=> a = preferCallback

\* Where a forwarder is on its way to be freed: not marked, it was looked at
\* after its last datagram at most as the next slot but one; marked, it has been
\* idle for two seconds more than its mark is old, and the mark is older than
\* Timeout only right before its slot is looked at.
PhaseOK(f) ==
  /\ f.time = NotSet => f.idle <= IF f.slot = checkCounter THEN 1 ELSE 0
  /\ f.time # NotSet =>
       /\ f.time <= f.idle /\ f.idle <= f.time + 2
       /\ f.time <= IF f.slot = checkCounter THEN Timeout + 1 ELSE Timeout

IdleInv == \A a \in Senders : PhaseOK(forwardMap[a])

IInv == TypeOK /\ Checked /\ PreferInv /\ IdleInv
-----------------------------------------------------------------------------
LEMMA InitInv == Init => IInv
<1> SUFFICES ASSUME Init PROVE IInv
  OBVIOUS
<1>1. Senders = {} /\ forwardMap \in [Senders -> Forwarder]
  BY DEF Init, Senders
<1>2. TypeOK
  <2>1. 0 \in Slot
    BY DEF Slot
  <2>2. preferSockRef \in Int
    BY DEF Init
  <2>3. listed \in BOOLEAN /\ closed \in BOOLEAN
    BY DEF Init
  <2>4. preferRemote \in Remote /\ preferCallback \in Sender \cup {None}
    BY DEF Init, Remote
  <2>5. slotCounter \in Slot /\ checkCounter \in Slot
    BY <2>1 DEF Init
  <2> QED BY <1>1, <2>2, <2>3, <2>4, <2>5 DEF TypeOK
<1> QED BY <1>1, <1>2 DEF Init, IInv, Checked, PreferInv, IdleInv

LEMMA OtherSlot == \A s \in Slot : NextSlot(s) = 1 - s /\ NextSlot(s) \in Slot
BY DEF Slot, NextSlot

\* A datagram sets the times of a forwarder and changes nothing else of it.
LEMMA ResetType ==
  ASSUME NEW f \in Forwarder
  PROVE  LET g == Timed(f, NotSet, 0)
         IN  /\ g \in Forwarder /\ g.slot = f.slot /\ g.prefer = f.prefer
             /\ g.time = NotSet /\ g.idle = 0
BY DEF Timed, Forwarder, NotSet

\* What a second makes of a forwarder that is not freed keeps its type and its
\* phase, the next check being of the other slot.
LEMMA MarkedAged ==
  ASSUME TypeOK, NEW f \in Forwarder, PhaseOK(f), ~ TimedOut(Aged(f))
  PROVE  LET g == Marked(Aged(f))
         IN  /\ g \in Forwarder /\ g.prefer = f.prefer
             /\ g.time = NotSet => g.idle <= IF g.slot = 1 - checkCounter THEN 1 ELSE 0
             /\ g.time # NotSet =>
                  /\ g.time <= g.idle /\ g.idle <= g.time + 2
                  /\ g.time <= IF g.slot = 1 - checkCounter THEN Timeout + 1 ELSE Timeout
<1> DEFINE h == Aged(f)
           g == Marked(h)
<1>1. /\ h \in Forwarder /\ h.slot = f.slot /\ h.prefer = f.prefer /\ h.idle = f.idle + 1
      /\ h.time = IF f.time = NotSet THEN NotSet ELSE f.time + 1
  <2>1. f.time \in Nat \cup {NotSet} /\ f.idle \in Nat
    BY DEF Forwarder
  <2>2. (IF f.time = NotSet THEN NotSet ELSE f.time + 1) \in Nat \cup {NotSet} /\ f.idle + 1 \in Nat
    BY <2>1
  <2> QED BY <2>2 DEF Aged, Timed, Forwarder
<1>2. /\ g \in Forwarder /\ g.slot = h.slot /\ g.prefer = h.prefer /\ g.idle = h.idle
      /\ g.time = IF h.slot = checkCounter /\ h.time = NotSet THEN 0 ELSE h.time
  <2> HIDE DEF h
  <2>1. h.idle \in Nat
    BY <1>1 DEF Forwarder
  <2> QED BY <1>1, <2>1 DEF Marked, Timed, Forwarder
<1>3. /\ f.slot \in 0 .. 1 /\ checkCounter \in 0 .. 1 /\ f.idle \in Nat
      /\ f.time \in Nat \cup {-1} /\ ~ (h.slot = checkCounter /\ h.time # -1 /\ h.time > Timeout)
  BY DEF TypeOK, Forwarder, Slot, NotSet, TimedOut
<1> HIDE DEF g, h
<1>4. CASE f.time = NotSet
  BY <1>1, <1>2, <1>3, <1>4, TimeoutNat DEF PhaseOK, NotSet, g, h
<1>5. CASE f.time # NotSet
  BY <1>1, <1>2, <1>3, <1>5, TimeoutNat DEF PhaseOK, NotSet, g, h
<1> QED BY <1>4, <1>5

LEMMA KnownStep ==
  ASSUME IInv, NEW a \in Sender, ForwardKnown(a), closed' = closed
  PROVE  IInv'
<1> DEFINE h == Timed(forwardMap[a], NotSet, 0)
<1>1. /\ a \in Senders /\ Senders' = Senders
      /\ forwardMap' = [forwardMap EXCEPT ![a] = h]
  BY DEF ForwardKnown, Senders
<1>2. /\ h \in Forwarder /\ h.prefer = forwardMap[a].prefer /\ h.time = NotSet /\ h.idle = 0
  <2>1. forwardMap[a] \in Forwarder
    BY <1>1 DEF IInv, TypeOK
  <2> QED BY <2>1, ResetType
<1>3. \A b \in Senders : forwardMap'[b] = IF b = a THEN h ELSE forwardMap[b]
  BY <1>1 DEF IInv, TypeOK
<1> HIDE DEF h
<1>4. TypeOK'
  BY <1>1, <1>2 DEF IInv, TypeOK, ForwardKnown
<1>5. Checked' /\ PreferInv'
  BY <1>1, <1>2, <1>3 DEF IInv, Checked, PreferInv, ForwardKnown
<1>6. IdleInv'
  BY <1>1, <1>2, <1>3 DEF IInv, IdleInv, PhaseOK, ForwardKnown
<1> QED BY <1>4, <1>5, <1>6 DEF IInv

LEMMA NewStep ==
  ASSUME IInv, NEW a \in Sender, ForwardNew(a), closed' = closed
  PROVE  IInv'
<1>1. NewForwarder(Lend) \in Forwarder
  BY DEF IInv, TypeOK, NewForwarder, Forwarder, Lend, Remote, NotSet
<1>2. Senders' = Senders \cup {a}
  BY DEF ForwardNew, Senders
<1>3. \A b \in Senders' : forwardMap'[b] = IF b = a THEN NewForwarder(Lend) ELSE forwardMap[b]
  BY <1>2 DEF ForwardNew
<1>4. TypeOK'
  BY <1>1, <1>2, OtherSlot DEF IInv, TypeOK, ForwardNew, Lend, Senders
<1>5. Checked'
  <2>1. CASE Senders = {}
    <3>1. Cardinality(Senders') = 1
      BY <2>1, <1>2, FS_Singleton
    <3> QED BY <3>1 DEF ForwardNew, Checked, FirstOf
  <2>2. CASE Senders # {}
    BY <2>2 DEF IInv, Checked, ForwardNew
  <2> QED BY <2>1, <2>2
<1>6. PreferInv'
  <2>1. NewForwarder(Lend).prefer = Lend
    BY DEF NewForwarder
  <2>2. a \notin Senders
    BY DEF ForwardNew
  <2>3. CASE Lend
    <3>1. preferSockRef' = 1 /\ preferCallback' = a
      BY <2>3 DEF ForwardNew, Lend
    <3>2. \A b \in Senders : ~ forwardMap[b].prefer
      BY <2>3 DEF IInv, PreferInv, Lend
    <3>3. \A b \in Senders' : forwardMap'[b].prefer <=> b = a
      BY <2>1, <2>2, <2>3, <1>2, <1>3, <3>2
    <3> QED BY <3>1, <3>3, <1>2 DEF PreferInv
  <2>4. CASE ~ Lend
    BY <2>1, <2>2, <2>4, <1>2, <1>3 DEF IInv, PreferInv, ForwardNew, Lend
  <2> QED BY <2>3, <2>4
<1>7. IdleInv'
  <2>1. NewForwarder(Lend).time = NotSet /\ NewForwarder(Lend).idle = 0
    BY DEF NewForwarder
  <2>2. checkCounter' = checkCounter
    BY DEF ForwardNew
  <2> QED BY <2>1, <2>2, <1>2, <1>3 DEF IInv, IdleInv, PhaseOK
<1> QED BY <1>4, <1>5, <1>6, <1>7 DEF IInv

\* Failures leave no forwarder behind; the preferred socket's callback changes
\* only while nobody has it.
LEMMA FailStep ==
  ASSUME IInv, NEW a \in Sender, BindFails(a) \/ KickFails(a), closed' = closed
  PROVE  IInv'
<1>1. TypeOK'
  BY OtherSlot DEF IInv, TypeOK, BindFails, KickFails, Senders
<1>2. Checked' /\ IdleInv'
  BY DEF IInv, Checked, IdleInv, PhaseOK, BindFails, KickFails, Senders
<1>3. PreferInv'
  BY DEF IInv, PreferInv, BindFails, KickFails, Senders, Lend
<1> QED BY <1>1, <1>2, <1>3 DEF IInv

LEMMA RecvStep ==
  ASSUME IInv, NEW a \in Sender, NEW r \in Remote, onForwarderRecv(a, r)
  PROVE  IInv'
<1> DEFINE f == forwardMap[a]
           g == IF r = f.to THEN Timed(f, NotSet, 0) ELSE f
           h == IF f.prefer THEN g ELSE [g EXCEPT !.remote = r]
<1>1. /\ a \in Senders /\ Senders' = Senders
      /\ forwardMap' = [forwardMap EXCEPT ![a] = h]
  BY DEF onForwarderRecv, Senders
<1>2. f \in Forwarder
  BY <1>1 DEF IInv, TypeOK
<1>g. /\ g \in Forwarder /\ g.prefer = f.prefer /\ g.slot = f.slot
      /\ (g.time = NotSet /\ g.idle = 0) \/ (g.time = f.time /\ g.idle = f.idle)
  <2> HIDE DEF f
  <2> QED BY <1>2, ResetType
<1>h. /\ h \in Forwarder /\ h.prefer = g.prefer /\ h.slot = g.slot
      /\ h.time = g.time /\ h.idle = g.idle
  <2> HIDE DEF g
  <2> QED BY <1>g DEF Forwarder
<1>3. h \in Forwarder /\ h.prefer = f.prefer /\ h.slot = f.slot
  BY <1>g, <1>h
<1>4. (h.time = NotSet /\ h.idle = 0) \/ (h.time = f.time /\ h.idle = f.idle)
  BY <1>g, <1>h
<1>5. \A b \in Senders : forwardMap'[b] = IF b = a THEN h ELSE forwardMap[b]
  BY <1>1 DEF IInv, TypeOK
<1> HIDE DEF f, g, h
<1>6. TypeOK'
  BY <1>1, <1>3 DEF IInv, TypeOK, onForwarderRecv
<1>7. Checked' /\ PreferInv'
  BY <1>1, <1>3, <1>5 DEF IInv, Checked, PreferInv, onForwarderRecv, f
<1>8. IdleInv'
  <2>1. PhaseOK(h)
    BY <1>1, <1>3, <1>4 DEF IInv, IdleInv, PhaseOK, f
  <2>2. checkCounter' = checkCounter
    BY DEF onForwarderRecv
  <2> QED BY <1>1, <1>5, <2>1, <2>2 DEF IInv, IdleInv, PhaseOK
<1> QED BY <1>6, <1>7, <1>8 DEF IInv

\* How many of the freed forwarders had the preferred socket.
LEMMA Returned ==
  ASSUME PreferInv, preferSockRef \in Int, NEW F \in SUBSET Senders
  PROVE  LET P == {a \in F : forwardMap[a].prefer}
         IN  Cardinality(P) = IF preferSockRef = 1 /\ preferCallback \in F THEN 1 ELSE 0
<1> DEFINE P == {a \in F : forwardMap[a].prefer}
<1>1. CASE preferSockRef = 1 /\ preferCallback \in F
  <2>1. P = {preferCallback}
    BY <1>1 DEF PreferInv
  <2> QED BY <2>1, <1>1, FS_Singleton
<1>2. CASE ~ (preferSockRef = 1 /\ preferCallback \in F)
  <2>1. P = {}
    BY <1>2 DEF PreferInv
  <2> QED BY <2>1, <1>2, FS_EmptySet
<1> QED BY <1>1, <1>2

LEMMA CheckStep ==
  ASSUME IInv, timeToCheck
  PROVE  IInv'
<1> DEFINE F == {a \in Senders : TimedOut(Aged(forwardMap[a]))}
           m == [a \in Senders |-> Marked(Aged(forwardMap[a]))]
<1>1. /\ freeFoward(F, m) /\ listed' = (Senders \ F # {})
      /\ checkCounter' = NextSlot(checkCounter) /\ preferCallback' = preferCallback
  BY DEF timeToCheck
<1>c. checkCounter' = 1 - checkCounter
  BY <1>1, OtherSlot DEF IInv, TypeOK
<1>2. /\ Senders' = Senders \ F
      /\ \A a \in Senders' : forwardMap'[a] = Marked(Aged(forwardMap[a]))
  BY <1>1 DEF freeFoward, Senders
<1>3. \A a \in Senders' :
        /\ forwardMap'[a] \in Forwarder /\ forwardMap'[a].prefer = forwardMap[a].prefer
        /\ PhaseOK(forwardMap[a])'
  <2> TAKE a \in Senders'
  <2>1. /\ a \in Senders /\ forwardMap[a] \in Forwarder /\ PhaseOK(forwardMap[a])
        /\ ~ TimedOut(Aged(forwardMap[a]))
    BY <1>2 DEF IInv, IdleInv, TypeOK
  <2>2. TypeOK
    BY DEF IInv
  <2> QED BY <1>c, <1>2, <2>1, <2>2, MarkedAged DEF PhaseOK
<1>4. {a \in F : m[a].prefer} = {a \in F : forwardMap[a].prefer}
  <2>1. ASSUME NEW a \in F PROVE m[a].prefer = forwardMap[a].prefer
    BY DEF Marked, Aged, Timed
  <2> QED BY <2>1
<1>5. preferSockRef' = preferSockRef - IF preferSockRef = 1 /\ preferCallback \in F THEN 1 ELSE 0
  <2>1. preferSockRef \in Int /\ PreferInv /\ F \in SUBSET Senders
    BY DEF IInv, TypeOK
  <2>2. preferSockRef' = preferSockRef - Cardinality({a \in F : m[a].prefer})
    BY <1>1 DEF freeFoward
  <2> HIDE DEF F, m
  <2> QED BY <2>1, <2>2, <1>4, Returned
<1>6. TypeOK'
  <2>1. forwardMap' \in [Senders' -> Forwarder]
    BY <1>1, <1>2, <1>3 DEF freeFoward, Senders
  <2> QED BY <1>1, <1>2, <1>5, <2>1, OtherSlot DEF IInv, TypeOK, timeToCheck
<1>7. Checked'
  BY <1>1, <1>2 DEF Checked
<1>8. PreferInv'
  <2> HIDE DEF F
  <2> QED BY <1>1, <1>2, <1>3, <1>5 DEF IInv, PreferInv
<1>9. IdleInv'
  BY <1>3 DEF IdleInv
<1> QED BY <1>6, <1>7, <1>8, <1>9 DEF IInv

LEMMA NotCheckedStep ==
  ASSUME IInv, NotChecked
  PROVE  IInv'
<1>1. Senders = {}
  BY DEF IInv, Checked, NotChecked
<1>2. Senders' = {}
  BY <1>1 DEF NotChecked, Senders
<1> QED BY <1>1, <1>2 DEF IInv, TypeOK, Checked, PreferInv, IdleInv, NotChecked, Senders

LEMMA CloseStep ==
  ASSUME IInv, close
  PROVE  IInv'
<1>1. /\ forwardMap' = [a \in Senders \ Senders |-> forwardMap[a]]
      /\ preferSockRef' = preferSockRef - Cardinality({a \in Senders : forwardMap[a].prefer})
  BY DEF close, freeFoward, Senders
<1>2. Senders' = {}
  BY <1>1 DEF Senders
<1>3. preferSockRef' = 0
  <2>1. preferSockRef \in Int /\ PreferInv /\ Senders \in SUBSET Senders
    BY DEF IInv, TypeOK
  <2> QED BY <1>1, <2>1, Returned DEF PreferInv
<1> QED
  BY <1>1, <1>2, <1>3 DEF IInv, TypeOK, Checked, PreferInv, IdleInv, close, Senders

LEMMA NextInv == IInv /\ [Next]_vars => IInv'
<1> SUFFICES ASSUME IInv, [Next]_vars PROVE IInv'
  OBVIOUS
<1>1. ASSUME NEW a \in Sender, onSocketRecvDataReady(a) PROVE IInv'
  BY <1>1, KnownStep, NewStep, FailStep DEF onSocketRecvDataReady
<1>2. ASSUME NEW a \in Sender, NEW r \in Remote, onForwarderRecv(a, r) PROVE IInv'
  BY <1>2, RecvStep
<1>3. CASE UNCHANGED vars
  BY <1>3 DEF vars, IInv, TypeOK, Checked, PreferInv, IdleInv, PhaseOK, Senders
<1> QED BY <1>1, <1>2, <1>3, CheckStep, NotCheckedStep, CloseStep DEF Next
-----------------------------------------------------------------------------
LEMMA Implied == IInv => Checked /\ PreferLentOnce /\ IdleBound
<1> SUFFICES ASSUME IInv PROVE PreferLentOnce /\ IdleBound
  BY DEF IInv
<1>1. IdleBound
  BY TimeoutNat DEF IInv, TypeOK, IdleInv, PhaseOK, IdleBound, Forwarder, NotSet
<1>2. PreferLentOnce
  <2>1. preferSockRef \in Int /\ PreferInv /\ Senders \in SUBSET Senders
    BY DEF IInv, TypeOK
  <2>2. preferSockRef = Cardinality({a \in Senders : forwardMap[a].prefer})
    BY <2>1, Returned DEF PreferInv
  <2> QED BY <2>1, <2>2 DEF PreferInv, PreferLentOnce
<1> QED BY <1>1, <1>2

\* The inductive invariant holds of the bridge.
THEOREM InvHolds == Spec => []IInv
BY InitInv, NextInv, PTL DEF Spec

\* The bridge's state keeps its type for every set of senders and every Timeout.
THEOREM BridgeTypeCorrect == Spec => []TypeOK
<1>1. IInv => TypeOK
  BY DEF IInv
<1> QED BY <1>1, InvHolds, PTL

\* A bridge with forwarders is on the check list.
THEOREM CheckedAlways == Spec => []Checked
BY InvHolds, Implied, PTL

\* The preferred socket is counted right and never has the callback of a freed
\* forwarder while it is lent.
THEOREM PreferLentOnceAlways == Spec => []PreferLentOnce
BY InvHolds, Implied, PTL

\* timeToCheck frees every forwarder within Timeout + 3 seconds of silence.
THEOREM IdleBoundAlways == Spec => []IdleBound
BY InvHolds, Implied, PTL

\* Only timeToCheck and close free forwarders, and timeToCheck only those whose
\* mark, and with it whose silence, is older than Timeout.
LEMMA FreedStep ==
  ASSUME IInv, [Next]_vars
  PROVE  closed' \/ \A a \in Senders : a \in Senders' \/ forwardMap[a].idle >= Timeout
<1>1. CASE timeToCheck
  <2> SUFFICES ASSUME NEW a \in Senders, a \notin Senders' PROVE forwardMap[a].idle >= Timeout
    OBVIOUS
  <2>1. TimedOut(Aged(forwardMap[a]))
    BY <1>1 DEF timeToCheck, freeFoward, Senders
  <2>2. forwardMap[a].time # NotSet /\ forwardMap[a].time + 1 > Timeout
    BY <2>1 DEF TimedOut, Aged, Timed, NotSet
  <2>3. PhaseOK(forwardMap[a]) /\ forwardMap[a] \in Forwarder
    BY DEF IInv, TypeOK, IdleInv
  <2> QED BY <2>2, <2>3, TimeoutNat DEF PhaseOK, Forwarder, NotSet
<1>2. ASSUME NEW a \in Sender, onSocketRecvDataReady(a) PROVE Senders \subseteq Senders'
  BY <1>2 DEF onSocketRecvDataReady, ForwardKnown, ForwardNew, BindFails, KickFails, Senders
<1>3. ASSUME NEW a \in Sender, NEW r \in Remote, onForwarderRecv(a, r) PROVE Senders' = Senders
  BY <1>3 DEF onForwarderRecv, Senders
<1>4. CASE NotChecked
  BY <1>4 DEF NotChecked, Senders
<1>5. CASE close
  BY <1>5 DEF close
<1>6. CASE UNCHANGED vars
  BY <1>6 DEF vars, Senders
<1> QED BY <1>1, <1>2, <1>3, <1>4, <1>5, <1>6 DEF Next

\* Before the bridge is closed, timeToCheck frees a forwarder only after more
\* than Timeout seconds of silence.
THEOREM FreedOnlyIdleAlways == Spec => FreedOnlyIdle
BY InvHolds, FreedStep, PTL DEF Spec, FreedOnlyIdle

\* Only a datagram on its own socket redirects a sender: the others leave its
\* addresses alone, and the preferred socket has no other borrower.
LEMMA RedirectStep ==
  ASSUME IInv, [Next]_vars, NEW a \in Senders, a \in Senders', SendsTo(a)' # SendsTo(a)
  PROVE  \E r \in Remote : onForwarderRecv(a, r)
<1> DEFINE Same(b) == forwardMap'[b].prefer = forwardMap[b].prefer /\ forwardMap'[b].remote = forwardMap[b].remote
<1>0. a \in Sender /\ forwardMap[a] \in Forwarder
  BY DEF IInv, TypeOK
<1>1. ASSUME Same(a), preferRemote' = preferRemote PROVE FALSE
  BY <1>1 DEF SendsTo
<1>2. ASSUME NEW b \in Sender, onSocketRecvDataReady(b) PROVE Same(a) /\ preferRemote' = preferRemote
  <2>1. CASE ForwardKnown(b)
    <3>1. forwardMap' = [forwardMap EXCEPT ![b] = Timed(forwardMap[b], NotSet, 0)]
      BY <2>1 DEF ForwardKnown
    <3>2. forwardMap'[a] = IF a = b THEN Timed(forwardMap[b], NotSet, 0) ELSE forwardMap[a]
      BY <3>1 DEF Senders
    <3> QED BY <2>1, <3>2 DEF ForwardKnown, Timed
  <2>2. CASE ForwardNew(b)
    BY <2>2 DEF ForwardNew
  <2>3. CASE BindFails(b) \/ KickFails(b)
    BY <2>3 DEF BindFails, KickFails
  <2> QED BY <1>2, <2>1, <2>2, <2>3 DEF onSocketRecvDataReady
<1>3. ASSUME NEW b \in Sender, NEW r \in Remote, onForwarderRecv(b, r), b # a PROVE FALSE
  <2>1. forwardMap'[a] = forwardMap[a]
    BY <1>3 DEF onForwarderRecv, Senders
  <2>2. forwardMap[a].prefer => ~ forwardMap[b].prefer
    BY <1>3 DEF IInv, PreferInv, onForwarderRecv
  <2>3. forwardMap[a].prefer => preferRemote' = preferRemote
    BY <1>3, <2>2 DEF onForwarderRecv
  <2> QED BY <2>1, <2>3 DEF SendsTo
<1>4. CASE timeToCheck
  <2> DEFINE F == {b \in Senders : TimedOut(Aged(forwardMap[b]))}
             m == [b \in Senders |-> Marked(Aged(forwardMap[b]))]
  <2>1. freeFoward(F, m) /\ preferRemote' = preferRemote
    BY <1>4 DEF timeToCheck
  <2>2. forwardMap' = [b \in DOMAIN m \ F |-> m[b]]
    BY <2>1 DEF freeFoward
  <2>3. forwardMap'[a] = Marked(Aged(forwardMap[a]))
    BY <2>2 DEF Senders
  <2>4. Same(a)
    BY <2>3 DEF Marked, Aged, Timed
  <2> QED BY <2>1, <2>4, <1>1
<1>5. CASE NotChecked
  <2>1. forwardMap'[a] = Aged(forwardMap[a]) /\ preferRemote' = preferRemote
    BY <1>5 DEF NotChecked
  <2> QED BY <2>1, <1>1 DEF Aged, Timed
<1>6. ASSUME close PROVE FALSE
  <2>1. Senders' = {}
    BY <1>6 DEF close, freeFoward, Senders
  <2> QED BY <2>1
<1>7. ASSUME UNCHANGED vars PROVE FALSE
  BY <1>7 DEF vars, SendsTo
<1> QED BY <1>0, <1>1, <1>2, <1>3, <1>4, <1>5, <1>6, <1>7 DEF Next

\* What a sender sends is redirected by datagrams on the socket of its own
\* forwarder only, whatever is lent, freed or fails meanwhile.
THEOREM RedirectedByOwnSocketAlways == Spec => RedirectedByOwnSocket
<1>1. IInv /\ [Next]_vars
        => [\A a \in Senders : a \in Senders' /\ SendsTo(a)' # SendsTo(a)
              => \E r \in Remote : onForwarderRecv(a, r)]_vars
  BY RedirectStep
<1> QED BY <1>1, InvHolds, PTL DEF Spec, RedirectedByOwnSocket

-----------------------------------------------------------------------------
(* The RTMP push client.                                                    *)

\* Socket, session and url belong together.
SessionInv == /\ bev = "none" <=> rtmp = "null"
              /\ bev = "connecting" <=> rtmp = "ready"
              /\ url # "set" => bev = "none"

\* Before the server accepts media nothing is known and nothing was sent.
FreshInv == rtmp \in {"ready", "challenge", "response", "done"} =>
              /\ sps = NoSet /\ pps = NoSet
              /\ remote = NoParams /\ out = Nothing

\* While it does, the parameter sets held are the ones in force, and a
\* complete pair is what the server was sent last.
MetaInv == rtmp = "playing" =>
             /\ sps # NoSet => sps = cur.sps
             /\ pps # NoSet => pps = cur.pps
             /\ sps # NoSet /\ pps # NoSet => remote = [sps |-> sps, pps |-> pps]

ClientInv == /\ ClientTypeOK /\ TimerWhileConnecting /\ SessionInv
             /\ FreshInv /\ MetaInv /\ VideoDecodable

\* The client as evrtmp_client_create makes it.
LEMMA InitOK == ClientInit => ClientInv
<1> SUFFICES ASSUME ClientInit PROVE ClientInv
  OBVIOUS
<1>1. 1 \in 1..Len(File)
  BY FileAssumption
<1>2. ClientTypeOK
  <2>1. evtimer \in BOOLEAN
    BY Zenon DEF ClientInit
  <2>2. 0 \in 0..MaxTry
    BY TryAssumption
  <2> QED
    BY <1>1, <2>1, <2>2 DEF ClientInit, ClientTypeOK, NoParams, Params, Nothing, Packet
<1> QED
  BY <1>2 DEF ClientInit, ClientInv, TimerWhileConnecting, SessionInv, FreshInv,
     MetaInv, VideoDecodable, Nothing, Packet

\* Whatever became of an attempt, kick_connect leaves the client with a timer
\* exactly if it is connecting, and with nothing sent.
LEMMA KickOK ==
  ASSUME ClientInv, NEW tries \in 0..MaxTry, kick_connect(tries), url' = "set",
         UNCHANGED <<pos, cur>>
  PROVE  ClientInv'
<1>1. /\ connect_try' \in 0..MaxTry
      /\ \/ bev' = "connecting" /\ rtmp' = "ready" /\ evtimer' = TRUE
         \/ bev' = "none" /\ rtmp' = "null" /\ evtimer' = FALSE
      /\ \/ sps' = NoSet /\ pps' = NoSet
         \/ sps' = sps /\ pps' = pps /\ rtmp' = "null"
      /\ remote' = NoParams /\ out' = Nothing
  <2>1. CASE Started(tries)
    BY <2>1, TryAssumption DEF Started, kick_connect, xnalu_spspps_reset
  <2>2. CASE StartFails(tries)
    BY <2>2, TryAssumption DEF StartFails, kick_connect, xnalu_spspps_reset, Closed, meta
  <2>3. CASE GivesUp(tries)
    BY <2>3, TryAssumption DEF GivesUp, kick_connect, Closed, meta
  <2> QED
    BY <2>1, <2>2, <2>3 DEF kick_connect
<1>2. ClientTypeOK'
  BY <1>1 DEF ClientInv, ClientTypeOK, NoParams, Params, Nothing, Packet, Session
<1> QED
  BY <1>1, <1>2 DEF ClientInv, TimerWhileConnecting, SessionInv, FreshInv,
     MetaInv, VideoDecodable, Nothing, Packet

\* A client that is closed has no timer and no session.
LEMMA CloseOK ==
  ASSUME ClientInv, evrtmp_client_close \/ evrtmp_client_delete
  PROVE  ClientInv'
<1>1. /\ bev' = "none" /\ rtmp' = "null" /\ evtimer' = FALSE
      /\ url' \in {url, "deleted"} /\ connect_try' = connect_try /\ pos' = pos /\ cur' = cur
      /\ sps' \in {sps, NoSet} /\ pps' \in {pps, NoSet}
      /\ remote' = NoParams /\ out' = Nothing
  BY DEF evrtmp_client_close, evrtmp_client_delete, Closed, xnalu_spspps_reset
<1>2. ClientTypeOK'
  BY <1>1 DEF ClientInv, ClientTypeOK, NoParams, Params, Nothing, Packet
<1> QED
  BY <1>1, <1>2 DEF ClientInv, TimerWhileConnecting, SessionInv, FreshInv,
     MetaInv, VideoDecodable, Nothing, Packet

\* The handshake starts with no timer left and ends with nothing sent yet.
LEMMA AnswerOK ==
  ASSUME ClientInv, Connected \/ Answered \/ SessionClosed
  PROVE  ClientInv'
<1> USE DEF ClientInv, ClientTypeOK, TimerWhileConnecting, SessionInv, FreshInv,
     MetaInv, VideoDecodable, NoParams, Params, Nothing, Packet, Session
<1>1. CASE Connected
  <2>1. ClientTypeOK'
    BY <1>1 DEF Connected
  <2>2. TimerWhileConnecting' /\ SessionInv'
    BY <1>1 DEF Connected
  <2>3. FreshInv'
    BY <1>1 DEF Connected
  <2>4. MetaInv' /\ VideoDecodable'
    BY <1>1 DEF Connected
  <2> QED
    BY <2>1, <2>2, <2>3, <2>4
<1>2. CASE Answered
  BY <1>2 DEF Answered
<1>3. CASE SessionClosed
  BY <1>3 DEF SessionClosed
<1> QED
  BY <1>1, <1>2, <1>3

\* A parameter set replaces the one of its kind, and the other one too if it
\* did: what is held is in force again, and what is complete is sent.
LEMMA MetaOK ==
  ASSUME ClientInv, NEW n \in [type : {"sps", "pps"}, id : Par], rtmp = "playing",
         evrtmp_client_process_meta(n), cur' = InForce(n)
  PROVE  /\ sps' \in Par \cup {NoSet} /\ pps' \in Par \cup {NoSet}
         /\ cur' \in Params /\ remote' \in Params
         /\ out' \in [kind : {"nothing", "config", "video", "dropped", "audio"}, need : Params]
         /\ sps' # NoSet => sps' = cur'.sps
         /\ pps' # NoSet => pps' = cur'.pps
         /\ sps' # NoSet /\ pps' # NoSet => remote' = [sps |-> sps', pps |-> pps']
         /\ VideoDecodable'
<1> DEFINE pair == [sps |-> sps', pps |-> pps']
<1>0. /\ sps \in Par \cup {NoSet} /\ pps \in Par \cup {NoSet}
      /\ cur \in Params /\ remote \in Params
      /\ sps # NoSet => sps = cur.sps
      /\ pps # NoSet => pps = cur.pps
      /\ sps # NoSet /\ pps # NoSet => remote = [sps |-> sps, pps |-> pps]
      /\ out \in [kind : {"nothing", "config", "video", "dropped", "audio"}, need : Params]
      /\ VideoDecodable
  BY DEF ClientInv, ClientTypeOK, MetaInv
<1>1. /\ sps' \in Par \cup {NoSet} /\ pps' \in Par \cup {NoSet}
      /\ cur' \in Params
      /\ sps' # NoSet => sps' = cur'.sps
      /\ pps' # NoSet => pps' = cur'.pps
  <2>1. CASE n.type = "sps"
    BY <1>0, <2>1, ParAssumption DEF evrtmp_client_process_meta, xnalu_spspps_input, Other, InForce, Params
  <2>2. CASE n.type = "pps"
    BY <1>0, <2>2, ParAssumption DEF evrtmp_client_process_meta, xnalu_spspps_input, Other, InForce, Params
  <2> QED
    BY <2>1, <2>2
<1>2. \/ pair \in Params /\ remote' = pair /\ out' = Packet("config", pair)
      \/ /\ remote' = remote /\ out' = out
         /\ meta' = meta \/ sps' = NoSet \/ pps' = NoSet
  BY <1>1 DEF evrtmp_client_process_meta, wire, Params
<1> QED
  BY <1>0, <1>1, <1>2 DEF meta, Packet, VideoDecodable

\* Pushing a NAL unit leaves the connection alone, and the parameter sets in
\* order.
LEMMA NaluOK == ASSUME ClientInv, evrtmp_client_send_nalu PROVE ClientInv'
<1> DEFINE n == File[pos]
<1>1. n \in Nalu /\ pos' \in 1..Len(File)
  BY FileAssumption DEF ClientInv, ClientTypeOK, evrtmp_client_send_nalu
<1>2. UNCHANGED conn /\ cur' = InForce(n)
  BY DEF evrtmp_client_send_nalu
<1>3. cur' \in Params
  BY <1>1, <1>2 DEF ClientInv, ClientTypeOK, InForce, Params, Nalu
<1>4. CASE rtmp # "playing" /\ Ignored
  BY <1>1, <1>2, <1>3, <1>4 DEF Ignored, conn, ClientInv, ClientTypeOK, TimerWhileConnecting,
     SessionInv, FreshInv, MetaInv, VideoDecodable
<1>5. CASE rtmp = "playing" /\ n.type \in {"sps", "pps"} /\ evrtmp_client_process_meta(n)
  <2>1. n \in [type : {"sps", "pps"}, id : Par]
    BY <1>1, <1>5 DEF Nalu
  <2> HIDE DEF n
  <2> QED
    BY <1>1, <1>2, <1>5, <2>1, MetaOK DEF conn, ClientInv, ClientTypeOK, TimerWhileConnecting,
       SessionInv, FreshInv, MetaInv
<1>6. CASE rtmp = "playing" /\ n.type \in {"idr", "slice"} /\ SendPicture
  <2>1. cur' = cur
    BY <1>2, <1>6 DEF InForce
  <2>2. /\ sps' = sps /\ pps' = pps /\ remote' = remote
        /\ \/ out' = Packet("dropped", cur)
           \/ out' = Packet("video", cur) /\ sps # NoSet /\ pps # NoSet
    BY <1>6 DEF SendPicture, xnalu_spspps_exist
  <2>3. sps # NoSet /\ pps # NoSet => remote = cur
    BY <1>6 DEF ClientInv, ClientTypeOK, MetaInv, Params
  <2> QED
    BY <1>1, <1>2, <1>3, <1>6, <2>1, <2>2, <2>3 DEF conn, Packet, ClientInv, ClientTypeOK,
       TimerWhileConnecting, SessionInv, FreshInv, MetaInv, VideoDecodable
<1> QED
  BY <1>4, <1>5, <1>6 DEF evrtmp_client_send_nalu

LEMMA SpeexOK == ASSUME ClientInv, evrtmp_client_send_speex PROVE ClientInv'
BY DEF evrtmp_client_send_speex, conn, Packet, NoParams, Params, ClientInv, ClientTypeOK,
   TimerWhileConnecting, SessionInv, FreshInv, MetaInv, VideoDecodable

\* Every step keeps the inductive invariant.
LEMMA NextOK == ASSUME ClientInv, [ClientNext]_clientVars PROVE ClientInv'
<1>1. CASE evrtmp_client_connect
  BY <1>1, KickOK, TryAssumption DEF evrtmp_client_connect
<1>2. CASE Disconnected \/ conn_timeoutcb
  <2>1. url' = "set" /\ connect_try \in 0..MaxTry
    BY <1>2 DEF Disconnected, conn_timeoutcb, ClientInv, ClientTypeOK, SessionInv, TimerWhileConnecting
  <2> QED
    BY <1>2, <2>1, KickOK DEF Disconnected, conn_timeoutcb
<1>3. CASE UNCHANGED clientVars
  BY <1>3 DEF clientVars, ClientInv, ClientTypeOK, TimerWhileConnecting, SessionInv, FreshInv,
     MetaInv, VideoDecodable
<1> QED
  BY <1>1, <1>2, <1>3, CloseOK, AnswerOK, NaluOK, SpeexOK DEF ClientNext

\* The inductive invariant always holds.
THEOREM ClientInvHolds == ClientSpec => []ClientInv
BY InitOK, NextOK, PTL DEF ClientSpec

\* The client's state keeps its type, connect_try within its three attempts.
THEOREM ClientTypeCorrect == ClientSpec => []ClientTypeOK
<1>1. ClientInv => ClientTypeOK
  BY DEF ClientInv
<1> QED
  BY <1>1, ClientInvHolds, PTL

\* The connect timer runs exactly while a connection is being made.
THEOREM TimerAlways == ClientSpec => []TimerWhileConnecting
<1>1. ClientInv => TimerWhileConnecting
  BY DEF ClientInv
<1> QED
  BY <1>1, ClientInvHolds, PTL

\* No picture is sent without its parameter sets, for every file.
THEOREM VideoDecodableAlways == ClientSpec => []VideoDecodable
<1>1. ClientInv => VideoDecodable
  BY DEF ClientInv
<1> QED
  BY <1>1, ClientInvHolds, PTL

\* A client that has lost its connection for good never gets another.
THEOREM ClosedForGoodAlways == ClientSpec => ClosedForGood
<1>1. ClientInv /\ [ClientNext]_clientVars => [url = "set" /\ bev = "none" => bev' = "none"]_clientVars
  <2> SUFFICES ASSUME ClientInv, ClientNext, url = "set", bev = "none"
               PROVE  bev' = "none"
    BY DEF clientVars
  <2>1. rtmp = "null" /\ ~evtimer
    BY DEF ClientInv, SessionInv, TimerWhileConnecting, ClientTypeOK
  <2> QED
    BY <2>1 DEF ClientNext, evrtmp_client_connect, evrtmp_client_close, evrtmp_client_delete, Closed,
       Connected, Disconnected, conn_timeoutcb, Answered, SessionClosed,
       evrtmp_client_send_nalu, evrtmp_client_send_speex, conn
<1> QED
  BY <1>1, ClientInvHolds, PTL DEF ClientSpec, ClosedForGood
=============================================================================
