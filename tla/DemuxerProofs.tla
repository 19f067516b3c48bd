---------------------------- MODULE DemuxerProofs ---------------------------
(***************************************************************************)
(* Proofs about the two parts of XSWTLVDemuxer that do not share state:    *)
(* Receiver, which flow a packet belongs to and what of it goes into that  *)
(* flow's window, for every well-formed SDP and every packet; and RtpTime, *)
(* the clocks of the flows, for every range of timestamps, every unit of   *)
(* NTP time and all clock rates.                                           *)
(***************************************************************************)
EXTENDS Receiver, RtpTime, SequenceTheorems, WellFoundedInduction, TLAPS

-----------------------------------------------------------------------------
(* Sequences and maps.                                                     *)

\* A sequence, of whatever elements.
IsSeq(s) == \E S : s \in Seq(S)

\* The length of a sequence and its positions.
LEMMA SeqFacts ==
  ASSUME NEW s, IsSeq(s)
  PROVE  Len(s) \in Nat /\ DOMAIN s = 1..Len(s)
  BY LenProperties DEF IsSeq

\* A sequence with one more element.
LEMMA SeqAppend ==
  ASSUME NEW s, IsSeq(s), NEW e
  PROVE  /\ IsSeq(Append(s, e))
         /\ Len(Append(s, e)) = Len(s) + 1
         /\ Len(Append(s, e)) \in Nat
         /\ \A i \in 1..Len(s) : Append(s, e)[i] = s[i]
         /\ Append(s, e)[Len(s) + 1] = e
  <1>1. PICK S : s \in Seq(S)
    BY DEF IsSeq
  <1> DEFINE T == S \cup {e}
  <1>2. s \in Seq(T) /\ e \in T
    BY <1>1, SeqMonotonic
  <1> HIDE DEF T
  <1>3. Append(s, e) \in Seq(T)
    BY <1>2
  <1>4. Len(s) \in Nat
    BY SeqFacts
  <1>5. QED
    BY <1>2, <1>3, <1>4 DEF IsSeq

\* A sequence with another element at one position.
LEMMA SeqExcept ==
  ASSUME NEW s, IsSeq(s), NEW f \in 1..Len(s), NEW e
  PROVE  /\ IsSeq([s EXCEPT ![f] = e])
         /\ Len([s EXCEPT ![f] = e]) = Len(s)
         /\ \A i \in 1..Len(s) : [s EXCEPT ![f] = e][i] = IF i = f THEN e ELSE s[i]
  <1>1. PICK S : s \in Seq(S)
    BY DEF IsSeq
  <1> DEFINE T == S \cup {e}
  <1>2. s \in Seq(T) /\ e \in T
    BY <1>1, SeqMonotonic
  <1> HIDE DEF T
  <1>3. QED
    BY <1>2, ExceptSeq DEF IsSeq

\* Inserting keys into a map.
LEMMA MapInsert ==
  ASSUME NEW map, NEW keys, NEW value
  PROVE  /\ DOMAIN WithNew(map, keys, value) = DOMAIN map \cup keys
         /\ \A k \in DOMAIN map : WithNew(map, keys, value)[k] = map[k]
         /\ \A k \in keys \ DOMAIN map : WithNew(map, keys, value)[k] = value
  BY DEF WithNew

IsSources(r) ==
  /\ r = [flows |-> r.flows, mediaFlows |-> r.mediaFlows, sourceMap |-> r.sourceMap]
  /\ IsSeq(r.flows)

\* The new flow comes last, and nothing else changes.
LEMMA NewFlowAdds ==
  ASSUME NEW r, IsSources(r), NEW type
  PROVE  LET y == NewFlow(r, type) IN
         /\ IsSources(y)
         /\ y.mediaFlows = r.mediaFlows /\ y.sourceMap = r.sourceMap
         /\ Len(y.flows) = Len(r.flows) + 1
         /\ \A i \in 1..Len(r.flows) : y.flows[i] = r.flows[i]
         /\ y.flows[Len(r.flows) + 1] = [type |-> type, main |-> None, ssrcs |-> {}]
  <1> DEFINE e == [type |-> type, main |-> None, ssrcs |-> {}]
             fl == r.flows
             y == NewFlow(r, type)
  <1>1. y = [flows |-> Append(fl, e), mediaFlows |-> r.mediaFlows, sourceMap |-> r.sourceMap]
    BY DEF IsSources, NewFlow
  <1>2. IsSeq(fl)
    BY DEF IsSources
  <1> HIDE DEF e, fl, y
  <1>3. /\ IsSeq(Append(fl, e))
        /\ Len(Append(fl, e)) = Len(fl) + 1
        /\ \A i \in 1..Len(fl) : Append(fl, e)[i] = fl[i]
        /\ Append(fl, e)[Len(fl) + 1] = e
    BY <1>2, SeqAppend
  <1>4. y.flows = Append(fl, e)
    BY <1>1
  <1>5. IsSources(y) /\ y.mediaFlows = r.mediaFlows /\ y.sourceMap = r.sourceMap
    BY <1>1, <1>3, <1>4 DEF IsSources
  <1>6. QED
    BY <1>3, <1>4, <1>5 DEF fl, e, y

\* Adding sources changes the media of no flow and no source there was.
LEMMA AddSourcesAdds ==
  ASSUME NEW r, IsSources(r), NEW ssrcs, NEW mline, NEW f \in 1..Len(r.flows)
  PROVE  LET y == AddSources(r, ssrcs, mline, f) IN
         /\ IsSources(y)
         /\ y.mediaFlows = r.mediaFlows
         /\ y.sourceMap = WithNew(r.sourceMap, ssrcs, [flow |-> f, mline |-> mline])
         /\ Len(y.flows) = Len(r.flows)
         /\ \A i \in 1..Len(r.flows) : y.flows[i].type = r.flows[i].type
  <1> DEFINE fl == r.flows
             e == [fl[f] EXCEPT !.ssrcs = @ \cup ssrcs]
             v == [flow |-> f, mline |-> mline]
             y == AddSources(r, ssrcs, mline, f)
             z == [fl EXCEPT ![f] = e]
             w == WithNew(r.sourceMap, ssrcs, v)
  <1>1. e.type = fl[f].type
    BY DEF e
  <1>2. IsSeq(fl) /\ f \in 1..Len(fl)
    BY DEF IsSources
  <1>3. y = [r EXCEPT !.flows = z, !.sourceMap = w]
    BY DEF AddSources
  <1> HIDE DEF y, z, w
  <1>4. y = [flows |-> z, mediaFlows |-> r.mediaFlows, sourceMap |-> w]
    BY <1>3 DEF IsSources
  <1>5. IsSeq(z) /\ Len(z) = Len(fl) /\ \A i \in 1..Len(fl) : z[i] = IF i = f THEN e ELSE fl[i]
    <2> HIDE DEF e, fl
    <2>1. IsSeq(z)
      BY <1>2, SeqExcept DEF z
    <2>2. Len(z) = Len(fl)
      BY <1>2, SeqExcept DEF z
    <2>3. \A i \in 1..Len(fl) : z[i] = IF i = f THEN e ELSE fl[i]
      BY <1>2, SeqFacts DEF z
    <2>4. QED
      BY <2>1, <2>2, <2>3
  <1>6. \A i \in 1..Len(fl) : z[i].type = fl[i].type
    BY <1>5, <1>1
  <1>7. IsSources(y) /\ y.mediaFlows = r.mediaFlows /\ y.sourceMap = w /\ y.flows = z
    BY <1>4, <1>5 DEF IsSources
  <1>8. QED
    BY <1>5, <1>6, <1>7 DEF fl, v, y, w

-----------------------------------------------------------------------------
(* What of an SDP was worked off.                                          *)

\* The ssrcs of a group are in one flow.
OneFlow(r, group) == \A s, t \in group : r.sourceMap[s].flow = r.sourceMap[t].flow

\* Every source is in a flow of the medium of its m-line.
Placed(sdp, r) ==
  \A s \in DOMAIN r.sourceMap :
    /\ r.sourceMap[s].flow \in 1..Len(r.flows)
    /\ r.sourceMap[s].mline \in 1..Len(sdp)
    /\ r.flows[r.sourceMap[s].flow].type = sdp[r.sourceMap[s].mline].type

\* The first n m-lines have a flow of their medium.
Lined(sdp, r, n) ==
  /\ IsSeq(r.mediaFlows) /\ Len(r.mediaFlows) = n
  /\ \A i \in 1..n : /\ r.mediaFlows[i] \in 1..Len(r.flows)
                     /\ r.flows[r.mediaFlows[i]].type = sdp[i].type

\* n m-lines are done, and of the next one a groups.
Partial(sdp, r, n, a) ==
  /\ IsSources(r) /\ Placed(sdp, r) /\ Lined(sdp, r, n)
  /\ \A s : s \in DOMAIN r.sourceMap <=> \/ \E i \in 1..n : s \in NamedBy(sdp[i])
                                         \/ \E g \in 1..a : s \in sdp[n + 1].fid[g]
  /\ \A i \in 1..n : \A g \in 1..Len(sdp[i].fid) : OneFlow(r, sdp[i].fid[g])
  /\ \A g \in 1..a : OneFlow(r, sdp[n + 1].fid[g])

\* y has the flows and sources of r, and maybe more.
More(r, y) ==
  /\ IsSources(r) /\ IsSources(y)
  /\ Len(r.flows) <= Len(y.flows)
  /\ \A i \in 1..Len(r.flows) : y.flows[i].type = r.flows[i].type
  /\ \A s \in DOMAIN r.sourceMap : s \in DOMAIN y.sourceMap /\ y.sourceMap[s] = r.sourceMap[s]

\* Sources stay in flows of their medium, and groups in one flow, when more is added.
LEMMA MoreKeeps ==
  ASSUME NEW sdp, NEW r, NEW y, More(r, y), Placed(sdp, r)
  PROVE  /\ \A s \in DOMAIN r.sourceMap :
              /\ y.sourceMap[s].flow \in 1..Len(y.flows)
              /\ y.sourceMap[s].mline \in 1..Len(sdp)
              /\ y.flows[y.sourceMap[s].flow].type = sdp[y.sourceMap[s].mline].type
         /\ \A group : group \subseteq DOMAIN r.sourceMap /\ OneFlow(r, group) => OneFlow(y, group)
         /\ \A f \in 1..Len(r.flows) : f \in 1..Len(y.flows)
  <1>1. Len(r.flows) \in Nat /\ Len(y.flows) \in Nat /\ Len(r.flows) <= Len(y.flows)
    BY SeqFacts DEF More, IsSources
  <1>2. \A f \in 1..Len(r.flows) : f \in 1..Len(y.flows)
    BY <1>1
  <1>3. ASSUME NEW s \in DOMAIN r.sourceMap
        PROVE  /\ y.sourceMap[s].flow \in 1..Len(y.flows)
               /\ y.sourceMap[s].mline \in 1..Len(sdp)
               /\ y.flows[y.sourceMap[s].flow].type = sdp[y.sourceMap[s].mline].type
    BY <1>2 DEF More, Placed
  <1>4. ASSUME NEW group, group \subseteq DOMAIN r.sourceMap, OneFlow(r, group)
        PROVE  OneFlow(y, group)
    <2>1. ASSUME NEW s \in group, NEW t \in group
          PROVE  y.sourceMap[s].flow = y.sourceMap[t].flow
      <3>1. y.sourceMap[s] = r.sourceMap[s] /\ y.sourceMap[t] = r.sourceMap[t]
        BY <1>4 DEF More
      <3>2. QED
        BY <3>1, <1>4 DEF OneFlow
    <2>2. QED
      BY <2>1 DEF OneFlow
  <1>5. QED
    BY <1>2, <1>3, <1>4

\* A new flow with sources.
LEMMA FlowWithSources ==
  ASSUME NEW r, IsSources(r), NEW type, NEW ssrcs, NEW mline
  PROVE  LET f == Len(r.flows) + 1
             y == AddSources(NewFlow(r, type), ssrcs, mline, f)
         IN  /\ More(r, y)
             /\ y.mediaFlows = r.mediaFlows
             /\ DOMAIN y.sourceMap = DOMAIN r.sourceMap \cup ssrcs
             /\ \A s \in ssrcs \ DOMAIN r.sourceMap : y.sourceMap[s] = [flow |-> f, mline |-> mline]
             /\ f \in 1..Len(y.flows) /\ y.flows[f].type = type
             /\ Len(NewFlow(r, type).flows) = f
  <1> DEFINE f == Len(r.flows) + 1
             x == NewFlow(r, type)
             y == AddSources(x, ssrcs, mline, f)
             v == [flow |-> f, mline |-> mline]
  <1>1. Len(r.flows) \in Nat
    BY SeqFacts DEF IsSources
  <1>2. /\ IsSources(x) /\ x.mediaFlows = r.mediaFlows /\ x.sourceMap = r.sourceMap
        /\ Len(x.flows) = f
        /\ \A i \in 1..Len(r.flows) : x.flows[i] = r.flows[i]
    BY NewFlowAdds
  <1>3. x.flows[f].type = type
    <2>1. x.flows[f] = [type |-> type, main |-> None, ssrcs |-> {}]
      BY NewFlowAdds
    <2>2. QED
      BY <2>1
  <1>4. f \in 1..f
    BY <1>1
  <1> HIDE DEF x
  <1>5. f \in 1..Len(x.flows)
    BY <1>2, <1>4
  <1>6. /\ IsSources(y) /\ y.mediaFlows = x.mediaFlows
        /\ y.sourceMap = WithNew(x.sourceMap, ssrcs, v)
        /\ Len(y.flows) = Len(x.flows)
        /\ \A i \in 1..Len(x.flows) : y.flows[i].type = x.flows[i].type
    BY <1>2, <1>5, AddSourcesAdds
  <1> HIDE DEF y, v
  <1>7. /\ DOMAIN y.sourceMap = DOMAIN r.sourceMap \cup ssrcs
        /\ \A s \in DOMAIN r.sourceMap : y.sourceMap[s] = r.sourceMap[s]
        /\ \A s \in ssrcs \ DOMAIN r.sourceMap : y.sourceMap[s] = v
    <2> DEFINE map == r.sourceMap
               w == WithNew(map, ssrcs, v)
    <2>1. y.sourceMap = w
      BY <1>2, <1>6
    <2> HIDE DEF map
    <2>2. DOMAIN w = DOMAIN map \cup ssrcs
      BY MapInsert
    <2>3. \A k \in DOMAIN map : w[k] = map[k]
      BY DEF WithNew
    <2>4. \A k \in ssrcs \ DOMAIN map : w[k] = v
      BY MapInsert
    <2>5. QED
      BY <2>1, <2>2, <2>3, <2>4 DEF map
  <1>8. Len(y.flows) = f /\ \A i \in 1..Len(r.flows) : y.flows[i].type = r.flows[i].type
    BY <1>1, <1>2, <1>6
  <1>9. y.flows[f].type = type
    BY <1>2, <1>3, <1>4, <1>6
  <1>10. More(r, y)
    BY <1>1, <1>6, <1>7, <1>8 DEF More
  <1>11. QED
    BY <1>1, <1>2, <1>4, <1>6, <1>7, <1>8, <1>9, <1>10 DEF x, y, v

-----------------------------------------------------------------------------
(* One step.                                                               *)

\* One more FID group: its ssrcs are new, so that they all go into its flow.
LEMMA GroupStep ==
  ASSUME NEW sdp, WellFormed(sdp), NEW n \in Nat, n < Len(sdp), NEW a \in Nat,
         a < Len(sdp[n + 1].fid), NEW r, Partial(sdp, r, n, a)
  PROVE  Partial(sdp, AddGroup(r, n + 1, sdp[n + 1].type, sdp[n + 1].fid[a + 1]), n, a + 1)
  <1> DEFINE m == sdp[n + 1]
             new == m.fid[a + 1]
             f == Len(r.flows) + 1
             v == [flow |-> f, mline |-> n + 1]
             y == AddGroup(r, n + 1, m.type, new)
  <1>1. n + 1 \in 1..Len(sdp) /\ a + 1 \in 1..Len(m.fid) /\ Len(sdp) \in Nat
    <2>1. IsSeq(sdp) /\ IsSeq(m.fid)
      <3>1. IsSeq(sdp)
        BY DEF WellFormed, IsSeq
      <3>2. n + 1 \in 1..Len(sdp)
        BY <3>1, SeqFacts
      <3>3. QED
        BY <3>1, <3>2 DEF WellFormed, IsSeq
    <2>2. QED
      BY <2>1, SeqFacts
  <1>2. IsSources(r)
    BY DEF Partial
  <1>3. /\ More(r, y) /\ y.mediaFlows = r.mediaFlows
        /\ DOMAIN y.sourceMap = DOMAIN r.sourceMap \cup new
        /\ \A s \in new \ DOMAIN r.sourceMap : y.sourceMap[s] = v
        /\ f \in 1..Len(y.flows) /\ y.flows[f].type = m.type
    <2> HIDE DEF m, new
    <2>1. Len(NewFlow(r, m.type).flows) = f
      BY <1>2, FlowWithSources
    <2>2. y = AddSources(NewFlow(r, m.type), new, n + 1, f)
      BY <2>1 DEF AddGroup
    <2> HIDE DEF y
    <2>3. QED
      BY <1>2, <2>2, FlowWithSources
  <1>4. new \cap DOMAIN r.sourceMap = {}
    <2> SUFFICES ASSUME NEW s \in new, s \in DOMAIN r.sourceMap PROVE FALSE
      OBVIOUS
    <2>1. s \in NamedBy(m)
      <3>1. new \in Range(m.fid)
        <4>1. IsSeq(m.fid)
          BY <1>1 DEF WellFormed, IsSeq
        <4>2. QED
          BY <4>1, <1>1, SeqFacts DEF Range
      <3>2. QED
        BY <3>1 DEF NamedBy
    <2>2. CASE \E i \in 1..n : s \in NamedBy(sdp[i])
      <3>1. PICK i \in 1..n : s \in NamedBy(sdp[i])
        BY <2>2
      <3>2. i \in 1..Len(sdp) /\ i # n + 1
        BY <1>1
      <3>3. NamedBy(sdp[i]) \cap NamedBy(sdp[n + 1]) = {}
        BY <3>2, <1>1 DEF WellFormed
      <3>4. QED
        BY <2>1, <3>1, <3>3
    <2>3. CASE \E g \in 1..a : s \in m.fid[g]
      <3>1. PICK g \in 1..a : s \in m.fid[g]
        BY <2>3
      <3>2. g \in 1..Len(m.fid) /\ g # a + 1
        BY <1>1
      <3>3. m.fid[g] \cap m.fid[a + 1] = {}
        BY <3>2, <1>1 DEF WellFormed
      <3>4. QED
        BY <3>1, <3>3
    <2>4. QED
      BY <2>2, <2>3 DEF Partial
  <1> HIDE DEF y, f, v
  <1>5. Placed(sdp, r)
    BY DEF Partial
  <1>6. /\ \A s \in DOMAIN r.sourceMap :
              /\ y.sourceMap[s].flow \in 1..Len(y.flows)
              /\ y.sourceMap[s].mline \in 1..Len(sdp)
              /\ y.flows[y.sourceMap[s].flow].type = sdp[y.sourceMap[s].mline].type
        /\ \A group : group \subseteq DOMAIN r.sourceMap /\ OneFlow(r, group) => OneFlow(y, group)
        /\ \A i \in 1..Len(r.flows) : i \in 1..Len(y.flows)
    BY <1>3, <1>5, MoreKeeps
  <1>7. Placed(sdp, y)
    <2>1. ASSUME NEW s \in new
          PROVE  /\ y.sourceMap[s].flow \in 1..Len(y.flows)
                 /\ y.sourceMap[s].mline \in 1..Len(sdp)
                 /\ y.flows[y.sourceMap[s].flow].type = sdp[y.sourceMap[s].mline].type
      <3>1. y.sourceMap[s] = v
        BY <1>3, <1>4
      <3>2. y.sourceMap[s].flow = f /\ y.sourceMap[s].mline = n + 1
        BY <3>1 DEF v
      <3>3. QED
        BY <3>2, <1>1, <1>3
    <2>2. QED
      BY <2>1, <1>3, <1>6 DEF Placed
  <1>8. Lined(sdp, y, n)
    <2>1. Lined(sdp, r, n)
      BY DEF Partial
    <2>2. ASSUME NEW i \in 1..n
          PROVE  /\ y.mediaFlows[i] \in 1..Len(y.flows)
                 /\ y.flows[y.mediaFlows[i]].type = sdp[i].type
      <3>1. r.mediaFlows[i] \in 1..Len(r.flows) /\ r.flows[r.mediaFlows[i]].type = sdp[i].type
        BY <2>1 DEF Lined
      <3>2. y.flows[r.mediaFlows[i]].type = r.flows[r.mediaFlows[i]].type
        BY <3>1, <1>3 DEF More
      <3>3. r.mediaFlows[i] \in 1..Len(y.flows)
        BY <3>1, <1>6
      <3>4. QED
        BY <3>1, <3>2, <3>3, <1>3
    <2>3. IsSeq(y.mediaFlows) /\ Len(y.mediaFlows) = n
      BY <2>1, <1>3 DEF Lined
    <2>4. QED
      BY <2>2, <2>3 DEF Lined
  <1>9. ASSUME NEW s
        PROVE  s \in DOMAIN y.sourceMap <=> \/ \E i \in 1..n : s \in NamedBy(sdp[i])
                                            \/ \E g \in 1..(a + 1) : s \in m.fid[g]
    <2>1. s \in DOMAIN r.sourceMap <=> \/ \E i \in 1..n : s \in NamedBy(sdp[i])
                                       \/ \E g \in 1..a : s \in m.fid[g]
      BY DEF Partial
    <2>2. (\E g \in 1..(a + 1) : s \in m.fid[g]) <=> ((\E g \in 1..a : s \in m.fid[g]) \/ s \in new)
      <3>1. \A g \in 1..(a + 1) : g \in 1..a \/ g = a + 1
        OBVIOUS
      <3>2. a + 1 \in 1..(a + 1) /\ \A g \in 1..a : g \in 1..(a + 1)
        OBVIOUS
      <3>3. QED
        BY <3>1, <3>2
    <2>3. QED
      BY <2>1, <2>2, <1>3
  <1>10. ASSUME NEW i \in 1..n, NEW g \in 1..Len(sdp[i].fid)
         PROVE  OneFlow(y, sdp[i].fid[g])
    <2>1. OneFlow(r, sdp[i].fid[g])
      BY DEF Partial
    <2>2. sdp[i].fid[g] \subseteq NamedBy(sdp[i])
      <3>1. IsSeq(sdp[i].fid)
        BY <1>1 DEF WellFormed, IsSeq
      <3>2. sdp[i].fid[g] \in Range(sdp[i].fid)
        BY <3>1, SeqFacts DEF Range
      <3>3. QED
        BY <3>2 DEF NamedBy
    <2>3. sdp[i].fid[g] \subseteq DOMAIN r.sourceMap
      BY <2>2 DEF Partial
    <2>4. QED
      BY <2>1, <2>3, <1>6
  <1>11. ASSUME NEW g \in 1..(a + 1)
         PROVE  OneFlow(y, m.fid[g])
    <2>1. CASE g \in 1..a
      <3>1. OneFlow(r, m.fid[g]) /\ m.fid[g] \subseteq DOMAIN r.sourceMap
        BY <2>1 DEF Partial
      <3>2. QED
        BY <3>1, <1>6
    <2>2. CASE g = a + 1
      <3>1. \A s \in new : y.sourceMap[s] = v
        BY <1>3, <1>4
      <3>2. QED
        BY <2>2, <3>1 DEF OneFlow
    <2>3. QED
      BY <2>1, <2>2
  <1>12. IsSources(y)
    BY <1>3 DEF More
  <1> HIDE DEF m
  <1>13. Partial(sdp, y, n, a + 1)
    BY <1>7, <1>8, <1>9, <1>10, <1>11, <1>12 DEF Partial, m
  <1>14. QED
    BY <1>13 DEF y, m

-----------------------------------------------------------------------------
(* The loops over the groups and the m-lines.                              *)

\* Every set of natural numbers has a least element.
LEMMA LeastNat ==
  ASSUME NEW T, T \subseteq Nat, T # {}
  PROVE  \E x \in T : \A y \in T : x <= y
  <1>1. IsWellFoundedOn(OpToRel(<, Nat), Nat)
    BY NatLessThanWellFounded
  <1>2. PICK x \in T : \A y \in T : ~ (<<y, x>> \in OpToRel(<, Nat))
    BY <1>1, WFMin
  <1>3. ASSUME NEW y \in T PROVE x <= y
    <2>1. ~ (y < x)
      BY <1>2 DEF OpToRel
    <2>2. x \in Nat /\ y \in Nat
      OBVIOUS
    <2>3. QED
      BY <2>1, <2>2
  <1>4. QED
    BY <1>3

\* What holds of 0 and passes on to the successor holds of every number.
LEMMA NatInd ==
  ASSUME NEW G, 0 \in G, \A n \in Nat : n \in G => n + 1 \in G
  PROVE  Nat \subseteq G
  <1> SUFFICES ASSUME Nat \ G # {} PROVE FALSE
    OBVIOUS
  <1>1. PICK x \in Nat \ G : \A y \in Nat \ G : x <= y
    BY LeastNat
  <1>2. x # 0
    OBVIOUS
  <1>3. x - 1 \in Nat /\ x - 1 \notin Nat \ G
    BY <1>1, <1>2
  <1>4. QED
    BY <1>1, <1>3

\* f is the loop over the first num groups of an m-line.
GroupLoop(f, r, mline, m, num) ==
  f = [n \in 0..num |-> IF n = 0 THEN r ELSE AddGroup(f[n - 1], mline, m.type, m.fid[n])]

\* There is such a loop.
LEMMA GroupLoopExists ==
  ASSUME NEW r, NEW mline, NEW m, NEW num \in Nat
  PROVE  \E f : GroupLoop(f, r, mline, m, num)
  <1> DEFINE G == {k \in Nat : \E f : GroupLoop(f, r, mline, m, k)}
  <1>1. 0 \in G
    <2> DEFINE f == [n \in 0..0 |-> r]
    <2>1. GroupLoop(f, r, mline, m, 0)
      BY DEF GroupLoop
    <2>2. QED
      BY <2>1
  <1>2. ASSUME NEW k \in Nat, k \in G PROVE k + 1 \in G
    <2>1. PICK f : GroupLoop(f, r, mline, m, k)
      BY <1>2
    <2> DEFINE g == [n \in 0..(k + 1) |->
                       IF n = k + 1 THEN AddGroup(f[k], mline, m.type, m.fid[k + 1]) ELSE f[n]]
    <2>2. ASSUME NEW n \in 0..(k + 1)
          PROVE  g[n] = IF n = 0 THEN r ELSE AddGroup(g[n - 1], mline, m.type, m.fid[n])
      <3>1. CASE n = k + 1
        <4>1. k \in 0..(k + 1) /\ k # k + 1 /\ n # 0 /\ n - 1 = k
          BY <3>1
        <4>2. QED
          BY <3>1, <4>1
      <3>2. CASE n # k + 1 /\ n # 0
        <4>1. n \in 0..k /\ n - 1 \in 0..(k + 1) /\ n - 1 # k + 1
          BY <3>2
        <4>2. f[n] = AddGroup(f[n - 1], mline, m.type, m.fid[n])
          BY <2>1, <4>1, <3>2 DEF GroupLoop
        <4>3. g[n] = f[n] /\ g[n - 1] = f[n - 1]
          BY <3>2, <4>1
        <4>4. QED
          BY <3>2, <4>2, <4>3
      <3>3. CASE n = 0
        <4>1. n \in 0..k /\ n # k + 1
          BY <3>3
        <4>2. f[n] = r
          BY <2>1, <4>1, <3>3 DEF GroupLoop
        <4>3. QED
          BY <3>3, <4>1, <4>2
      <3>4. QED
        BY <3>1, <3>2, <3>3
    <2> HIDE DEF g
    <2>3. g = [n \in 0..(k + 1) |-> g[n]]
      BY DEF g
    <2>4. GroupLoop(g, r, mline, m, k + 1)
      BY <2>2, <2>3 DEF GroupLoop
    <2>5. QED
      BY <2>4
  <1> HIDE DEF G
  <1>3. Nat \subseteq G
    BY <1>1, <1>2, NatInd
  <1>4. QED
    BY <1>3 DEF G

\* All groups of an m-line.
LEMMA GroupsDone ==
  ASSUME NEW sdp, WellFormed(sdp), NEW n \in Nat, n < Len(sdp), NEW r, Partial(sdp, r, n, 0)
  PROVE  Partial(sdp, AddGroups(r, n + 1, sdp[n + 1]), n, Len(sdp[n + 1].fid))
  <1> DEFINE m == sdp[n + 1]
             num == Len(m.fid)
             after == CHOOSE f : GroupLoop(f, r, n + 1, m, num)
             G == {a \in Nat : a <= num => Partial(sdp, after[a], n, a)}
  <1>1. num \in Nat
    <2>1. IsSeq(sdp)
      BY DEF WellFormed, IsSeq
    <2>2. n + 1 \in 1..Len(sdp)
      BY <2>1, SeqFacts
    <2>3. IsSeq(m.fid)
      BY <2>2 DEF WellFormed, IsSeq
    <2>4. QED
      BY <2>3, SeqFacts
  <1> HIDE DEF num, m
  <1>2. GroupLoop(after, r, n + 1, m, num)
    BY <1>1, GroupLoopExists
  <1>3. AddGroups(r, n + 1, m) = after[num]
    BY DEF AddGroups, GroupLoop, num
  <1> HIDE DEF after
  <1>4. 0 \in G
    <2>1. after[0] = r
      BY <1>1, <1>2 DEF GroupLoop
    <2>2. QED
      BY <2>1
  <1>5. ASSUME NEW a \in Nat, a \in G PROVE a + 1 \in G
    <2>1. CASE a + 1 <= num
      <3>1. a + 1 \in 0..num /\ a + 1 # 0 /\ (a + 1) - 1 = a /\ a <= num /\ a < num
        BY <2>1, <1>1
      <3>2. after[a + 1] = AddGroup(after[a], n + 1, m.type, m.fid[a + 1])
        BY <1>2, <3>1 DEF GroupLoop
      <3>3. Partial(sdp, after[a], n, a)
        BY <1>5, <3>1
      <3>4. Partial(sdp, AddGroup(after[a], n + 1, m.type, m.fid[a + 1]), n, a + 1)
        BY <3>1, <3>3, GroupStep DEF m, num
      <3>5. QED
        BY <3>2, <3>4
    <2>2. QED
      BY <2>1
  <1> HIDE DEF G
  <1>6. Nat \subseteq G
    BY <1>4, <1>5, NatInd
  <1>7. Partial(sdp, after[num], n, num)
    BY <1>1, <1>6 DEF G
  <1>8. QED
    BY <1>3, <1>7 DEF m, num

\* The flow of an m-line, after those of its groups.
LEMMA MediaStep ==
  ASSUME NEW sdp, WellFormed(sdp), NEW n \in Nat, n < Len(sdp), NEW r, Partial(sdp, r, n, 0)
  PROVE  Partial(sdp, AddMedia(r, n + 1, sdp[n + 1]), n + 1, 0)
  <1> DEFINE m == sdp[n + 1]
             a == Len(m.fid)
             g == AddGroups(r, n + 1, m)
             f == Len(g.flows) + 1
             ssrcs == m.ssrcs \ DOMAIN g.sourceMap
             v == [flow |-> f, mline |-> n + 1]
             x == AddSources(NewFlow(g, m.type), ssrcs, n + 1, f)
             y == AddMedia(r, n + 1, m)
  <1>1. n + 1 \in 1..Len(sdp) /\ Len(sdp) \in Nat
    <2>1. IsSeq(sdp)
      BY DEF WellFormed, IsSeq
    <2>2. QED
      BY <2>1, SeqFacts
  <1>2. Partial(sdp, g, n, a)
    BY GroupsDone
  <1> HIDE DEF g
  <1>3. IsSources(g) /\ Lined(sdp, g, n) /\ Placed(sdp, g)
    BY <1>2 DEF Partial
  <1>4. /\ More(g, x) /\ x.mediaFlows = g.mediaFlows
        /\ DOMAIN x.sourceMap = DOMAIN g.sourceMap \cup ssrcs
        /\ \A s \in ssrcs \ DOMAIN g.sourceMap : x.sourceMap[s] = v
        /\ f \in 1..Len(x.flows) /\ x.flows[f].type = m.type
        /\ Len(NewFlow(g, m.type).flows) = f
    <2> HIDE DEF m, ssrcs
    <2>1. QED
      BY <1>3, FlowWithSources
  <1>5. y = [x EXCEPT !.mediaFlows = Append(g.mediaFlows, f)]
    <2> DEFINE new == NewFlow(g, m.type)
    <2>1. new.mediaFlows = g.mediaFlows /\ IsSources(new)
      BY <1>3, NewFlowAdds
    <2>2. Len(new.flows) = f
      BY <1>4
    <2> HIDE DEF new, f, ssrcs, m
    <2>3. y = AddSources([new EXCEPT !.mediaFlows = Append(@, f)], ssrcs, n + 1, f)
      BY <2>2 DEF AddMedia, g, new, ssrcs
    <2>4. QED
      BY <2>1, <2>3 DEF AddSources, IsSources, new
  <1>6. IsSources(x)
    BY <1>4 DEF More
  <1> HIDE DEF x, y
  <1>7. /\ y.flows = x.flows /\ y.sourceMap = x.sourceMap /\ IsSources(y)
        /\ y.mediaFlows = Append(g.mediaFlows, f)
    BY <1>5, <1>6 DEF IsSources
  <1>8. More(g, y)
    BY <1>3, <1>4, <1>7 DEF More
  <1>9. /\ \A s \in DOMAIN g.sourceMap :
              /\ y.sourceMap[s].flow \in 1..Len(y.flows)
              /\ y.sourceMap[s].mline \in 1..Len(sdp)
              /\ y.flows[y.sourceMap[s].flow].type = sdp[y.sourceMap[s].mline].type
        /\ \A group : group \subseteq DOMAIN g.sourceMap /\ OneFlow(g, group) => OneFlow(y, group)
        /\ \A i \in 1..Len(g.flows) : i \in 1..Len(y.flows)
    BY <1>3, <1>8, MoreKeeps
  <1>10. Placed(sdp, y)
    <2>1. ASSUME NEW s \in ssrcs
          PROVE  /\ y.sourceMap[s].flow \in 1..Len(y.flows)
                 /\ y.sourceMap[s].mline \in 1..Len(sdp)
                 /\ y.flows[y.sourceMap[s].flow].type = sdp[y.sourceMap[s].mline].type
      <3>1. y.sourceMap[s] = v
        BY <1>4, <1>7
      <3> HIDE DEF f, ssrcs
      <3>2. y.sourceMap[s].flow = f /\ y.sourceMap[s].mline = n + 1
        BY <3>1
      <3>3. QED
        BY <3>2, <1>1, <1>4, <1>7
    <2> HIDE DEF ssrcs, f, v, m
    <2>2. QED
      BY <2>1, <1>4, <1>7, <1>9 DEF Placed
  <1>11. Lined(sdp, y, n + 1)
    <2> DEFINE mf == g.mediaFlows
    <2>1. IsSeq(mf) /\ Len(mf) = n
      BY <1>3 DEF Lined
    <2> HIDE DEF mf, f
    <2>2. /\ IsSeq(Append(mf, f)) /\ Len(Append(mf, f)) = n + 1
          /\ \A i \in 1..n : Append(mf, f)[i] = mf[i]
          /\ Append(mf, f)[n + 1] = f
      BY <2>1, SeqAppend
    <2>3. y.mediaFlows = Append(mf, f)
      BY <1>7 DEF mf
    <2>4. ASSUME NEW i \in 1..n
          PROVE  /\ y.mediaFlows[i] \in 1..Len(y.flows)
                 /\ y.flows[y.mediaFlows[i]].type = sdp[i].type
      <3>1. y.mediaFlows[i] = mf[i]
        BY <2>2, <2>3
      <3>2. mf[i] \in 1..Len(g.flows) /\ g.flows[mf[i]].type = sdp[i].type
        BY <1>3 DEF Lined, mf
      <3>3. QED
        BY <3>1, <3>2, <1>8, <1>9 DEF More
    <2>5. y.mediaFlows[n + 1] \in 1..Len(y.flows) /\ y.flows[y.mediaFlows[n + 1]].type = m.type
      BY <2>2, <2>3, <1>4, <1>7
    <2>6. \A i \in 1..(n + 1) : i \in 1..n \/ i = n + 1
      OBVIOUS
    <2>7. QED
      BY <2>2, <2>3, <2>4, <2>5, <2>6 DEF Lined
  <1>12. ASSUME NEW s
         PROVE  s \in DOMAIN g.sourceMap <=> \/ \E i \in 1..n : s \in NamedBy(sdp[i])
                                             \/ s \in UNION Range(m.fid)
    <2>1. IsSeq(m.fid)
      BY <1>1 DEF WellFormed, IsSeq
    <2>2. s \in UNION Range(m.fid) <=> \E k \in 1..a : s \in m.fid[k]
      BY <2>1, SeqFacts DEF Range
    <2>3. QED
      BY <2>2, <1>2 DEF Partial
  <1>13. ASSUME NEW s
         PROVE  s \in DOMAIN y.sourceMap <=> \/ \E i \in 1..(n + 1) : s \in NamedBy(sdp[i])
                                             \/ \E k \in 1..0 : s \in sdp[n + 2].fid[k]
    <2>1. s \in DOMAIN y.sourceMap <=> s \in DOMAIN g.sourceMap \/ s \in m.ssrcs
      BY <1>4, <1>7
    <2>2. s \in DOMAIN y.sourceMap <=> (\E i \in 1..n : s \in NamedBy(sdp[i])) \/ s \in NamedBy(m)
      BY <2>1, <1>12 DEF NamedBy
    <2>3. (\E i \in 1..(n + 1) : s \in NamedBy(sdp[i]))
             <=> (\E i \in 1..n : s \in NamedBy(sdp[i])) \/ s \in NamedBy(m)
      <3>1. \A i \in 1..(n + 1) : i \in 1..n \/ i = n + 1
        OBVIOUS
      <3>2. n + 1 \in 1..(n + 1) /\ \A i \in 1..n : i \in 1..(n + 1)
        OBVIOUS
      <3>3. QED
        BY <3>1, <3>2
    <2>4. 1..0 = {}
      OBVIOUS
    <2>5. QED
      BY <2>2, <2>3, <2>4
  <1>14. ASSUME NEW i \in 1..(n + 1), NEW k \in 1..Len(sdp[i].fid)
         PROVE  OneFlow(y, sdp[i].fid[k])
    <2> DEFINE group == sdp[i].fid[k]
    <2>1. OneFlow(g, group) /\ group \subseteq DOMAIN g.sourceMap
      <3>1. i \in 1..Len(sdp)
        BY <1>1
      <3>2. IsSeq(sdp[i].fid)
        BY <3>1 DEF WellFormed, IsSeq
      <3>3. group \in Range(sdp[i].fid)
        BY <3>2, SeqFacts DEF Range
      <3>4. CASE i \in 1..n
        <4>1. OneFlow(g, group)
          BY <3>4, <1>2 DEF Partial
        <4>2. group \subseteq NamedBy(sdp[i])
          BY <3>3 DEF NamedBy
        <4>3. QED
          BY <3>4, <4>1, <4>2, <1>12
      <3>5. CASE i = n + 1
        <4>1. OneFlow(g, group)
          BY <3>5, <1>2 DEF Partial
        <4>2. group \subseteq UNION Range(m.fid)
          BY <3>3, <3>5
        <4>3. QED
          BY <4>1, <4>2, <1>12
      <3>6. QED
        BY <3>4, <3>5
    <2> HIDE DEF group
    <2>2. QED
      BY <2>1, <1>9 DEF group
  <1> HIDE DEF m, a, f, v, ssrcs
  <1>15. n + 1 + 1 = n + 2 /\ 1..0 = {}
    OBVIOUS
  <1>16. Partial(sdp, y, n + 1, 0)
    BY <1>7, <1>10, <1>11, <1>13, <1>14, <1>15 DEF Partial
  <1>17. QED
    BY <1>16 DEF y, m

\* f is the loop over the first num m-lines.
MediaLoop(f, r, sdp, num) ==
  f = [n \in 0..num |-> IF n = 0 THEN r ELSE AddMedia(f[n - 1], n, sdp[n])]

\* There is such a loop.
LEMMA MediaLoopExists ==
  ASSUME NEW r, NEW sdp, NEW num \in Nat
  PROVE  \E f : MediaLoop(f, r, sdp, num)
  <1> DEFINE G == {k \in Nat : \E f : MediaLoop(f, r, sdp, k)}
  <1>1. 0 \in G
    <2> DEFINE f == [n \in 0..0 |-> r]
    <2>1. MediaLoop(f, r, sdp, 0)
      BY DEF MediaLoop
    <2>2. QED
      BY <2>1
  <1>2. ASSUME NEW k \in Nat, k \in G PROVE k + 1 \in G
    <2>1. PICK f : MediaLoop(f, r, sdp, k)
      BY <1>2
    <2> DEFINE g == [n \in 0..(k + 1) |->
                       IF n = k + 1 THEN AddMedia(f[k], k + 1, sdp[k + 1]) ELSE f[n]]
    <2>2. ASSUME NEW n \in 0..(k + 1)
          PROVE  g[n] = IF n = 0 THEN r ELSE AddMedia(g[n - 1], n, sdp[n])
      <3>1. CASE n = k + 1
        <4>1. k \in 0..(k + 1) /\ k # k + 1 /\ n # 0 /\ n - 1 = k
          BY <3>1
        <4>2. QED
          BY <3>1, <4>1
      <3>2. CASE n # k + 1 /\ n # 0
        <4>1. n \in 0..k /\ n - 1 \in 0..(k + 1) /\ n - 1 # k + 1
          BY <3>2
        <4>2. f[n] = AddMedia(f[n - 1], n, sdp[n])
          BY <2>1, <4>1, <3>2 DEF MediaLoop
        <4>3. g[n] = f[n] /\ g[n - 1] = f[n - 1]
          BY <3>2, <4>1
        <4>4. QED
          BY <3>2, <4>2, <4>3
      <3>3. CASE n = 0
        <4>1. n \in 0..k /\ n # k + 1
          BY <3>3
        <4>2. f[n] = r
          BY <2>1, <4>1, <3>3 DEF MediaLoop
        <4>3. QED
          BY <3>3, <4>1, <4>2
      <3>4. QED
        BY <3>1, <3>2, <3>3
    <2> HIDE DEF g
    <2>3. g = [n \in 0..(k + 1) |-> g[n]]
      BY DEF g
    <2>4. MediaLoop(g, r, sdp, k + 1)
      BY <2>2, <2>3 DEF MediaLoop
    <2>5. QED
      BY <2>4
  <1> HIDE DEF G
  <1>3. Nat \subseteq G
    BY <1>1, <1>2, NatInd
  <1>4. QED
    BY <1>3 DEF G

\* All m-lines of an SDP.
LEMMA MediasDone ==
  ASSUME NEW sdp, WellFormed(sdp), NEW r, Partial(sdp, r, 0, 0)
  PROVE  Partial(sdp, AddMedias(r, sdp), Len(sdp), 0)
  <1> DEFINE num == Len(sdp)
             after == CHOOSE f : MediaLoop(f, r, sdp, num)
             G == {n \in Nat : n <= num => Partial(sdp, after[n], n, 0)}
  <1>1. num \in Nat
    BY SeqFacts DEF WellFormed, IsSeq
  <1> HIDE DEF num
  <1>2. MediaLoop(after, r, sdp, num)
    BY <1>1, MediaLoopExists
  <1>3. AddMedias(r, sdp) = after[num]
    BY DEF AddMedias, MediaLoop, num
  <1> HIDE DEF after
  <1>4. 0 \in G
    <2>1. after[0] = r
      BY <1>1, <1>2 DEF MediaLoop
    <2>2. QED
      BY <2>1
  <1>5. ASSUME NEW n \in Nat, n \in G PROVE n + 1 \in G
    <2>1. CASE n + 1 <= num
      <3>1. n + 1 \in 0..num /\ n + 1 # 0 /\ (n + 1) - 1 = n /\ n <= num /\ n < num
        BY <2>1, <1>1
      <3>2. after[n + 1] = AddMedia(after[n], n + 1, sdp[n + 1])
        BY <1>2, <3>1 DEF MediaLoop
      <3>3. Partial(sdp, after[n], n, 0)
        BY <1>5, <3>1
      <3>4. Partial(sdp, AddMedia(after[n], n + 1, sdp[n + 1]), n + 1, 0)
        BY <3>1, <3>3, MediaStep DEF num
      <3>5. QED
        BY <3>2, <3>4
    <2>2. QED
      BY <2>1
  <1> HIDE DEF G
  <1>6. Nat \subseteq G
    BY <1>4, <1>5, NatInd
  <1>7. Partial(sdp, after[num], num, 0)
    BY <1>1, <1>6 DEF G
  <1>8. QED
    BY <1>3, <1>7 DEF num

-----------------------------------------------------------------------------
(* The sources.                                                            *)

Sources == [flows |-> flows, mediaFlows |-> mediaFlows, sourceMap |-> sourceMap]

\* What the receiver knows of an SDP.
Attached(sdp, r) ==
  /\ IsSources(r) /\ Placed(sdp, r) /\ Lined(sdp, r, Len(sdp))
  /\ \A i \in 1..Len(sdp) : NamedBy(sdp[i]) \subseteq DOMAIN r.sourceMap
  /\ \A i \in 1..Len(sdp) : \A g \in 1..Len(sdp[i].fid) : OneFlow(r, sdp[i].fid[g])

SourcesInv ==
  /\ medias = << >> => /\ flows = << >> /\ mediaFlows = << >> /\ sourceMap = << >>
                       /\ handed = << >> /\ crashed = None
  /\ medias # << >> => medias \in Sdps
  /\ Attached(medias, Sources)

\* Before any m-line.
LEMMA EmptySources ==
  ASSUME NEW sdp
  PROVE  LET r == [flows |-> << >>, mediaFlows |-> << >>, sourceMap |-> << >>] IN
         /\ Partial(sdp, r, 0, 0)
         /\ Attached(<< >>, r)
  <1> DEFINE r == [flows |-> << >>, mediaFlows |-> << >>, sourceMap |-> << >>]
  <1>1. r.flows = << >> /\ r.mediaFlows = << >> /\ r.sourceMap = << >>
    OBVIOUS
  <1>2. IsSeq(<< >>) /\ Len(<< >>) = 0 /\ DOMAIN << >> = {} /\ 1..0 = {}
    <2>1. << >> \in Seq({})
      OBVIOUS
    <2>2. QED
      BY <2>1 DEF IsSeq
  <1>3. r = [flows |-> r.flows, mediaFlows |-> r.mediaFlows, sourceMap |-> r.sourceMap]
    OBVIOUS
  <1> HIDE DEF r
  <1>4. IsSources(r) /\ Placed(sdp, r) /\ Placed(<< >>, r) /\ Lined(sdp, r, 0) /\ Lined(<< >>, r, 0)
    BY <1>1, <1>2, <1>3 DEF IsSources, Placed, Lined
  <1>5. Partial(sdp, r, 0, 0)
    <2>1. \A s : s \notin DOMAIN r.sourceMap
      BY <1>1, <1>2
    <2>2. QED
      BY <1>2, <1>4, <2>1 DEF Partial
  <1>6. Attached(<< >>, r)
    BY <1>2, <1>4 DEF Attached
  <1>7. QED
    BY <1>5, <1>6 DEF r

\* After setRemoteSDP every ssrc of the SDP has a source.
LEMMA SdpAttached ==
  ASSUME SourcesInv, setRemoteSDP
  PROVE  SourcesInv'
  <1> DEFINE sdp == medias'
             r == AddMedias(Sources, sdp)
  <1>1. sdp \in Sdps /\ WellFormed(sdp) /\ medias = << >>
    BY SdpAssumption DEF setRemoteSDP
  <1>2. flows' = r.flows /\ mediaFlows' = r.mediaFlows /\ sourceMap' = r.sourceMap
        /\ handed' = handed /\ crashed' = crashed
    BY DEF setRemoteSDP, Sources
  <1>3. Sources = [flows |-> << >>, mediaFlows |-> << >>, sourceMap |-> << >>]
    BY <1>1 DEF SourcesInv, Sources
  <1>4. Partial(sdp, r, Len(sdp), 0)
    <2>1. Partial(sdp, Sources, 0, 0)
      BY <1>3, EmptySources
    <2>2. QED
      BY <1>1, <2>1, MediasDone
  <1>5. Sources' = r
    <2>1. IsSources(r)
      BY <1>4 DEF Partial
    <2>2. r = [flows |-> r.flows, mediaFlows |-> r.mediaFlows, sourceMap |-> r.sourceMap]
      BY <2>1 DEF IsSources
    <2> HIDE DEF r
    <2>3. QED
      BY <2>2, <1>2 DEF Sources
  <1>6. Attached(sdp, r)
    BY <1>4 DEF Partial, Attached
  <1>7. sdp = << >> => r = Sources
    <2>1. SUFFICES ASSUME sdp = << >> PROVE r = Sources
      OBVIOUS
    <2> DEFINE after == CHOOSE f : MediaLoop(f, Sources, sdp, 0)
    <2>2. Len(sdp) = 0
      BY <2>1
    <2>3. MediaLoop(after, Sources, sdp, 0)
      BY MediaLoopExists
    <2>4. r = after[0]
      BY <2>2 DEF AddMedias, MediaLoop
    <2> HIDE DEF after, r, sdp
    <2>5. QED
      BY <2>3, <2>4 DEF MediaLoop
  <1> HIDE DEF r
  <1>8. sdp = << >> => /\ flows' = << >> /\ mediaFlows' = << >> /\ sourceMap' = << >>
                       /\ handed' = << >> /\ crashed' = None
    <2>1. SUFFICES ASSUME sdp = << >> PROVE /\ flows' = << >> /\ mediaFlows' = << >> /\ sourceMap' = << >>
                       /\ handed' = << >> /\ crashed' = None
      OBVIOUS
    <2>2. flows' = flows /\ mediaFlows' = mediaFlows /\ sourceMap' = sourceMap
      BY <2>1, <1>2, <1>7 DEF Sources
    <2>3. QED
      BY <2>2, <1>1, <1>2 DEF SourcesInv
  <1>9. QED
    BY <1>1, <1>5, <1>6, <1>8 DEF SourcesInv

-----------------------------------------------------------------------------
(* A packet.                                                               *)

\* What is known of the SDP once there is one.
LEMMA MediasKnown ==
  ASSUME SourcesInv, medias # << >>
  PROVE  WellFormed(medias) /\ IsSeq(medias) /\ Len(medias) \in Nat /\ Attached(medias, Sources)
  <1>1. WellFormed(medias) /\ Attached(medias, Sources)
    BY SdpAssumption DEF SourcesInv
  <1>2. IsSeq(medias)
    BY <1>1 DEF WellFormed, IsSeq
  <1>3. QED
    BY <1>1, <1>2, SeqFacts

\* The m-line of a packet exists, and is that of its source if it has one.
LEMMA FindMediaRight ==
  ASSUME SourcesInv, medias # << >>, NEW mline, NEW p, FindMedia(mline, p) # 0
  PROVE  /\ FindMedia(mline, p) \in 1..Len(medias)
         /\ Known(p) => FindMedia(mline, p) = sourceMap[p.ssrc].mline
  <1> DEFINE given == IF Known(p) THEN sourceMap[p.ssrc].mline ELSE mline
             fits == {i \in 1..Len(medias) : p.pt \in DOMAIN medias[i].codecs}
  <1>1. Len(medias) \in Nat /\ Placed(medias, Sources)
    BY MediasKnown DEF Attached
  <1>2. Known(p) => given \in 1..Len(medias)
    BY <1>1 DEF Placed, Sources, Known
  <1>3. CASE given \in 1..Len(medias)
    <2>1. FindMedia(mline, p) = given
      BY <1>3 DEF FindMedia
    <2>2. QED
      BY <2>1, <1>3
  <1>4. CASE given \notin 1..Len(medias)
    <2>1. fits # {}
      BY <1>4 DEF FindMedia
    <2> HIDE DEF given
    <2>2. FindMedia(mline, p) = CHOOSE i \in fits : \A j \in fits : i <= j
      BY <1>4, <2>1 DEF FindMedia, given
    <2>3. fits \subseteq Nat /\ fits \subseteq 1..Len(medias)
      BY <1>1
    <2> HIDE DEF fits
    <2>4. \E i \in fits : \A j \in fits : i <= j
      BY <2>1, <2>3, LeastNat
    <2>5. FindMedia(mline, p) \in fits
      BY <2>2, <2>4
    <2>6. QED
      BY <2>3, <2>5, <1>2, <1>4
  <1>5. QED
    BY <1>3, <1>4

\* The sources after checkFindMedia.
LEMMA BoundKeeps ==
  ASSUME SourcesInv, medias # << >>, NEW mline, NEW p, Accepted(mline, p)
  PROVE  LET r == Bound(mline, p) IN
         /\ Attached(medias, r) /\ r.mediaFlows = mediaFlows
         /\ Len(r.flows) = Len(flows)
         /\ Known(p) => r = Sources
  <1> DEFINE r == Bound(mline, p)
             i == FindMedia(mline, p)
             f == mediaFlows[i]
             v == [flow |-> f, mline |-> i]
  <1>1. i \in 1..Len(medias) /\ Attached(medias, Sources)
    BY FindMediaRight, MediasKnown DEF Accepted
  <1>2. CASE Known(p)
    <2>1. r = Sources
      BY <1>2 DEF Bound, Sources
    <2> HIDE DEF r
    <2>2. QED
      BY <2>1, <1>1 DEF Sources, r
  <1>3. CASE ~ Known(p)
    <2>1. r = AddSources(Sources, {p.ssrc}, i, f)
      BY <1>3 DEF Bound, Sources
    <2> HIDE DEF r, i
    <2>2. IsSources(Sources) /\ Placed(medias, Sources) /\ Lined(medias, Sources, Len(medias))
      BY <1>1 DEF Attached
    <2>3. f \in 1..Len(Sources.flows) /\ Sources.flows[f].type = medias[i].type
      BY <1>1, <2>2 DEF Lined, Sources
    <2> HIDE DEF f, v
    <2>4. /\ IsSources(r)
          /\ r.mediaFlows = Sources.mediaFlows
          /\ r.sourceMap = WithNew(Sources.sourceMap, {p.ssrc}, v)
          /\ Len(r.flows) = Len(Sources.flows)
          /\ \A k \in 1..Len(Sources.flows) : r.flows[k].type = Sources.flows[k].type
      BY <2>1, <2>2, <2>3, AddSourcesAdds DEF v
    <2> DEFINE map == Sources.sourceMap
               w == WithNew(map, {p.ssrc}, v)
    <2>5. /\ DOMAIN w = DOMAIN map \cup {p.ssrc}
          /\ \A s \in DOMAIN map : w[s] = map[s]
          /\ w[p.ssrc] = v
      <3>1. p.ssrc \notin DOMAIN map
        BY <1>3 DEF Known, Sources
      <3> HIDE DEF map
      <3>2. QED
        BY <3>1 DEF WithNew
    <2>6. r.sourceMap = w
      BY <2>4
    <2> HIDE DEF w
    <2>7. Len(Sources.flows) \in Nat
      BY <2>2, SeqFacts DEF IsSources
    <2>8. More(Sources, r)
      BY <2>2, <2>4, <2>5, <2>6, <2>7 DEF More
    <2>9. /\ \A s \in DOMAIN map :
                /\ r.sourceMap[s].flow \in 1..Len(r.flows)
                /\ r.sourceMap[s].mline \in 1..Len(medias)
                /\ r.flows[r.sourceMap[s].flow].type = medias[r.sourceMap[s].mline].type
          /\ \A group : group \subseteq DOMAIN map /\ OneFlow(Sources, group) => OneFlow(r, group)
      BY <2>2, <2>8, MoreKeeps
    <2>10. v.flow = f /\ v.mline = i
      BY DEF v
    <2> HIDE DEF map
    <2>11. Placed(medias, r)
      BY <1>1, <2>3, <2>4, <2>5, <2>6, <2>9, <2>10 DEF Placed
    <2>12. Lined(medias, r, Len(medias))
      BY <2>2, <2>4 DEF Lined
    <2>13. \A k \in 1..Len(medias) : NamedBy(medias[k]) \subseteq DOMAIN r.sourceMap
      BY <1>1, <2>5, <2>6 DEF Attached, map
    <2>14. ASSUME NEW k \in 1..Len(medias), NEW g \in 1..Len(medias[k].fid)
           PROVE  OneFlow(r, medias[k].fid[g])
      <3>1. OneFlow(Sources, medias[k].fid[g])
        BY <1>1 DEF Attached
      <3>2. medias[k].fid[g] \subseteq DOMAIN map
        <4>1. IsSeq(medias[k].fid)
          BY MediasKnown DEF WellFormed, IsSeq
        <4>2. medias[k].fid[g] \in Range(medias[k].fid)
          BY <4>1, SeqFacts DEF Range
        <4>3. medias[k].fid[g] \subseteq NamedBy(medias[k])
          BY <4>2 DEF NamedBy
        <4>4. QED
          BY <4>3, <1>1 DEF Attached, map
      <3>3. QED
        BY <3>1, <3>2, <2>9
    <2>15. Attached(medias, r)
      BY <2>4, <2>11, <2>12, <2>13, <2>14 DEF Attached
    <2>16. QED
      BY <1>3, <2>4, <2>15 DEF Sources, r
  <1>4. QED
    BY <1>2, <1>3

\* What demuxRTP hands on of a packet is of the medium of the m-line.
Fitting(sdp, i, p, pieces) ==
  /\ p.bad => DOMAIN pieces = {}
  /\ \A k \in Inserted(pieces) :
       /\ sdp[i].type = IF pieces[k].codec.type = "opus" THEN "audio" ELSE "video"
       /\ p.osn # 0 => pieces[k].seq = p.osn

\* The pieces of a packet the m-line has the payload type of fit it.
LEMMA PiecesRight ==
  ASSUME NEW sdp, WellFormed(sdp), NEW p, OsnOfRtx(sdp, p), NEW i \in 1..Len(sdp),
         p.pt \in DOMAIN sdp[i].codecs
  PROVE  Fitting(sdp, i, p, demuxRTP(sdp[i].codecs, p))
  <1> DEFINE codecs == sdp[i].codecs
             codec == codecs[p.pt]
             isRTX == codec.type = "rtx"
             inner == IF isRTX THEN codecs[codec.apt] ELSE codec
             seq   == IF isRTX THEN p.osn ELSE p.seq
             known == {k \in DOMAIN p.blocks : p.blocks[k].pt \in DOMAIN codecs}
             pieces == demuxRTP(codecs, p)
             bad == p.bad \/ (isRTX /\ codec.apt \notin DOMAIN codecs)
  <1>1. \A pt \in DOMAIN codecs : codecs[pt].type \in {"opus", "vp8", "ulpfec"} =>
          sdp[i].type = IF codecs[pt].type = "opus" THEN "audio" ELSE "video"
    BY DEF WellFormed
  <1>2. p.osn # 0 => isRTX
    BY DEF OsnOfRtx
  <1>3. bad => pieces = << >>
    BY DEF demuxRTP
  <1>4. DOMAIN << >> = {}
    OBVIOUS
  <1>5. ~ bad /\ inner.type = "red" =>
          pieces = [k \in known |-> Piece(codecs[p.blocks[k].pt], seq, p.ts + p.blocks[k].offset,
                                          p.blocks[k].offset)]
    BY DEF demuxRTP
  <1>6. ~ bad /\ inner.type # "red" => pieces = [k \in {1} |-> Piece(inner, seq, p.ts, 0)]
    BY DEF demuxRTP
  <1>7. ~ bad => \E pt \in DOMAIN codecs : inner = codecs[pt]
    OBVIOUS
  <1>8. p.bad => bad
    OBVIOUS
  <1>9. \A k \in known : p.blocks[k].pt \in DOMAIN codecs
    OBVIOUS
  <1>10. p.osn # 0 => seq = p.osn
    BY <1>2
  <1> HIDE DEF pieces, bad, known, inner, seq, codec, codecs
  <1>11. ASSUME NEW k \in Inserted(pieces)
         PROVE  /\ sdp[i].type = IF pieces[k].codec.type = "opus" THEN "audio" ELSE "video"
                /\ p.osn # 0 => pieces[k].seq = p.osn
    <2>1. k \in DOMAIN pieces /\ pieces[k].codec.type \in {"opus", "vp8", "ulpfec"}
      BY DEF Inserted, Native
    <2>2. ~ bad
      BY <2>1, <1>3, <1>4
    <2>3. pieces[k].seq = seq /\ \E pt \in DOMAIN codecs : pieces[k].codec = codecs[pt]
      <3>1. CASE inner.type = "red"
        <4>1. pieces = [x \in known |-> Piece(codecs[p.blocks[x].pt], seq, p.ts + p.blocks[x].offset,
                                              p.blocks[x].offset)]
          BY <3>1, <2>2, <1>5
        <4>2. k \in known /\ pieces[k] = Piece(codecs[p.blocks[k].pt], seq, p.ts + p.blocks[k].offset,
                                              p.blocks[k].offset)
          BY <2>1, <4>1
        <4>3. pieces[k].codec = codecs[p.blocks[k].pt] /\ pieces[k].seq = seq
          BY <4>2 DEF Piece
        <4>4. QED
          BY <4>2, <4>3, <1>9
      <3>2. CASE inner.type # "red"
        <4>1. pieces = [x \in {1} |-> Piece(inner, seq, p.ts, 0)]
          BY <3>2, <2>2, <1>6
        <4>2. pieces[k] = Piece(inner, seq, p.ts, 0)
          BY <2>1, <4>1
        <4>3. pieces[k].codec = inner /\ pieces[k].seq = seq
          BY <4>2 DEF Piece
        <4>4. QED
          BY <4>3, <2>2, <1>7
      <3>3. QED
        BY <3>1, <3>2
    <2>4. QED
      BY <2>1, <2>3, <1>1, <1>10
  <1>12. p.bad => DOMAIN pieces = {}
    BY <1>3, <1>4, <1>8
  <1>13. QED
    BY <1>11, <1>12 DEF Fitting, pieces, codecs

-----------------------------------------------------------------------------
(* The invariant of the receiver.                                          *)

ReceiverInv == SourcesInv /\ NullFlowOnlyForStrangers /\ RightWindow /\ RetransmissionFillsGap

\* A packet with pieces goes into the window of the flow of its source.
LEMMA HandedRight ==
  ASSUME SourcesInv, SourcesInv', medias # << >>, medias' = medias,
         NEW mline, NEW p \in Packets, Accepted(mline, p), Known(p),
         sourceMap' = sourceMap,
         \A i \in 1..Len(flows) : flows'[i].type = flows[i].type,
         handed' = [k \in Inserted(demuxRTP(medias[FindMedia(mline, p)].codecs, p)) |->
                      [flow |-> FlowOf(p), packet |-> p,
                       piece |-> demuxRTP(medias[FindMedia(mline, p)].codecs, p)[k]]]
  PROVE  RightWindow' /\ RetransmissionFillsGap'
  <1> DEFINE i == FindMedia(mline, p)
             pieces == demuxRTP(medias[i].codecs, p)
             f == FlowOf(p)
  <1>1. i \in 1..Len(medias) /\ i = sourceMap[p.ssrc].mline /\ p.pt \in DOMAIN medias[i].codecs
    BY FindMediaRight DEF Accepted
  <1>2. /\ Attached(medias, Sources) /\ WellFormed(medias) /\ OsnOfRtx(medias, p)
    BY MediasKnown, SdpAssumption DEF SourcesInv
  <1>3. f = sourceMap[p.ssrc].flow
    BY DEF FlowOf
  <1>4. f \in 1..Len(flows) /\ flows[f].type = medias[i].type
    BY <1>1, <1>2, <1>3 DEF Attached, Placed, Sources, Known
  <1>5. \A k \in Inserted(pieces) :
          /\ medias[i].type = IF pieces[k].codec.type = "opus" THEN "audio" ELSE "video"
          /\ p.osn # 0 => pieces[k].seq = p.osn
    <2> HIDE DEF i
    <2>1. Fitting(medias, i, p, pieces)
      BY <1>1, <1>2, PiecesRight
    <2>2. QED
      BY <2>1 DEF Fitting
  <1> HIDE DEF i, pieces, f
  <1>6. handed' = [k \in Inserted(pieces) |-> [flow |-> f, packet |-> p, piece |-> pieces[k]]]
    BY DEF i, pieces, f
  <1>7. ASSUME NEW k \in DOMAIN handed'
        PROVE  /\ handed'[k].flow = f /\ handed'[k].packet = p /\ handed'[k].piece = pieces[k]
               /\ k \in Inserted(pieces)
    BY <1>6
  <1>8. RightWindow'
    <2>1. flows'[f].type = medias[i].type
      BY <1>4
    <2>2. ASSUME NEW k \in DOMAIN handed'
          PROVE  flows'[handed'[k].flow].type
                   = IF handed'[k].piece.codec.type = "opus" THEN "audio" ELSE "video"
      <3>1. handed'[k].flow = f /\ handed'[k].piece = pieces[k] /\ k \in Inserted(pieces)
        BY <1>7
      <3>2. medias[i].type = IF pieces[k].codec.type = "opus" THEN "audio" ELSE "video"
        BY <3>1, <1>5
      <3>3. QED
        BY <3>1, <3>2, <2>1
    <2>3. QED
      BY <2>2 DEF RightWindow
  <1>9. ASSUME p.osn # 0, NEW j \in DOMAIN medias, NEW g \in Range(medias[j].fid), p.ssrc \in g,
               NEW s \in g
        PROVE  sourceMap[s].flow = f
    <2>1. j \in 1..Len(medias)
      BY MediasKnown, SeqFacts
    <2>2. IsSeq(medias[j].fid)
      BY <2>1, <1>2 DEF WellFormed, IsSeq
    <2>3. PICK a \in 1..Len(medias[j].fid) : g = medias[j].fid[a]
      BY <2>2, SeqFacts DEF Range
    <2>4. OneFlow(Sources, g)
      BY <1>2, <2>1, <2>3 DEF Attached
    <2>5. QED
      BY <2>4, <1>9, <1>3 DEF OneFlow, Sources
  <1>10. RetransmissionFillsGap'
    BY <1>5, <1>7, <1>9 DEF RetransmissionFillsGap
  <1>11. QED
    BY <1>8, <1>10

\* A packet the receiver has no m-line or codec for changes nothing of it.
LEMMA RefusedInv ==
  ASSUME ReceiverInv, medias # << >>, crashed = None, NEW mline, NEW p, Refused(mline, p)
  PROVE  ReceiverInv'
  <1>1. /\ medias' = medias /\ flows' = flows /\ mediaFlows' = mediaFlows
        /\ sourceMap' = sourceMap /\ crashed' = crashed /\ handed' = << >>
    BY DEF Refused
  <1>2. Sources' = Sources /\ DOMAIN << >> = {}
    BY <1>1 DEF Sources
  <1>3. SourcesInv'
    BY <1>1, <1>2 DEF ReceiverInv, SourcesInv
  <1>4. QED
    BY <1>1, <1>2, <1>3 DEF ReceiverInv, NullFlowOnlyForStrangers, RightWindow, RetransmissionFillsGap

\* A packet that is bound keeps the invariant.
LEMMA ReceivedInv ==
  ASSUME ReceiverInv, medias # << >>, crashed = None, NEW mline, NEW p \in Packets,
         Received(mline, p)
  PROVE  ReceiverInv'
  <1> DEFINE r == Bound(mline, p)
             i == FindMedia(mline, p)
             pieces == demuxRTP(medias[i].codecs, p)
             f == FlowOf(p)
  <1>1. Accepted(mline, p) /\ SourcesInv
    BY DEF Received, ReceiverInv
  <1>2. medias' = medias /\ mediaFlows' = r.mediaFlows /\ sourceMap' = r.sourceMap
    BY DEF Received
  <1>3. /\ Attached(medias, r) /\ r.mediaFlows = mediaFlows /\ Len(r.flows) = Len(flows)
        /\ Known(p) => r = Sources
    BY <1>1, BoundKeeps
  <1>4. i \in 1..Len(medias) /\ p.pt \in DOMAIN medias[i].codecs
    BY <1>1, FindMediaRight DEF Accepted
  <1>5. /\ Attached(medias, Sources) /\ WellFormed(medias) /\ OsnOfRtx(medias, p)
    BY <1>1, MediasKnown, SdpAssumption DEF SourcesInv
  <1>6. p.bad => DOMAIN pieces = {}
    <2> HIDE DEF i
    <2>1. Fitting(medias, i, p, pieces)
      BY <1>4, <1>5, PiecesRight
    <2>2. QED
      BY <2>1 DEF Fitting
  <1>7. Announced \subseteq DOMAIN sourceMap
    <2>1. DOMAIN medias = 1..Len(medias)
      BY <1>1, MediasKnown, SeqFacts
    <2>2. QED
      BY <2>1, <1>5 DEF Announced, Attached, Sources
  <1>8. \/ DOMAIN pieces = {} /\ flows' = r.flows /\ handed' = << >> /\ crashed' = crashed
        \/ DOMAIN pieces # {} /\ f = 0 /\ flows' = r.flows /\ handed' = << >> /\ crashed' = p
        \/ /\ DOMAIN pieces # {} /\ f # 0 /\ crashed' = crashed
           /\ flows' = [r.flows EXCEPT ![f].main = MainCodec(@, pieces)]
           /\ handed' = [k \in Inserted(pieces) |->
                              [flow |-> f, packet |-> p, piece |-> pieces[k]]]
    BY DEF Received
  <1>9. Known(p) => f \in 1..Len(flows) /\ f # 0
    <2>1. Known(p) => f \in 1..Len(flows)
      BY <1>5 DEF FlowOf, Attached, Placed, Sources, Known
    <2>2. Len(flows) \in Nat
      BY <1>5, SeqFacts DEF Attached, IsSources, Sources
    <2>3. QED
      BY <2>1, <2>2
  <1>10. ~ Known(p) => f = 0
    BY DEF FlowOf
  <1> HIDE DEF pieces, f, r
  <1>11. DOMAIN << >> = {}
    OBVIOUS
  <1>12. IsSources(r) /\ r = [flows |-> r.flows, mediaFlows |-> r.mediaFlows, sourceMap |-> r.sourceMap]
    BY <1>3 DEF Attached, IsSources
  <1>13. flows' = r.flows /\ handed' = << >> => SourcesInv' /\ RightWindow' /\ RetransmissionFillsGap'
    <2> SUFFICES ASSUME flows' = r.flows, handed' = << >>
                 PROVE  SourcesInv' /\ RightWindow' /\ RetransmissionFillsGap'
      OBVIOUS
    <2>1. Sources' = r
      BY <1>2, <1>12 DEF Sources
    <2>2. SourcesInv'
      BY <2>1, <1>1, <1>2, <1>3 DEF SourcesInv
    <2>3. QED
      BY <2>2, <1>11 DEF RightWindow, RetransmissionFillsGap
  <1>14. CASE DOMAIN pieces = {} /\ flows' = r.flows /\ handed' = << >> /\ crashed' = crashed
    BY <1>13, <1>14 DEF ReceiverInv, NullFlowOnlyForStrangers
  <1>15. CASE DOMAIN pieces # {} /\ f = 0 /\ flows' = r.flows /\ handed' = << >> /\ crashed' = p
    <2>1. p.ssrc \notin DOMAIN sourceMap
      BY <1>15, <1>9 DEF Known
    <2>2. Announced' = Announced
      BY <1>2 DEF Announced
    <2>3. NullFlowOnlyForStrangers'
      BY <2>1, <2>2, <1>6, <1>7, <1>15 DEF NullFlowOnlyForStrangers
    <2>4. QED
      BY <2>3, <1>13, <1>15 DEF ReceiverInv
  <1>16. CASE /\ DOMAIN pieces # {} /\ f # 0 /\ crashed' = crashed
              /\ flows' = [r.flows EXCEPT ![f].main = MainCodec(@, pieces)]
              /\ handed' = [k \in Inserted(pieces) |->
                              [flow |-> f, packet |-> p, piece |-> pieces[k]]]
    <2>1. Known(p)
      BY <1>10, <1>16
    <2>2. r = Sources /\ f \in 1..Len(flows)
      BY <2>1, <1>3, <1>9
    <2>3. r.flows = flows /\ mediaFlows' = mediaFlows /\ sourceMap' = sourceMap
      BY <2>2, <1>2 DEF Sources
    <2>4. IsSeq(flows)
      BY <1>5 DEF Attached, IsSources, Sources
    <2> DEFINE e == [flows[f] EXCEPT !.main = MainCodec(@, pieces)]
               z == [flows EXCEPT ![f] = e]
    <2>5. flows' = z
      BY <2>3, <1>16
    <2>6. e.type = flows[f].type
      OBVIOUS
    <2> HIDE DEF e
    <2>7. IsSeq(z)
      BY <2>2, <2>4, SeqExcept
    <2>8. Len(z) = Len(flows)
      BY <2>2, <2>4, SeqExcept
    <2>9. \A k \in 1..Len(flows) : z[k].type = flows[k].type
      BY <2>2, <2>4, <2>6, SeqFacts
    <2> HIDE DEF z
    <2>10. Attached(medias, Sources')
      <3>1. Sources' = [flows |-> z, mediaFlows |-> mediaFlows, sourceMap |-> sourceMap]
        BY <2>3, <2>5 DEF Sources
      <3> DEFINE y == Sources'
      <3>2. y.flows = z /\ y.mediaFlows = mediaFlows /\ y.sourceMap = sourceMap
        BY <3>1
      <3>3. IsSources(y)
        BY <2>7, <3>1, <3>2 DEF IsSources
      <3> HIDE DEF y
      <3>4. Placed(medias, y)
        BY <3>2, <2>8, <2>9, <1>5 DEF Attached, Placed, Sources
      <3>5. Lined(medias, y, Len(medias))
        BY <3>2, <2>8, <2>9, <1>5 DEF Attached, Lined, Sources
      <3>6. QED
        BY <3>2, <3>3, <3>4, <3>5, <1>5 DEF Attached, OneFlow, Sources, y
    <2>11. SourcesInv'
      BY <2>10, <1>1, <1>2 DEF SourcesInv
    <2>12. NullFlowOnlyForStrangers'
      BY <1>16 DEF NullFlowOnlyForStrangers
    <2>13. RightWindow' /\ RetransmissionFillsGap'
      <3>1. \A k \in 1..Len(flows) : flows'[k].type = flows[k].type
        BY <2>5, <2>9
      <3>2. handed' = [k \in Inserted(demuxRTP(medias[FindMedia(mline, p)].codecs, p)) |->
                      [flow |-> FlowOf(p), packet |-> p,
                       piece |-> demuxRTP(medias[FindMedia(mline, p)].codecs, p)[k]]]
        BY <1>16 DEF pieces, f
      <3>3. QED
        BY <3>1, <3>2, <2>1, <2>3, <2>11, <1>1, <1>2, HandedRight
    <2>14. QED
      BY <2>11, <2>12, <2>13 DEF ReceiverInv
  <1>17. QED
    BY <1>8, <1>14, <1>15, <1>16

\* The invariant holds before the SDP.
LEMMA ReceiverInvInit == Init => ReceiverInv
  <1> SUFFICES ASSUME Init PROVE ReceiverInv
    OBVIOUS
  <1>1. Attached(<< >>, [flows |-> << >>, mediaFlows |-> << >>, sourceMap |-> << >>])
    BY EmptySources
  <1>2. SourcesInv
    BY <1>1 DEF Init, SourcesInv, Sources
  <1>3. DOMAIN << >> = {}
    OBVIOUS
  <1>4. QED
    BY <1>2, <1>3 DEF Init, ReceiverInv, NullFlowOnlyForStrangers, RightWindow, RetransmissionFillsGap

\* Every step keeps the invariant.
LEMMA ReceiverInvNext == ReceiverInv /\ [Next]_vars => ReceiverInv'
  <1> SUFFICES ASSUME ReceiverInv, [Next]_vars PROVE ReceiverInv'
    OBVIOUS
  <1>1. CASE setRemoteSDP
    <2>1. SourcesInv'
      BY <1>1, SdpAttached DEF ReceiverInv
    <2>2. medias = << >> /\ handed' = handed /\ crashed' = crashed
      BY <1>1 DEF setRemoteSDP
    <2>3. handed' = << >> /\ crashed' = None /\ DOMAIN << >> = {}
      BY <2>2 DEF ReceiverInv, SourcesInv
    <2>4. QED
      BY <2>1, <2>3 DEF ReceiverInv, NullFlowOnlyForStrangers, RightWindow, RetransmissionFillsGap
  <1>2. ASSUME NEW mline \in Mlines, NEW p \in Packets, inputRTP(mline, p)
        PROVE  ReceiverInv'
    BY <1>2, RefusedInv, ReceivedInv DEF inputRTP
  <1>3. CASE Later \/ UNCHANGED vars
    <2>1. /\ medias' = medias /\ flows' = flows /\ mediaFlows' = mediaFlows
          /\ sourceMap' = sourceMap /\ handed' = handed /\ crashed' = crashed
      BY <1>3 DEF Later, vars, receiverVars
    <2>2. Sources' = Sources /\ Announced' = Announced
      BY <2>1 DEF Sources, Announced
    <2>3. QED
      BY <2>1, <2>2 DEF ReceiverInv, SourcesInv, NullFlowOnlyForStrangers, RightWindow,
                        RetransmissionFillsGap
  <1>4. QED
    BY <1>1, <1>2, <1>3 DEF Next

\* The invariant of the receiver.
LEMMA AlwaysReceiverInv == Spec => []ReceiverInv
  BY ReceiverInvInit, ReceiverInvNext, PTL DEF Spec

\* The null flow is used for no packet of an ssrc the SDP names.
THEOREM NullFlowAlwaysForStrangers == Spec => []NullFlowOnlyForStrangers
  <1>1. ReceiverInv => NullFlowOnlyForStrangers
    BY DEF ReceiverInv
  <1>2. QED
    BY <1>1, AlwaysReceiverInv, PTL

\* What goes into a window is of the medium of the window's flow.
THEOREM AlwaysRightWindow == Spec => []RightWindow
  <1>1. ReceiverInv => RightWindow
    BY DEF ReceiverInv
  <1>2. QED
    BY <1>1, AlwaysReceiverInv, PTL

\* A retransmission goes into the window of the stream of its FID group, under
\* the sequence number of the packet it repeats.
THEOREM RetransmissionAlwaysFillsGap == Spec => []RetransmissionFillsGap
  <1>1. ReceiverInv => RetransmissionFillsGap
    BY DEF ReceiverInv
  <1>2. QED
    BY <1>1, AlwaysReceiverInv, PTL

-----------------------------------------------------------------------------
(* The time a flow buffers.                                                *)

\* Where the vector has kept what is in it, it has the time of the first packet.
BufferInv ==
  /\ now \in Int
  /\ mflows \in Seq(Int \cup {None})
  /\ \A f \in DOMAIN first : first[f] \in Int
  /\ \A f : f \in DOMAIN first <=> f \in DOMAIN mflows /\ mflows[f] # None
  /\ \A f \in DOMAIN first \ moved : mflows[f] = first[f]
  /\ read # None => read.flow \in DOMAIN first
  /\ BufferedUnlessMoved

\* The vector is longer, and what was in it is as it was.
LEMMA GrownRight ==
  ASSUME NEW v \in Seq(Int \cup {None}), NEW f \in Nat \ {0}
  PROVE  /\ Grown(v, f) \in Seq(Int \cup {None}) /\ f \in 1..Len(Grown(v, f))
         /\ \A k \in 1..Len(v) : k \in 1..Len(Grown(v, f)) /\ Grown(v, f)[k] = v[k]
         /\ \A k \in 1..Len(Grown(v, f)) : k \notin 1..Len(v) => Grown(v, f)[k] = None
  <1> DEFINE T == Int \cup {None}
             n == f - Len(v)
             w == [k \in 1..n |-> None]
  <1>1. Len(v) \in Nat
    OBVIOUS
  <1>2. CASE Len(v) >= f
    <2>1. Grown(v, f) = v
      BY <1>2 DEF Grown
    <2>2. QED
      BY <2>1, <1>1, <1>2
  <1>3. CASE ~ (Len(v) >= f)
    <2>1. Grown(v, f) = v \o w
      BY <1>3 DEF Grown
    <2>2. n \in Nat /\ n > 0
      BY <1>1, <1>3
    <2>3. w \in [1..n -> T]
      OBVIOUS
    <2> HIDE DEF n
    <2>4. w \in Seq(T) /\ Len(w) = n
      BY <2>2, <2>3
    <2>5. \A k \in 1..n : w[k] = None
      OBVIOUS
    <2> HIDE DEF w, T
    <2>6. /\ v \o w \in Seq(T) /\ Len(v \o w) = Len(v) + n
          /\ \A k \in 1..(Len(v) + n) : (v \o w)[k] = IF k <= Len(v) THEN v[k] ELSE w[k - Len(v)]
      <3>1. v \in Seq(T)
        BY DEF T
      <3>2. QED
        BY <3>1, <2>4, ConcatProperties
    <2> DEFINE g == v \o w
    <2> HIDE DEF g
    <2>7. g \in Seq(T) /\ Len(g) = f /\ Len(v) + n = f
      BY <2>6, <1>1 DEF g, n
    <2>8. \A k \in 1..f : g[k] = IF k <= Len(v) THEN v[k] ELSE w[k - Len(v)]
      BY <2>6, <2>7 DEF g
    <2>9. ASSUME NEW k \in 1..Len(v) PROVE k \in 1..f /\ g[k] = v[k]
      BY <2>8, <1>1, <1>3
    <2>10. ASSUME NEW k \in 1..f, k \notin 1..Len(v) PROVE g[k] = None
      <3>1. ~ (k <= Len(v)) /\ k - Len(v) \in 1..n
        BY <2>7, <2>2, <2>10, <1>1
      <3>2. QED
        BY <3>1, <2>5, <2>8
    <2>11. Grown(v, f) = g
      BY <2>1 DEF g
    <2>12. QED
      BY <2>7, <2>9, <2>10, <2>11 DEF T
  <1>4. QED
    BY <1>2, <1>3

\* A packet that goes into a flow: the vector grows, and the flow is read or not.
LEMMA ReadFlowInv ==
  ASSUME BufferInv, NEW f \in Nat \ {0}, ReadFlow(f), now' = now
  PROVE  BufferInv'
  <1> DEFINE T == Int \cup {None}
             u == IF Moves(f) THEN Forgotten(mflows) ELSE mflows
             v == Grown(u, f)
  <1>1. /\ mflows' = [v EXCEPT ![f] = IF @ = None THEN now ELSE @]
        /\ moved' = IF Moves(f) THEN moved \cup {k \in DOMAIN mflows : mflows[k] # None} ELSE moved
        /\ first' = WithNew(first, {f}, now)
        /\ \E full \in BOOLEAN : read' = IF full \/ Due(f) THEN [flow |-> f, full |-> full] ELSE None
    BY DEF ReadFlow, checkAddMediaFlow
  <1>2. None \notin Int /\ -1 \in Int /\ now \in Int
    BY TimeAssumption DEF BufferInv
  <1>3. mflows \in Seq(T) /\ DOMAIN mflows = 1..Len(mflows) /\ Len(mflows) \in Nat
    BY DEF BufferInv
  <1>4. /\ u \in Seq(T) /\ Len(u) = Len(mflows)
        /\ \A k \in 1..Len(mflows) : u[k] = None <=> mflows[k] = None
        /\ ~ Moves(f) => u = mflows
    <2>1. CASE Moves(f)
      <3> DEFINE n == Len(mflows)
                 w == [k \in 1..n |-> IF mflows[k] = None THEN None ELSE -1]
      <3>1. u = w
        BY <2>1, <1>3 DEF Forgotten
      <3>2. w \in [1..n -> T]
        OBVIOUS
      <3>3. w \in Seq(T) /\ Len(w) = n
        <4>1. n \in Nat
          BY <1>3
        <4> HIDE DEF n
        <4>2. QED
          BY <3>2, <4>1
      <3>4. \A k \in 1..n : w[k] = None <=> mflows[k] = None
        BY <1>2
      <3>5. QED
        BY <2>1, <3>1, <3>3, <3>4
    <2>2. CASE ~ Moves(f)
      BY <2>2, <1>3
    <2>3. QED
      BY <2>1, <2>2
  <1> HIDE DEF u
  <1>5. /\ v \in Seq(T) /\ f \in 1..Len(v)
        /\ \A k \in 1..Len(u) : k \in 1..Len(v) /\ v[k] = u[k]
        /\ \A k \in 1..Len(v) : k \notin 1..Len(u) => v[k] = None
    BY <1>4, GrownRight
  <1>6. DOMAIN v = 1..Len(v)
    BY <1>5
  <1> HIDE DEF v, T
  <1> DEFINE t == IF v[f] = None THEN now ELSE v[f]
  <1>7. t \in T /\ t # None
    BY <1>2, <1>5 DEF T
  <1>8. mflows' = [v EXCEPT ![f] = t]
    BY <1>1
  <1> HIDE DEF t
  <1>9. /\ mflows' \in Seq(T) /\ DOMAIN mflows' = DOMAIN v
        /\ \A k \in DOMAIN v : mflows'[k] = IF k = f THEN t ELSE v[k]
    <2>1. mflows' \in Seq(T)
      BY <1>5, <1>7, <1>8, ExceptSeq
    <2>2. QED
      BY <2>1, <1>6, <1>8
  <1>10. DOMAIN first' = DOMAIN first \cup {f}
         /\ \A k \in DOMAIN first' : first'[k] = IF k \in DOMAIN first THEN first[k] ELSE now
    BY <1>1 DEF WithNew
  <1>11. \A k : k \in DOMAIN first <=> k \in 1..Len(u) /\ u[k] # None
    BY <1>3, <1>4 DEF BufferInv
  <1>12. ASSUME NEW k
         PROVE  k \in DOMAIN first' <=> k \in DOMAIN mflows' /\ mflows'[k] # None
    BY <1>5, <1>6, <1>7, <1>9, <1>10, <1>11
  <1>13. ASSUME NEW k \in DOMAIN first', k \notin moved'
         PROVE  mflows'[k] = first'[k]
    <2>1. CASE k \in DOMAIN first
      <3>1. k \in DOMAIN mflows /\ mflows[k] # None
        BY <2>1 DEF BufferInv
      <3>2. ~ Moves(f)
        BY <3>1, <1>1, <1>13
      <3>3. mflows[k] = first[k]
        BY <2>1, <3>2, <1>1, <1>13 DEF BufferInv
      <3>4. v[k] = first[k] /\ v[k] # None /\ k \in DOMAIN v
        BY <3>1, <3>2, <3>3, <1>3, <1>4, <1>5, <1>6
      <3>5. mflows'[k] = v[k]
        BY <3>4, <1>9 DEF t
      <3>6. QED
        BY <2>1, <3>4, <3>5, <1>10
    <2>2. CASE k \notin DOMAIN first
      <3>1. k = f
        BY <2>2, <1>10
      <3>2. v[f] = None
        BY <2>2, <3>1, <1>5, <1>11
      <3>3. t = now
        BY <3>2 DEF t
      <3>4. QED
        BY <2>2, <3>1, <3>3, <1>5, <1>6, <1>9, <1>10
    <2>3. QED
      BY <2>1, <2>2
  <1>14. \A k \in DOMAIN first' : first'[k] \in Int
    BY <1>2, <1>10 DEF BufferInv
  <1>15. read' # None => read'.flow = f
    BY <1>1
  <1>16. BufferedUnlessMoved'
    <2> SUFFICES ASSUME read' # None, ~ read'.full, read'.flow \notin moved'
                 PROVE  now' - first'[read'.flow] >= Duration
      BY DEF BufferedUnlessMoved
    <2>1. PICK full \in BOOLEAN : read' = IF full \/ Due(f) THEN [flow |-> f, full |-> full] ELSE None
      BY <1>1
    <2>2. Due(f)
      BY <2>1
    <2>3. f \in DOMAIN first' /\ f \notin moved'
      BY <1>10, <1>15
    <2>4. mflows'[f] = first'[f]
      BY <2>3, <1>13
    <2>5. now - first'[f] >= Duration
      BY <2>2, <2>4 DEF Due
    <2>6. QED
      BY <2>5, <1>15
  <1>17. read' # None => read'.flow \in DOMAIN first'
    BY <1>10, <1>15
  <1>18. now' \in Int
    BY <1>2
  <1>19. \A k \in DOMAIN first' \ moved' : mflows'[k] = first'[k]
    BY <1>13
  <1>20. QED
    BY <1>9, <1>12, <1>14, <1>16, <1>17, <1>18, <1>19 DEF BufferInv, T

\* A packet that is in no flow.
LEMMA NoFlowInv ==
  ASSUME BufferInv, NoFlow, now' = now
  PROVE  BufferInv'
  BY DEF BufferInv, NoFlow, BufferedUnlessMoved

\* Every step keeps the times.
LEMMA BufferInvNext == ReceiverInv /\ BufferInv /\ [Next]_vars => BufferInv'
  <1> SUFFICES ASSUME ReceiverInv, BufferInv, [Next]_vars PROVE BufferInv'
    OBVIOUS
  <1>1. CASE setRemoteSDP \/ UNCHANGED vars
    <2>1. /\ mflows' = mflows /\ now' = now /\ read' = read /\ first' = first /\ moved' = moved
      BY <1>1 DEF setRemoteSDP, vars
    <2>2. QED
      BY <2>1 DEF BufferInv, BufferedUnlessMoved
  <1>2. ASSUME NEW mline \in Mlines, NEW p \in Packets, inputRTP(mline, p)
        PROVE  BufferInv'
    <2>1. medias # << >> /\ now' = now
      BY <1>2 DEF inputRTP
    <2>2. CASE Refused(mline, p)
      BY <2>1, <2>2, NoFlowInv DEF Refused
    <2>3. CASE Received(mline, p)
      <3>1. NoFlow \/ (FlowOf(p) # 0 /\ ReadFlow(FlowOf(p)))
        BY <2>3 DEF Received
      <3>2. FlowOf(p) # 0 => FlowOf(p) \in Nat \ {0}
        <4>1. Attached(medias, Sources)
          BY <2>1, MediasKnown DEF ReceiverInv
        <4>2. Len(flows) \in Nat
          BY <4>1, SeqFacts DEF Attached, IsSources, Sources
        <4>3. FlowOf(p) # 0 => FlowOf(p) \in 1..Len(flows)
          BY <4>1 DEF FlowOf, Attached, Placed, Sources, Known
        <4>4. QED
          BY <4>2, <4>3
      <3>3. QED
        BY <3>1, <3>2, <2>1, NoFlowInv, ReadFlowInv
    <2>4. QED
      BY <2>2, <2>3, <1>2 DEF inputRTP
  <1>3. CASE Later
    <2>1. /\ mflows' = mflows /\ now' = now + 1 /\ read' = read /\ first' = first /\ moved' = moved
      BY <1>3 DEF Later
    <2>2. BufferedUnlessMoved'
      <3> SUFFICES ASSUME read # None, ~ read.full, read.flow \notin moved
                   PROVE  now' - first[read.flow] >= Duration
        BY <2>1 DEF BufferedUnlessMoved
      <3>1. now - first[read.flow] >= Duration
        BY DEF BufferInv, BufferedUnlessMoved
      <3>2. now \in Int /\ first[read.flow] \in Int /\ Duration \in Int
        BY TimeAssumption DEF BufferInv
      <3>3. QED
        BY <2>1, <3>1, <3>2
    <2>3. QED
      BY <2>1, <2>2 DEF BufferInv
  <1>4. QED
    BY <1>1, <1>2, <1>3 DEF Next

\* A flow that no later one made the vector move is not read before its time.
THEOREM AlwaysBufferedUnlessMoved == Spec => []BufferedUnlessMoved
  <1>1. Init => BufferInv
    <2> SUFFICES ASSUME Init PROVE BufferInv
      OBVIOUS
    <2>1. << >> \in Seq(Int \cup {None}) /\ DOMAIN << >> = {}
      OBVIOUS
    <2>2. QED
      BY <2>1, TimeAssumption DEF Init, BufferInv, BufferedUnlessMoved
  <1>2. BufferInv => BufferedUnlessMoved
    BY DEF BufferInv
  <1>3. QED
    BY <1>1, <1>2, BufferInvNext, AlwaysReceiverInv, PTL DEF Spec

-----------------------------------------------------------------------------
(* The clocks: numbers.                                                    *)

\* Quotient and remainder.
LEMMA QuotRem ==
  ASSUME NEW m \in Nat \ {0}, NEW a \in Int
  PROVE  a \div m \in Int /\ a % m \in 0 .. m - 1 /\ a = m * (a \div m) + (a % m)
  BY SMT

-----------------------------------------------------------------------------
(* Timestamps.                                                             *)

Half == TsRange \div 2

\* Equal up to whole turns of the timestamps.
Congruent(x, y) == \E k \in Int : x = y + TsRange * k

LEMMA Halves ==
  TsRange \in Nat \ {0} /\ Half \in Nat \ {0} /\ TsRange = 2 * Half
  BY RangeAssumption DEF Half

LEMMA ModCongruent ==
  ASSUME NEW x \in Int
  PROVE  x % TsRange \in 0 .. TsRange - 1 /\ Congruent(x % TsRange, x)
  <1> DEFINE q == x \div TsRange
             r == x % TsRange
  <1>1. r \in 0 .. TsRange - 1 /\ q \in Int /\ x = TsRange * q + r
    BY Halves, QuotRem
  <1> HIDE DEF q, r
  <1>2. r = x + TsRange * (-q) /\ -q \in Int
    BY <1>1, Halves
  <1>3. QED
    BY <1>1, <1>2 DEF Congruent, r

LEMMA CongruentAdd ==
  ASSUME NEW x \in Int, NEW y \in Int, NEW z \in Int, NEW w \in Int,
         Congruent(x, y), Congruent(z, w)
  PROVE  Congruent(x + z, y + w) /\ Congruent(x - z, y - w)
  <1>1. PICK j \in Int : x = y + TsRange * j
    BY DEF Congruent
  <1>2. PICK k \in Int : z = w + TsRange * k
    BY DEF Congruent
  <1>3. x + z = (y + w) + TsRange * (j + k) /\ x - z = (y - w) + TsRange * (j - k)
    BY <1>1, <1>2, Halves
  <1>4. j + k \in Int /\ j - k \in Int
    OBVIOUS
  <1>5. QED
    BY <1>3, <1>4 DEF Congruent

LEMMA CongruentTrans ==
  ASSUME NEW x \in Int, NEW y \in Int, NEW z \in Int, Congruent(x, y), Congruent(y, z)
  PROVE  Congruent(x, z)
  <1>1. PICK j \in Int : x = y + TsRange * j
    BY DEF Congruent
  <1>2. PICK k \in Int : y = z + TsRange * k
    BY DEF Congruent
  <1>3. x = z + TsRange * (j + k) /\ j + k \in Int
    BY <1>1, <1>2, Halves
  <1>4. QED
    BY <1>3 DEF Congruent

LEMMA CongruentSelf ==
  ASSUME NEW x \in Int
  PROVE  Congruent(x, x)
  <1>1. x = x + TsRange * 0
    BY Halves
  <1>2. QED
    BY <1>1 DEF Congruent

\* The signed difference of two timestamps is the only number within half a
\* turn that leads from one to the other.
LEMMA DeltaTsRight ==
  ASSUME NEW x \in Int, NEW y \in Int, NEW d \in Int, -Half <= d, d < Half,
         Congruent(x - y, d)
  PROVE  DeltaTs(x, y) = d
  <1> DEFINE m == (x - y) % TsRange
             e == IF m < Half THEN m ELSE m - TsRange
  <1>1. x - y \in Int
    OBVIOUS
  <1>2. m \in 0 .. TsRange - 1 /\ Congruent(m, x - y)
    BY <1>1, ModCongruent
  <1>3. DeltaTs(x, y) = e
    BY DEF DeltaTs, Half
  <1> HIDE DEF m
  <1>4. PICK j \in Int : m = (x - y) + TsRange * j
    BY <1>2 DEF Congruent
  <1>5. PICK k \in Int : x - y = d + TsRange * k
    BY DEF Congruent
  <1>6. PICK l \in Int : e = d + TsRange * l
    <2>1. CASE m < Half
      <3>1. e = d + TsRange * (j + k) /\ j + k \in Int
        BY <1>4, <1>5, <2>1, Halves
      <3>2. QED
        BY <3>1
    <2>2. CASE ~(m < Half)
      <3>1. e = d + TsRange * (j + k - 1) /\ j + k - 1 \in Int
        BY <1>4, <1>5, <2>2, Halves
      <3>2. QED
        BY <3>1
    <2>3. QED
      BY <2>1, <2>2
  <1>7. e \in Int /\ -Half <= e /\ e < Half
    BY <1>2, Halves
  <1> HIDE DEF e
  <1>8. l = 0
    <2>1. CASE l >= 1
      <3>1. TsRange * l >= TsRange
        BY <2>1, Halves
      <3>2. QED
        BY <3>1, <1>6, <1>7, Halves
    <2>2. CASE l <= -1
      <3>1. TsRange * l <= -TsRange
        BY <2>2, Halves
      <3>2. QED
        BY <3>1, <1>6, <1>7, Halves
    <2>3. QED
      BY <2>1, <2>2
  <1>9. QED
    BY <1>3, <1>6, <1>8, Halves

-----------------------------------------------------------------------------
(* From timestamps to NTP time.                                            *)

\* Rounding: a multiple of the rate that misses a number by less than the rate.
LEMMA Rounded ==
  ASSUME NEW rate \in Nat \ {0}, NEW a \in Int
  PROVE  /\ a \div rate \in Int
         /\ a - rate * (a \div rate) \in 0 .. rate - 1
  <1> DEFINE q == a \div rate
             r == a % rate
  <1>1. r \in 0 .. rate - 1 /\ q \in Int /\ a = rate * q + r
    BY QuotRem
  <1> HIDE DEF q, r
  <1>2. a - rate * q = r
    BY <1>1
  <1>3. QED
    BY <1>1, <1>2 DEF q

\* How much the NTP time a number of timestamps is converted to is short of
\* the exact one, in 1/rate units.
Short(d, rate) == Unit * d - rate * DeltaTimestamp2NTP(d, rate)

LEMMA DeltaShort ==
  ASSUME NEW rate \in Nat \ {0}, NEW d \in Int
  PROVE  /\ DeltaTimestamp2NTP(d, rate) \in Int
         /\ Short(d, rate) \in -(rate - 1) .. rate - 1
  <1> DEFINE a == Abs(d)
             q == a \div rate
             r == a % rate
             u == Unit * r
             v == u \div rate
             w == Unit * q
             ntp == w + v
  <1>1. Unit \in Nat \ {0}
    BY ClockAssumption
  <1>2. a \in Nat /\ (d >= 0 => d = a) /\ (d < 0 => d = -a)
    BY DEF Abs
  <1> HIDE DEF a
  <1>3. q \in Nat /\ r \in 0 .. rate - 1 /\ a = rate * q + r
    BY <1>2, SMT
  <1>4. DeltaTimestamp2NTP(d, rate) = IF d >= 0 THEN ntp ELSE -ntp
    <2>1. q * Unit = Unit * q
      <3> HIDE DEF q
      <3>1. QED
        BY <1>1, <1>3
    <2>2. QED
      BY <2>1 DEF DeltaTimestamp2NTP, a
  <1> HIDE DEF q, r
  <1>5. u \in Int
    BY <1>1, <1>3
  <1> HIDE DEF u
  <1>6. v \in Int /\ u - rate * v \in 0 .. rate - 1
    BY <1>5, Rounded
  <1> HIDE DEF v
  <1>7. Unit * a = rate * w + u /\ w \in Int
    BY <1>1, <1>3 DEF u
  <1> HIDE DEF w
  <1>8. ntp \in Int /\ rate * ntp = rate * w + rate * v
    BY <1>6, <1>7
  <1>9. Unit * a - rate * ntp \in 0 .. rate - 1
    <2> HIDE DEF ntp
    <2>1. Unit * a \in Int /\ rate * ntp \in Int /\ rate * v \in Int /\ rate * w \in Int
      BY <1>1, <1>2, <1>6, <1>7, <1>8
    <2>2. QED
      BY <2>1, <1>5, <1>6, <1>7, <1>8
  <1> HIDE DEF ntp
  <1>10. CASE d >= 0
    BY <1>2, <1>4, <1>8, <1>9, <1>10 DEF Short
  <1>11. CASE d < 0
    <2>1. Unit * d = -(Unit * a) /\ rate * (-ntp) = -(rate * ntp)
      BY <1>1, <1>2, <1>8, <1>11
    <2>2. Unit * a \in Int /\ rate * ntp \in Int
      BY <1>1, <1>2, <1>8
    <2>3. DeltaTimestamp2NTP(d, rate) = -ntp
      BY <1>4, <1>11
    <2>4. Short(d, rate) = -(Unit * a) - (-(rate * ntp))
      BY <2>1, <2>3 DEF Short
    <2>5. QED
      BY <2>2, <2>3, <2>4, <1>8, <1>9
  <1>12. QED
    BY <1>10, <1>11

\* Small multiples have small factors.
LEMMA SmallFactor ==
  ASSUME NEW rate \in Nat \ {0}, NEW x \in Int, -(2 * rate) < rate * x, rate * x < 2 * rate
  PROVE  x \in -1 .. 1
  <1>1. ~(x >= 2)
    <2>1. SUFFICES ASSUME x >= 2
                   PROVE  rate * x >= 2 * rate
      OBVIOUS
    <2>2. QED
      BY <2>1
  <1>2. ~(x <= -2)
    <2>1. SUFFICES ASSUME x <= -2
                   PROVE  rate * x <= -(2 * rate)
      OBVIOUS
    <2>2. QED
      BY <2>1
  <1>3. QED
    BY <1>1, <1>2

\* The sender's clock moves by what DeltaTimestamp2NTP says, to one unit.
LEMMA SenderMoves ==
  ASSUME NEW f \in Flow, NEW a \in Int, NEW k \in Int
  PROVE  /\ SenderNTP(f, a) \in Int
         /\ SenderNTP(f, a) + DeltaTimestamp2NTP(k, Rate[f]) - SenderNTP(f, a + k) \in -1 .. 1
  <1> DEFINE rate == Rate[f]
             p == (Unit * a) \div rate
             q == (Unit * (a + k)) \div rate
             d == DeltaTimestamp2NTP(k, rate)
  <1>1. rate \in Nat \ {0} /\ Epoch[f] \in Int /\ Unit \in Nat \ {0}
    BY ClockAssumption
  <1>2. SenderNTP(f, a) = Epoch[f] + p /\ SenderNTP(f, a + k) = Epoch[f] + q
    BY DEF SenderNTP
  <1>3. Unit * a \in Int /\ Unit * (a + k) \in Int /\ Unit * k \in Int
        /\ Unit * (a + k) = Unit * a + Unit * k
    BY <1>1
  <1>4. /\ p \in Int /\ Unit * a - rate * p \in 0 .. rate - 1
        /\ q \in Int /\ Unit * (a + k) - rate * q \in 0 .. rate - 1
    <2> HIDE DEF rate
    <2>1. QED
      BY <1>1, <1>3, Rounded
  <1>5. d \in Int /\ Unit * k - rate * d \in -(rate - 1) .. rate - 1
    BY <1>1, DeltaShort DEF Short
  <1> HIDE DEF p, q, d, rate
  <1>6. rate * (p + d - q) = rate * p + rate * d - rate * q
        /\ rate * p \in Int /\ rate * d \in Int /\ rate * q \in Int
    BY <1>1, <1>4, <1>5
  <1>7. -(2 * rate) < rate * (p + d - q) /\ rate * (p + d - q) < 2 * rate
    BY <1>1, <1>3, <1>4, <1>5, <1>6
  <1>8. p + d - q \in -1 .. 1
    BY <1>1, <1>4, <1>5, <1>7, SmallFactor
  <1>9. QED
    BY <1>1, <1>2, <1>4, <1>5, <1>8 DEF d, rate

-----------------------------------------------------------------------------
(* The inductive invariants.                                               *)

Types ==
  /\ lastTS \in [Flow -> 0 .. TsRange - 1] /\ lastNTP \in [Flow -> Int]
  /\ remoteNTP \in [Flow -> Int]
  /\ report \in [Flow -> [valid : BOOLEAN, ntp : Int, ts : 0 .. TsRange - 1]]
  /\ start \in [Flow -> Int] /\ elapsed \in [Flow -> Int] /\ reported \in [Flow -> Int]
  /\ frames \in [Flow -> Nat] /\ fresh \in [Flow -> BOOLEAN] /\ fixed \in Int

\* What a flow's timestamps and reports say of the steps made.
Steps(f) ==
  /\ frames[f] = 0 => elapsed[f] = 0 /\ ~fresh[f] /\ (f = "video" => fixed = 0)
  /\ frames[f] > 0 => Congruent(lastTS[f], FirstTs[f] + elapsed[f])
  /\ report[f].valid => /\ report[f].ntp = SenderNTP(f, reported[f])
                        /\ Congruent(report[f].ts, FirstTs[f] + reported[f])

\* The sender's time is right to a unit.
Remote(f) == fresh[f] => remoteNTP[f] - SenderNTP(f, elapsed[f]) \in -1 .. 1

TInv == Types /\ \A f \in Flow : Steps(f) /\ Remote(f)

\* Where the corrections aside the local clock has been taken.
Ran(f) == lastNTP[f] - start[f] - (IF f = "video" THEN fixed ELSE 0)

-----------------------------------------------------------------------------
(* One frame.                                                              *)

FrameTs(f, step) == IF frames[f] = 0 THEN FirstTs[f] ELSE (lastTS[f] + step) % TsRange
Elapsed(f, step) == IF frames[f] = 0 THEN 0 ELSE elapsed[f] + step

LEMMA Constants ==
  ASSUME NEW f \in Flow
  PROVE  /\ TsRange \in Nat \ {0} /\ Unit \in Nat \ {0}
         /\ FirstTs[f] \in 0 .. TsRange - 1 /\ FirstTs[f] \in Int
         /\ Rate[f] \in Nat \ {0} /\ Epoch[f] \in Nat
  BY RangeAssumption, ClockAssumption

\* The timestamp of a frame is that of the first one plus the steps made.
LEMMA FrameTsRight ==
  ASSUME TInv, NEW f \in Flow, NEW step \in Step
  PROVE  /\ FrameTs(f, step) \in 0 .. TsRange - 1
         /\ Elapsed(f, step) \in Int
         /\ Congruent(FrameTs(f, step), FirstTs[f] + Elapsed(f, step))
         /\ frames[f] > 0 => DeltaTs(FrameTs(f, step), lastTS[f]) = step
  <1>1. /\ TsRange \in Nat \ {0} /\ FirstTs[f] \in 0 .. TsRange - 1 /\ FirstTs[f] \in Int
        /\ step \in Int /\ -Half <= step /\ step < Half
    BY Constants, RangeAssumption DEF Half
  <1>2. lastTS[f] \in 0 .. TsRange - 1 /\ lastTS[f] \in Int /\ elapsed[f] \in Int /\ frames[f] \in Nat
    BY <1>1 DEF TInv, Types
  <1>3. CASE frames[f] = 0
    <2>1. FrameTs(f, step) = FirstTs[f] /\ Elapsed(f, step) = 0 /\ FirstTs[f] + 0 = FirstTs[f]
      BY <1>1, <1>3 DEF FrameTs, Elapsed
    <2>2. QED
      BY <2>1, <1>1, <1>3, CongruentSelf
  <1>4. CASE frames[f] > 0
    <2> DEFINE x == lastTS[f] + step
               y == FirstTs[f] + elapsed[f]
               ts == x % TsRange
    <2>1. FrameTs(f, step) = ts /\ Elapsed(f, step) = elapsed[f] + step
      BY <1>2, <1>4 DEF FrameTs, Elapsed
    <2>2. x \in Int /\ y \in Int /\ y + step = FirstTs[f] + (elapsed[f] + step)
          /\ x - lastTS[f] = step
      BY <1>1, <1>2
    <2>3. ts \in 0 .. TsRange - 1 /\ Congruent(ts, x)
      BY <2>2, ModCongruent
    <2>4. ts \in Int
      BY <2>3, <1>1
    <2>5. Congruent(lastTS[f], y)
      BY <1>4 DEF TInv, Steps
    <2> HIDE DEF ts, y
    <2>6. Congruent(x, y + step)
      BY <2>2, <2>5, <1>1, <1>2, CongruentAdd, CongruentSelf
    <2> HIDE DEF x
    <2>7. y + step \in Int
      BY <2>2, <1>1
    <2>8. Congruent(ts, y + step)
      BY <2>2, <2>3, <2>4, <2>6, <2>7, CongruentTrans
    <2>9. Congruent(ts - lastTS[f], x - lastTS[f])
      BY <2>2, <2>3, <2>4, <1>2, CongruentAdd, CongruentSelf
    <2>10. DeltaTs(ts, lastTS[f]) = step
      BY <2>2, <2>4, <2>9, <1>1, <1>2, DeltaTsRight
    <2>11. QED
      BY <2>1, <2>2, <2>3, <2>8, <2>10, <1>1, <1>2
  <1>5. QED
    BY <1>2, <1>3, <1>4

\* The sender's time of a frame less than half a turn from the report.
LEMMA ConvertRight ==
  ASSUME TInv, NEW f \in Flow, NEW step \in Step, report[f].valid,
         Abs(Elapsed(f, step) - reported[f]) < Half
  PROVE  Convert(f, FrameTs(f, step)) - SenderNTP(f, Elapsed(f, step)) \in -1 .. 1
  <1> DEFINE ts == FrameTs(f, step)
             e == Elapsed(f, step)
             r == reported[f]
             from == report[f].ts
             d == e - r
  <1>1. /\ ts \in 0 .. TsRange - 1 /\ e \in Int /\ Congruent(ts, FirstTs[f] + e)
    BY FrameTsRight
  <1>2. TsRange \in Nat \ {0} /\ FirstTs[f] \in Int /\ Half \in Nat
    BY Constants, Halves
  <1>3. r \in Int /\ from \in 0 .. TsRange - 1 /\ report[f].ntp = SenderNTP(f, r)
        /\ Congruent(from, FirstTs[f] + r)
    BY DEF TInv, Types, Steps
  <1>4. Abs(d) < Half
    OBVIOUS
  <1>5. Convert(f, ts) = report[f].ntp + DeltaTimestamp2NTP(DeltaTs(ts, from), Rate[f])
    BY DEF Convert
  <1> HIDE DEF ts, e, r, from
  <1>6. ts \in Int /\ from \in Int /\ FirstTs[f] + e \in Int /\ FirstTs[f] + r \in Int
        /\ (FirstTs[f] + e) - (FirstTs[f] + r) = d /\ d \in Int /\ r + d = e
    BY <1>1, <1>2, <1>3
  <1> HIDE DEF d
  <1>7. -Half <= d /\ d < Half
    BY <1>2, <1>4, <1>6 DEF Abs
  <1>8. Congruent(ts - from, d)
    BY <1>1, <1>3, <1>6, CongruentAdd
  <1>9. DeltaTs(ts, from) = d
    BY <1>6, <1>7, <1>8, DeltaTsRight
  <1>10. SenderNTP(f, r) + DeltaTimestamp2NTP(d, Rate[f]) - SenderNTP(f, r + d) \in -1 .. 1
    BY <1>3, <1>6, SenderMoves
  <1>11. Convert(f, ts) = SenderNTP(f, r) + DeltaTimestamp2NTP(d, Rate[f])
    BY <1>3, <1>5, <1>9
  <1>12. Convert(f, ts) - SenderNTP(f, e) \in -1 .. 1
    <2> DEFINE c == Convert(f, ts)
               x == SenderNTP(f, r)
               y == DeltaTimestamp2NTP(d, Rate[f])
               z == SenderNTP(f, e)
    <2>1. r + d = e
      BY <1>6
    <2>2. x + y - z \in -1 .. 1
      BY <2>1, <1>10
    <2>3. c = x + y
      BY <1>11
    <2>4. x \in Int /\ y \in Int /\ z \in Int
      BY <1>1, <1>3, <1>6, SenderMoves, DeltaShort, Constants
    <2> HIDE DEF c, x, y, z
    <2>5. c - z \in -1 .. 1
      BY <2>2, <2>3, <2>4
    <2>6. QED
      BY <2>5 DEF c, z
  <1>13. QED
    BY <1>12 DEF ts, e

\* The types of what a frame is given.
LEMMA FrameTypes ==
  ASSUME TInv, NEW f \in Flow, NEW step \in Step, NEW arrival \in Arrival
  PROVE  /\ Convert(f, FrameTs(f, step)) \in Int
         /\ LocalInput(f, FrameTs(f, step), arrival) \in Int
         /\ \A l \in Int, r \in Int : Correction(l, r) \in Int
  <1>1. FrameTs(f, step) \in Int /\ lastTS[f] \in Int /\ lastNTP[f] \in Int
        /\ report[f].ts \in Int /\ report[f].ntp \in Int
    BY FrameTsRight, RangeAssumption DEF TInv, Types
  <1>2. arrival \in Int /\ Rate[f] \in Nat \ {0}
    BY ClockAssumption
  <1>3. \A x \in Int, y \in Int : DeltaTs(x, y) \in Int
    BY RangeAssumption DEF DeltaTs
  <1>4. Convert(f, FrameTs(f, step)) \in Int
    <2> DEFINE x == DeltaTs(FrameTs(f, step), report[f].ts)
    <2>1. x \in Int
      BY <1>1, <1>3
    <2>2. DeltaTimestamp2NTP(x, Rate[f]) \in Int
      <3> HIDE DEF x
      <3>1. QED
        BY <2>1, <1>2, DeltaShort
    <2>3. QED
      BY <2>2, <1>1 DEF Convert
  <1>5. LocalInput(f, FrameTs(f, step), arrival) \in Int
    <2> DEFINE x == DeltaTs(FrameTs(f, step), lastTS[f])
    <2>1. x \in Int
      BY <1>1, <1>3
    <2>2. DeltaTimestamp2NTP(x, Rate[f]) \in Int
      <3> HIDE DEF x
      <3>1. QED
        BY <2>1, <1>2, DeltaShort
    <2>3. QED
      BY <2>2, <1>1, <1>2 DEF LocalInput
  <1>6. \A x \in Int : Quarter(x) \in Int
    BY DEF Quarter, Abs
  <1>7. lastNTP["audio"] \in Int /\ remoteNTP["audio"] \in Int
    BY DEF TInv, Types, Flow
  <1>8. \A l \in Int, r \in Int : Correction(l, r) \in Int
    BY <1>6, <1>7 DEF Correction
  <1>9. QED
    BY <1>4, <1>5, <1>8

\* processFrame in the terms above.
LEMMA FrameStep ==
  ASSUME TInv, NEW f \in Flow, NEW step \in Step, NEW arrival \in Arrival,
         processFrame(f, step, arrival)
  PROVE  LET ts     == FrameTs(f, step)
             local  == LocalInput(f, ts, arrival)
             remote == Convert(f, ts)
             fix    == IF f = "video" THEN Correction(local, remote) ELSE 0
         IN  /\ lastTS' = [lastTS EXCEPT ![f] = ts]
             /\ lastNTP' = [lastNTP EXCEPT ![f] = local + fix]
             /\ remoteNTP' = [remoteNTP EXCEPT ![f] = remote]
             /\ start' = IF frames[f] = 0 THEN [start EXCEPT ![f] = local] ELSE start
             /\ elapsed' = [elapsed EXCEPT ![f] = Elapsed(f, step)]
             /\ frames' = [frames EXCEPT ![f] = frames[f] + 1]
             /\ fresh' = [fresh EXCEPT ![f] = /\ report[f].valid
                                              /\ Abs(Elapsed(f, step) - reported[f]) < Half]
             /\ fixed' = fixed + fix
             /\ UNCHANGED <<report, reported>>
  <1>1. elapsed \in [Flow -> Int]
    BY DEF TInv, Types
  <1>2. elapsed' = [elapsed EXCEPT ![f] = Elapsed(f, step)]
    <2>1. CASE frames[f] = 0
      <3>1. elapsed' = elapsed /\ elapsed[f] = 0 /\ Elapsed(f, step) = 0
        BY <2>1 DEF processFrame, Elapsed, TInv, Steps
      <3>2. QED
        BY <3>1, <1>1
    <2>2. CASE frames[f] # 0
      BY <2>2 DEF processFrame, Elapsed
    <2>3. QED
      BY <2>1, <2>2
  <1>3. elapsed'[f] = Elapsed(f, step)
    BY <1>1, <1>2
  <1>4. QED
    BY <1>2, <1>3 DEF processFrame, FrameTs, Half

LEMMA ReportStep ==
  ASSUME TInv, NEW f \in Flow, updateNTP(f)
  PROVE  TInv'
  <1>1. elapsed[f] \in Int /\ FirstTs[f] \in Int
    BY Constants DEF TInv, Types
  <1>2. SenderNTP(f, elapsed[f]) \in Int
    BY <1>1, SenderMoves
  <1>3. FirstTs[f] + elapsed[f] \in Int
    BY <1>1
  <1>4. (FirstTs[f] + elapsed[f]) % TsRange \in 0 .. TsRange - 1
        /\ Congruent((FirstTs[f] + elapsed[f]) % TsRange, FirstTs[f] + elapsed[f])
    BY <1>3, ModCongruent
  <1>5. UNCHANGED <<lastTS, lastNTP, remoteNTP, start, elapsed, frames, fresh, fixed>>
    BY DEF updateNTP
  <1> DEFINE ts == (FirstTs[f] + elapsed[f]) % TsRange
             sr == [valid |-> TRUE, ntp |-> SenderNTP(f, elapsed[f]), ts |-> ts]
  <1>6. report' = [report EXCEPT ![f] = sr] /\ reported' = [reported EXCEPT ![f] = elapsed[f]]
    BY DEF updateNTP
  <1> HIDE DEF ts
  <1>7. sr \in [valid : BOOLEAN, ntp : Int, ts : 0 .. TsRange - 1]
    BY <1>2, <1>4 DEF ts
  <1>8. Types'
    BY <1>1, <1>5, <1>6, <1>7 DEF TInv, Types
  <1>9. ASSUME NEW g \in Flow
        PROVE  Steps(g)' /\ Remote(g)'
    <2>1. Remote(g)'
      BY <1>5 DEF TInv, Remote, SenderNTP
    <2>2. CASE g = f
      <3>1. report'[f] = sr /\ reported'[f] = elapsed[f]
        BY <1>6 DEF TInv, Types
      <3>2. QED
        BY <2>1, <2>2, <3>1, <1>4, <1>5 DEF TInv, Steps, SenderNTP, Congruent, ts
    <2>3. CASE g # f
      <3>1. report'[g] = report[g] /\ reported'[g] = reported[g]
        BY <2>3, <1>6 DEF TInv, Types
      <3>2. QED
        BY <2>1, <3>1, <1>5 DEF TInv, Steps, SenderNTP, Congruent
    <2>4. QED
      BY <2>2, <2>3
  <1>10. QED
    BY <1>8, <1>9 DEF TInv

LEMMA FrameInv ==
  ASSUME TInv, NEW f \in Flow, NEW step \in Step, NEW arrival \in Arrival,
         processFrame(f, step, arrival)
  PROVE  TInv'
  <1> DEFINE ts     == FrameTs(f, step)
             local  == LocalInput(f, ts, arrival)
             remote == Convert(f, ts)
             fix    == IF f = "video" THEN Correction(local, remote) ELSE 0
             e      == Elapsed(f, step)
             near   == report[f].valid /\ Abs(Elapsed(f, step) - reported[f]) < Half
  <1>1. /\ lastTS' = [lastTS EXCEPT ![f] = ts]
        /\ lastNTP' = [lastNTP EXCEPT ![f] = local + fix]
        /\ remoteNTP' = [remoteNTP EXCEPT ![f] = remote]
        /\ start' = IF frames[f] = 0 THEN [start EXCEPT ![f] = local] ELSE start
        /\ elapsed' = [elapsed EXCEPT ![f] = e]
        /\ frames' = [frames EXCEPT ![f] = frames[f] + 1]
        /\ fresh' = [fresh EXCEPT ![f] = near]
        /\ fixed' = fixed + fix
        /\ UNCHANGED <<report, reported>>
    BY FrameStep
  <1>2. ts \in 0 .. TsRange - 1 /\ e \in Int /\ Congruent(ts, FirstTs[f] + e)
    BY FrameTsRight
  <1>3. local \in Int /\ remote \in Int /\ fix \in Int
    BY FrameTypes
  <1>4. near \in BOOLEAN
    BY DEF TInv, Types
  <1>5. near => remote - SenderNTP(f, e) \in -1 .. 1
    BY ConvertRight
  <1>6. f # "video" => fix = 0
    OBVIOUS
  <1> HIDE DEF ts, local, remote, fix, e, near
  <1>7. Types'
    BY <1>1, <1>2, <1>3, <1>4 DEF TInv, Types
  <1>8. ASSUME NEW g \in Flow
        PROVE  Steps(g)' /\ Remote(g)'
    <2>1. Steps(g) /\ Remote(g) /\ Types
      BY DEF TInv
    <2>2. CASE g = f
      <3>1. /\ lastTS'[f] = ts /\ elapsed'[f] = e /\ frames'[f] = frames[f] + 1
            /\ fresh'[f] = near /\ remoteNTP'[f] = remote /\ frames[f] \in Nat
        BY <2>1, <1>1 DEF Types
      <3>2. frames'[f] > 0 /\ frames'[f] # 0
        BY <3>1
      <3>3. Steps(g)'
        BY <2>1, <2>2, <3>1, <3>2, <1>1, <1>2 DEF Steps, SenderNTP, Congruent
      <3>4. Remote(g)'
        BY <2>2, <3>1, <1>5 DEF Remote, SenderNTP
      <3>5. QED
        BY <3>3, <3>4
    <2>3. CASE g # f
      <3>1. /\ lastTS'[g] = lastTS[g] /\ elapsed'[g] = elapsed[g] /\ frames'[g] = frames[g]
            /\ fresh'[g] = fresh[g] /\ remoteNTP'[g] = remoteNTP[g]
        BY <2>1, <2>3, <1>1 DEF Types
      <3>2. g = "video" => fixed' = fixed
        BY <2>1, <2>3, <1>1, <1>3, <1>6 DEF Types
      <3>3. Steps(g)'
        BY <2>1, <3>1, <3>2, <1>1 DEF Steps, SenderNTP, Congruent
      <3>4. Remote(g)'
        BY <2>1, <3>1 DEF Remote, SenderNTP
      <3>5. QED
        BY <3>3, <3>4
    <2>4. QED
      BY <2>2, <2>3
  <1>9. QED
    BY <1>7, <1>8 DEF TInv

LEMMA InitTInv ==
  TimeInit => TInv
  <1> SUFFICES ASSUME TimeInit
               PROVE  TInv
    OBVIOUS
  <1>1. TsRange \in Nat \ {0}
    BY RangeAssumption
  <1>2. 0 \in 0 .. TsRange - 1
    BY <1>1
  <1>3. Types
    BY <1>2 DEF TimeInit, Types
  <1>4. ASSUME NEW f \in Flow
        PROVE  Steps(f) /\ Remote(f)
    BY DEF TimeInit, Steps, Remote
  <1>5. QED
    BY <1>3, <1>4 DEF TInv

LEMMA NextTInv ==
  TInv /\ [TimeNext]_timeVars => TInv'
  <1> SUFFICES ASSUME TInv, [TimeNext]_timeVars
               PROVE  TInv'
    OBVIOUS
  <1>1. ASSUME NEW f \in Flow, NEW step \in Step, NEW arrival \in Arrival,
               processFrame(f, step, arrival)
        PROVE  TInv'
    BY <1>1, FrameInv
  <1>2. ASSUME NEW f \in Flow, updateNTP(f)
        PROVE  TInv'
    BY <1>2, ReportStep
  <1>3. CASE UNCHANGED timeVars
    BY <1>3 DEF timeVars, TInv, Types, Steps, Remote, SenderNTP, Congruent
  <1>4. QED
    BY <1>1, <1>2, <1>3 DEF TimeNext

LEMMA AlwaysTInv ==
  TimeSpec => []TInv
  <1>1. QED
    BY InitTInv, NextTInv, PTL DEF TimeSpec

\* The sender's time of a frame is right as long as the report it is converted
\* by is less than half the range of timestamps away.
THEOREM RemoteTimeAlwaysRight ==
  TimeSpec => []RemoteTimeRight
  <1>1. ASSUME TInv, NEW f \in Flow, fresh[f]
        PROVE  Abs(remoteNTP[f] - SenderNTP(f, elapsed[f])) <= 2
    <2>1. remoteNTP[f] - SenderNTP(f, elapsed[f]) \in -1 .. 1
      BY <1>1 DEF TInv, Remote
    <2>2. QED
      BY <2>1 DEF Abs
  <1>2. TInv => RemoteTimeRight
    BY <1>1 DEF RemoteTimeRight
  <1>3. QED
    BY <1>2, AlwaysTInv, PTL

-----------------------------------------------------------------------------
(* The local clocks.                                                       *)

\* After the first frame the local clock is taken on by the step.
LEMMA LocalMoves ==
  ASSUME TInv, ClocksRun, NEW f \in Flow, frames[f] > 0, NEW step \in Step, NEW arrival
  PROVE  LocalInput(f, FrameTs(f, step), arrival)
           = lastNTP[f] + DeltaTimestamp2NTP(step, Rate[f])
  <1>1. lastNTP[f] # 0
    BY DEF ClocksRun
  <1>2. DeltaTs(FrameTs(f, step), lastTS[f]) = step
    BY FrameTsRight
  <1>3. QED
    BY <1>1, <1>2 DEF LocalInput

\* One step more: the rounding adds up.
LEMMA OffMoves ==
  ASSUME NEW rate \in Nat \ {0}, NEW ran \in Int, NEW el \in Int, NEW num \in Nat, NEW step \in Int,
         Abs(rate * ran - Unit * el) <= rate * num
  PROVE  Abs(rate * (ran + DeltaTimestamp2NTP(step, rate)) - Unit * (el + step)) <= rate * (num + 1)
  <1> DEFINE d == DeltaTimestamp2NTP(step, rate)
             a == rate * ran
             b == Unit * el
             c == rate * d
             u == Unit * step
             m == rate * num
  <1>1. Unit \in Nat \ {0}
    BY ClockAssumption
  <1>2. d \in Int /\ u - c \in -(rate - 1) .. rate - 1
    BY DeltaShort DEF Short
  <1>3. /\ rate * (ran + d) = a + c /\ Unit * (el + step) = b + u /\ rate * (num + 1) = m + rate
        /\ a \in Int /\ b \in Int /\ c \in Int /\ u \in Int /\ m \in Int
    <2> HIDE DEF d
    <2>1. QED
      BY <1>1, <1>2
  <1>4. Abs(a - b) <= m
    OBVIOUS
  <1> HIDE DEF a, b, c, u, m
  <1>5. Abs((a + c) - (b + u)) <= m + rate
    BY <1>2, <1>3, <1>4 DEF Abs
  <1> HIDE DEF d
  <1>6. Abs(rate * (ran + d) - Unit * (el + step)) <= rate * (num + 1)
    BY <1>3, <1>5
  <1>7. QED
    BY <1>6 DEF d

LEMMA LocalFrame ==
  ASSUME TInv, ClocksRun, LocalClockTracks, NEW f \in Flow, NEW step \in Step,
         NEW arrival \in Arrival, processFrame(f, step, arrival)
  PROVE  LocalClockTracks'
  <1> DEFINE ts     == FrameTs(f, step)
             local  == LocalInput(f, ts, arrival)
             remote == Convert(f, ts)
             fix    == IF f = "video" THEN Correction(local, remote) ELSE 0
             e      == Elapsed(f, step)
  <1>1. /\ lastNTP' = [lastNTP EXCEPT ![f] = local + fix]
        /\ start' = IF frames[f] = 0 THEN [start EXCEPT ![f] = local] ELSE start
        /\ elapsed' = [elapsed EXCEPT ![f] = e]
        /\ frames' = [frames EXCEPT ![f] = frames[f] + 1]
        /\ fixed' = fixed + fix
    BY FrameStep
  <1>2. local \in Int /\ fix \in Int
    BY FrameTypes
  <1>3. f # "video" => fix = 0
    OBVIOUS
  <1>4. Types
    BY DEF TInv
  <1>5. ASSUME NEW g \in Flow
        PROVE  Abs(Rate[g] * Ran(g)' - Unit * elapsed'[g]) <= Rate[g] * frames'[g]
    <2>1. /\ lastNTP[g] \in Int /\ start[g] \in Int /\ fixed \in Int /\ elapsed[g] \in Int
          /\ frames[g] \in Nat /\ Rate[g] \in Nat \ {0} /\ Unit \in Nat \ {0} /\ step \in Int
      BY <1>4, Constants, RangeAssumption DEF Types
    <2>2. Abs(Rate[g] * Ran(g) - Unit * elapsed[g]) <= Rate[g] * frames[g] /\ Ran(g) \in Int
      BY <2>1 DEF LocalClockTracks, Ran
    <2> HIDE DEF local, fix, e
    <2>3. CASE g # f
      <3>1. /\ lastNTP'[g] = lastNTP[g] /\ start'[g] = start[g] /\ elapsed'[g] = elapsed[g]
            /\ frames'[g] = frames[g]
        BY <2>3, <1>1, <1>4 DEF Types
      <3>2. g = "video" => fixed' = fixed
        BY <2>1, <2>3, <1>1, <1>2, <1>3
      <3>3. Ran(g)' = Ran(g)
        BY <3>1, <3>2 DEF Ran
      <3>4. QED
        BY <2>2, <3>1, <3>3
    <2>4. CASE g = f /\ frames[f] = 0
      <3>1. /\ lastNTP'[f] = local + fix /\ start'[f] = local /\ elapsed'[f] = e
            /\ frames'[f] = 1
        BY <2>4, <1>1, <1>4 DEF Types
      <3>2. e = 0 /\ (f = "video" => fixed = 0)
        BY <2>4 DEF e, Elapsed, TInv, Steps
      <3>3. Ran(f)' = 0
        BY <3>1, <3>2, <1>1, <1>2, <1>3 DEF Ran
      <3>4. Rate[f] * 0 = 0 /\ Unit * 0 = 0 /\ Rate[f] * 1 = Rate[f]
        BY <2>1, <2>4
      <3>5. Abs(0 - 0) <= Rate[f]
        BY <2>1, <2>4 DEF Abs
      <3>6. QED
        BY <2>4, <3>1, <3>2, <3>3, <3>4, <3>5
    <2>5. CASE g = f /\ frames[f] > 0
      <3> DEFINE d == DeltaTimestamp2NTP(step, Rate[f])
      <3>1. /\ lastNTP'[f] = local + fix /\ start'[f] = start[f] /\ elapsed'[f] = e
            /\ frames'[f] = frames[f] + 1
        BY <2>1, <2>5, <1>1, <1>4 DEF Types
      <3>2. local = lastNTP[f] + d
        BY <2>5, LocalMoves DEF local
      <3>3. e = elapsed[f] + step
        BY <2>1, <2>5 DEF e, Elapsed
      <3>4. d \in Int
        BY <2>1, <2>5, DeltaShort
      <3> HIDE DEF d
      <3>5. Ran(f)' = Ran(f) + d
        BY <2>1, <2>5, <3>1, <3>2, <3>4, <1>1, <1>2, <1>3 DEF Ran
      <3>6. Abs(Rate[f] * (Ran(f) + d) - Unit * (elapsed[f] + step)) <= Rate[f] * (frames[f] + 1)
        BY <2>1, <2>2, <2>5, OffMoves DEF d
      <3>7. QED
        BY <2>5, <3>1, <3>3, <3>5, <3>6
    <2>6. QED
      BY <2>1, <2>3, <2>4, <2>5
  <1>6. QED
    BY <1>5 DEF LocalClockTracks, Ran

\* The local clock of a flow is where the steps of its timestamps took it, to a
\* unit for each frame.  (A clock that comes to 0 is set anew.)
THEOREM LocalClockAlwaysTracks ==
  TimeSpec /\ []ClocksRun => []LocalClockTracks
  <1>1. TimeInit => LocalClockTracks
    <2>1. ASSUME TimeInit, NEW f \in Flow
          PROVE  Abs(Rate[f] * Ran(f) - Unit * elapsed[f]) <= Rate[f] * frames[f]
      <3>1. Rate[f] \in Nat \ {0} /\ Unit \in Nat \ {0}
        BY Constants
      <3>2. Ran(f) = 0 /\ elapsed[f] = 0 /\ frames[f] = 0
        BY <2>1 DEF TimeInit, Ran
      <3>3. Rate[f] * 0 = 0 /\ Unit * 0 = 0
        BY <3>1
      <3>4. Abs(0 - 0) <= 0
        BY DEF Abs
      <3>5. QED
        BY <3>2, <3>3, <3>4
    <2>2. QED
      BY <2>1 DEF LocalClockTracks, Ran
  <1>2. TInv /\ ClocksRun /\ LocalClockTracks /\ [TimeNext]_timeVars => LocalClockTracks'
    <2> SUFFICES ASSUME TInv, ClocksRun, LocalClockTracks, [TimeNext]_timeVars
                 PROVE  LocalClockTracks'
      OBVIOUS
    <2>1. ASSUME NEW f \in Flow, NEW step \in Step, NEW arrival \in Arrival,
                 processFrame(f, step, arrival)
          PROVE  LocalClockTracks'
      BY <2>1, LocalFrame
    <2>2. ASSUME NEW f \in Flow, updateNTP(f)
          PROVE  LocalClockTracks'
      BY <2>2 DEF updateNTP, LocalClockTracks
    <2>3. CASE UNCHANGED timeVars
      BY <2>3 DEF timeVars, LocalClockTracks
    <2>4. QED
      BY <2>1, <2>2, <2>3 DEF TimeNext
  <1>3. QED
    BY <1>1, <1>2, AlwaysTInv, PTL DEF TimeSpec

-----------------------------------------------------------------------------
(* The distance of the clocks.                                             *)

\* What is left after a quarter was taken away.
LEMMA QuarterLeaves ==
  ASSUME NEW x \in Int
  PROVE  /\ Quarter(x) \in Int
         /\ Abs(x - Quarter(x)) <= Abs(x)
         /\ 4 * Abs(x - Quarter(x)) <= 3 * Abs(x) + 3
  <1>1. CASE x >= 0
    BY <1>1 DEF Quarter, Abs
  <1>2. CASE x < 0
    BY <1>2 DEF Quarter, Abs
  <1>3. QED
    BY <1>1, <1>2

\* The sender's clock and the local one move together, to three units.
LEMMA ClocksMove ==
  ASSUME TInv, ClocksRun, NEW f \in Flow, NEW step \in Step, NEW arrival \in Arrival,
         fresh[f], report[f].valid, Abs(Elapsed(f, step) - reported[f]) < Half
  PROVE  LET ts == FrameTs(f, step)
         IN  (Convert(f, ts) - remoteNTP[f]) - (LocalInput(f, ts, arrival) - lastNTP[f]) \in -3 .. 3
  <1> DEFINE ts == FrameTs(f, step)
             new == Convert(f, ts)
             old == remoteNTP[f]
             d == DeltaTimestamp2NTP(step, Rate[f])
             x == SenderNTP(f, elapsed[f])
             y == SenderNTP(f, elapsed[f] + step)
             loc == lastNTP[f]
  <1>1. frames[f] > 0 /\ elapsed[f] \in Int /\ old \in Int /\ loc \in Int /\ step \in Int
    BY RangeAssumption DEF TInv, Steps, Types
  <1>2. Elapsed(f, step) = elapsed[f] + step
    BY <1>1 DEF Elapsed
  <1>3. new - y \in -1 .. 1
    BY <1>2, ConvertRight
  <1>4. old - x \in -1 .. 1
    BY DEF TInv, Remote
  <1>5. x \in Int /\ x + d - y \in -1 .. 1
    BY <1>1, SenderMoves
  <1>6. LocalInput(f, ts, arrival) = loc + d
    BY <1>1, LocalMoves
  <1>7. new \in Int /\ d \in Int /\ y \in Int
    <2>1. elapsed[f] + step \in Int /\ 0 \in Int
      BY <1>1
    <2>2. QED
      BY <2>1, <1>1, FrameTypes, SenderMoves, DeltaShort, Constants
  <1> HIDE DEF new, old, d, x, y, loc
  <1>8. (new - old) - ((loc + d) - loc) \in -3 .. 3
    BY <1>1, <1>3, <1>4, <1>5, <1>7
  <1>9. QED
    BY <1>6, <1>8 DEF new, old, loc

\* What SkewShrinks says of a step.
SkewStep ==
  Reported /\ Reported' =>
    LET old == Abs(Skew(lastNTP, remoteNTP))
        new == Abs(Skew(lastNTP', remoteNTP'))
    IN  /\ new <= old + Rounding
        /\ frames'["video"] # frames["video"] => 4 * new <= 3 * (old + Rounding) + 3

LEMMA SkewFrame ==
  ASSUME TInv, ClocksRun, ClocksRun', NEW f \in Flow, NEW step \in Step, NEW arrival \in Arrival,
         processFrame(f, step, arrival)
  PROVE  SkewStep
  <1> SUFFICES ASSUME Reported, Reported'
               PROVE  LET old == Abs(Skew(lastNTP, remoteNTP))
                          new == Abs(Skew(lastNTP', remoteNTP'))
                      IN  /\ new <= old + Rounding
                          /\ frames'["video"] # frames["video"] => 4 * new <= 3 * (old + Rounding) + 3
    BY DEF SkewStep
  <1> DEFINE ts     == FrameTs(f, step)
             local  == LocalInput(f, ts, arrival)
             remote == Convert(f, ts)
             fix    == IF f = "video" THEN Correction(local, remote) ELSE 0
             near   == report[f].valid /\ Abs(Elapsed(f, step) - reported[f]) < Half
             la == lastNTP["audio"]
             lv == lastNTP["video"]
             ra == remoteNTP["audio"]
             rv == remoteNTP["video"]
  <1>1. /\ lastNTP' = [lastNTP EXCEPT ![f] = local + fix]
        /\ remoteNTP' = [remoteNTP EXCEPT ![f] = remote]
        /\ frames' = [frames EXCEPT ![f] = frames[f] + 1]
        /\ fresh' = [fresh EXCEPT ![f] = near]
    <2>1. fresh' = [fresh EXCEPT ![f] = near]
      BY FrameStep
    <2>2. /\ lastNTP' = [lastNTP EXCEPT ![f] = local + fix]
          /\ remoteNTP' = [remoteNTP EXCEPT ![f] = remote]
          /\ frames' = [frames EXCEPT ![f] = frames[f] + 1]
      BY FrameStep
    <2>3. QED
      BY <2>1, <2>2
  <1>2. Types /\ "audio" \in Flow /\ "video" \in Flow /\ \A g \in Flow : g = "audio" \/ g = "video"
    BY DEF TInv, Flow
  <1>3. la \in Int /\ lv \in Int /\ ra \in Int /\ rv \in Int /\ local \in Int /\ remote \in Int
    BY <1>2, FrameTypes DEF Types
  <1>4. near /\ fresh["audio"] /\ fresh["video"] /\ fresh[f]
    <2>1. fresh'[f] = near
      BY <1>1, <1>2 DEF Types
    <2>2. QED
      BY <2>1, <1>2 DEF Reported
  <1>5. (remote - remoteNTP[f]) - (local - lastNTP[f]) \in -3 .. 3
    BY <1>4, ClocksMove
  <1>6. Skew(lastNTP, remoteNTP) = (rv - ra) - (lv - la)
    BY DEF Skew
  <1>7. CASE f = "audio"
    <2>1. fix = 0
      BY <1>7
    <2> HIDE DEF local, remote, fix, near
    <2>2. /\ lastNTP'["audio"] = local /\ lastNTP'["video"] = lv
          /\ remoteNTP'["audio"] = remote /\ remoteNTP'["video"] = rv
          /\ frames'["video"] = frames["video"]
      BY <2>1, <1>1, <1>2, <1>3, <1>7 DEF Types
    <2>3. Skew(lastNTP', remoteNTP') = (rv - remote) - (lv - local)
      BY <2>2 DEF Skew
    <2>4. (remote - ra) - (local - la) \in -3 .. 3
      BY <1>5, <1>7
    <2> HIDE DEF la, lv, ra, rv
    <2>5. Abs((rv - remote) - (lv - local)) <= Abs((rv - ra) - (lv - la)) + 6
      BY <2>4, <1>3 DEF Abs
    <2>6. QED
      BY <2>2, <2>3, <2>5, <1>6 DEF Rounding
  <1>8. CASE f = "video"
    <2> DEFINE x == (remote - ra) - (local - la)
    <2>1. fix = Quarter(x)
      <3>1. la # 0 /\ ra > 0
        BY <1>2, <1>4 DEF ClocksRun, TInv, Steps, Types
      <3>2. remoteNTP'["video"] = remote /\ fresh'["video"]
        BY <1>1, <1>2, <1>8 DEF Types, Reported
      <3>3. remote > 0
        BY <3>2, <1>2 DEF ClocksRun
      <3>4. QED
        BY <3>1, <3>3, <1>8 DEF Correction
    <2> HIDE DEF local, remote, fix, near
    <2>2. x \in Int
      BY <1>3
    <2>3. /\ lastNTP'["audio"] = la /\ lastNTP'["video"] = local + fix
          /\ remoteNTP'["audio"] = ra /\ remoteNTP'["video"] = remote
      BY <1>1, <1>2, <1>8 DEF Types
    <2>4. (remote - rv) - (local - lv) \in -3 .. 3
      BY <1>5, <1>8
    <2>5. Skew(lastNTP', remoteNTP') = (remote - ra) - ((local + fix) - la)
      BY <2>3 DEF Skew
    <2> HIDE DEF la, lv, ra, rv
    <2>6. Abs(x) <= Abs((rv - ra) - (lv - la)) + 6
      BY <2>4, <1>3 DEF Abs
    <2>7. fix \in Int /\ (remote - ra) - ((local + fix) - la) = x - fix
      <3>1. fix \in Int
        BY <2>1, <2>2, QuarterLeaves
      <3>2. QED
        BY <3>1, <1>3
    <2> HIDE DEF x
    <2>8. Abs(x - fix) <= Abs(x) /\ 4 * Abs(x - fix) <= 3 * Abs(x) + 3
      BY <2>1, <2>2, QuarterLeaves
    <2> DEFINE old == Abs((rv - ra) - (lv - la))
               new == Abs(x - fix)
               mid == Abs(x)
    <2>9. old \in Int /\ new \in Int /\ mid \in Int
      BY <2>2, <2>7, <1>3 DEF Abs
    <2>10. Abs(Skew(lastNTP, remoteNTP)) = old /\ Abs(Skew(lastNTP', remoteNTP')) = new
      BY <2>5, <2>7, <1>6
    <2>11. mid <= old + 6 /\ new <= mid /\ 4 * new <= 3 * mid + 3
      BY <2>6, <2>8
    <2> HIDE DEF old, new, mid
    <2>12. new <= old + Rounding /\ 4 * new <= 3 * (old + Rounding) + 3
      BY <2>9, <2>11 DEF Rounding
    <2>13. QED
      BY <2>10, <2>12
  <1>9. QED
    BY <1>2, <1>7, <1>8

\* No frame takes audio and video apart by more than rounding, and a video
\* frame takes away a quarter of what is between them.
THEOREM SkewAlwaysShrinks ==
  TimeSpec /\ []ClocksRun => SkewShrinks
  <1>1. TInv /\ ClocksRun /\ ClocksRun' /\ [TimeNext]_timeVars => [SkewStep]_timeVars
    <2> SUFFICES ASSUME TInv, ClocksRun, ClocksRun', TimeNext
                 PROVE  SkewStep
      OBVIOUS
    <2>1. ASSUME NEW f \in Flow, NEW step \in Step, NEW arrival \in Arrival,
                 processFrame(f, step, arrival)
          PROVE  SkewStep
      BY <2>1, SkewFrame
    <2>2. ASSUME NEW f \in Flow, updateNTP(f)
          PROVE  SkewStep
      <3>1. lastNTP' = lastNTP /\ remoteNTP' = remoteNTP /\ frames' = frames
        BY <2>2 DEF updateNTP
      <3>2. Skew(lastNTP, remoteNTP) \in Int
        BY DEF TInv, Types, Flow, Skew
      <3>3. Abs(Skew(lastNTP, remoteNTP)) <= Abs(Skew(lastNTP, remoteNTP)) + 6
        BY <3>2 DEF Abs
      <3>4. QED
        BY <3>1, <3>3 DEF SkewStep, Rounding
    <2>3. QED
      BY <2>1, <2>2 DEF TimeNext
  <1>2. [SkewStep]_timeVars => [Reported /\ Reported' =>
                              LET old == Abs(Skew(lastNTP, remoteNTP))
                                  new == Abs(Skew(lastNTP', remoteNTP'))
                              IN  /\ new <= old + Rounding
                                  /\ frames'["video"] # frames["video"]
                                       => 4 * new <= 3 * (old + Rounding) + 3]_timeVars
    BY DEF SkewStep
  <1>3. QED
    BY <1>1, <1>2, AlwaysTInv, PTL DEF TimeSpec, SkewShrinks
=============================================================================
