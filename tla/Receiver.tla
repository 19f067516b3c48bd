------------------------------ MODULE Receiver ------------------------------
(***************************************************************************)
(* NRTPReceiver: which flow a packet of the remote peer belongs to, and    *)
(* what of it goes into that flow's packet window.  The remote SDP gives   *)
(* each m-line a flow and each FID group of ssrcs (a stream and its        *)
(* retransmissions) one of its own; an ssrc it does not name is added when *)
(* its first packet comes.  On top, the part of XSWTLVDemuxer (Lab000)     *)
(* that collects the flows in a vector and decides when one is read.       *)
(*                                                                         *)
(* The window itself is PacketWindow and UlpfecWindow; here a window is    *)
(* what was last handed to it, and whether it is full is left open.        *)
(***************************************************************************)
EXTENDS Integers, Sequences, FiniteSets, SequencesExt

CONSTANTS
  Sdps,        \* the SDPs a recording may hold
  Packets,     \* the RTP packets it may hold
  Mlines,      \* the m-line a caller may give: 0 for unknown (< 0 in the code)
  None,
  Duration,    \* flowBufferDurationMS
  MaxTime      \* bound on the time stamps of a recording

\* The ssrcs an m-line of an SDP names, in its list or in a group.
NamedBy(m) == m.ssrcs \cup UNION Range(m.fid)

\* What is native or FEC in an m-line is of its medium, and an ssrc belongs to
\* one m-line and, in it, to at most one FID group.
WellFormed(sdp) ==
  /\ sdp \in Seq(Range(sdp))
  /\ \A i \in 1..Len(sdp) :
       /\ sdp[i].type \in {"audio", "video"} /\ sdp[i].fid \in Seq(Range(sdp[i].fid))
       /\ \A pt \in DOMAIN sdp[i].codecs :
            sdp[i].codecs[pt].type \in {"opus", "vp8", "ulpfec"} =>
              sdp[i].type = IF sdp[i].codecs[pt].type = "opus" THEN "audio" ELSE "video"
       /\ \A j \in 1..Len(sdp) : i # j => NamedBy(sdp[i]) \cap NamedBy(sdp[j]) = {}
       /\ \A a, b \in 1..Len(sdp[i].fid) : a # b => sdp[i].fid[a] \cap sdp[i].fid[b] = {}

\* Only a packet with a payload type of retransmissions has an original sequence
\* number (osn, 0 for none).
OsnOfRtx(sdp, p) ==
  \A i \in 1..Len(sdp) :
    p.osn # 0 /\ p.pt \in DOMAIN sdp[i].codecs => sdp[i].codecs[p.pt].type = "rtx"

ASSUME SdpAssumption == \A sdp \in Sdps : WellFormed(sdp) /\ \A p \in Packets : OsnOfRtx(sdp, p)

ASSUME TimeAssumption == Duration \in Nat /\ MaxTime \in Nat /\ Duration <= MaxTime /\ None \notin Int

VARIABLES
  medias,      \* remoteSDP_->medias
  flows,       \* sourceGroupFlows and mediaFlows, in the order of their index
  mediaFlows,  \* the flow of each m-line
  sourceMap,   \* ssrc -> source
  handed,      \* what the last inputRTP put into the windows
  crashed,     \* was the null flow of a new source used?
  mflows,      \* flows_ of the demuxer: firstRecvTS, or None for no rtpFlow
  capacity,    \* of that vector
  now,         \* recv_ts
  read,        \* the flow read after the last packet, if any
  first,       \* history: when the first packet of a flow was received
  moved        \* history: the flows whose MediaFlow was moved by the vector

receiverVars == <<medias, flows, mediaFlows, sourceMap, handed, crashed>>
vars == <<medias, flows, mediaFlows, sourceMap, handed, crashed,
          mflows, capacity, now, read, first, moved>>

Init == /\ medias = << >> /\ flows = << >> /\ mediaFlows = << >>
        /\ sourceMap = << >> /\ handed = << >> /\ crashed = None
        /\ mflows = << >> /\ capacity = 0 /\ now = Duration /\ read = None
        /\ first = << >> /\ moved = {}

-----------------------------------------------------------------------------
(* setRemoteSDP                                                            *)

\* A map after inserting keys, of which it keeps those it has.
WithNew(map, keys, value) ==
  [k \in DOMAIN map \cup keys |-> IF k \in DOMAIN map THEN map[k] ELSE value]

\* addSource for each ssrc of a set.  A source that exists is kept.
AddSources(r, ssrcs, mline, f) ==
  [r EXCEPT !.flows[f].ssrcs = @ \cup ssrcs,
            !.sourceMap = WithNew(@, ssrcs, [flow |-> f, mline |-> mline])]

NewFlow(r, type) ==
  [r EXCEPT !.flows = Append(@, [type |-> type, main |-> None, ssrcs |-> {}])]

\* Faulty variant: every ssrc of a group gets a flow of its own.
AddGroupApart(r, mline, type, group) ==
  FoldLeft(LAMBDA x, s : LET y == NewFlow(x, type) IN AddSources(y, {s}, mline, Len(y.flows)),
           r, SetToSeq(group))

AddGroup(r, mline, type, group) ==
  LET y == NewFlow(r, type) IN AddSources(y, group, mline, Len(y.flows))

\* A flow for each FID group of an m-line.
AddGroups(r, mline, m) ==
  LET after[n \in 0..Len(m.fid)] ==
        IF n = 0 THEN r ELSE AddGroup(after[n - 1], mline, m.type, m.fid[n])
  IN  after[Len(m.fid)]

\* Faulty variant: the ssrcs in no group are left out.
AddMediaGroupsOnly(r, mline, m) ==
  LET y == NewFlow(AddGroups(r, mline, m), m.type)
  IN  [y EXCEPT !.mediaFlows = Append(@, Len(y.flows))]

\* One m-line: a flow for each FID group, then the flow of the m-line with the
\* ssrcs that have no source yet.
AddMedia(r, mline, m) ==
  LET g == AddGroups(r, mline, m)
      y == NewFlow(g, m.type)
      f == Len(y.flows)
  IN  AddSources([y EXCEPT !.mediaFlows = Append(@, f)], m.ssrcs \ DOMAIN g.sourceMap, mline, f)

\* addSourcesAndFlows
AddMedias(r, sdp) ==
  LET after[n \in 0..Len(sdp)] == IF n = 0 THEN r ELSE AddMedia(after[n - 1], n, sdp[n])
  IN  after[Len(sdp)]

\* A recording holds one SDP, before its packets.
setRemoteSDP ==
  /\ medias = << >>
  /\ medias' \in Sdps
  /\ LET r == AddMedias([flows |-> flows, mediaFlows |-> mediaFlows, sourceMap |-> sourceMap], medias')
     IN  flows' = r.flows /\ mediaFlows' = r.mediaFlows /\ sourceMap' = r.sourceMap
  /\ UNCHANGED <<handed, crashed, mflows, capacity, now, read, first, moved>>

-----------------------------------------------------------------------------
(* inputRTP                                                                *)

Known(p) == p.ssrc \in DOMAIN sourceMap

\* The m-line of the source, of the caller, or the first with the payload type.
FindMedia(mline, p) ==
  LET given == IF Known(p) THEN sourceMap[p.ssrc].mline ELSE mline
      fits  == {i \in 1..Len(medias) : p.pt \in DOMAIN medias[i].codecs}
  IN  IF given \in 1..Len(medias) THEN given
      ELSE IF fits # {} THEN CHOOSE i \in fits : \A j \in fits : i <= j ELSE 0

\* checkFindMedia finds the codec of the packet in that m-line.
Accepted(mline, p) ==
  FindMedia(mline, p) # 0 /\ p.pt \in DOMAIN medias[FindMedia(mline, p)].codecs

\* Faulty variant: a new source goes to the flow of the first m-line.
BoundToFirst(mline, p) ==
  LET i == FindMedia(mline, p)
      r == [flows |-> flows, mediaFlows |-> mediaFlows, sourceMap |-> sourceMap]
  IN  IF Known(p) THEN r ELSE AddSources(r, {p.ssrc}, i, mediaFlows[1])

\* The sources after checkFindMedia: a new one goes to the flow of the m-line.
Bound(mline, p) ==
  LET i == FindMedia(mline, p)
      r == [flows |-> flows, mediaFlows |-> mediaFlows, sourceMap |-> sourceMap]
  IN  IF Known(p) THEN r ELSE AddSources(r, {p.ssrc}, i, mediaFlows[i])

\* The flow inputRTP works with: that of a source known before.
FlowOf(p) == IF Known(p) THEN sourceMap[p.ssrc].flow ELSE 0

Native(codec) == codec.type \in {"opus", "vp8"}

Piece(codec, seq, ts, offset) == [codec |-> codec, seq |-> seq, ts |-> ts, offset |-> offset]

\* demuxRTP: a retransmission becomes the packet it repeats, a RED packet its
\* blocks whose payload type the m-line has.  All keep the sequence number.
\* The pieces are numbered as the blocks of the packet.  A packet whose
\* extension, retransmission header or RED headers do not parse yields nothing.
demuxRTP(codecs, p) ==
  LET codec == codecs[p.pt]
      isRTX == codec.type = "rtx"
      inner == IF isRTX THEN codecs[codec.apt] ELSE codec
      seq   == IF isRTX THEN p.osn ELSE p.seq
      known == {k \in DOMAIN p.blocks : p.blocks[k].pt \in DOMAIN codecs}
  IN  IF p.bad \/ (isRTX /\ codec.apt \notin DOMAIN codecs) THEN << >>
      ELSE IF inner.type = "red"
           THEN [k \in known |-> Piece(codecs[p.blocks[k].pt], seq, p.ts + p.blocks[k].offset,
                                       p.blocks[k].offset)]
           ELSE [k \in {1} |-> Piece(inner, seq, p.ts, 0)]

\* The codec of the flow is the first native one it sees.
MainCodec(main, pieces) ==
  LET natives == {k \in DOMAIN pieces : Native(pieces[k].codec)} IN
  IF main = None /\ natives # {} THEN pieces[Min(natives)].codec ELSE main

\* insertPacket turns down what is neither media nor FEC.
Inserted(pieces) == {k \in DOMAIN pieces : Native(pieces[k].codec) \/ pieces[k].codec.type = "ulpfec"}

-----------------------------------------------------------------------------
(* processRTP of the demuxer                                               *)

\* flows_ grows until it holds the flow.  When it is full the vector moves
\* every MediaFlow, whose move constructor forgets firstRecvTS (and rtptime).
Grown(v, f) == IF Len(v) >= f THEN v ELSE v \o [k \in 1..(f - Len(v)) |-> None]

CapacityFor(n) == CHOOSE c \in {0, 1, 2, 4, 8} : n <= c /\ \A d \in {0, 1, 2, 4, 8} : n <= d => c <= d

\* Is everything in flows_ moved when flow f is added?
Moves(f) == f > capacity

Forgotten(v) == [k \in DOMAIN v |-> IF v[k] = None THEN None ELSE -1]

checkAddMediaFlow(f) ==
  LET v == Grown(IF Moves(f) THEN Forgotten(mflows) ELSE mflows, f)
  IN  /\ mflows' = [v EXCEPT ![f] = IF @ = None THEN now ELSE @]
      /\ capacity' = IF Moves(f) THEN CapacityFor(f) ELSE capacity
      /\ moved' = IF Moves(f) THEN moved \cup {k \in DOMAIN mflows : mflows[k] # None} ELSE moved
      /\ first' = WithNew(first, {f}, now)

\* Faulty variant: the time is compared with the start of the recording.
DueSinceStart(f) == now - Duration >= Duration

\* The flow has buffered for long enough.
Due(f) == now - mflows'[f] >= Duration

\* The packet went into flow f: the flow is read when its window is full or
\* it is due.
ReadFlow(f) ==
  /\ checkAddMediaFlow(f)
  /\ \E full \in BOOLEAN : read' = IF full \/ Due(f) THEN [flow |-> f, full |-> full] ELSE None

NoFlow == read' = None /\ UNCHANGED <<mflows, capacity, first, moved>>

\* A packet the receiver has no m-line or codec for.
Refused(mline, p) ==
  /\ ~Accepted(mline, p)
  /\ handed' = << >> /\ NoFlow
  /\ UNCHANGED <<medias, flows, mediaFlows, sourceMap, crashed>>

\* A packet that is bound, and yields pieces for the window of its flow.
Received(mline, p) ==
  LET r      == Bound(mline, p)
      pieces == demuxRTP(medias[FindMedia(mline, p)].codecs, p)
      f      == FlowOf(p)
  IN  /\ Accepted(mline, p)
      /\ mediaFlows' = r.mediaFlows /\ sourceMap' = r.sourceMap
      /\ IF DOMAIN pieces = {}
         THEN flows' = r.flows /\ handed' = << >> /\ NoFlow /\ UNCHANGED crashed
         ELSE IF f = 0
         THEN flows' = r.flows /\ handed' = << >> /\ NoFlow /\ crashed' = p
         ELSE /\ flows' = [r.flows EXCEPT ![f].main = MainCodec(@, pieces)]
              /\ handed' = [k \in Inserted(pieces) |->
                              [flow |-> f, packet |-> p, piece |-> pieces[k]]]
              /\ ReadFlow(f) /\ UNCHANGED crashed
      /\ UNCHANGED medias

inputRTP(mline, p) ==
  /\ medias # << >> /\ crashed = None
  /\ Refused(mline, p) \/ Received(mline, p)
  /\ UNCHANGED now

\* The next record was received later.
Later ==
  /\ now < MaxTime /\ now' = now + 1
  /\ UNCHANGED <<receiverVars, mflows, capacity, read, first, moved>>

Next == \/ setRemoteSDP \/ Later
        \/ \E mline \in Mlines, p \in Packets : inputRTP(mline, p)

Spec == Init /\ [][Next]_vars

-----------------------------------------------------------------------------
\* The ssrcs the SDP names.
Announced == UNION {NamedBy(medias[i]) : i \in DOMAIN medias}

\* Every source and flow_ entry refers to a flow that exists.
TypeOK ==
  /\ \A i \in DOMAIN mediaFlows : mediaFlows[i] \in DOMAIN flows
  /\ \A s \in DOMAIN sourceMap : /\ sourceMap[s].flow \in DOMAIN flows
                                 /\ sourceMap[s].mline \in DOMAIN medias
                                 /\ s \in flows[sourceMap[s].flow].ssrcs
  /\ Len(mflows) <= capacity /\ capacity \in {0, 1, 2, 4, 8}
  /\ now \in Duration..MaxTime /\ (read # None => read.flow \in DOMAIN mflows)

\* The null flow is used for no packet of an ssrc the SDP names, whatever
\* came before (checkFindMedia sets the flow of a known source only): it takes
\* the first packet of an ssrc the SDP does not name, and one that demuxRTP
\* can use.
NullFlowOnlyForStrangers ==
  crashed # None => crashed.ssrc \notin Announced /\ ~crashed.bad

\* What goes into a window is of the flow's medium: no order of packets of
\* named and of other ssrcs puts audio into the window of a video flow, or the
\* other way round (checkFindMedia, addSource).
RightWindow ==
  \A k \in DOMAIN handed :
    flows[handed[k].flow].type = IF handed[k].piece.codec.type = "opus" THEN "audio" ELSE "video"

\* A retransmission goes into the window of the stream that its FID group names
\* with it, under the sequence number of the packet it repeats (addSourcesAndFlows,
\* demuxRTP): the window can fill the gap with it.
RetransmissionFillsGap ==
  \A k \in DOMAIN handed :
    LET p == handed[k].packet IN
    p.osn # 0 => /\ handed[k].piece.seq = p.osn
                 /\ \A i \in DOMAIN medias : \A g \in Range(medias[i].fid) :
                      p.ssrc \in g => \A s \in g : sourceMap[s].flow = handed[k].flow

\* A flow whose window is not full waits flowBufferDurationMS from its first
\* packet before it is read, as long as no later flow made the demuxer's vector
\* move it (processRTP, MediaFlow's move constructor).
BufferedUnlessMoved ==
  read # None /\ ~read.full /\ read.flow \notin moved => now - first[read.flow] >= Duration
=============================================================================
