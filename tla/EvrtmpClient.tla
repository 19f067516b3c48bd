---------------------------- MODULE EvrtmpClient ----------------------------
(***************************************************************************)
(* The RTMP push client of libevrtmp/evrtmp_client.cpp, driven by the      *)
(* libevent loop of Lab034-EVRTMPPush.cpp: the connection with its three   *)
(* attempts and its connect timer, the handshake up to the state in which  *)
(* the server accepts media, and the H.264 parameter sets (xnalu.cpp) that *)
(* have to reach the server, on every connection, before the pictures that *)
(* are coded with them.                                                    *)
(*                                                                         *)
(* A parameter set is known by its contents only, a NAL unit by its type   *)
(* and, for a parameter set, by the contents.  The client pushes File over *)
(* and over, one NAL unit per timer tick.                                  *)
(***************************************************************************)
EXTENDS Naturals, Sequences

CONSTANTS Par,       \* contents of parameter sets
          NoSet,      \* no parameter set
          File,      \* the NAL units pushed
          MaxTry     \* connect_try after evrtmp_client_connect: 3

Nalu == [type : {"sps", "pps"}, id : Par] \cup [type : {"idr", "slice"}, id : {NoSet}]

ASSUME ParAssumption  == NoSet \notin Par
ASSUME FileAssumption == File \in Seq(Nalu) /\ File # << >>
ASSUME TryAssumption  == MaxTry \in Nat

VARIABLES
  url,           \* "unset", "set", or "deleted" once the client is freed
  connect_try,
  bev,           \* the bufferevent: "none", "connecting" or "open"
  rtmp,          \* the NBRTMP session, "null" when the pointer is
  evtimer,       \* is the connect timer pending?
  sps, pps,      \* xnalu_spspps_t; NoSet for length 0
  pos,           \* the next NAL unit of File
  cur,           \* the parameter sets the pictures at pos are coded with
  remote,        \* the parameter sets last sent on this connection
  out            \* what was last sent, or not sent, on this connection

conn == <<url, connect_try, bev, rtmp, evtimer>>
meta == <<sps, pps>>
wire == <<remote, out>>
clientVars == <<url, connect_try, bev, rtmp, evtimer, sps, pps, pos, cur, remote, out>>

NoParams == [sps |-> NoSet, pps |-> NoSet]
Params   == [sps : Par \cup {NoSet}, pps : Par \cup {NoSet}]
Session  == {"ready", "challenge", "response", "done", "playing", "closed"}
Packet(kind, need) == [kind |-> kind, need |-> need]
Nothing  == Packet("nothing", NoParams)

ClientInit == /\ url = "unset" /\ connect_try = 0
              /\ bev = "none" /\ rtmp = "null" /\ evtimer = FALSE
              /\ sps = NoSet /\ pps = NoSet
              /\ pos = 1 /\ cur = NoParams
              /\ remote = NoParams /\ out = Nothing

-----------------------------------------------------------------------------
(* The connection                                                          *)

\* evrtmp_client_close: timer, socket and session go, the url stays.
Closed == bev' = "none" /\ rtmp' = "null" /\ evtimer' = FALSE

xnalu_spspps_reset == sps' = NoSet /\ pps' = NoSet

\* Faulty variant: the parameter sets of the last connection are kept.
StartedKeepsMeta(tries) == /\ tries > 0 /\ connect_try' = tries - 1
                           /\ bev' = "connecting" /\ rtmp' = "ready" /\ evtimer' = TRUE
                           /\ UNCHANGED meta

\* A connection is under way: connect_try has been counted down, the session
\* is new, the timer runs and the parameter sets are forgotten.
Started(tries) == /\ tries > 0 /\ connect_try' = tries - 1
                  /\ bev' = "connecting" /\ rtmp' = "ready" /\ evtimer' = TRUE
                  /\ xnalu_spspps_reset

\* bufferevent_socket_connect fails.  libevent may call evrtmp_eventcb before
\* it returns the error: that call starts over with one attempt less, and
\* whatever it started is closed again when the error is returned.
StartFails(tries) == /\ \E left \in 0..(tries - 1) :
                          /\ tries > 0 /\ connect_try' = left
                          /\ \/ UNCHANGED meta
                             \/ left + 1 < tries /\ xnalu_spspps_reset
                     /\ Closed

GivesUp(tries) == tries = 0 /\ connect_try' = tries /\ Closed /\ UNCHANGED meta

\* Faulty variant: attempts that are used up are refilled.
kick_connect_refilled(tries) ==
  /\ Started(tries) \/ StartFails(tries) \/ (tries = 0 /\ Started(MaxTry))
  /\ remote' = NoParams /\ out' = Nothing

\* kick_connect for a client without a connection.
kick_connect(tries) ==
  /\ \/ Started(tries) \/ StartFails(tries) \/ GivesUp(tries)
  /\ remote' = NoParams /\ out' = Nothing

\* A client that has a url ignores the call.
evrtmp_client_connect ==
  /\ url = "unset"
  /\ url' = "set" /\ kick_connect(MaxTry)
  /\ UNCHANGED <<pos, cur>>

\* Faulty variant: the timer is left running.
ConnectedKeepsTimer ==
  /\ bev = "connecting"
  /\ bev' = "open" /\ rtmp' = "challenge"
  /\ UNCHANGED <<url, connect_try, evtimer, sps, pps, pos, cur, remote, out>>

\* evrtmp_eventcb, BEV_EVENT_CONNECTED: the handshake starts.
Connected ==
  /\ bev = "connecting"
  /\ bev' = "open" /\ rtmp' = "challenge" /\ evtimer' = FALSE
  /\ UNCHANGED <<url, connect_try, sps, pps, pos, cur, remote, out>>

\* evrtmp_eventcb, an error or the end of the connection.  A session that
\* librtmp closed has closed the socket below the bufferevent, which then
\* reports nothing.
Disconnected ==
  /\ bev # "none" /\ rtmp # "closed"
  /\ kick_connect(connect_try)
  /\ UNCHANGED <<url, pos, cur>>

conn_timeoutcb ==
  /\ evtimer
  /\ kick_connect(connect_try)
  /\ UNCHANGED <<url, pos, cur>>

evrtmp_client_close ==
  /\ url # "deleted" /\ Closed
  /\ remote' = NoParams /\ out' = Nothing
  /\ UNCHANGED <<url, connect_try, sps, pps, pos, cur>>

evrtmp_client_delete ==
  /\ url # "deleted" /\ url' = "deleted" /\ Closed
  /\ xnalu_spspps_reset /\ remote' = NoParams /\ out' = Nothing
  /\ UNCHANGED <<connect_try, pos, cur>>

\* evrtmp_readcb: the answers of the server take the session through the
\* handshake to the start of the media.
Answered ==
  /\ bev = "open"
  /\ \/ rtmp = "challenge" /\ rtmp' = "response"
     \/ rtmp = "response"  /\ rtmp' = "done"
     \/ rtmp = "done"      /\ rtmp' = "playing"
  /\ UNCHANGED <<url, connect_try, bev, evtimer, sps, pps, pos, cur, remote, out>>

\* evrtmp_readcb: a status of the server makes librtmp close the session.
SessionClosed ==
  /\ bev = "open" /\ rtmp \in {"done", "playing"} /\ rtmp' = "closed"
  /\ UNCHANGED <<url, connect_try, bev, evtimer, sps, pps, pos, cur, remote, out>>

-----------------------------------------------------------------------------
(* The media                                                               *)

\* Faulty variant: a new parameter set always drops the other one.
OtherAlwaysDropped(the, other) == NoSet

\* The other parameter set after a new one came in: dropped when it belonged
\* to a set that is replaced.
Other(the, other) == IF the # NoSet THEN NoSet ELSE other

\* xnalu_spspps_input: a parameter set that is already known changes nothing;
\* with a new one the pair is complete when the other is there.
xnalu_spspps_input(n) ==
  LET new == n.id # IF n.type = "sps" THEN sps ELSE pps IN
  IF n.type = "sps"
  THEN sps' = n.id /\ pps' = IF new THEN Other(sps, pps) ELSE pps
  ELSE pps' = n.id /\ sps' = IF new THEN Other(pps, sps) ELSE sps

\* evrtmp_client_process_meta: a pair that has become complete is sent.
evrtmp_client_process_meta(n) ==
  /\ xnalu_spspps_input(n)
  /\ LET pair == [sps |-> sps', pps |-> pps'] IN
     IF meta' # meta /\ sps' # NoSet /\ pps' # NoSet
     THEN remote' = pair /\ out' = Packet("config", pair)
     ELSE UNCHANGED wire

xnalu_spspps_exist == sps # NoSet /\ pps # NoSet

\* A picture is sent once both parameter sets are known.
SendPicture ==
  /\ out' = IF xnalu_spspps_exist THEN Packet("video", cur) ELSE Packet("dropped", cur)
  /\ UNCHANGED <<sps, pps, remote>>

Ignored == UNCHANGED <<sps, pps, remote, out>>

\* Coded with which parameter sets is what follows n?
InForce(n) == IF n.type \in {"sps", "pps"} THEN [cur EXCEPT ![n.type] = n.id] ELSE cur

\* timeoutcb of Lab034 and evrtmp_client_send_nalu.
evrtmp_client_send_nalu ==
  LET n == File[pos] IN
  /\ url # "deleted"
  /\ pos' = IF pos = Len(File) THEN 1 ELSE pos + 1
  /\ cur' = InForce(n)
  /\ \/ rtmp # "playing" /\ Ignored
     \/ rtmp = "playing" /\ n.type \in {"sps", "pps"} /\ evrtmp_client_process_meta(n)
     \/ rtmp = "playing" /\ n.type \in {"idr", "slice"} /\ SendPicture
  /\ UNCHANGED conn

\* Audio needs no parameter sets.
evrtmp_client_send_speex ==
  /\ rtmp = "playing"
  /\ out' = Packet("audio", NoParams)
  /\ UNCHANGED <<conn, sps, pps, pos, cur, remote>>

-----------------------------------------------------------------------------
ClientNext == \/ evrtmp_client_connect \/ evrtmp_client_close \/ evrtmp_client_delete
              \/ Connected \/ Disconnected \/ conn_timeoutcb \/ Answered \/ SessionClosed
              \/ evrtmp_client_send_nalu \/ evrtmp_client_send_speex

ClientSpec == ClientInit /\ [][ClientNext]_clientVars

\* The loop calls timers and sockets that are ready, and the server answers.
FairClientSpec == /\ ClientSpec
                  /\ WF_clientVars(conn_timeoutcb) /\ WF_clientVars(Answered)
                  /\ WF_clientVars(evrtmp_client_send_nalu)

-----------------------------------------------------------------------------
\* Every variable keeps its type: what evrtmp_client_s can hold.
ClientTypeOK == /\ url \in {"unset", "set", "deleted"}
                /\ connect_try \in 0..MaxTry
                /\ bev \in {"none", "connecting", "open"}
                /\ rtmp \in {"null"} \cup Session
                /\ evtimer \in BOOLEAN
                /\ sps \in Par \cup {NoSet} /\ pps \in Par \cup {NoSet}
                /\ pos \in 1..Len(File)
                /\ cur \in Params /\ remote \in Params
                /\ out \in [kind : {"nothing", "config", "video", "dropped", "audio"}, need : Params]

\* The connect timer runs exactly while a connection is being made: a timer
\* that outlived its connect (evrtmp_eventcb, evrtmp_client_close) would tear
\* down a later, working connection, and without one (kick_connect) a connect
\* that is never answered would not end.
TimerWhileConnecting == evtimer <=> bev = "connecting"

\* A picture goes out only on a connection whose last parameter sets are the
\* ones the picture is coded with, wherever in the file the connection began
\* to play and however often it was lost (xnalu_spspps_process,
\* xnalu_spspps_reset in kick_connect, evrtmp_client_send_nalu).
VideoDecodable == out.kind = "video" => out.need = remote

\* A client that was connected once and has lost its connection for good -
\* closed, out of attempts, or a connect that failed at once - never gets
\* another: evrtmp_client_connect returns early for a client with a url.
ClosedForGood == [][url = "set" /\ bev = "none" => bev' = "none"]_clientVars

\* Every connect ends, in a connection or in giving up: attempts that are not
\* answered are timed out, and there are no more than connect_try of them.
ConnectEnds == bev = "connecting" ~> bev # "connecting"

\* As long as the client has a session the server has not closed, pictures are
\* sent again and again: whatever NAL unit of File is the first after the
\* server began to accept media, the client does not wait for a parameter set
\* for ever (xnalu_spspps_process).  This depends on the file: if its two
\* pairs of parameter sets have nothing in common, it is not so.
VideoFlows == []<>(out.kind = "video" \/ rtmp \in {"null", "closed"})
=============================================================================
