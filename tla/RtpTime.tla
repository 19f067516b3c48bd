------------------------------- MODULE RtpTime -------------------------------
(***************************************************************************)
(* NRTPTime.hpp: the clocks XSWTLVDemuxer::processFrame keeps for an audio *)
(* and a video flow.  LocalNTP carries the arrival time of the first frame *)
(* on by RTP timestamps, RemoteNTP converts a timestamp to the sender's    *)
(* clock by the last sender report, and for every video frame estimate     *)
(* draws the video's local clock towards the audio's.                      *)
(*                                                                         *)
(* RTP timestamps are numbers modulo TsRange (2^32 in the code), NTP times *)
(* are counted in 1 / Unit seconds (Unit is kMagicNtpFractionalUnit).      *)
(***************************************************************************)
EXTENDS Integers

CONSTANTS
  TsRange,      \* 2^32
  Unit,         \* 2^32
  Rate,         \* clockrate of each flow
  FirstTs,      \* timestamp of the first frame of each flow
  Step,         \* by how much one frame's timestamp is ahead of the last
  Arrival,      \* when a first frame may arrive, in NTP time
  Epoch,        \* the sender's NTP time at the first frame of each flow
  MaxFrames     \* bound on the frames of a flow

Flow == {"audio", "video"}

\* A step is less than half the range, so that its sign can be told.
ASSUME RangeAssumption ==
  /\ TsRange \in Nat \ {0} /\ TsRange % 2 = 0
  /\ FirstTs \in [Flow -> 0 .. TsRange - 1]
  /\ \A d \in Step : d \in Int /\ -(TsRange \div 2) <= d /\ d < TsRange \div 2

ASSUME ClockAssumption ==
  /\ Unit \in Nat \ {0} /\ MaxFrames \in Nat
  /\ \A a \in Arrival : a \in Int \ {0}
  /\ Rate \in [Flow -> Nat \ {0}] /\ Epoch \in [Flow -> Nat \ {0}]

VARIABLES
  lastTS, lastNTP,   \* LocalNTP of each flow; lastNTP 0 before its first frame
  remoteNTP,         \* remoteNTP_: the sender's time of the last frame, 0 if unknown
  report,            \* RemoteNTP of each flow: valid, ntp, ts
  start,             \* history: lastNTP after the first frame
  elapsed,           \* history: sum of the steps of each flow
  reported,          \* history: elapsed at the sender report
  frames,            \* history: number of frames
  fresh,             \* history: remoteNTP is from a report less than half TsRange away
  fixed              \* history: the sum of the corrections by estimate

timeVars == <<lastTS, lastNTP, remoteNTP, report, start, elapsed, reported, frames, fresh, fixed>>

TimeInit == /\ lastTS = [f \in Flow |-> 0] /\ lastNTP = [f \in Flow |-> 0]
            /\ remoteNTP = [f \in Flow |-> 0]
            /\ report = [f \in Flow |-> [valid |-> FALSE, ntp |-> 0, ts |-> 0]]
            /\ start = [f \in Flow |-> 0] /\ elapsed = [f \in Flow |-> 0]
            /\ reported = [f \in Flow |-> 0] /\ frames = [f \in Flow |-> 0]
            /\ fresh = [f \in Flow |-> FALSE] /\ fixed = 0

Abs(n) == IF n < 0 THEN -n ELSE n

\* Faulty variant: the difference of two timestamps as an unsigned number.
DeltaTsUnsigned(ts, from) == (ts - from) % TsRange

\* (int32_t)(ts - from)
DeltaTs(ts, from) ==
  LET d == (ts - from) % TsRange IN IF d < TsRange \div 2 THEN d ELSE d - TsRange

\* Faulty variant: seconds without the fraction.
DeltaTimestamp2NTPWhole(delta, rate) ==
  LET ntp == (Abs(delta) \div rate) * Unit IN IF delta >= 0 THEN ntp ELSE -ntp

DeltaTimestamp2NTP(delta, rate) ==
  LET ntp == (Abs(delta) \div rate) * Unit + (Unit * (Abs(delta) % rate)) \div rate
  IN  IF delta >= 0 THEN ntp ELSE -ntp

\* RemoteNTP::convert
Convert(f, ts) ==
  IF report[f].valid THEN report[f].ntp + DeltaTimestamp2NTP(DeltaTs(ts, report[f].ts), Rate[f])
  ELSE 0

\* LocalNTP::input: the first frame has the time it arrived.
LocalInput(f, ts, arrival) ==
  IF lastNTP[f] = 0 THEN arrival
  ELSE lastNTP[f] + DeltaTimestamp2NTP(DeltaTs(ts, lastTS[f]), Rate[f])

\* diff / 4, which C++ rounds towards 0.
Quarter(diff) == IF diff < 0 THEN -(Abs(diff) \div 4) ELSE diff \div 4

\* Faulty variant: the correction has the wrong sign.
CorrectionAway(local, remote) ==
  IF lastNTP["audio"] # 0 /\ remote > 0 /\ remoteNTP["audio"] > 0
  THEN Quarter((local - lastNTP["audio"]) - (remote - remoteNTP["audio"]))
  ELSE 0

\* estimate: a quarter of what the distance of the two local clocks differs
\* from that of the remote ones, once both have had a report.
Correction(local, remote) ==
  IF lastNTP["audio"] # 0 /\ remote > 0 /\ remoteNTP["audio"] > 0
  THEN Quarter((remote - remoteNTP["audio"]) - (local - lastNTP["audio"]))
  ELSE 0

\* processFrame
processFrame(f, step, arrival) ==
  LET begin  == frames[f] = 0
      ts     == IF begin THEN FirstTs[f] ELSE (lastTS[f] + step) % TsRange
      local  == LocalInput(f, ts, arrival)
      remote == Convert(f, ts)
      fix    == IF f = "video" THEN Correction(local, remote) ELSE 0
  IN  /\ frames[f] < MaxFrames
      /\ lastTS' = [lastTS EXCEPT ![f] = ts]
      /\ lastNTP' = [lastNTP EXCEPT ![f] = local + fix]
      /\ remoteNTP' = [remoteNTP EXCEPT ![f] = remote]
      /\ start' = IF begin THEN [start EXCEPT ![f] = local] ELSE start
      /\ elapsed' = IF begin THEN elapsed ELSE [elapsed EXCEPT ![f] = @ + step]
      /\ frames' = [frames EXCEPT ![f] = @ + 1]
      /\ fresh' = [fresh EXCEPT ![f] = /\ report[f].valid
                                       /\ Abs(elapsed'[f] - reported[f]) < TsRange \div 2]
      /\ fixed' = fixed + fix
      /\ UNCHANGED <<report, reported>>

\* The sender's clock when its timestamp is n ahead of the first frame's.
SenderNTP(f, n) == Epoch[f] + (Unit * n) \div Rate[f]

\* inputRTCP: a sender report with the time and timestamp of the last frame,
\* or of the first one when that has yet to come out of the window.
updateNTP(f) ==
  /\ report' = [report EXCEPT ![f] = [valid |-> TRUE, ntp |-> SenderNTP(f, elapsed[f]),
                                      ts |-> (FirstTs[f] + elapsed[f]) % TsRange]]
  /\ reported' = [reported EXCEPT ![f] = elapsed[f]]
  /\ UNCHANGED <<lastTS, lastNTP, remoteNTP, start, elapsed, frames, fresh, fixed>>

TimeNext == \E f \in Flow : \/ \E step \in Step, arrival \in Arrival : processFrame(f, step, arrival)
                            \/ updateNTP(f)

TimeSpec == TimeInit /\ [][TimeNext]_timeVars

-----------------------------------------------------------------------------
\* Timestamps are below TsRange; a sender's time is never before its epoch
\* (the code keeps it unsigned); the local clock runs from the first frame on.
TimeTypeOK == /\ lastTS \in [Flow -> 0..(TsRange - 1)]
              /\ \A f \in Flow : /\ lastNTP[f] \in Int /\ remoteNTP[f] >= 0
                                 /\ (lastNTP[f] = 0) = (frames[f] = 0)

\* The local clock of a flow is where the steps of its timestamps have taken
\* it, up to one unit for each frame and the corrections made, across any
\* number of wraps of the timestamp and for frames that step back
\* (LocalNTP::input, DeltaTimestamp2NTP).
LocalClockTracks ==
  \A f \in Flow :
    LET ran == lastNTP[f] - start[f] - (IF f = "video" THEN fixed ELSE 0)
    IN  Abs(Rate[f] * ran - Unit * elapsed[f]) <= Rate[f] * frames[f]

\* The sender's time of a frame is right to two units as long as the last
\* sender report is less than half the range of timestamps away
\* (RemoteNTP::convert): later frames and earlier ones, before and after a
\* wrap.
RemoteTimeRight ==
  \A f \in Flow : fresh[f] => Abs(remoteNTP[f] - SenderNTP(f, elapsed[f])) <= 2

\* The code takes 0 for a clock that was not set yet: no local clock has come
\* to be 0 by its steps, no sender's time by the steps back from a report.
ClocksRun ==
  \A f \in Flow : (frames[f] > 0 => lastNTP[f] # 0) /\ (fresh[f] => remoteNTP[f] > 0)

\* How far the two local clocks are from the distance of the remote ones.
Skew(lf, rf) == (rf["video"] - rf["audio"]) - (lf["video"] - lf["audio"])

Reported == \A f \in Flow : fresh[f]

\* What one frame can add to the skew by rounding: a unit for each of the four
\* clocks, and two for a report that was replaced.
Rounding == 6

\* Audio and video come together: no frame, of whichever flow, with whatever
\* step, takes them apart by more than rounding does, and a video frame takes
\* away a quarter of what is between them (estimate).
SkewShrinks ==
  [][Reported /\ Reported' => LET old == Abs(Skew(lastNTP, remoteNTP))
                                  new == Abs(Skew(lastNTP', remoteNTP'))
                              IN  /\ new <= old + Rounding
                                  /\ frames'["video"] # frames["video"]
                                       => 4 * new <= 3 * (old + Rounding) + 3]_timeVars
=============================================================================
