----------------------------- MODULE DustSensor -----------------------------
(***************************************************************************)
(* From the sensor's bytes to the reported reading: the frame parser of    *)
(* SensorDriver, the sampling in tickSensor and the MovingAverage that     *)
(* tickReport reads.  Bytes may be lost (a long pass overruns Serial1's    *)
(* buffer, the unit is switched on in the middle of a frame) and noise may *)
(* come in; a payload may spell the two header bytes.  A byte is known by  *)
(* the reading its frame carries and its position in it, and the checksum  *)
(* is taken to accept the whole of a frame and no mix.  pm10 goes the way  *)
(* of pm25.                                                                *)
(***************************************************************************)
EXTENDS Integers, SequencesExt

CONSTANTS
  Payloads,      \* the readings frames carry
  Aliases,       \* those whose frame has the header's bytes in its payload
  Endings,       \* those whose frame ends in the first byte of the header
  FrameSize,     \* kFrameSize (32)
  Window         \* the N of MovingAverage (10)

SensorInputsOK ==
  /\ Payloads \subseteq Nat /\ Aliases \subseteq Payloads /\ Endings \subseteq Payloads
  /\ FrameSize \in Nat /\ FrameSize >= 5 /\ Window \in Nat \ {0}

VARIABLES
  sent,          \* the frame the sensor is sending and how much of it is out
  intact, clean, \* history: nothing went wrong in this frame; in the one before,
                 \* whose payload does not spell the header either
  parser,        \* frame_index_, in_frame_, header_prev_, and the payloads the bytes
                 \* in frame_ agree with
  got,           \* history: the reading of the frame the last byte completed
  raw,           \* pm25_raw
  unsampled,     \* last_sensor_packet_ms # last_sensor_sample_ms_
  average,       \* the MovingAverage: data_, index_, count_, sum_
  heard          \* history: the readings of all frames accepted since boot

vars == <<sent, intact, clean, parser, got, raw, unsampled, average, heard>>

Nothing == -1
Looks == {"32", "3D", "other"}

\* The bytes of a frame, and what they look like to the header test.
Byte(v, i) == [of |-> v, at |-> i]
Noise(look) == [of |-> Nothing, at |-> look]
Look(b) ==
  CASE b.of = Nothing -> b.at
    [] b.of # Nothing /\ (b.at = 1 \/ (b.at = 3 /\ b.of \in Aliases)
                          \/ (b.at = FrameSize /\ b.of \in Endings)) -> "32"
    [] b.of # Nothing /\ (b.at = 2 \/ (b.at = 4 /\ b.of \in Aliases)) -> "3D"
    [] OTHER -> "other"

Searching(look) == [index |-> 0, in_frame |-> FALSE, prev |-> look, agree |-> {}]
Slots == 0 .. Window - 1

\* The unit comes up anywhere in the sensor's stream.  initDeviceState sets the
\* packet time to the boot time, while the sample time starts at 0: the two differ.
Init ==
  /\ sent \in [v : Payloads, pos : 0 .. FrameSize]
  /\ intact = FALSE /\ clean = FALSE
  /\ parser = Searching("other")
  /\ got = Nothing /\ raw = 0 /\ unsampled = TRUE
  /\ average = [data |-> [s \in Slots |-> 0], index |-> 0, count |-> 0, sum |-> 0]
  /\ heard = {}

-----------------------------------------------------------------------------
(* SensorDriver.                                                           *)

Header(p, b) == p.prev = "32" /\ Look(b) = "3D"

\* What the bytes of frame_ still agree with; the header was written, not read.
Agreeing(p, b) == {v \in p.agree : b = Byte(v, p.index + 1)}
Full(p) == p.index + 1 = FrameSize

\* Mutant: a frame that fails its checksum keeps its place in the buffer.
AfterFrameStuck(p) == IF p.agree = {} THEN p ELSE Searching("other")
AfterFrame(p) == Searching("other")

\* parseByte: the parser after byte b.
Parsed(p, b) ==
  CASE ~p.in_frame /\ Header(p, b) ->
         [index |-> 2, in_frame |-> TRUE, prev |-> "3D", agree |-> Payloads]
    [] ~p.in_frame /\ ~Header(p, b) -> Searching(Look(b))
    [] p.in_frame /\ ~Full(p) -> [p EXCEPT !.index = @ + 1, !.agree = Agreeing(p, b)]
    [] p.in_frame /\ Full(p) -> AfterFrame([p EXCEPT !.agree = Agreeing(p, b)])

\* validChecksum, for the frame that byte b completes.
Accepted(p, b) == IF p.in_frame /\ Full(p) THEN Agreeing(p, b) ELSE {}

ParseByte(b) ==
  /\ parser' = Parsed(parser, b)
  /\ IF Accepted(parser, b) # {}
     THEN /\ got' \in Accepted(parser, b)
          /\ raw' = got' /\ unsampled' = TRUE
          /\ heard' = heard \cup {got'}
     ELSE got' = Nothing /\ UNCHANGED <<raw, unsampled, heard>>

-----------------------------------------------------------------------------
(* The stream.  tick reads whatever has arrived, byte by byte.             *)

ReceiveByte ==
  /\ sent.pos < FrameSize
  /\ sent' = [sent EXCEPT !.pos = @ + 1]
  /\ ParseByte(Byte(sent.v, sent.pos + 1))
  /\ UNCHANGED <<intact, clean, average>>

\* External.
LoseByte ==
  /\ sent.pos < FrameSize
  /\ sent' = [sent EXCEPT !.pos = @ + 1]
  /\ intact' = FALSE
  /\ UNCHANGED <<clean, parser, got, raw, unsampled, average, heard>>

\* External.
ReceiveNoise ==
  /\ intact' = FALSE
  /\ \E look \in Looks : ParseByte(Noise(look))
  /\ UNCHANGED <<sent, clean, average>>

\* External: the sensor begins its next frame.
NextFrame ==
  /\ sent.pos = FrameSize
  /\ \E v \in Payloads : sent' = [v |-> v, pos |-> 0]
  /\ clean' = (intact /\ sent.v \notin Aliases) /\ intact' = TRUE
  /\ UNCHANGED <<parser, got, raw, unsampled, average, heard>>

-----------------------------------------------------------------------------
(* MovingAverage and its users.                                            *)

\* Mutant: the slot is overwritten before what it held is taken off the sum.
AddedOverwrites(a, value) ==
  [data |-> [a.data EXCEPT ![a.index] = value], index |-> (a.index + 1) % Window,
   count |-> IF a.count = Window THEN a.count ELSE a.count + 1,
   sum |-> IF a.count = Window THEN a.sum ELSE a.sum + value]

Added(a, value) ==
  [data |-> [a.data EXCEPT ![a.index] = value], index |-> (a.index + 1) % Window,
   count |-> IF a.count = Window THEN a.count ELSE a.count + 1,
   sum |-> IF a.count = Window THEN a.sum - a.data[a.index] + value ELSE a.sum + value]

Average(a) == IF a.count = 0 THEN 0 ELSE a.sum \div a.count

\* The rest of tickSensor, once the driver has read what there was.
TickSensor ==
  /\ unsampled
  /\ unsampled' = FALSE
  /\ average' = Added(average, raw)
  /\ UNCHANGED <<sent, intact, clean, parser, got, raw, heard>>

Next == ReceiveByte \/ LoseByte \/ ReceiveNoise \/ NextFrame \/ TickSensor

Spec == Init /\ [][Next]_vars

-----------------------------------------------------------------------------
(* Properties.                                                             *)

\* Types of the state; the frame buffer is never written past its end.
TypeOK ==
  /\ sent \in [v : Payloads, pos : 0 .. FrameSize]
  /\ intact \in BOOLEAN /\ clean \in BOOLEAN /\ unsampled \in BOOLEAN
  /\ parser \in [index : 0 .. FrameSize - 1, in_frame : BOOLEAN, prev : Looks, agree : SUBSET Payloads]
  /\ parser.in_frame <=> parser.index >= 2
  /\ got \in Payloads \cup {Nothing} /\ raw \in Payloads \cup {0}
  /\ average.data \in [Slots -> Payloads \cup {0}] /\ average.index \in Slots
  /\ average.count \in 0 .. Window
  /\ heard \subseteq Payloads

\* MovingAverage never recomputes its sum: after any number of turns of the ring it is
\* still the sum of the readings kept, the slots not filled yet counting nothing.
SumIsOfReadings ==
  /\ average.sum = FoldFunction(+, 0, average.data)
  /\ \A s \in Slots : s >= average.count => average.data[s] = 0

\* The running sum is right, what is reported lies between the lowest and the highest reading kept, from the first
\* sample on; and all that is kept, the first sample excepted, is a reading the sensor sent.
AverageOfKept ==
  LET Kept == 0 .. average.count - 1 IN
  /\ SumIsOfReadings
  /\ \A s \in Kept \ {0} : average.data[s] \in heard
  /\ average.count > 0 =>
       \E s, t \in Kept : /\ average.data[s] <= Average(average)
                         /\ Average(average) <= average.data[t]

\* However the stream was damaged before, and wherever the unit came up in it, a
\* frame that arrives whole after a whole frame is accepted with its own reading:
\* a false header, a lost byte or noise costs at most one good frame.
Resync == sent.pos = FrameSize /\ intact /\ clean => got = sent.v

\* "Moving average smoothing for reported PM values" (CHANGELOG.md:110): once a
\* frame was sampled, the average is of readings the sensor sent, so it is never
\* lower than the lowest or higher than the highest of them.
AverageOfReadings ==
  heard # {} /\ ~unsampled =>
    \E lo, hi \in heard : lo <= Average(average) /\ Average(average) <= hi
=============================================================================
