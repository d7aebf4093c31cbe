------------------------- MODULE DustSensor_proofs -------------------------
(***************************************************************************)
(* The frame parser finds the stream again, whatever the frame size, the   *)
(* readings, and the damage.                                               *)
(***************************************************************************)
EXTENDS DustSensor, FiniteSetTheorems, TLAPS

\* The header search tells a frame's own header from its other bytes.
LEMMA Looks32And3D ==
  ASSUME SensorInputsOK, NEW v \in Payloads, NEW i \in 1 .. FrameSize
  PROVE  /\ Byte(v, i).of = v /\ Byte(v, i).at = i
         /\ i = 1 => Look(Byte(v, i)) = "32"
         /\ i = 2 => Look(Byte(v, i)) = "3D"
         /\ v \notin Aliases /\ i # 2 => Look(Byte(v, i)) # "3D"
<1> DEFINE b == Byte(v, i)
<1>1. b.of = v /\ b.at = i
  BY DEF Byte
<1>2. v # Nothing /\ FrameSize \notin {2, 4}
  BY DEF SensorInputsOK, Nothing
<1> HIDE DEF b
<1> DEFINE first == b.at = 1 \/ (b.at = 3 /\ b.of \in Aliases) \/ (b.at = FrameSize /\ b.of \in Endings)
           second == b.at = 2 \/ (b.at = 4 /\ b.of \in Aliases)
<1>3. /\ first => Look(b) = "32"
      /\ ~first /\ second => Look(b) = "3D"
      /\ ~first /\ ~second => Look(b) = "other"
  <2>1. b.of # Nothing
    BY <1>1, <1>2
  <2>2. first => ~second
    BY <1>1, <1>2
  <2> HIDE DEF b
  <2>3. Look(b) = CASE b.of # Nothing /\ first -> "32"
                    [] b.of # Nothing /\ second -> "3D"
                    [] OTHER -> "other"
    BY <2>1 DEF Look
  <2> HIDE DEF first, second
  <2>4. ASSUME first PROVE Look(b) = "32"
    BY <2>1, <2>2, <2>3, <2>4
  <2>5. ASSUME ~first, second PROVE Look(b) = "3D"
    BY <2>1, <2>3, <2>5
  <2>6. ASSUME ~first, ~second PROVE Look(b) = "other"
    BY <2>1, <2>3, <2>6
  <2> QED
    BY <2>4, <2>5, <2>6
<1>4. i = 2 => ~first /\ second
  BY <1>1, <1>2
<1>5. v \notin Aliases /\ i # 2 => ~second
  BY <1>1
<1>6. i = 1 => first
  BY <1>1
<1> HIDE DEF first, second
<1>7. v \notin Aliases /\ i # 2 => Look(b) # "3D"
  BY <1>3, <1>5
<1> QED
  BY <1>1, <1>3, <1>4, <1>6, <1>7 DEF b

-----------------------------------------------------------------------------
(* The inductive invariant.                                                *)

\* Where the parser is: outside a frame, or behind two to FrameSize - 1 bytes of what it
\* takes for one.
ParserOK ==
  /\ DOMAIN parser = {"index", "in_frame", "prev", "agree"}
  /\ parser.in_frame \in BOOLEAN /\ parser.index \in Nat
  /\ parser.in_frame => parser.index \in 2 .. FrameSize - 1

\* In an intact frame without an alias the parser is either in step with the sensor
\* or inside a false frame that began before, which ends before this one does.
NoNewFalseFrame ==
  intact /\ sent.v \notin Aliases /\ parser.in_frame =>
    parser.index = sent.pos \/ parser.index >= sent.pos + 2

\* In an intact frame after a clean one the parser is in step.
InStep ==
  intact /\ clean =>
    /\ sent.pos \in {0, 1, FrameSize} => ~parser.in_frame
    /\ sent.pos = 1 => parser.prev = "32"
    /\ sent.pos \in 2 .. FrameSize - 1 =>
         parser.in_frame /\ parser.index = sent.pos /\ sent.v \in parser.agree
    /\ sent.pos = FrameSize => got = sent.v

IInv ==
  /\ sent \in [v : Payloads, pos : 0 .. FrameSize] /\ intact \in BOOLEAN /\ clean \in BOOLEAN
  /\ ParserOK /\ NoNewFalseFrame /\ InStep

LEMMA InitInv == SensorInputsOK /\ Init => IInv
<1> SUFFICES ASSUME SensorInputsOK, Init PROVE IInv
  OBVIOUS
<1>1. /\ sent \in [v : Payloads, pos : 0 .. FrameSize] /\ intact = FALSE /\ clean = FALSE
      /\ parser = [index |-> 0, in_frame |-> FALSE, prev |-> "other", agree |-> {}]
  BY DEF Init, Searching
<1>2. ParserOK
  BY <1>1 DEF ParserOK
<1> QED
  BY <1>1, <1>2 DEF IInv, NoNewFalseFrame, InStep

\* What a byte does to the parser, whatever the byte is.
LEMMA ParsedType ==
  ASSUME SensorInputsOK, ParserOK, NEW b, parser' = Parsed(parser, b)
  PROVE  /\ ParserOK'
         /\ ~parser.in_frame /\ Header(parser, b) =>
              parser'.in_frame /\ parser'.index = 2 /\ parser'.agree = Payloads
         /\ ~parser.in_frame /\ ~Header(parser, b) => ~parser'.in_frame /\ parser'.prev = Look(b)
         /\ parser.in_frame /\ parser.index + 1 # FrameSize =>
              /\ parser'.in_frame /\ parser'.index = parser.index + 1
              /\ parser'.agree = Agreeing(parser, b)
         /\ parser.in_frame /\ parser.index + 1 = FrameSize => ~parser'.in_frame
<1>1. CASE ~parser.in_frame /\ Header(parser, b)
  <2>1. parser' = [index |-> 2, in_frame |-> TRUE, prev |-> "3D", agree |-> Payloads]
    BY <1>1 DEF Parsed
  <2> QED
    BY <1>1, <2>1 DEF ParserOK, SensorInputsOK
<1>2. CASE ~parser.in_frame /\ ~Header(parser, b)
  <2>1. parser' = Searching(Look(b))
    BY <1>2 DEF Parsed
  <2> QED
    BY <1>2, <2>1 DEF ParserOK, Searching
<1>3. CASE parser.in_frame /\ ~Full(parser)
  <2>1. parser' = [parser EXCEPT !.index = @ + 1, !.agree = Agreeing(parser, b)]
    BY <1>3 DEF Parsed
  <2> DEFINE agree == Agreeing(parser, b)
  <2> HIDE DEF agree
  <2>2. /\ DOMAIN parser' = DOMAIN parser /\ parser'.index = parser.index + 1
        /\ parser'.in_frame = parser.in_frame /\ parser'.agree = agree
    BY <2>1 DEF ParserOK, agree
  <2> QED
    BY <1>3, <2>2 DEF ParserOK, Full, SensorInputsOK, agree
<1>4. CASE parser.in_frame /\ Full(parser)
  <2>1. parser' = Searching("other")
    BY <1>4 DEF Parsed, AfterFrame
  <2> QED
    BY <1>4, <2>1 DEF ParserOK, Searching, Full
<1> QED
  BY <1>1, <1>2, <1>3, <1>4 DEF Full

LEMMA ReceiveByteInv ==
  ASSUME SensorInputsOK, IInv, ReceiveByte
  PROVE  IInv'
<1> DEFINE p == sent.pos
           v == sent.v
           b == Byte(v, p + 1)
<1>1. /\ p \in 0 .. FrameSize - 1 /\ v \in Payloads /\ FrameSize \in Nat /\ FrameSize >= 5
      /\ sent' = [sent EXCEPT !.pos = @ + 1] /\ ParseByte(b)
      /\ intact' = intact /\ clean' = clean
  BY DEF IInv, ReceiveByte, SensorInputsOK
<1>2. sent'.v = v /\ sent'.pos = p + 1 /\ sent' \in [v : Payloads, pos : 0 .. FrameSize]
  BY <1>1 DEF IInv
<1>3. /\ b.of = v /\ b.at = p + 1
      /\ p = 0 => Look(b) = "32"
      /\ p = 1 => Look(b) = "3D"
      /\ v \notin Aliases /\ p # 1 => Look(b) # "3D"
  BY <1>1, Looks32And3D
<1>4. parser' = Parsed(parser, b) /\ ParserOK
  BY <1>1 DEF ParseByte, IInv
<1> HIDE DEF b
<1>5. /\ ParserOK'
      /\ ~parser.in_frame /\ Header(parser, b) =>
           parser'.in_frame /\ parser'.index = 2 /\ parser'.agree = Payloads
      /\ ~parser.in_frame /\ ~Header(parser, b) => ~parser'.in_frame /\ parser'.prev = Look(b)
      /\ parser.in_frame /\ parser.index + 1 # FrameSize =>
           /\ parser'.in_frame /\ parser'.index = parser.index + 1
           /\ parser'.agree = Agreeing(parser, b)
      /\ parser.in_frame /\ parser.index + 1 = FrameSize => ~parser'.in_frame
  BY <1>4, ParsedType
<1>6. NoNewFalseFrame'
  <2> SUFFICES ASSUME intact, v \notin Aliases, parser'.in_frame
               PROVE  parser'.index = p + 1 \/ parser'.index >= p + 3
    BY <1>1, <1>2 DEF NoNewFalseFrame
  <2>1. CASE parser.in_frame
    BY <1>1, <1>4, <1>5, <2>1 DEF IInv, NoNewFalseFrame, ParserOK
  <2>2. CASE ~parser.in_frame
    <3>1. Header(parser, b) /\ p = 1
      BY <1>3, <1>5, <2>2 DEF Header
    <3> QED
      BY <1>5, <2>2, <3>1
  <2> QED
    BY <2>1, <2>2
<1>7. InStep'
  <2> SUFFICES ASSUME intact, clean
               PROVE  /\ p + 1 \in {0, 1, FrameSize} => ~parser'.in_frame
                      /\ p + 1 = 1 => parser'.prev = "32"
                      /\ p + 1 \in 2 .. FrameSize - 1 =>
                           parser'.in_frame /\ parser'.index = p + 1 /\ v \in parser'.agree
                      /\ p + 1 = FrameSize => got' = v
    BY <1>1, <1>2 DEF InStep
  <2>1. /\ p \in {0, 1} => ~parser.in_frame
        /\ p = 1 => parser.prev = "32"
        /\ p \in 2 .. FrameSize - 1 => parser.in_frame /\ parser.index = p /\ v \in parser.agree
    BY <1>1 DEF IInv, InStep
  <2>2. CASE p = 0
    <3>1. ~Header(parser, b)
      BY <1>3, <2>2 DEF Header
    <3> QED
      BY <1>1, <1>3, <1>5, <2>1, <2>2, <3>1
  <2>3. CASE p = 1
    <3>1. Header(parser, b)
      BY <1>3, <2>1, <2>3 DEF Header
    <3> QED
      BY <1>1, <1>5, <2>1, <2>3, <3>1
  <2>4. CASE p \in 2 .. FrameSize - 1
    <3>1. parser.in_frame /\ parser.index = p /\ v \in parser.agree
      BY <2>1, <2>4
    <3>2. v \in Agreeing(parser, b)
      BY <3>1 DEF Agreeing, b
    <3>3. \A w \in Agreeing(parser, b) : w = v
      BY <1>3 DEF Agreeing, Byte
    <3>4. CASE p + 1 = FrameSize
      <4>1. Accepted(parser, b) = Agreeing(parser, b)
        BY <3>1, <3>4 DEF Accepted, Full
      <4>2. got' \in Accepted(parser, b)
        BY <1>1, <3>2, <4>1 DEF ParseByte
      <4>3. got' = v
        BY <3>3, <4>1, <4>2
      <4> QED
        BY <1>1, <1>5, <3>1, <3>4, <4>3
    <3>5. CASE p + 1 # FrameSize
      BY <1>1, <1>5, <2>4, <3>1, <3>2, <3>5
    <3> QED
      BY <3>4, <3>5
  <2> QED
    BY <1>1, <2>2, <2>3, <2>4
<1> QED
  BY <1>1, <1>2, <1>5, <1>6, <1>7 DEF IInv

LEMMA StepInv == SensorInputsOK /\ IInv /\ [Next]_vars => IInv'
<1> SUFFICES ASSUME SensorInputsOK, IInv, [Next]_vars PROVE IInv'
  OBVIOUS
<1>1. CASE ReceiveByte
  BY <1>1, ReceiveByteInv
<1>2. CASE LoseByte
  <2>1. /\ sent' = [sent EXCEPT !.pos = @ + 1] /\ sent.pos < FrameSize /\ intact' = FALSE
        /\ clean' = clean /\ parser' = parser /\ got' = got
    BY <1>2 DEF LoseByte
  <2>2. sent' \in [v : Payloads, pos : 0 .. FrameSize]
    BY <2>1 DEF IInv, SensorInputsOK
  <2> QED
    BY <2>1, <2>2 DEF IInv, ParserOK, NoNewFalseFrame, InStep
<1>3. CASE ReceiveNoise
  <2>1. PICK look \in Looks : parser' = Parsed(parser, Noise(look))
    BY <1>3 DEF ReceiveNoise, ParseByte
  <2>2. ParserOK'
    BY <2>1, ParsedType DEF IInv
  <2> QED
    BY <1>3, <2>2 DEF ReceiveNoise, IInv, NoNewFalseFrame, InStep
<1>4. CASE NextFrame
  <2>1. PICK v \in Payloads : sent' = [v |-> v, pos |-> 0]
    BY <1>4 DEF NextFrame
  <2>2. /\ sent.pos = FrameSize /\ (clean' <=> intact /\ sent.v \notin Aliases)
        /\ clean' \in BOOLEAN /\ intact' = TRUE /\ parser' = parser /\ got' = got
    BY <1>4 DEF NextFrame
  <2>3. clean' => ~parser.in_frame
    BY <2>2 DEF IInv, NoNewFalseFrame, ParserOK, SensorInputsOK
  <2>4. sent'.pos = 0 /\ sent'.v = v /\ sent' \in [v : Payloads, pos : 0 .. FrameSize]
    BY <2>1 DEF SensorInputsOK
  <2>5. InStep'
    BY <2>2, <2>3, <2>4 DEF InStep, SensorInputsOK
  <2>6. NoNewFalseFrame' /\ ParserOK'
    BY <2>2, <2>4 DEF IInv, NoNewFalseFrame, ParserOK
  <2> QED
    BY <2>2, <2>4, <2>5, <2>6 DEF IInv
<1>5. CASE TickSensor \/ UNCHANGED vars
  <2>1. UNCHANGED <<sent, intact, clean, parser, got>>
    BY <1>5 DEF TickSensor, vars
  <2> QED
    BY <2>1 DEF IInv, ParserOK, NoNewFalseFrame, InStep
<1> QED
  BY <1>1, <1>2, <1>3, <1>4, <1>5 DEF Next

LEMMA InvResync == SensorInputsOK /\ IInv => Resync
BY DEF SensorInputsOK, IInv, InStep, Resync

-----------------------------------------------------------------------------
(* The types of the parser's and the average's records, which the frame    *)
(* buffer's bound and the readings' origin follow from.                    *)

DustTyped ==
  /\ sent \in [v : Payloads, pos : 0 .. FrameSize]
  /\ intact \in BOOLEAN /\ clean \in BOOLEAN /\ unsampled \in BOOLEAN
  /\ parser \in [index : 0 .. FrameSize - 1, in_frame : BOOLEAN, prev : Looks, agree : SUBSET Payloads]
  /\ parser.in_frame <=> parser.index >= 2
  /\ got \in Payloads \cup {Nothing} /\ raw \in Payloads \cup {0}
  /\ average \in [data : [Slots -> Payloads \cup {0}], index : Slots, count : 0 .. Window, sum : Int]
  /\ heard \subseteq Payloads

\* A byte keeps the parser inside its frame, and what it completes is a reading that the
\* sensor has.
LEMMA ParseByteTyped ==
  ASSUME SensorInputsOK, DustTyped, NEW b, Look(b) \in Looks, ParseByte(b)
  PROVE  /\ parser' \in [index : 0 .. FrameSize - 1, in_frame : BOOLEAN, prev : Looks, agree : SUBSET Payloads]
         /\ parser'.in_frame <=> parser'.index >= 2
         /\ got' \in Payloads \cup {Nothing} /\ raw' \in Payloads \cup {0} /\ unsampled' \in BOOLEAN
         /\ heard' \subseteq Payloads
<1>0. FrameSize \in Nat /\ FrameSize >= 5
  BY DEF SensorInputsOK
<1>1. /\ parser \in [index : 0 .. FrameSize - 1, in_frame : BOOLEAN, prev : Looks, agree : SUBSET Payloads]
      /\ parser.in_frame <=> parser.index >= 2
  BY DEF DustTyped
<1>2. Agreeing(parser, b) \in SUBSET Payloads /\ Accepted(parser, b) \in SUBSET Payloads
  BY <1>1 DEF Agreeing, Accepted
<1>3. parser' = Parsed(parser, b)
  BY DEF ParseByte
<1>4. \A look \in Looks :
        /\ Searching(look) \in [index : 0 .. FrameSize - 1, in_frame : BOOLEAN, prev : Looks, agree : SUBSET Payloads]
        /\ ~Searching(look).in_frame /\ Searching(look).index = 0
  BY <1>0 DEF Searching
<1>5. CASE ~parser.in_frame /\ Header(parser, b)
  <2>1. parser' = [index |-> 2, in_frame |-> TRUE, prev |-> "3D", agree |-> Payloads]
    BY <1>3, <1>5 DEF Parsed
  <2>2. got' = Nothing /\ UNCHANGED <<raw, unsampled, heard>>
    BY <1>5 DEF ParseByte, Accepted
  <2> QED
    BY <1>0, <2>1, <2>2 DEF Looks, DustTyped
<1>6. CASE ~parser.in_frame /\ ~Header(parser, b)
  <2>1. parser' = Searching(Look(b))
    BY <1>3, <1>6 DEF Parsed
  <2>2. got' = Nothing /\ UNCHANGED <<raw, unsampled, heard>>
    BY <1>6 DEF ParseByte, Accepted
  <2> QED
    BY <1>4, <2>1, <2>2 DEF DustTyped
<1>7. CASE parser.in_frame /\ ~Full(parser)
  <2> DEFINE agree == Agreeing(parser, b)
  <2>1. parser' = [parser EXCEPT !.index = @ + 1, !.agree = agree] /\ parser.index + 1 # FrameSize
    BY <1>3, <1>7 DEF Parsed, Full
  <2>2. got' = Nothing /\ UNCHANGED <<raw, unsampled, heard>>
    BY <1>7 DEF ParseByte, Accepted
  <2>3. agree \in SUBSET Payloads
    BY <1>2
  <2> HIDE DEF agree
  <2>4. parser.index + 1 \in 0 .. FrameSize - 1 /\ parser.index \in Nat
    BY <1>0, <1>1, <2>1
  <2>5. /\ parser' \in [index : 0 .. FrameSize - 1, in_frame : BOOLEAN, prev : Looks, agree : SUBSET Payloads]
        /\ parser'.in_frame = parser.in_frame /\ parser'.index = parser.index + 1
    BY <1>1, <2>1, <2>3, <2>4
  <2>6. parser'.in_frame <=> parser'.index >= 2
    BY <1>1, <1>7, <2>4, <2>5
  <2>7. got' \in Payloads \cup {Nothing} /\ raw' = raw /\ unsampled' = unsampled /\ heard' = heard
    BY <2>2
  <2> QED
    BY <2>5, <2>6, <2>7 DEF DustTyped
<1>8. CASE parser.in_frame /\ Full(parser)
  <2>1. parser' = Searching("other") /\ "other" \in Looks
    BY <1>3, <1>8 DEF Parsed, AfterFrame, Looks
  <2>2. CASE Accepted(parser, b) # {}
    BY <1>2, <1>4, <2>1, <2>2 DEF ParseByte, DustTyped
  <2>3. CASE Accepted(parser, b) = {}
    BY <1>4, <2>1, <2>3 DEF ParseByte, DustTyped
  <2> QED
    BY <2>2, <2>3
<1> QED
  BY <1>1, <1>5, <1>6, <1>7, <1>8

LEMMA InitTyped == SensorInputsOK /\ Init => DustTyped
<1> SUFFICES ASSUME SensorInputsOK, Init PROVE DustTyped
  OBVIOUS
<1>1. FrameSize \in Nat /\ FrameSize >= 5 /\ Window \in Nat \ {0}
  BY DEF SensorInputsOK
<1>2. /\ parser \in [index : 0 .. FrameSize - 1, in_frame : BOOLEAN, prev : Looks, agree : SUBSET Payloads]
      /\ parser.in_frame <=> parser.index >= 2
  BY <1>1 DEF Init, Searching, Looks
<1>3. average \in [data : [Slots -> Payloads \cup {0}], index : Slots, count : 0 .. Window, sum : Int]
  BY <1>1 DEF Init, Slots
<1> QED
  BY <1>2, <1>3 DEF Init, DustTyped

LEMMA StepTyped == SensorInputsOK /\ DustTyped /\ [Next]_vars => DustTyped'
<1> SUFFICES ASSUME SensorInputsOK, DustTyped, [Next]_vars PROVE DustTyped'
  OBVIOUS
<1>0. FrameSize \in Nat /\ Window \in Nat \ {0} /\ Payloads \subseteq Nat
  BY DEF SensorInputsOK
<1>1. CASE ReceiveByte
  <2>1. ParseByte(Byte(sent.v, sent.pos + 1)) /\ Look(Byte(sent.v, sent.pos + 1)) \in Looks
    <3>1. sent.v \in Payloads /\ sent.pos + 1 \in 1 .. FrameSize
      BY <1>0, <1>1 DEF ReceiveByte, DustTyped
    <3>2. sent.v # Nothing
      BY <1>0, <3>1 DEF Nothing
    <3> QED
      BY <1>1, <3>1, <3>2 DEF ReceiveByte, Byte, Look, Looks
  <2>2. sent' \in [v : Payloads, pos : 0 .. FrameSize]
    BY <1>0, <1>1 DEF ReceiveByte, DustTyped
  <2>3. UNCHANGED <<intact, clean, average>>
    BY <1>1 DEF ReceiveByte
  <2> QED
    BY <2>1, <2>2, <2>3, ParseByteTyped DEF DustTyped
<1>2. CASE LoseByte
  <2>1. sent' \in [v : Payloads, pos : 0 .. FrameSize]
    BY <1>0, <1>2 DEF LoseByte, DustTyped
  <2> QED
    BY <1>2, <2>1 DEF LoseByte, DustTyped
<1>3. CASE ReceiveNoise
  <2>1. PICK look \in Looks : ParseByte(Noise(look))
    BY <1>3 DEF ReceiveNoise
  <2>2. Look(Noise(look)) \in Looks
    BY DEF Noise, Look
  <2>3. intact' = FALSE /\ UNCHANGED <<sent, clean, average>>
    BY <1>3 DEF ReceiveNoise
  <2> QED
    BY <2>1, <2>2, <2>3, ParseByteTyped DEF DustTyped
<1>4. CASE NextFrame
  <2>1. sent' \in [v : Payloads, pos : 0 .. FrameSize]
    BY <1>0, <1>4 DEF NextFrame
  <2>2. intact' \in BOOLEAN /\ clean' \in BOOLEAN
    BY <1>4 DEF NextFrame
  <2>3. UNCHANGED <<parser, got, raw, unsampled, average, heard>>
    BY <1>4 DEF NextFrame
  <2> QED
    BY <2>1, <2>2, <2>3 DEF DustTyped
<1>5. CASE TickSensor
  <2>1. /\ average.data \in [Slots -> Payloads \cup {0}] /\ average.index \in Slots
        /\ average.count \in 0 .. Window /\ average.sum \in Int /\ raw \in Payloads \cup {0}
    BY DEF DustTyped
  <2>2. (average.index + 1) % Window \in Slots
    BY <1>0, <2>1 DEF Slots
  <2>3. [average.data EXCEPT ![average.index] = raw] \in [Slots -> Payloads \cup {0}]
    BY <2>1
  <2>4. (IF average.count = Window THEN average.count ELSE average.count + 1) \in 0 .. Window
    BY <1>0, <2>1
  <2>5. (IF average.count = Window THEN average.sum - average.data[average.index] + raw
         ELSE average.sum + raw) \in Int
    <3>1. raw \in Int /\ average.data[average.index] \in Int
      <4>1. average.data[average.index] \in Payloads \cup {0}
        BY <2>1
      <4>2. \A x \in Payloads \cup {0} : x \in Int
        BY <1>0
      <4> QED
        BY <2>1, <4>1, <4>2
    <3> QED
      BY <2>1, <3>1
  <2>6. average' \in [data : [Slots -> Payloads \cup {0}], index : Slots, count : 0 .. Window, sum : Int]
    BY <1>5, <2>2, <2>3, <2>4, <2>5 DEF TickSensor, Added
  <2>7. unsampled' = FALSE /\ UNCHANGED <<sent, intact, clean, parser, got, raw, heard>>
    BY <1>5 DEF TickSensor
  <2> QED
    BY <2>6, <2>7 DEF DustTyped
<1>6. CASE UNCHANGED vars
  BY <1>6 DEF vars, DustTyped
<1> QED
  BY <1>1, <1>2, <1>3, <1>4, <1>5, <1>6 DEF Next

LEMMA TypedOK == DustTyped => TypeOK
BY DEF DustTyped, TypeOK

-----------------------------------------------------------------------------
(* The sum of a function's values, which is a fold.  The library's          *)
(* induction theorems take an operator as their argument; the ones here     *)
(* take a set.                                                              *)

\* Induction over the natural numbers, said of a set of them: its complement would
\* have a least element.
LEMMA InductiveSet ==
  ASSUME NEW N \in SUBSET Nat, 0 \in N, \A n \in N : n + 1 \in N
  PROVE  N = Nat
<1> DEFINE Rest == Nat \ N
           Less == OpToRel(<, Nat)
<1> SUFFICES ASSUME Rest # {} PROVE FALSE
  OBVIOUS
<1>1. \A x, y \in Nat : <<y, x>> \in Less <=> y < x
  BY DEF OpToRel
<1> HIDE DEF Less
<1>2. IsWellFoundedOn(Less, Nat)
  BY ONLY NatLessThanWellFounded, Zenon DEF Less
<1>3. Rest \subseteq Nat
  OBVIOUS
<1>4. \E x \in Rest : \A y \in Rest : ~ (<<y, x>> \in Less)
  <2> HIDE DEF Rest
  <2> QED
    BY <1>2, <1>3, WFMin
<1>5. PICK x \in Rest : \A y \in Rest : ~(y < x)
  BY <1>1, <1>4
<1>6. x # 0 /\ x - 1 \in Nat /\ x - 1 \notin Rest
  BY <1>5
<1> QED
  BY <1>5, <1>6

\* The element a fold takes first, and what it leaves.
Taken(T) == CHOOSE x \in T : TRUE
Left(T) == T \ {Taken(T)}

\* The partial sums of the fold of f over a set.
Summed(f, g, T) == IF T = {} THEN 0 ELSE f[Taken(T)] + g[Left(T)]
Sums(f, S) == CHOOSE g : g = [T \in SUBSET S |-> Summed(f, g, T)]

LEMMA FoldIsSum ==
  ASSUME NEW f
  PROVE  FoldFunction(+, 0, f) = Sums(f, DOMAIN f)[DOMAIN f]
BY DEF FoldFunction, FoldFunctionOnSet, MapThenFoldSet, Sums, Summed, Taken, Left

\* Every non-empty finite set has one element more than what is left of it.
LEMMA RestIsSmaller ==
  ASSUME NEW S, IsFiniteSet(S), NEW T \in SUBSET S
  PROVE  /\ IsFiniteSet(T) /\ Cardinality(T) \in Nat
         /\ Cardinality(T) = 0 <=> T = {}
         /\ T # {} => /\ Taken(T) \in T /\ Left(T) \in SUBSET S
                      /\ Cardinality(Left(T)) = Cardinality(T) - 1
<1>1. IsFiniteSet(T)
  BY FS_Subset
<1>2. T # {} => Taken(T) \in T
  BY DEF Taken
<1> QED
  BY <1>1, <1>2, FS_CardinalityType, FS_EmptySet, FS_RemoveElement DEF Left

\* The recursion of the fold has a solution: there is one for the subsets of at
\* most n elements, for every n.
LEMMA SumsEquation ==
  ASSUME NEW S, IsFiniteSet(S), NEW f
  PROVE  Sums(f, S) = [T \in SUBSET S |-> Summed(f, Sums(f, S), T)]
<1> DEFINE Solves(g, n) == \A T \in SUBSET S : Cardinality(T) <= n => g[T] = Summed(f, g, T)
           N == {n \in Nat : \E g : Solves(g, n)}
<1>1. 0 \in N
  <2> DEFINE g == [T \in SUBSET S |-> 0]
  <2>1. Solves(g, 0)
    BY RestIsSmaller DEF Summed
  <2> QED
    BY <2>1
<1>2. ASSUME NEW n \in N PROVE n + 1 \in N
  <2>1. PICK g : Solves(g, n)
    BY <1>2
  <2> DEFINE h == [T \in SUBSET S |-> IF Cardinality(T) <= n THEN g[T] ELSE Summed(f, g, T)]
  <2>2. ASSUME NEW T \in SUBSET S, Cardinality(T) <= n + 1
        PROVE  h[T] = Summed(f, h, T)
    <3>1. h[T] = Summed(f, g, T)
      BY <2>1
    <3>2. T # {} => h[Left(T)] = g[Left(T)]
      BY <2>2, RestIsSmaller
    <3> QED
      BY <3>1, <3>2 DEF Summed
  <2>3. Solves(h, n + 1)
    BY <2>2
  <2> HIDE DEF h, Solves
  <2> QED
    BY <2>3
<1>3. Cardinality(S) \in N
  <2>1. N \in SUBSET Nat /\ Cardinality(S) \in Nat
    BY FS_CardinalityType
  <2> HIDE DEF N
  <2> QED
    BY <1>1, <1>2, <2>1, InductiveSet
<1>4. PICK g : Solves(g, Cardinality(S))
  BY <1>3
<1> DEFINE h == [T \in SUBSET S |-> g[T]]
<1>5. ASSUME NEW T \in SUBSET S PROVE h[T] = Summed(f, h, T)
  <2>1. Cardinality(T) <= Cardinality(S)
    BY FS_Subset
  <2>2. g[T] = Summed(f, g, T)
    BY <1>4, <2>1
  <2> QED
    BY <2>2, RestIsSmaller DEF Summed
<1>6. h = [T \in SUBSET S |-> Summed(f, h, T)]
  BY <1>5
<1> HIDE DEF h
<1> QED
  BY <1>6 DEF Sums

\* Induction along the fold: what holds of the empty set, and of a set when it holds of what
\* is left of it, holds of every subset.
LEMMA AlongTheFold ==
  ASSUME NEW S, IsFiniteSet(S), NEW Good \in SUBSET SUBSET S,
         {} \in Good,
         \A T \in SUBSET S : T # {} /\ Left(T) \in Good => T \in Good
  PROVE  Good = SUBSET S
<1> DEFINE N == {n \in Nat : \A T \in SUBSET S : Cardinality(T) <= n => T \in Good}
<1>1. 0 \in N
  <2>1. ASSUME NEW T \in SUBSET S, Cardinality(T) <= 0 PROVE T \in Good
    <3>1. T = {}
      BY <2>1, RestIsSmaller
    <3> QED
      BY <3>1
  <2> QED
    BY <2>1
<1>2. ASSUME NEW n \in N PROVE n + 1 \in N
  <2>1. ASSUME NEW T \in SUBSET S, Cardinality(T) <= n + 1 PROVE T \in Good
    BY <2>1, RestIsSmaller
  <2> QED
    BY <2>1
<1>3. N = Nat
  <2>1. N \in SUBSET Nat
    OBVIOUS
  <2> HIDE DEF N
  <2> QED
    BY <1>1, <1>2, <2>1, InductiveSet
<1> QED
  BY <1>3, RestIsSmaller

LEMMA SumsOf ==
  ASSUME NEW S, IsFiniteSet(S), NEW f, NEW T \in SUBSET S
  PROVE  /\ T = {} => Sums(f, S)[T] = 0
         /\ T # {} => /\ Taken(T) \in T /\ Left(T) \in SUBSET S
                      /\ Sums(f, S)[T] = f[Taken(T)] + Sums(f, S)[Left(T)]
<1> DEFINE g == Sums(f, S)
<1>1. g = [U \in SUBSET S |-> Summed(f, g, U)]
  BY SumsEquation
<1> HIDE DEF g
<1>2. g[T] = Summed(f, g, T)
  BY <1>1
<1> QED
  BY <1>2, RestIsSmaller DEF Summed, g

LEMMA SumsType ==
  ASSUME NEW S, IsFiniteSet(S), NEW f \in [S -> Int]
  PROVE  \A T \in SUBSET S : Sums(f, S)[T] \in Int
<1> DEFINE Good == {T \in SUBSET S : Sums(f, S)[T] \in Int}
<1>1. {} \in Good
  <2>1. {} \in SUBSET S /\ Sums(f, S)[{}] = 0
    BY SumsOf
  <2> QED
    BY <2>1
<1>2. ASSUME NEW T \in SUBSET S, T # {}, Left(T) \in Good PROVE T \in Good
  BY <1>2, SumsOf
<1>3. Good \in SUBSET SUBSET S
  OBVIOUS
<1>4. Good = SUBSET S
  <2> HIDE DEF Good
  <2> QED
    BY <1>1, <1>2, <1>3, AlongTheFold
<1> QED
  BY <1>4

\* Changing one value changes the sum by the difference.
LEMMA SumsExcept ==
  ASSUME NEW S, IsFiniteSet(S), NEW f \in [S -> Int], NEW s \in S, NEW v \in Int
  PROVE  Sums([f EXCEPT ![s] = v], S)[S] = Sums(f, S)[S] - f[s] + v
<1> DEFINE h == [f EXCEPT ![s] = v]
           Good == {T \in SUBSET S : Sums(h, S)[T] = Sums(f, S)[T] + IF s \in T THEN v - f[s] ELSE 0}
<1>0. h \in [S -> Int] /\ f[s] \in Int /\ \A x \in S : h[x] = IF x = s THEN v ELSE f[x]
  OBVIOUS
<1> HIDE DEF h
<1>1. {} \in Good
  <2>1. {} \in SUBSET S /\ Sums(f, S)[{}] = 0 /\ Sums(h, S)[{}] = 0
    BY SumsOf
  <2> QED
    BY <2>1
<1>2. ASSUME NEW T \in SUBSET S, T # {}, Left(T) \in Good PROVE T \in Good
  <2> DEFINE x == Taken(T)
             R == Left(T)
  <2>1. /\ x \in T /\ R \in SUBSET S
        /\ Sums(h, S)[T] = h[x] + Sums(h, S)[R] /\ Sums(f, S)[T] = f[x] + Sums(f, S)[R]
    BY <1>2, SumsOf
  <2>2. s \in T <=> s \in R \/ x = s
    BY <2>1 DEF Left
  <2>3. x \notin R
    BY DEF Left
  <2>4. Sums(h, S)[R] \in Int /\ Sums(f, S)[R] \in Int /\ f[x] \in Int /\ h[x] \in Int
    BY <1>0, <2>1, SumsType
  <2>5. Sums(h, S)[R] = Sums(f, S)[R] + IF s \in R THEN v - f[s] ELSE 0
    BY <1>2
  <2> HIDE DEF x, R
  <2>6. Sums(h, S)[T] = Sums(f, S)[T] + IF s \in T THEN v - f[s] ELSE 0
    BY <1>0, <2>1, <2>2, <2>3, <2>4, <2>5
  <2> QED
    BY <2>6
<1>3. Good \in SUBSET SUBSET S
  OBVIOUS
<1>4. Good = SUBSET S
  <2> HIDE DEF Good
  <2> QED
    BY <1>1, <1>2, <1>3, AlongTheFold
<1>5. Sums(h, S)[S] = Sums(f, S)[S] + (v - f[s])
  BY <1>4
<1>6. Sums(f, S)[S] \in Int
  BY SumsType
<1> QED
  BY <1>0, <1>5, <1>6 DEF h

\* A function that is nowhere above another has no larger sum.
LEMMA SumsMonotonic ==
  ASSUME NEW S, IsFiniteSet(S), NEW f \in [S -> Int], NEW h \in [S -> Int],
         \A x \in S : f[x] <= h[x]
  PROVE  Sums(f, S)[S] <= Sums(h, S)[S]
<1> DEFINE Good == {T \in SUBSET S : Sums(f, S)[T] <= Sums(h, S)[T]}
<1>1. {} \in Good
  <2>1. {} \in SUBSET S /\ Sums(f, S)[{}] = 0 /\ Sums(h, S)[{}] = 0
    BY SumsOf
  <2> QED
    BY <2>1
<1>2. ASSUME NEW T \in SUBSET S, T # {}, Left(T) \in Good PROVE T \in Good
  <2> DEFINE x == Taken(T)
             R == Left(T)
  <2>1. /\ x \in S /\ R \in SUBSET S
        /\ Sums(f, S)[T] = f[x] + Sums(f, S)[R] /\ Sums(h, S)[T] = h[x] + Sums(h, S)[R]
    BY <1>2, SumsOf
  <2>2. Sums(f, S)[R] \in Int /\ Sums(h, S)[R] \in Int /\ f[x] \in Int /\ h[x] \in Int
    BY <2>1, SumsType
  <2>3. Sums(f, S)[R] <= Sums(h, S)[R] /\ f[x] <= h[x]
    BY <1>2, <2>1
  <2> HIDE DEF x, R
  <2>4. Sums(f, S)[T] <= Sums(h, S)[T]
    BY <2>1, <2>2, <2>3
  <2> QED
    BY <2>4
<1>3. Good \in SUBSET SUBSET S
  OBVIOUS
<1>4. Good = SUBSET S
  <2> HIDE DEF Good
  <2> QED
    BY <1>1, <1>2, <1>3, AlongTheFold
<1> QED
  BY <1>4

\* The sum of a function that is c on K and 0 elsewhere.
LEMMA SumsConstant ==
  ASSUME NEW S, IsFiniteSet(S), NEW K \in SUBSET S, NEW c \in Int
  PROVE  Sums([x \in S |-> IF x \in K THEN c ELSE 0], S)[S] = c * Cardinality(K)
<1> DEFINE f == [x \in S |-> IF x \in K THEN c ELSE 0]
           Size(T) == Cardinality(T \cap K)
           Good == {T \in SUBSET S : Sums(f, S)[T] = c * Size(T)}
<1>0. f \in [S -> Int] /\ \A x \in S : f[x] = IF x \in K THEN c ELSE 0
  OBVIOUS
<1> HIDE DEF f
<1>1. {} \in Good
  <2>1. {} \in SUBSET S /\ Sums(f, S)[{}] = 0
    BY SumsOf
  <2>2. Size({}) = 0
    <3>1. {} \cap K = {}
      OBVIOUS
    <3> QED
      BY <3>1, FS_EmptySet
  <2> QED
    BY <2>1, <2>2
<1>2. ASSUME NEW T \in SUBSET S, T # {}, Left(T) \in Good PROVE T \in Good
  <2> DEFINE x == Taken(T)
             R == Left(T)
  <2>1. x \in T /\ R \in SUBSET S /\ Sums(f, S)[T] = f[x] + Sums(f, S)[R]
    BY <1>2, SumsOf
  <2>2. Size(T) \in Nat /\ Size(R) = IF x \in K THEN Size(T) - 1 ELSE Size(T)
    <3>1. IsFiniteSet(T \cap K)
      BY FS_Subset
    <3>2. R \cap K = (T \cap K) \ {x}
      BY DEF Left
    <3>3. x \in T \cap K <=> x \in K
      BY <2>1
    <3>4. Cardinality(T \cap K) \in Nat
      BY <3>1, FS_CardinalityType
    <3>5. Cardinality((T \cap K) \ {x}) =
            IF x \in T \cap K THEN Cardinality(T \cap K) - 1 ELSE Cardinality(T \cap K)
      BY <3>1, FS_RemoveElement
    <3> HIDE DEF x, R
    <3> QED
      BY <3>2, <3>3, <3>4, <3>5
  <2>3. f[x] = IF x \in K THEN c ELSE 0
    BY <1>0, <2>1
  <2>4. Sums(f, S)[R] = c * Size(R)
    BY <1>2
  <2> HIDE DEF x, R, Size
  <2>5. c * Size(T) = c * Size(R) + IF x \in K THEN c ELSE 0
    BY <2>2
  <2>6. Sums(f, S)[T] = c * Size(T)
    BY <2>1, <2>2, <2>3, <2>4, <2>5
  <2> QED
    BY <2>6
<1>3. Good \in SUBSET SUBSET S
  OBVIOUS
<1>4. Good = SUBSET S
  <2> HIDE DEF Good
  <2> QED
    BY <1>1, <1>2, <1>3, AlongTheFold
<1>5. S \in Good /\ S \cap K = K
  BY <1>4
<1> QED
  BY <1>5 DEF f

-----------------------------------------------------------------------------
(* The moving average.                                                     *)

\* The ring fills from slot 0 on; what waits to be sampled is a reading, unless it is the
\* first sample.
RingOK ==
  /\ average.count < Window => average.index = average.count
  /\ unsampled /\ average.count > 0 => raw \in heard
  /\ \A s \in 1 .. average.count - 1 : average.data[s] \in heard

\* SumIsOfReadings, with the fold as a function of the ring.
Total(d) == Sums(d, Slots)[Slots]
SumOK ==
  /\ average.sum = Total(average.data)
  /\ \A s \in Slots : s >= average.count => average.data[s] = 0

AverageInv == DustTyped /\ SumOK /\ RingOK

LEMMA SlotsFinite == SensorInputsOK => IsFiniteSet(Slots) /\ Window \in Nat \ {0}
BY FS_Interval DEF SensorInputsOK, Slots

\* The readings are integers.
LEMMA RingOfIntegers ==
  ASSUME SensorInputsOK, NEW d \in [Slots -> Payloads \cup {0}]
  PROVE  d \in [Slots -> Int]
<1>1. Payloads \cup {0} \subseteq Int
  BY DEF SensorInputsOK
<1> QED
  BY <1>1

LEMMA InvSum == AverageInv => SumIsOfReadings
<1> SUFFICES ASSUME AverageInv PROVE SumIsOfReadings
  OBVIOUS
<1>1. DOMAIN average.data = Slots
  BY DEF AverageInv, DustTyped
<1>2. FoldFunction(+, 0, average.data) = Sums(average.data, DOMAIN average.data)[DOMAIN average.data]
  BY FoldIsSum
<1>3. FoldFunction(+, 0, average.data) = average.sum
  BY <1>1, <1>2, Zenon DEF AverageInv, SumOK, Total
<1>4. \A s \in Slots : s >= average.count => average.data[s] = 0
  BY DEF AverageInv, SumOK
<1> QED
  BY <1>3, <1>4, Zenon DEF SumIsOfReadings

LEMMA InitAverage == SensorInputsOK /\ Init => AverageInv
<1> SUFFICES ASSUME SensorInputsOK, Init PROVE AverageInv
  OBVIOUS
<1>1. DustTyped
  BY InitTyped
<1> DEFINE d == [s \in Slots |-> 0]
<1>2. average.data = d /\ average.index = 0 /\ average.count = 0 /\ average.sum = 0
  BY DEF Init
<1>3. Total(d) = 0
  <2>1. d = [s \in Slots |-> IF s \in {} THEN 0 ELSE 0] /\ {} \in SUBSET Slots
    OBVIOUS
  <2> HIDE DEF d
  <2>2. Total(d) = 0 * Cardinality({})
    BY <2>1, SlotsFinite, SumsConstant DEF Total
  <2> QED
    BY <2>2, FS_EmptySet
<1> HIDE DEF d
<1>4. \A s \in Slots : average.data[s] = 0
  BY <1>2 DEF d
<1>5. SumOK
  BY <1>2, <1>3, <1>4 DEF SumOK
<1> QED
  BY <1>1, <1>2, <1>5 DEF AverageInv, RingOK

\* A sample takes the place of the oldest, or of a slot that counts nothing yet.
LEMMA TickSensorAverage ==
  ASSUME SensorInputsOK, AverageInv, TickSensor
  PROVE  SumOK' /\ RingOK'
<1> DEFINE d == average.data
           i == average.index
           n == average.count
           e == [d EXCEPT ![i] = raw]
<1>1. /\ d \in [Slots -> Payloads \cup {0}] /\ i \in Slots /\ n \in 0 .. Window
      /\ raw \in Payloads \cup {0} /\ average.sum \in Int
      /\ Window \in Nat \ {0} /\ IsFiniteSet(Slots)
  BY SlotsFinite DEF AverageInv, DustTyped
<1>2. /\ average.sum = Total(d) /\ (\A s \in Slots : s >= n => d[s] = 0)
      /\ (n < Window => i = n) /\ (unsampled /\ n > 0 => raw \in heard)
      /\ \A s \in 1 .. n - 1 : d[s] \in heard
  BY DEF AverageInv, SumOK, RingOK
<1>3. /\ average'.data = e /\ average'.index = (i + 1) % Window
      /\ average'.count = IF n = Window THEN n ELSE n + 1
      /\ average'.sum = IF n = Window THEN average.sum - d[i] + raw ELSE average.sum + raw
      /\ unsampled /\ unsampled' = FALSE /\ raw' = raw /\ heard' = heard
  BY DEF TickSensor, Added
<1>4. e \in [Slots -> Payloads \cup {0}] /\ \A s \in Slots : e[s] = IF s = i THEN raw ELSE d[s]
  BY <1>1
<1>5. raw \in Int /\ d \in [Slots -> Int] /\ d[i] \in Int /\ Total(d) \in Int
  <2>1. raw \in Int
    BY <1>1 DEF SensorInputsOK
  <2>2. d \in [Slots -> Int]
    BY <1>1, RingOfIntegers
  <2> HIDE DEF d, i
  <2> QED
    BY <1>1, <2>1, <2>2, SumsType DEF Total
<1>6. Total(e) = Total(d) - d[i] + raw
  BY <1>1, <1>5, SumsExcept DEF Total
<1> HIDE DEF d, i, n, e
<1>7. CASE n = Window
  <2>1. average'.sum = Total(e) /\ average'.count = Window
    BY <1>2, <1>3, <1>6, <1>7
  <2>2. \A s \in 1 .. Window - 1 : e[s] \in heard
    BY <1>1, <1>2, <1>3, <1>4, <1>7 DEF Slots
  <2> QED
    BY <1>1, <1>3, <2>1, <2>2 DEF SumOK, RingOK, Slots
<1>8. CASE n # Window
  <2>1. i = n /\ n < Window /\ d[i] = 0
    BY <1>1, <1>2, <1>8
  <2>2. average'.sum = Total(e) /\ average'.count = n + 1
    BY <1>1, <1>2, <1>3, <1>5, <1>6, <1>8, <2>1
  <2>3. \A s \in Slots : s >= n + 1 => e[s] = 0
    BY <1>1, <1>2, <1>4, <2>1 DEF Slots
  <2>4. \A s \in 1 .. n : e[s] \in heard
    BY <1>1, <1>2, <1>3, <1>4, <2>1 DEF Slots
  <2>5. n + 1 < Window => (n + 1) % Window = n + 1
    BY <1>1
  <2> QED
    BY <1>1, <1>3, <2>1, <2>2, <2>3, <2>4, <2>5 DEF SumOK, RingOK
<1> QED
  BY <1>7, <1>8

\* Bytes leave the ring alone; the reading of a frame that was accepted is heard.
LEMMA OtherAverage ==
  ASSUME SensorInputsOK, AverageInv,
         ReceiveByte \/ LoseByte \/ ReceiveNoise \/ NextFrame \/ UNCHANGED vars
  PROVE  SumOK' /\ RingOK'
<1>1. average' = average
  BY DEF ReceiveByte, LoseByte, ReceiveNoise, NextFrame, vars
<1>2. /\ heard \subseteq heard'
      /\ \/ raw' = raw /\ unsampled' = unsampled
         \/ raw' \in heard'
  <2>1. CASE \E b : ParseByte(b)
    BY <2>1 DEF ParseByte
  <2>2. CASE UNCHANGED <<raw, unsampled, heard>>
    BY <2>2
  <2> QED
    BY <2>1, <2>2 DEF ReceiveByte, LoseByte, ReceiveNoise, NextFrame, vars
<1> QED
  BY <1>1, <1>2 DEF AverageInv, SumOK, RingOK

LEMMA StepAverage == SensorInputsOK /\ AverageInv /\ [Next]_vars => AverageInv'
<1> SUFFICES ASSUME SensorInputsOK, AverageInv, [Next]_vars PROVE AverageInv'
  OBVIOUS
<1>1. DustTyped'
  BY StepTyped DEF AverageInv
<1>2. SumOK' /\ RingOK'
  BY TickSensorAverage, OtherAverage DEF Next
<1> QED
  BY <1>1, <1>2 DEF AverageInv

\* If every reading kept were above the average, or every one below, their sum would not be
\* what it is.
LEMMA InvAverage == SensorInputsOK /\ AverageInv => AverageOfKept
<1> SUFFICES ASSUME SensorInputsOK, AverageInv PROVE AverageOfKept
  OBVIOUS
<1> DEFINE d == average.data
           n == average.count
           Kept == 0 .. n - 1
           A == Average(average)
<1>1. /\ d \in [Slots -> Payloads \cup {0}] /\ n \in 0 .. Window /\ average.sum \in Int
      /\ Window \in Nat \ {0} /\ IsFiniteSet(Slots)
      /\ average.sum = Total(d) /\ (\A s \in Slots : s >= n => d[s] = 0)
  BY SlotsFinite DEF AverageInv, DustTyped, SumOK
<1>2. \A s \in Kept \ {0} : d[s] \in heard
  BY <1>1 DEF AverageInv, RingOK
<1>3. ASSUME n > 0 PROVE \E s, t \in Kept : d[s] <= A /\ A <= d[t]
  <2>1. A = average.sum \div n
    BY <1>3 DEF Average
  <2>2. A \in Int /\ A * n <= average.sum /\ average.sum < (A + 1) * n
    BY <1>1, <1>3, <2>1
  <2>3. /\ d \in [Slots -> Int] /\ Kept \in SUBSET Slots /\ \A s \in Slots \ Kept : d[s] = 0
        /\ average.sum = Total(d) /\ Cardinality(Kept) = n /\ IsFiniteSet(Slots)
    <3>1. d \in [Slots -> Int]
      BY <1>1, RingOfIntegers
    <3>2. Cardinality(Kept) = n
      BY <1>1, <1>3, FS_Interval
    <3> QED
      BY <1>1, <3>1, <3>2 DEF Slots
  <2> DEFINE Flat(c) == [s \in Slots |-> IF s \in Kept THEN c ELSE 0]
  <2>4. ASSUME NEW c \in Int
        PROVE  /\ Total(Flat(c)) = c * n /\ Flat(c) \in [Slots -> Int]
               /\ \A s \in Slots : Flat(c)[s] = IF s \in Kept THEN c ELSE 0
    <3> HIDE DEF Kept, n
    <3> QED
      BY <2>3, SumsConstant DEF Total
  <2> HIDE DEF A, d, n, Kept, Flat
  <2>5. ASSUME \A s \in Kept : ~(d[s] <= A) PROVE FALSE
    <3>1. \A s \in Slots : Flat(A + 1)[s] <= d[s]
      BY <2>2, <2>3, <2>4, <2>5
    <3>2. Total(Flat(A + 1)) <= Total(d)
      <4> DEFINE e == Flat(A + 1)
      <4>1. e \in [Slots -> Int]
        BY <2>2, <2>4
      <4>2. \A s \in Slots : e[s] <= d[s]
        BY <3>1
      <4> HIDE DEF e
      <4>3. Total(e) <= Total(d)
        BY <2>3, <4>1, <4>2, SumsMonotonic DEF Total
      <4> QED
        BY <4>3 DEF e
    <3>3. Total(Flat(A + 1)) = (A + 1) * n
      BY <2>2, <2>4
    <3> QED
      BY <1>1, <2>2, <2>3, <3>2, <3>3
  <2>6. ASSUME \A t \in Kept : ~(A <= d[t]) PROVE FALSE
    <3>1. \A s \in Slots : d[s] <= Flat(A - 1)[s]
      BY <2>2, <2>3, <2>4, <2>6
    <3>2. Total(d) <= Total(Flat(A - 1))
      <4> DEFINE e == Flat(A - 1)
      <4>1. e \in [Slots -> Int]
        BY <2>2, <2>4
      <4>2. \A s \in Slots : d[s] <= e[s]
        BY <3>1
      <4> HIDE DEF e
      <4>3. Total(d) <= Total(e)
        BY <2>3, <4>1, <4>2, SumsMonotonic DEF Total
      <4> QED
        BY <4>3 DEF e
    <3>3. Total(Flat(A - 1)) = A * n - n
      BY <1>1, <2>2, <2>4
    <3>4. A * n \in Int
      BY <1>1, <2>2
    <3> QED
      BY <1>1, <1>3, <2>2, <2>3, <3>2, <3>3, <3>4
  <2> QED
    BY <2>5, <2>6
<1> QED
  BY <1>2, <1>3, InvSum DEF AverageOfKept

-----------------------------------------------------------------------------

\* However the stream was damaged, and wherever the unit came up in it, the parser
\* gives every frame its own reading from the second whole frame on, if the first
\* does not spell the header in its payload: for every frame size and set of readings.
THEOREM Resynchronises ==
  ASSUME SensorInputsOK
  PROVE  Spec => []Resync
<1>1. Init => IInv
  BY InitInv
<1>2. IInv /\ [Next]_vars => IInv'
  BY StepInv
<1>3. IInv => Resync
  BY InvResync
<1> QED
  BY <1>1, <1>2, <1>3, PTL DEF Spec
=============================================================================
