------------------------------- MODULE Report -------------------------------
(***************************************************************************)
(* From the car to the broker: what the parse task (can_collector_utils.c  *)
(* with parse_utils.c) makes of the texts of the ELM327 and the GPS, and   *)
(* what msgMQTT (mqtt_client.c) writes into the two texts it publishes.    *)
(*                                                                         *)
(* A receive task reads what arrives within 100 ms into a buffer from the  *)
(* heap: a text may come in two reads, and behind the bytes of a read the  *)
(* buffer holds what it held before.  A text is a sequence of character    *)
(* codes, read at the fixed places the code reads it at; of what msgMQTT   *)
(* writes the model keeps the values and the lengths.  The queues between  *)
(* the tasks are in Collector.                                             *)
(***************************************************************************)
EXTENDS Integers, Sequences, FiniteSets

CONSTANTS
    Values,     \* the sensor values the car may answer
    CarVin,     \* the 17 characters of the car's VIN
    Fixes,      \* the positions the GPS may give
    Clocks,     \* the times and dates it may give
    None,       \* no fix, no clock, no answer, no report
    Cuts,       \* bound: after how many bytes a read may end
    MaxTorn,    \* bound: the texts that are read in two
    Attempts,   \* num_intento: how often a packet was published
    ClockDigits \* the digits of the time of day in seconds: 1 until it is set

ASSUME ReportAssumption ==
    /\ Values \subseteq 0..255
    /\ CarVin \in Seq(48..90) /\ Len(CarVin) = 17
    /\ Cuts \subseteq Nat /\ MaxTorn \in Nat /\ Attempts \subseteq Nat /\ ClockDigits \subseteq 1..10

\* What the GPS gives: an angle to the east, north, west or south, and six digits each.
Position(limit, hemispheres) ==
    [deg : 0..limit, min : 0..59, frac : 0..9999, hemisphere : hemispheres]
ASSUME GpsAssumption ==
    /\ Fixes \subseteq [lat : Position(90, {78, 83}), long : Position(180, {69, 87})]
    /\ Clocks \subseteq [time : Seq(48..57), date : Seq(48..57)]
    /\ \A clock \in Clocks : Len(clock.time) = 6 /\ Len(clock.date) = 6

\* None is no value a sensor may have.
ASSUME NoneAssumption == None \notin Values

\* The sensors, with the characters of their request: 01 and the byte here.
Sensor == {"TEMP", "FUEL", "SPEED"}
Pid(q) == CASE q = "TEMP" -> <<53, 67>> [] q = "FUEL" -> <<50, 70>> [] q = "SPEED" -> <<48, 68>>

Field == Sensor \cup {"LONG", "LAT", "TIME", "VIN", "MISC"}
-----------------------------------------------------------------------------
\* The texts.

HexChar(n) == IF n < 10 THEN 48 + n ELSE 55 + n
Hex(b) == <<HexChar(b \div 16), HexChar(b % 16)>>

\* elm327_query_*: the request, which the ELM327 echoes, "010D\r" for one.
Request(q) == <<48, 49>> \o Pid(q) \o <<13>>

\* "41 0D 32 \r\r>", "NO DATA\r\r>" and "0902\r" with the three lines of the VIN.
Answer(q, v) == Request(q) \o <<52, 49, 32>> \o Pid(q) \o <<32>> \o Hex(v) \o <<32, 13, 13, 62>>
NoData(q) == Request(q) \o <<78, 79, 32, 68, 65, 84, 65, 13, 13, 62>>

\* Each byte as two characters and a blank.
HexList(bytes) ==
    [k \in 1..(3 * Len(bytes)) |-> (Hex(bytes[(k + 2) \div 3]) \o <<32>>)[1 + ((k - 1) % 3)]]
VinAnswer ==
    <<48, 57, 48, 50, 13, 48, 49, 52, 32, 13>>
    \o <<48, 58, 32>> \o HexList(<<73, 2, 1>> \o SubSeq(CarVin, 1, 3)) \o <<13>>
    \o <<49, 58, 32>> \o HexList(SubSeq(CarVin, 4, 10)) \o <<13>>
    \o <<50, 58, 32>> \o HexList(SubSeq(CarVin, 11, 17)) \o <<13, 13, 62>>

Digits(n, k) == [i \in 1..k |-> 48 + ((n \div 10^(k - i)) % 10)]

\* The RMC sentence of the GPS: a fix and a clock, either of them perhaps empty.
\* ddmm.mmmm and dddmm.mmmm, each with its hemisphere.
Angle(a, degrees) == Digits(a.deg, degrees) \o Digits(a.min, 2) \o <<46>> \o Digits(a.frac, 4)
                     \o <<44, a.hemisphere>>
Rmc(fix, clock) ==
    <<36, 71, 78, 82, 77, 67, 44>>
    \o (IF clock = None THEN <<>> ELSE clock.time \o <<46, 48, 48>>)
    \o (IF fix = None THEN <<44, 86, 44, 44, 44, 44>>
        ELSE <<44, 65, 44>> \o Angle(fix.lat, 2) \o <<44>> \o Angle(fix.long, 3))
    \o <<44, 48, 46, 48, 44, 48, 46, 48, 44>>
    \o (IF clock = None THEN <<>> ELSE clock.date)
    \o <<44, 44, 44, 65, 42, 54, 56, 13, 10>>
-----------------------------------------------------------------------------
\* parse_utils.c.  b is the buffer, At(b, i) the character i, from 0.

At(b, i) == IF i < Len(b) THEN b[i + 1] ELSE 0
\* A plausible slip: one character too many.
CharsOneMore(b, i, n) == [k \in 1..(n + 1) |-> At(b, i + k - 1)]
Chars(b, i, n) == [k \in 1..n |-> At(b, i + k - 1)]

parse_char_to_hex(c) == IF c \in 48..57 THEN c - 48 ELSE IF c \in 65..70 THEN c - 55 ELSE 0

HexByte(b, i) == parse_char_to_hex(At(b, i)) * 16 + parse_char_to_hex(At(b, i + 1))

\* The first four characters as a number: 0x010D for the speed.
parse_check_msg_type(b) ==
    CASE HexByte(b, 0) = 1 /\ HexByte(b, 2) = 47 -> "FUEL"
      [] HexByte(b, 0) = 1 /\ HexByte(b, 2) = 92 -> "TEMP"
      [] HexByte(b, 0) = 1 /\ HexByte(b, 2) = 13 -> "SPEED"
      [] HexByte(b, 0) = 9 /\ HexByte(b, 2) = 2 -> "VIN"
      [] OTHER -> "UNKNOWN"

\* A plausible slip: the places do not step over the second line's number.
VinPlacesShifted == <<22, 25, 28, 34, 37, 40, 43, 46, 49, 52, 60, 63, 66, 69, 72, 75, 78>>

VinPlaces == <<22, 25, 28, 35, 38, 41, 44, 47, 50, 53, 60, 63, 66, 69, 72, 75, 78>>

parse_vin(b) == [i \in 1..17 |-> HexByte(b, VinPlaces[i])]

parse_msg(b) == HexByte(b, 11)

parse_is_data(b) == ~(At(b, 5) = 78 /\ At(b, 6) = 79)

parse_is_GPS(b) == At(b, 0) = 36

\* What a text changes: nothing, a sensor's value, the VIN, or what the GPS gave.
NoEffect == [type |-> "UNKNOWN"]

\* Past the n-th comma from character i on.
PastComma(b, i, n) ==
    1 + CHOOSE j \in i..Len(b) :
          At(b, j) = 44 /\ Cardinality({k \in i..j : At(b, k) = 44}) = n

\* The year 8x of a clock that never was set.
NoTimeLock(time) == time[11] = 56

parse_GPS(b) ==
    LET time == PastComma(b, 0, 1)
        lat == PastComma(b, time, 2)
        long == lat + 12
        located == At(b, lat) # 44
        date == IF located THEN PastComma(b, long + 13, 2) ELSE PastComma(b, lat, 6)
        clock == Chars(b, time, 6) \o Chars(b, date, 6)
    IN  IF At(b, time) = 44 THEN NoEffect
        ELSE [type |-> "GPS",
              lat |-> IF located THEN Chars(b, lat, 4) \o Chars(b, lat + 5, 6) ELSE <<>>,
              long |-> IF located THEN Chars(b, long, 5) \o Chars(b, long + 6, 6) ELSE <<>>,
              time |-> IF NoTimeLock(clock) THEN <<>> ELSE clock]

\* collector_parse_task: the switch on the kind of text.
Effect(b) ==
    IF parse_is_GPS(b) THEN parse_GPS(b)
    ELSE IF ~parse_is_data(b) THEN NoEffect
    ELSE CASE parse_check_msg_type(b) \in Sensor ->
                [type |-> parse_check_msg_type(b), value |-> parse_msg(b)]
           [] parse_check_msg_type(b) = "VIN" -> [type |-> "VIN", value |-> parse_vin(b)]
           [] OTHER -> NoEffect
-----------------------------------------------------------------------------
\* Everything that may be in a buffer.

ElmTexts == {Answer(q, v) : q \in Sensor, v \in Values} \cup {NoData(q) : q \in Sensor}
            \cup {VinAnswer}
Located == {Rmc(f, c) : f \in Fixes, c \in Clocks}

\* What an answer and a sentence say, with what the parse task makes of them.
Answered == {[sensor |-> q, value |-> v, effect |-> Effect(Answer(q, v))] : q \in Sensor, v \in Values}
Silence == {Effect(NoData(q)) : q \in Sensor}
AnsweredVin == Effect(VinAnswer)
Said == {[fix |-> f, clock |-> c, effect |-> Effect(Rmc(f, c))] :
           f \in Fixes \cup {None}, c \in Clocks \cup {None}}

\* n bytes of a text, the 0 behind them, and what an older text left.
Over(text, n, old) == SubSeq(text, 1, n) \o <<0>> \o SubSeq(old, n + 2, Len(old))
Rest(text, n, old) == Over(SubSeq(text, n + 1, Len(text)), Len(text) - n, old)

\* A text that is cut, and its rest: each lies over an older one.
CutPairs(texts, olds) ==
    UNION {{<<Effect(Over(t, n, old)), Effect(Rest(t, n, older))>> :
              n \in {c \in Cuts : c < Len(t)}, old \in olds, older \in olds} : t \in texts}
CutEffects == CutPairs(ElmTexts, ElmTexts) \cup CutPairs(Located, Located)
-----------------------------------------------------------------------------
VARIABLES
    packet,     \* the packet the parse task assembles
    received,   \* has a text been parsed since the last packet was handed on
    report,     \* what the last step published
    since,      \* history: what was answered since the last packet
    vin,        \* history: was the VIN answered, and whole
    whole,      \* history: was every text since the last packet read whole
    torn        \* bound: the texts read in two

vars == <<packet, received, report, since, vin, whole, torn>>

Nothing == [q \in Sensor \cup {"FIX", "CLOCK"} |-> None]

Repeat(c, n) == [i \in 1..n |-> c]

\* elm327_new_data; the parse task then clears all fields but MISC_FIELD.
NewData == [TEMP |-> 70, FUEL |-> 70, SPEED |-> 70, LONG |-> Repeat(48, 11),
            LAT |-> Repeat(48, 10), TIME |-> Repeat(48, 12), VIN |-> Repeat(65, 17),
            fields |-> {"MISC"}]

Init ==
    /\ packet = NewData
    /\ received = FALSE
    /\ report = None
    /\ since = Nothing
    /\ vin = "unknown"
    /\ whole = TRUE
    /\ torn = 0
-----------------------------------------------------------------------------
\* collector_parse_task: a text.

WithGps(p, e) ==
    LET located == IF e.lat = <<>> THEN p
                   ELSE [p EXCEPT !.LAT = e.lat, !.LONG = e.long,
                                  !.fields = @ \cup {"LAT", "LONG"}]
    IN  IF e.time = <<>> THEN located
        ELSE [located EXCEPT !.TIME = e.time, !.fields = @ \cup {"TIME"}]

With(p, e) ==
    CASE e.type \in Sensor \cup {"VIN"} ->
           [p EXCEPT ![e.type] = e.value, !.fields = @ \cup {e.type}]
      [] e.type = "GPS" -> WithGps(p, e)
      [] OTHER -> p

Parsed(p) ==
    /\ packet' = p
    /\ received' = TRUE
    /\ report' = None

SensorAnswers ==
    /\ \E a \in Answered :
         /\ Parsed(With(packet, a.effect))
         /\ since' = [since EXCEPT ![a.sensor] = a.value]
    /\ UNCHANGED <<vin, whole, torn>>

SensorHasNoData ==
    /\ \E e \in Silence : Parsed(With(packet, e))
    /\ UNCHANGED <<since, vin, whole, torn>>

CarAnswersVin ==
    /\ Parsed(With(packet, AnsweredVin))
    /\ vin' = "whole"
    /\ UNCHANGED <<since, whole, torn>>

IsSet(clock) == clock # None /\ clock.date[5] # 56

GpsReports ==
    /\ \E s \in Said :
         /\ Parsed(With(packet, s.effect))
         /\ since' = [since EXCEPT !.FIX = IF s.fix = None \/ s.clock = None THEN @ ELSE s.fix,
                                   !.CLOCK = IF IsSet(s.clock) THEN s.clock ELSE @]
    /\ UNCHANGED <<vin, whole, torn>>

\* Two reads for one text.
ReadInTwo ==
    /\ torn < MaxTorn
    /\ torn' = torn + 1
    /\ \E pair \in CutEffects :
         /\ Parsed(With(With(packet, pair[1]), pair[2]))
         /\ vin' = IF "VIN" \in {pair[1].type, pair[2].type} THEN "cut" ELSE vin
    /\ whole' = FALSE
    /\ UNCHANGED since
-----------------------------------------------------------------------------
\* msgMQTT.

MaxInt == 2147483647

\* atoi: blanks, a sign, and the digits up to the first other character.
IsDigit(c) == c \in 48..57
Append10(n, c) == IF n > (MaxInt - (c - 48)) \div 10 THEN MaxInt ELSE n * 10 + (c - 48)
LeadingDigits(s) ==
    SubSeq(s, 1, CHOOSE k \in 0..Len(s) : /\ \A i \in 1..k : IsDigit(s[i])
                                          /\ k = Len(s) \/ ~IsDigit(s[k + 1]))
Unsigned(s) ==
    LET digits == LeadingDigits(s)
        number[k \in 0..Len(digits)] ==
            IF k = 0 THEN 0 ELSE Append10(number[k - 1], digits[k])
    IN  number[Len(digits)]
atoi(s) ==
    LET start == CHOOSE k \in 1..(Len(s) + 1) :
                   /\ \A i \in 1..(k - 1) : s[i] \in 9..13 \cup {32}
                   /\ k > Len(s) \/ s[k] \notin 9..13 \cup {32}
        text == SubSeq(s, start, Len(s))
    IN  IF text = <<>> THEN 0
        ELSE IF text[1] = 45 THEN -Unsigned(Tail(text))
        ELSE IF text[1] = 43 THEN Unsigned(Tail(text))
        ELSE Unsigned(text)

\* The bytes of the packet from its longitude on, in the order of the struct:
\* atoi is given the address of one byte and reads on into the next fields.
FromLong(p) == p.LONG \o p.LAT \o p.TIME \o p.VIN

AsText(p, q) ==
    CASE q = "SPEED" -> atoi(<<p.SPEED>> \o FromLong(p))
      [] q = "FUEL" -> atoi(<<p.FUEL, p.SPEED>> \o FromLong(p))
      [] q = "TEMP" -> atoi(<<p.TEMP, p.FUEL, p.SPEED>> \o FromLong(p)) - 40

\* The degrees, the minutes and two digits behind their point, written "%i.%i":
\* in hundredths of a minute.  A zero that leads the two digits is lost.
\* A plausible slip: the longitude's degrees are read as two digits too.
CoordinateOfTwo(text, degrees) ==
    LET hundredths == atoi(SubSeq(text, 5, 6))
    IN  6000 * atoi(SubSeq(text, 1, 2)) + 100 * atoi(SubSeq(text, 3, 4))
          + (IF hundredths < 10 THEN 10 * hundredths ELSE hundredths)

Coordinate(text, degrees) ==
    LET hundredths == atoi(SubSeq(text, degrees + 3, degrees + 4))
    IN  6000 * atoi(SubSeq(text, 1, degrees)) + 100 * atoi(SubSeq(text, degrees + 1, degrees + 2))
          + (IF hundredths < 10 THEN 10 * hundredths ELSE hundredths)

\* strtok finds a second part, and it is this hemisphere.
TwoParts(text) ==
    \E i, j, k \in 1..Len(text) : /\ i < j /\ j < k
                                  /\ text[i] # 44 /\ text[j] = 44 /\ text[k] # 44
                                  /\ \A n \in 1..k : text[n] # 0
Negative(text, hemisphere) == SubSeq(text, Len(text) - 1, Len(text)) = <<44, hemisphere>>

Angles(p) == [lat |-> IF Negative(p.LAT, 83) THEN -Coordinate(p.LAT, 2) ELSE Coordinate(p.LAT, 2),
              long |-> IF Negative(p.LONG, 87) THEN -Coordinate(p.LONG, 3) ELSE Coordinate(p.LONG, 3)]

\* The bytes that are 0 are left out of the VIN.
VinText(p) ==
    LET kept == {i \in 1..Len(p.VIN) : p.VIN[i] # 0}
        Kth(k) == CHOOSE i \in k..Len(p.VIN) : i \in kept /\ Cardinality({j \in kept : j <= i}) = k
    IN  [k \in 1..Cardinality(kept) |-> p.VIN[Kth(k)]]

\* The length of an integer, and of a number written with "%f".
IntLen(n) ==
    LET size == IF n < 0 THEN -n ELSE n
    IN  1 + Cardinality({k \in 1..9 : 10^k <= size}) + (IF n < 0 THEN 1 ELSE 0)
RealLen(n) == IntLen(n) + 7

SensorLen(p, q) ==
    IF q \notin p.fields THEN 0
    ELSE CASE q = "FUEL" -> LET a == AsText(p, q)
                            IN  13 + RealLen((a \div 255) * 100 + ((a % 255) * 100) \div 255)
           [] q = "SPEED" -> 11 + RealLen(AsText(p, q))
           [] q = "TEMP" -> 13 + RealLen(AsText(p, q))
SensorsLen(p) == SensorLen(p, "FUEL") + SensorLen(p, "SPEED") + SensorLen(p, "TEMP")

\* VIN="..." twice, intento= and a blank: what both texts have.
FrameLen(p, i) == 2 * (Len(VinText(p)) + 7) + 8 + IntLen(i) + 1

DateLen(p) == IF "TIME" \in p.fields THEN 28 ELSE 0

\* A plausible slip: the date is written to both texts.
MainLenDated(p, i, clockDigits) == 16 + FrameLen(p, i) + SensorsLen(p) + DateLen(p) + clockDigits + 9

MainLen(p, i, clockDigits) == 16 + FrameLen(p, i) + SensorsLen(p) + clockDigits + 9

AngleLen(p, f, angle) == IF f \in p.fields THEN RealLen(angle \div 6000) + 1 ELSE 0

\* The text with the position, before the 19 digits of its own time.
UndatedLen(p, i) ==
    20 + FrameLen(p, i) + SensorsLen(p) + DateLen(p)
      + (IF "LONG" \in p.fields THEN 9 + AngleLen(p, "LONG", Angles(p).long) ELSE 0)
      + (IF "LAT" \in p.fields THEN 8 + AngleLen(p, "LAT", Angles(p).lat) ELSE 0)

TextSize == 200

\* The flag lies right behind the text, which overwrites it: with the 0 of its end
\* when it has just the size, with a character when it is longer.
Flagged(p, i) ==
    IF UndatedLen(p, i) >= TextSize THEN UndatedLen(p, i) > TextSize
    ELSE /\ {"LAT", "LONG", "TIME"} \subseteq p.fields
         /\ TwoParts(p.LAT) /\ TwoParts(p.LONG)
GpsLen(p, i) ==
    UndatedLen(p, i) + (IF ~Flagged(p, i) THEN 0 ELSE IF "TIME" \in p.fields THEN 19 ELSE 10)

msgMQTT(p, i, clockDigits) ==
    [measured |-> [q \in Sensor \cap p.fields |-> AsText(p, q)],
     gps |-> Flagged(p, i) /\ GpsLen(p, i) # TextSize,
     position |-> IF {"LAT", "LONG"} \subseteq p.fields THEN Angles(p) ELSE None,
     clock |-> p.TIME,
     vin |-> VinText(p),
     mainLen |-> MainLen(p, i, clockDigits),
     gpsLen |-> GpsLen(p, i)]

HandOver(p) ==
    /\ received /\ vin # "unknown"
    /\ \E i \in Attempts, digits \in ClockDigits : report' = msgMQTT(packet, i, digits)
    /\ packet' = p
    /\ received' = FALSE
    /\ since' = Nothing
    /\ whole' = TRUE
    /\ UNCHANGED <<vin, torn>>

\* A plausible slip: the fields stay set.
HandOnFieldsKept == HandOver(packet)

\* The parse task hands the packet on and msgMQTT writes it, at the i-th attempt.
\* The query task asks for the packet only once a VIN was parsed.
HandOn == HandOver([packet EXCEPT !.fields = {"MISC"}])
-----------------------------------------------------------------------------
Next ==
    \/ CarAnswersVin
    \/ SensorAnswers
    \/ SensorHasNoData
    \/ GpsReports
    \/ ReadInTwo
    \/ HandOn

Spec == Init /\ [][Next]_vars
-----------------------------------------------------------------------------
\* Properties.

\* The packet keeps the widths of elm327_data_t, and the queues' field besides.
TypeOK ==
    /\ \A q \in Sensor : packet[q] \in 0..255
    /\ Len(packet.LONG) = 11 /\ Len(packet.LAT) = 10 /\ Len(packet.TIME) = 12
    /\ packet.VIN \in Seq(0..255) /\ Len(packet.VIN) = 17
    /\ packet.fields \subseteq Field /\ "MISC" \in packet.fields
    /\ received \in BOOLEAN /\ whole \in BOOLEAN /\ torn \in 0..MaxTorn
    /\ vin \in {"unknown", "whole", "cut"}

\* A report names a sensor just when it answered since the last report, and the
\* packet then holds that answer, not an older one (collector_parse_task, msgMQTT).
ReportIsMeasured ==
    [][report' # None /\ whole =>
         \A q \in Sensor :
           /\ q \in DOMAIN report'.measured <=> since[q] # None
           /\ since[q] # None => packet[q] = since[q]]_vars

\* The degrees and minutes of a fix, signed.
Minutes(a) == a.deg * 60 + a.min
SignedMinutes(a) == IF a.hemisphere \in {83, 87} THEN -Minutes(a) ELSE Minutes(a)
Within1Minute(angle, a) ==
    LET size == IF angle < 0 THEN -angle ELSE angle
    IN  /\ size \in (100 * Minutes(a))..(100 * Minutes(a) + 99)
        /\ (angle < 0) = (a.hemisphere \in {83, 87} /\ size # 0)

\* The text with the position is published just when a fix and a set clock were
\* received since the last report, unless its length meddles with the flag that
\* lies behind it (msgMQTT); it has both coordinates of the last fix, to the minute,
\* and the last clock.
PositionIsGiven ==
    [][report' # None /\ whole =>
         /\ report'.gpsLen < TextSize =>
              (report'.gps <=> since["FIX"] # None /\ since["CLOCK"] # None)
         /\ report'.gpsLen > TextSize => report'.gps
         /\ since["FIX"] # None =>
              /\ Within1Minute(report'.position.lat, since["FIX"].lat)
              /\ Within1Minute(report'.position.long, since["FIX"].long)
         /\ since["CLOCK"] # None =>
              report'.clock = since["CLOCK"].time \o since["CLOCK"].date]_vars

\* Once the VIN was read whole, every report names the car's (parse_vin).
VinIsCars ==
    [][report' # None /\ vin = "whole" => report'.vin = CarVin]_vars

\* The main text fits its 200 bytes whatever was read; the one with the position
\* outgrows them only when it has a position and two sensors' values.
TextFits ==
    [][report' # None =>
         /\ report'.mainLen < TextSize
         /\ report'.gpsLen >= TextSize =>
              {"LAT", "LONG"} \subseteq packet.fields /\ Cardinality(packet.fields \cap Sensor) >= 2]_vars

\* elm327.h:55 calls the byte the current ground speed: the report gives that
\* number (msgMQTT reads the byte as text instead).
SpeedIsReported ==
    [][report' # None /\ whole /\ since["SPEED"] # None =>
         report'.measured["SPEED"] = since["SPEED"]]_vars
=============================================================================
