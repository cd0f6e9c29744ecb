---------------------------- MODULE TuningProofs ----------------------------
(***************************************************************************)
(* Proofs about module Tuning: every section is read as it was broadcast,  *)
(* every tuning can be compared, the rounding of the comparison loses no   *)
(* channel, the low noise block's sums keep a satellite's frequency, and   *)
(* lines keep terrestrial tunings, whatever is heard and whatever the      *)
(* iterators hold.                                                         *)
(***************************************************************************)
EXTENDS SectionsProofs

Satellite == {"SYS_DVBS", "SYS_DVBS2"}
Terrestrial == {"SYS_DVBT", "SYS_DVBT2"}

-----------------------------------------------------------------------------
(* Tunings of each origin.                                                 *)

(* Fields that an overlay adds, and fields that it leaves. *)
LEMMA OverlayDomain ==
  ASSUME NEW f, NEW g
  PROVE  DOMAIN Overlay(f, g) = DOMAIN f \cup DOMAIN g
BY DEF Overlay

LEMMA OverlayKeeps ==
  ASSUME NEW f, NEW g, NEW x \in DOMAIN f, x \notin DOMAIN g
  PROVE  Overlay(f, g)[x] = f[x]
BY DEF Overlay

LEMMA OverlayTakes ==
  ASSUME NEW f, NEW g, NEW x \in DOMAIN g
  PROVE  Overlay(f, g)[x] = g[x]
BY DEF Overlay

(* A satellite's tuning, once its four key properties are known, has a     *)
(* place in the order of equivalence values.                               *)
LEMMA SatelliteIsTuning ==
  ASSUME NEW p, NEW f \in Frequency,
         {"DELIVERY_SYSTEM", "FREQUENCY", "TONE", "VOLTAGE"} \subseteq DOMAIN p,
         p["DELIVERY_SYSTEM"] \in Satellite,
         p["FREQUENCY"] = Intermediate(f), p["TONE"] = Tone(f),
         p["VOLTAGE"] \in {"SEC_VOLTAGE_13", "SEC_VOLTAGE_18"}
  PROVE  IsTuning(p) /\ System(p) = "SYS_DVBS" /\ RadioFrequency(p) = f
<1>1. System(p) = "SYS_DVBS"
  BY DEF System, Satellite
<1>2. Voltage(p) \in {"SEC_VOLTAGE_13", "SEC_VOLTAGE_18"}
  BY DEF Voltage, Default
<1>3. f \in Int /\ p["FREQUENCY"] \in Int
  BY SMT DEF Frequency, Between, Intermediate, SLOF, LOF1, LOF2
<1>4. RadioFrequency(p) = f
  BY <1>1, <1>3, SMT DEF RadioFrequency, Default, Intermediate, Tone, SLOF, LOF1, LOF2
<1> QED
  BY <1>1, <1>2, <1>3, <1>4 DEF IsTuning, Voltages, Satellite

LEMMA TerrestrialIsTuning ==
  ASSUME NEW p, {"DELIVERY_SYSTEM", "FREQUENCY"} \subseteq DOMAIN p,
         p["DELIVERY_SYSTEM"] \in Terrestrial, p["FREQUENCY"] \in Frequency,
         "VOLTAGE" \notin DOMAIN p
  PROVE  IsTuning(p) /\ System(p) = "SYS_DVBT"
<1>1. System(p) = "SYS_DVBT"
  BY DEF System, Terrestrial
<1>2. Voltage(p) = "SEC_VOLTAGE_OFF"
  BY DEF Voltage, Default
<1>3. RadioFrequency(p) = p["FREQUENCY"] /\ p["FREQUENCY"] \in Int
  BY <1>1, SMT DEF RadioFrequency, Frequency, Between
<1> QED
  BY <1>1, <1>2, <1>3 DEF IsTuning, Voltages, Terrestrial

(* A delivery system heard of. *)
LEMMA HeardIsTuning ==
  ASSUME NEW d \in Delivery
  PROVE  /\ IsTuning(TuningOf(d))
         /\ d.system = "T" => System(TuningOf(d)) = "SYS_DVBT"
         /\ d.system = "S" => /\ System(TuningOf(d)) = "SYS_DVBS"
                              /\ TuningOf(d).FREQUENCY = Intermediate(d.frequency * 10)
                              /\ RadioFrequency(TuningOf(d)) = d.frequency * 10
                              /\ d.frequency * 10 \in KuBand
<1>1. CASE d \in TerrestrialDelivery
  <2>1. d.system = "T" /\ d.frequency * 10 \in Frequency
    BY <1>1, SMT DEF TerrestrialDelivery, Frequency, Between
  <2>2. TuningOf(d) = TerrestrialTuning(d)
    BY <2>1 DEF TuningOf
  <2>3. /\ DOMAIN TerrestrialTuning(d) =
             {"DELIVERY_SYSTEM", "FREQUENCY", "BANDWIDTH_HZ", "MODULATION", "HIERARCHY",
              "CODE_RATE_HP", "CODE_RATE_LP", "GUARD_INTERVAL", "TRANSMISSION_MODE"}
        /\ TerrestrialTuning(d)["DELIVERY_SYSTEM"] = "SYS_DVBT"
        /\ TerrestrialTuning(d)["FREQUENCY"] = d.frequency * 10
    BY DEF TerrestrialTuning
  <2> QED
    BY <2>1, <2>2, <2>3, TerrestrialIsTuning DEF Terrestrial
<1>2. CASE d \in SatelliteDelivery
  <2>1. d.system = "S" /\ d.frequency * 10 \in KuBand /\ d.frequency * 10 \in Frequency
    BY <1>2, SMT DEF SatelliteDelivery, Frequency, KuBand, Between
  <2>2. TuningOf(d) = SatelliteTuning(d)
    BY <2>1 DEF TuningOf
  <2>3. /\ DOMAIN SatelliteTuning(d) =
             {"DELIVERY_SYSTEM", "FREQUENCY", "TONE", "VOLTAGE", "ROLLOFF", "MODULATION",
              "SYMBOL_RATE", "INNER_FEC"}
        /\ SatelliteTuning(d)["DELIVERY_SYSTEM"] \in {"SYS_DVBS", "SYS_DVBS2"}
        /\ SatelliteTuning(d)["FREQUENCY"] = Intermediate(d.frequency * 10)
        /\ SatelliteTuning(d)["TONE"] = Tone(d.frequency * 10)
        /\ SatelliteTuning(d)["VOLTAGE"] = "SEC_VOLTAGE_13"
    BY DEF SatelliteTuning
  <2>4. IsTuning(SatelliteTuning(d)) /\ System(SatelliteTuning(d)) = "SYS_DVBS"
          /\ RadioFrequency(SatelliteTuning(d)) = d.frequency * 10
    BY <2>1, <2>3, SatelliteIsTuning DEF Satellite
  <2> QED
    BY <2>1, <2>2, <2>3, <2>4
<1> QED
  BY <1>1, <1>2 DEF Delivery

(* A satellite's line. *)
LEMMA ParsedSIsTuning ==
  ASSUME NEW l, l[2] \in Frequency
  PROVE  /\ IsTuning(ParsedS(l)) /\ System(ParsedS(l)) = "SYS_DVBS"
         /\ ParsedS(l).FREQUENCY = Intermediate(l[2])
         /\ RadioFrequency(ParsedS(l)) = l[2]
<1> DEFINE s2 == l[1] = "S2" \/ (l[1] = "S" /\ Len(l) > 5)
           fixed == [DELIVERY_SYSTEM |-> IF s2 THEN "SYS_DVBS2" ELSE "SYS_DVBS",
                     FREQUENCY       |-> Intermediate(l[2]),
                     TONE            |-> Tone(l[2]),
                     VOLTAGE         |-> IF l[3] \in {"H", "L"} THEN "SEC_VOLTAGE_18"
                                         ELSE "SEC_VOLTAGE_13",
                     SYMBOL_RATE     |-> l[4],
                     INNER_FEC       |-> ValueOf(CodeRateTable, l[5]),
                     INVERSION       |-> "INVERSION_AUTO"]
           more == IF Len(l) > 5 /\ l[1] # "S1"
                   THEN [PILOT      |-> "PILOT_AUTO",
                         ROLLOFF    |-> ValueOf(RollOffTable, l[6]),
                         MODULATION |-> ValueOf(ModulationTable, l[7])]
                   ELSE << >>
           keys == {"DELIVERY_SYSTEM", "FREQUENCY", "TONE", "VOLTAGE"}
<1>1. ParsedS(l) = Overlay(fixed, more)
  BY DEF ParsedS
<1>2. DOMAIN more \cap keys = {}
  <2>1. DOMAIN << >> = {}
    OBVIOUS
  <2>2. CASE Len(l) > 5 /\ l[1] # "S1"
    <3>1. DOMAIN more = {"PILOT", "ROLLOFF", "MODULATION"}
      BY <2>2
    <3> QED
      BY <3>1
  <2>3. CASE ~(Len(l) > 5 /\ l[1] # "S1")
    <3>1. more = << >>
      BY <2>3
    <3> QED
      BY <2>1, <3>1
  <2> QED
    BY <2>2, <2>3
<1>3. /\ keys \subseteq DOMAIN fixed
      /\ fixed["DELIVERY_SYSTEM"] \in Satellite
      /\ fixed["FREQUENCY"] = Intermediate(l[2]) /\ fixed["TONE"] = Tone(l[2])
      /\ fixed["VOLTAGE"] \in {"SEC_VOLTAGE_13", "SEC_VOLTAGE_18"}
  BY DEF Satellite
<1> HIDE DEF fixed, more
<1>4. keys \subseteq DOMAIN Overlay(fixed, more)
        /\ \A x \in keys : Overlay(fixed, more)[x] = fixed[x]
  <2>1. DOMAIN Overlay(fixed, more) = DOMAIN fixed \cup DOMAIN more
    BY OverlayDomain
  <2>2. ASSUME NEW x \in keys
        PROVE  Overlay(fixed, more)[x] = fixed[x]
    <3>1. x \in DOMAIN fixed /\ x \notin DOMAIN more
      BY <1>2, <1>3
    <3> QED
      BY <3>1, OverlayKeeps
  <2> QED
    BY <1>3, <2>1, <2>2
<1>5. /\ ParsedS(l)["DELIVERY_SYSTEM"] \in Satellite
      /\ ParsedS(l)["FREQUENCY"] = Intermediate(l[2]) /\ ParsedS(l)["TONE"] = Tone(l[2])
      /\ ParsedS(l)["VOLTAGE"] \in {"SEC_VOLTAGE_13", "SEC_VOLTAGE_18"}
      /\ keys \subseteq DOMAIN ParsedS(l)
  BY <1>1, <1>3, <1>4
<1> QED
  BY <1>5, SatelliteIsTuning

(* A terrestrial line. *)
LEMMA ParsedTIsTuning ==
  ASSUME NEW l, IsTerrestrialLine(l)
  PROVE  IsTuning(ParsedT(l)) /\ System(ParsedT(l)) = "SYS_DVBT"
<1> DEFINE i == FrequencyToken(l)
           fixed == TerrestrialTokens(l, i)
           over == Overlay(StreamToken(l), BandwidthToken(l, i))
           keys == {"DELIVERY_SYSTEM", "FREQUENCY"}
<1>1. ParsedT(l) = Overlay(fixed, over)
  BY DEF ParsedT
<1>2. InHz(l[i]) \in Frequency
  BY DEF IsTerrestrialLine
<1>3. /\ keys \subseteq DOMAIN fixed /\ "VOLTAGE" \notin DOMAIN fixed
      /\ fixed["DELIVERY_SYSTEM"] \in Terrestrial /\ fixed["FREQUENCY"] = InHz(l[i])
  BY DEF Terrestrial, TerrestrialTokens
<1>4. DOMAIN over \subseteq {"STREAM_ID", "BANDWIDTH_HZ"}
  <2>1. DOMAIN << >> = {}
    OBVIOUS
  <2>2. StreamToken(l) = << >> \/ DOMAIN StreamToken(l) = {"STREAM_ID"}
    BY DEF StreamToken
  <2>3. BandwidthToken(l, i) = << >> \/ DOMAIN BandwidthToken(l, i) = {"BANDWIDTH_HZ"}
    BY DEF BandwidthToken
  <2>4. DOMAIN over = DOMAIN StreamToken(l) \cup DOMAIN BandwidthToken(l, i)
    BY OverlayDomain
  <2> HIDE DEF over, i
  <2> QED
    BY <2>1, <2>2, <2>3, <2>4
<1> HIDE DEF fixed, over, i
<1>5. DOMAIN Overlay(fixed, over) = DOMAIN fixed \cup DOMAIN over
  BY OverlayDomain
<1>6. ASSUME NEW x \in keys
      PROVE  Overlay(fixed, over)[x] = fixed[x]
  <2>1. x \in DOMAIN fixed /\ x \notin DOMAIN over
    BY <1>3, <1>4
  <2> QED
    BY <2>1, OverlayKeeps
<1>7. /\ keys \subseteq DOMAIN ParsedT(l) /\ "VOLTAGE" \notin DOMAIN ParsedT(l)
      /\ ParsedT(l)["DELIVERY_SYSTEM"] \in Terrestrial
      /\ ParsedT(l)["FREQUENCY"] \in Frequency
  BY <1>1, <1>2, <1>3, <1>4, <1>5, <1>6
<1> QED
  BY <1>7, TerrestrialIsTuning

LEMMA LineIsTuning ==
  ASSUME NEW l \in Lines
  PROVE  IsTuning(Parsed(l))
<1>1. CASE IsTerrestrialLine(l)
  <2>1. l[1] \in {"T", "T1", "T2"}
    BY <1>1 DEF IsTerrestrialLine
  <2> QED
    BY <1>1, <2>1, ParsedTIsTuning DEF Parsed
<1>2. CASE IsSatelliteLine(l)
  <2>1. l[1] \notin {"T", "T1", "T2"} /\ l[2] \in Frequency
    BY <1>2 DEF IsSatelliteLine
  <2> QED
    BY <2>1, ParsedSIsTuning DEF Parsed
<1> QED
  BY <1>1, <1>2, TuningConstants DEF TuningConstants

(* A frequency of Freeview's. *)
LEMMA DvbtIsTuning ==
  ASSUME NEW f \in Frequency
  PROVE  IsTuning(DvbtTuning(f)) /\ System(DvbtTuning(f)) = "SYS_DVBT"
<1>1. /\ DOMAIN DvbtTuning(f) = {"DELIVERY_SYSTEM", "FREQUENCY", "BANDWIDTH_HZ"}
      /\ DvbtTuning(f)["DELIVERY_SYSTEM"] = "SYS_DVBT" /\ DvbtTuning(f)["FREQUENCY"] = f
  BY DEF DvbtTuning
<1> QED
  BY <1>1, TerrestrialIsTuning DEF Terrestrial

LEMMA CurrentIsFrequency ==
  ASSUME TypeOK, HasNext, program = "fvscan"
  PROVE  CurrentFrequency \in Frequency
<1>1. First \in Nat /\ Step \in Nat /\ LastFreq \in Frequency /\ iter \in Nat
  BY TuningConstants, SMT DEF TuningConstants, Frequency, Between, TypeOK
<1>2. iter * Step \in Nat
  BY <1>1
<1>3. CurrentFrequency \in Nat /\ CurrentFrequency <= LastFreq
  BY <1>1, <1>2 DEF HasNext, CurrentFrequency
<1> QED
  BY <1>1, <1>3, SMT DEF Frequency, Between

(* What the iterator yields. *)
LEMMA IteratedIsTuning ==
  ASSUME TypeOK, HasNext
  PROVE  /\ IsTuning(Iterated)
         /\ program = "fvscan" => System(Iterated) = "SYS_DVBT"
         /\ program # "fvscan" =>
              /\ program = "fsscan" /\ iter + 1 \in 1 .. Len(Presets)
              /\ RadioFrequency(Iterated) = Presets[iter + 1][2]
              /\ Iterated.FREQUENCY = Intermediate(Presets[iter + 1][2])
              /\ Presets[iter + 1][2] \in KuBand
<1>1. CASE program = "fvscan"
  BY <1>1, CurrentIsFrequency, DvbtIsTuning DEF Iterated
<1>2. CASE program # "fvscan"
  <2>1. program = "fsscan" /\ iter + 1 \in 1 .. Len(Presets)
    BY <1>2, TuningConstants DEF HasNext, TuningConstants, TypeOK
  <2>2. Presets[iter + 1][2] \in KuBand
    BY <2>1, TuningConstants DEF TuningConstants
  <2>3. Presets[iter + 1][2] \in Frequency
    BY <2>2, SMT DEF KuBand, Frequency, Between
  <2>4. Iterated = ParsedS(Presets[iter + 1])
    BY <1>2 DEF Iterated
  <2> QED
    BY <1>2, <2>1, <2>2, <2>3, <2>4, ParsedSIsTuning
<1> QED
  BY <1>1, <1>2
-----------------------------------------------------------------------------
(* The order of equivalence values.                                        *)

(* The part of an equivalence value that is a frequency is below the bits  *)
(* of the voltage, and says the frequency within two of its units.         *)
LEMMA Halved ==
  ASSUME NEW x \in Frequency, NEW d \in {1000, 1000000}
  PROVE  /\ Bin(x, d) \in Nat /\ Bin(x, d) < 536870912
         /\ 2 * d * (Bin(x, d)) <= x
         /\ x < 2 * d * (Bin(x, d)) + 2 * d
<1>1. CASE d = 1000
  BY <1>1, SMT DEF Bin, Frequency, Between
<1>2. CASE d = 1000000
  BY <1>2, SMT DEF Bin, Frequency, Between
<1> QED
  BY <1>1, <1>2, SMT

LEMMA BitsTellVoltages ==
  ASSUME NEW v \in Voltages, NEW w \in Voltages, NEW a \in Nat, NEW b \in Nat,
         a < 536870912, b < 536870912, a + VoltageBits(v) = b + VoltageBits(w)
  PROVE  a = b /\ v = w
BY SMT DEF Voltages, VoltageBits

LEMMA DivisorIs ==
  ASSUME NEW p
  PROVE  Divisor(p) \in {1000, 1000000}
BY SMT DEF Divisor

LEMMA EquivalentAlike ==
  ASSUME NEW p, NEW q, IsTuning(p), IsTuning(q), Equivalence(p) = Equivalence(q)
  PROVE  Alike(p, q)
<1> DEFINE x == RadioFrequency(p)
           y == RadioFrequency(q)
           d == Divisor(p)
           e == Divisor(q)
<1>1. /\ x \in Frequency /\ y \in Frequency
      /\ Voltage(p) \in Voltages /\ Voltage(q) \in Voltages
      /\ System(p) = "SYS_DVBT" <=> Voltage(p) = "SEC_VOLTAGE_OFF"
      /\ System(q) = "SYS_DVBT" <=> Voltage(q) = "SEC_VOLTAGE_OFF"
  BY SMT DEF IsTuning
<1>2. d \in {1000, 1000000} /\ e \in {1000, 1000000}
  BY DivisorIs, SMT
<1>3. (Bin(x, d)) + VoltageBits(Voltage(p)) = (Bin(y, e)) + VoltageBits(Voltage(q))
  BY SMT DEF Equivalence
<1> HIDE DEF x, y, d, e
<1>4. /\ Bin(x, d) \in Nat /\ Bin(x, d) < 536870912
      /\ Bin(y, e) \in Nat /\ Bin(y, e) < 536870912
  BY <1>1, <1>2, Halved, SMT
<1>5. Bin(x, d) = Bin(y, e) /\ Voltage(p) = Voltage(q)
  BY <1>1, <1>3, <1>4, BitsTellVoltages, SMT
<1>6. System(p) = System(q) /\ d = e
  <2>1. System(p) = System(q)
    BY <1>1, <1>5, SMT DEF System
  <2> QED
    BY <2>1, SMT DEF d, e, Divisor
<1>7. x - y <= 2 * d /\ y - x <= 2 * d
  <2> DEFINE h == Bin(x, d)
  <2>1. h \in Nat /\ x \in Int /\ y \in Int /\ d \in Int
    BY <1>1, <1>2, <1>4, SMT DEF Frequency, Between
  <2>2. 2 * d * h <= x /\ x < 2 * d * h + 2 * d /\ 2 * d * h <= y /\ y < 2 * d * h + 2 * d
    BY <1>1, <1>2, <1>5, <1>6, Halved, SMT
  <2> HIDE DEF h
  <2> QED
    BY <2>1, <2>2, SMT
<1> QED
  BY <1>5, <1>6, <1>7, SMT DEF Alike, x, y, d

(* Equivalence values are numbers. *)
LEMMA EquivalenceIsInt ==
  ASSUME NEW p, IsTuning(p)
  PROVE  Equivalence(p) \in Int
<1> DEFINE h == Bin(RadioFrequency(p), Divisor(p))
<1>1. h \in Nat
  BY Halved, DivisorIs, SMT DEF IsTuning
<1>2. VoltageBits(Voltage(p)) \in Nat
  BY SMT DEF VoltageBits
<1> HIDE DEF h
<1>3. h + VoltageBits(Voltage(p)) \in Int
  BY <1>1, <1>2, SMT
<1> QED
  BY <1>3, SMT DEF h, Equivalence
-----------------------------------------------------------------------------
(* Type correctness.                                                       *)

(* What is on the air is read as it was written. *)
LEMMA ReadIsWritten ==
  ASSUME NEW n \in NitSection \cup OtherSection
  PROVE  Read(n) = n
<1>1. n \in Sec!Nit \cup Sec!Bat \cup Sec!Sdt
  BY TuningConstants DEF TuningConstants
<1> QED
  BY <1>1, ReadBack DEF Read

(* What is heard of a NIT section. *)
LEMMA HeardDeliveries ==
  ASSUME NEW n \in NitSection, NEW x \in Deliveries(Read(n))
  PROVE  x[1] \in Key /\ x[2] \in Delivery /\ (program = "fsscan" => x[2].system = "S")
<1>1. PICK i \in DOMAIN Read(n).streams : \E j \in DOMAIN Read(n).streams[i].delivery :
        /\ x = <<Read(n).streams[i].key, Read(n).streams[i].delivery[j]>>
        /\ Processed(Read(n).streams[i].delivery[j])
  BY DEF Deliveries
<1>2. PICK j \in DOMAIN Read(n).streams[i].delivery :
        /\ x = <<Read(n).streams[i].key, Read(n).streams[i].delivery[j]>>
        /\ Processed(Read(n).streams[i].delivery[j])
  BY <1>1
<1>3. Read(n) = n /\ StreamsOnce(n)
  BY ReadIsWritten, TuningConstants DEF TuningConstants
<1>4. Read(n).streams[i].key \in Key /\ Read(n).streams[i].delivery[j] \in Delivery
  BY <1>3 DEF StreamsOnce
<1> QED
  BY <1>2, <1>4 DEF Processed

(* After a NIT section, each transport stream has the delivery system that *)
(* it had, or one of that section.                                         *)
LEMMA HeardAfterNit ==
  ASSUME NEW n \in NitSection, HearNit(n)
  PROVE  /\ DOMAIN heard \subseteq DOMAIN heard'
         /\ \A k \in DOMAIN heard : heard'[k] = heard[k]
         /\ \A k \in DOMAIN heard' \ DOMAIN heard :
              \E x \in Deliveries(Read(n)) : k = x[1] /\ heard'[k] = x[2]
<1> DEFINE new == Deliveries(Read(n))
           found == [k \in {x[1] : x \in new} |-> (CHOOSE x \in new : x[1] = k)[2]]
<1>1. heard' = Overlay(found, heard)
  BY DEF HearNit, Deliveries
<1>2. DOMAIN found = {x[1] : x \in new}
  OBVIOUS
<1>3. ASSUME NEW k \in DOMAIN found
      PROVE  \E x \in new : k = x[1] /\ found[k] = x[2]
  BY <1>3
<1> HIDE DEF found, new
<1>4. DOMAIN heard' = DOMAIN found \cup DOMAIN heard
  BY <1>1, OverlayDomain
<1>5. \A k \in DOMAIN heard : heard'[k] = heard[k]
  BY <1>1, OverlayTakes
<1>6. ASSUME NEW k \in DOMAIN heard' \ DOMAIN heard
      PROVE  \E x \in new : k = x[1] /\ heard'[k] = x[2]
  <2>1. k \in DOMAIN found /\ k \notin DOMAIN heard
    BY <1>4, <1>6
  <2>2. heard'[k] = found[k]
    BY <1>1, <2>1, OverlayKeeps
  <2> QED
    BY <1>3, <2>1, <2>2
<1> QED
  BY <1>4, <1>5, <1>6 DEF new

(* A tuning keeps what is said of all of them. *)
LEMMA TuneKeepsTypes ==
  ASSUME TypeOK, NEW p, IsTuning(p), Tune(p), UNCHANGED <<program, heard>>, iter' \in Nat
  PROVE  TypeOK'
<1>1. scannedEq' \subseteq Int
  BY EquivalenceIsInt DEF Tune, TypeOK
<1>2. \A q \in tuned' : IsTuning(q)
  BY DEF Tune, TypeOK
<1> QED
  BY <1>1, <1>2 DEF TypeOK

LEMMA TypesKept ==
  ASSUME TypeOK, [Next]_vars
  PROVE  TypeOK'
<1>1. ASSUME NEW n \in NitSection, HearNit(n)
      PROVE  TypeOK'
  <2>1. ASSUME NEW k \in DOMAIN heard'
        PROVE  /\ k \in Key /\ heard'[k] \in Delivery
               /\ program = "fsscan" => heard'[k].system = "S"
    <3>1. CASE k \in DOMAIN heard
      BY <1>1, <3>1, HeardAfterNit DEF TypeOK
    <3>2. CASE k \notin DOMAIN heard
      <4>1. PICK x \in Deliveries(Read(n)) : k = x[1] /\ heard'[k] = x[2]
        BY <1>1, <2>1, <3>2, HeardAfterNit
      <4> QED
        BY <4>1, HeardDeliveries
    <3> QED
      BY <3>1, <3>2
  <2>2. UNCHANGED <<program, iter, scannedEq, tuned>>
    BY <1>1 DEF HearNit
  <2> QED
    BY <2>1, <2>2 DEF TypeOK
<1>2. ASSUME NEW n \in OtherSection, HearOther(n)
      PROVE  TypeOK'
  BY <1>2 DEF HearOther, TypeOK
<1>3. ASSUME NEW k \in DOMAIN heard, TuneHeard(k)
      PROVE  TypeOK'
  <2>1. IsTuning(TuningOf(heard[k]))
    BY HeardIsTuning DEF TypeOK
  <2>2. Tune(TuningOf(heard[k])) /\ UNCHANGED <<program, heard>> /\ iter' = iter
    BY <1>3 DEF TuneHeard
  <2> QED
    BY <2>1, <2>2, TuneKeepsTypes DEF TypeOK
<1>4. CASE TuneIterated
  <2>1. IsTuning(Iterated)
    BY <1>4, IteratedIsTuning DEF TuneIterated
  <2>2. Tune(Iterated) /\ UNCHANGED <<program, heard>> /\ iter' \in Nat
    BY <1>4 DEF TuneIterated, TypeOK
  <2> QED
    BY <2>1, <2>2, TuneKeepsTypes
<1>5. CASE SkipIterated
  BY <1>5 DEF SkipIterated, TypeOK
<1>6. ASSUME NEW l \in Lines, TuneLine(l)
      PROVE  TypeOK'
  <2>1. IsTuning(Parsed(l))
    BY LineIsTuning
  <2> QED
    BY <1>6, <2>1 DEF TuneLine, TypeOK
<1>7. CASE UNCHANGED vars
  BY <1>7 DEF vars, TypeOK
<1> QED
  BY <1>1, <1>2, <1>3, <1>4, <1>5, <1>6, <1>7 DEF Next

LEMMA TypesAtFirst == Init => TypeOK
<1>1. DOMAIN << >> = {}
  OBVIOUS
<1> QED
  BY <1>1 DEF Init, TypeOK

(* Whatever NIT sections say and the iterators hold, every tuning that a   *)
(* receiver is given can be compared with the others                       *)
(* (TuningProperties::get_equivalence_value): it has a system, a voltage   *)
(* if and only if it is a satellite's, and its frequency does not wrap.    *)
THEOREM TypeCorrect == Spec => []TypeOK
<1> QED
  BY TypesAtFirst, TypesKept, PTL DEF Spec
-----------------------------------------------------------------------------
(* Sections on the air.                                                    *)

(* What is read is what was sent. *)
LEMMA WrittenKept ==
  ASSUME ReadAsWritten, [Next]_vars
  PROVE  ReadAsWritten'
<1>1. ASSUME NEW n \in NitSection, HearNit(n)
      PROVE  ReadAsWritten'
  <2>1. sent' = n /\ read' = Read(n) /\ Read(n) = n
    BY <1>1, ReadIsWritten DEF HearNit
  <2> QED
    BY <2>1 DEF ReadAsWritten
<1>2. ASSUME NEW n \in OtherSection, HearOther(n)
      PROVE  ReadAsWritten'
  <2>1. sent' = n /\ read' = Read(n) /\ Read(n) = n
    BY <1>2, ReadIsWritten DEF HearOther
  <2> QED
    BY <2>1 DEF ReadAsWritten
<1>3. CASE UNCHANGED <<sent, read>>
  BY <1>3 DEF ReadAsWritten
<1>4. CASE (\E k \in DOMAIN heard : TuneHeard(k)) \/ (\E l \in Lines : TuneLine(l))
  BY <1>3, <1>4 DEF TuneHeard, TuneLine
<1>5. CASE TuneIterated \/ SkipIterated
  BY <1>3, <1>5 DEF TuneIterated, SkipIterated
<1>6. CASE UNCHANGED vars
  BY <1>3, <1>6 DEF vars
<1> QED
  BY <1>1, <1>2, <1>4, <1>5, <1>6 DEF Next

(* Every NIT, BAT and SDT section that may be broadcast is read as it was   *)
(* written, whatever else goes on.                                          *)
THEOREM SectionsReadAsWritten == Spec => []ReadAsWritten
<1>1. Init => ReadAsWritten
  BY DEF Init, ReadAsWritten
<1> QED
  BY <1>1, WrittenKept, PTL DEF Spec
-----------------------------------------------------------------------------
(* No channel is lost.                                                     *)

(* The induction: every value that was entered is that of a tuning that    *)
(* was tried, and of every tuning the iterator yielded it was entered.     *)
Tried ==
  /\ TypeOK
  /\ \A e \in scannedEq : \E q \in tuned : Equivalence(q) = e
  /\ \A p \in Passed : IsTuning(p) /\ Equivalence(p) \in scannedEq

LEMMA PassedGrows ==
  ASSUME TypeOK, HasNext, iter' = iter + 1, program' = program
  PROVE  \A p \in Passed' : p \in Passed \/ p = Iterated
<1>1. iter \in Nat
  BY DEF TypeOK
<1>2. CASE program = "fvscan"
  <2>1. ASSUME NEW i \in 0 .. iter
        PROVE  i \in 0 .. iter - 1 \/ i = iter
    BY <1>1
  <2>2. Passed' = {DvbtTuning(First + i * Step) : i \in 0 .. iter' - 1} /\ iter' - 1 = iter
    BY <1>1, <1>2 DEF Passed
  <2>3. Passed = {DvbtTuning(First + i * Step) : i \in 0 .. iter - 1}
    BY <1>2 DEF Passed
  <2>4. Iterated = DvbtTuning(First + iter * Step)
    BY <1>2 DEF Iterated, CurrentFrequency
  <2>5. ASSUME NEW p \in Passed'
        PROVE  p \in Passed \/ p = Iterated
    <3>1. PICK i \in 0 .. iter : p = DvbtTuning(First + i * Step)
      BY <2>2, <2>5
    <3> QED
      BY <2>1, <2>3, <2>4, <3>1
  <2> QED
    BY <2>5
<1>3. CASE program # "fvscan"
  <2>1. ASSUME NEW i \in 1 .. iter'
        PROVE  i \in 1 .. iter \/ i = iter + 1
    BY <1>1
  <2>2. Passed' = {ParsedS(Presets[i]) : i \in 1 .. iter'}
    BY <1>3 DEF Passed
  <2>3. Passed = {ParsedS(Presets[i]) : i \in 1 .. iter}
    BY <1>3 DEF Passed
  <2>4. Iterated = ParsedS(Presets[iter + 1])
    BY <1>3 DEF Iterated
  <2> QED
    BY <2>1, <2>2, <2>3, <2>4
<1> QED
  BY <1>2, <1>3

LEMMA PassedStays ==
  ASSUME UNCHANGED <<program, iter>>
  PROVE  Passed' = Passed
BY DEF Passed

(* A tuning adds its own value and itself. *)
LEMMA TuneKeepsTried ==
  ASSUME Tried, TypeOK', NEW p, Tune(p),
         \A q \in Passed' : q \in Passed \/ (q = p /\ IsTuning(p))
  PROVE  Tried'
<1>1. \A e \in scannedEq' : \E q \in tuned' : Equivalence(q) = e
  BY DEF Tune, Tried
<1>2. \A q \in Passed' : IsTuning(q) /\ Equivalence(q) \in scannedEq'
  BY DEF Tune, Tried
<1> QED
  BY <1>1, <1>2 DEF Tried

LEMMA TriedKept ==
  ASSUME Tried, [Next]_vars
  PROVE  Tried'
<1>1. TypeOK /\ TypeOK'
  BY TypesKept DEF Tried
<1>2. CASE UNCHANGED <<program, iter, scannedEq, tuned>>
  BY <1>1, <1>2, PassedStays DEF Tried
<1>3. ASSUME NEW k \in DOMAIN heard, TuneHeard(k)
      PROVE  Tried'
  <2>1. Tune(TuningOf(heard[k])) /\ Passed' = Passed
    BY <1>3, PassedStays DEF TuneHeard
  <2> QED
    BY <1>1, <2>1, TuneKeepsTried
<1>4. CASE TuneIterated
  <2>1. HasNext /\ Tune(Iterated) /\ iter' = iter + 1 /\ program' = program
    BY <1>4 DEF TuneIterated
  <2>2. \A q \in Passed' : q \in Passed \/ (q = Iterated /\ IsTuning(Iterated))
    BY <1>1, <2>1, PassedGrows, IteratedIsTuning
  <2> QED
    BY <1>1, <2>1, <2>2, TuneKeepsTried
<1>5. CASE SkipIterated
  <2>1. /\ HasNext /\ iter' = iter + 1 /\ program' = program
        /\ UNCHANGED <<scannedEq, tuned>> /\ Equivalence(Iterated) \in scannedEq
    BY <1>5 DEF SkipIterated
  <2>2. \A q \in Passed' : q \in Passed \/ (q = Iterated /\ IsTuning(Iterated))
    BY <1>1, <2>1, PassedGrows, IteratedIsTuning
  <2>3. \A q \in Passed' : IsTuning(q) /\ Equivalence(q) \in scannedEq'
    BY <2>1, <2>2 DEF Tried
  <2> QED
    BY <1>1, <2>1, <2>3 DEF Tried
<1>6. ASSUME NEW l \in Lines, TuneLine(l)
      PROVE  Tried'
  <2>1. tuned = {} /\ UNCHANGED <<program, iter, scannedEq>>
    BY <1>6 DEF TuneLine
  <2>2. scannedEq' = {} /\ Passed' = Passed
    BY <2>1, PassedStays DEF Tried
  <2> QED
    BY <1>1, <2>1, <2>2 DEF Tried
<1>7. CASE \/ \E n \in NitSection : HearNit(n)
           \/ \E n \in OtherSection : HearOther(n)
           \/ UNCHANGED vars
  BY <1>2, <1>7 DEF HearNit, HearOther, vars
<1> QED
  BY <1>3, <1>4, <1>5, <1>6, <1>7 DEF Next

LEMMA TriedAtFirst == Init => Tried
<1> SUFFICES ASSUME Init
             PROVE  Tried
  OBVIOUS
<1>1. TypeOK /\ scannedEq = {} /\ iter = 0
  BY TypesAtFirst DEF Init
<1>2. 0 .. iter - 1 = {} /\ 1 .. iter = {}
  BY <1>1
<1>3. Passed = {}
  BY <1>2 DEF Passed
<1> QED
  BY <1>1, <1>3 DEF Tried

LEMMA TriedMeansTuned == Tried => SkippedWasTuned
<1> SUFFICES ASSUME Tried,
                    NEW p \in Passed \cup {TuningOf(heard[k]) : k \in DOMAIN heard},
                    Equivalence(p) \in scannedEq \/ p \in Passed
             PROVE  \E q \in tuned : Alike(p, q)
  BY DEF SkippedWasTuned
<1>1. IsTuning(p)
  BY HeardIsTuning DEF Tried, TypeOK
<1>2. Equivalence(p) \in scannedEq
  BY DEF Tried
<1>3. PICK q \in tuned : Equivalence(q) = Equivalence(p)
  BY <1>2 DEF Tried
<1>4. IsTuning(q)
  BY <1>3 DEF Tried, TypeOK
<1> QED
  BY <1>1, <1>3, <1>4, EquivalentAlike

(* MultiScanner::next passes over a tuning whose equivalence value it has  *)
(* entered; whatever the frequencies, such a tuning is of the system and   *)
(* the voltage of one that was tuned, and its frequency within 2 MHz.      *)
THEOREM NoChannelLost == Spec => []SkippedWasTuned
<1>1. Spec => []Tried
  BY TriedAtFirst, TriedKept, PTL DEF Spec
<1> QED
  BY <1>1, TriedMeansTuned, PTL
-----------------------------------------------------------------------------
(* The low noise block.                                                    *)

(* The induction: also of a satellite's tuning that an iterator yields or  *)
(* a NIT tells of.                                                         *)
Converted(p) ==
  System(p) = "SYS_DVBS" =>
    p.FREQUENCY \in Between(950000, 2150000) /\ RadioFrequency(p) \in SatelliteFrequencies

AllConverted == TypeOK /\ (program # "tune" => \A p \in tuned : Converted(p))

LEMMA InRange ==
  ASSUME NEW f \in KuBand
  PROVE  Intermediate(f) \in Between(950000, 2150000)
BY SMT DEF KuBand, Between, Intermediate, SLOF, LOF1, LOF2

LEMMA FrequenciesGrow ==
  ASSUME TypeOK, [Next]_vars
  PROVE  SatelliteFrequencies \subseteq SatelliteFrequencies'
<1>1. DOMAIN heard \subseteq DOMAIN heard' /\ \A k \in DOMAIN heard : heard'[k] = heard[k]
  <2>1. CASE \E n \in NitSection : HearNit(n)
    BY <2>1, HeardAfterNit
  <2>2. CASE UNCHANGED heard
    BY <2>2
  <2> QED
    BY <2>1, <2>2
       DEF Next, HearOther, TuneHeard, TuneIterated, SkipIterated, TuneLine, vars
<1> QED
  BY <1>1 DEF SatelliteFrequencies

LEMMA ConvertedKept ==
  ASSUME AllConverted, [Next]_vars
  PROVE  AllConverted'
<1>1. TypeOK /\ TypeOK'
  BY TypesKept DEF AllConverted
<1>2. program' = program
  BY DEF Next, HearNit, HearOther, TuneHeard, TuneIterated, SkipIterated, TuneLine, vars
<1>3. ASSUME NEW p, Converted(p)
      PROVE  Converted(p)'
  BY <1>1, <1>3, FrequenciesGrow, SMT DEF Converted, System, RadioFrequency, Default, Between
<1>4. ASSUME NEW p, Converted(p)', program # "tune", tuned' = tuned \cup {p}
      PROVE  AllConverted'
  BY <1>1, <1>2, <1>3, <1>4 DEF AllConverted
<1>5. CASE UNCHANGED tuned
  BY <1>1, <1>2, <1>3, <1>5 DEF AllConverted
<1>6. ASSUME NEW k \in DOMAIN heard, TuneHeard(k)
      PROVE  AllConverted'
  <2>1. heard[k] \in Delivery
    BY <1>1 DEF TypeOK
  <2>2. heard[k].system = "T" \/ heard[k].system = "S"
    BY <2>1, SMT DEF Delivery, TerrestrialDelivery, SatelliteDelivery
  <2>3. Converted(TuningOf(heard[k]))
    <3>1. CASE heard[k].system = "T"
      BY <2>1, <3>1, HeardIsTuning DEF Converted
    <3>2. CASE heard[k].system = "S"
      <4> DEFINE f == heard[k].frequency * 10
      <4>1. /\ f \in KuBand /\ TuningOf(heard[k]).FREQUENCY = Intermediate(f)
            /\ RadioFrequency(TuningOf(heard[k])) = f
        BY <2>1, <3>2, HeardIsTuning
      <4>2. f \in SatelliteFrequencies
        BY <3>2 DEF SatelliteFrequencies
      <4> HIDE DEF f
      <4> QED
        BY <4>1, <4>2, InRange DEF Converted
    <3> QED
      BY <2>2, <3>1, <3>2
  <2>4. tuned' = tuned \cup {TuningOf(heard[k])}
    BY <1>6 DEF TuneHeard, Tune
  <2> QED
    BY <1>1, <1>2, <1>3, <1>4, <2>3, <2>4 DEF AllConverted
<1>7. CASE TuneIterated
  <2>1. HasNext /\ tuned' = tuned \cup {Iterated}
    BY <1>7 DEF TuneIterated, Tune
  <2>2. Converted(Iterated)
    <3>1. CASE program = "fvscan"
      BY <1>1, <2>1, <3>1, IteratedIsTuning DEF Converted
    <3>2. CASE program # "fvscan"
      <4> DEFINE f == Presets[iter + 1][2]
      <4>1. /\ iter + 1 \in 1 .. Len(Presets)
            /\ f \in KuBand /\ Iterated.FREQUENCY = Intermediate(f)
            /\ RadioFrequency(Iterated) = f
        BY <1>1, <2>1, <3>2, IteratedIsTuning
      <4>2. f \in SatelliteFrequencies
        BY <4>1 DEF SatelliteFrequencies
      <4> HIDE DEF f
      <4> QED
        BY <4>1, <4>2, InRange DEF Converted
    <3> QED
      BY <3>1, <3>2
  <2>3. program # "tune"
    BY <2>1 DEF HasNext
  <2> QED
    BY <1>3, <1>4, <2>1, <2>2, <2>3
<1>8. ASSUME NEW l \in Lines, TuneLine(l)
      PROVE  AllConverted'
  BY <1>1, <1>2, <1>8 DEF TuneLine, AllConverted
<1>9. CASE \/ \E n \in NitSection : HearNit(n)
           \/ \E n \in OtherSection : HearOther(n)
           \/ SkipIterated \/ UNCHANGED vars
  BY <1>5, <1>9 DEF HearNit, HearOther, SkipIterated, vars
<1> QED
  BY <1>6, <1>7, <1>8, <1>9 DEF Next

LEMMA ConvertedAtFirst == Init => AllConverted
BY TypesAtFirst DEF Init, AllConverted

LEMMA ConvertedWithinRange == AllConverted => WithinRange
BY DEF AllConverted, Converted, WithinRange

(* The constructors of TuningProperties from a satellite's line and from a *)
(* satellite's descriptor (calculate_frequency_and_tone): for every        *)
(* frequency in the Ku band what is tuned is within the receiver's range,  *)
(* and query_key_props gives back the frequency that was heard.            *)
THEOREM OscillatorsCancel == Spec => []WithinRange
<1>1. Spec => []AllConverted
  BY ConvertedAtFirst, ConvertedKept, PTL DEF Spec
<1> QED
  BY <1>1, ConvertedWithinRange, PTL
-----------------------------------------------------------------------------
(* Lines give their tunings back.                                          *)

(* The induction: of whatever origin, a terrestrial tuning has only what a *)
(* line can say, in words that the line's tables have.                     *)
TableOf ==
  [CODE_RATE_HP |-> CodeRateTable, CODE_RATE_LP |-> CodeRateTable, MODULATION |-> ModulationTable,
   TRANSMISSION_MODE |-> TransmissionModeTable, GUARD_INTERVAL |-> GuardIntervalTable,
   HIERARCHY |-> HierarchyTable]

Tabled ==
  {"CODE_RATE_HP", "CODE_RATE_LP", "MODULATION", "TRANSMISSION_MODE", "GUARD_INTERVAL", "HIERARCHY"}

Describable(p) ==
  /\ {"DELIVERY_SYSTEM", "FREQUENCY"} \subseteq DOMAIN p
  /\ DOMAIN p \subseteq {"DELIVERY_SYSTEM", "FREQUENCY", "BANDWIDTH_HZ", "STREAM_ID", "INVERSION"}
                          \cup Tabled
  /\ p["DELIVERY_SYSTEM"] \in Terrestrial
  /\ p["DELIVERY_SYSTEM"] = "SYS_DVBT2" <=> "STREAM_ID" \in DOMAIN p
  /\ p["FREQUENCY"] \in Frequency
  /\ "BANDWIDTH_HZ" \in DOMAIN p => p["BANDWIDTH_HZ"] \in Nat
  /\ "INVERSION" \in DOMAIN p => p["INVERSION"] = "INVERSION_AUTO"
  /\ \A c \in Tabled \cap DOMAIN p : p[c] \in Values(TableOf[c])

AllDescribable == TypeOK /\ \A p \in tuned : System(p) = "SYS_DVBT" => Describable(p)

(* No value has two names in a table, and no name two values.              *)
OneToOne(table) == \A e, f \in table : e[1] = f[1] \/ e[2] = f[2] => e = f

LEMMA NameOfValue ==
  ASSUME NEW table, OneToOne(table), NEW e \in table
  PROVE  /\ e[1] \in Values(table) /\ e[2] \in Names(table)
         /\ ValueOf(table, e[2]) = e[1]
<1>1. (CHOOSE f \in table : f[2] = e[2]) \in table /\ (CHOOSE f \in table : f[2] = e[2])[2] = e[2]
  OBVIOUS
<1>2. (CHOOSE f \in table : f[2] = e[2]) = e
  BY <1>1 DEF OneToOne
<1> QED
  BY <1>2 DEF Values, Names, ValueOf

(* The name of a property that is there is its value's, of one that is     *)
(* missing it is AUTO.                                                     *)
LEMMA NameGivesValue ==
  ASSUME NEW table, OneToOne(table), NEW auto, <<auto, "AUTO">> \in table,
         NEW p, NEW c, c \in DOMAIN p => p[c] \in Values(table)
  PROVE  /\ NameOf(table, p, c) \in Names(table)
         /\ ValueOf(table, NameOf(table, p, c)) = IF c \in DOMAIN p THEN p[c] ELSE auto
<1>1. CASE c \in DOMAIN p
  <2>1. PICK e \in table : p[c] = e[1]
    BY <1>1 DEF Values
  <2> DEFINE g == CHOOSE f \in table : f[1] = p[c]
  <2>3. g \in table /\ g[1] = p[c]
    BY <2>1
  <2>4. g = e
    BY <2>1, <2>3 DEF OneToOne
  <2>5. NameOf(table, p, c) = e[2]
    BY <1>1, <2>1, <2>4, NameOfValue DEF NameOf
  <2> QED
    BY <1>1, <2>1, <2>5, NameOfValue
<1>2. CASE c \notin DOMAIN p
  <2> DEFINE e == <<auto, "AUTO">>
  <2>1. NameOf(table, p, c) = e[2] /\ e[1] = auto /\ e \in table
    BY <1>2 DEF NameOf
  <2> HIDE DEF e
  <2> QED
    BY <1>2, <2>1, NameOfValue
<1> QED
  BY <1>1, <1>2

LEMMA NamedIsValue ==
  ASSUME NEW table, OneToOne(table), NEW name \in Names(table)
  PROVE  ValueOf(table, name) \in Values(table)
<1>1. PICK e \in table : name = e[2]
  BY DEF Names
<1> QED
  BY <1>1, NameOfValue

LEMMA CodeRatesOneToOne == OneToOne(CodeRateTable) /\ <<"FEC_AUTO", "AUTO">> \in CodeRateTable
BY SMT DEF CodeRateTable, OneToOne

LEMMA ModulationsOneToOne == OneToOne(ModulationTable) /\ <<"QAM_AUTO", "AUTO">> \in ModulationTable
BY SMT DEF ModulationTable, OneToOne

LEMMA GuardIntervalsOneToOne ==
  OneToOne(GuardIntervalTable) /\ <<"GUARD_INTERVAL_AUTO", "AUTO">> \in GuardIntervalTable
BY SMT DEF GuardIntervalTable, OneToOne

LEMMA HierarchiesOneToOne ==
  OneToOne(HierarchyTable) /\ <<"HIERARCHY_AUTO", "AUTO">> \in HierarchyTable
BY SMT DEF HierarchyTable, OneToOne

LEMMA ModesOneToOne ==
  OneToOne(TransmissionModeTable) /\ <<"TRANSMISSION_MODE_AUTO", "AUTO">> \in TransmissionModeTable
BY SMT DEF TransmissionModeTable, OneToOne

LEMMA TablesOneToOne == \A c \in Tabled : OneToOne(TableOf[c])
BY CodeRatesOneToOne, ModulationsOneToOne, GuardIntervalsOneToOne, HierarchiesOneToOne,
   ModesOneToOne DEF Tabled, TableOf

(* Every word that a descriptor's numbers stand for is in its line's table. *)
LEMMA ConstellationNamed ==
  ASSUME NEW n \in 0 .. 3
  PROVE  Constellation(n) \in Values(ModulationTable)
BY SMT DEF Constellation, Nth, Values, ModulationTable

LEMMA HierarchyNamed ==
  ASSUME NEW n \in 0 .. 3
  PROVE  Hierarchy(n) \in Values(HierarchyTable)
BY SMT DEF Hierarchy, Nth, Values, HierarchyTable

LEMMA CodeRateNamed ==
  ASSUME NEW n \in 0 .. 7
  PROVE  CodeRate(n + 1) \in Values(CodeRateTable)
BY SMT DEF CodeRate, Nth, Values, CodeRateTable

LEMMA GuardIntervalNamed ==
  ASSUME NEW n \in 0 .. 3
  PROVE  GuardInterval(n) \in Values(GuardIntervalTable)
BY SMT DEF GuardInterval, Nth, Values, GuardIntervalTable

LEMMA TransmissionModeNamed ==
  ASSUME NEW n \in 0 .. 3
  PROVE  TransmissionMode(n) \in Values(TransmissionModeTable)
BY SMT DEF TransmissionMode, Nth, Values, TransmissionModeTable

(* A delivery system heard of; a frequency of Freeview's; a line.          *)
LEMMA HeardIsDescribable ==
  ASSUME NEW d \in TerrestrialDelivery
  PROVE  Describable(TerrestrialTuning(d))
<1> DEFINE p == TerrestrialTuning(d)
<1>1. /\ DOMAIN p =
           {"DELIVERY_SYSTEM", "FREQUENCY", "BANDWIDTH_HZ", "MODULATION", "HIERARCHY",
            "CODE_RATE_HP", "CODE_RATE_LP", "GUARD_INTERVAL", "TRANSMISSION_MODE"}
      /\ p["DELIVERY_SYSTEM"] = "SYS_DVBT" /\ p["FREQUENCY"] = d.frequency * 10
      /\ p["BANDWIDTH_HZ"] = Bandwidth(d.bandwidth)
      /\ p["MODULATION"] = Constellation(d.constellation)
      /\ p["HIERARCHY"] = Hierarchy(d.hierarchy)
      /\ p["CODE_RATE_HP"] = CodeRate(d.hp + 1) /\ p["CODE_RATE_LP"] = CodeRate(d.lp + 1)
      /\ p["GUARD_INTERVAL"] = GuardInterval(d.guard)
      /\ p["TRANSMISSION_MODE"] = TransmissionMode(d.mode)
  BY DEF TerrestrialTuning
<1>2. /\ d.frequency \in Between(0, 200000000) /\ d.bandwidth \in 0 .. 7
      /\ d.constellation \in 0 .. 3 /\ d.hierarchy \in 0 .. 3
      /\ d.hp \in 0 .. 7 /\ d.lp \in 0 .. 7 /\ d.guard \in 0 .. 3 /\ d.mode \in 0 .. 3
  BY SMT DEF TerrestrialDelivery
<1>3. p["FREQUENCY"] \in Frequency
  BY <1>1, <1>2, SMT DEF Frequency, Between
<1>4. p["BANDWIDTH_HZ"] \in Nat
  BY <1>1, <1>2, SMT DEF Bandwidth, Nth
<1>5. p["MODULATION"] \in Values(ModulationTable)
  BY <1>1, <1>2, ConstellationNamed
<1>6. p["HIERARCHY"] \in Values(HierarchyTable)
  BY <1>1, <1>2, HierarchyNamed
<1>7. p["CODE_RATE_HP"] \in Values(CodeRateTable) /\ p["CODE_RATE_LP"] \in Values(CodeRateTable)
  BY <1>1, <1>2, CodeRateNamed
<1>8. p["GUARD_INTERVAL"] \in Values(GuardIntervalTable)
  BY <1>1, <1>2, GuardIntervalNamed
<1>9. p["TRANSMISSION_MODE"] \in Values(TransmissionModeTable)
  BY <1>1, <1>2, TransmissionModeNamed
<1>10. \A c \in Tabled \cap DOMAIN p : p[c] \in Values(TableOf[c])
  BY <1>1, <1>5, <1>6, <1>7, <1>8, <1>9 DEF Tabled, TableOf
<1> HIDE DEF p
<1> QED
  BY <1>1, <1>3, <1>4, <1>10 DEF Describable, Terrestrial, Tabled, p

LEMMA DvbtIsDescribable ==
  ASSUME NEW f \in Frequency
  PROVE  Describable(DvbtTuning(f))
<1>1. /\ DOMAIN DvbtTuning(f) = {"DELIVERY_SYSTEM", "FREQUENCY", "BANDWIDTH_HZ"}
      /\ DvbtTuning(f)["DELIVERY_SYSTEM"] = "SYS_DVBT" /\ DvbtTuning(f)["FREQUENCY"] = f
      /\ DvbtTuning(f)["BANDWIDTH_HZ"] = Step
  BY DEF DvbtTuning
<1>2. Step \in Nat
  BY TuningConstants DEF TuningConstants, Frequency, Between
<1> QED
  BY <1>1, <1>2 DEF Describable, Terrestrial, Tabled

(* q is what line l is parsed into, property by property, with the         *)
(* frequency in token i.                                                   *)
ParsedFrom(l, i, q) ==
  /\ DOMAIN q = {"DELIVERY_SYSTEM", "FREQUENCY", "INVERSION"} \cup Tabled
                \cup (IF LineOfT2(l) THEN {"STREAM_ID"} ELSE {})
                \cup (IF l[i + 1] = NoWidth THEN {} ELSE {"BANDWIDTH_HZ"})
  /\ q["DELIVERY_SYSTEM"] = IF LineOfT2(l) THEN "SYS_DVBT2" ELSE "SYS_DVBT"
  /\ q["FREQUENCY"] = InHz(l[i])
  /\ q["CODE_RATE_HP"] = ValueOf(CodeRateTable, l[i + 2])
  /\ q["CODE_RATE_LP"] = ValueOf(CodeRateTable, l[i + 3])
  /\ q["MODULATION"] = ValueOf(ModulationTable, l[i + 4])
  /\ q["TRANSMISSION_MODE"] = ValueOf(TransmissionModeTable, l[i + 5])
  /\ q["GUARD_INTERVAL"] = ValueOf(GuardIntervalTable, l[i + 6])
  /\ q["HIERARCHY"] = ValueOf(HierarchyTable, l[i + 7])
  /\ q["INVERSION"] = "INVERSION_AUTO"
  /\ LineOfT2(l) => q["STREAM_ID"] = l[2]
  /\ l[i + 1] # NoWidth => q["BANDWIDTH_HZ"] = l[i + 1] * 1000

LEMMA ParsedFields ==
  ASSUME NEW l, NEW i, i = FrequencyToken(l), NEW q, q = ParsedT(l)
  PROVE  ParsedFrom(l, i, q)
<1> DEFINE fixed == TerrestrialTokens(l, i)
           stream == StreamToken(l)
           width == BandwidthToken(l, i)
           over == Overlay(stream, width)
           keys == {"DELIVERY_SYSTEM", "FREQUENCY", "INVERSION"} \cup Tabled
<1>1. q = Overlay(fixed, over)
  BY DEF ParsedT
<1>2. /\ DOMAIN fixed = keys
      /\ fixed["DELIVERY_SYSTEM"] = IF LineOfT2(l) THEN "SYS_DVBT2" ELSE "SYS_DVBT"
      /\ fixed["FREQUENCY"] = InHz(l[i])
      /\ fixed["CODE_RATE_HP"] = ValueOf(CodeRateTable, l[i + 2])
      /\ fixed["CODE_RATE_LP"] = ValueOf(CodeRateTable, l[i + 3])
      /\ fixed["MODULATION"] = ValueOf(ModulationTable, l[i + 4])
      /\ fixed["TRANSMISSION_MODE"] = ValueOf(TransmissionModeTable, l[i + 5])
      /\ fixed["GUARD_INTERVAL"] = ValueOf(GuardIntervalTable, l[i + 6])
      /\ fixed["HIERARCHY"] = ValueOf(HierarchyTable, l[i + 7])
      /\ fixed["INVERSION"] = "INVERSION_AUTO"
  BY DEF TerrestrialTokens, Tabled
<1>3. DOMAIN << >> = {}
  OBVIOUS
<1>4. /\ DOMAIN stream = IF LineOfT2(l) THEN {"STREAM_ID"} ELSE {}
      /\ LineOfT2(l) => stream["STREAM_ID"] = l[2]
  BY <1>3 DEF StreamToken
<1>5. /\ DOMAIN width = IF l[i + 1] = NoWidth THEN {} ELSE {"BANDWIDTH_HZ"}
      /\ l[i + 1] # NoWidth => width["BANDWIDTH_HZ"] = l[i + 1] * 1000
  BY <1>3 DEF BandwidthToken
<1> HIDE DEF fixed, stream, width
<1>6. /\ DOMAIN over = DOMAIN stream \cup DOMAIN width
      /\ LineOfT2(l) => over["STREAM_ID"] = l[2]
      /\ l[i + 1] # NoWidth => over["BANDWIDTH_HZ"] = l[i + 1] * 1000
  <2>1. DOMAIN over = DOMAIN stream \cup DOMAIN width
    BY OverlayDomain
  <2>2. LineOfT2(l) => over["STREAM_ID"] = l[2]
    BY <1>4, <1>5, OverlayKeeps
  <2>3. l[i + 1] # NoWidth => over["BANDWIDTH_HZ"] = l[i + 1] * 1000
    BY <1>5, OverlayTakes
  <2> QED
    BY <2>1, <2>2, <2>3
<1> HIDE DEF over
<1>7. DOMAIN q = DOMAIN fixed \cup DOMAIN over
  BY <1>1, OverlayDomain
<1>8. ASSUME NEW c \in keys
      PROVE  q[c] = fixed[c]
  <2>1. c \in DOMAIN fixed /\ c \notin DOMAIN over
    BY <1>2, <1>4, <1>5, <1>6 DEF Tabled
  <2> QED
    BY <1>1, <2>1, OverlayKeeps
<1>9. ASSUME NEW c \in DOMAIN over
      PROVE  q[c] = over[c]
  BY <1>1, OverlayTakes
<1>10. LineOfT2(l) => q["STREAM_ID"] = l[2]
  BY <1>4, <1>6, <1>9
<1>11. l[i + 1] # NoWidth => q["BANDWIDTH_HZ"] = l[i + 1] * 1000
  BY <1>5, <1>6, <1>9
<1>12. DOMAIN q = keys \cup DOMAIN stream \cup DOMAIN width
  BY <1>2, <1>6, <1>7
<1> QED
  BY <1>2, <1>4, <1>5, <1>8, <1>10, <1>11, <1>12 DEF Tabled, ParsedFrom

LEMMA LineIsDescribable ==
  ASSUME NEW l, IsTerrestrialLine(l)
  PROVE  Describable(ParsedT(l))
<1> DEFINE i == FrequencyToken(l)
           q == ParsedT(l)
<1>1. /\ InHz(l[i]) \in Frequency /\ l[i + 1] \in Nat \cup {NoWidth}
      /\ l[i + 2] \in Names(CodeRateTable) /\ l[i + 3] \in Names(CodeRateTable)
      /\ l[i + 4] \in Names(ModulationTable) /\ l[i + 5] \in Names(TransmissionModeTable)
      /\ l[i + 6] \in Names(GuardIntervalTable) /\ l[i + 7] \in Names(HierarchyTable)
  BY DEF IsTerrestrialLine, Rates
<1>2. ParsedFrom(l, i, q)
  BY ParsedFields
<1> HIDE DEF i, q
<1>3. l[i + 1] # NoWidth => q["BANDWIDTH_HZ"] \in Nat
  BY <1>1, <1>2 DEF ParsedFrom
<1>4. /\ q["CODE_RATE_HP"] \in Values(CodeRateTable) /\ q["CODE_RATE_LP"] \in Values(CodeRateTable)
      /\ q["MODULATION"] \in Values(ModulationTable)
      /\ q["TRANSMISSION_MODE"] \in Values(TransmissionModeTable)
      /\ q["GUARD_INTERVAL"] \in Values(GuardIntervalTable)
      /\ q["HIERARCHY"] \in Values(HierarchyTable)
  <2>1. /\ q["CODE_RATE_HP"] = ValueOf(CodeRateTable, l[i + 2])
        /\ q["CODE_RATE_LP"] = ValueOf(CodeRateTable, l[i + 3])
        /\ q["MODULATION"] = ValueOf(ModulationTable, l[i + 4])
        /\ q["TRANSMISSION_MODE"] = ValueOf(TransmissionModeTable, l[i + 5])
        /\ q["GUARD_INTERVAL"] = ValueOf(GuardIntervalTable, l[i + 6])
        /\ q["HIERARCHY"] = ValueOf(HierarchyTable, l[i + 7])
    BY <1>2 DEF ParsedFrom
  <2>2. /\ q["CODE_RATE_HP"] \in Values(CodeRateTable)
        /\ q["CODE_RATE_LP"] \in Values(CodeRateTable)
    BY <1>1, <2>1, NamedIsValue, CodeRatesOneToOne
  <2>3. q["MODULATION"] \in Values(ModulationTable)
    BY <1>1, <2>1, NamedIsValue, ModulationsOneToOne
  <2>4. q["TRANSMISSION_MODE"] \in Values(TransmissionModeTable)
    BY <1>1, <2>1, NamedIsValue, ModesOneToOne
  <2>5. q["GUARD_INTERVAL"] \in Values(GuardIntervalTable)
    BY <1>1, <2>1, NamedIsValue, GuardIntervalsOneToOne
  <2>6. q["HIERARCHY"] \in Values(HierarchyTable)
    BY <1>1, <2>1, NamedIsValue, HierarchiesOneToOne
  <2> QED
    BY <2>2, <2>3, <2>4, <2>5, <2>6
<1>5. \A c \in Tabled \cap DOMAIN q : q[c] \in Values(TableOf[c])
  BY <1>4 DEF Tabled, TableOf
<1>6. Describable(q)
  BY <1>1, <1>2, <1>3, <1>5 DEF Describable, Terrestrial, Tabled, ParsedFrom
<1> QED
  BY <1>6 DEF q

(* l has the tokens of p's line, the frequency in token j. *)
TokensOf(p, j, l) ==
  /\ Len(l) = j + 7
  /\ l[1] = IF p.DELIVERY_SYSTEM = "SYS_DVBT2" THEN "T2" ELSE "T"
  /\ p.DELIVERY_SYSTEM = "SYS_DVBT2" => l[2] = Default(p, "STREAM_ID", 0)
  /\ l[j] = p.FREQUENCY
  /\ l[j + 1] = Width(Default(p, "BANDWIDTH_HZ", 0))
  /\ l[j + 2] = NameOf(CodeRateTable, p, "CODE_RATE_HP")
  /\ l[j + 3] = NameOf(CodeRateTable, p, "CODE_RATE_LP")
  /\ l[j + 4] = NameOf(ModulationTable, p, "MODULATION")
  /\ l[j + 5] = NameOf(TransmissionModeTable, p, "TRANSMISSION_MODE")
  /\ l[j + 6] = NameOf(GuardIntervalTable, p, "GUARD_INTERVAL")
  /\ l[j + 7] = NameOf(HierarchyTable, p, "HIERARCHY")

LEMMA ShortLine ==
  ASSUME NEW a, NEW b, NEW c, NEW d, NEW e, NEW f, NEW g, NEW h, NEW l,
         l = <<"T">> \o <<a, b, c, d, e, f, g, h>>
  PROVE  /\ Len(l) = 9 /\ l[1] = "T"
         /\ l[2] = a /\ l[3] = b /\ l[4] = c /\ l[5] = d
         /\ l[6] = e /\ l[7] = f /\ l[8] = g /\ l[9] = h
<1> DEFINE s == <<"T">>
           t == <<a, b, c, d, e, f, g, h>>
           S == {"T", a, b, c, d, e, f, g, h}
<1>1. s \in Seq(S) /\ t \in Seq(S) /\ l = s \o t
  OBVIOUS
<1>2. /\ Len(s) = 1 /\ s[1] = "T"
      /\ Len(t) = 8 /\ t[1] = a /\ t[2] = b /\ t[3] = c /\ t[4] = d
      /\ t[5] = e /\ t[6] = f /\ t[7] = g /\ t[8] = h
  OBVIOUS
<1> HIDE DEF s, t, S
<1>3. /\ Len(s \o t) = Len(s) + Len(t)
      /\ \A k \in 1 .. Len(s) : (s \o t)[k] = s[k]
      /\ \A k \in 1 .. Len(t) : (s \o t)[Len(s) + k] = t[k]
  BY <1>1, Concatenated
<1>4. Len(l) = 9 /\ l[1] = s[1] /\ \A k \in 1 .. 8 : l[1 + k] = t[k]
  BY <1>1, <1>2, <1>3
<1> QED
  BY <1>2, <1>4

LEMMA LongLine ==
  ASSUME NEW x, NEW y, NEW a, NEW b, NEW c, NEW d, NEW e, NEW f, NEW g, NEW h, NEW l,
         l = <<"T2", x, y>> \o <<a, b, c, d, e, f, g, h>>
  PROVE  /\ Len(l) = 11 /\ l[1] = "T2" /\ l[2] = x
         /\ l[4] = a /\ l[5] = b /\ l[6] = c /\ l[7] = d
         /\ l[8] = e /\ l[9] = f /\ l[10] = g /\ l[11] = h
<1> DEFINE s == <<"T2", x, y>>
           t == <<a, b, c, d, e, f, g, h>>
           S == {"T2", x, y, a, b, c, d, e, f, g, h}
<1>1. s \in Seq(S) /\ t \in Seq(S) /\ l = s \o t
  OBVIOUS
<1>2. /\ Len(s) = 3 /\ s[1] = "T2" /\ s[2] = x
      /\ Len(t) = 8 /\ t[1] = a /\ t[2] = b /\ t[3] = c /\ t[4] = d
      /\ t[5] = e /\ t[6] = f /\ t[7] = g /\ t[8] = h
  OBVIOUS
<1> HIDE DEF s, t, S
<1>3. /\ Len(s \o t) = Len(s) + Len(t)
      /\ \A k \in 1 .. Len(s) : (s \o t)[k] = s[k]
      /\ \A k \in 1 .. Len(t) : (s \o t)[Len(s) + k] = t[k]
  BY <1>1, Concatenated
<1>4. Len(l) = 11 /\ l[1] = s[1] /\ l[2] = s[2] /\ \A k \in 1 .. 8 : l[3 + k] = t[k]
  BY <1>1, <1>2, <1>3
<1> QED
  BY <1>2, <1>4

LEMMA DescribedTokens ==
  ASSUME NEW p
  PROVE  TokensOf(p, IF p.DELIVERY_SYSTEM = "SYS_DVBT2" THEN 4 ELSE 2, Described(p))
<1> DEFINE l == Described(p)
<1>1. CASE p.DELIVERY_SYSTEM = "SYS_DVBT2"
  <2>1. TokensOf(p, 4, l)
    BY <1>1, LongLine DEF TokensOf, Described
  <2> QED
    BY <1>1, <2>1
<1>2. CASE p.DELIVERY_SYSTEM # "SYS_DVBT2"
  <2>1. TokensOf(p, 2, l)
    BY <1>2, ShortLine DEF TokensOf, Described
  <2> QED
    BY <1>2, <2>1
<1> QED
  BY <1>1, <1>2

(* A frequency that is printed in Hz is read as such, and a bandwidth that *)
(* the line can say is what the line's kHz make.                           *)
LEMMA NumbersKept ==
  ASSUME NEW p, Describable(p), Standard(p)
  PROVE  /\ InHz(p.FREQUENCY) = p.FREQUENCY
         /\ Width(Default(p, "BANDWIDTH_HZ", 0)) \in Nat
         /\ Width(Default(p, "BANDWIDTH_HZ", 0)) * 1000 = Default(p, "BANDWIDTH_HZ", 0)
<1>1. InHz(p.FREQUENCY) = p.FREQUENCY
  BY SMT DEF Describable, Standard, Frequency, Between, InHz
<1>2. ASSUME NEW hz \in Nat, hz = 1712000 \/ hz % 1000000 = 0
      PROVE  Width(hz) \in Nat /\ Width(hz) * 1000 = hz
  BY <1>2, SMT DEF Width
<1>3. /\ Default(p, "BANDWIDTH_HZ", 0) \in Nat
      /\ \/ Default(p, "BANDWIDTH_HZ", 0) = 1712000
         \/ Default(p, "BANDWIDTH_HZ", 0) % 1000000 = 0
  BY SMT DEF Default, Describable, Standard
<1> QED
  BY <1>1, <1>2, <1>3

LEMMA LineGivesBack ==
  ASSUME NEW p, Describable(p), Standard(p), NEW l, l = Described(p), NEW q, q = Parsed(l)
  PROVE  /\ IsTerrestrialLine(l)
         /\ \A c \in DOMAIN p : c \in DOMAIN q /\ q[c] = p[c]
         /\ \A c \in DOMAIN q \ DOMAIN p :
              IF c = "BANDWIDTH_HZ" THEN q[c] = 0 ELSE q[c] \in Automatic
<1> DEFINE j == IF p.DELIVERY_SYSTEM = "SYS_DVBT2" THEN 4 ELSE 2
<1>1. /\ Describable(p)
      /\ p.DELIVERY_SYSTEM \in Terrestrial /\ p.FREQUENCY \in Frequency
  BY DEF Describable
<1>2. TokensOf(p, j, l)
  BY DescribedTokens
<1>3. /\ LineOfT2(l) <=> p.DELIVERY_SYSTEM = "SYS_DVBT2"
      /\ FrequencyToken(l) = j /\ q = ParsedT(l) /\ l[1] \in {"T", "T1", "T2"}
  <2>1. CASE p.DELIVERY_SYSTEM = "SYS_DVBT2"
    BY <1>2, <2>1, SMT DEF TokensOf, LineOfT2, FrequencyToken, Parsed
  <2>2. CASE p.DELIVERY_SYSTEM # "SYS_DVBT2"
    BY <1>2, <2>2, SMT DEF TokensOf, LineOfT2, FrequencyToken, Parsed
  <2> QED
    BY <2>1, <2>2
<1>4. ParsedFrom(l, j, q)
  BY <1>3, ParsedFields
<1>5. j \in Nat
  OBVIOUS
<1> HIDE DEF j
<1>6. /\ l[j] = p.FREQUENCY /\ q["FREQUENCY"] = p["FREQUENCY"]
      /\ l[j + 1] \in Nat /\ "BANDWIDTH_HZ" \in DOMAIN q
      /\ q["BANDWIDTH_HZ"] = Default(p, "BANDWIDTH_HZ", 0)
  <2>1. l[j] = p.FREQUENCY /\ l[j + 1] = Width(Default(p, "BANDWIDTH_HZ", 0))
    BY <1>2 DEF TokensOf
  <2>2. l[j + 1] \in Nat /\ l[j + 1] # NoWidth
    BY <2>1, NumbersKept, SMT DEF NoWidth
  <2>3. /\ q["FREQUENCY"] = InHz(l[j]) /\ q["BANDWIDTH_HZ"] = l[j + 1] * 1000
        /\ "BANDWIDTH_HZ" \in DOMAIN q
    BY <1>4, <2>2 DEF ParsedFrom
  <2> QED
    BY <2>1, <2>2, <2>3, NumbersKept
<1>7. /\ l[j + 2] \in Rates /\ l[j + 3] \in Rates /\ l[j + 4] \in Names(ModulationTable)
      /\ l[j + 5] \in Names(TransmissionModeTable) /\ l[j + 6] \in Names(GuardIntervalTable)
      /\ l[j + 7] \in Names(HierarchyTable)
      /\ \A c \in Tabled : IF c \in DOMAIN p THEN q[c] = p[c] ELSE q[c] \in Automatic
  <2>1. /\ l[j + 2] \in Names(CodeRateTable)
        /\ q["CODE_RATE_HP"] = IF "CODE_RATE_HP" \in DOMAIN p THEN p["CODE_RATE_HP"] ELSE "FEC_AUTO"
    <3>1. "CODE_RATE_HP" \in DOMAIN p => p["CODE_RATE_HP"] \in Values(CodeRateTable)
      BY <1>1 DEF Describable, Tabled, TableOf
    <3>2. l[j + 2] = NameOf(CodeRateTable, p, "CODE_RATE_HP") /\ q["CODE_RATE_HP"] = ValueOf(CodeRateTable, l[j + 2])
      BY <1>2, <1>4 DEF TokensOf, ParsedFrom
    <3> QED
      BY <3>1, <3>2, CodeRatesOneToOne, NameGivesValue
  <2>2. /\ l[j + 3] \in Names(CodeRateTable)
        /\ q["CODE_RATE_LP"] = IF "CODE_RATE_LP" \in DOMAIN p THEN p["CODE_RATE_LP"] ELSE "FEC_AUTO"
    <3>1. "CODE_RATE_LP" \in DOMAIN p => p["CODE_RATE_LP"] \in Values(CodeRateTable)
      BY <1>1 DEF Describable, Tabled, TableOf
    <3>2. l[j + 3] = NameOf(CodeRateTable, p, "CODE_RATE_LP") /\ q["CODE_RATE_LP"] = ValueOf(CodeRateTable, l[j + 3])
      BY <1>2, <1>4 DEF TokensOf, ParsedFrom
    <3> QED
      BY <3>1, <3>2, CodeRatesOneToOne, NameGivesValue
  <2>3. /\ l[j + 4] \in Names(ModulationTable)
        /\ q["MODULATION"] = IF "MODULATION" \in DOMAIN p THEN p["MODULATION"] ELSE "QAM_AUTO"
    <3>1. "MODULATION" \in DOMAIN p => p["MODULATION"] \in Values(ModulationTable)
      BY <1>1 DEF Describable, Tabled, TableOf
    <3>2. l[j + 4] = NameOf(ModulationTable, p, "MODULATION") /\ q["MODULATION"] = ValueOf(ModulationTable, l[j + 4])
      BY <1>2, <1>4 DEF TokensOf, ParsedFrom
    <3> QED
      BY <3>1, <3>2, ModulationsOneToOne, NameGivesValue
  <2>4. /\ l[j + 5] \in Names(TransmissionModeTable)
        /\ q["TRANSMISSION_MODE"] = IF "TRANSMISSION_MODE" \in DOMAIN p THEN p["TRANSMISSION_MODE"] ELSE "TRANSMISSION_MODE_AUTO"
    <3>1. "TRANSMISSION_MODE" \in DOMAIN p => p["TRANSMISSION_MODE"] \in Values(TransmissionModeTable)
      BY <1>1 DEF Describable, Tabled, TableOf
    <3>2. l[j + 5] = NameOf(TransmissionModeTable, p, "TRANSMISSION_MODE") /\ q["TRANSMISSION_MODE"] = ValueOf(TransmissionModeTable, l[j + 5])
      BY <1>2, <1>4 DEF TokensOf, ParsedFrom
    <3> QED
      BY <3>1, <3>2, ModesOneToOne, NameGivesValue
  <2>5. /\ l[j + 6] \in Names(GuardIntervalTable)
        /\ q["GUARD_INTERVAL"] = IF "GUARD_INTERVAL" \in DOMAIN p THEN p["GUARD_INTERVAL"] ELSE "GUARD_INTERVAL_AUTO"
    <3>1. "GUARD_INTERVAL" \in DOMAIN p => p["GUARD_INTERVAL"] \in Values(GuardIntervalTable)
      BY <1>1 DEF Describable, Tabled, TableOf
    <3>2. l[j + 6] = NameOf(GuardIntervalTable, p, "GUARD_INTERVAL") /\ q["GUARD_INTERVAL"] = ValueOf(GuardIntervalTable, l[j + 6])
      BY <1>2, <1>4 DEF TokensOf, ParsedFrom
    <3> QED
      BY <3>1, <3>2, GuardIntervalsOneToOne, NameGivesValue
  <2>6. /\ l[j + 7] \in Names(HierarchyTable)
        /\ q["HIERARCHY"] = IF "HIERARCHY" \in DOMAIN p THEN p["HIERARCHY"] ELSE "HIERARCHY_AUTO"
    <3>1. "HIERARCHY" \in DOMAIN p => p["HIERARCHY"] \in Values(HierarchyTable)
      BY <1>1 DEF Describable, Tabled, TableOf
    <3>2. l[j + 7] = NameOf(HierarchyTable, p, "HIERARCHY") /\ q["HIERARCHY"] = ValueOf(HierarchyTable, l[j + 7])
      BY <1>2, <1>4 DEF TokensOf, ParsedFrom
    <3> QED
      BY <3>1, <3>2, HierarchiesOneToOne, NameGivesValue
  <2> QED
    BY <2>1, <2>2, <2>3, <2>4, <2>5, <2>6 DEF Rates, Tabled, Automatic
<1>8. IsTerrestrialLine(l)
  <2>1. Len(l) = j + 7
    BY <1>2 DEF TokensOf
  <2>2. l[j] \in Nat /\ InHz(l[j]) \in Frequency
    BY <1>1, <1>6, NumbersKept DEF Frequency, Between
  <2> QED
    BY <1>3, <1>5, <1>6, <1>7, <2>1, <2>2 DEF IsTerrestrialLine
<1>9. ASSUME NEW c \in DOMAIN p
      PROVE  c \in DOMAIN q /\ q[c] = p[c]
  <2>1. c \in {"DELIVERY_SYSTEM", "FREQUENCY", "BANDWIDTH_HZ", "STREAM_ID", "INVERSION"} \cup Tabled
    BY <1>1 DEF Describable
  <2>2. CASE c \in Tabled
    BY <1>4, <1>7, <2>2 DEF ParsedFrom
  <2>3. CASE c = "STREAM_ID"
    <3>1. p["DELIVERY_SYSTEM"] = "SYS_DVBT2"
      BY <1>1, <2>3 DEF Describable
    <3>2. l[2] = p["STREAM_ID"]
      BY <1>2, <2>3, <3>1 DEF TokensOf, Default
    <3> QED
      BY <1>3, <1>4, <2>3, <3>1, <3>2 DEF ParsedFrom
  <2>4. CASE c = "INVERSION"
    BY <1>1, <1>4, <2>4 DEF ParsedFrom, Describable
  <2>5. CASE c = "DELIVERY_SYSTEM"
    BY <1>1, <1>3, <1>4, <2>5 DEF ParsedFrom, Terrestrial
  <2>6. CASE c = "FREQUENCY"
    BY <1>4, <1>6, <2>6 DEF ParsedFrom
  <2>7. CASE c = "BANDWIDTH_HZ"
    BY <1>6, <2>7 DEF Default
  <2> QED
    BY <2>1, <2>2, <2>3, <2>4, <2>5, <2>6, <2>7
<1>10. ASSUME NEW c \in DOMAIN q \ DOMAIN p
       PROVE  IF c = "BANDWIDTH_HZ" THEN q[c] = 0 ELSE q[c] \in Automatic
  <2>1. c \in {"BANDWIDTH_HZ", "STREAM_ID", "INVERSION"} \cup Tabled
    BY <1>1, <1>4 DEF ParsedFrom, Describable
  <2>2. c # "STREAM_ID"
    BY <1>1, <1>3, <1>4 DEF ParsedFrom, Describable, Tabled
  <2>3. CASE c \in Tabled
    BY <1>7, <2>3 DEF Tabled
  <2>4. CASE c = "INVERSION"
    BY <1>4, <2>4 DEF ParsedFrom, Automatic
  <2>5. CASE c = "BANDWIDTH_HZ"
    BY <1>6, <2>5 DEF Default
  <2> QED
    BY <2>1, <2>2, <2>3, <2>4, <2>5
<1> QED
  BY <1>8, <1>9, <1>10

LEMMA DescribableKept ==
  ASSUME AllDescribable, [Next]_vars
  PROVE  AllDescribable'
<1>1. TypeOK /\ TypeOK'
  BY TypesKept DEF AllDescribable
<1>2. ASSUME UNCHANGED tuned
      PROVE  AllDescribable'
  BY <1>1, <1>2 DEF AllDescribable
<1>3. ASSUME NEW p, tuned' = tuned \cup {p}, System(p) = "SYS_DVBT" => Describable(p)
      PROVE  AllDescribable'
  BY <1>1, <1>3 DEF AllDescribable
<1>4. ASSUME NEW k \in DOMAIN heard, TuneHeard(k)
      PROVE  AllDescribable'
  <2>1. heard[k] \in Delivery /\ tuned' = tuned \cup {TuningOf(heard[k])}
    BY <1>1, <1>4 DEF TuneHeard, Tune, TypeOK
  <2>2. CASE heard[k] \in TerrestrialDelivery
    <3>1. TuningOf(heard[k]) = TerrestrialTuning(heard[k])
      BY <2>2 DEF TuningOf, TerrestrialDelivery
    <3> QED
      BY <1>3, <2>1, <2>2, <3>1, HeardIsDescribable
  <2>3. CASE heard[k] \in SatelliteDelivery
    <3>1. heard[k].system = "S"
      BY <2>3 DEF SatelliteDelivery
    <3> QED
      BY <1>3, <2>1, <3>1, HeardIsTuning
  <2> QED
    BY <2>1, <2>2, <2>3 DEF Delivery
<1>5. CASE TuneIterated
  <2>1. HasNext /\ tuned' = tuned \cup {Iterated}
    BY <1>5 DEF TuneIterated, Tune
  <2>2. CASE program = "fvscan"
    BY <1>1, <1>3, <2>1, <2>2, CurrentIsFrequency, DvbtIsDescribable DEF Iterated
  <2>3. CASE program # "fvscan"
    <3>1. iter + 1 \in 1 .. Len(Presets)
      BY <1>1, <2>1, <2>3, IteratedIsTuning
    <3>2. Presets[iter + 1][2] \in Frequency
      BY <3>1, TuningConstants DEF TuningConstants, IsSatelliteLine
    <3>3. Iterated = ParsedS(Presets[iter + 1])
      BY <2>3 DEF Iterated
    <3> QED
      BY <1>3, <2>1, <3>2, <3>3, ParsedSIsTuning
  <2> QED
    BY <2>2, <2>3
<1>6. ASSUME NEW l \in Lines, TuneLine(l)
      PROVE  AllDescribable'
  <2>1. tuned' = tuned \cup {Parsed(l)}
    BY <1>6 DEF TuneLine
  <2>2. CASE IsTerrestrialLine(l)
    <3>1. Parsed(l) = ParsedT(l)
      BY <2>2 DEF IsTerrestrialLine, Parsed
    <3> QED
      BY <1>3, <2>1, <2>2, <3>1, LineIsDescribable
  <2>3. CASE IsSatelliteLine(l)
    <3>1. Parsed(l) = ParsedS(l) /\ l[2] \in Frequency
      BY <2>3 DEF IsSatelliteLine, Parsed
    <3> QED
      BY <1>3, <2>1, <3>1, ParsedSIsTuning
  <2> QED
    BY <2>2, <2>3, TuningConstants DEF TuningConstants
<1>7. CASE \/ \E n \in NitSection : HearNit(n)
           \/ \E n \in OtherSection : HearOther(n)
           \/ SkipIterated \/ UNCHANGED vars
  BY <1>2, <1>7 DEF HearNit, HearOther, SkipIterated, vars
<1> QED
  BY <1>4, <1>5, <1>6, <1>7 DEF Next

LEMMA DescribableAtFirst == Init => AllDescribable
BY TypesAtFirst DEF Init, AllDescribable

LEMMA DescribableKeepsLine == AllDescribable => LineKeepsTuning
BY LineGivesBack DEF AllDescribable, LineKeepsTuning

(* dvbt_description and parse_dvb_t, written apart with tables and units   *)
(* of their own: the line of a terrestrial tuning of the standard's,       *)
(* whatever it was made of, is parsed without error and into that tuning,  *)
(* with every property it leaves open automatic.                           *)
THEOREM LinesKeepTunings == Spec => []LineKeepsTuning
<1>1. Spec => []AllDescribable
  BY DescribableAtFirst, DescribableKept, PTL DEF Spec
<1> QED
  BY <1>1, DescribableKeepsLine, PTL
=============================================================================
