------------------------------- MODULE Tuning -------------------------------
(***************************************************************************)
(* Tunings: where they come from, and which of them are the same           *)
(* (src/tuning.*, the tuning iterators, the delivery system descriptors).  *)
(*                                                                         *)
(* A scan gets its tunings from an iterator, which counts through          *)
(* frequencies (Freeview) or parses preset lines (Freesat), and from the   *)
(* delivery systems in NIT sections.  MultiScanner::next tries each one    *)
(* whose equivalence value, a rounded frequency with the voltage in its    *)
(* top bits, it has not tried yet.  This module has the numbers for which  *)
(* module MultiScanner has names.                                          *)
(*                                                                         *)
(* A tuning is a record of its dtv properties, without the DTV_TUNE that   *)
(* the constructors put last.  Frequencies are Hz, but kHz for satellites. *)
(* A property that would wrap below 0 stands here for itself plus 2^32:    *)
(* the oscillator's frequency is added again before it is compared.        *)
(***************************************************************************)
EXTENDS Integers, Sequences, FiniteSets

CONSTANTS
  Key,        \* transport streams: original network id and id
  NitSection, \* sections of a NIT, as they are broadcast
  OtherSection, \* sections of the other tables
  NoSection,
  First, LastFreq, Step, \* Freeview's frequencies
  Presets,    \* Freesat's lines, a sequence of tokens each
  Lines       \* the lines tests/tune.cpp may be given

Sec == INSTANCE Sections

\* What a section is read as, byte by byte.
Read(n) == Sec!ReadSection(Sec!WriteSection(n))

\* Frequencies that ten times a descriptor's word does not overflow, and the Ku band.
Between(a, b) == {f \in Nat : a <= f /\ f <= b}
Frequency == Between(0, 2000000000)
KuBand == Between(10700000, 12750000)

\* Delivery systems, with the numbers their descriptors have for everything.
TerrestrialDelivery ==
  [system : {"T"}, frequency : Between(0, 200000000), bandwidth : 0 .. 7, constellation : 0 .. 3,
   hierarchy : 0 .. 3, hp : 0 .. 7, lp : 0 .. 7, guard : 0 .. 3, mode : 0 .. 3]
SatelliteDelivery ==
  [system : {"S"}, frequency : Between(1070000, 1275000), polarization : 0 .. 3, rolloff : 0 .. 3, s2 : 0 .. 1,
   modulation : 0 .. 3, symbolRate : Nat, fec : 0 .. 15]
Delivery == TerrestrialDelivery \cup SatelliteDelivery

VARIABLES
  program,    \* which program scans, and with that which iterator
  heard,      \* the delivery system of each transport stream heard of
  iter,       \* how many tunings the iterator has yielded
  scannedEq,  \* scanned_equivalences_
  tuned,      \* history: the tunings the receiver was given
  sent,       \* the last section on the air
  read        \* what was read of it

vars == <<program, heard, iter, scannedEq, tuned, sent, read>>

Overlay(f, g) == [x \in DOMAIN f \cup DOMAIN g |-> IF x \in DOMAIN g THEN g[x] ELSE f[x]]

\* The entry of seq for a number from 0 on.
Nth(seq, n, default) == IF n + 1 \in DOMAIN seq THEN seq[n + 1] ELSE default
-----------------------------------------------------------------------------
(* The low noise block: a satellite's frequency is tuned as what remains   *)
(* of it below one of two oscillators, the tone telling which.             *)

SLOF == 11700000
LOF1 == 9750000
LOF2 == 10600000

\* Mutant: the upper oscillator is chosen from its own frequency on.
IntermediateEarly(f) == IF f < LOF2 THEN f - LOF1 ELSE f - LOF2

Intermediate(f) == IF f < SLOF THEN f - LOF1 ELSE f - LOF2
Tone(f) == IF f < SLOF THEN "SEC_TONE_OFF" ELSE "SEC_TONE_ON"
-----------------------------------------------------------------------------
(* Tunings of delivery systems in the NIT.                                 *)

Bandwidth(b) == Nth(<<8000000, 7000000, 6000000, 5000000, 10000000, 1712000>>, b, 8000000)

CodeRate(r) ==
  Nth(<<"FEC_AUTO", "FEC_1_2", "FEC_2_3", "FEC_3_4", "FEC_5_6", "FEC_7_8", "FEC_8_9",
        "FEC_3_5", "FEC_4_5", "FEC_9_10">>, r, "FEC_AUTO")

GuardInterval(g) ==
  Nth(<<"GUARD_INTERVAL_1_32", "GUARD_INTERVAL_1_16", "GUARD_INTERVAL_1_8", "GUARD_INTERVAL_1_4",
        "GUARD_INTERVAL_1_128", "GUARD_INTERVAL_19_128", "GUARD_INTERVAL_19_256">>,
      g, "GUARD_INTERVAL_AUTO")

TransmissionMode(m) ==
  Nth(<<"TRANSMISSION_MODE_2K", "TRANSMISSION_MODE_8K", "TRANSMISSION_MODE_4K",
        "TRANSMISSION_MODE_1K", "TRANSMISSION_MODE_16K", "TRANSMISSION_MODE_32K">>,
      m, "TRANSMISSION_MODE_AUTO")

Constellation(c) == Nth(<<"QPSK", "QAM_16", "QAM_64">>, c, "QAM_AUTO")

Hierarchy(h) ==
  Nth(<<"HIERARCHY_NONE", "HIERARCHY_1", "HIERARCHY_2", "HIERARCHY_4">>, h, "HIERARCHY_AUTO")

TerrestrialTuning(d) ==
  [DELIVERY_SYSTEM   |-> "SYS_DVBT",
   FREQUENCY         |-> d.frequency * 10,
   BANDWIDTH_HZ      |-> Bandwidth(d.bandwidth),
   MODULATION        |-> Constellation(d.constellation),
   HIERARCHY         |-> Hierarchy(d.hierarchy),
   CODE_RATE_HP      |-> CodeRate(d.hp + 1),
   CODE_RATE_LP      |-> CodeRate(d.lp + 1),
   GUARD_INTERVAL    |-> GuardInterval(d.guard),
   TRANSMISSION_MODE |-> TransmissionMode(d.mode)]

\* Whatever the polarization, the voltage is that of a vertical one; and the
\* descriptor's roll-off is taken for the driver's enumeration of them.
SatelliteTuning(d) ==
  [DELIVERY_SYSTEM |-> IF d.s2 = 1 THEN "SYS_DVBS2" ELSE "SYS_DVBS",
   FREQUENCY       |-> Intermediate(d.frequency * 10),
   TONE            |-> Tone(d.frequency * 10),
   VOLTAGE         |-> "SEC_VOLTAGE_13",
   ROLLOFF         |-> Nth(<<"ROLLOFF_35", "ROLLOFF_20", "ROLLOFF_25">>, d.rolloff, "ROLLOFF_AUTO"),
   MODULATION      |-> Nth(<<"QAM_AUTO", "QPSK", "PSK_8", "QAM_16">>, d.modulation, "QAM_AUTO"),
   SYMBOL_RATE     |-> d.symbolRate * 100,
   INNER_FEC       |-> CodeRate(d.fec)]

TuningOf(d) == IF d.system = "T" THEN TerrestrialTuning(d) ELSE SatelliteTuning(d)
-----------------------------------------------------------------------------
(* Tuning lines.  A line is the sequence of its tokens, a number where a   *)
(* number is meant.  A bandwidth is in kHz; NoWidth for AUTO, and for any  *)
(* token without "MHz".                                                    *)

CodeRateTable ==
  {<<"FEC_NONE", "NONE">>, <<"FEC_1_2", "1/2">>, <<"FEC_2_3", "2/3">>, <<"FEC_3_4", "3/4">>,
   <<"FEC_4_5", "4/5">>, <<"FEC_5_6", "5/6">>, <<"FEC_6_7", "6/7">>, <<"FEC_7_8", "7/8">>,
   <<"FEC_8_9", "8/9">>, <<"FEC_AUTO", "AUTO">>, <<"FEC_3_5", "3/5">>, <<"FEC_9_10", "9/10">>}

ModulationTable ==
  {<<"QPSK", "QPSK">>, <<"QAM_16", "QAM16">>, <<"QAM_32", "QAM32">>, <<"QAM_64", "QAM64">>,
   <<"QAM_128", "QAM128">>, <<"QAM_256", "QAM256">>, <<"QAM_AUTO", "AUTO">>, <<"VSB_8", "8VSB">>,
   <<"VSB_16", "16VSB">>, <<"PSK_8", "8PSK">>, <<"APSK_16", "APSK16">>, <<"APSK_32", "APSK32">>,
   <<"DQPSK", "DQPSK">>}

GuardIntervalTable ==
  {<<"GUARD_INTERVAL_1_32", "1/32">>, <<"GUARD_INTERVAL_1_16", "1/16">>,
   <<"GUARD_INTERVAL_1_8", "1/8">>, <<"GUARD_INTERVAL_1_4", "1/4">>,
   <<"GUARD_INTERVAL_1_128", "1/128">>, <<"GUARD_INTERVAL_19_128", "19/128">>,
   <<"GUARD_INTERVAL_19_256", "19/256">>, <<"GUARD_INTERVAL_AUTO", "AUTO">>}

HierarchyTable ==
  {<<"HIERARCHY_NONE", "NONE">>, <<"HIERARCHY_1", "1">>, <<"HIERARCHY_2", "2">>,
   <<"HIERARCHY_4", "4">>, <<"HIERARCHY_AUTO", "AUTO">>}

TransmissionModeTable ==
  {<<"TRANSMISSION_MODE_2K", "2K">>, <<"TRANSMISSION_MODE_8K", "8K">>,
   <<"TRANSMISSION_MODE_4K", "4K">>, <<"TRANSMISSION_MODE_1K", "1K">>,
   <<"TRANSMISSION_MODE_16K", "16K">>, <<"TRANSMISSION_MODE_32K", "32K">>,
   <<"TRANSMISSION_MODE_AUTO", "AUTO">>}

RollOffTable ==
  {<<"ROLLOFF_35", "35">>, <<"ROLLOFF_20", "20">>, <<"ROLLOFF_25", "25">>,
   <<"ROLLOFF_AUTO", "AUTO">>}

Values(table) == {e[1] : e \in table}
Names(table) == {e[2] : e \in table}
ValueOf(table, name) == (CHOOSE e \in table : e[2] = name)[1]

\* A value's name; a property that is missing has the name AUTO.
NameOf(table, p, c) ==
  IF c \in DOMAIN p /\ p[c] \in Values(table) THEN (CHOOSE e \in table : e[1] = p[c])[2]
  ELSE "AUTO"

NoWidth == -1

InHz(v) == IF v < 1000 THEN v * 1000000 ELSE IF v < 1000000 THEN v * 1000 ELSE v

\* DVB-T2 has two more tokens before the frequency.
LineOfT2(l) == l[1] = "T2" \/ (l[1] = "T" /\ Len(l) > 9)
FrequencyToken(l) == IF LineOfT2(l) THEN 4 ELSE 2

TerrestrialTokens(l, i) ==
  [DELIVERY_SYSTEM   |-> IF LineOfT2(l) THEN "SYS_DVBT2" ELSE "SYS_DVBT",
   FREQUENCY         |-> InHz(l[i]),
   CODE_RATE_HP      |-> ValueOf(CodeRateTable, l[i + 2]),
   CODE_RATE_LP      |-> ValueOf(CodeRateTable, l[i + 3]),
   MODULATION        |-> ValueOf(ModulationTable, l[i + 4]),
   TRANSMISSION_MODE |-> ValueOf(TransmissionModeTable, l[i + 5]),
   GUARD_INTERVAL    |-> ValueOf(GuardIntervalTable, l[i + 6]),
   HIERARCHY         |-> ValueOf(HierarchyTable, l[i + 7]),
   INVERSION         |-> "INVERSION_AUTO"]

StreamToken(l) == IF LineOfT2(l) THEN [STREAM_ID |-> l[2]] ELSE << >>
BandwidthToken(l, i) == IF l[i + 1] = NoWidth THEN << >> ELSE [BANDWIDTH_HZ |-> l[i + 1] * 1000]

ParsedT(l) ==
  LET i == FrequencyToken(l)
  IN Overlay(TerrestrialTokens(l, i), Overlay(StreamToken(l), BandwidthToken(l, i)))

\* S1 and S2 tell the system; S is DVB-S2 if it has more than five tokens.
ParsedS(l) ==
  LET s2 == l[1] = "S2" \/ (l[1] = "S" /\ Len(l) > 5)
      fixed == [DELIVERY_SYSTEM |-> IF s2 THEN "SYS_DVBS2" ELSE "SYS_DVBS",
                FREQUENCY       |-> Intermediate(l[2]),
                TONE            |-> Tone(l[2]),
                VOLTAGE         |-> IF l[3] \in {"H", "L"} THEN "SEC_VOLTAGE_18"
                                    ELSE "SEC_VOLTAGE_13",
                SYMBOL_RATE     |-> l[4],
                INNER_FEC       |-> ValueOf(CodeRateTable, l[5]),
                INVERSION       |-> "INVERSION_AUTO"]
      more == IF Len(l) > 5 /\ l[1] # "S1"
              THEN [PILOT      |-> "PILOT_AUTO",
                    ROLLOFF    |-> ValueOf(RollOffTable, l[6]),
                    MODULATION |-> ValueOf(ModulationTable, l[7])]
              ELSE << >>
  IN Overlay(fixed, more)

Parsed(l) == IF l[1] \in {"T", "T1", "T2"} THEN ParsedT(l) ELSE ParsedS(l)

Rates == Names(CodeRateTable)

\* Lines that are parsed with no error, and with no token missing.
IsTerrestrialLine(l) ==
  LET i == FrequencyToken(l)
  IN /\ l[1] \in {"T", "T1", "T2"} /\ Len(l) >= i + 7
     /\ l[i] \in Nat /\ InHz(l[i]) \in Frequency /\ l[i + 1] \in Nat \cup {NoWidth}
     /\ l[i + 2] \in Rates /\ l[i + 3] \in Rates /\ l[i + 4] \in Names(ModulationTable)
     /\ l[i + 5] \in Names(TransmissionModeTable) /\ l[i + 6] \in Names(GuardIntervalTable)
     /\ l[i + 7] \in Names(HierarchyTable)

IsSatelliteLine(l) ==
  /\ l[1] \in {"S", "S1", "S2"} /\ (Len(l) = 5 \/ Len(l) >= 7)
  /\ l[2] \in Frequency /\ l[3] \in {"H", "V", "L", "R"} /\ l[4] \in Nat /\ l[5] \in Rates
  /\ Len(l) > 5 => l[6] \in Names(RollOffTable) /\ l[7] \in Names(ModulationTable)

\* A NIT section: each stream once, with frequencies that are of its system's bands.
StreamsOnce(n) ==
  /\ \A i \in DOMAIN n.streams :
       /\ n.streams[i].key \in Key
       /\ \A j \in DOMAIN n.streams[i].delivery : n.streams[i].delivery[j] \in Delivery
  /\ \A i, j \in DOMAIN n.streams : n.streams[i].key = n.streams[j].key => i = j

ASSUME TuningConstants ==
  /\ First \in Frequency /\ LastFreq \in Frequency /\ Step \in Frequency
  /\ \A n \in NitSection : n \in Sec!Nit /\ StreamsOnce(n)
  /\ OtherSection \subseteq Sec!Nit \cup Sec!Bat \cup Sec!Sdt
  /\ Len(Presets) \in Nat
  /\ \A i \in 1 .. Len(Presets) : IsSatelliteLine(Presets[i]) /\ Presets[i][2] \in KuBand
  /\ \A l \in Lines : IsTerrestrialLine(l) \/ IsSatelliteLine(l)

\* Mutant: every bandwidth is printed in whole MHz.
WidthWhole(hz) == (hz \div 1000000) * 1000

\* The bandwidth's token, in whole MHz but for one.
Width(hz) == IF hz = 1712000 THEN 1712 ELSE (hz \div 1000000) * 1000

Default(p, c, default) == IF c \in DOMAIN p THEN p[c] ELSE default

\* dvbt_description: the line of a terrestrial tuning.
Described(p) ==
  (IF p.DELIVERY_SYSTEM = "SYS_DVBT2" THEN <<"T2", Default(p, "STREAM_ID", 0), 0>> ELSE <<"T">>)
  \o <<p.FREQUENCY,
       Width(Default(p, "BANDWIDTH_HZ", 0)),
       NameOf(CodeRateTable, p, "CODE_RATE_HP"), NameOf(CodeRateTable, p, "CODE_RATE_LP"),
       NameOf(ModulationTable, p, "MODULATION"),
       NameOf(TransmissionModeTable, p, "TRANSMISSION_MODE"),
       NameOf(GuardIntervalTable, p, "GUARD_INTERVAL"), NameOf(HierarchyTable, p, "HIERARCHY")>>
-----------------------------------------------------------------------------
(* What tunings are compared by: query_key_props, get_equivalence_value.   *)

\* The family, DVB-S2 and DVB-T2 being of the older system's.
System(p) ==
  IF p.DELIVERY_SYSTEM \in {"SYS_DVBS", "SYS_DVBS2"} THEN "SYS_DVBS" ELSE "SYS_DVBT"

\* What the frequency is divided by to get MHz.
Divisor(p) == IF System(p) = "SYS_DVBS" THEN 1000 ELSE 1000000

RadioFrequency(p) ==
  IF System(p) # "SYS_DVBS" THEN p.FREQUENCY
  ELSE p.FREQUENCY + (IF Default(p, "TONE", "SEC_TONE_OFF") = "SEC_TONE_ON" THEN LOF2 ELSE LOF1)

Voltage(p) == Default(p, "VOLTAGE", "SEC_VOLTAGE_OFF")

VoltageBits(v) ==
  IF v = "SEC_VOLTAGE_13" THEN 0 ELSE IF v = "SEC_VOLTAGE_18" THEN 536870912 ELSE 1073741824

\* Frequencies that are counted as one, two MHz of them.
Bin(x, divisor) == (x \div divisor) \div 2

\* Mutant: the voltage is left out.
EquivalenceOfFrequency(p) == Bin(RadioFrequency(p), Divisor(p))

\* The voltage is ORed in above the frequency, which has not that many bits.
Equivalence(p) == Bin(RadioFrequency(p), Divisor(p)) + VoltageBits(Voltage(p))
-----------------------------------------------------------------------------
(* The iterators.  Neither is reset during a scan.                         *)

DvbtTuning(f) == [DELIVERY_SYSTEM |-> "SYS_DVBT", FREQUENCY |-> f, BANDWIDTH_HZ |-> Step]

\* current_ of DvbtTuningIterator.
CurrentFrequency == First + iter * Step

HasNext ==
  \/ program = "fvscan" /\ CurrentFrequency <= LastFreq
  \/ program = "fsscan" /\ iter < Len(Presets)

Iterated ==
  IF program = "fvscan" THEN DvbtTuning(CurrentFrequency) ELSE ParsedS(Presets[iter + 1])
-----------------------------------------------------------------------------
(* The programs.                                                           *)

\* Mutant: the Freesat processor reads terrestrial delivery systems too.
ProcessedAll(d) == TRUE

\* Whether the program's processor reads a delivery system: Freesat's reads those of
\* satellites only.
Processed(d) == program = "fsscan" => d.system = "S"

\* The delivery systems of a section that enter ts_data_: of each transport stream,
\* the first that is read (set_tuning).
Deliveries(r) ==
  UNION {{<<r.streams[i].key, r.streams[i].delivery[j]>> :
            j \in {k \in DOMAIN r.streams[i].delivery :
                    /\ Processed(r.streams[i].delivery[k])
                    /\ \A l \in 1 .. k - 1 : ~ Processed(r.streams[i].delivery[l])}} :
         i \in DOMAIN r.streams}

\* One that a transport stream has already stays.
HearNit(n) ==
  /\ program \in {"fvscan", "fsscan"}
  /\ sent' = n /\ read' = Read(n)
  /\ LET new == Deliveries(read')
     IN heard' = Overlay([k \in {x[1] : x \in new} |-> (CHOOSE x \in new : x[1] = k)[2]], heard)
  /\ UNCHANGED <<program, iter, scannedEq, tuned>>

\* A section of another table.
HearOther(n) ==
  /\ program \in {"fvscan", "fsscan"}
  /\ sent' = n /\ read' = Read(n)
  /\ UNCHANGED <<program, heard, iter, scannedEq, tuned>>

Tune(p) ==
  /\ scannedEq' = scannedEq \cup {Equivalence(p)}
  /\ tuned' = tuned \cup {p}

\* A transport stream heard of, not tried; or tried, when it is left over from the
\* search.  What decides between it and the iterator is in module MultiScanner.
TuneHeard(k) ==
  /\ Tune(TuningOf(heard[k]))
  /\ UNCHANGED <<program, heard, iter, sent, read>>

\* The iterator's next.
TuneIterated ==
  /\ HasNext
  /\ Equivalence(Iterated) \notin scannedEq
  /\ Tune(Iterated)
  /\ iter' = iter + 1
  /\ UNCHANGED <<program, heard, sent, read>>

\* It has been tried.
SkipIterated ==
  /\ HasNext
  /\ Equivalence(Iterated) \in scannedEq
  /\ iter' = iter + 1
  /\ UNCHANGED <<program, heard, scannedEq, tuned, sent, read>>

\* tests/tune.cpp tunes to a line of its user's, once.
TuneLine(l) ==
  /\ program = "tune" /\ tuned = {}
  /\ tuned' = {Parsed(l)}
  /\ UNCHANGED <<program, heard, iter, scannedEq, sent, read>>

Init ==
  /\ program \in {"fvscan", "fsscan", "tune"}
  /\ heard = << >> /\ scannedEq = {} /\ tuned = {}
  /\ iter = 0
  /\ sent = NoSection /\ read = NoSection

Next ==
  \/ \E n \in NitSection : HearNit(n)
  \/ \E n \in OtherSection : HearOther(n)
  \/ \E k \in DOMAIN heard : TuneHeard(k)
  \/ TuneIterated \/ SkipIterated
  \/ \E l \in Lines : TuneLine(l)

Spec == Init /\ [][Next]_vars
-----------------------------------------------------------------------------
(* Properties.                                                             *)

Voltages == {"SEC_VOLTAGE_13", "SEC_VOLTAGE_18", "SEC_VOLTAGE_OFF"}

IsTuning(p) ==
  /\ {"DELIVERY_SYSTEM", "FREQUENCY"} \subseteq DOMAIN p
  /\ p["DELIVERY_SYSTEM"] \in {"SYS_DVBS", "SYS_DVBS2", "SYS_DVBT", "SYS_DVBT2"}
  /\ p["FREQUENCY"] \in Int /\ RadioFrequency(p) \in Frequency
  /\ Voltage(p) \in Voltages
  /\ System(p) = "SYS_DVBT" <=> Voltage(p) = "SEC_VOLTAGE_OFF"

\* The type invariant: what was heard has a delivery system of its program's, and
\* whatever was tuned can be compared.
TypeOK ==
  /\ program \in {"fvscan", "fsscan", "tune"}
  /\ \A k \in DOMAIN heard : k \in Key /\ heard[k] \in Delivery
  /\ program = "fsscan" => \A k \in DOMAIN heard : heard[k].system = "S"
  /\ iter \in Nat
  /\ scannedEq \subseteq Int
  /\ \A p \in tuned : IsTuning(p)

\* A section is read as it was written: every length, offset and bit field of the
\* decoder agrees with the format, also behind descriptors it does not know and in
\* empty loops.
ReadAsWritten == read = sent

\* Alike for a scan: a receiver tuned to one finds what the other stands for.
Alike(p, q) ==
  /\ System(p) = System(q) /\ Voltage(p) = Voltage(q)
  /\ RadioFrequency(p) - RadioFrequency(q) <= 2 * Divisor(p)
  /\ RadioFrequency(q) - RadioFrequency(p) <= 2 * Divisor(p)

\* The iterator's tunings that were taken from it.
Passed ==
  IF program = "fvscan" THEN {DvbtTuning(First + i * Step) : i \in 0 .. iter - 1}
  ELSE {ParsedS(Presets[i]) : i \in 1 .. iter}

\* The rounding of equivalence values loses no channel: one that is passed over as
\* tried is of the same family (S with S2, T with T2) and voltage as one that was
\* tuned, and within 2 MHz.  The voltage is the tuning's, which need not be that of
\* the polarization broadcast (DiscoveredTuned).
SkippedWasTuned ==
  \A p \in Passed \cup {TuningOf(heard[k]) : k \in DOMAIN heard} :
    Equivalence(p) \in scannedEq \/ p \in Passed => \E q \in tuned : Alike(p, q)

\* The frequencies a satellite was heard, or is known, to have.
SatelliteFrequencies ==
  {Presets[i][2] : i \in 1 .. Len(Presets)}
    \cup {heard[k].frequency * 10 : k \in {x \in DOMAIN heard : heard[x].system = "S"}}

\* What the oscillators leave of a satellite's frequency is in the receiver's range,
\* and gives the frequency back when tunings are compared.
WithinRange ==
  program # "tune" =>
    \A p \in {q \in tuned : System(q) = "SYS_DVBS"} :
      p.FREQUENCY \in Between(950000, 2150000) /\ RadioFrequency(p) \in SatelliteFrequencies

Automatic ==
  {"FEC_AUTO", "QAM_AUTO", "TRANSMISSION_MODE_AUTO", "GUARD_INTERVAL_AUTO", "HIERARCHY_AUTO",
   "INVERSION_AUTO"}

\* What a broadcast band has: a frequency that is not taken for one in kHz or MHz, and
\* a bandwidth of the standard's, whole MHz or 1712 kHz.
Standard(p) ==
  /\ p.FREQUENCY >= 1000000
  /\ "BANDWIDTH_HZ" \in DOMAIN p => p.BANDWIDTH_HZ = 1712000 \/ p.BANDWIDTH_HZ % 1000000 = 0

\* The line dvbt_description makes of a terrestrial tuning of the standard's is, when
\* it is parsed, that tuning again, with what it leaves open automatic.
LineKeepsTuning ==
  \A p \in {q \in tuned : System(q) = "SYS_DVBT" /\ Standard(q)} :
    LET q == Parsed(Described(p))
    IN /\ IsTerrestrialLine(Described(p))
       /\ \A c \in DOMAIN p : c \in DOMAIN q /\ q[c] = p[c]
       /\ \A c \in DOMAIN q \ DOMAIN p :
            IF c = "BANDWIDTH_HZ" THEN q[c] = 0 ELSE q[c] \in Automatic

\* What next() says of discovered transport streams: one that is not scanned yet
\* is looked for, so for one it passes over a channel of its frequency was tuned with
\* its own polarization, when it was tuned itself or something else was for it.
DiscoveredTuned ==
  \A k \in DOMAIN heard :
    LET p == TuningOf(heard[k])
    IN heard[k].system = "S" /\ Equivalence(p) \in scannedEq =>
         \E q \in tuned :
           /\ RadioFrequency(p) - RadioFrequency(q) \in -2000 .. 2000
           /\ Voltage(q) = IF heard[k].polarization \in {0, 2} THEN "SEC_VOLTAGE_18"
                           ELSE "SEC_VOLTAGE_13"
=============================================================================
