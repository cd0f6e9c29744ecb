------------------------------ MODULE Sections ------------------------------
(***************************************************************************)
(* Sections of service information, byte by byte (src/si, and the          *)
(* descriptors of src/scan).                                               *)
(*                                                                         *)
(* A section is a sequence of bytes full of loops: a length, and then      *)
(* items that each say where the next one begins.  The classes of src/si   *)
(* are nothing but offsets into it.  The second part of this module is     *)
(* how a broadcaster writes a section (EN 300 468); what is read must be   *)
(* what was written.                                                       *)
(***************************************************************************)
EXTENDS Integers, Sequences, SequencesExt

\* data_[o + offset_]; o counts from the beginning of the section here.
Word8(s, o) == s[o + 1]
Word16(s, o) == Word8(s, o) * 256 + Word8(s, o + 1)
Word24(s, o) == Word8(s, o) * 65536 + Word16(s, o + 1)
Word32(s, o) == Word24(s, o) * 256 + Word8(s, o + 3)
Word12(s, o) == Word16(s, o) % 4096

\* Two decimal digits in a byte.
Bcd8(s, o) == (Word8(s, o) \div 16) * 10 + (Word8(s, o) % 16)
Bcd32(s, o) == ((Bcd8(s, o) * 100 + Bcd8(s, o + 1)) * 100 + Bcd8(s, o + 2)) * 100 + Bcd8(s, o + 3)

\* The bits of b from the lowest-th on, as many as n.
Bits(b, lowest, n) == (b \div 2 ^ lowest) % 2 ^ n

\* The offsets of the items from first to end, one at o being size[o] bytes long.
\* As an item has a byte at least, a loop over n bytes has ended after n steps.
Walk(first, end, size) ==
  LET run[k \in Nat] ==
        IF k = 0 THEN [at |-> first, items |-> << >>]
        ELSE LET was == run[k - 1]
             IN IF was.at >= end THEN was
                ELSE [at |-> was.at + size[was.at], items |-> Append(was.items, was.at)]
  IN run[IF end > first THEN end - first ELSE 0].items

\* get_descriptors: the descriptors of the loop whose length is at o.
Descriptors(s, o) ==
  Walk(o + 2, o + 2 + Word12(s, o), [d \in Nat |-> Word8(s, d + 1) + 2])

Tag == [network_name |-> 64, service_list |-> 65, satellite |-> 67, bouquet_name |-> 71,
        service |-> 72, terrestrial |-> 90, freeview_lcn |-> 131,
        freesat_region |-> 212, freesat_lcn |-> 211]

\* Each element of a sequence as Read reads it, and the sequences it yields in one.
Each(seq, Read(_)) == [i \in DOMAIN seq |-> Read(seq[i])]
EachOf(seq, Read(_)) == FlattenSeq(Each(seq, Read))

\* What is read of the descriptors with that tag, in order.
Tagged(s, o, tag, Read(_)) ==
  EachOf(Descriptors(s, o), LAMBDA d : IF Word8(s, d) = tag THEN Read(d) ELSE << >>)

Text(s, o, length) == [i \in 1 .. length |-> s[o + i]]

\* The name descriptors.
NamesOf(s, o, tag) == Tagged(s, o, tag, LAMBDA d : <<Text(s, d + 2, Word8(s, d + 1))>>)
-----------------------------------------------------------------------------
(* The NIT: networks, transport streams, delivery systems.                 *)

ServiceList(s, d) ==
  Each(Walk(d + 2, d + 2 + Word8(s, d + 1), [v \in Nat |-> 3]), LAMBDA v : Word16(s, v))

\* Mutant: the flags above a channel number are taken for a part of it.
FreeviewLcnsUnmasked(s, d) ==
  Each(Walk(d + 2, d + 2 + Word8(s, d + 1), [p \in Nat |-> 4]),
       LAMBDA p : [service |-> Word16(s, p), lcn |-> Word16(s, p + 2)])

FreeviewLcns(s, d) ==
  Each(Walk(d + 2, d + 2 + Word8(s, d + 1), [p \in Nat |-> 4]),
       LAMBDA p : [service |-> Word16(s, p), lcn |-> Word16(s, p + 2) % 1024])

Terrestrial(s, d) ==
  [system        |-> "T",
   frequency     |-> Word32(s, d + 2),
   bandwidth     |-> Bits(Word8(s, d + 6), 5, 3),
   constellation |-> Bits(Word8(s, d + 7), 6, 2),
   hierarchy     |-> Bits(Word8(s, d + 7), 3, 2),
   hp            |-> Bits(Word8(s, d + 7), 0, 3),
   lp            |-> Bits(Word8(s, d + 8), 5, 3),
   guard         |-> Bits(Word8(s, d + 8), 3, 2),
   mode          |-> Bits(Word8(s, d + 8), 1, 2)]

\* The symbol rate's last nibble is the FEC's.
Satellite(s, d) ==
  [system       |-> "S",
   frequency    |-> Bcd32(s, d + 2),
   polarization |-> Bits(Word8(s, d + 8), 5, 2),
   rolloff      |-> Bits(Word8(s, d + 8), 3, 2),
   s2           |-> Bits(Word8(s, d + 8), 2, 1),
   modulation   |-> Bits(Word8(s, d + 8), 0, 2),
   symbolRate   |-> Bcd32(s, d + 9) \div 10,
   fec          |-> Bits(Word8(s, d + 12), 0, 4)]

\* Of either system, in the order of the loop.
DeliverySystem(s, d) ==
  CASE Word8(s, d) = Tag.terrestrial -> <<Terrestrial(s, d)>>
    [] Word8(s, d) = Tag.satellite -> <<Satellite(s, d)>>
    [] OTHER -> << >>

TransportStream(s, t) ==
  [key      |-> <<Word16(s, t + 2), Word16(s, t)>>,
   services |-> Tagged(s, t + 4, Tag.service_list, LAMBDA d : ServiceList(s, d)),
   lcns     |-> Tagged(s, t + 4, Tag.freeview_lcn, LAMBDA d : FreeviewLcns(s, d)),
   delivery |-> EachOf(Descriptors(s, t + 4), LAMBDA d : DeliverySystem(s, d))]

\* get_transport_stream_loop, behind the network's descriptors.
Streams(s) ==
  LET o == 10 + Word12(s, 8)
  IN Walk(o + 2, o + 2 + Word12(s, o), [t \in Nat |-> 6 + Word12(s, t + 4)])

\* What every section begins with.
Header(s) ==
  [id |-> Word16(s, 3), version |-> Bits(Word8(s, 5), 1, 5), current |-> Bits(Word8(s, 5), 0, 1),
   number |-> Word8(s, 6), last |-> Word8(s, 7)]

ReadNit(s) ==
  [table   |-> Word8(s, 0),
   header  |-> Header(s),
   names   |-> NamesOf(s, 8, Tag.network_name),
   streams |-> Each(Streams(s), LAMBDA t : TransportStream(s, t))]
-----------------------------------------------------------------------------
(* Freesat's BAT: regions and channel numbers.                             *)

Regions(s, d) ==
  Each(Walk(d + 2, d + 2 + Word8(s, d + 1), [r \in Nat |-> Word8(s, r + 5) + 6]),
       LAMBDA r : [code |-> Word16(s, r), name |-> Text(s, r + 6, Word8(s, r + 5))])

FreesatPairs(s, c) ==
  Each(Walk(c + 5, c + 5 + Word8(s, c + 4), [p \in Nat |-> 4]),
       LAMBDA p : [lcn |-> Word12(s, p), region |-> Word16(s, p + 2)])

FreesatLcns(s, d) ==
  Each(Walk(d + 2, d + 2 + Word8(s, d + 1), [c \in Nat |-> Word8(s, c + 4) + 5]),
       LAMBDA c : [service |-> Word16(s, c), freesat |-> Word16(s, c + 2),
                   pairs |-> FreesatPairs(s, c)])

BatDescriptors(s, tag, Read(_)) ==
  Tagged(s, 8, tag, Read) \o EachOf(Streams(s), LAMBDA t : Tagged(s, t + 4, tag, Read))

ReadBat(s) ==
  [table   |-> Word8(s, 0),
   header  |-> Header(s),
   names   |-> NamesOf(s, 8, Tag.bouquet_name),
   regions |-> BatDescriptors(s, Tag.freesat_region, LAMBDA d : Regions(s, d)),
   lcns    |-> BatDescriptors(s, Tag.freesat_lcn, LAMBDA d : FreesatLcns(s, d))]
-----------------------------------------------------------------------------
(* The SDT: services with their names.                                     *)

\* Up to the CRC: section_length + 3 - 4.
SdtServices(s) ==
  Walk(11, Word12(s, 1) + 3 - 4, [v \in Nat |-> 5 + Word12(s, v + 3)])

ServiceNames(s, d) ==
  LET provider == Word8(s, d + 3)
  IN [type     |-> Word8(s, d + 2),
      provider |-> Text(s, d + 4, provider),
      name     |-> Text(s, d + 5 + provider, Word8(s, d + 4 + provider))]

ReadSdt(s) ==
  [table    |-> Word8(s, 0),
   header   |-> Header(s),
   onw      |-> Word16(s, 8),
   services |-> Each(SdtServices(s), LAMBDA v :
                  [id |-> Word16(s, v),
                   names |-> Tagged(s, v + 3, Tag.service, LAMBDA d : <<ServiceNames(s, d)>>)])]

Table == [nit |-> 64, other_nit |-> 65, sdt |-> 66, other_sdt |-> 70, bat |-> 74]

ReadSection(s) ==
  IF Word8(s, 0) \in {Table.nit, Table.other_nit} THEN ReadNit(s)
  ELSE IF Word8(s, 0) = Table.bat THEN ReadBat(s) ELSE ReadSdt(s)
-----------------------------------------------------------------------------
(* The broadcaster.                                                        *)

Put8(v) == <<v % 256>>
Put16(v) == <<(v \div 256) % 256, v % 256>>
Put24(v) == <<(v \div 65536) % 256>> \o Put16(v)
Put32(v) == <<(v \div 16777216) % 256>> \o Put24(v)
PutBcd8(v) == <<((v \div 10) % 10) * 16 + (v % 10)>>
PutBcd32(v) == PutBcd8(v \div 1000000) \o PutBcd8(v \div 10000) \o PutBcd8(v \div 100) \o PutBcd8(v)

\* A loop with its 12 bit length, below four reserved bits; one with 8 bits.
Loop12(bytes) == Put16(61440 + Len(bytes)) \o bytes
Loop8(bytes) == Put8(Len(bytes)) \o bytes

Descriptor(tag, bytes) == Put8(tag) \o Loop8(bytes)
DescriptorLoop(descriptors) == Loop12(FlattenSeq(descriptors))
IfAny(seq, descriptor) == IF seq = << >> THEN << >> ELSE <<descriptor>>

\* A descriptor the program knows nothing of.
Private == Descriptor(95, Put32(9018))

PutDelivery(d) ==
  IF d.system = "T"
  THEN Descriptor(Tag.terrestrial,
         Put32(d.frequency) \o Put8(d.bandwidth * 32 + 31)
         \o Put8(d.constellation * 64 + d.hierarchy * 8 + d.hp)
         \o Put8(d.lp * 32 + d.guard * 8 + d.mode * 2) \o Put32(4294967 * 256))
  ELSE Descriptor(Tag.satellite,
         PutBcd32(d.frequency) \o Put16(642)
         \o Put8(128 + d.polarization * 32 + d.rolloff * 8 + d.s2 * 4 + d.modulation)
         \o PutBcd8(d.symbolRate \div 100000) \o PutBcd8(d.symbolRate \div 1000)
         \o PutBcd8(d.symbolRate \div 10) \o Put8((d.symbolRate % 10) * 16 + d.fec))

PutListed(v) == Put16(v) \o Put8(1)
PutLcn(l) == Put16(l.service) \o Put16(64512 + l.lcn)

StreamDescriptors(t) ==
  IfAny(t.services, Descriptor(Tag.service_list, EachOf(t.services, PutListed)))
  \o <<Private>> \o Each(t.delivery, PutDelivery)
  \o IfAny(t.lcns, Descriptor(Tag.freeview_lcn, EachOf(t.lcns, PutLcn)))

PutStream(t) ==
  Put16(t.key[2]) \o Put16(t.key[1]) \o DescriptorLoop(StreamDescriptors(t))

PutNames(tag, names) == Each(names, LAMBDA name : Descriptor(tag, name))

\* The header, what follows it, and a CRC.
SectionBytes(n, body) ==
  Put16(n.header.id) \o Put8(192 + n.header.version * 2 + n.header.current)
  \o Put8(n.header.number) \o Put8(n.header.last) \o body \o Put32(305419896)

NetworkDescriptors(n) == PutNames(Tag.network_name, n.names) \o <<Private>>
PutNit(n) == DescriptorLoop(NetworkDescriptors(n)) \o Loop12(EachOf(n.streams, PutStream))

PutRegion(r) == Put16(r.code) \o Put24(6647399) \o Loop8(r.name)
PutPair(p) == Put16(61440 + p.lcn) \o Put16(p.region)
PutFreesatLcn(c) == Put16(c.service) \o Put16(c.freesat) \o Loop8(EachOf(c.pairs, PutPair))

\* The channel numbers are with a transport stream, the regions with the bouquet.
BouquetDescriptors(n) ==
  PutNames(Tag.bouquet_name, n.names)
  \o <<Descriptor(Tag.freesat_region, EachOf(n.regions, PutRegion))>>
BouquetStream(n) ==
  Put16(1) \o Put16(2)
  \o DescriptorLoop(<<Descriptor(Tag.freesat_lcn, EachOf(n.lcns, PutFreesatLcn))>>)
PutBat(n) == DescriptorLoop(BouquetDescriptors(n)) \o Loop12(BouquetStream(n))

PutServiceNames(x) == Put8(x.type) \o Loop8(x.provider) \o Loop8(x.name)
ServiceDescriptors(v) ==
  <<Private>> \o Each(v.names, LAMBDA x : Descriptor(Tag.service, PutServiceNames(x)))
PutService(v) == Put16(v.id) \o Put8(252) \o DescriptorLoop(ServiceDescriptors(v))
PutSdt(n) == Put16(n.onw) \o Put8(255) \o EachOf(n.services, PutService)

WriteSection(n) ==
  Put8(n.table)
  \o Loop12(SectionBytes(n,
       IF n.table \in {Table.nit, Table.other_nit} THEN PutNit(n)
       ELSE IF n.table = Table.bat THEN PutBat(n) ELSE PutSdt(n)))
-----------------------------------------------------------------------------
(* What may be broadcast: numbers that fit their fields, and loops whose   *)
(* bytes their lengths can count.                                          *)

Below(n) == {v \in Nat : v < n}
Byte == Below(256)
Word == Below(65536)

Fits8(bytes) == Len(bytes) < 256
Fits12(bytes) == Len(bytes) < 4096
Name == {b \in Seq(Byte) : Fits8(b)}

TerrestrialSystem ==
  [system : {"T"}, frequency : {v \in Nat : v \div 65536 < 65536}, bandwidth : Below(8),
   constellation : Below(4), hierarchy : Below(4), hp : Below(8), lp : Below(8), guard : Below(4),
   mode : Below(4)]

\* In decimal digits: eight of a frequency, seven of a symbol rate; and so no code for
\* the FEC that is not one.
SatelliteSystem ==
  [system : {"S"}, frequency : Below(100000000), polarization : Below(4), rolloff : Below(4),
   s2 : Below(2), modulation : Below(4), symbolRate : Below(10000000), fec : Below(10)]

Lcn == [service : Word, lcn : Below(1024)]

Stream ==
  {t \in [key : Word \X Word, services : Seq(Word), lcns : Seq(Lcn),
          delivery : Seq(TerrestrialSystem \cup SatelliteSystem)] :
     /\ Fits8(EachOf(t.services, PutListed)) /\ Fits8(EachOf(t.lcns, PutLcn))
     /\ Fits12(FlattenSeq(StreamDescriptors(t)))}

HeaderField ==
  [id : Word, version : Below(32), current : Below(2), number : Byte, last : Byte]

Nit ==
  {n \in [table : {Table.nit, Table.other_nit}, header : HeaderField, names : Seq(Name),
          streams : Seq(Stream)] :
     /\ Fits12(FlattenSeq(NetworkDescriptors(n))) /\ Fits12(EachOf(n.streams, PutStream))
     /\ Fits12(SectionBytes(n, PutNit(n)))}

Region == [code : Word, name : Name]
Pair == [lcn : Below(4096), region : Word]

FreesatLcn ==
  {c \in [service : Word, freesat : Word, pairs : Seq(Pair)] :
     Fits8(EachOf(c.pairs, PutPair))}

Bat ==
  {n \in [table : {Table.bat}, header : HeaderField, names : Seq(Name), regions : Seq(Region),
          lcns : Seq(FreesatLcn)] :
     /\ Fits8(EachOf(n.regions, PutRegion)) /\ Fits8(EachOf(n.lcns, PutFreesatLcn))
     /\ Fits12(FlattenSeq(BouquetDescriptors(n))) /\ Fits12(SectionBytes(n, PutBat(n)))}

NamesOfService ==
  {x \in [type : Byte, provider : Name, name : Name] : Fits8(PutServiceNames(x))}

Service ==
  {v \in [id : Word, names : Seq(NamesOfService)] : Fits12(FlattenSeq(ServiceDescriptors(v)))}

Sdt ==
  {n \in [table : {Table.sdt, Table.other_sdt}, header : HeaderField, onw : Word,
          services : Seq(Service)] : Fits12(SectionBytes(n, PutSdt(n)))}
=============================================================================
