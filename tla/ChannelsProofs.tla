--------------------------- MODULE ChannelsProofs ---------------------------
(***************************************************************************)
(* Proofs about module Channels: what the tables hold is of its type, and  *)
(* no channel number leads to a service that is not there.                 *)
(***************************************************************************)
EXTENDS Channels, TLAPS

(* The maps.                                                               *)

\* A map overlaid with another of its type is of that type.
LEMMA OverlayType ==
  ASSUME NEW D, NEW T, NEW f, NEW g, IsMap(f, D, T), IsMap(g, D, T)
  PROVE  IsMap(Overlay(f, g), D, T)
BY DEF IsMap, Overlay

\* So is one with an entry put into it.
LEMMA PutType ==
  ASSUME NEW D, NEW T, NEW f, NEW k \in D, NEW v \in T, IsMap(f, D, T)
  PROVE  IsMap(Put(f, k, v), D, T)
BY DEF IsMap, Put

LEMMA EntryTypes ==
  ASSUME HarvestOK
  PROVE  /\ \A k : StreamData(k) \in StreamType
         /\ \A p : ServiceData(p) \in ServiceType
         /\ \A k, t : t \in SUBSET Property => FirstTuning(k, t) \in SUBSET Property
<1>1. NewStream \in StreamType /\ NewService \in ServiceType
  BY DEF NewStream, NewService, StreamType, ServiceType, Zero
<1>2. \A k : StreamData(k) \in StreamType
  BY <1>1 DEF StreamData, HarvestOK, IsMap
<1>3. \A p : ServiceData(p) \in ServiceType
  BY <1>1 DEF ServiceData, HarvestOK, IsMap
<1>4. QED
  BY <1>2, <1>3 DEF FirstTuning, StreamType

\* A NIT section's stream, found by its key.
LEMMA ByKeyType ==
  ASSUME NEW n \in Nit, NEW k \in Keys(n.streams)
  PROVE  ByKey(n.streams, k) \in n.streams /\ ByKey(n.streams, k).key = k
BY DEF Keys, ByKey

LEMMA NitFields ==
  ASSUME NEW n \in Nit
  PROVE  /\ n.network \in Network /\ n.name \in Name \cup {NoText}
         /\ n.streams \in SUBSET NitStream
         /\ n.lcns \in SUBSET [service : Service, lcn : Lcn]
         /\ \A s \in n.streams : /\ s.key \in Stream /\ s.services \in SUBSET Service
                                 /\ s.tuning \in SUBSET Property
BY ChannelConstants DEF ChannelConstants, NitSection, NitStream

LEMMA NitStreamsType ==
  ASSUME HarvestOK, NEW n \in Nit, NEW reads \in BOOLEAN
  PROVE  IsMap(NitStreams(n, reads), Stream, StreamType)
<1> DEFINE entry(k) ==
       LET s == ByKey(n.streams, k)
           listed == IF reads THEN s.services ELSE {}
       IN [network  |-> IF listed # {} \/ s.tuning # {} THEN n.network
                        ELSE StreamData(k).network,
           services |-> StreamData(k).services \cup listed,
           tuning   |-> FirstTuning(k, s.tuning)]
<1> DEFINE g == [k \in Keys(n.streams) |-> entry(k)]
<1>1. ASSUME NEW k \in Keys(n.streams)
      PROVE  entry(k) \in StreamType
  <2>1. ByKey(n.streams, k) \in n.streams
    BY ByKeyType
  <2>2. /\ ByKey(n.streams, k).services \in SUBSET Service
        /\ ByKey(n.streams, k).tuning \in SUBSET Property
    BY <2>1, NitFields
  <2>3. StreamData(k) \in StreamType /\ FirstTuning(k, ByKey(n.streams, k).tuning) \in SUBSET Property
    BY <2>2, EntryTypes
  <2>4. n.network \in Zero(Network)
    BY NitFields DEF Zero
  <2>5. QED
    BY <2>2, <2>3, <2>4 DEF StreamType
<1>2. DOMAIN g \subseteq Stream
  BY NitFields DEF Keys
<1>3. IsMap(g, Stream, StreamType)
  BY <1>1, <1>2 DEF IsMap
<1>4. NitStreams(n, reads) = Overlay(streams, g)
  BY DEF NitStreams
<1> HIDE DEF g
<1>5. QED
  BY <1>3, <1>4, OverlayType DEF HarvestOK

LEMMA ListedServicesType ==
  ASSUME HarvestOK, NEW n \in Nit
  PROVE  IsMap(ListedServices(n), Pid, ServiceType)
<1> DEFINE lists(s, p) == s.key[1] = p[1] /\ p[2] \in s.services
<1> DEFINE D == {q \in Pid : \E s \in n.streams : lists(s, q)}
<1> DEFINE at(p) == CHOOSE s \in n.streams : lists(s, p)
<1> DEFINE g == [p \in D |-> [ServiceData(p) EXCEPT !.ts = at(p).key[2]]]
<1>1. ASSUME NEW p \in D
      PROVE  [ServiceData(p) EXCEPT !.ts = at(p).key[2]] \in ServiceType
  <2>1. at(p) \in n.streams
    OBVIOUS
  <2>2. at(p).key \in Stream
    BY <2>1, NitFields
  <2>3. at(p).key[2] \in Zero(TS)
    BY <2>2 DEF Stream, Zero
  <2>4. ServiceData(p) \in ServiceType
    BY EntryTypes
  <2> HIDE DEF at
  <2>5. QED
    BY <2>3, <2>4 DEF ServiceType
<1>2. IsMap(g, Pid, ServiceType)
  BY <1>1 DEF IsMap
<1>3. ListedServices(n) = Overlay(services, g)
  BY DEF ListedServices
<1> HIDE DEF g
<1>4. QED
  BY <1>2, <1>3, OverlayType DEF HarvestOK

LEMMA NitLcnsType ==
  ASSUME HarvestOK, NEW n \in Nit
  PROVE  IsMap(NitLcns(n), LcnKey, Lcn)
<1> DEFINE D == {<<0, 0, n.network, l.service>> : l \in n.lcns}
<1> DEFINE g == [k \in D |-> (CHOOSE l \in n.lcns : l.service = k[4]).lcn]
<1>1. D \subseteq LcnKey
  BY NitFields, ChannelConstants DEF ChannelConstants, LcnKey
<1>2. ASSUME NEW k \in D
      PROVE  (CHOOSE l \in n.lcns : l.service = k[4]).lcn \in Lcn
  <2>1. \E l \in n.lcns : l.service = k[4]
    OBVIOUS
  <2>2. (CHOOSE l \in n.lcns : l.service = k[4]) \in n.lcns
    BY <2>1
  <2>3. QED
    BY <2>2, NitFields
<1>3. IsMap(g, LcnKey, Lcn)
  <2> HIDE DEF D
  <2>1. QED
    BY <1>1, <1>2 DEF IsMap
<1>4. NitLcns(n) = Overlay(lcns, g)
  BY DEF NitLcns
<1> HIDE DEF g
<1>5. QED
  BY <1>3, <1>4, OverlayType DEF HarvestOK

LEMMA BatFields ==
  ASSUME NEW b \in Bat
  PROVE  /\ b.bouquet \in Network /\ b.name \in Name \cup {NoText}
         /\ b.streams \in SUBSET Stream
         /\ b.regions \in SUBSET [code : RegionCode, name : Name]
         /\ b.lcns \in SUBSET [service : Service, region : RegionCode, freesat : FreesatId, lcn : Lcn]
BY ChannelConstants DEF ChannelConstants, BatSection

LEMMA BatLcnsType ==
  ASSUME HarvestOK, NEW b \in Bat
  PROVE  IsMap(BatLcns(b), LcnKey, Lcn)
<1> DEFINE key(l) == <<l.freesat, l.region, b.bouquet, l.service>>
<1> DEFINE D == {key(l) : l \in b.lcns}
<1> DEFINE g == [k \in D |-> (CHOOSE l \in b.lcns : key(l) = k).lcn]
<1>1. D \subseteq LcnKey
  BY BatFields DEF LcnKey
<1>2. ASSUME NEW k \in D
      PROVE  (CHOOSE l \in b.lcns : key(l) = k).lcn \in Lcn
  <2>1. \E l \in b.lcns : key(l) = k
    OBVIOUS
  <2>2. (CHOOSE l \in b.lcns : key(l) = k) \in b.lcns
    BY <2>1
  <2>3. QED
    BY <2>2, BatFields
<1>3. IsMap(g, LcnKey, Lcn)
  <2> HIDE DEF D
  <2>1. QED
    BY <1>1, <1>2 DEF IsMap
<1>4. BatLcns(b) = Overlay(lcns, g)
  BY DEF BatLcns
<1> HIDE DEF g
<1>5. QED
  BY <1>3, <1>4, OverlayType DEF HarvestOK

LEMMA BatRegionsType ==
  ASSUME HarvestOK, NEW b \in Bat,
         regions' = Overlay([k \in {<<b.bouquet, r.code>> : r \in b.regions} |->
                               (CHOOSE r \in b.regions : r.code = k[2]).name], regions)
  PROVE  IsMap(regions', Network \X RegionCode, Name)
<1> DEFINE D == {<<b.bouquet, r.code>> : r \in b.regions}
<1> DEFINE g == [k \in D |-> (CHOOSE r \in b.regions : r.code = k[2]).name]
<1>1. D \subseteq Network \X RegionCode
  BY BatFields
<1>2. ASSUME NEW k \in D
      PROVE  (CHOOSE r \in b.regions : r.code = k[2]).name \in Name
  <2>1. \E r \in b.regions : r.code = k[2]
    OBVIOUS
  <2>2. (CHOOSE r \in b.regions : r.code = k[2]) \in b.regions
    BY <2>1
  <2>3. QED
    BY <2>2, BatFields
<1>3. IsMap(g, Network \X RegionCode, Name)
  <2> HIDE DEF D
  <2>1. QED
    BY <1>1, <1>2 DEF IsMap
<1>4. regions' = Overlay(g, regions)
  OBVIOUS
<1> HIDE DEF g
<1>5. QED
  BY <1>3, <1>4, OverlayType DEF HarvestOK

LEMMA SdtFields ==
  ASSUME NEW d \in Sdt
  PROVE  /\ d.key \in Stream /\ d.tuning \in SUBSET Property
         /\ d.services \in SUBSET [service : Service, name : Text \cup {NoText},
                                   provider : Text \cup {NoText}]
BY ChannelConstants DEF ChannelConstants, SdtSection

LEMMA SdtServicesType ==
  ASSUME HarvestOK, NEW d \in Sdt, HearSdt(d)
  PROVE  IsMap(services', Pid, ServiceType)
<1> DEFINE D == {<<d.key[1], s.service>> : s \in d.services}
<1> DEFINE at(p) == CHOOSE x \in d.services : x.service = p[2]
<1> DEFINE g == [p \in D |-> [ts |-> d.key[2], name |-> at(p).name, provider |-> at(p).provider]]
<1>1. D \subseteq Pid
  BY SdtFields DEF Stream, Pid
<1>2. ASSUME NEW p \in D
      PROVE  [ts |-> d.key[2], name |-> at(p).name, provider |-> at(p).provider] \in ServiceType
  <2>1. at(p) \in d.services
    OBVIOUS
  <2>2. d.key[2] \in Zero(TS)
    BY SdtFields DEF Stream, Zero
  <2> HIDE DEF at
  <2>3. QED
    BY <2>1, <2>2, SdtFields DEF ServiceType
<1>3. IsMap(g, Pid, ServiceType)
  <2> HIDE DEF D, at
  <2>1. QED
    BY <1>1, <1>2 DEF IsMap
<1>4. services' = Overlay(services, g)
  BY DEF HearSdt
<1> HIDE DEF g
<1>5. QED
  BY <1>3, <1>4, OverlayType DEF HarvestOK

\* Whatever section is heard, the maps keep their types.
LEMMA HeardType ==
  ASSUME HarvestOK,
         \/ \E n \in Nit : HearNit(n) \/ HearFreesatNit(n)
         \/ \E b \in Bat : HearBat(b)
         \/ \E d \in Sdt : HearSdt(d)
  PROVE  HarvestOK'
<1>1. CASE \E n \in Nit : HearNit(n)
  <2>1. PICK n \in Nit : HearNit(n)
    BY <1>1
  <2>2. IsMap(streams', Stream, StreamType)
    BY <2>1, NitStreamsType DEF HearNit
  <2>3. IsMap(services', Pid, ServiceType)
    BY <2>1, ListedServicesType DEF HearNit
  <2>4. IsMap(lcns', LcnKey, Lcn)
    BY <2>1, NitLcnsType DEF HearNit
  <2>5. IsMap(names', Network, Name)
    <3>1. CASE n.name = NoText
      BY <2>1, <3>1 DEF HearNit, HarvestOK
    <3>2. CASE n.name # NoText
      <4>1. n.network \in Network /\ n.name \in Name
        BY <3>2, NitFields
      <4>2. names' = Put(names, n.network, n.name)
        BY <2>1, <3>2 DEF HearNit
      <4>3. QED
        BY <4>1, <4>2, PutType DEF HarvestOK
    <3>3. QED
      BY <3>1, <3>2
  <2>6. QED
    BY <2>1, <2>2, <2>3, <2>4, <2>5 DEF HearNit, HarvestOK
<1>2. CASE \E n \in Nit : HearFreesatNit(n)
  <2>1. PICK n \in Nit : HearFreesatNit(n)
    BY <1>2
  <2>2. IsMap(streams', Stream, StreamType)
    BY <2>1, NitStreamsType DEF HearFreesatNit
  <2>3. QED
    BY <2>1, <2>2 DEF HearFreesatNit, HarvestOK
<1>3. CASE \E b \in Bat : HearBat(b)
  <2>1. PICK b \in Bat : HearBat(b)
    BY <1>3
  <2>2. IsMap(streams', Stream, StreamType)
    <3>1. NewStream \in StreamType
      BY DEF NewStream, StreamType, Zero
    <3>2. IsMap([k \in b.streams |-> NewStream], Stream, StreamType)
      BY <3>1, BatFields DEF IsMap
    <3>3. QED
      BY <2>1, <3>2, OverlayType DEF HearBat, HarvestOK
  <2>3. IsMap(regions', Network \X RegionCode, Name)
    BY <2>1, BatRegionsType DEF HearBat
  <2>4. IsMap(lcns', LcnKey, Lcn)
    BY <2>1, BatLcnsType DEF HearBat
  <2>5. IsMap(names', Network, Name)
    <3>1. CASE b.name # NoText /\ names' = Put(names, b.bouquet, b.name)
      <4>1. b.bouquet \in Network /\ b.name \in Name
        BY <3>1, BatFields
      <4>2. QED
        BY <3>1, <4>1, PutType DEF HarvestOK
    <3>2. CASE UNCHANGED names
      BY <3>2 DEF HarvestOK
    <3>3. QED
      BY <2>1, <3>1, <3>2 DEF HearBat
  <2>6. QED
    BY <2>1, <2>2, <2>3, <2>4, <2>5 DEF HearBat, HarvestOK
<1>4. CASE \E d \in Sdt : HearSdt(d)
  <2>1. PICK d \in Sdt : HearSdt(d)
    BY <1>4
  <2>2. IsMap(services', Pid, ServiceType)
    BY <2>1, SdtServicesType
  <2>3. IsMap(streams', Stream, StreamType)
    <3>1. [StreamData(d.key) EXCEPT !.tuning = FirstTuning(d.key, d.tuning)] \in StreamType
      BY EntryTypes, SdtFields DEF StreamType
    <3>2. IsMap(Put(streams, d.key, [StreamData(d.key) EXCEPT !.tuning = FirstTuning(d.key, d.tuning)]),
                Stream, StreamType)
      BY <3>1, PutType, SdtFields DEF HarvestOK
    <3>3. QED
      BY <2>1, <3>2 DEF HearSdt, HarvestOK
  <2>4. QED
    BY <2>1, <2>2, <2>3 DEF HearSdt, HarvestOK
<1>5. QED
  BY <1>1, <1>2, <1>3, <1>4

(* The statements.                                                         *)

CommitTable == TableName \ {"client_lcns"}

LEMMA StatementTables ==
  /\ Len(Statements) = 9
  /\ \A i \in 1 .. 9 : Statements[i] \in CommitTable
  /\ Statements[3] = "transport_services" /\ Statements[5] = "service_ids"
  /\ \A i \in 1 .. 9 : i # 3 => Statements[i] # "transport_services"
  /\ \A i \in 1 .. 9 : i # 5 => Statements[i] # "service_ids"
BY DEF Statements, CommitTable, TableName

\* The rows a statement is given are of its table's type.
LEMMA RowsType ==
  ASSUME HarvestOK, NEW t \in CommitTable
  PROVE  Rows(t) \subseteq RowType(t)
<1>1. CASE t = "network_info"
  BY <1>1 DEF Rows, RowType, HarvestOK, IsMap
<1>2. CASE t = "tuning"
  <2>1. ASSUME NEW x \in StreamProperties
        PROVE  /\ x[1][1] \in Onw /\ x[1][2] \in TS
               /\ streams[x[1]].network \in Zero(Network)
               /\ x[2][1] \in Nat /\ x[2][2] \in Nat
    <3>1. x[1] \in DOMAIN streams /\ x[2] \in Property
      BY DEF StreamProperties
    <3>2. x[1] \in Stream /\ streams[x[1]] \in StreamType
      BY <3>1 DEF HarvestOK, IsMap
    <3>3. QED
      BY <3>1, <3>2, ChannelConstants DEF ChannelConstants, Stream, StreamType
  <2>2. QED
    BY <1>2, <2>1 DEF Rows, RowType
<1>3. CASE t = "transport_services"
  <2>1. ASSUME NEW x \in StreamServices
        PROVE  /\ x[1][1] \in Onw /\ x[1][2] \in TS /\ x[2] \in Service
               /\ streams[x[1]].network \in Zero(Network)
    <3>1. x[1] \in DOMAIN streams /\ x[2] \in Service
      BY DEF StreamServices
    <3>2. x[1] \in Stream /\ streams[x[1]] \in StreamType
      BY <3>1 DEF HarvestOK, IsMap
    <3>3. QED
      BY <3>1, <3>2 DEF Stream, StreamType
  <2>2. QED
    BY <1>3, <2>1 DEF Rows, RowType
<1>4. CASE t = "provider_names"
  <2>1. ASSUME NEW p \in DOMAIN services, services[p].provider # NoText
        PROVE  services[p].provider \in Text
    BY <2>1 DEF HarvestOK, IsMap, ServiceType
  <2>2. QED
    BY <1>4, <2>1 DEF Rows, RowType
<1>5. CASE t \in {"service_ids", "service_names", "service_provider_id"}
  <2>1. ASSUME NEW p \in DOMAIN services
        PROVE  /\ p[1] \in Onw /\ p[2] \in Service /\ services[p].ts \in Zero(TS)
               /\ services[p].name # NoText => services[p].name \in Text
    BY DEF HarvestOK, IsMap, ServiceType, Pid
  <2>2. CASE t = "service_ids"
    BY <2>1, <2>2 DEF Rows, RowType
  <2>3. CASE t = "service_names"
    BY <2>1, <2>3 DEF Rows, RowType
  <2>4. CASE t = "service_provider_id"
    BY <2>1, <2>4 DEF Rows, RowType
  <2>5. QED
    BY <1>5, <2>2, <2>3, <2>4
<1>6. CASE t = "network_lcns"
  <2>1. ASSUME NEW k \in DOMAIN lcns
        PROVE  /\ k[3] \in Network /\ k[4] \in Service /\ k[2] \in RegionCode
               /\ lcns[k] \in Lcn /\ k[1] \in FreesatId
    BY DEF HarvestOK, IsMap, LcnKey
  <2>2. QED
    BY <1>6, <2>1 DEF Rows, RowType
<1>7. CASE t = "regions"
  <2>1. ASSUME NEW k \in DOMAIN regions
        PROVE  k[1] \in Network /\ k[2] \in RegionCode /\ regions[k] \in Name
    BY DEF HarvestOK, IsMap
  <2>2. QED
    BY <1>7, <2>1 DEF Rows, RowType
<1>8. QED
  BY <1>1, <1>2, <1>3, <1>4, <1>5, <1>6, <1>7 DEF CommitTable, TableName

\* Nothing but the row comes into a table.
LEMMA InsertBound ==
  ASSUME NEW t, NEW rows, NEW row
  PROVE  Insert(t, rows, row) \subseteq rows \cup {row}
BY DEF Insert

\* What EnterRow does to the tables and the rows to enter.
LEMMA EnterRowType ==
  ASSUME TypeOK, NEW t \in TableName, t = Entering, EnterRow(t)
  PROVE  /\ DOMAIN tables' = TableName
         /\ \A u \in TableName : tables'[u] \subseteq RowType(u)
         /\ todo' \subseteq RowType(t)
<1>1. PICK r \in todo : /\ tables' = [tables EXCEPT ![t] = Insert(t, tables[t], r)]
                       /\ todo' = todo \ {r}
  BY DEF EnterRow
<1>2. r \in RowType(t) /\ todo' \subseteq RowType(t)
  BY <1>1 DEF TypeOK
<1>3. Insert(t, tables[t], r) \subseteq RowType(t)
  BY <1>2, InsertBound DEF TypeOK
<1>4. DOMAIN tables' = TableName
  BY <1>1 DEF TypeOK
<1>5. ASSUME NEW u \in TableName
      PROVE  tables'[u] \subseteq RowType(u)
  BY <1>1, <1>3 DEF TypeOK
<1>6. QED
  BY <1>2, <1>4, <1>5

\* A client row that MapLcns may make, with what it was looked up in.
ClientRowOK(c) ==
  /\ c \in RowType("client_lcns")
  /\ Has(IF program = "fvscan" THEN "transport_services" ELSE "service_ids", c)

LEMMA MappingRows ==
  ASSUME TypeOK, NEW l \in Lcn, NEW n, NEW reg \in RegionCode,
         NEW m \in Mapping(l, n, reg), NEW c \in m
  PROVE  ClientRowOK(c)
<1>1. PICK rows \in Candidates(l, n, reg) :
        m \in IF rows = {} THEN {{}} ELSE {{d} : d \in rows}
  BY DEF Mapping
<1>2. rows # {} /\ c \in rows
  BY <1>1
<1>3. tables["transport_services"] \subseteq RowType("transport_services")
  BY DEF TypeOK, TableName
<1>4. tables["service_ids"] \subseteq RowType("service_ids")
  BY DEF TypeOK, TableName
<1>5. tables["network_lcns"] \subseteq RowType("network_lcns")
  BY DEF TypeOK, TableName
<1>6. CASE program = "fvscan"
  <2>1. PICK r \in IdsOfLcn(tables, l) : rows = FreeviewRows(l, r)
    BY <1>1, <1>6 DEF Candidates
  <2>2. r.service_id \in Service
    BY <2>1, <1>5 DEF IdsOfLcn, RowType
  <2>3. PICK o \in OnwOfNetworkService(tables, r.network_id, r.service_id) :
          c = [lcn |-> l, original_network_id |-> o, service_id |-> r.service_id,
               region_code |-> 0, freesat_id |-> 0]
    BY <1>2, <2>1 DEF FreeviewRows
  <2>4. PICK x \in tables["transport_services"] :
          x.original_network_id = o /\ x.service_id = r.service_id
    BY <2>3 DEF OnwOfNetworkService
  <2>5. o \in Onw
    BY <2>4, <1>3 DEF RowType
  <2>6. c \in RowType("client_lcns")
    BY <2>2, <2>3, <2>5, ChannelConstants DEF RowType, ChannelConstants
  <2>7. Has("transport_services", c)
    BY <2>3, <2>4 DEF Has
  <2>8. QED
    BY <1>6, <2>6, <2>7 DEF ClientRowOK
<1>7. CASE program # "fvscan"
  <2>1. PICK r \in BestIds(l, n, reg) : rows = FreesatRows(l, r, reg)
    BY <1>1, <1>7 DEF Candidates
  <2>2. r \in IdsOfLcn(tables, l)
    BY <2>1 DEF BestIds
  <2>3. r.service_id \in Service /\ r.freesat_id \in FreesatId
    BY <2>2, <1>5 DEF IdsOfLcn, RowType
  <2>4. PICK o \in OnwOfService(tables, r.service_id) :
          c = [lcn |-> l, original_network_id |-> o, service_id |-> r.service_id,
               region_code |-> reg, freesat_id |-> r.freesat_id]
    BY <1>2, <2>1 DEF FreesatRows
  <2>5. PICK x \in tables["service_ids"] :
          x.original_network_id = o /\ x.service_id = r.service_id
    BY <2>4 DEF OnwOfService
  <2>6. o \in Onw
    BY <2>5, <1>4 DEF RowType
  <2>7. c \in RowType("client_lcns")
    BY <2>3, <2>4, <2>6 DEF RowType
  <2>8. Has("service_ids", c)
    BY <2>4, <2>5 DEF Has
  <2>9. QED
    BY <1>7, <2>7, <2>8 DEF ClientRowOK
<1>8. QED
  BY <1>6, <1>7

\* So all rows MapLcns makes, and what it leaves in network_id_ and region_code_.
LEMMA MappedRows ==
  ASSUME TypeOK, MapLcns
  PROVE  /\ network' \in Zero(Network) /\ region' \in RegionCode
         /\ \A c \in todo' : ClientRowOK(c)
<1> DEFINE maps(n, reg) ==
      /\ network' = n /\ region' = reg
      /\ LET ls == LcnsOfNetwork(tables, n)
         IN \E f \in [ls -> UNION {Mapping(l, n, reg) : l \in ls}] :
              /\ \A l \in ls : f[l] \in Mapping(l, n, reg)
              /\ todo' = UNION {f[l] : l \in ls}
<1>1. PICK name \in NetworkNames :
        \E n \in NetworkIds(tables, name) : \E reg \in RegionsFor(n) : maps(n, reg)
  BY Zenon DEF MapLcns
<1>1a. PICK n \in NetworkIds(tables, name) : \E reg \in RegionsFor(n) : maps(n, reg)
  BY <1>1
<1>2. PICK reg \in RegionsFor(n) : maps(n, reg)
  BY <1>1a
<1>3. network' \in Zero(Network)
  <2>1. tables["network_info"] \subseteq RowType("network_info")
    BY DEF TypeOK, TableName
  <2>2. QED
    BY <1>2, <2>1 DEF NetworkIds, RowType, Zero
<1>4. reg \in RegionCode
  <2>1. tables["regions"] \subseteq RowType("regions")
    BY DEF TypeOK, TableName
  <2>2. \A name2 : RegionCodes(tables, name2, n) \subseteq RegionCode
    BY <2>1 DEF RegionCodes, RowType
  <2>3. 0 \in RegionCode
    BY ChannelConstants DEF ChannelConstants
  <2>4. QED
    BY <2>2, <2>3 DEF RegionsFor
<1>5. LcnsOfNetwork(tables, n) \subseteq Lcn
  <2>1. tables["network_lcns"] \subseteq RowType("network_lcns")
    BY DEF TypeOK, TableName
  <2>2. QED
    BY <2>1 DEF LcnsOfNetwork, RowType
<1>6. ASSUME NEW c \in todo'
      PROVE  ClientRowOK(c)
  <2>1. PICK l \in LcnsOfNetwork(tables, n) : \E m \in Mapping(l, n, reg) : c \in m
    BY <1>2
  <2>2. QED
    BY <2>1, <1>4, <1>5, MappingRows
<1>7. QED
  BY <1>2, <1>3, <1>4, <1>6

(* Type correctness.                                                       *)

Heard ==
  \/ \E n \in Nit : HearNit(n) \/ HearFreesatNit(n)
  \/ \E b \in Bat : HearBat(b)
  \/ \E d \in Sdt : HearSdt(d)

LEMMA InitType == Init => TypeOK
<1> SUFFICES ASSUME Init PROVE TypeOK
  OBVIOUS
<1>1. HarvestOK
  BY DEF Init, HarvestOK, IsMap
<1>2. RowType(Entering) \in {RowType("client_lcns")} /\ todo \subseteq RowType(Entering)
  BY DEF Init, Entering
<1>3. network \in Zero(Network) /\ region \in RegionCode
  BY ChannelConstants DEF Init, Zero, ChannelConstants
<1>4. DOMAIN tables = TableName /\ \A t \in TableName : tables[t] \subseteq RowType(t)
  BY DEF Init
<1>5. nth \in 1 .. Len(Statements)
  BY StatementTables DEF Init
<1>6. /\ program \in {"fvscan", "fsscan"} /\ pc = "scanning"
      /\ runs \in Nat /\ whole \in BOOLEAN /\ cut \in BOOLEAN
  BY DEF Init
<1>7. QED
  BY <1>1, <1>2, <1>3, <1>4, <1>5, <1>6 DEF TypeOK

LEMMA NextType == TypeOK /\ [Next]_vars => TypeOK'
<1> SUFFICES ASSUME TypeOK, [Next]_vars PROVE TypeOK'
  OBVIOUS
<1>1. CASE Heard
  <2>1. HarvestOK'
    BY <1>1, HeardType DEF Heard, TypeOK
  <2>2. UNCHANGED <<tables, program, pc, job, runs, ghosts>>
    BY <1>1 DEF Heard, HearNit, HearFreesatNit, HearBat, HearSdt
  <2>3. QED
    BY <2>1, <2>2 DEF TypeOK, Entering, job, ghosts
<1>2. CASE Finish
  <2>1. Rows("network_info") \subseteq RowType("network_info")
    BY RowsType DEF TypeOK, CommitTable, TableName
  <2>2. Entering' = "network_info" /\ nth' \in 1 .. Len(Statements)
    BY <1>2, StatementTables DEF Finish, Entering, Statements
  <2>3. HarvestOK'
    BY <1>2 DEF Finish, TypeOK, HarvestOK, harvest
  <2>4. QED
    BY <1>2, <2>1, <2>2, <2>3 DEF Finish, TypeOK
<1>3. CASE FinishBlank
  <2>1. HarvestOK' /\ Entering' = Entering
    BY <1>3 DEF FinishBlank, TypeOK, HarvestOK, harvest, Entering
  <2>2. QED
    BY <1>3, <2>1 DEF FinishBlank, TypeOK, job, ghosts
<1>4. CASE CommitRow
  <2>1. Statements[nth] \in TableName /\ Statements[nth] = Entering
    BY <1>4, StatementTables DEF CommitRow, Entering, TypeOK, CommitTable
  <2>2. HarvestOK' /\ Entering' = Entering
    BY <1>4 DEF CommitRow, TypeOK, HarvestOK, harvest, Entering
  <2>3. /\ DOMAIN tables' = TableName
        /\ \A u \in TableName : tables'[u] \subseteq RowType(u)
        /\ todo' \subseteq RowType(Entering')
    BY <1>4, <2>1, <2>2, EnterRowType DEF CommitRow
  <2>4. QED
    BY <1>4, <2>2, <2>3 DEF CommitRow, TypeOK, ghosts
<1>5. CASE NextStatement
  <2>1. nth + 1 \in 1 .. 9
    BY <1>5, StatementTables DEF NextStatement, TypeOK
  <2>2. Statements[nth + 1] \in CommitTable
    BY <2>1, StatementTables
  <2>3. todo' \subseteq RowType(Statements[nth + 1]) /\ Entering' = Statements[nth + 1]
    BY <1>5, <2>2, RowsType DEF NextStatement, TypeOK, Entering
  <2>4. HarvestOK'
    BY <1>5 DEF NextStatement, TypeOK, HarvestOK, harvest
  <2>5. QED
    BY <1>5, <2>1, <2>3, <2>4, StatementTables DEF NextStatement, TypeOK, ghosts
<1>6. CASE Committed \/ CommitFails \/ Mapped \/ MapFails
  <2>1. HarvestOK' /\ todo' = {}
    BY <1>6 DEF Committed, CommitFails, Mapped, MapFails, TypeOK, HarvestOK, harvest, job
  <2>2. /\ UNCHANGED <<tables, program, nth, network, region, runs>>
        /\ pc' \in {"mapping", "mapped", "done"} /\ whole' \in BOOLEAN /\ cut' \in BOOLEAN
    BY <1>6 DEF Committed, CommitFails, Mapped, MapFails, TypeOK, job, ghosts
  <2>3. QED
    BY <2>1, <2>2 DEF TypeOK
<1>7. CASE MapLcns
  <2>1. Entering' = "client_lcns" /\ HarvestOK'
    BY <1>7 DEF MapLcns, Entering, TypeOK, HarvestOK, harvest
  <2>2. todo' \subseteq RowType("client_lcns") /\ network' \in Zero(Network) /\ region' \in RegionCode
    BY <1>7, MappedRows DEF ClientRowOK
  <2>3. QED
    BY <1>7, <2>1, <2>2 DEF MapLcns, TypeOK, ghosts
<1>8. CASE EnterClientLcn
  <2>1. "client_lcns" \in TableName /\ "client_lcns" = Entering
    BY <1>8 DEF EnterClientLcn, Entering, TableName
  <2>2. HarvestOK' /\ Entering' = Entering
    BY <1>8 DEF EnterClientLcn, TypeOK, HarvestOK, harvest, Entering
  <2>3. /\ DOMAIN tables' = TableName
        /\ \A u \in TableName : tables'[u] \subseteq RowType(u)
        /\ todo' \subseteq RowType(Entering')
    BY <1>8, <2>1, <2>2, EnterRowType DEF EnterClientLcn
  <2>4. QED
    BY <1>8, <2>2, <2>3 DEF EnterClientLcn, TypeOK, ghosts
<1>9. CASE RunAgain
  <2>1. HarvestOK'
    BY <1>9 DEF RunAgain, HarvestOK, IsMap
  <2>2. network' \in Zero(Network) /\ region' \in RegionCode /\ nth' \in 1 .. Len(Statements)
    BY <1>9, ChannelConstants, StatementTables DEF RunAgain, Zero, ChannelConstants
  <2>3. /\ UNCHANGED <<tables, program>> /\ pc' = "scanning" /\ todo' = {}
        /\ runs' = runs + 1 /\ whole' = FALSE
    BY <1>9, Zenon DEF RunAgain
  <2>4. cut' \in BOOLEAN
    BY <1>9, Zenon DEF RunAgain, TypeOK
  <2>5. runs' \in Nat
    BY <2>3 DEF TypeOK
  <2>6. QED
    BY <2>1, <2>2, <2>3, <2>4, <2>5 DEF TypeOK
<1>10. CASE UNCHANGED vars
  BY <1>10 DEF vars, harvest, job, ghosts, TypeOK, HarvestOK, Entering
<1>11. QED
  BY <1>1, <1>2, <1>3, <1>4, <1>5, <1>6, <1>7, <1>8, <1>9, <1>10 DEF Next, Heard

\* The tables hold rows of their columns, and the maps entries of their kind,
\* whatever is heard, fails or is killed.
THEOREM TypeCorrect == Spec => []TypeOK
<1>1. QED
  BY InitType, NextType, PTL DEF Spec
-----------------------------------------------------------------------------
(* No channel number leads nowhere.                                        *)

\* A service that some transport stream of the scan is said to carry is known.
ListedKnown ==
  \A k \in DOMAIN streams : \A s \in streams[k].services : <<k[1], s>> \in DOMAIN services

\* A row of transport_services is one of a service in service_ids, or which the
\* commit at work is still to enter there.
Promised(r) ==
  \/ Has("service_ids", r)
  \/ /\ pc = "committing" /\ nth \in {3, 4}
     /\ <<r.original_network_id, r.service_id>> \in DOMAIN services
  \/ /\ pc = "committing" /\ nth = 5
     /\ \E x \in todo : /\ x.original_network_id = r.original_network_id
                        /\ x.service_id = r.service_id

LookedUp(c) == Has(IF program = "fvscan" THEN "transport_services" ELSE "service_ids", c)

\* The inductive invariant: the rows of client_lcns, and those on their way there,
\* were found in their tables; and before the statement for service_ids has been
\* run, transport_services is ahead of it only by services of the scan.
DanglingInv ==
  /\ ListedKnown
  /\ \A c \in tables["client_lcns"] : LookedUp(c) /\ (~cut => Has("service_ids", c))
  /\ pc = "entering" => \A c \in todo : LookedUp(c) /\ (~cut => Has("service_ids", c))
  /\ ~cut => \A r \in tables["transport_services"] : Promised(r)
  /\ pc = "committing" /\ nth = 3 =>
       \A r \in todo : <<r.original_network_id, r.service_id>> \in DOMAIN services

\* An insertion takes no service out of a table that is keyed by services.
LEMMA InsertKeepsServices ==
  ASSUME NEW t \in {"transport_services", "service_ids"}, NEW rows, NEW row,
         NEW x \in rows \cup {row}
  PROVE  \E y \in Insert(t, rows, row) : /\ y.original_network_id = x.original_network_id
                                         /\ y.service_id = x.service_id
<1>1. TableKey[t] = {"original_network_id", "service_id"} /\ t \notin IgnoredOnConflict
  BY DEF TableKey, IgnoredOnConflict
<1>2. Insert(t, rows, row) = {r \in rows : ~SameKey(t, r, row)} \cup {row}
  BY <1>1 DEF Insert
<1>3. CASE x \in rows /\ ~SameKey(t, x, row)
  BY <1>2, <1>3
<1>4. CASE x = row
  BY <1>2, <1>4
<1>5. CASE SameKey(t, x, row)
  <2>1. x.original_network_id = row.original_network_id /\ x.service_id = row.service_id
    BY <1>1, <1>5 DEF SameKey
  <2>2. QED
    BY <1>2, <2>1
<1>6. QED
  BY <1>3, <1>4, <1>5

\* So a service that is in such a table stays in it.
LEMMA EnterKeepsServices ==
  ASSUME TypeOK, NEW t \in TableName, EnterRow(t),
         NEW u \in {"transport_services", "service_ids"}, NEW r, Has(u, r)
  PROVE  Has(u, r)'
<1>1. PICK row \in todo : tables' = [tables EXCEPT ![t] = Insert(t, tables[t], row)]
  BY DEF EnterRow
<1>2. PICK x \in tables[u] : /\ x.original_network_id = r.original_network_id
                            /\ x.service_id = r.service_id
  BY DEF Has
<1>3. CASE u = t
  <2>1. PICK y \in Insert(t, tables[t], row) : /\ y.original_network_id = x.original_network_id
                                              /\ y.service_id = x.service_id
    BY <1>2, <1>3, InsertKeepsServices
  <2>2. tables'[u] = Insert(t, tables[t], row)
    BY <1>1, <1>3 DEF TypeOK
  <2>3. QED
    BY <1>2, <2>1, <2>2 DEF Has
<1>4. CASE u # t
  <2>1. tables'[u] = tables[u]
    BY <1>1, <1>4 DEF TypeOK
  <2>2. QED
    BY <1>2, <2>1 DEF Has
<1>5. QED
  BY <1>3, <1>4

\* A row of transport_services is of a service that is known.
LEMMA ListedRows ==
  ASSUME HarvestOK, ListedKnown, NEW r \in Rows("transport_services")
  PROVE  <<r.original_network_id, r.service_id>> \in DOMAIN services
<1>1. PICK x \in StreamServices :
        r = [original_network_id |-> x[1][1], network_id |-> streams[x[1]].network,
             transport_stream_id |-> x[1][2], service_id |-> x[2]]
  BY DEF Rows
<1>2. x[1] \in DOMAIN streams /\ x[2] \in streams[x[1]].services
  BY DEF StreamServices
<1>3. QED
  BY <1>1, <1>2 DEF ListedKnown

\* Whatever is heard, the services listed for a stream are known.
LEMMA HeardListed ==
  ASSUME HarvestOK, ListedKnown, Heard
  PROVE  ListedKnown'
<1>1. CASE \E n \in Nit : HearNit(n)
  <2>1. PICK n \in Nit : HearNit(n)
    BY <1>1
  <2>2. DOMAIN services \subseteq DOMAIN services'
    BY <2>1 DEF HearNit, ListedServices, Overlay
  <2> SUFFICES ASSUME NEW k \in DOMAIN streams', NEW s \in streams'[k].services
               PROVE  <<k[1], s>> \in DOMAIN services'
    BY DEF ListedKnown
  <2>3. CASE k \in Keys(n.streams)
    <3>1. ByKey(n.streams, k) \in n.streams /\ ByKey(n.streams, k).key = k
      BY <2>3, ByKeyType
    <3>2. streams'[k].services = StreamData(k).services \cup ByKey(n.streams, k).services
      BY <2>1, <2>3 DEF HearNit, NitStreams, Overlay
    <3>3. CASE s \in StreamData(k).services
      <4>1. k \in DOMAIN streams /\ s \in streams[k].services
        BY <3>3 DEF StreamData, NewStream
      <4>2. QED
        BY <4>1, <2>2 DEF ListedKnown
    <3>4. CASE s \in ByKey(n.streams, k).services
      <4>1. <<k[1], s>> \in Pid
        BY <3>1, <3>4, NitFields DEF Pid, Stream
      <4>2. DOMAIN services' = DOMAIN services \cup
              {q \in Pid : \E x \in n.streams : x.key[1] = q[1] /\ q[2] \in x.services}
        BY <2>1 DEF HearNit, ListedServices, Overlay
      <4>3. QED
        BY <3>1, <3>4, <4>1, <4>2
    <3>5. QED
      BY <3>2, <3>3, <3>4
  <2>4. CASE k \notin Keys(n.streams)
    <3>1. k \in DOMAIN streams /\ streams'[k] = streams[k]
      BY <2>1, <2>4 DEF HearNit, NitStreams, Overlay
    <3>2. QED
      BY <3>1, <2>2 DEF ListedKnown
  <2>5. QED
    BY <2>3, <2>4
<1>2. CASE \E n \in Nit : HearFreesatNit(n)
  <2>1. PICK n \in Nit : HearFreesatNit(n)
    BY <1>2
  <2> SUFFICES ASSUME NEW k \in DOMAIN streams', NEW s \in streams'[k].services
               PROVE  <<k[1], s>> \in DOMAIN services'
    BY DEF ListedKnown
  <2>2. \/ streams'[k].services = StreamData(k).services
        \/ k \in DOMAIN streams /\ streams'[k] = streams[k]
    BY <2>1 DEF HearFreesatNit, NitStreams, Overlay
  <2>3. k \in DOMAIN streams /\ s \in streams[k].services
    BY <2>2 DEF StreamData, NewStream
  <2>4. QED
    BY <2>1, <2>3 DEF HearFreesatNit, ListedKnown
<1>3. CASE \E b \in Bat : HearBat(b)
  <2>1. PICK b \in Bat : HearBat(b)
    BY <1>3
  <2> SUFFICES ASSUME NEW k \in DOMAIN streams', NEW s \in streams'[k].services
               PROVE  <<k[1], s>> \in DOMAIN services'
    BY DEF ListedKnown
  <2>2. k \in DOMAIN streams /\ s \in streams[k].services
    BY <2>1 DEF HearBat, Overlay, NewStream
  <2>3. QED
    BY <2>1, <2>2 DEF HearBat, ListedKnown
<1>4. CASE \E d \in Sdt : HearSdt(d)
  <2>1. PICK d \in Sdt : HearSdt(d)
    BY <1>4
  <2> SUFFICES ASSUME NEW k \in DOMAIN streams', NEW s \in streams'[k].services
               PROVE  <<k[1], s>> \in DOMAIN services'
    BY DEF ListedKnown
  <2>2. StreamData(d.key) \in StreamType
    BY EntryTypes
  <2>3. \/ k \in DOMAIN streams /\ streams'[k] = streams[k]
        \/ streams'[k].services = StreamData(k).services
    BY <2>1, <2>2 DEF HearSdt, Put, StreamType
  <2>4. k \in DOMAIN streams /\ s \in streams[k].services
    BY <2>3 DEF StreamData, NewStream
  <2>5. DOMAIN services \subseteq DOMAIN services'
    BY <2>1 DEF HearSdt, Overlay
  <2>6. QED
    BY <2>4, <2>5 DEF ListedKnown
<1>5. QED
  BY <1>1, <1>2, <1>3, <1>4 DEF Heard

LEMMA InitDangling == Init => DanglingInv
<1> SUFFICES ASSUME Init PROVE DanglingInv
  OBVIOUS
<1>1. tables["client_lcns"] = {} /\ tables["transport_services"] = {}
  BY DEF Init, TableName
<1>2. ListedKnown
  BY DEF Init, ListedKnown
<1>3. pc = "scanning"
  BY DEF Init
<1>4. QED
  BY <1>1, <1>2, <1>3 DEF DanglingInv

\* A step that leaves the tables as they are, and does not restart the commit.
LEMMA KeepsTables ==
  ASSUME UNCHANGED <<tables, program>>
  PROVE  \A t, r : (Has(t, r) <=> Has(t, r)') /\ (LookedUp(r) <=> LookedUp(r)')
BY DEF Has, LookedUp

LEMMA NextDangling == TypeOK /\ DanglingInv /\ [Next]_vars => DanglingInv'
<1> SUFFICES ASSUME TypeOK, DanglingInv, [Next]_vars PROVE DanglingInv'
  OBVIOUS
<1>1. CASE Heard
  <2>1. ListedKnown'
    BY <1>1, HeardListed DEF DanglingInv, TypeOK
  <2>2. UNCHANGED <<tables, program, pc, nth, todo, cut>> /\ pc = "scanning"
    BY <1>1 DEF Heard, HearNit, HearFreesatNit, HearBat, HearSdt, job, ghosts
  <2>3. \A r : Promised(r) => Promised(r)'
    BY <2>2, KeepsTables DEF Promised
  <2>4. QED
    BY <2>1, <2>2, <2>3, KeepsTables DEF DanglingInv
<1>2. CASE Finish
  <2>1. UNCHANGED <<tables, program, cut, streams, services>> /\ pc = "scanning"
        /\ pc' = "committing" /\ nth' = 1
    BY <1>2 DEF Finish, harvest
  <2>2. \A r : Promised(r) => Promised(r)'
    BY <2>1, KeepsTables DEF Promised
  <2>3. ListedKnown'
    BY <2>1 DEF DanglingInv, ListedKnown
  <2>4. QED
    BY <2>1, <2>2, <2>3, KeepsTables DEF DanglingInv
<1>3. CASE FinishBlank
  <2>1. UNCHANGED <<tables, program, cut, streams, services>> /\ pc = "scanning" /\ pc' = "done"
    BY <1>3 DEF FinishBlank, harvest, ghosts
  <2>2. \A r : Promised(r) => Promised(r)'
    BY <2>1, KeepsTables DEF Promised
  <2>3. ListedKnown'
    BY <2>1 DEF DanglingInv, ListedKnown
  <2>4. QED
    BY <2>1, <2>2, <2>3, KeepsTables DEF DanglingInv
<1>4. CASE CommitRow
  <2> DEFINE t == Statements[nth]
  <2>1. nth \in 1 .. 9 /\ t \in CommitTable
    BY StatementTables DEF TypeOK
  <2>2. t \in TableName /\ t # "client_lcns" /\ EnterRow(t)
    BY <1>4, <2>1 DEF CommitRow, CommitTable
  <2>3. UNCHANGED <<streams, services, program, pc, nth, cut>> /\ pc = "committing"
    BY <1>4 DEF CommitRow, harvest, ghosts
  <2>4. PICK row \in todo : /\ tables' = [tables EXCEPT ![t] = Insert(t, tables[t], row)]
                           /\ todo' = todo \ {row}
    BY <2>2 DEF EnterRow
  <2>5. ListedKnown'
    BY <2>3 DEF DanglingInv, ListedKnown
  <2>6. \A r : \A u \in {"transport_services", "service_ids"} : Has(u, r) => Has(u, r)'
    BY <2>2, EnterKeepsServices
  <2>7. tables'["client_lcns"] = tables["client_lcns"]
    BY <2>2, <2>4 DEF TypeOK, TableName
  <2>8. ASSUME NEW c \in tables'["client_lcns"]
        PROVE  LookedUp(c)' /\ (~cut' => Has("service_ids", c)')
    BY <2>3, <2>6, <2>7 DEF DanglingInv, LookedUp
  <2>9. ASSUME NEW r, Promised(r)
        PROVE  Promised(r)'
    <3>1. CASE Has("service_ids", r)
      BY <2>6, <3>1 DEF Promised
    <3>2. CASE nth \in {3, 4} /\ <<r.original_network_id, r.service_id>> \in DOMAIN services
      BY <2>3, <3>2 DEF Promised
    <3>3. CASE nth = 5 /\ \E x \in todo : /\ x.original_network_id = r.original_network_id
                                         /\ x.service_id = r.service_id
      <4>1. PICK x \in todo : /\ x.original_network_id = r.original_network_id
                             /\ x.service_id = r.service_id
        BY <3>3
      <4>2. CASE x # row
        BY <2>3, <2>4, <3>3, <4>1, <4>2 DEF Promised
      <4>3. CASE x = row
        <5>1. t = "service_ids"
          BY <3>3, StatementTables
        <5>2. tables'["service_ids"] = Insert("service_ids", tables["service_ids"], row)
          BY <2>2, <2>4, <5>1 DEF TypeOK
        <5>3. \E y \in Insert("service_ids", tables["service_ids"], row) :
                /\ y.original_network_id = row.original_network_id
                /\ y.service_id = row.service_id
          <6> HIDE DEF t
          <6>1. row \in tables["service_ids"] \cup {row}
            OBVIOUS
          <6>2. "service_ids" \in {"transport_services", "service_ids"}
            OBVIOUS
          <6>3. QED
            BY <6>1, <6>2, InsertKeepsServices, Zenon
        <5>4. PICK y \in tables'["service_ids"] :
                /\ y.original_network_id = row.original_network_id
                /\ y.service_id = row.service_id
          BY <5>2, <5>3
        <5>5. y.original_network_id = r.original_network_id /\ y.service_id = r.service_id
          BY <4>1, <4>3, <5>4
        <5>6. Has("service_ids", r)'
          BY <5>4, <5>5 DEF Has
        <5>7. QED
          BY <5>6 DEF Promised
      <4>4. QED
        BY <4>2, <4>3
    <3>4. QED
      BY <2>9, <3>1, <3>2, <3>3 DEF Promised
  <2>10. ASSUME ~cut, NEW r \in tables'["transport_services"]
         PROVE  Promised(r)'
    <3>1. CASE nth = 3
      <4>1. t = "transport_services"
        BY <3>1, StatementTables
      <4>2. tables'["transport_services"] =
              Insert("transport_services", tables["transport_services"], row)
        BY <2>2, <2>4, <4>1 DEF TypeOK
      <4>3. r \in tables["transport_services"] \/ r = row
        BY <4>2, InsertBound
      <4>4. CASE r \in tables["transport_services"]
        BY <2>9, <2>10, <4>4 DEF DanglingInv
      <4>5. CASE r = row
        <5>1. <<r.original_network_id, r.service_id>> \in DOMAIN services
          BY <2>3, <3>1, <4>5 DEF DanglingInv
        <5>2. QED
          BY <2>3, <3>1, <5>1 DEF Promised
      <4>6. QED
        BY <4>3, <4>4, <4>5
    <3>2. CASE nth # 3
      <4>1. t # "transport_services"
        BY <2>1, <3>2, StatementTables
      <4>2. tables'["transport_services"] = tables["transport_services"]
        BY <2>4, <4>1 DEF TypeOK, TableName
      <4>3. QED
        BY <2>9, <2>10, <4>2 DEF DanglingInv
    <3>3. QED
      BY <3>1, <3>2
  <2>11. pc' = "committing" /\ nth' = 3 =>
           \A r \in todo' : <<r.original_network_id, r.service_id>> \in DOMAIN services'
    BY <2>3, <2>4 DEF DanglingInv
  <2>12. QED
    BY <2>3, <2>5, <2>8, <2>10, <2>11 DEF DanglingInv
<1>5. CASE NextStatement
  <2>1. UNCHANGED <<tables, program, streams, services, pc, cut>> /\ pc = "committing"
        /\ todo = {} /\ nth' = nth + 1 /\ todo' = Rows(Statements[nth + 1])
    BY <1>5 DEF NextStatement, harvest, ghosts
  <2>2. nth \in 1 .. 9
    BY StatementTables DEF TypeOK
  <2>3. ListedKnown'
    BY <2>1 DEF DanglingInv, ListedKnown
  <2>4. ASSUME NEW r, Promised(r)
        PROVE  Promised(r)'
    <3>1. CASE Has("service_ids", r)
      BY <2>1, <3>1, KeepsTables DEF Promised
    <3>2. CASE nth = 3 /\ <<r.original_network_id, r.service_id>> \in DOMAIN services
      BY <2>1, <3>2 DEF Promised
    <3>3. CASE nth = 4 /\ <<r.original_network_id, r.service_id>> \in DOMAIN services
      <4>1. todo' = Rows("service_ids") /\ nth' = 5
        BY <2>1, <3>3, StatementTables
      <4>2. [original_network_id |-> r.original_network_id, service_id |-> r.service_id,
             transport_stream_id |-> services[<<r.original_network_id, r.service_id>>].ts]
              \in Rows("service_ids")
        <5>1. Rows("service_ids") =
                {[original_network_id |-> p[1], service_id |-> p[2],
                  transport_stream_id |-> services[p].ts] : p \in DOMAIN services}
          BY DEF Rows
        <5>2. PICK q \in DOMAIN services : q = <<r.original_network_id, r.service_id>>
          BY <3>3
        <5>3. q[1] = r.original_network_id /\ q[2] = r.service_id
          BY <5>2
        <5>4. [original_network_id |-> q[1], service_id |-> q[2],
               transport_stream_id |-> services[q].ts] \in Rows("service_ids")
          BY <5>1
        <5>5. QED
          BY <5>2, <5>3, <5>4
      <4>3. \E x \in todo' : /\ x.original_network_id = r.original_network_id
                            /\ x.service_id = r.service_id
        BY <4>1, <4>2
      <4>4. QED
        BY <2>1, <4>1, <4>3 DEF Promised
    <3>4. QED
      BY <2>1, <2>4, <3>1, <3>2, <3>3 DEF Promised
  <2>5. nth' = 3 => \A r \in todo' : <<r.original_network_id, r.service_id>> \in DOMAIN services'
    <3>1. nth' = 3 => todo' = Rows("transport_services")
      BY <2>1, <2>2, StatementTables
    <3>2. QED
      BY <2>1, <3>1, ListedRows DEF TypeOK, DanglingInv
  <2>6. QED
    BY <2>1, <2>3, <2>4, <2>5, KeepsTables DEF DanglingInv
<1>6. CASE Committed
  <2>1. UNCHANGED <<tables, program, streams, services, cut>> /\ pc = "committing" /\ nth = 9
        /\ pc' = "mapping"
    BY <1>6, StatementTables DEF Committed, harvest
  <2>2. \A r : Promised(r) => Promised(r)'
    BY <2>1, KeepsTables DEF Promised
  <2>3. ListedKnown'
    BY <2>1 DEF DanglingInv, ListedKnown
  <2>4. QED
    BY <2>1, <2>2, <2>3, KeepsTables DEF DanglingInv
<1>7. CASE CommitFails
  <2>1. UNCHANGED <<tables, program, streams, services>> /\ cut' = TRUE /\ pc' = "mapping"
    BY <1>7 DEF CommitFails, harvest
  <2>2. ListedKnown'
    BY <2>1 DEF DanglingInv, ListedKnown
  <2>3. QED
    BY <2>1, <2>2, KeepsTables DEF DanglingInv
<1>8. CASE MapLcns
  <2>1. UNCHANGED <<tables, program, streams, services, cut>> /\ pc = "mapping" /\ pc' = "entering"
    BY <1>8 DEF MapLcns, harvest, ghosts
  <2>2. \A r : Promised(r) <=> Has("service_ids", r)
    BY <2>1 DEF Promised
  <2>3. \A r : Promised(r) => Promised(r)'
    BY <2>1, <2>2, KeepsTables DEF Promised
  <2>4. ListedKnown'
    BY <2>1 DEF DanglingInv, ListedKnown
  <2>5. ASSUME NEW c \in todo'
        PROVE  LookedUp(c)' /\ (~cut' => Has("service_ids", c)')
    <3>1. LookedUp(c)
      BY <1>8, MappedRows DEF ClientRowOK, LookedUp
    <3>2. CASE program = "fvscan" /\ ~cut
      <4>1. PICK x \in tables["transport_services"] :
              x.original_network_id = c.original_network_id /\ x.service_id = c.service_id
        BY <3>1, <3>2 DEF LookedUp, Has
      <4>2. Has("service_ids", x)
        BY <2>2, <3>2 DEF DanglingInv
      <4>3. Has("service_ids", c)
        BY <4>1, <4>2 DEF Has
      <4>4. QED
        BY <2>1, <3>1, <4>3, KeepsTables
    <3>3. CASE program # "fvscan" \/ cut
      BY <2>1, <3>1, <3>3, KeepsTables DEF LookedUp
    <3>4. QED
      BY <3>2, <3>3
  <2>6. QED
    BY <2>1, <2>3, <2>4, <2>5, KeepsTables DEF DanglingInv
<1>9. CASE EnterClientLcn
  <2>1. UNCHANGED <<program, streams, services, pc, cut>> /\ pc = "entering" /\ EnterRow("client_lcns")
    BY <1>9 DEF EnterClientLcn, harvest, ghosts
  <2>2. PICK row \in todo :
          /\ tables' = [tables EXCEPT !["client_lcns"] = Insert("client_lcns", tables["client_lcns"], row)]
          /\ todo' = todo \ {row}
    BY <2>1 DEF EnterRow
  <2>3. ListedKnown'
    BY <2>1 DEF DanglingInv, ListedKnown
  <2>4. \A r : \A u \in {"transport_services", "service_ids"} : Has(u, r) => Has(u, r)'
    BY <2>1, EnterKeepsServices DEF TableName
  <2>5. ASSUME NEW c, LookedUp(c), ~cut => Has("service_ids", c)
        PROVE  LookedUp(c)' /\ (~cut' => Has("service_ids", c)')
    BY <2>1, <2>4, <2>5 DEF LookedUp
  <2>6. tables'["client_lcns"] \subseteq tables["client_lcns"] \cup todo
    <3>1. tables'["client_lcns"] = Insert("client_lcns", tables["client_lcns"], row)
      BY <2>2 DEF TypeOK, TableName
    <3>2. QED
      BY <3>1, InsertBound
  <2>7. \A c \in tables'["client_lcns"] \cup todo' : LookedUp(c)' /\ (~cut' => Has("service_ids", c)')
    BY <2>1, <2>2, <2>5, <2>6 DEF DanglingInv
  <2>8. tables'["transport_services"] = tables["transport_services"]
    BY <2>2 DEF TypeOK, TableName
  <2>9. \A r : Promised(r) => Promised(r)'
    BY <2>1, <2>4 DEF Promised
  <2>10. QED
    BY <2>1, <2>3, <2>7, <2>8, <2>9 DEF DanglingInv
<1>10. CASE Mapped \/ MapFails
  <2>1. UNCHANGED <<tables, program, streams, services, cut>> /\ pc # "committing"
        /\ pc' \in {"mapped", "done"}
    BY <1>10 DEF Mapped, MapFails, harvest, ghosts
  <2>2. \A r : Promised(r) => Promised(r)'
    BY <2>1, KeepsTables DEF Promised
  <2>3. ListedKnown'
    BY <2>1 DEF DanglingInv, ListedKnown
  <2>4. QED
    BY <2>1, <2>2, <2>3, KeepsTables DEF DanglingInv
<1>11. CASE RunAgain
  <2>1. UNCHANGED <<tables, program>> /\ pc' = "scanning" /\ streams' = << >>
        /\ (~cut' => ~cut /\ pc # "committing")
    BY <1>11 DEF RunAgain
  <2>2. pc # "committing" => \A r : Promised(r) => Promised(r)'
    BY <2>1, KeepsTables DEF Promised
  <2>3. ListedKnown'
    BY <2>1 DEF ListedKnown
  <2>4. QED
    BY <2>1, <2>2, <2>3, KeepsTables DEF DanglingInv
<1>12. CASE UNCHANGED vars
  <2>1. UNCHANGED <<tables, program, streams, services, pc, nth, todo, cut>>
    BY <1>12 DEF vars, harvest, job, ghosts
  <2>2. \A r : Promised(r) => Promised(r)'
    BY <2>1, KeepsTables DEF Promised
  <2>3. ListedKnown'
    BY <2>1 DEF DanglingInv, ListedKnown
  <2>4. QED
    BY <2>1, <2>2, <2>3, KeepsTables DEF DanglingInv
<1>13. QED
  BY <1>1, <1>2, <1>3, <1>4, <1>5, <1>6, <1>7, <1>8, <1>9, <1>10, <1>11, <1>12 DEF Next, Heard

\* No client LCN dangles, for any broadcast, any number of runs, and a commit cut
\* short or a failure at any row.
THEOREM NoneDangling == Spec => []NoDanglingLcn
<1>1. TypeOK /\ DanglingInv => NoDanglingLcn
  BY DEF TypeOK, DanglingInv, NoDanglingLcn, LookedUp
<1>2. Init => TypeOK /\ DanglingInv
  BY InitType, InitDangling
<1>3. TypeOK /\ DanglingInv /\ [Next]_vars => (TypeOK /\ DanglingInv)'
  BY NextType, NextDangling
<1>4. QED
  BY <1>1, <1>2, <1>3, PTL DEF Spec
=============================================================================
