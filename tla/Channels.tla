------------------------------ MODULE Channels ------------------------------
(***************************************************************************)
(* From what a scan heard to the client's channel numbers.                 *)
(*                                                                         *)
(* A program (tests/fvscan.cpp or tests/fsscan.cpp) scans, filling the     *)
(* maps of its MultiScanner; when the scan has found anything it queues    *)
(* two functions on the database thread.  The first,                       *)
(* MultiScanner::commit_to_database, enters the maps into the tables with  *)
(* one statement after the other and in no transaction; the second chooses *)
(* a service for every channel number (LCN) of one network or bouquet.     *)
(* An exception ends a function and not the one after it, and the program  *)
(* may be killed at any point: the tables stay as they are, and the next   *)
(* run of the program goes on from there.                                  *)
(***************************************************************************)
EXTENDS ChannelStore, Sequences, FiniteSets

CONSTANTS
  Network,    \* network and bouquet ids, 0 not among them
  Onw,        \* original network ids
  TS,         \* transport stream ids
  Service,    \* service ids
  Lcn,        \* channel numbers
  RegionCode, \* Freesat's regions, 0 and AnyRegion among them
  AnyRegion,  \* 65535, the universal region
  FreesatId,  \* Freesat's ids of a channel; 0 for Freeview
  Name,       \* names of networks and of regions
  NoText,     \* the empty string
  Property,   \* dtv properties: key and value
  Nit,        \* NIT sections of networks, as both programs may hear them
  Bat,        \* Freesat's BAT sections
  Sdt,        \* SDT sections
  MaxRuns     \* bound on the runs of the program

Stream == Onw \X TS
Pid == Onw \X Service   \* what a service is known by

\* A transport stream in a NIT section: its service list, and the properties in
\* its delivery system descriptor, if it has one.
NitStream == [key : Stream, services : SUBSET Service, tuning : SUBSET Property]

NitSection ==
  [network : Network, name : Name \cup {NoText}, streams : SUBSET NitStream,
   lcns : SUBSET [service : Service, lcn : Lcn]]

BatSection ==
  [bouquet : Network, name : Name \cup {NoText}, streams : SUBSET Stream,
   regions : SUBSET [code : RegionCode, name : Name],
   lcns : SUBSET [service : Service, region : RegionCode, freesat : FreesatId, lcn : Lcn]]

\* tuning is that of the channel in which the section is heard as its own, by
\* the filter for the current transport stream.
SdtSection ==
  [key : Stream, tuning : SUBSET Property,
   services : SUBSET [service : Service, name : Text \cup {NoText},
                      provider : Text \cup {NoText}]]

\* A tuning gives each property once.
OneValueEach(tuning) == \A p, q \in tuning : p[1] = q[1] => p = q

ASSUME ChannelConstants ==
  /\ Network \cup Onw \cup TS \cup Service \cup Lcn \cup RegionCode \cup FreesatId \subseteq Nat
  /\ 0 \notin Network
  /\ {0, AnyRegion} \subseteq RegionCode
  /\ 0 \in FreesatId
  /\ NoText \notin Name \cup Text
  /\ Property \subseteq Nat \X Nat
  /\ Nit \subseteq NitSection /\ Bat \subseteq BatSection /\ Sdt \subseteq SdtSection
  /\ \A n \in Nit : \A s, t \in n.streams : s.key = t.key => s = t
  /\ \A d \in Sdt : \A s, t \in d.services : s.service = t.service => s = t
  /\ \A n \in Nit : \A s \in n.streams : OneValueEach(s.tuning)
  /\ \A d \in Sdt : OneValueEach(d.tuning)
  /\ MaxRuns \in Nat

VARIABLES
  tables,    \* the source's tables in the database file
  names,     \* nw_data_: the name of each network heard of
  streams,   \* ts_data_
  services,  \* service_data_
  lcns,      \* lcn_data_, by freesat id, region, network and service
  regions,   \* regions_ of the Freesat channel scanner, by bouquet and code
  program,   \* which program is run, and with that which source
  pc,        \* where it is
  nth,       \* the statement commit_to_database has come to
  todo,      \* rows of that statement that are not entered yet
  network,   \* network_id_ of the LCN processor
  region,    \* region_code_ of the LCN processor
  runs,      \* how often the program has been run
  before,    \* history: the tables when this run's commit began
  whole,     \* history: this run's commit came to its end
  cut        \* history: some commit did not come to its end

harvest == <<names, streams, services, lcns, regions>>
job     == <<nth, todo, network, region>>
ghosts  == <<before, whole, cut>>
vars    == <<tables, harvest, program, pc, job, runs, ghosts>>
-----------------------------------------------------------------------------
(* Harvest: what the processors enter into the scanner's maps.             *)

\* operator[] of a map, and an assignment to the entry.
Put(f, k, v) == [x \in DOMAIN f \cup {k} |-> IF x = k THEN v ELSE f[x]]

\* A value of f where g has none, the value of g where it has.
Overlay(f, g) == [x \in DOMAIN f \cup DOMAIN g |-> IF x \in DOMAIN g THEN g[x] ELSE f[x]]

NewStream  == [network |-> 0, services |-> {}, tuning |-> {}]
NewService == [ts |-> 0, name |-> NoText, provider |-> NoText]

StreamData(k)  == IF k \in DOMAIN streams THEN streams[k] ELSE NewStream
ServiceData(p) == IF p \in DOMAIN services THEN services[p] ELSE NewService

\* set_tuning(): the first one stays.
FirstTuning(k, t) == IF StreamData(k).tuning = {} THEN t ELSE StreamData(k).tuning

Keys(sec) == {s.key : s \in sec}
ByKey(sec, k) == CHOOSE s \in sec : s.key = k

\* process_ts_data of a NIT section whose service lists are (or are not) read.
NitStreams(n, reads) ==
  Overlay(streams,
    [k \in Keys(n.streams) |->
       LET s == ByKey(n.streams, k)
           listed == IF reads THEN s.services ELSE {}
       IN [network  |-> IF listed # {} \/ s.tuning # {} THEN n.network
                        ELSE StreamData(k).network,
           services |-> StreamData(k).services \cup listed,
           tuning   |-> FirstTuning(k, s.tuning)]])

\* process_service_list_descriptor: each service is known, and on that stream.
ListedServices(n) ==
  LET lists(s, p) == s.key[1] = p[1] /\ p[2] \in s.services
  IN Overlay(services,
       [p \in {q \in Pid : \E s \in n.streams : lists(s, q)} |->
          [ServiceData(p) EXCEPT !.ts = (CHOOSE s \in n.streams : lists(s, p)).key[2]]])

NitLcns(n) ==
  Overlay(lcns,
    [k \in {<<0, 0, n.network, l.service>> : l \in n.lcns} |->
       (CHOOSE l \in n.lcns : l.service = k[4]).lcn])

\* A section of the Freeview NIT.
HearNit(n) ==
  /\ program = "fvscan" /\ pc = "scanning"
  /\ names' = IF n.name = NoText THEN names ELSE Put(names, n.network, n.name)
  /\ streams' = NitStreams(n, TRUE)
  /\ services' = ListedServices(n)
  /\ lcns' = NitLcns(n)
  /\ UNCHANGED <<tables, regions, program, pc, job, runs, ghosts>>

\* FreesatNITProcessor reads delivery systems only.
HearFreesatNit(n) ==
  /\ program = "fsscan" /\ pc = "scanning"
  /\ streams' = NitStreams(n, FALSE)
  /\ UNCHANGED <<tables, names, services, lcns, regions, program, pc, job, runs, ghosts>>

\* Mutant: region code and freesat id in one another's place in the key.
BatLcnsSwapped(b) ==
  Overlay(lcns,
    [k \in {<<l.region, l.freesat, b.bouquet, l.service>> : l \in b.lcns} |->
       (CHOOSE l \in b.lcns : <<l.region, l.freesat, b.bouquet, l.service>> = k).lcn])

BatLcns(b) ==
  Overlay(lcns,
    [k \in {<<l.freesat, l.region, b.bouquet, l.service>> : l \in b.lcns} |->
       (CHOOSE l \in b.lcns : <<l.freesat, l.region, b.bouquet, l.service>> = k).lcn])

\* FreesatBATProcessor keeps the first name of a bouquet, for as long as it
\* lives (a channel), and the first name of a region.
HearBat(b) ==
  /\ program = "fsscan" /\ pc = "scanning"
  /\ \/ b.name # NoText /\ names' = Put(names, b.bouquet, b.name)
     \/ (b.name = NoText \/ b.bouquet \in DOMAIN names) /\ UNCHANGED names
  /\ streams' = Overlay([k \in b.streams |-> NewStream], streams)
  /\ regions' = Overlay([k \in {<<b.bouquet, r.code>> : r \in b.regions} |->
                           (CHOOSE r \in b.regions : r.code = k[2]).name], regions)
  /\ lcns' = BatLcns(b)
  /\ UNCHANGED <<tables, services, program, pc, job, runs, ghosts>>

\* Names and provider of each service; and for the SDT of the channel's own
\* transport stream, which Freesat does not filter, the receiver's tuning.
HearSdt(d) ==
  /\ pc = "scanning"
  /\ streams' = IF program = "fvscan" /\ d.tuning # {}
                THEN Put(streams, d.key,
                         [StreamData(d.key) EXCEPT !.tuning = FirstTuning(d.key, d.tuning)])
                ELSE streams
  /\ services' = Overlay(services,
       [p \in {<<d.key[1], s.service>> : s \in d.services} |->
          LET s == CHOOSE x \in d.services : x.service = p[2]
          IN [ts |-> d.key[2], name |-> s.name, provider |-> s.provider]])
  /\ UNCHANGED <<tables, names, lcns, regions, program, pc, job, runs, ghosts>>
-----------------------------------------------------------------------------
(* The commit.                                                             *)

\* The statements in the order they are run, that of commit_extras the last.
Statements ==
  <<"network_info", "tuning", "transport_services", "provider_names", "service_ids",
    "service_names", "service_provider_id", "network_lcns", "regions">>

StreamServices == {x \in (DOMAIN streams) \X Service : x[2] \in streams[x[1]].services}
StreamProperties == {x \in (DOMAIN streams) \X Property : x[2] \in streams[x[1]].tuning}

ProviderId == {LeadingNumber[name] : name \in Text}

\* The rows of each statement.
Rows(t) ==
  CASE t = "network_info" ->
         {[network_id |-> n, name |-> names[n]] : n \in DOMAIN names}
    [] t = "tuning" ->
         {[original_network_id |-> x[1][1], transport_stream_id |-> x[1][2],
           network_id |-> streams[x[1]].network,
           tuning_key |-> x[2][1], tuning_val |-> x[2][2]] : x \in StreamProperties}
    [] t = "transport_services" ->
         {[original_network_id |-> x[1][1], network_id |-> streams[x[1]].network,
           transport_stream_id |-> x[1][2], service_id |-> x[2]] : x \in StreamServices}
    [] t = "provider_names" ->
         {[provider_name |-> services[p].provider] :
            p \in {q \in DOMAIN services : services[q].provider # NoText}}
    [] t = "service_ids" ->
         {[original_network_id |-> p[1], service_id |-> p[2],
           transport_stream_id |-> services[p].ts] : p \in DOMAIN services}
    [] t = "service_names" ->
         {[original_network_id |-> p[1], service_id |-> p[2], name |-> services[p].name] :
            p \in {q \in DOMAIN services : services[q].name # NoText}}
    [] t = "service_provider_id" ->
         {[original_network_id |-> x[1][1], service_id |-> x[1][2], provider_id |-> x[2]] :
            x \in {y \in (DOMAIN services) \X ProviderId :
                     y[2] \in ProviderIds(tables, services[y[1]].provider)}}
    [] t = "network_lcns" ->
         {[network_id |-> k[3], service_id |-> k[4], region_code |-> k[2],
           lcn |-> lcns[k], freesat_id |-> k[1]] : k \in DOMAIN lcns}
    [] t = "regions" ->
         {[bouquet_id |-> k[1], region_code |-> k[2], region_name |-> regions[k]] :
            k \in DOMAIN regions}

\* The columns by which the map a statement is filled from is ordered, as far as
\* two of its rows may differ in the primary key's order.
MapOrder ==
  [network_info        |-> <<"network_id">>,
   tuning              |-> <<"original_network_id", "transport_stream_id", "tuning_key">>,
   transport_services  |-> <<"original_network_id", "transport_stream_id", "service_id">>,
   provider_names      |-> << >>,
   service_ids         |-> <<"original_network_id", "service_id">>,
   service_names       |-> <<"original_network_id", "service_id">>,
   service_provider_id |-> <<"original_network_id", "service_id">>,
   network_lcns        |-> <<"freesat_id", "region_code", "network_id", "service_id">>,
   regions             |-> <<"bouquet_id", "region_code">>,
   client_lcns         |-> <<"lcn">>]

Precedes(t, r, s) ==
  LET cols == MapOrder[t]
  IN \E i \in DOMAIN cols : /\ r[cols[i]] < s[cols[i]]
                            /\ \A j \in 1 .. i - 1 : r[cols[j]] = s[cols[j]]

\* The scan has ended, PARTIAL or COMPLETE, and finished_cb queues the two
\* functions.  With status BLANK the program just quits.
Finish ==
  /\ pc = "scanning" /\ streams # << >> /\ services # << >>
  /\ pc' = "committing" /\ nth' = 1 /\ todo' = Rows("network_info")
  /\ before' = tables
  /\ UNCHANGED <<tables, harvest, program, network, region, runs, whole, cut>>

FinishBlank ==
  /\ pc = "scanning" /\ (streams = << >> \/ services = << >>)
  /\ pc' = "done"
  /\ UNCHANGED <<tables, harvest, program, job, runs, ghosts>>

\* execute() binds and steps one row after the other.
EnterRow(t) ==
  \E r \in todo :
    /\ \A s \in todo : ~Precedes(t, s, r)
    /\ tables' = [tables EXCEPT ![t] = Insert(t, @, r)]
    /\ todo' = todo \ {r}

CommitRow ==
  /\ pc = "committing"
  /\ EnterRow(Statements[nth])
  /\ UNCHANGED <<harvest, program, pc, nth, network, region, runs, ghosts>>

NextStatement ==
  /\ pc = "committing" /\ todo = {} /\ nth < Len(Statements)
  /\ nth' = nth + 1 /\ todo' = Rows(Statements[nth + 1])
  /\ UNCHANGED <<tables, harvest, program, pc, network, region, runs, ghosts>>

Committed ==
  /\ pc = "committing" /\ todo = {} /\ nth = Len(Statements)
  /\ pc' = "mapping" /\ whole' = TRUE
  /\ UNCHANGED <<tables, harvest, program, job, runs, before, cut>>

\* A statement throws: the rest of the function is not run, the next one is.
CommitFails ==
  /\ pc = "committing"
  /\ pc' = "mapping" /\ cut' = TRUE /\ todo' = {}
  /\ UNCHANGED <<tables, harvest, program, nth, network, region, runs, before, whole>>
-----------------------------------------------------------------------------
(* The client's channel numbers: lcn_fn and the LCN processors.            *)

\* Mutant: the universal region comes first.
BestIdsUniversal(l, n, reg) ==
  LET ofNetwork == {r \in IdsOfLcn(tables, l) : r.network_id = n}
      universal == {r \in ofNetwork : r.region_code = AnyRegion}
      ofRegion == {r \in ofNetwork : r.region_code = reg}
  IN IF universal # {} THEN universal ELSE IF ofRegion # {} THEN ofRegion ELSE ofNetwork

\* FreesatLCNProcessor: the bouquet's rows for the LCN, those of the region
\* before those of the universal region before the others.
BestIds(l, n, reg) ==
  LET ofNetwork == {r \in IdsOfLcn(tables, l) : r.network_id = n}
      ofRegion == {r \in ofNetwork : r.region_code = reg}
      universal == {r \in ofNetwork : r.region_code = AnyRegion}
  IN IF ofRegion # {} THEN ofRegion ELSE IF universal # {} THEN universal ELSE ofNetwork

\* Mutant: a service that is not found is taken to be of the id's network.
FreesatRowsUnfound(l, r, reg) ==
  {[lcn |-> l, original_network_id |-> o, service_id |-> r.service_id,
    region_code |-> reg, freesat_id |-> r.freesat_id] :
     o \in LET found == OnwOfService(tables, r.service_id)
           IN IF found = {} THEN Onw ELSE found}

\* The client row made of an id, if its service is found.
FreesatRows(l, r, reg) ==
  {[lcn |-> l, original_network_id |-> o, service_id |-> r.service_id,
    region_code |-> reg, freesat_id |-> r.freesat_id] : o \in OnwOfService(tables, r.service_id)}

FreeviewRows(l, r) ==
  {[lcn |-> l, original_network_id |-> o, service_id |-> r.service_id,
    region_code |-> 0, freesat_id |-> 0] :
     o \in OnwOfNetworkService(tables, r.network_id, r.service_id)}

\* The rows process_lcn may make of each id it may take; FreeviewLCNProcessor
\* takes the LCN's first id, of whatever network.
Candidates(l, n, reg) ==
  IF program = "fvscan" THEN {FreeviewRows(l, r) : r \in IdsOfLcn(tables, l)}
  ELSE {FreesatRows(l, r, reg) : r \in BestIds(l, n, reg)}

\* What it adds to client_lcns_v_: one row, or none.
Mapping(l, n, reg) ==
  UNION {IF rows = {} THEN {{}} ELSE {{c} : c \in rows} : rows \in Candidates(l, n, reg)}

NetworkNames == {r.name : r \in tables.network_info}

\* The region's code for the name given, if the list of regions has the name: the
\* list of the FIRST bouquet, not of the one chosen.  Otherwise that of the default
\* region or the list's first; an empty list leaves an undefined name, code 0.
RegionsFor(n) ==
  IF program = "fvscan" THEN {0}
  ELSE UNION {LET codes == RegionCodes(tables, name, n)
              IN IF codes = {} THEN {0} ELSE codes :
                name \in UNION {IF RegionNames(tables, b.network_id) = {} THEN {NoText}
                                ELSE RegionNames(tables, b.network_id) : b \in tables.network_info}}

\* process(): network and region by name, then every LCN of the network.
MapLcns ==
  /\ pc = "mapping"
  /\ \E name \in NetworkNames : \E n \in NetworkIds(tables, name) : \E reg \in RegionsFor(n) :
       /\ network' = n /\ region' = reg
       /\ LET ls == LcnsOfNetwork(tables, n)
          IN \E f \in [ls -> UNION {Mapping(l, n, reg) : l \in ls}] :
               /\ \A l \in ls : f[l] \in Mapping(l, n, reg)
               /\ todo' = UNION {f[l] : l \in ls}
  /\ pc' = "entering"
  /\ UNCHANGED <<tables, harvest, program, nth, runs, ghosts>>

EnterClientLcn ==
  /\ pc = "entering"
  /\ EnterRow("client_lcns")
  /\ UNCHANGED <<harvest, program, pc, nth, network, region, runs, ghosts>>

Mapped ==
  /\ pc = "entering" /\ todo = {}
  /\ pc' = "mapped"
  /\ UNCHANGED <<tables, harvest, program, job, runs, ghosts>>

\* No network is known, or a query or an insertion throws.
MapFails ==
  /\ pc \in {"mapping", "entering"}
  /\ pc' = "done" /\ todo' = {}
  /\ UNCHANGED <<tables, harvest, program, nth, network, region, runs, ghosts>>
-----------------------------------------------------------------------------
\* The program has ended, or is killed, and is run again: it starts with empty
\* maps and the tables as they are.
RunAgain ==
  /\ runs < MaxRuns
  /\ runs' = runs + 1
  /\ names' = << >> /\ streams' = << >> /\ services' = << >>
  /\ lcns' = << >> /\ regions' = << >>
  /\ pc' = "scanning" /\ nth' = 1 /\ todo' = {} /\ network' = 0 /\ region' = 0
  /\ whole' = FALSE /\ cut' = (cut \/ pc = "committing")
  /\ UNCHANGED <<tables, program, before>>

Init ==
  /\ tables = [t \in TableName |-> {}]
  /\ names = << >> /\ streams = << >> /\ services = << >>
  /\ lcns = << >> /\ regions = << >>
  /\ program \in {"fvscan", "fsscan"}
  /\ pc = "scanning" /\ nth = 1 /\ todo = {} /\ network = 0 /\ region = 0
  /\ runs = 1
  /\ before = tables /\ whole = FALSE /\ cut = FALSE

Next ==
  \/ \E n \in Nit : HearNit(n) \/ HearFreesatNit(n)
  \/ \E b \in Bat : HearBat(b)
  \/ \E d \in Sdt : HearSdt(d)
  \/ Finish \/ FinishBlank
  \/ CommitRow \/ NextStatement \/ Committed \/ CommitFails
  \/ MapLcns \/ EnterClientLcn \/ Mapped \/ MapFails
  \/ RunAgain

Spec == Init /\ [][Next]_vars
-----------------------------------------------------------------------------
(* Properties.                                                             *)

Zero(S) == S \cup {0}

RowType(t) ==
  CASE t = "network_info" -> [network_id : Network, name : Name]
    [] t = "tuning" ->
         [original_network_id : Onw, transport_stream_id : TS, network_id : Zero(Network),
          tuning_key : Nat, tuning_val : Nat]
    [] t = "transport_services" ->
         [original_network_id : Onw, network_id : Zero(Network), transport_stream_id : TS,
          service_id : Service]
    [] t = "provider_names" -> [provider_name : Text]
    [] t = "service_ids" ->
         [original_network_id : Onw, service_id : Service, transport_stream_id : Zero(TS)]
    [] t = "service_names" -> [original_network_id : Onw, service_id : Service, name : Text]
    [] t = "service_provider_id" ->
         [original_network_id : Onw, service_id : Service, provider_id : ProviderId]
    [] t = "network_lcns" ->
         [network_id : Network, service_id : Service, region_code : RegionCode, lcn : Lcn,
          freesat_id : FreesatId]
    [] t = "regions" -> [bouquet_id : Network, region_code : RegionCode, region_name : Name]
    [] t = "client_lcns" ->
         [lcn : Lcn, original_network_id : Onw, service_id : Service, region_code : RegionCode,
          freesat_id : FreesatId]

StreamType == [network : Zero(Network), services : SUBSET Service, tuning : SUBSET Property]
ServiceType == [ts : Zero(TS), name : Text \cup {NoText}, provider : Text \cup {NoText}]
LcnKey == FreesatId \X RegionCode \X Network \X Service

\* f maps some elements of D, each to one of T.
IsMap(f, D, T) == DOMAIN f \subseteq D /\ f \in [DOMAIN f -> T]

HarvestOK ==
  /\ IsMap(names, Network, Name)
  /\ IsMap(streams, Stream, StreamType)
  /\ IsMap(services, Pid, ServiceType)
  /\ IsMap(lcns, LcnKey, Lcn)
  /\ IsMap(regions, Network \X RegionCode, Name)

\* The table whose rows are being entered.
Entering == IF pc = "committing" THEN Statements[nth] ELSE "client_lcns"

\* The type invariant: every row a run of the program leaves in a table, or is
\* about to enter there, has the columns of that table, each with a value of its
\* own kind.
TypeOK ==
  /\ HarvestOK
  /\ DOMAIN tables = TableName
  /\ \A t \in TableName : tables[t] \subseteq RowType(t)
  /\ program \in {"fvscan", "fsscan"}
  /\ pc \in {"scanning", "committing", "mapping", "entering", "mapped", "done"}
  /\ nth \in 1 .. Len(Statements)
  /\ todo \subseteq RowType(Entering)
  /\ network \in Zero(Network) /\ region \in RegionCode
  /\ runs \in Nat /\ whole \in BOOLEAN /\ cut \in BOOLEAN

Has(t, r) ==
  \E x \in tables[t] : /\ x.original_network_id = r.original_network_id
                       /\ x.service_id = r.service_id

\* No channel number leads nowhere, whatever was killed or has failed at which
\* row and however often the program was run: the service of a client LCN is in
\* the table in which it was looked up; and unless a commit was cut short, it is
\* in service_ids, so that it can be tuned to.
NoDanglingLcn ==
  \A r \in tables.client_lcns :
    /\ Has(IF program = "fvscan" THEN "transport_services" ELSE "service_ids", r)
    /\ ~cut => Has("service_ids", r)

\* Rows of t that no later row of the same map replaces.
LastRows(t) == {r \in Rows(t) : ~\E s \in Rows(t) : SameKey(t, r, s) /\ Precedes(t, r, s)}

\* A commit that comes to its end leaves exactly what this scan found under the
\* keys it found, nothing of an earlier scan or of a commit cut short, and every
\* other row as it was; but in the tables of providers it adds only to what was
\* there, so that a service keeps the first provider number it was ever given.
CommitExact ==
  whole => \A t \in TableName \ {"client_lcns"} :
    LET now == LastRows(t)
        Unlike(rows, others) == {r \in rows : ~\E s \in others : SameKey(t, r, s)}
    IN tables[t] = IF t \in IgnoredOnConflict
                   THEN before[t] \cup Unlike(now, before[t])
                   ELSE Unlike(before[t], now) \cup now

\* Once the LCNs were mapped, one that the chosen network or bouquet gives to a
\* service is that service's, and neither another region's service has it nor one
\* that an earlier run had put there.  Freesat's is looked for among the ids of the
\* bouquet and the region, Freeview's among those of all networks, which can give
\* the number to another service: there the property says nothing.
LcnAsGiven ==
  pc = "mapped" =>
    \A r \in tables.network_lcns :
      LET rivals == {x \in IdsOfLcn(tables, r.lcn) :
                       program = "fsscan" => x.network_id = network /\ x.region_code = region}
          found == IF program = "fsscan" THEN OnwOfService(tables, r.service_id)
                   ELSE OnwOfNetworkService(tables, r.network_id, r.service_id)
      IN r.network_id = network /\ rivals = {r} /\ found # {} =>
           \E c \in tables.client_lcns : c.lcn = r.lcn /\ c.service_id = r.service_id
=============================================================================
