---------------------------- MODULE CommitProofs ----------------------------
(***************************************************************************)
(* A commit that comes to its end leaves exactly what the scan found, and  *)
(* channel numbers are then mapped as the broadcast gives them: the proofs *)
(* of CommitExact and LcnAsGiven of module Channels.  The rows of a        *)
(* statement are followed one by one, in the order they are entered.       *)
(***************************************************************************)
EXTENDS ChannelsProofs

(* Rows and their order.                                                   *)

Tunings == \A k \in DOMAIN streams : OneValueEach(streams[k].tuning)

LEMMA SameKeyEquivalence ==
  ASSUME NEW t, NEW a, NEW b, NEW c, SameKey(t, a, b)
  PROVE  SameKey(t, b, a) /\ (SameKey(t, b, c) => SameKey(t, a, c))
BY DEF SameKey

\* Of a statement's rows, two that are not one differ in the order of their map,
\* or in the primary key.
LEMMA RowsDiffer ==
  ASSUME HarvestOK, Tunings, NEW t \in CommitTable,
         NEW r \in Rows(t), NEW s \in Rows(t), r # s, SameKey(t, r, s)
  PROVE  \E i \in DOMAIN MapOrder[t] : r[MapOrder[t][i]] # s[MapOrder[t][i]]
<1>1. CASE t = "network_info"
  <2>1. MapOrder[t] = <<"network_id">>
    BY <1>1 DEF MapOrder
  <2>2. r.network_id # s.network_id
    BY <1>1 DEF Rows
  <2>3. QED
    BY <2>1, <2>2
<1>2. CASE t = "tuning"
  <2>1. MapOrder[t] = <<"original_network_id", "transport_stream_id", "tuning_key">>
    BY <1>2 DEF MapOrder
  <2> DEFINE row(x) == [original_network_id |-> x[1][1], transport_stream_id |-> x[1][2],
                        network_id |-> streams[x[1]].network,
                        tuning_key |-> x[2][1], tuning_val |-> x[2][2]]
  <2>2. PICK x \in StreamProperties, y \in StreamProperties : r = row(x) /\ s = row(y)
    BY <1>2 DEF Rows
  <2>3. /\ x[1] \in DOMAIN streams /\ x[2] \in streams[x[1]].tuning
        /\ y[1] \in DOMAIN streams /\ y[2] \in streams[y[1]].tuning
    BY DEF StreamProperties
  <2>4. x[1] \in Stream /\ y[1] \in Stream
    BY <2>3 DEF HarvestOK, IsMap
  <2>5. ASSUME x[1][1] = y[1][1], x[1][2] = y[1][2], x[2][1] = y[2][1]
        PROVE  FALSE
    <3>1. x[1] = y[1]
      BY <2>4, <2>5 DEF Stream
    <3>2. x[2] = y[2]
      BY <2>3, <2>5, <3>1 DEF Tunings, OneValueEach
    <3>3. QED
      BY <2>2, <3>1, <3>2
  <2>6. \/ r.original_network_id # s.original_network_id
        \/ r.transport_stream_id # s.transport_stream_id
        \/ r.tuning_key # s.tuning_key
    BY <2>2, <2>5
  <2>7. QED
    BY <2>1, <2>6
<1>3. CASE t = "transport_services"
  <2>1. MapOrder[t] = <<"original_network_id", "transport_stream_id", "service_id">>
    BY <1>3 DEF MapOrder
  <2> DEFINE row(x) == [original_network_id |-> x[1][1], network_id |-> streams[x[1]].network,
                        transport_stream_id |-> x[1][2], service_id |-> x[2]]
  <2>2. PICK x \in StreamServices, y \in StreamServices : r = row(x) /\ s = row(y)
    BY <1>3 DEF Rows
  <2>3. x[1] \in Stream /\ y[1] \in Stream
    BY DEF StreamServices, HarvestOK, IsMap
  <2>4. ASSUME x[1][1] = y[1][1], x[1][2] = y[1][2], x[2] = y[2]
        PROVE  FALSE
    <3>1. x[1] = y[1]
      BY <2>3, <2>4 DEF Stream
    <3>2. QED
      BY <2>2, <2>4, <3>1
  <2>5. \/ r.original_network_id # s.original_network_id
        \/ r.transport_stream_id # s.transport_stream_id
        \/ r.service_id # s.service_id
    BY <2>2, <2>4
  <2>6. QED
    BY <2>1, <2>5
<1>4. CASE t = "provider_names"
  <2>1. TableKey[t] = {"provider_name"}
    BY <1>4 DEF TableKey
  <2>2. r = s
    BY <1>4, <2>1 DEF Rows, SameKey
  <2>3. QED
    BY <2>2
<1>5. CASE t \in {"service_ids", "service_names", "service_provider_id"}
  <2>1. MapOrder[t] = <<"original_network_id", "service_id">>
    BY <1>5 DEF MapOrder
  <2>2. ASSUME r.original_network_id = s.original_network_id, r.service_id = s.service_id
        PROVE  FALSE
    <3>1. PICK p \in DOMAIN services, q \in DOMAIN services :
            /\ r.original_network_id = p[1] /\ r.service_id = p[2]
            /\ s.original_network_id = q[1] /\ s.service_id = q[2]
            /\ \/ t = "service_ids"
                  /\ r = [original_network_id |-> p[1], service_id |-> p[2],
                          transport_stream_id |-> services[p].ts]
                  /\ s = [original_network_id |-> q[1], service_id |-> q[2],
                          transport_stream_id |-> services[q].ts]
               \/ t = "service_names"
                  /\ r = [original_network_id |-> p[1], service_id |-> p[2],
                          name |-> services[p].name]
                  /\ s = [original_network_id |-> q[1], service_id |-> q[2],
                          name |-> services[q].name]
               \/ t = "service_provider_id"
                  /\ r = [original_network_id |-> p[1], service_id |-> p[2],
                          provider_id |-> LeadingNumber[services[p].provider]]
                  /\ s = [original_network_id |-> q[1], service_id |-> q[2],
                          provider_id |-> LeadingNumber[services[q].provider]]
      <4>1. CASE t = "service_ids"
        BY <4>1 DEF Rows
      <4>2. CASE t = "service_names"
        BY <4>2 DEF Rows
      <4>3. CASE t = "service_provider_id"
        <5>1. ASSUME NEW e \in Rows(t)
              PROVE  \E u \in DOMAIN services :
                       e = [original_network_id |-> u[1], service_id |-> u[2],
                            provider_id |-> LeadingNumber[services[u].provider]]
          BY <4>3 DEF Rows, ProviderIds
        <5>2. QED
          BY <4>3, <5>1
      <4>4. QED
        BY <1>5, <4>1, <4>2, <4>3
    <3>2. p \in Pid /\ q \in Pid
      BY DEF HarvestOK, IsMap
    <3>3. p = q
      <4>1. p[1] = q[1] /\ p[2] = q[2]
        BY <2>2, <3>1, Zenon
      <4>2. QED
        BY <3>2, <4>1 DEF Pid
    <3>4. QED
      BY <3>1, <3>3
  <2>3. QED
    BY <2>1, <2>2
<1>6. CASE t = "network_lcns"
  <2>1. MapOrder[t] = <<"freesat_id", "region_code", "network_id", "service_id">>
    BY <1>6 DEF MapOrder
  <2>2. PICK k \in DOMAIN lcns, l \in DOMAIN lcns :
          /\ r = [network_id |-> k[3], service_id |-> k[4], region_code |-> k[2],
                  lcn |-> lcns[k], freesat_id |-> k[1]]
          /\ s = [network_id |-> l[3], service_id |-> l[4], region_code |-> l[2],
                  lcn |-> lcns[l], freesat_id |-> l[1]]
    BY <1>6 DEF Rows
  <2>3. k \in LcnKey /\ l \in LcnKey
    BY DEF HarvestOK, IsMap
  <2>4. k[1] # l[1] \/ k[2] # l[2] \/ k[3] # l[3] \/ k[4] # l[4]
    BY <2>2, <2>3 DEF LcnKey
  <2>5. \/ r.freesat_id # s.freesat_id \/ r.region_code # s.region_code
        \/ r.network_id # s.network_id \/ r.service_id # s.service_id
    BY <2>2, <2>4
  <2>6. QED
    BY <2>1, <2>5
<1>7. CASE t = "regions"
  <2>1. MapOrder[t] = <<"bouquet_id", "region_code">>
    BY <1>7 DEF MapOrder
  <2>2. PICK k \in DOMAIN regions, l \in DOMAIN regions :
          /\ r = [bouquet_id |-> k[1], region_code |-> k[2], region_name |-> regions[k]]
          /\ s = [bouquet_id |-> l[1], region_code |-> l[2], region_name |-> regions[l]]
    BY <1>7 DEF Rows
  <2>3. k \in Network \X RegionCode /\ l \in Network \X RegionCode
    BY DEF HarvestOK, IsMap
  <2>4. k[1] # l[1] \/ k[2] # l[2]
    BY <2>2, <2>3
  <2>5. r.bouquet_id # s.bouquet_id \/ r.region_code # s.region_code
    BY <2>2, <2>4
  <2>6. QED
    BY <2>1, <2>5
<1>8. QED
  BY <1>1, <1>2, <1>3, <1>4, <1>5, <1>6, <1>7 DEF CommitTable, TableName

\* Those columns are numbers.
LEMMA OrderColumns ==
  ASSUME NEW t \in CommitTable, NEW r \in RowType(t), NEW i \in DOMAIN MapOrder[t]
  PROVE  r[MapOrder[t][i]] \in Nat
<1>1. /\ Network \subseteq Nat /\ Onw \subseteq Nat /\ TS \subseteq Nat /\ Service \subseteq Nat
      /\ RegionCode \subseteq Nat /\ FreesatId \subseteq Nat
  BY ChannelConstants DEF ChannelConstants
<1>2. CASE t = "network_info"
  BY <1>1, <1>2 DEF MapOrder, RowType
<1>3. CASE t = "tuning"
  BY <1>1, <1>3 DEF MapOrder, RowType
<1>4. CASE t = "transport_services"
  BY <1>1, <1>4 DEF MapOrder, RowType
<1>5. CASE t = "provider_names"
  BY <1>5 DEF MapOrder
<1>6. CASE t = "service_ids"
  BY <1>1, <1>6 DEF MapOrder, RowType
<1>7. CASE t = "service_names"
  BY <1>1, <1>7 DEF MapOrder, RowType
<1>8. CASE t = "service_provider_id"
  BY <1>1, <1>8 DEF MapOrder, RowType
<1>9. CASE t = "network_lcns"
  BY <1>1, <1>9 DEF MapOrder, RowType
<1>10. CASE t = "regions"
  BY <1>1, <1>10 DEF MapOrder, RowType
<1>11. QED
  BY <1>2, <1>3, <1>4, <1>5, <1>6, <1>7, <1>8, <1>9, <1>10 DEF CommitTable, TableName

LEMMA OrderLength ==
  ASSUME NEW t \in CommitTable
  PROVE  \E n \in 0 .. 4 : DOMAIN MapOrder[t] = 1 .. n
<1>1. CASE t = "provider_names"
  BY <1>1 DEF MapOrder
<1>2. CASE t = "network_info"
  BY <1>2 DEF MapOrder
<1>3. CASE t \in {"service_ids", "service_names", "service_provider_id", "regions"}
  BY <1>3 DEF MapOrder
<1>4. CASE t \in {"tuning", "transport_services"}
  BY <1>4 DEF MapOrder
<1>5. CASE t = "network_lcns"
  BY <1>5 DEF MapOrder
<1>6. QED
  BY <1>1, <1>2, <1>3, <1>4, <1>5 DEF CommitTable, TableName

\* So of two rows with one key, one is entered after the other.
LEMMA OneIsLater ==
  ASSUME HarvestOK, Tunings, NEW t \in CommitTable,
         NEW r \in Rows(t), NEW s \in Rows(t), r # s, SameKey(t, r, s)
  PROVE  Precedes(t, r, s) \/ Precedes(t, s, r)
<1> DEFINE cols == MapOrder[t]
           D(j) == r[cols[j]] # s[cols[j]]
<1>1. PICK n \in 0 .. 4 : DOMAIN cols = 1 .. n
  BY OrderLength
<1>2. PICK i \in 1 .. n : D(i)
  BY <1>1, RowsDiffer
<1>3. \A j \in 1 .. n : r[cols[j]] \in Nat /\ s[cols[j]] \in Nat
  BY <1>1, RowsType, OrderColumns
<1>4. \E j \in 1 .. n : D(j) /\ \A k \in 1 .. j - 1 : ~D(k)
  <2> HIDE DEF D, cols
  <2>1. i \in 1 .. 4
    BY <1>2
  <2>2. CASE i = 1 \/ D(1)
    <3>1. D(1) /\ 1 \in 1 .. n
      BY <1>2, <2>2
    <3>2. QED
      BY <3>1
  <2>3. CASE ~D(1) /\ (i = 2 \/ (i > 2 /\ D(2)))
    <3>1. D(2) /\ 2 \in 1 .. n /\ \A k \in 1 .. 2 - 1 : k = 1
      BY <1>2, <2>3
    <3>2. QED
      BY <2>3, <3>1
  <2>4. CASE ~D(1) /\ ~D(2) /\ (i = 3 \/ (i > 3 /\ D(3)))
    <3>1. D(3) /\ 3 \in 1 .. n /\ \A k \in 1 .. 3 - 1 : k \in {1, 2}
      BY <1>2, <2>4
    <3>2. QED
      BY <2>4, <3>1
  <2>5. CASE ~D(1) /\ ~D(2) /\ ~D(3) /\ i = 4
    <3>1. D(4) /\ 4 \in 1 .. n /\ \A k \in 1 .. 4 - 1 : k \in {1, 2, 3}
      BY <1>2, <2>5
    <3>2. QED
      BY <2>5, <3>1
  <2>6. QED
    BY <1>2, <2>1, <2>2, <2>3, <2>4, <2>5
<1>5. PICK j \in 1 .. n : D(j) /\ \A k \in 1 .. j - 1 : ~D(k)
  BY <1>4
<1>6. r[cols[j]] < s[cols[j]] \/ s[cols[j]] < r[cols[j]]
  BY <1>3, <1>5
<1>7. QED
  BY <1>1, <1>5, <1>6 DEF Precedes

\* In the tables whose older rows stay, a statement has one row for each key.
LEMMA IgnoredRowsOnce ==
  ASSUME HarvestOK, Tunings, NEW t \in CommitTable \cap IgnoredOnConflict,
         NEW r \in Rows(t), NEW s \in Rows(t), SameKey(t, r, s)
  PROVE  r = s
<1> SUFFICES ASSUME r # s PROVE FALSE
  OBVIOUS
<1>1. PICK i \in DOMAIN MapOrder[t] : r[MapOrder[t][i]] # s[MapOrder[t][i]]
  BY RowsDiffer
<1>2. CASE t = "provider_names"
  BY <1>1, <1>2 DEF MapOrder
<1>3. CASE t = "service_provider_id"
  <2>1. MapOrder[t][i] \in TableKey[t]
    BY <1>1, <1>3 DEF MapOrder, TableKey
  <2>2. QED
    BY <1>1, <2>1 DEF SameKey
<1>4. QED
  BY <1>2, <1>3 DEF IgnoredOnConflict
-----------------------------------------------------------------------------
(* One statement.                                                          *)

\* Rows of E that none of E replaces.
Last(t, E) == {r \in E : ~\E s \in E : SameKey(t, r, s) /\ Precedes(t, r, s)}

\* Rows of E whose keys none of the other rows has.
Unlike(t, E, others) == {x \in E : ~\E s \in others : SameKey(t, x, s)}

\* Table t, after the rows E of a statement were entered.
Exact(t, E) ==
  /\ tables[t] = IF t \in IgnoredOnConflict THEN before[t] \cup Unlike(t, E, before[t])
                 ELSE Unlike(t, before[t], E) \cup Last(t, E)
  /\ \A s \in E : \E l \in Last(t, E) : SameKey(t, s, l)

\* Another row.
LEMMA RowEntered ==
  ASSUME HarvestOK, Tunings, NEW t \in CommitTable, NEW E \in SUBSET Rows(t), NEW r \in Rows(t),
         r \notin E, Exact(t, E), tables[t] \subseteq RowType(t),
         \A e \in E : ~Precedes(t, r, e),
         tables' = [tables EXCEPT ![t] = Insert(t, @, r)], t \in DOMAIN tables,
         before' = before
  PROVE  Exact(t, E \cup {r})'
<1> DEFINE F == E \cup {r}
<1>1. t \notin IgnoredOnConflict
        => tables'[t] = {x \in tables[t] : ~SameKey(t, x, r)} \cup {r}
  BY DEF Insert
<1>2. SameKey(t, r, r)
  BY DEF SameKey
<1>3. r \in Last(t, F)
  <2>1. ~Precedes(t, r, r)
    <3>1. \A i \in DOMAIN MapOrder[t] : r[MapOrder[t][i]] \in Nat
      BY RowsType, OrderColumns
    <3>2. QED
      BY <3>1 DEF Precedes
  <2>2. QED
    BY <2>1 DEF Last
<1>4. ASSUME NEW x \in E, SameKey(t, x, r)
      PROVE  x \notin Last(t, F)
  <2>1. Precedes(t, x, r)
    BY <1>4, OneIsLater
  <2>2. QED
    BY <1>4, <2>1 DEF Last
<1>5. ASSUME NEW x \in E, ~SameKey(t, x, r)
      PROVE  x \in Last(t, F) <=> x \in Last(t, E)
  BY <1>5 DEF Last
<1>6. Last(t, F) = {x \in Last(t, E) : ~SameKey(t, x, r)} \cup {r}
  <2>1. Last(t, F) \subseteq F /\ Last(t, E) \subseteq E
    BY DEF Last
  <2>2. QED
    BY <1>3, <1>4, <1>5, <2>1
<1>7. tables'[t] = IF t \in IgnoredOnConflict THEN before[t] \cup Unlike(t, F, before[t])
                   ELSE Unlike(t, before[t], F) \cup Last(t, F)
  <2>1. CASE t \notin IgnoredOnConflict
    <3>1. tables[t] = Unlike(t, before[t], E) \cup Last(t, E)
      BY <2>1 DEF Exact
    <3>2. tables'[t] = Unlike(t, before[t], F) \cup Last(t, F)
      BY <1>1, <1>6, <2>1, <3>1 DEF Unlike
    <3>3. QED
      BY <2>1, <3>2
  <2>2. CASE t \in IgnoredOnConflict
    <3>1. tables[t] = before[t] \cup Unlike(t, E, before[t])
      BY <2>2 DEF Exact
    <3>2. CASE \E x \in before[t] : SameKey(t, x, r)
      <4>1. PICK x \in before[t] : SameKey(t, x, r) /\ SameKey(t, r, x)
        BY <3>2, SameKeyEquivalence
      <4>2. Unlike(t, F, before[t]) = Unlike(t, E, before[t])
        BY <4>1 DEF Unlike
      <4>3. tables'[t] = tables[t]
        BY <2>2, <3>1, <4>1 DEF Insert
      <4>4. QED
        BY <2>2, <3>1, <4>2, <4>3
    <3>3. CASE ~\E x \in before[t] : SameKey(t, x, r)
      <4>1. ~\E x \in before[t] : SameKey(t, r, x)
        BY <3>3, SameKeyEquivalence
      <4>2. Unlike(t, F, before[t]) = Unlike(t, E, before[t]) \cup {r}
        BY <4>1 DEF Unlike
      <4>3. ASSUME NEW x \in E PROVE ~SameKey(t, x, r)
        BY <2>2, <4>3, IgnoredRowsOnce
      <4>4. ~\E x \in tables[t] : SameKey(t, x, r)
        BY <3>1, <3>3, <4>3 DEF Unlike
      <4>5. tables'[t] = tables[t] \cup {r}
        BY <4>4 DEF Insert
      <4>6. QED
        BY <2>2, <3>1, <4>2, <4>5
    <3>4. QED
      BY <3>2, <3>3
  <2>3. QED
    BY <2>1, <2>2
<1>8. ASSUME NEW s \in F
      PROVE  \E l \in Last(t, F) : SameKey(t, s, l)
  <2>1. CASE s = r
    BY <1>2, <1>3, <2>1
  <2>2. CASE s \in E
    <3>1. PICK l \in Last(t, E) : SameKey(t, s, l)
      BY <2>2 DEF Exact
    <3>2. CASE SameKey(t, l, r)
      BY <1>3, <3>1, <3>2, SameKeyEquivalence
    <3>3. CASE ~SameKey(t, l, r)
      BY <1>6, <3>1, <3>3
    <3>4. QED
      BY <3>2, <3>3
  <2>3. QED
    BY <2>1, <2>2
<1>9. QED
  BY <1>7, <1>8 DEF Exact, Unlike, Last, Precedes, SameKey
-----------------------------------------------------------------------------
(* The commit.                                                             *)

LEMMA StatementOrder ==
  /\ \A i, j \in 1 .. 9 : Statements[i] = Statements[j] => i = j
  /\ \A t \in CommitTable : \E i \in 1 .. 9 : t = Statements[i]
  /\ Statements[4] = "provider_names" /\ Statements[7] = "service_provider_id"
  /\ Statements[1] = "network_info"
BY DEF Statements, CommitTable, TableName

\* The rows of a statement stay the same while the maps do; those with the ids of
\* providers, while the table of these does.
LEMMA RowsStay ==
  ASSUME NEW t \in CommitTable, UNCHANGED harvest,
         t = "service_provider_id" => tables'["provider_names"] = tables["provider_names"]
  PROVE  Rows(t)' = Rows(t)
<1>1. UNCHANGED <<names, streams, services, lcns, regions>>
  BY DEF harvest
<1>2. StreamServices' = StreamServices /\ StreamProperties' = StreamProperties
  BY <1>1 DEF StreamServices, StreamProperties
<1>3. CASE t = "service_provider_id"
  <2>1. \A p : ProviderIds(tables, services[p].provider)' = ProviderIds(tables, services[p].provider)
    BY <1>1, <1>3 DEF ProviderIds
  <2>2. QED
    BY <1>1, <1>3, <2>1 DEF Rows
<1>4. CASE t # "service_provider_id"
  BY <1>1, <1>2, <1>4 DEF Rows, CommitTable, TableName
<1>5. QED
  BY <1>3, <1>4

LEMMA ExactStays ==
  ASSUME NEW t, NEW E, tables'[t] = tables[t], before' = before, Exact(t, E)
  PROVE  Exact(t, E)'
BY DEF Exact, Unlike, Last, Precedes, SameKey

\* Statements before the n-th have entered their rows, those after it none.
Done(n) ==
  /\ \A i \in 1 .. n - 1 : Exact(Statements[i], Rows(Statements[i]))
  /\ \A i \in n + 1 .. 9 : tables[Statements[i]] = before[Statements[i]]

\* The inductive invariant: the n-th has entered all but todo, of which none comes
\* before a row that was entered.
CommitInv ==
  /\ Tunings
  /\ pc \in {"scanning", "committing"} => ~whole
  /\ pc = "committing" =>
       LET t == Statements[nth]
       IN  /\ Done(nth)
           /\ todo \subseteq Rows(t)
           /\ Exact(t, Rows(t) \ todo)
           /\ \A e \in Rows(t) \ todo, r \in todo : ~Precedes(t, r, e)
  /\ whole => \A t \in CommitTable : Exact(t, Rows(t))

\* What is heard gives a transport stream one tuning, the first.
LEMMA FirstTuningIsOne ==
  ASSUME Tunings, NEW k, NEW tun, OneValueEach(tun)
  PROVE  OneValueEach(FirstTuning(k, tun)) /\ OneValueEach(StreamData(k).tuning)
BY DEF Tunings, FirstTuning, StreamData, NewStream, OneValueEach

LEMMA HeardTunings ==
  ASSUME TypeOK, Tunings, Heard
  PROVE  Tunings'
<1>1. ASSUME NEW n \in Nit, NEW reads \in BOOLEAN, streams' = NitStreams(n, reads)
      PROVE  Tunings'
  <2> SUFFICES ASSUME NEW k \in DOMAIN streams'
               PROVE  OneValueEach(streams'[k].tuning)
    BY DEF Tunings
  <2>1. CASE k \in Keys(n.streams)
    <3>1. streams'[k].tuning = FirstTuning(k, ByKey(n.streams, k).tuning)
      BY <1>1, <2>1 DEF NitStreams, Overlay
    <3>2. OneValueEach(ByKey(n.streams, k).tuning)
      BY <2>1, ByKeyType, ChannelConstants DEF ChannelConstants
    <3>3. QED
      BY <3>1, <3>2, FirstTuningIsOne
  <2>2. CASE k \notin Keys(n.streams)
    BY <1>1, <2>2 DEF NitStreams, Overlay, Tunings
  <2>3. QED
    BY <2>1, <2>2
<1>2. CASE \E n \in Nit : HearNit(n) \/ HearFreesatNit(n)
  BY <1>1, <1>2 DEF HearNit, HearFreesatNit
<1>3. CASE \E b \in Bat : HearBat(b)
  BY <1>3 DEF HearBat, Overlay, NewStream, Tunings, OneValueEach
<1>4. CASE \E d \in Sdt : HearSdt(d)
  <2>1. PICK d \in Sdt : HearSdt(d)
    BY <1>4
  <2>2. OneValueEach(d.tuning)
    BY ChannelConstants DEF ChannelConstants
  <2>3. StreamData(d.key) \in StreamType
    BY EntryTypes DEF TypeOK
  <2>4. CASE streams' = streams
    BY <2>4 DEF Tunings
  <2>5. CASE streams' = Put(streams, d.key,
                            [StreamData(d.key) EXCEPT !.tuning = FirstTuning(d.key, d.tuning)])
    <3>1. streams'[d.key].tuning = FirstTuning(d.key, d.tuning)
      BY <2>3, <2>5 DEF Put, StreamType
    <3>2. \A k \in DOMAIN streams' : k # d.key => k \in DOMAIN streams /\ streams'[k] = streams[k]
      BY <2>5 DEF Put
    <3>3. QED
      BY <2>2, <3>1, <3>2, FirstTuningIsOne DEF Tunings
  <2>6. QED
    BY <2>1, <2>4, <2>5 DEF HearSdt
<1>5. QED
  BY <1>2, <1>3, <1>4 DEF Heard

\* The first row of a statement is entered on the table as it was.
LEMMA NothingEntered ==
  ASSUME NEW t, tables[t] = before[t]
  PROVE  Exact(t, {})
BY DEF Exact, Unlike, Last

LEMMA InitCommit == Init => CommitInv
BY DEF Init, CommitInv, Tunings

LEMMA NextCommit == TypeOK /\ CommitInv /\ [Next]_vars => CommitInv'
<1> SUFFICES ASSUME TypeOK, CommitInv, [Next]_vars PROVE CommitInv'
  OBVIOUS
<1>1. CASE Heard
  <2>1. Tunings'
    BY <1>1, HeardTunings DEF CommitInv
  <2>2. pc = "scanning" /\ pc' = pc /\ whole' = whole
    BY <1>1 DEF Heard, HearNit, HearFreesatNit, HearBat, HearSdt, ghosts
  <2>3. QED
    BY <2>1, <2>2 DEF CommitInv
<1>2. CASE Finish
  <2>1. /\ pc = "scanning" /\ pc' = "committing" /\ nth' = 1
        /\ before' = tables /\ UNCHANGED <<tables, harvest, whole>>
        /\ todo' = Rows("network_info")
    BY <1>2 DEF Finish
  <2>2. Statements[1] = "network_info" /\ "network_info" \in CommitTable
    BY StatementOrder, StatementTables
  <2>3. Rows("network_info")' = Rows("network_info")
    BY <2>1, <2>2, RowsStay
  <2>4. Done(1)'
    BY <2>1 DEF Done
  <2>5. Exact("network_info", {})'
    BY <2>1 DEF Exact, Unlike, Last
  <2>6. Rows("network_info")' \ todo' = {}
    BY <2>1, <2>3
  <2>7. Tunings' /\ ~whole'
    BY <2>1 DEF CommitInv, Tunings, harvest
  <2>8. QED
    BY <2>1, <2>2, <2>3, <2>4, <2>5, <2>6, <2>7 DEF CommitInv
<1>3. CASE FinishBlank
  BY <1>3 DEF FinishBlank, CommitInv, Tunings, harvest, ghosts
<1>4. CASE CommitRow
  <2>0. PICK t \in CommitTable : t = Statements[nth]
    BY StatementTables DEF TypeOK
  <2>1. /\ pc = "committing" /\ UNCHANGED <<harvest, pc, nth, before, whole>>
        /\ EnterRow(t)
    BY <1>4, <2>0 DEF CommitRow, ghosts
  <2>2. nth \in 1 .. 9 /\ t \in DOMAIN tables /\ tables[t] \subseteq RowType(t)
    BY StatementTables DEF TypeOK, CommitTable
  <2>3. PICK r \in todo : /\ \A s \in todo : ~Precedes(t, s, r)
                         /\ tables' = [tables EXCEPT ![t] = Insert(t, tables[t], r)]
                         /\ todo' = todo \ {r}
    BY <2>1 DEF EnterRow
  <2>4. /\ Done(nth) /\ todo \subseteq Rows(t) /\ Exact(t, Rows(t) \ todo)
        /\ \A e \in Rows(t) \ todo, s \in todo : ~Precedes(t, s, e)
        /\ Tunings /\ ~whole
    BY <2>0, <2>1 DEF CommitInv
  <2>5. \A u : u # t => tables'[u] = tables[u]
    <3>1. tables' = [u \in DOMAIN tables |-> IF u = t THEN Insert(t, tables[t], r) ELSE tables[u]]
      BY <2>3
    <3>2. QED
      BY <2>3
  <2>6. \A i \in 1 .. nth : Rows(Statements[i])' = Rows(Statements[i])
    <3> SUFFICES ASSUME NEW i \in 1 .. nth
                 PROVE  Rows(Statements[i])' = Rows(Statements[i])
      OBVIOUS
    <3>1. i \in 1 .. 9 /\ Statements[i] \in CommitTable
      BY <2>2, StatementTables
    <3>2. Statements[i] = "service_provider_id" => t # "provider_names"
      BY <2>0, <2>2, <3>1, StatementOrder
    <3>3. QED
      BY <2>1, <2>5, <3>1, <3>2, RowsStay
  <2>7. Done(nth)'
    <3>1. \A i \in 1 .. 9 : i # nth => tables'[Statements[i]] = tables[Statements[i]]
      BY <2>0, <2>2, <2>5, StatementOrder
    <3>2. \A i \in 1 .. nth - 1 : Exact(Statements[i], Rows(Statements[i]))'
      BY <2>1, <2>2, <2>4, <2>6, <3>1, ExactStays DEF Done
    <3>3. QED
      BY <2>1, <2>2, <2>4, <3>1, <3>2 DEF Done
  <2>8. Rows(t)' = Rows(t)
    BY <2>0, <2>2, <2>6
  <2>9. Rows(t) \ todo' = (Rows(t) \ todo) \cup {r} /\ r \in Rows(t) /\ todo' \subseteq Rows(t)
    BY <2>3, <2>4
  <2>10. Exact(t, Rows(t) \ todo)'
    <3>1. PICK E : E = Rows(t) \ todo
      OBVIOUS
    <3>2. HarvestOK /\ r \notin E /\ r \in Rows(t) /\ E \in SUBSET Rows(t)
          /\ Exact(t, E) /\ \A e \in E : ~Precedes(t, r, e)
      BY <2>3, <2>4, <3>1 DEF TypeOK
    <3>3. Exact(t, E \cup {r})'
      BY <2>1, <2>2, <2>3, <2>4, <3>2, RowEntered
    <3>4. (Rows(t) \ todo)' = E \cup {r}
      BY <2>8, <2>9, <3>1
    <3>5. QED
      BY <3>3, <3>4
  <2>11. \A e \in Rows(t) \ todo', s \in todo' : ~Precedes(t, s, e)
    BY <2>3, <2>4, <2>9
  <2>12. Tunings'
    BY <2>1, <2>4 DEF Tunings, harvest
  <2>13. QED
    BY <2>0, <2>1, <2>4, <2>7, <2>8, <2>9, <2>10, <2>11, <2>12 DEF CommitInv
<1>5. CASE NextStatement
  <2>1. /\ pc = "committing" /\ UNCHANGED <<tables, harvest, pc, before, whole>>
        /\ todo = {} /\ nth < 9 /\ nth' = nth + 1 /\ todo' = Rows(Statements[nth + 1])
    BY <1>5, StatementTables DEF NextStatement, ghosts
  <2>2. PICK n \in 1 .. 8 : n = nth
    BY <2>1, StatementTables DEF TypeOK
  <2>3. PICK t \in CommitTable : t = Statements[n + 1]
    BY <2>2, StatementTables
  <2>4. \A i \in 1 .. 9 : Rows(Statements[i])' = Rows(Statements[i])
    BY <2>1, StatementTables, RowsStay
  <2>5. Done(n) /\ Exact(Statements[n], Rows(Statements[n])) /\ Tunings /\ ~whole
    BY <2>1, <2>2 DEF CommitInv
  <2>6. \A i \in 1 .. n : Exact(Statements[i], Rows(Statements[i]))
    BY <2>2, <2>5 DEF Done
  <2>7. \A i \in 1 .. n : Exact(Statements[i], Rows(Statements[i]))'
    BY <2>1, <2>2, <2>4, <2>6, ExactStays
  <2>8. Done(n + 1)'
    <3>1. \A i \in n + 2 .. 9 : tables'[Statements[i]] = before'[Statements[i]]
      BY <2>1, <2>2, <2>5 DEF Done
    <3>2. \A i \in 1 .. (n + 1) - 1 : Exact(Statements[i], Rows(Statements[i]))'
      BY <2>2, <2>7
    <3>3. (n + 1) + 1 = n + 2
      BY <2>2
    <3>4. QED
      BY <3>1, <3>2, <3>3 DEF Done
  <2>9. Exact(t, {})'
    <3>1. tables[t] = before[t]
      BY <2>2, <2>3, <2>5 DEF Done
    <3>2. QED
      BY <2>1, <3>1, NothingEntered, ExactStays
  <2>10. Rows(t)' = Rows(t) /\ todo' = Rows(t) /\ t = Statements[nth'] /\ nth' = n + 1
    BY <2>1, <2>2, <2>3, <2>4
  <2>11. Tunings' /\ ~whole'
    BY <2>1, <2>5 DEF Tunings, harvest
  <2>12. (Rows(t) \ todo)' = {} /\ todo' \subseteq Rows(t)'
    BY <2>10
  <2>13. QED
    BY <2>1, <2>8, <2>9, <2>10, <2>11, <2>12 DEF CommitInv
<1>6. CASE Committed
  <2>1. /\ pc = "committing" /\ pc' = "mapping" /\ todo = {} /\ nth = 9
        /\ UNCHANGED <<tables, harvest, before>>
    BY <1>6, StatementTables DEF Committed
  <2>2. Done(9) /\ Exact(Statements[9], Rows(Statements[9])) /\ Tunings
    BY <2>1 DEF CommitInv
  <2>3. \A i \in 1 .. 9 : Exact(Statements[i], Rows(Statements[i]))
    BY <2>2 DEF Done
  <2>4. \A t \in CommitTable : Exact(t, Rows(t))
    BY <2>3, StatementOrder
  <2>5. \A t \in CommitTable : Exact(t, Rows(t))'
    BY <2>1, <2>4, RowsStay, ExactStays
  <2>6. Tunings'
    BY <2>1, <2>2 DEF Tunings, harvest
  <2>7. QED
    BY <2>1, <2>5, <2>6 DEF CommitInv
<1>7. CASE CommitFails
  <2>1. /\ pc = "committing" /\ pc' = "mapping" /\ UNCHANGED <<harvest, whole>>
    BY <1>7 DEF CommitFails
  <2>2. QED
    BY <2>1 DEF CommitInv, Tunings, harvest
<1>8. CASE MapLcns \/ Mapped \/ MapFails \/ EnterClientLcn
  <2>1. /\ pc' \in {"entering", "mapped", "done"}
           \/ (pc' = pc /\ pc = "entering")
        /\ UNCHANGED <<harvest, before, whole>>
    BY <1>8 DEF MapLcns, Mapped, MapFails, EnterClientLcn, ghosts
  <2>2. \A t \in CommitTable : tables'[t] = tables[t]
    BY <1>8 DEF MapLcns, Mapped, MapFails, EnterClientLcn, EnterRow, CommitTable, TypeOK
  <2>3. "provider_names" \in CommitTable
    BY DEF CommitTable, TableName
  <2>4. ASSUME whole
        PROVE  \A t \in CommitTable : Exact(t, Rows(t))'
    BY <2>1, <2>2, <2>3, <2>4, RowsStay, ExactStays DEF CommitInv
  <2>5. Tunings'
    BY <2>1 DEF CommitInv, Tunings, harvest
  <2>6. QED
    BY <2>1, <2>4, <2>5 DEF CommitInv
<1>9. CASE RunAgain
  BY <1>9 DEF RunAgain, CommitInv, Tunings
<1>10. CASE UNCHANGED vars
  <2>1. UNCHANGED <<tables, harvest, pc, nth, todo, before, whole>>
    BY <1>10 DEF vars, job, ghosts
  <2>2. \A t \in CommitTable : Rows(t)' = Rows(t)
    BY <2>1, RowsStay
  <2>3. \A t \in CommitTable : \A E : Exact(t, E) => Exact(t, E)'
    BY <2>1, ExactStays
  <2>4. Tunings'
    BY <2>1 DEF CommitInv, Tunings, harvest
  <2>5. CASE pc = "committing"
    <3>1. PICK t \in CommitTable : t = Statements[nth]
      BY StatementTables DEF TypeOK
    <3>2. nth \in 1 .. 9
      BY StatementTables DEF TypeOK
    <3>3. Done(nth) => Done(nth)'
      BY <2>1, <2>2, <2>3, <3>2, StatementTables DEF Done
    <3>4. Rows(t)' = Rows(t) /\ (Exact(t, Rows(t) \ todo) => Exact(t, Rows(t) \ todo)')
      BY <2>1, <2>2, <2>3
    <3>5. QED
      BY <2>1, <2>4, <2>5, <3>1, <3>3, <3>4 DEF CommitInv
  <2>6. CASE pc # "committing"
    BY <2>1, <2>2, <2>3, <2>4, <2>6 DEF CommitInv
  <2>7. QED
    BY <2>5, <2>6
<1>11. QED
  BY <1>1, <1>2, <1>3, <1>4, <1>5, <1>6, <1>7, <1>8, <1>9, <1>10 DEF Next, Heard

\* A commit that comes to its end leaves exactly what the scan found under the keys
\* it found and every other row as it was, whatever earlier commits had left; in the
\* tables of providers it only adds rows, one for each key that had none
\* (MultiScanner::commit_to_database, with the conflict clauses of logi-sqlite.cpp).
THEOREM CommitIsExact == Spec => []CommitExact
<1>1. HarvestOK /\ CommitInv => CommitExact
  <2> SUFFICES ASSUME CommitInv, whole, HarvestOK, NEW t \in TableName \ {"client_lcns"}
               PROVE  tables[t] = IF t \in IgnoredOnConflict
                                  THEN before[t] \cup Unlike(t, LastRows(t), before[t])
                                  ELSE Unlike(t, before[t], LastRows(t)) \cup LastRows(t)
    BY DEF CommitExact, Unlike
  <2>1. Exact(t, Rows(t))
    BY DEF CommitInv, CommitTable
  <2>2. LastRows(t) = Last(t, Rows(t)) /\ LastRows(t) \subseteq Rows(t)
    BY DEF LastRows, Last
  <2>3. CASE t \notin IgnoredOnConflict
    <3>1. ASSUME NEW x
          PROVE  (\E s \in Rows(t) : SameKey(t, x, s)) <=> \E s \in LastRows(t) : SameKey(t, x, s)
      BY <2>1, <2>2, SameKeyEquivalence DEF Exact
    <3>2. QED
      BY <2>1, <2>2, <2>3, <3>1 DEF Exact, Unlike
  <2>4. CASE t \in IgnoredOnConflict
    <3>1. ASSUME NEW r \in Rows(t) PROVE r \in LastRows(t)
      <4>1. PICK l \in LastRows(t) : SameKey(t, r, l)
        BY <2>1, <2>2 DEF Exact
      <4>2. l = r
        BY <2>2, <2>4, <4>1, IgnoredRowsOnce DEF CommitInv, CommitTable
      <4>3. QED
        BY <4>1, <4>2
    <3>2. QED
      BY <2>1, <2>2, <2>4, <3>1 DEF Exact
  <2>5. QED
    BY <2>3, <2>4
<1>2. TypeOK /\ CommitInv /\ [Next]_vars => (TypeOK /\ CommitInv)'
  BY NextType, NextCommit
<1>3. TypeOK => HarvestOK
  BY DEF TypeOK
<1>4. QED
  BY <1>1, <1>2, <1>3, InitType, InitCommit, PTL DEF Spec

(* The client's channel numbers.                                           *)

\* A row that gives its channel number to a service with no doubt, in network n and
\* region reg.
Given(r, n, reg) ==
  LET rivals == {x \in IdsOfLcn(tables, r.lcn) :
                   program = "fsscan" => x.network_id = n /\ x.region_code = reg}
      found == IF program = "fsscan" THEN OnwOfService(tables, r.service_id)
               ELSE OnwOfNetworkService(tables, r.network_id, r.service_id)
  IN r.network_id = n /\ rivals = {r} /\ found # {}

Maps(c, r) == c.lcn = r.lcn /\ c.service_id = r.service_id

\* While the rows of the mapping are entered, each number has one at most; that of a
\* given number is still to be entered, or in the table with no other to come.
MapInv ==
  pc \in {"entering", "mapped"} =>
    /\ \A c, d \in todo : c.lcn = d.lcn => c = d
    /\ pc = "mapped" => todo = {}
    /\ \A r \in tables.network_lcns : Given(r, network, region) =>
         \/ \E c \in todo : Maps(c, r)
         \/ /\ \E c \in tables.client_lcns : Maps(c, r)
            /\ \A c \in todo : c.lcn # r.lcn

\* The rows made for one number have that number, and there is one at most.
LEMMA RowOfNumber ==
  ASSUME NEW l, NEW n, NEW reg, NEW rows \in Mapping(l, n, reg)
  PROVE  rows = {} \/ \E c : rows = {c} /\ c.lcn = l
<1>1. PICK cand \in Candidates(l, n, reg) :
        rows \in (IF cand = {} THEN {{}} ELSE {{c} : c \in cand})
  BY DEF Mapping
<1>2. \A c \in cand : c.lcn = l
  <2>1. \/ \E r : cand = FreeviewRows(l, r)
        \/ \E r : cand = FreesatRows(l, r, reg)
    BY DEF Candidates
  <2>2. QED
    BY <2>1 DEF FreeviewRows, FreesatRows
<1>3. rows = {} \/ \E c \in cand : rows = {c}
  BY <1>1
<1>4. QED
  BY <1>2, <1>3

LEMMA FreeviewRowsMap ==
  ASSUME NEW r, OnwOfNetworkService(tables, r.network_id, r.service_id) # {}
  PROVE  /\ FreeviewRows(r.lcn, r) # {}
         /\ \A c \in FreeviewRows(r.lcn, r) : Maps(c, r)
<1>1. PICK o : o \in OnwOfNetworkService(tables, r.network_id, r.service_id)
  OBVIOUS
<1>2. FreeviewRows(r.lcn, r) # {}
  BY <1>1 DEF FreeviewRows
<1>3. ASSUME NEW c \in FreeviewRows(r.lcn, r)
      PROVE  Maps(c, r)
  <2>1. c.lcn = r.lcn /\ c.service_id = r.service_id
    BY DEF FreeviewRows
  <2>2. QED
    BY <2>1 DEF Maps
<1>4. QED
  BY <1>2, <1>3

LEMMA FreesatRowsMap ==
  ASSUME NEW r, NEW reg, OnwOfService(tables, r.service_id) # {}
  PROVE  /\ FreesatRows(r.lcn, r, reg) # {}
         /\ \A c \in FreesatRows(r.lcn, r, reg) : Maps(c, r)
<1>1. PICK o : o \in OnwOfService(tables, r.service_id)
  OBVIOUS
<1>2. FreesatRows(r.lcn, r, reg) # {}
  BY <1>1 DEF FreesatRows
<1>3. ASSUME NEW c \in FreesatRows(r.lcn, r, reg)
      PROVE  Maps(c, r)
  <2>1. c.lcn = r.lcn /\ c.service_id = r.service_id
    BY DEF FreesatRows
  <2>2. QED
    BY <2>1 DEF Maps
<1>4. QED
  BY <1>2, <1>3

\* The row of a given number is its service's.
LEMMA GivenIsMapped ==
  ASSUME program \in {"fvscan", "fsscan"}, NEW n, NEW reg,
         NEW r \in tables.network_lcns, Given(r, n, reg), NEW rows \in Mapping(r.lcn, n, reg)
  PROVE  \E c \in rows : Maps(c, r)
<1>1. PICK cand \in Candidates(r.lcn, n, reg) :
        rows \in (IF cand = {} THEN {{}} ELSE {{c} : c \in cand})
  BY DEF Mapping
<1>2. cand # {} /\ \A c \in cand : Maps(c, r)
  <2>1. CASE program = "fvscan"
    <3>1. IdsOfLcn(tables, r.lcn) = {r}
      BY <2>1 DEF Given, IdsOfLcn
    <3>2. cand = FreeviewRows(r.lcn, r)
      BY <2>1, <3>1 DEF Candidates
    <3>3. OnwOfNetworkService(tables, r.network_id, r.service_id) # {}
      BY <2>1 DEF Given
    <3>4. QED
      BY <3>2, <3>3, FreeviewRowsMap
  <2>2. CASE program = "fsscan"
    <3>1. {x \in IdsOfLcn(tables, r.lcn) : x.network_id = n /\ x.region_code = reg} = {r}
      BY <2>2 DEF Given
    <3>2. BestIds(r.lcn, n, reg) = {r}
      BY <3>1 DEF BestIds
    <3>3. cand = FreesatRows(r.lcn, r, reg)
      BY <2>2, <3>2 DEF Candidates
    <3>4. OnwOfService(tables, r.service_id) # {}
      BY <2>2 DEF Given
    <3>5. QED
      BY <3>3, <3>4, FreesatRowsMap
  <2>3. QED
    BY <2>1, <2>2
<1>3. PICK c \in cand : rows = {c}
  BY <1>1, <1>2
<1>4. QED
  BY <1>2, <1>3

\* What is given depends on the tables of the commit only.
LEMMA GivenStays ==
  ASSUME UNCHANGED program, NEW n, NEW reg,
         \A t \in {"network_lcns", "service_ids", "transport_services"} : tables'[t] = tables[t]
  PROVE  \A r : Given(r, n, reg)' <=> Given(r, n, reg)
<1>1. /\ tables'.network_lcns = tables.network_lcns
      /\ tables'.service_ids = tables.service_ids
      /\ tables'.transport_services = tables.transport_services
  OBVIOUS
<1>2. QED
  BY <1>1 DEF Given, IdsOfLcn, OnwOfService, OnwOfNetworkService

LEMMA NextMap == TypeOK /\ MapInv /\ [Next]_vars => MapInv'
<1> SUFFICES ASSUME TypeOK, MapInv, [Next]_vars PROVE MapInv'
  OBVIOUS
<1>1. CASE MapLcns
  <2>1. UNCHANGED <<tables, program>> /\ pc' = "entering"
    BY <1>1 DEF MapLcns
  <2> DEFINE ls == LcnsOfNetwork(tables, network')
  <2>2. PICK f \in [ls -> UNION {Mapping(l, network', region') : l \in ls}] :
          /\ \A l \in ls : f[l] \in Mapping(l, network', region')
          /\ todo' = UNION {f[l] : l \in ls}
    BY <1>1 DEF MapLcns
  <2>3. ASSUME NEW c \in todo', NEW d \in todo', c.lcn = d.lcn
        PROVE  c = d
    <3>1. PICK l \in ls : c \in f[l]
      BY <2>2
    <3>2. PICK k \in ls : d \in f[k]
      BY <2>2
    <3>3. f[l] \in Mapping(l, network', region') /\ f[k] \in Mapping(k, network', region')
      BY <2>2
    <3>4. f[l] = {c} /\ c.lcn = l
      BY <3>1, <3>3, RowOfNumber
    <3>5. f[k] = {d} /\ d.lcn = k
      BY <3>2, <3>3, RowOfNumber
    <3>6. QED
      BY <2>3, <3>4, <3>5
  <2>4. ASSUME NEW r \in tables["network_lcns"], Given(r, network', region')
        PROVE  \E c \in todo' : Maps(c, r)
    <3>1. r.network_id = network'
      BY <2>4 DEF Given
    <3>2. r.lcn \in ls
      BY <3>1 DEF LcnsOfNetwork
    <3>3. f[r.lcn] \in Mapping(r.lcn, network', region')
      BY <2>2, <3>2
    <3>4. \E c \in f[r.lcn] : Maps(c, r)
      BY <2>4, <3>3, GivenIsMapped DEF TypeOK
    <3>5. QED
      BY <2>2, <3>2, <3>4
  <2>5. \A r : Given(r, network, region)' => Given(r, network', region')
    BY <2>1 DEF Given, IdsOfLcn, OnwOfService, OnwOfNetworkService
  <2>6. QED
    BY <2>1, <2>3, <2>4, <2>5 DEF MapInv, Maps
<1>2. CASE EnterClientLcn
  <2>1. UNCHANGED <<program, pc, network, region>> /\ pc = "entering" /\ EnterRow("client_lcns")
    BY <1>2 DEF EnterClientLcn
  <2>2. PICK row \in todo :
          /\ tables' = [tables EXCEPT !["client_lcns"] =
                          Insert("client_lcns", tables["client_lcns"], row)]
          /\ todo' = todo \ {row}
    BY <2>1 DEF EnterRow
  <2>3. \A t \in {"network_lcns", "service_ids", "transport_services"} : tables'[t] = tables[t]
    BY <2>2 DEF TypeOK, TableName
  <2>4. tables'["client_lcns"] = {c \in tables["client_lcns"] : c.lcn # row.lcn} \cup {row}
    <3>1. Insert("client_lcns", tables["client_lcns"], row) =
            {c \in tables["client_lcns"] : c.lcn # row.lcn} \cup {row}
      BY DEF Insert, IgnoredOnConflict, SameKey, TableKey
    <3>2. QED
      BY <2>2, <3>1 DEF TypeOK, TableName
  <2>5. \A c, d \in todo : c.lcn = d.lcn => c = d
    BY <2>1 DEF MapInv
  <2>6. ASSUME NEW r \in tables["network_lcns"], Given(r, network, region)
        PROVE  \/ \E c \in todo' : Maps(c, r)
               \/ /\ \E c \in tables'["client_lcns"] : Maps(c, r)
                  /\ \A c \in todo' : c.lcn # r.lcn
    <3>1. CASE \E c \in todo : Maps(c, r)
      <4>1. PICK c \in todo : Maps(c, r)
        BY <3>1
      <4>2. CASE c = row
        BY <2>2, <2>4, <2>5, <4>1, <4>2 DEF Maps
      <4>3. CASE c # row
        BY <2>2, <4>1, <4>3
      <4>4. QED
        BY <4>2, <4>3
    <3>2. CASE /\ \E c \in tables["client_lcns"] : Maps(c, r)
               /\ \A c \in todo : c.lcn # r.lcn
      BY <2>2, <2>4, <3>2 DEF Maps
    <3>3. QED
      BY <2>1, <2>6, <3>1, <3>2 DEF MapInv
  <2>7. \A r \in tables'["network_lcns"] :
          Given(r, network, region)' => r \in tables["network_lcns"] /\ Given(r, network, region)
    BY <2>1, <2>3, GivenStays DEF Given, IdsOfLcn, OnwOfService, OnwOfNetworkService
  <2>8. QED
    BY <2>1, <2>2, <2>5, <2>6, <2>7 DEF MapInv, Maps
<1>3. CASE Mapped
  <2>1. UNCHANGED <<tables, program, network, region, todo>> /\ pc = "entering" /\ todo = {}
    BY <1>3 DEF Mapped, job
  <2>2. \A r : Given(r, network, region)' <=> Given(r, network, region)
    BY <2>1 DEF Given, IdsOfLcn, OnwOfService, OnwOfNetworkService
  <2>3. QED
    BY <2>1, <2>2 DEF MapInv, Maps
<1>4. CASE UNCHANGED vars
  <2>1. UNCHANGED <<tables, program, network, region, todo, pc>>
    BY <1>4 DEF vars, job
  <2>2. \A r : Given(r, network, region)' <=> Given(r, network, region)
    BY <2>1 DEF Given, IdsOfLcn, OnwOfService, OnwOfNetworkService
  <2>3. QED
    BY <2>1, <2>2 DEF MapInv, Maps
<1>5. CASE Heard \/ Finish \/ FinishBlank \/ CommitRow \/ NextStatement \/ Committed \/ CommitFails
           \/ MapFails \/ RunAgain
  <2>1. pc' \notin {"entering", "mapped"}
    BY <1>5 DEF Heard, HearNit, HearFreesatNit, HearBat, HearSdt, job, Finish, FinishBlank, CommitRow,
                NextStatement, Committed, CommitFails, MapFails, RunAgain
  <2>2. QED
    BY <2>1 DEF MapInv
<1>6. QED
  BY <1>1, <1>2, <1>3, <1>4, <1>5 DEF Next, Heard

\* A number that the chosen network or bouquet gives to one service is that service's
\* once the mapping has come to its end, whatever earlier runs had put there
\* (FreesatLCNProcessor and FreeviewLCNProcessor, and the client_lcns statement).
THEOREM LcnsAreAsGiven == Spec => []LcnAsGiven
<1>1. MapInv => LcnAsGiven
  BY DEF MapInv, LcnAsGiven, Given, Maps
<1>2. Init => MapInv
  BY DEF Init, MapInv
<1>3. TypeOK /\ MapInv /\ [Next]_vars => (TypeOK /\ MapInv)'
  BY NextType, NextMap
<1>4. QED
  BY <1>1, <1>2, <1>3, InitType, PTL DEF Spec
=============================================================================
