---------------------------- MODULE ChannelStore ----------------------------
(***************************************************************************)
(* The tables of one source in the database (db/logi-sqlite.cpp), and the  *)
(* statements and queries the programs run on them.                        *)
(*                                                                         *)
(* A table is a set of rows, a row a record of its columns.  An insertion  *)
(* meets the primary key of its table: it REPLACEs the row that holds the  *)
(* key, or in two tables is IGNOREd.  Nothing ever deletes a row.  A query *)
(* returns a set: none that matters here is ORDERed, so the row the code   *)
(* takes as the first may be any of them.                                  *)
(***************************************************************************)
EXTENDS Integers

CONSTANTS
  Text,          \* names of services and of providers
  LeadingNumber  \* what a text is read as by sqlite3_column_int()

\* The digits a text begins with, after a sign, make a number; 0 if there are none.
ASSUME TextConstants == LeadingNumber \in [Text -> Int]

TableName ==
  {"network_info", "tuning", "transport_services", "service_ids", "service_names",
   "provider_names", "service_provider_id", "network_lcns", "regions", "client_lcns"}

\* The columns of each table's primary key.
TableKey ==
  [network_info        |-> {"network_id"},
   tuning              |-> {"original_network_id", "transport_stream_id", "tuning_key"},
   transport_services  |-> {"original_network_id", "service_id"},
   service_ids         |-> {"original_network_id", "service_id"},
   service_names       |-> {"original_network_id", "service_id"},
   provider_names      |-> {"provider_name"},
   service_provider_id |-> {"original_network_id", "service_id"},
   network_lcns        |-> {"network_id", "region_code", "lcn", "freesat_id"},
   regions             |-> {"bouquet_id", "region_code"},
   client_lcns         |-> {"lcn"}]

SameKey(t, r, s) == \A c \in TableKey[t] : r[c] = s[c]

\* The tables whose statements are built with replace = false.
IgnoredOnConflict == {"provider_names", "service_provider_id"}

\* Mutant: OR IGNORE in every statement.
InsertIgnoring(t, rows, row) ==
  IF \E r \in rows : SameKey(t, r, row) THEN rows ELSE rows \cup {row}

\* INSERT OR REPLACE, or OR IGNORE, of one row.
Insert(t, rows, row) ==
  IF t \in IgnoredOnConflict /\ \E r \in rows : SameKey(t, r, row) THEN rows
  ELSE {r \in rows : ~SameKey(t, r, row)} \cup {row}
-----------------------------------------------------------------------------
(* The queries, on the tables of db.                                       *)

\* The provider's name is selected, not its row id, and is read as an integer.
ProviderIds(db, name) ==
  {LeadingNumber[name] : r \in {x \in db.provider_names : x.provider_name = name}}

LcnsOfNetwork(db, n) == {r.lcn : r \in {x \in db.network_lcns : x.network_id = n}}

IdsOfLcn(db, l) == {r \in db.network_lcns : r.lcn = l}

NetworkIds(db, name) == {r.network_id : r \in {x \in db.network_info : x.name = name}}

RegionCodes(db, name, b) ==
  {r.region_code : r \in {x \in db.regions : x.region_name = name /\ x.bouquet_id = b}}

RegionNames(db, b) == {r.region_name : r \in {x \in db.regions : x.bouquet_id = b}}

OnwOfNetworkService(db, n, s) ==
  {r.original_network_id :
     r \in {x \in db.transport_services : x.network_id = n /\ x.service_id = s}}

OnwOfService(db, s) ==
  {r.original_network_id : r \in {x \in db.service_ids : x.service_id = s}}
=============================================================================
