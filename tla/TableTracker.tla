---------------------------- MODULE TableTracker ----------------------------
(***************************************************************************)
(* What a section filter does with the sections it receives: TableTracker  *)
(* (si/table-tracker.cpp) says of each whether it is new, and by that      *)
(* NITProcessor and SDTProcessor (scan/) enter its contents into the       *)
(* harvest or not, and their callbacks stop the filter or not.             *)
(*                                                                         *)
(* The multiplex repeats the sections of its tables for ever and gives a   *)
(* table a new version number, of 5 bits, when it changes.  A section of   *)
(* another multiplex, heard while the receiver changes channel, may be of  *)
(* an older version and of a table of another length.                      *)
(*                                                                         *)
(* A new version makes the code reset the tracker while it holds a         *)
(* reference into it: the rest of that call works on a table that has been *)
(* deleted, so it may find any of the contents of that memory and what it  *)
(* enters is lost.                                                         *)
(***************************************************************************)
EXTENDS Integers, FiniteSets

CONSTANTS
  Id,            \* table id extensions: section_id()
  LastNumber,    \* last_section_number() of each table on this multiplex
  FirstVersion,  \* its version number at first
  StrayLast,     \* last_section_number() of sections of other multiplexes
  Jump,          \* what a new version number is ahead of the old one
  Behind,        \* what the version on other multiplexes is behind
  MaxUpdates,    \* bound on new versions of each table
  MaxStrays,     \* bound on sections announcing a version or of other multiplexes
  MaxChannels    \* bound on channels the filter is started for

ASSUME TrackerConstants ==
  /\ LastNumber \in [Id -> Nat]
  /\ FirstVersion \in [Id -> 0 .. 31]
  /\ StrayLast \subseteq Nat
  /\ Jump \subseteq 1 .. 7 /\ Behind \subseteq 0 .. 1

VARIABLES
  tables,     \* tables_: a TableInfo for each id, Blank where there is none
  complete,   \* complete_
  result,     \* what track() returned last
  stopped,    \* the filter's callback has stopped it
  harvested,  \* history: <<id, version, number>> entered into the harvest
  version,    \* version number of each table on this multiplex
  updates,    \* how often it has changed
  strays,     \* sections received of either kind
  channels    \* channels the filter has been started for

tracker   == <<tables, complete>>
broadcast == <<version, updates>>
vars      == <<tracker, result, stopped, harvested, broadcast, strays, channels>>

Result == {"BLANK", "OK", "REPEAT", "REPEAT_COMPLETE", "OLD_VERSION", "NEXT"}

\* The elements of completeness that are true, and its size.
Blank == [version |-> -1, all |-> FALSE, size |-> 0, have |-> {}]

Known(t) == {i \in Id : t[i].version # -1}

Key(s) == <<s.id, s.version, s.number>>
-----------------------------------------------------------------------------
\* For comparison: the version number wraps around one later.
NewerOff(v, old) == v > old \/ (v < 12 /\ old > 24)

Newer(v, old) == v > old \/ (v < 12 /\ old >= 24)

\* For comparison: completeness keeps what it held beyond a smaller size, ...
ResizedLong(t, last) ==
  [version |-> t.version, all |-> t.all /\ last < t.size, size |-> last + 1,
   have |-> t.have]

\* ... or a table that has grown is still taken for complete.
ResizedComplete(t, last) ==
  [version |-> t.version, all |-> t.all, size |-> last + 1,
   have |-> {n \in t.have : n <= last}]

\* The table made as long as the section says it is; complete no more if that is
\* longer than it was.
Resized(t, last) ==
  [version |-> t.version, all |-> t.all /\ last < t.size, size |-> last + 1,
   have |-> {n \in t.have : n <= last}]

\* For comparison: completeness is looked at before the section is entered.
WithSectionLate(t, n) ==
  [t EXCEPT !.have = @ \cup {n}, !.all = 0 .. t.size - 1 \subseteq t.have]

\* The section entered: it may be the one that completes its table.
WithSection(t, n) ==
  [t EXCEPT !.have = @ \cup {n}, !.all = 0 .. t.size - 1 \subseteq t.have \cup {n}]

\* For comparison: the other tables are not looked at.
CompleteAlone(t) ==
  /\ result' = "REPEAT_COMPLETE"
  /\ complete' = TRUE

\* A section of a complete table: track() wants all tables complete.
RepeatComplete(t) ==
  IF \A i \in Known(t) : t[i].all
  THEN result' = "REPEAT_COMPLETE" /\ complete' = TRUE
  ELSE result' = "REPEAT" /\ UNCHANGED complete

\* For comparison: a section held is a repeat, its table complete or not.
TrackThisRepeats(s) ==
  LET old == IF tables[s.id] = Blank THEN [Blank EXCEPT !.version = s.version]
             ELSE tables[s.id]
      tab == Resized(old, s.last)
      new == WithSection(tab, s.number)
  IN  /\ s.current
      /\ old.version = s.version
      /\ tables' = [tables EXCEPT ![s.id] = new]
      /\ result' = IF s.number \in tab.have /\ ~(new.all /\ ~tab.all)
                   THEN "REPEAT" ELSE "OK"
      /\ UNCHANGED complete

\* track() for a section of the version the table has, or the first of its table.
\* COMPLETE becomes OK: only a repeat tells that nothing is missing.
TrackThis(s) ==
  LET old == IF tables[s.id] = Blank THEN [Blank EXCEPT !.version = s.version]
             ELSE tables[s.id]
      tab == Resized(old, s.last)
      new == IF tab.all THEN tab ELSE WithSection(tab, s.number)
  IN  /\ s.current
      /\ old.version = s.version
      /\ tables' = [tables EXCEPT ![s.id] = new]
      /\ IF tab.all THEN RepeatComplete(tables')
         ELSE /\ result' = IF s.number \in tab.have /\ ~new.all THEN "REPEAT" ELSE "OK"
              /\ UNCHANGED complete

\* For a new version: whatever the deleted table makes of it, no table is left,
\* and of no tables all are complete.
TrackNewVersion(s) ==
  /\ s.current
  /\ tables[s.id] # Blank /\ Newer(s.version, tables[s.id].version)
  /\ tables' = [i \in Id |-> Blank]
  /\ result' \in {"OK", "REPEAT", "REPEAT_COMPLETE"}
  /\ complete' = (result' = "REPEAT_COMPLETE")

TrackOldVersion(s) ==
  /\ s.current
  /\ tables[s.id] # Blank /\ s.version # tables[s.id].version
  /\ ~Newer(s.version, tables[s.id].version)
  /\ result' = "OLD_VERSION"
  /\ UNCHANGED tracker

TrackNext(s) ==
  /\ ~s.current
  /\ result' = "NEXT"
  /\ UNCHANGED tracker

\* process() and the filter's callback: all that is no repeat and not too old is
\* entered, and a complete repeat stops the filter.
Receive(s) ==
  /\ ~stopped
  /\ TrackThis(s) \/ TrackNewVersion(s) \/ TrackOldVersion(s) \/ TrackNext(s)
  /\ harvested' = IF result' \in {"OK", "NEXT"} THEN harvested \cup {Key(s)} ELSE harvested
  /\ stopped' = (result' = "REPEAT_COMPLETE")
  /\ UNCHANGED <<broadcast, channels>>
-----------------------------------------------------------------------------
(* What is received.                                                       *)

Section(i, v, n, last, current) ==
  [id |-> i, version |-> v, number |-> n, last |-> last, current |-> current]

OnAir(i, n) ==
  /\ n <= LastNumber[i]
  /\ Receive(Section(i, version[i], n, LastNumber[i], TRUE))
  /\ UNCHANGED strays

\* A section that announces the next version.
Announced(i, n) ==
  /\ n <= LastNumber[i]
  /\ strays < MaxStrays /\ strays' = strays + 1
  /\ \E j \in Jump : Receive(Section(i, (version[i] + j) % 32, n, LastNumber[i], FALSE))

\* A section of another multiplex.
Stray(i, n) ==
  /\ strays < MaxStrays /\ strays' = strays + 1
  /\ \E last \in StrayLast, b \in Behind :
       n <= last /\ Receive(Section(i, (version[i] + 32 - b) % 32, n, last, TRUE))

Update(i) ==
  /\ updates[i] < MaxUpdates
  /\ \E j \in Jump : version' = [version EXCEPT ![i] = (@ + j) % 32]
  /\ updates' = [updates EXCEPT ![i] = @ + 1]
  /\ UNCHANGED <<tracker, result, stopped, harvested, strays, channels>>

\* reset_tracker() and a new filter, for the next channel.
StartChannel ==
  /\ channels < MaxChannels /\ channels' = channels + 1
  /\ tables' = [i \in Id |-> Blank] /\ complete' = FALSE
  /\ result' = "BLANK" /\ stopped' = FALSE
  /\ UNCHANGED <<harvested, broadcast, strays>>
-----------------------------------------------------------------------------
Init ==
  /\ tables = [i \in Id |-> Blank] /\ complete = FALSE
  /\ result = "BLANK" /\ stopped = FALSE
  /\ harvested = {}
  /\ version = FirstVersion /\ updates = [i \in Id |-> 0]
  /\ strays = 0 /\ channels = 1

Number ==
  (UNION {0 .. LastNumber[i] : i \in Id}) \cup (UNION {0 .. l : l \in StrayLast})

Next ==
  \/ \E i \in Id, n \in Number : OnAir(i, n) \/ Announced(i, n) \/ Stray(i, n)
  \/ \E i \in Id : Update(i)
  \/ StartChannel

Spec == Init /\ [][Next]_vars

\* The multiplex repeats every section of its tables.
FairSpec == Spec /\ \A i \in Id : \A n \in 0 .. LastNumber[i] : WF_vars(OnAir(i, n))
-----------------------------------------------------------------------------
TableInfo ==
  [version : -1 .. 31, all : BOOLEAN, size : Nat, have : SUBSET Nat]

\* The values of the variables; completeness has no element beyond its size.
TypeOK ==
  /\ tables \in [Id -> TableInfo]
  /\ complete \in BOOLEAN /\ stopped \in BOOLEAN
  /\ result \in Result
  /\ harvested \subseteq Id \X (0 .. 31) \X Nat
  /\ version \in [Id -> 0 .. 31]
  /\ updates \in [Id -> Nat] /\ strays \in Nat /\ channels \in Nat
  /\ \A i \in Id : tables[i].have \subseteq 0 .. tables[i].size - 1

\* A section is passed over as a repeat only if its contents were entered before,
\* however the versions and lengths of its table have come and gone, unless it
\* brings a new version (which leaves no table).
NoneSkipped ==
  [][\A i \in Id, n \in Number :
       /\ result' \in {"REPEAT", "REPEAT_COMPLETE"}
       /\ <<i, version[i], n>> \notin harvested /\ tables'[i] # Blank
       => ~OnAir(i, n)]_vars

\* When the filter stops other than for a new version, of every table heard of
\* since the last reset every section has been entered.
StopMeansHarvested ==
  stopped => \A i \in Known(tables), n \in 0 .. 255 :
    n < tables[i].size => <<i, tables[i].version, n>> \in harvested

\* Nor does it go on for nothing: when every section of the tables heard of is held,
\* the first repeat stops it, in whatever order and lengths they have come.
HeardOutStops ==
  [][\A i \in Known(tables), n \in Number :
       /\ \A k \in Known(tables) : 0 .. tables[k].size - 1 \subseteq tables[k].have
       /\ version[i] = tables[i].version /\ LastNumber[i] < tables[i].size
       => (OnAir(i, n) => stopped')]_vars

\* A section whose version number is up to 8 ahead of its table's, also across the
\* wrap at 32, is never taken for an old one, and nothing of the version it replaces
\* counts any more.  Whether it is itself entered is another matter (NoneSkipped).
NewerAccepted ==
  [][\A i \in Id, n \in Number :
       /\ result' = "OLD_VERSION" \/ tables'[i].version = tables[i].version
       /\ tables[i] # Blank /\ (version[i] + 32 - tables[i].version) % 32 \in 1 .. 8
       => ~OnAir(i, n)]_vars

\* While its versions last long enough, every channel's table is completed.
EveryChannelCompletes == []<>stopped
=============================================================================
