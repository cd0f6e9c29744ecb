------------------------- MODULE TableTrackerProofs -------------------------
(* What module TableTracker says of every set of tables and every order of *)
(* sections, proved.                                                       *)
EXTENDS TableTracker, TLAPS

\* What the tracker holds has been entered, and a table is complete when it holds
\* all its sections.
EntriesInv ==
  \A i \in Id :
    /\ tables[i].version = -1 => tables[i] = Blank
    /\ tables[i].all => tables[i].have = 0 .. tables[i].size - 1
    /\ \A n \in tables[i].have : <<i, tables[i].version, n>> \in harvested

\* The filter stops at a table that is complete like all the others.
StopInv == stopped => \A i \in Known(tables) : tables[i].all

\* A table that holds all its sections is marked complete.
FullInv ==
  \A i \in Known(tables) : 0 .. tables[i].size - 1 \subseteq tables[i].have => tables[i].all

IInv == TypeOK /\ EntriesInv /\ FullInv /\ StopInv
-----------------------------------------------------------------------------
\* A section as it may be received.
SectionType ==
  [id : Id, version : 0 .. 31, number : Nat, last : Nat, current : BOOLEAN]

Received(s) == Receive(s) /\ s \in SectionType /\ s.number <= s.last

\* Every step is one of these.
LEMMA Steps ==
  ASSUME TypeOK, Next
  PROVE  \/ \E s \in SectionType :
              Received(s) /\ UNCHANGED channels /\ strays' \in {strays, strays + 1}
         \/ \E i \in Id : Update(i)
         \/ StartChannel
<1> USE TrackerConstants DEF TrackerConstants
<1>0. \A i \in Id : version[i] \in 0 .. 31 /\ LastNumber[i] \in Nat
  BY DEF TypeOK
<1>1. ASSUME NEW i \in Id, NEW n \in Number PROVE n \in Nat
  <2>1. (\E j \in Id : n \in 0 .. LastNumber[j]) \/ (\E l \in StrayLast : n \in 0 .. l)
    BY Zenon DEF Number
  <2>2. QED
    BY <1>0, <2>1
<1>2. ASSUME NEW i \in Id, NEW n \in Number, OnAir(i, n)
      PROVE  \E s \in SectionType :
               Received(s) /\ UNCHANGED channels /\ strays' \in {strays, strays + 1}
  <2> DEFINE s == Section(i, version[i], n, LastNumber[i], TRUE)
  <2>1. s \in SectionType /\ s.number <= s.last
    BY <1>0, <1>1, <1>2 DEF OnAir, Section, SectionType
  <2>2. Receive(s) /\ UNCHANGED strays
    BY <1>2 DEF OnAir
  <2>3. UNCHANGED channels
    BY <2>2 DEF Receive
  <2>4. QED
    BY <2>1, <2>2, <2>3 DEF Received
<1>3. ASSUME NEW i \in Id, NEW n \in Number, Announced(i, n)
      PROVE  \E s \in SectionType :
               Received(s) /\ UNCHANGED channels /\ strays' \in {strays, strays + 1}
  <2>1. PICK j \in Jump : Receive(Section(i, (version[i] + j) % 32, n, LastNumber[i], FALSE))
    BY <1>3 DEF Announced
  <2> DEFINE s == Section(i, (version[i] + j) % 32, n, LastNumber[i], FALSE)
  <2>2. (version[i] + j) % 32 \in 0 .. 31
    BY <1>0
  <2>3. s \in SectionType /\ s.number <= s.last
    BY <1>0, <1>1, <1>3, <2>2 DEF Announced, Section, SectionType
  <2>4. strays' = strays + 1
    BY <1>3 DEF Announced
  <2>5. UNCHANGED channels
    BY <2>1 DEF Receive
  <2>6. QED
    BY <2>1, <2>3, <2>4, <2>5 DEF Received
<1>4. ASSUME NEW i \in Id, NEW n \in Number, Stray(i, n)
      PROVE  \E s \in SectionType :
               Received(s) /\ UNCHANGED channels /\ strays' \in {strays, strays + 1}
  <2>1. PICK last \in StrayLast, b \in Behind :
          n <= last /\ Receive(Section(i, (version[i] + 32 - b) % 32, n, last, TRUE))
    BY <1>4 DEF Stray
  <2> DEFINE s == Section(i, (version[i] + 32 - b) % 32, n, last, TRUE)
  <2>2. (version[i] + 32 - b) % 32 \in 0 .. 31
    BY <1>0
  <2>3. s \in SectionType /\ s.number <= s.last
    BY <1>1, <2>1, <2>2 DEF Section, SectionType
  <2>4. strays' = strays + 1
    BY <1>4 DEF Stray
  <2>5. UNCHANGED channels
    BY <2>1 DEF Receive
  <2>6. QED
    BY <2>1, <2>3, <2>4, <2>5 DEF Received
<1>5. QED
  BY <1>2, <1>3, <1>4 DEF Next

\* What track() is given to enter a section of this version: the table as it was,
\* or an empty one.
Old(s) == IF tables[s.id] = Blank THEN [Blank EXCEPT !.version = s.version]
          ELSE tables[s.id]

\* A table with a section entered is as the invariant wants it.
LEMMA EnteredTable ==
  ASSUME TypeOK, EntriesInv, NEW s \in SectionType, s.number <= s.last,
         TrackThis(s)
  PROVE  LET tab == Resized(Old(s), s.last)
             new == IF tab.all THEN tab ELSE WithSection(tab, s.number)
         IN  /\ tables' = [tables EXCEPT ![s.id] = new]
             /\ new \in TableInfo /\ new.have \subseteq 0 .. new.size - 1
             /\ new.version = s.version /\ new.version # -1
             /\ new.all => new.have = 0 .. new.size - 1
             /\ new.have \subseteq tab.have \cup {s.number}
             /\ tab.all => s.number \in new.have /\ new.have \subseteq tab.have
             /\ \A n \in tab.have : <<s.id, s.version, n>> \in harvested
<1> DEFINE old == Old(s)
           tab == Resized(old, s.last)
           new == IF tab.all THEN tab ELSE WithSection(tab, s.number)
<1>1. /\ s.id \in Id /\ s.version \in 0 .. 31 /\ s.number \in Nat /\ s.last \in Nat
  BY DEF SectionType
<1>2. tables' = [tables EXCEPT ![s.id] = new] /\ old.version = s.version
  BY DEF TrackThis, Old
<1>3. /\ old \in TableInfo /\ old.have \subseteq 0 .. old.size - 1
      /\ old.all => old.have = 0 .. old.size - 1
      /\ \A n \in old.have : <<s.id, s.version, n>> \in harvested
  <2>1. CASE tables[s.id] = Blank
    <3>1. old = [version |-> s.version, all |-> FALSE, size |-> 0, have |-> {}]
      BY <2>1 DEF Old, Blank
    <3>2. QED
      BY <1>1, <3>1 DEF TableInfo
  <2>2. CASE tables[s.id] # Blank
    <3>1. old = tables[s.id]
      BY <2>2 DEF Old
    <3>2. QED
      BY <1>1, <1>2, <3>1 DEF TypeOK, EntriesInv
  <2>3. QED
    BY <2>1, <2>2
<1> HIDE DEF old
<1>4. /\ tab.version = s.version /\ tab.all = (old.all /\ s.last < old.size)
      /\ tab.size = s.last + 1 /\ tab.have = {n \in old.have : n <= s.last}
  BY <1>2 DEF Resized
<1>5. tab \in TableInfo
  BY <1>1, <1>2, <1>3 DEF Resized, TableInfo
<1>6. /\ tab.have \subseteq 0 .. tab.size - 1
      /\ tab.all => tab.have = 0 .. tab.size - 1 /\ s.number \in tab.have
      /\ \A n \in tab.have : <<s.id, s.version, n>> \in harvested
  <2>1. old.size \in Nat /\ old.have \subseteq Nat /\ old.all \in BOOLEAN
    BY <1>3 DEF TableInfo
  <2>2. tab.have \subseteq 0 .. tab.size - 1
    BY <1>1, <1>4, <2>1
  <2>3. \A n \in tab.have : <<s.id, s.version, n>> \in harvested
    BY <1>3, <1>4
  <2>4. ASSUME tab.all PROVE tab.have = 0 .. tab.size - 1 /\ s.number \in tab.have
    <3>1. old.all /\ s.last < old.size
      BY <1>4, <2>4
    <3>2. old.have = 0 .. old.size - 1
      BY <1>3, <3>1
    <3>3. QED
      BY <1>1, <1>4, <2>1, <3>1, <3>2
  <2>5. QED
    BY <2>2, <2>3, <2>4
<1> HIDE DEF tab
<1>7. /\ new \in TableInfo /\ new.have \subseteq 0 .. new.size - 1
      /\ new.version = s.version
      /\ new.all => new.have = 0 .. new.size - 1
      /\ new.have \subseteq tab.have \cup {s.number}
      /\ tab.all => s.number \in new.have /\ new.have \subseteq tab.have
  <2>1. CASE tab.all
    BY <1>4, <1>5, <1>6, <2>1
  <2>2. CASE ~tab.all
    <3>1. /\ new.version = tab.version /\ new.size = tab.size
          /\ new.have = tab.have \cup {s.number}
          /\ new.all = (0 .. tab.size - 1 \subseteq tab.have \cup {s.number})
          /\ new \in TableInfo
      BY <1>1, <1>5, <2>2 DEF WithSection, TableInfo
    <3>2. s.number \in 0 .. tab.size - 1
      BY <1>1, <1>4
    <3>3. QED
      BY <1>4, <1>6, <2>2, <3>1, <3>2
  <2>3. QED
    BY <2>1, <2>2
<1>8. s.version # -1
  BY <1>1
<1>9. QED
  BY <1>2, <1>6, <1>7, <1>8, Zenon DEF tab, old

\* Nothing entered is ever taken out of the harvest.
LEMMA HarvestGrows ==
  ASSUME NEW s, Receive(s)
  PROVE  /\ harvested \subseteq harvested'
         /\ result' \in {"OK", "NEXT"} => Key(s) \in harvested'
         /\ harvested' \subseteq harvested \cup {Key(s)}
  BY DEF Receive

\* The tracker's part of the invariant after a section.
LEMMA EntriesStep ==
  ASSUME TypeOK, EntriesInv, NEW s \in SectionType, Received(s)
  PROVE  /\ tables' \in [Id -> TableInfo]
         /\ \A i \in Id : tables'[i].have \subseteq 0 .. tables'[i].size - 1
         /\ EntriesInv'
<1>0. harvested \subseteq harvested' /\ (result' \in {"OK", "NEXT"} => Key(s) \in harvested')
  BY HarvestGrows DEF Received
<1>1. CASE TrackThis(s)
  <2> DEFINE tab == Resized(Old(s), s.last)
             new == IF tab.all THEN tab ELSE WithSection(tab, s.number)
  <2>1. /\ tables' = [tables EXCEPT ![s.id] = new]
        /\ new \in TableInfo /\ new.have \subseteq 0 .. new.size - 1
        /\ new.version = s.version /\ new.version # -1
        /\ new.all => new.have = 0 .. new.size - 1
        /\ new.have \subseteq tab.have \cup {s.number}
        /\ tab.all => s.number \in new.have /\ new.have \subseteq tab.have
        /\ \A n \in tab.have : <<s.id, s.version, n>> \in harvested
    BY <1>1, EnteredTable DEF Received
  <2>2. s.number \in tab.have \/ tab.all \/ Key(s) \in harvested'
    <3>1. ASSUME s.number \notin tab.have, ~tab.all PROVE result' = "OK"
      BY <1>1, <3>1 DEF TrackThis, Old
    <3>2. QED
      BY <1>0, <3>1
  <2> HIDE DEF tab, new
  <2>3. \A n \in new.have : <<s.id, s.version, n>> \in harvested'
    BY <1>0, <2>1, <2>2 DEF Key
  <2>4. \A i \in Id : tables'[i] = IF i = s.id THEN new ELSE tables[i]
    BY <2>1 DEF TypeOK
  <2>5. tables' \in [Id -> TableInfo]
    BY <2>1 DEF TypeOK
  <2>6. \A i \in Id : tables'[i].have \subseteq 0 .. tables'[i].size - 1
    BY <2>1, <2>4 DEF TypeOK
  <2>7. EntriesInv'
    <3> SUFFICES ASSUME NEW i \in Id
                 PROVE  /\ tables'[i].version = -1 => tables'[i] = Blank
                        /\ tables'[i].all => tables'[i].have = 0 .. tables'[i].size - 1
                        /\ \A n \in tables'[i].have : <<i, tables'[i].version, n>> \in harvested'
      BY DEF EntriesInv, Blank
    <3>1. CASE i = s.id
      BY <2>1, <2>3, <2>4, <3>1
    <3>2. CASE i # s.id
      BY <1>0, <2>4, <3>2 DEF EntriesInv
    <3>3. QED
      BY <3>1, <3>2
  <2>8. QED
    BY <2>5, <2>6, <2>7
<1>2. CASE TrackNewVersion(s)
  <2>1. tables' = [i \in Id |-> Blank]
    BY <1>2 DEF TrackNewVersion
  <2>2. QED
    BY <2>1 DEF Blank, TableInfo, EntriesInv
<1>3. CASE TrackOldVersion(s) \/ TrackNext(s)
  <2>1. UNCHANGED tables
    BY <1>3 DEF TrackOldVersion, TrackNext, tracker
  <2>2. QED
    BY <1>0, <2>1 DEF TypeOK, EntriesInv, Blank
<1>4. QED
  BY <1>1, <1>2, <1>3 DEF Received, Receive

\* A table is marked when its last section is entered, and unmarked only when it grows.
LEMMA FullStep ==
  ASSUME TypeOK, EntriesInv, FullInv, NEW s \in SectionType, Received(s)
  PROVE  FullInv'
<1>1. CASE TrackThis(s)
  <2> DEFINE tab == Resized(Old(s), s.last)
             new == IF tab.all THEN tab ELSE WithSection(tab, s.number)
  <2>1. tables' = [tables EXCEPT ![s.id] = new]
    BY <1>1, EnteredTable DEF Received
  <2>2. 0 .. new.size - 1 \subseteq new.have => new.all
    <3>1. CASE tab.all
      BY <3>1
    <3>2. CASE ~tab.all
      <4>1. new = WithSection(tab, s.number)
        BY <3>2
      <4>2. /\ new.size = tab.size /\ new.have = tab.have \cup {s.number}
            /\ new.all = (0 .. tab.size - 1 \subseteq tab.have \cup {s.number})
        BY <4>1 DEF WithSection, Resized
      <4>3. QED
        BY <4>2
    <3>3. QED
      BY <3>1, <3>2
  <2> HIDE DEF tab, new
  <2>3. \A i \in Id : tables'[i] = IF i = s.id THEN new ELSE tables[i]
    BY <2>1 DEF TypeOK
  <2>4. QED
    BY <2>2, <2>3 DEF FullInv, Known
<1>2. CASE TrackNewVersion(s)
  BY <1>2 DEF TrackNewVersion, FullInv, Known, Blank
<1>3. CASE TrackOldVersion(s) \/ TrackNext(s)
  BY <1>3 DEF TrackOldVersion, TrackNext, tracker, FullInv, Known
<1>4. QED
  BY <1>1, <1>2, <1>3 DEF Received, Receive

\* track() answers REPEAT_COMPLETE only when all tables it holds are complete.
LEMMA RepeatCompleteAll ==
  ASSUME TypeOK, EntriesInv, NEW s \in SectionType, Received(s), stopped'
  PROVE  \A i \in Known(tables') : tables'[i].all
<1>1. result' = "REPEAT_COMPLETE"
  BY DEF Received, Receive
<1>2. CASE TrackThis(s)
  BY <1>1, <1>2 DEF TrackThis, RepeatComplete
<1>3. CASE TrackNewVersion(s)
  BY <1>3 DEF TrackNewVersion, Known, Blank
<1>4. CASE TrackOldVersion(s) \/ TrackNext(s)
  BY <1>1, <1>4 DEF TrackOldVersion, TrackNext
<1>5. QED
  BY <1>2, <1>3, <1>4 DEF Received, Receive

\* A table not heard of is a table.
LEMMA BlankTable == Blank \in TableInfo /\ Blank.have = {} /\ ~Blank.all /\ Blank.version = -1
<1>1. -1 \in -1 .. 31 /\ 0 \in Nat /\ {} \in SUBSET Nat
  OBVIOUS
<1>2. QED
  BY <1>1 DEF Blank, TableInfo

\* A repeat has been entered, unless it brought a new version.
LEMMA RepeatEntered ==
  ASSUME TypeOK, EntriesInv, NEW s \in SectionType, Received(s),
         result' \in {"REPEAT", "REPEAT_COMPLETE"}, tables'[s.id] # Blank
  PROVE  Key(s) \in harvested
<1>1. TrackThis(s)
  <2>1. ~TrackNewVersion(s)
    BY DEF TrackNewVersion, SectionType
  <2>2. ~TrackOldVersion(s) /\ ~TrackNext(s)
    BY DEF TrackOldVersion, TrackNext
  <2>3. QED
    BY <2>1, <2>2 DEF Received, Receive
<1> DEFINE tab == Resized(Old(s), s.last)
           new == IF tab.all THEN tab ELSE WithSection(tab, s.number)
<1>2. /\ \A m \in tab.have : <<s.id, s.version, m>> \in harvested
      /\ tab.all => s.number \in new.have /\ new.have \subseteq tab.have
  BY <1>1, EnteredTable DEF Received
<1>3. tab.all \/ s.number \in tab.have
  BY <1>1 DEF TrackThis, Old
<1> HIDE DEF tab, new
<1>4. s.number \in tab.have
  BY <1>2, <1>3
<1>5. QED
  BY <1>2, <1>4 DEF Key
-----------------------------------------------------------------------------
\* The initial states satisfy the inductive invariant.
LEMMA InitIInv == Init => IInv
<1> SUFFICES ASSUME Init PROVE IInv
  OBVIOUS
<1>1. FirstVersion \in [Id -> 0 .. 31]
  BY TrackerConstants DEF TrackerConstants
<1>2. TypeOK
  <2>1. TypeOK!1 /\ \A i \in Id : tables[i].have \subseteq 0 .. tables[i].size - 1
    BY BlankTable DEF Init, TypeOK
  <2>2. harvested = {} /\ version = FirstVersion /\ updates = [i \in Id |-> 0]
        /\ strays = 0 /\ channels = 1 /\ result = "BLANK" /\ complete = FALSE
        /\ stopped = FALSE
    BY DEF Init
  <2>3. QED
    BY <1>1, <2>1, <2>2 DEF TypeOK, Result
<1>3. EntriesInv /\ FullInv /\ StopInv
  BY DEF Init, EntriesInv, FullInv, Known, StopInv, Blank
<1>4. QED
  BY <1>2, <1>3 DEF IInv

\* Each step keeps it.
LEMMA StepIInv == IInv /\ [Next]_vars => IInv'
<1> SUFFICES ASSUME IInv, [Next]_vars PROVE IInv'
  OBVIOUS
<1> USE DEF IInv
<1>1. ASSUME NEW s \in SectionType, Received(s), UNCHANGED channels,
             strays' \in {strays, strays + 1}
      PROVE  IInv'
  <2>1. /\ tables' \in [Id -> TableInfo]
        /\ \A i \in Id : tables'[i].have \subseteq 0 .. tables'[i].size - 1
        /\ EntriesInv' /\ FullInv'
    BY <1>1, EntriesStep, FullStep
  <2>2. StopInv'
    BY <1>1, RepeatCompleteAll DEF StopInv
  <2>3. result' \in Result /\ complete' \in BOOLEAN
    BY <1>1 DEF Received, Receive, TrackThis, RepeatComplete, TrackNewVersion,
                TrackOldVersion, TrackNext, tracker, Result, TypeOK
  <2>4. harvested' \subseteq Id \X (0 .. 31) \X Nat
    <3>1. Key(s) \in Id \X (0 .. 31) \X Nat
      BY DEF Key, SectionType
    <3>2. QED
      BY <1>1, <3>1, HarvestGrows DEF Received, TypeOK
  <2>5. stopped' \in BOOLEAN
    BY <1>1 DEF Received, Receive
  <2>6. UNCHANGED <<version, updates>>
    BY <1>1 DEF Received, Receive, broadcast
  <2>7. strays' \in Nat /\ channels' \in Nat
    BY <1>1 DEF TypeOK
  <2>8. TypeOK'
    BY <2>1, <2>3, <2>4, <2>5, <2>6, <2>7 DEF TypeOK
  <2>9. QED
    BY <2>1, <2>2, <2>8
<1>2. ASSUME NEW i \in Id, Update(i) PROVE IInv'
  <2>1. PICK j \in Jump : version' = [version EXCEPT ![i] = (@ + j) % 32]
    BY <1>2 DEF Update
  <2>2. (version[i] + j) % 32 \in 0 .. 31
    BY TrackerConstants DEF TrackerConstants, TypeOK
  <2>3. version' \in [Id -> 0 .. 31]
    BY <2>1, <2>2 DEF TypeOK
  <2>4. updates' \in [Id -> Nat]
    BY <1>2 DEF Update, TypeOK
  <2>5. UNCHANGED <<tables, complete, result, stopped, harvested, strays, channels>>
    BY <1>2 DEF Update, tracker
  <2>6. QED
    BY <2>3, <2>4, <2>5 DEF TypeOK, EntriesInv, FullInv, StopInv, Known
<1>3. CASE StartChannel
  <2>1. /\ tables' = [i \in Id |-> Blank] /\ complete' = FALSE /\ result' = "BLANK"
        /\ stopped' = FALSE /\ channels' = channels + 1
        /\ UNCHANGED <<harvested, version, updates, strays>>
    BY <1>3 DEF StartChannel, broadcast
  <2>2. TypeOK'
    <3>1. /\ tables' \in [Id -> TableInfo]
          /\ \A i \in Id : tables'[i].have \subseteq 0 .. tables'[i].size - 1
      BY <2>1, BlankTable
    <3>2. channels' \in Nat
      BY <2>1 DEF TypeOK
    <3>3. complete' \in BOOLEAN /\ stopped' \in BOOLEAN /\ result' \in Result
      BY <2>1 DEF Result
    <3>4. QED
      BY <2>1, <3>1, <3>2, <3>3 DEF TypeOK
  <2>3. EntriesInv' /\ FullInv' /\ StopInv'
    BY <2>1 DEF EntriesInv, FullInv, Known, StopInv, Blank
  <2>4. QED
    BY <2>2, <2>3
<1>4. CASE UNCHANGED vars
  BY <1>4 DEF vars, tracker, broadcast, TypeOK, EntriesInv, FullInv, StopInv, Known
<1>5. QED
  BY <1>1, <1>2, <1>3, <1>4, Steps

\* The invariant holds in every behaviour.
THEOREM Invariance == Spec => []IInv
  BY InitIInv, StepIInv, PTL DEF Spec

\* The variables have their types and completeness has no element beyond its size,
\* whatever lengths a table comes in (TableTracker::track_for_id).
THEOREM TypeCorrect == Spec => []TypeOK
  BY Invariance, PTL DEF IInv

\* When the callback stops its filter on REPEAT_COMPLETE, every section of every
\* table the tracker holds has been entered into the harvest.
THEOREM StoppedIsHarvested == Spec => []StopMeansHarvested
<1>1. IInv => StopMeansHarvested
  <2> SUFFICES ASSUME IInv, stopped, NEW i \in Known(tables), NEW n \in 0 .. 255,
                      n < tables[i].size
               PROVE  <<i, tables[i].version, n>> \in harvested
    BY DEF StopMeansHarvested
  <2>1. i \in Id /\ tables[i].all
    BY DEF IInv, StopInv, Known
  <2>2. tables[i].have = 0 .. tables[i].size - 1 /\ tables[i].size \in Nat
    BY <2>1 DEF IInv, EntriesInv, TypeOK, TableInfo
  <2>3. n \in Nat /\ n < tables[i].size
    OBVIOUS
  <2>4. n \in 0 .. tables[i].size - 1
    BY <2>2, <2>3
  <2>5. QED
    BY <2>1, <2>2, <2>4 DEF IInv, EntriesInv
<1>2. QED
  BY Invariance, <1>1, PTL

\* track() calls a section a repeat only if it has been entered, but for one that
\* brought a new version and left no table: the version's first section may then be
\* passed over unread.
THEOREM RepeatsWereEntered == Spec => NoneSkipped
<1>1. ASSUME IInv, NEW i \in Id, NEW n \in Number, OnAir(i, n),
             result' \in {"REPEAT", "REPEAT_COMPLETE"}, tables'[i] # Blank
      PROVE  <<i, version[i], n>> \in harvested
  <2> DEFINE s == Section(i, version[i], n, LastNumber[i], TRUE)
  <2>1. s.id = i /\ s.version = version[i] /\ s.number = n /\ s.current
    BY DEF Section
  <2>2. LastNumber[i] \in Nat /\ (\A l \in StrayLast : l \in Nat)
        /\ (\A j \in Id : LastNumber[j] \in Nat)
    BY TrackerConstants DEF TrackerConstants
  <2>3. n \in Nat
    <3>1. (\E j \in Id : n \in 0 .. LastNumber[j]) \/ (\E l \in StrayLast : n \in 0 .. l)
      BY Zenon DEF Number
    <3>2. QED
      BY <2>2, <3>1
  <2>4. s \in SectionType /\ s.number <= s.last /\ Receive(s)
    BY <1>1, <2>2, <2>3 DEF Section, SectionType, OnAir, IInv, TypeOK
  <2>5. Key(s) = <<i, version[i], n>> /\ Received(s)
    BY <2>1, <2>4 DEF Key, Received
  <2> HIDE DEF s
  <2>6. QED
    BY <1>1, <2>1, <2>4, <2>5, RepeatEntered DEF IInv
<1>2. IInv => (\A i \in Id, n \in Number :
                 /\ result' \in {"REPEAT", "REPEAT_COMPLETE"}
                 /\ <<i, version[i], n>> \notin harvested /\ tables'[i] # Blank
                 => ~OnAir(i, n))
  BY <1>1
<1>3. QED
  BY Invariance, <1>2, PTL DEF NoneSkipped

\* When all sections of all tables are held, the next repeat stops the filter: no
\* order of sections, nor a table that shrinks, makes it miss that it has them all.
THEOREM HeardOutIsStopped == Spec => HeardOutStops
<1>1. ASSUME IInv, NEW i \in Known(tables), NEW n \in Number, OnAir(i, n),
             \A k \in Known(tables) : 0 .. tables[k].size - 1 \subseteq tables[k].have,
             version[i] = tables[i].version, LastNumber[i] < tables[i].size
      PROVE  stopped'
  <2> DEFINE s == Section(i, version[i], n, LastNumber[i], TRUE)
  <2>1. /\ s.id = i /\ s.version = version[i] /\ s.last = LastNumber[i] /\ s.current
        /\ Receive(s)
    BY <1>1 DEF Section, OnAir
  <2> HIDE DEF s
  <2>2. i \in Id /\ tables[i] # Blank /\ tables[i].all /\ tables[i].version \in 0 .. 31
    BY <1>1 DEF IInv, FullInv, Known, Blank, TypeOK, TableInfo
  <2>3. TrackThis(s)
    BY <1>1, <2>1, <2>2 DEF Receive, TrackNewVersion, TrackOldVersion, TrackNext, Newer
  <2> DEFINE tab == Resized(tables[i], s.last)
  <2>4. tab.all /\ tab.version = tables[i].version
    BY <1>1, <2>1, <2>2 DEF Resized
  <2>5. tables' = [tables EXCEPT ![i] = tab] /\ RepeatComplete(tables')
    BY <2>1, <2>2, <2>3, <2>4 DEF TrackThis
  <2> HIDE DEF tab
  <2>6. \A k \in Id : tables'[k] = IF k = i THEN tab ELSE tables[k]
    BY <1>1, <2>5 DEF IInv, TypeOK
  <2>7. \A k \in Known(tables') : tables'[k].all
    BY <1>1, <2>4, <2>6 DEF IInv, FullInv, Known
  <2>8. result' = "REPEAT_COMPLETE"
    BY <2>5, <2>7 DEF RepeatComplete
  <2>9. QED
    BY <2>1, <2>8 DEF Receive
<1>2. IInv => (\A i \in Known(tables), n \in Number :
                 /\ \A k \in Known(tables) : 0 .. tables[k].size - 1 \subseteq tables[k].have
                 /\ version[i] = tables[i].version /\ LastNumber[i] < tables[i].size
                 => (OnAir(i, n) => stopped'))
  BY <1>1
<1>3. QED
  BY Invariance, <1>2, PTL DEF HeardOutStops
-----------------------------------------------------------------------------
\* What Newer makes of two version numbers of 5 bits.
LEMMA NewerAcrossTheWrap ==
  ASSUME NEW v \in 0 .. 31, NEW old \in 0 .. 31, (v + 32 - old) % 32 \in 1 .. 8
  PROVE  Newer(v, old)
<1>1. CASE v > old
  BY <1>1 DEF Newer
<1>2. CASE v = old
  <2>1. (v + 32 - old) % 32 = 0
    BY <1>2
  <2>2. QED
    BY <2>1
<1>3. CASE v < old
  <2>1. v + 32 - old \in 0 .. 31
    BY <1>3
  <2>2. (v + 32 - old) % 32 = v + 32 - old
    BY <2>1
  <2>3. QED
    BY <2>2 DEF Newer
<1>4. QED
  BY <1>1, <1>2, <1>3

\* A version up to 8 ahead of the one held is never answered OLD_VERSION, also
\* where the numbers wrap, and the table it replaces is forgotten.
THEOREM NewVersionsAccepted == Spec => NewerAccepted
<1>1. ASSUME IInv, NEW i \in Id, NEW n \in Number, OnAir(i, n),
             tables[i] # Blank, (version[i] + 32 - tables[i].version) % 32 \in 1 .. 8
      PROVE  result' # "OLD_VERSION" /\ tables'[i].version # tables[i].version
  <2> DEFINE s == Section(i, version[i], n, LastNumber[i], TRUE)
  <2>1. s.id = i /\ s.version = version[i] /\ s.current /\ Receive(s)
    BY <1>1 DEF Section, OnAir
  <2> HIDE DEF s
  <2>2. version[i] \in 0 .. 31 /\ tables[i].version \in -1 .. 31
    BY <1>1 DEF IInv, TypeOK, TableInfo
  <2>3. tables[i].version # -1
    BY <1>1 DEF IInv, EntriesInv
  <2>4. Newer(version[i], tables[i].version) /\ version[i] # tables[i].version
    <3>1. Newer(version[i], tables[i].version)
      BY <1>1, <2>2, <2>3, NewerAcrossTheWrap
    <3>2. CASE version[i] = tables[i].version
      <4>1. version[i] + 32 - tables[i].version = 32 /\ 32 % 32 = 0
        BY <2>2, <3>2
      <4> QED
        BY <1>1, <4>1
    <3> QED
      BY <3>1, <3>2
  <2>5. ~TrackThis(s) /\ ~TrackOldVersion(s) /\ ~TrackNext(s)
    BY <1>1, <2>1, <2>4 DEF TrackThis, TrackOldVersion, TrackNext
  <2>6. TrackNewVersion(s)
    BY <2>1, <2>5 DEF Receive
  <2>7. result' # "OLD_VERSION" /\ tables'[i] = Blank
    BY <2>6 DEF TrackNewVersion
  <2> QED
    BY <2>3, <2>7 DEF Blank
<1>2. IInv => (\A i \in Id, n \in Number :
                 /\ result' = "OLD_VERSION" \/ tables'[i].version = tables[i].version
                 /\ tables[i] # Blank /\ (version[i] + 32 - tables[i].version) % 32 \in 1 .. 8
                 => ~OnAir(i, n))
  BY <1>1
<1>3. QED
  BY Invariance, <1>2, PTL DEF NewerAccepted
=============================================================================
