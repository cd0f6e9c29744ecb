# Verification of logi

logi scans the channels of a DVB-T or DVB-S receiver, collects what the service
information tables (NIT, SDT, BAT) say of them, and stores the result in an
sqlite database. This directory holds TLA+ models of its core, the TLC
configurations that check them on small instances, and proofs, checked by TLAPS,
of the theorems that hold for every value of the constants.

Paths below are relative to the repository (`src/scan/...`).

## 1. The system

| Component | State it keeps | Operations | Interacts with |
|---|---|---|---|
| `MultiScanner` (`src/scan/multi-scanner.*`, `scan-data.h`) | `ts_data_` (tuning, scan status), `service_data_`, names, LCNs, `current_ts_data_`, `scanned_equivalences_`, `successful_scans_`, `status_`, `finished_` | `start`, `cancel`, `next`, `check_harvest`, `lock_cb`, `nolock_cb`, `channel_finished`, data processing, `commit_to_database` | calls `Receiver::tune`, the channel scanner and the iterator; is called back by the receiver's signals and by the channel scanner |
| `SingleChannelScanner`, `FreeviewChannelScanner`, `FreesatChannelScanner` (`src/scan/`) | one section filter, status and tracker per table, `nit_complete` per network, `have_current_ts_id_` | `start`, `cancel`, a callback per filter, completion | creates section filters; reports to `MultiScanner` |
| `NITProcessor`, `SDTProcessor` (`src/scan/`) | a `TableTracker` | `process` | enter the contents of a section into the `MultiScanner` |
| `TableTracker` (`src/si/table-tracker.*`) | version and completeness of each table | `reset`, `track` | the processors |
| `Receiver`, `Frontend` (`src/receiver.*`, `src/frontend.*`) | current tuning, lock and timeout connections, device handle | `tune`, `cancel`, lock, timeout | signals lock, nolock, (detune) |
| `SectionFilter` (`src/section-filter.*`) | demultiplexer handle, I/O connection | `start`, `stop`, `io_cb` | calls the channel scanner back |
| Tuning iterators, `TuningProperties` (`src/scan/*iterator*`, `src/tuning.*`) | position; DTV properties | `next`; parse, describe, equivalence value | `MultiScanner::next` |
| `Database` (`src/db/logi-db.*`) | two queues, a mutex, a condition variable, `stop_` | `start`, `queue_*`, `thread_main`, `result_idle_callback`, `stop` | a worker thread, idle sources of the GLib main loop |
| `Sqlite3Database` (`src/db/logi-sqlite.*`) | the sqlite3 handle | statements, queries, destruction | base class `Database` |
| LCN processors (`src/scan/*lcn*`) | chosen network and region | `process` | run on the database thread |
| Sections and descriptors (`src/si/`, `src/scan/freesat-channel-scanner.cpp`) | none | loops, offsets and bit fields | pure functions, called by the processors |
| Text decoding (`src/si/`) | none | character sets, Huffman | pure functions |
| Programs (`src/tests/`) | the chosen network and region | `fvscan`, `fsscan`: scan, then commit and map; `tune` | all of the above |
| udev client, scripts, table generator | - | - | not part of a scan |

What is hard here:

* **Re-entrance.** Everything but the database worker runs in the GLib main loop,
  but `Receiver::tune` emits `nolock` before it throws, so `MultiScanner::next` is
  entered from inside itself; a filter's callback ends its channel, which starts
  the next tune and destroys filters, from inside that callback.
* **Leftovers.** The filters of a channel go on when the receiver is tuned away:
  their sections arrive in the next channel's time. A tune that is refused leaves
  its watch and its timer, a start that throws leaves half of its filters.
* **Numbers that are used again.** Connections outlive their sources, and file
  descriptors are closed more than once while the kernel gives them out again.
* **Lost wakeups.** The worker waits on a condition variable with no predicate.
* **Destruction.** A callback may destroy the object that is calling it, a
  subclass closes the handle under a running worker.
* **Commits cut short.** Nine statements are run row by row in no transaction; a
  program that is killed, or a statement that throws, leaves tables that fit one
  another only in part, and rows are replaced but never deleted.
* **Broadcast.** Sections come in any order, repeated, of several tables, with
  versions that wrap at 32, and may be of another multiplex. They are loops nested
  by length fields, read by offsets of offsets.
* **Rounding.** Channels are the same to a scan when their frequencies round to
  the same value, from three sources that do not write a frequency alike.

What makes each part correct: a scan ends, says truly how complete it is, and has
tried all it could; results do not change after `finished`; a channel scanner only
reports while it has filters; a filter stops when every section of its tables has
been entered and not before, and no section is skipped; a tune is answered once,
and by its own sources; a descriptor is open for one filter only; the database
executes statements in order, calls each result back once, and after all that
precedes it; a commit leaves what the scan found and a channel number never leads
nowhere; what is read of a section is what was written; no channel is passed over
for one it is not.

## 2. Modules

```
StatementService  <--refines--  Database                  DatabaseProofs
MultiScanner  <--EXTENDS--  Scan                          ScanProofs
Tuner  <--refines--  Receiver                             ReceiverProofs
TableTracker                                              TableTrackerProofs
ChannelStore  <--EXTENDS--  Channels                      ChannelsProofs, CommitProofs
Tuning  --INSTANCE-->  Sections                           SectionsProofs, TuningProofs
MCScan, MCTableTracker, MCChannels, MCTuning: constants of the TLC runs
```

How they fit together: MultiScanner is told by a receiver that it is locked or not
(Tuner is what it relies on there, Receiver has the sources behind that), and by a channel scanner what it heard
(Scan has the channel scanner, TableTracker the trackers of its filters, Sections
the bytes). It names channels by equivalence values (Tuning has their numbers).
What it collects is in its maps, which Channels commits, by two functions that are
two statements of Database.

**MultiScanner** models `multi-scanner.cpp`. `ctl` and `frames` are the call stack
of the main loop: `"idle"`, at the top of `next()` (`"next"`, where `check_harvest`
is evaluated) or in its loop (`"loop"`), with `frames` calls suspended in a
failed `tune`. `CheckHarvest`, `TuneDiscovered`, `TuneLeftover`, `TuneIterated` and
`Exhausted` are the steps of `next()`; `Lock`, `LockFails` and `NoLock` are the
receiver's answers; `NitData`, `FirstSdt`, `OtherSdt` and `ChannelFinished` are the
calls of the channel scanner, granted by its *contract*, `Report`: any of them at
any time while it has filters. A channel is its equivalence value, the only thing
`next()` compares; a section is a record of what the scheduler looks at. `Cancel`
is the application's call, or the destructor.

Reading notes for `next()`. The search for discovered transport streams assigns
`props` in the loop's condition, so when it ends without a match the tuning of
the last PENDING one is still there (`LeftInProps`): `TuneLeftover` is the code's
behaviour. `TuneFails` is `nolock` emitted inside `tune`: if the signal still is
connected a new call of `next()` begins and, when it returns, the loop of the
suspended one goes on (`Return` yields `"loop"`), also after `finished`. When the
nested call has tuned successfully, the suspended one still tunes on to another
channel: the nested one is left before its lock, and counts as tried. `LockFails`
is a lock whose channel cannot be started: the exception of a filter that is not
opened goes through `MultiScanner::lock_cb` into `Receiver::lock_cb`, whose `catch`
emits `nolock`.

**Scan** EXTENDS it and puts the real channel scanner in the contract's place: the
four filters (`nit`, `this_sdt`, `other_sdt`, and for Freesat `bat`), the result of
each, what their trackers hold, `nit_complete`, and the completion rule of both
scanners. `StartFails(f)` is `LockFails` seen from here: the filters created before
`f` run, the others are the previous channel's. `OnAir` lets a filter receive
sections of the channel locked last and of the one tuned to now. Trackers are
simplified here to single-version tables (a section held is a repeat; all held and
one repeated is complete); module TableTracker has them in full. `created` are the
filters whose pointers are not null, running or stopped: the completion rule does
not wait for one that was never created, which a first start that throws leaves
behind (`StartFails`), and `cancel()` destroys them all (`CancelFilters`). `locked` is
the channel of the last lock, and `several` remembers whether filters have been
created on two channels.

**Tuner** is the abstract promise of `receiver.h`, as a scan needs it: a tune is
answered once unless it is cancelled or replaced, and `current_tuning()` is the
channel waited for or answered last. **Receiver** models `receiver.cpp` with the parts of `frontend.cpp` and
`section-filter.cpp` it works on. A `sigc::connection` names one source, also after
that source is gone, so sources are numbered: `watches` and `timers` are those
alive, `lockConn` and `timeoutConn` what the receiver's connections name, and a
source no connection names could be stopped by nobody. The frontend device is its
queue of status events, with the overflow it reports once. `tune()` has three
outcomes (the frontend is not opened; the device refuses; it is tuned), `lock_cb`
four. Signals are emitted at the end of the functions, so what their handlers call
is a step of its own, and `signal` remembers what the last step emitted. A new
filter in an old one's place is opened before the old one is destroyed
(`StartFilter`), which calls `stop()` again for a filter stopped before. `Promise`
maps it to Tuner: a tune that is outstanding waits for `tunedTo`, one that was
refused has left an answer astray.

**TableTracker** models `table-tracker.cpp` with the two processors' use of it and
the broadcast it listens to: tables of several sections and one-section tables,
updates of the version, sections that announce a next version, sections of
another multiplex with another version or length, and a new channel. A new version
makes `track_for_id` reset the map it holds a reference into; what it then reads
is undefined, so `TrackNewVersion` allows each result the rest of the function can
yield. `harvested` records what was entered.

**StatementService** is the abstract promise of `logi-db.h`; **Database** models
`logi-db.cpp` at the grain of its lock operations: every acquisition and
release, the two halves of `cv_.wait` (`Wait`, `WakeUp`), the test of `stop_`
without the lock, the execution outside it. `Notify` changes only a worker that is
waiting, which is how a notification is lost. The main thread is in the main
loop, draining results, in a callback (from which it may queue, stop or destroy)
or inside `stop()`. `Service` maps it to StatementService: a statement popped and
not executed is still `todo`; one executed whose result is not pushed yet is
already in `results`; destruction is `Discard`.

**ChannelStore** is the meaning of `logi-sqlite.cpp`: a table is a set of rows, an
insertion meets its primary key and REPLACEs or is IGNOREd, a query is the set of
rows it selects. No query that matters is ordered, so "the first row" is any.
**Channels** EXTENDS it with what happens from a section to the client's channel
numbers. `HearNit`, `HearFreesatNit`, `HearBat` and `HearSdt` enter sections into
the scanner's maps as the processors do. `Finish` is `finished_cb`, which queues
`commit_to_database` and the program's `lcn_fn`. The commit goes through nine
statements, each one row after the other in the order of the map it is filled
from, which decides which of two rows with one key stays; `CommitFails` is a
statement that throws (the queue goes on with `lcn_fn`). `MapLcns` is `lcn_fn` with
the two LCN processors: the choice of network and region, of an id for each channel
number and of a service for that; `EnterClientLcn` enters the rows. `RunAgain` is the
program run again, after its end or killed at any point, on the tables as they are;
`before`, `whole` and `cut` are history.

**Sections** has the classes of `src/si` and the descriptors of the two channel
scanners as offsets into a sequence of bytes, first half, and in the second half
how a broadcaster writes a section (EN 300 468), and which ones (`Nit`, `Bat`, `Sdt`:
numbers that fit their fields, loops that their lengths can count); that half is not
in the repository and is marked external. **Tuning** has tunings as records of their dtv properties: made
of a terrestrial or satellite descriptor, parsed from a line, or counted by an
iterator; the low noise block's arithmetic; the equivalence value with voltage
bits; and the three programs that tune. Which of a heard transport stream and the
iterator comes next is MultiScanner's; here either may. Every section it hears is
written by Sections and read again (`Read`).

Definitions called "Mutant" or "For comparison" in their comments are variants of the
code with a plausible error; no specification uses them. Each shows that a
property would notice that error.

## 3. Runs

| Run | Instance | Checks |
|---|---|---|
| `scan` | 2 described multiplexes and an empty channel (2 of the 3 from the iterator), Freeview and Freesat, 2 nested calls of `next()`, starts that throw at any filter | `TypeOK`, `ScanTypeOK`, `FinalStatusExact`, `NothingLeftUntried`, `TunedWhileHeard`, `NeverStalls`, `ResultsFrozen`, `EndsUnlessStuck` |
| `receiver` | 2 channels, 3 tunes, event queue of 2, 2 filters on 3 descriptors | `TypeOK`, `SourcesHeld`, `LockNotElsewhere`, `DescriptorsOwned`, `SignalsAwaited`, `AnswerComing`, `TuneAnswered`, `ImplementsTuner` |
| `table_tracker` | 2 tables (2 sections; 1 section, near the version wrap), one update each, one stray section, two channels | `TypeOK`, `StopMeansHarvested`, `NoneSkipped`, `NewerAccepted`, `HeardOutStops`, `EveryChannelCompletes` |
| `database` | 3 statements, 2 of them with a result | `TypeOK`, `CallbackAfterAll`, `ResultHasSource`, `ImplementsService`, `ExecutedIsForwarded`, `AwakeExecutesAll` |
| `channels` | 2 networks, 2 bouquets, 2 SDT sections, a service that moves, regions and the universal one, a provider whose name begins with a digit and one that changes, 2 runs of either program | `TypeOK`, `NoDanglingLcn`, `CommitExact`, `LcnAsGiven` |
| `tuning` | 5 NIT sections, 2 BAT and 2 SDT sections, 4 of Freeview's channels, all 9 of Freesat's presets, 5 lines | `TypeOK`, `ReadAsWritten`, `SkippedWasTuned`, `WithinRange`, `LineKeepsTuning` |

Runs that show where the code departs from its own documentation (each has one
property, violated):

| Run | The documentation | The code |
|---|---|---|
| `scan_ends` | `multi-scanner.h`: `finished` is emitted when all channels have been scanned | an SDT filter's error holds its channel, and the scan, for ever (`== ERROR` for `!=`), also with no transport stream left `PENDING` |
| `two_scanned` | `single-channel-scanner.h:70`: of Freesat 2 channels have to be scanned for a complete dataset | a filter that outlives its channel ends it a second time, and `channel_finished` counts calls, so one channel counts as two |
| `complete_means_tuned` | `single-channel-scanner.h`: in Freeview all transports need to be scanned | the last transport stream of a NIT is marked scanned for the one tuned to |
| `callback_runs` | `logi-db.h`: a callback when all preceding statements have been executed | its notification can be lost |
| `not_closed_at_work` | `logi-db.h`: subclasses should call `stop()` in their destructors | the handle is closed under the worker |
| `discovered_tuned` | `multi-scanner.cpp:109`: look for any discovered transports that have not been scanned yet | both branches of `sat-delsys-descriptor.cpp:52` give 13 V, so a horizontal transport stream of the NIT is itself tuned as a vertical one (a preset of its frequency with H has 18 V, another equivalence value, and would still be tuned) |

Other departures met on the way, which the models have as the code has them, with
no run of their own:

* a channel left in `props` is tuned a second time (`TuneLeftover`), although
  `multi-scanner.h` keeps `scanned_equivalences_` so that none is;
* the branch of `check_harvest` for `FIND_ALL_SERVICES` is written the wrong way
  round: it answers "not complete" when all services are scanned
  (`multi-scanner.cpp:300-315`, against `single-channel-scanner.h:80-84`). No channel
  scanner has that policy, and `ScanConstants` excludes it: nothing checked or proved
  here speaks of that branch, which `HarvestComplete` has as the code has it;
* a nested `next()` that has tuned is abandoned by the one below it, and its channel
  counts as tried;
* `tune` emits no `detune`, of which `receiver.h` speaks, so filters go on;
* `REPEAT_COMPLETE` may be answered after a new version with no table held
  (`table-tracker.h`);
* the query that should return a provider's row id selects its name, which is read
  as an integer (`logi-sqlite.cpp:236-242`, `ProviderIds`): the number the name begins
  with (`LeadingNumber`), mostly 0; and since that table's insertion is `OR IGNORE`, a
  service keeps the first such number when its provider changes (`CommitExact` says
  so);
* a Freeview channel number goes to its first id in the tables, of any network
  (`freeview-lcn-processor.cpp`, `Candidates`);
* `fsscan` takes the list of regions from the first bouquet (`RegionsFor`);
* a satellite descriptor's roll-off is cast to the driver's enumeration, in which
  20 and 25 are in the other order (`SatelliteTuning`).

### Bounds

* `MaxFrames` bounds nested calls of `next()`. With 2, a call that resumes does so
  into another suspended call and into the main loop, which are all the cases. The proofs
  are for every `MaxFrames`. A `tune` beyond the bound does not fail.
* `successful` is counted to 2, the only number it is compared with.
* `MaxTunes` bounds the tunes that get as far as connecting: three are one that is
  outstanding, one refused over it, and one after both. `MaxEvents` is the frontend
  queue's length; with 2 it overflows and is emptied in between. Three descriptors
  for two filters leave one that is closed and given out again.
* `MaxUpdates`, `MaxStrays` and `MaxChannels` bound the broadcast's changes. One
  update of each table makes a reset happen with the other table held or not; one
  stray section can lengthen, shorten or re-version a table; a second channel
  starts with what the first harvested.
* Statements are queued at most once each. Three suffice for one in execution, one
  in the queue and a result in the other.
* `MaxRuns`: in two runs a second scan, of another or the same broadcast, meets what
  a first left, whole or cut at any row. A service moves to another transport stream
  and number between them, and one number is two services' in one broadcast.
* The channels of `tuning` include a frequency that the NIT gives with the usual
  offset below and above a bin's edge, and one of no channel; the presets are all
  of the program's. Sections have empty and full loops, unknown descriptors before
  known ones and two names, and one transport stream has a delivery system of each
  kind, the terrestrial one, which Freesat's processor passes over, first.
  Frequencies are bounded by 2 GHz (2000000000 kHz for satellites), below which the
  program's 32 bit products do not overflow.

The proofs are for every value of these bounds.

Deadlock is checked where the system cannot stop by itself: the scan and
the receiver, which can always be cancelled. It is off for the others: a stopped or
destroyed database stops, as does a filter that has been stopped, and the programs
of `channels` and `tuning` end.

### Fairness

* Database: strong fairness of each thread, since a thread that wants the mutex may
  find it taken again and again, and an operating system's mutex does not starve
  it for ever. None of spurious wakeups (allowed, never promised) nor of the
  program's calls.
* Receiver: weak fairness of each timer, which expires and is dispatched by the main
  loop. None of the device: that an answer comes rests on the timer alone.
* Scan: weak fairness of `next()` (the main loop runs a call to its end), of the
  receiver's answer (`TuneAnswered` is why), and for each filter of "a section or an
  error": the demultiplexer is given a timeout of 5 s and reports it as an error,
  and a broadcast repeats its sections. `EndsUnlessStuck` names the two ways in
  which the code still may not end: an SDT filter in error, and a transport stream
  PENDING on a channel already tried.
* TableTracker: weak fairness of each section on the air, since a carousel repeats
  them all. Updates are bounded, so in the end a version lasts long enough.

## 4. Proofs

The assumptions are the named `ASSUME`s of the modules (`ScanConstants`,
`BroadcastConstants`, `StatementConstants`, `TrackerConstants`, `ReceiverConstants`,
`ChannelConstants`, `TextConstants`, `TuningConstants`): types of the constants, that the
harvest policy is one of the two scanners', that a section's
last transport stream is one it lists, that a section lists a transport stream or a
service once, that a tuning gives each property once (`OneValueEach`: each delivery
system descriptor is turned into a list with no repetition), that lines and
presets are complete, and that the sections on the air are ones the format can
express (`Sec!Nit`, `Sec!Bat`, `Sec!Sdt`).

* **ScanProofs**, first part, proves four safety properties of MultiScanner for
  every set of channels, broadcast and depth, and for any channel scanner that keeps the
  contract. `FinalStatusExact` states what each policy asks for in its own words
  (`PolicyMet`), apart from the code's test; `VerdictExact` is that the test, for the
  policies there are, comes to that. It is not inductive:
  between `check_harvest` and the end of the loop nested calls run. The
  strengthening `IInv` adds `QuietInv` (once finished, neither the receiver nor
  a filter reaches the scanner, and `next()` is not entered), `VerdictInv` (while
  any call is in its loop the stored status is that of the harvest: a nolock in
  between has passed `check_harvest` again) and `IterInv` (what the iterator
  has passed was tried, so that exhaustion means all were). `TunedWhileHeard` is
  inductive with `QuietInv`: a call of `next()` comes back to the main loop only with
  a channel tuned or with the scanner disconnected, so the late answer to a refused
  tune, which `Tuner` allows (`stray`), never reaches a scan.
* **ScanProofs**, second part, is about the real channel scanners. That a filter's
  callback is a report the contract grants, or none, and that filters are running only
  while the scheduler takes its scanner for listening (`FiltersHeard`, which
  `ListeningStays` keeps and which no definition of module Scan says), makes every step one
  of the scheduler's (`ScanStep`, `ScanIsScheduled`). So the final status and what it
  says of the harvest hold with leftover filters and starts that throw half way
  (`ScanStatusCorrect`). The channel scanner's own
  `ScanTypeOK` is proved by itself. `NeverStalls`, what
  `EndsUnlessStuck` needs of every state, rests on `RestInv`: only filters the harvest
  policy has are ever active or have a result, and while the main loop rests with no
  tune to be answered the channel is not complete by its completion rule and every
  filter that has stopped has completed or failed. So a NIT or BAT filter is still
  active, or an SDT filter failed. That `next()` leaves no such rest behind, but a tune
  or an end, is `NextNeverRests`.
* **ReceiverProofs** proves the five safety properties and `SignalsAwaited`. The
  conjunct that makes them inductive is `AnswerInv`: a tune is outstanding, or was
  refused, if and only if both of its sources live, and what the receiver takes for its tuning is nothing
  or what the device is set to. `DescriptorsOwned` is inductive as it stands, in
  whatever order filters are stopped and replaced. `AnswerComing`, what
  `TuneAnswered` needs besides a timer that expires, is a part of it; and with it each
  step of the receiver is one of Tuner
  (`TunerStep`): a callback is a `Reply` (`CallbackReplies`), a refused tune `Fail`, and
  what the device or a filter does is none.
* **TableTrackerProofs**: the inductive invariant says that every section a table
  holds has been entered under that table's version, and that a complete table
  holds all of its sections. The reset by a new version leaves no table, so it
  preserves this although what the call then does is undefined. The invariant also
  bounds the versions held, from which `NewerAccepted` is arithmetic modulo 32: a
  version 1 to 8 ahead is never answered as old, also across the wrap, and the table
  it replaces is forgotten. Whether that section is itself entered is not said: its
  answer is read from the freed table, so `NoneSkipped` exempts it, and it may be passed
  over until the carousel repeats it. `FullInv`, the
  converse of what makes a stop right, says that a table is complete as soon as it
  holds all of its sections; it is why a filter that has heard everything stops at
  the first repeat (`HeardOutStops`).
* **DatabaseProofs**: no property of the queues is inductive without the history of
  submissions. `OrderInv` says where each statement is: `executed` is a prefix of
  `submitted`, then comes the statement in execution, then the queue; `OnceInv`,
  that no statement is queued twice; `ResultInv`, that what is in the result
  queue, or was called back, has been executed. Callbacks then come last, for a
  result's position in `submitted` bounds those of all that precede it.
  `SourceInv` and `StopInv` give every result an idle source or a running drain,
  and the step-by-step refinement of StatementService needs `TypeOK` for
  the worker's `stmt` and `StopInv` for the end.
* **ChannelsProofs** proves that rows have their tables' columns and that no channel
  number dangles, for every broadcast and any number of runs. `DanglingInv` follows
  a service on its way: what is listed for a transport stream is in
  `service_data_`; what is in `transport_services` is in `service_ids`, or (until
  that statement has been run) in the scan being committed; the rows the LCN
  processors are about to enter were found in their tables; and an insertion under
  a primary key that is the service never takes a service away.
* **CommitProofs** proves `CommitExact`. In `CommitInv` the statement being run has
  entered its rows but `todo`, those before it all of theirs, those after it none:
  `Exact(t, R)` says that a table is its old rows of other keys and the last of each
  key in R; for the tables whose insertion is `OR IGNORE`, its old rows and those of R of
  new keys (`IgnoredRowsOnce`: R has one row for each key). Two rows with one primary key differ in the order of the map they come
  from, so one of them is entered later and stays; for the tunings' rows that is
  where `OneValueEach` is needed. It also proves `LcnAsGiven`: in `MapInv` the row of
  a number that is given with no doubt is still to be entered, or in the table with
  no other row of its number to come.
* **TuningProofs** proves that what is given to the receiver can be compared, that
  the rounding loses no channel (`Tried`: every value in `scannedEq` is that of a
  tuning that was tuned, and what the iterator has passed has its value there; two
  frequencies with one value are within 2 MHz), and that the oscillators cancel
  (`AllConverted`: each tuning of a satellite is what one of its frequencies leaves
  below the oscillator its tone names). `LineKeepsTuning` needs to know where a tuning
  comes from: `AllDescribable` says that a terrestrial one has only properties a line
  can say, in words of the line's tables, whichever of descriptor, iterator and line
  it was made of. Each table is one to one, so a word's name gives the word back; the
  tokens of `Described` and the properties of `ParsedT` are then compared one by one.
  `SectionsReadAsWritten` is `ReadBack` of SectionsProofs for every step that hears a
  section.
* **SectionsProofs** proves that every NIT, BAT and SDT that may be broadcast is read
  as it was written: `NitReadAsWritten`, `BatReadAsWritten`, `SdtReadAsWritten`.
  `StandsAt(s, o, b)` says that the bytes `b` are in `s` from `o` on; `Split` takes what
  was put together apart again, piece by piece, and each piece is a number by its
  digits to the base 256 or 100. A loop is a sequence of items joined by `FlattenSeq`.
  `WalkFindsAll` says that the walk over it, which adds the size it computes at each
  item, visits exactly the items, each where it stands, and ends behind the last; all
  it needs of an item is that it has a byte and that its computed size is its length.
  That is shown once for each kind of item (descriptors, transport streams, services,
  list entries, regions, channel numbers with pairs). What the items yield, joined, is
  what was written, where the descriptors a reader looks for are one block of the loop
  (`FlattenBlock`, `FlattenOne`, `FlattenAny`) and all others yield nothing.

  Both walk and `FlattenSeq` are recursive functions, and the library's induction
  theorems cannot be instantiated by these provers. The proofs go by a least
  counterexample instead: were the set of steps that break the claim not empty, it had
  a least element (`Least`, from the well-foundedness of `<` on the naturals), whose
  predecessor satisfies the claim, and one step from there contradicts it.

`LineKeepsTuning` is stated, and proved, for what `Standard` names: of other tunings it
is false. `describe` rounds a bandwidth of 7.5 MHz, and a frequency below 1 MHz is read
as kHz or MHz; no broadcast has either, though a line may.

`SatelliteReadAsWritten` has an exception the proof brought out:
`symbol_rate()` reads eight BCD digits and divides by ten, but the last of them is the
code of the inner error correction, which is no decimal digit. A code above 9 carries:
with code 15, a channel without convolutional coding, the rate is read as one unit
(100 symbols a second) too high. That is why `SatelliteSystem`, what may be broadcast
of a satellite where the whole is proved to be read as written, has codes up to 9;
`SatelliteReadAsWritten` says what is read for all sixteen.

Only model-checked: liveness (`EndsUnlessStuck`, `ExecutedIsForwarded`,
`AwakeExecutesAll`, `EveryChannelCompletes`, `TuneAnswered`), which is out of the
prover's reach, but for what `NeverStalls`, `HeardOutStops` and `AnswerComing` say of
single states and steps. Every invariant and every action property that a passing run
checks is also a theorem.

## 5. Not modelled

* `Database::start` and its promise: with a failed `open()` the program ends there.
* Character sets and Huffman codes; a text in Sections is its bytes.
* What sqlite does inside a statement, indexes, its busy wait; the table of sources,
  which nothing reads; service types and the scrambling flag in the rows.
* `TuningProperties`: the wording of `describe` for satellites, errors of malformed
  lines and lines with missing tokens, and `append_prop`, `merge`, `clear` and
  `operator==`, which nothing calls.
* `SectionFilter`'s slot in `detune`, which nothing emits; `Frontend::close` and the
  enumeration of delivery systems, which no scan calls (`frontend.cpp` leaves its
  mutex locked when `open()` throws in there).
* Descriptors nothing reads (DVB-T2, extension); sections that are malformed.
* udev, scripts and the table generator: not part of a scan.
* The behaviour after an object has been used when deleted: the models end there
  (`Join` when a callback destroyed the database) or allow every outcome
  (`TrackNewVersion`). Sections announced for later (NEXT) are entered as the code
  enters them.

## 6. What is left

1. Channels as the client of StatementService: the commit and `lcn_fn` as two of its
   statements, with the program's exit as a third.
2. The LCN processors' choice of a region, once the list is that of the bouquet.
3. MultiScanner on the Receiver itself, with its sources and stray answers, in place
   of the single answer to each tune that MultiScanner assumes.
