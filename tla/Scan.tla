-------------------------------- MODULE Scan --------------------------------
(***************************************************************************)
(* The scan with its real channel scanner: SingleChannelScanner and its    *)
(* Freesat subclass in the place of the contract module MultiScanner       *)
(* grants them, over the section filters that call them back.              *)
(*                                                                         *)
(* A filter runs from the start of a channel until its own callback stops  *)
(* it or cancel() destroys it.  Nothing stops it when the receiver is      *)
(* tuned to the next channel: what it then delivers, from the old channel  *)
(* or the new, is taken for the channel of its start.                      *)
(***************************************************************************)
EXTENDS MultiScanner

CONSTANTS
  NitOn,       \* NIT sections broadcast on a channel
  BatOn,       \* BAT sections
  ThisSdtOn,   \* the SDT section of the channel's own transport stream
  OtherSdtOn   \* SDT sections of other ones

ASSUME BroadcastConstants ==
  /\ NitOn \in [Freq -> SUBSET Nit]
  /\ BatOn \in [Freq -> SUBSET Nit]
  /\ ThisSdtOn \in [Freq -> SUBSET Sdt]
  /\ OtherSdtOn \in [Freq -> SUBSET Sdt]
  /\ \A n \in Nit : [n EXCEPT !.services = {}] \in Nit

VARIABLES
  result,       \* nit_status_, this_sdt_status_, other_sdt_status_, bat_status_
  running,      \* filters whose callbacks are connected, unless destroyed
  seen,         \* sections each filter's TableTrackers hold
  nitComplete,  \* networks_ whose nit_complete is set
  haveTs,       \* have_current_ts_id_
  created,      \* filters whose pointers are not null, running or stopped
  locked,       \* the channel of the last lock
  several       \* history: filters have been created on two channels

started == <<created, locked, several>>
csVars  == <<result, running, seen, nitComplete, haveTs, started>>
vars    == <<msVars, csVars>>

\* The harvest policy is the Freesat scanner's own; get_filter_params() gives that
\* scanner no filter for the SDT of the tuned channel, and start() adds one for
\* the BAT.
Freesat == "SCAN_AT_LEAST_2" \in policy
Filter == {"nit", "this_sdt", "other_sdt", "bat"}
Supported == Filter \ (IF Freesat THEN {"this_sdt"} ELSE {"bat"})

Result == {"BLANK", "OK", "REPEAT_COMPLETE", "ERROR"}

\* Filters that can call back.  A section is of the channel demodulated when it
\* was captured, the one locked before or the one tuned to now.
Active == IF ctl = "idle" THEN running ELSE {}
OnAir(broadcast) == UNION {broadcast[f] : f \in {locked, tunedTo} \ {NoFreq}}
-----------------------------------------------------------------------------
\* start(): every filter is created anew and every tracker reset, but nit_complete
\* of the networks known keeps the value of the channel before.
StartChannel ==
  /\ result' = [f \in Filter |-> "BLANK"]
  /\ running' = Supported
  /\ seen' = [f \in Filter |-> {}]
  /\ haveTs' = FALSE
  /\ created' = Supported
  /\ locked' = tunedTo
  /\ several' = (several \/ locked \notin {NoFreq, tunedTo})
  /\ UNCHANGED nitComplete

LockStarts ==
  /\ Lock
  /\ IF connected THEN StartChannel ELSE UNCHANGED csVars

\* The order in which start() creates the filters: the Freesat scanner's first.
CreatedBefore(f) ==
  {g \in Supported \ {f} : g = "bat" \/ f = "other_sdt" \/ (g = "nit" /\ f # "bat")}

\* start() that throws at filter f: f and those after it are the previous channel's,
\* null at the first, and at the Freesat scanner's own so is everything else.
StartFails(f) ==
  /\ LockFails
  /\ f \in Supported
  /\ LET reset == IF f = "bat" THEN {f} ELSE Filter
     IN  /\ result' = [g \in Filter |-> IF g \in reset THEN "BLANK" ELSE result[g]]
         /\ seen' = [g \in Filter |-> IF g \in reset THEN {} ELSE seen[g]]
         /\ haveTs' = (haveTs /\ f = "bat")
  /\ running' = running \cup CreatedBefore(f)
  /\ created' = created \cup CreatedBefore(f)
  /\ locked' = tunedTo
  /\ several' = (several \/ locked \notin {NoFreq, tunedTo})
  /\ UNCHANGED nitComplete

\* Mutant: cancel() forgets the Freesat scanner's own filter.
CancelFiltersButBat ==
  /\ running' = running \cap {"bat"}
  /\ created' = {}
  /\ UNCHANGED <<result, seen, nitComplete, haveTs, locked, several>>

\* cancel(): the filters are stopped and destroyed; the results stay.
CancelFilters ==
  /\ running' = {}
  /\ created' = {}
  /\ UNCHANGED <<result, seen, nitComplete, haveTs, locked, several>>

\* Mutant: a NIT that failed is waited for.
TrackersCompleteWithNit(r) ==
  /\ Freesat => r["bat"] \in {"REPEAT_COMPLETE", "ERROR"}
  /\ "nit" \in created => r["nit"] = "REPEAT_COMPLETE"
  /\ \A f \in created \cap {"this_sdt", "other_sdt"} : r[f] # "ERROR"

\* filter_trackers_complete(): a filter that was never created is not waited for,
\* except Freesat's; the SDT counts as complete unless it failed.
TrackersComplete(r) ==
  /\ Freesat => r["bat"] \in {"REPEAT_COMPLETE", "ERROR"}
  /\ "nit" \in created => r["nit"] \in {"REPEAT_COMPLETE", "ERROR"}
  /\ \A f \in created \cap {"this_sdt", "other_sdt"} : r[f] # "ERROR"

\* Mutant: the filter is left running.
StopFilterNot(f, r) ==
  /\ result' = [result EXCEPT ![f] = r]
  /\ UNCHANGED running
  /\ IF TrackersComplete(result') THEN ChannelFinished(nitComplete' # {})
                                  ELSE UNCHANGED msVars

\* The end of a callback that stops its filter f with result r.
StopFilter(f, r) ==
  /\ result' = [result EXCEPT ![f] = r]
  /\ running' = running \ {f}
  /\ IF TrackersComplete(result') THEN ChannelFinished(nitComplete' # {})
                                  ELSE UNCHANGED msVars

FilterError(f) ==
  /\ f \in Active
  /\ UNCHANGED <<seen, nitComplete, haveTs, started>>
  /\ StopFilter(f, "ERROR")

\* The end of a callback that leaves its filter running.
KeepFilter(f) ==
  /\ result' = [result EXCEPT ![f] = IF @ = "BLANK" THEN "OK" ELSE @]
  /\ UNCHANGED <<running, started>>

\* TableTracker: a section held already is a repeat, and completes its table if
\* all sections of it are held.
Table(n) == {m \in UNION {NitOn[f] \cup BatOn[f] : f \in Freq} : m.network = n.network}

\* What is entered of a section: Freesat's processors of the NIT and the BAT pass
\* service lists over.
Entered(n) == IF Freesat THEN [n EXCEPT !.services = {}] ELSE n

\* NITProcessor::process() for the NIT and, in a bouquet, for the BAT; only the
\* NIT's own completeness decides whether the channel counts as a success.
TableSection(f, n) ==
  /\ f \in Active
  /\ UNCHANGED haveTs
  /\ LET complete == n \in seen[f] /\ Table(n) \subseteq seen[f]
     IN  /\ nitComplete' = IF f = "bat" THEN nitComplete
                           ELSE IF complete THEN nitComplete \cup {n.network}
                           ELSE nitComplete \ {n.network}
         /\ IF complete
            THEN UNCHANGED <<seen, started>> /\ StopFilter(f, "REPEAT_COMPLETE")
            ELSE /\ KeepFilter(f)
                 /\ seen' = [seen EXCEPT ![f] = @ \cup {n}]
                 /\ IF n \in seen[f] THEN UNCHANGED msVars ELSE NitData(Entered(n))

NitFilterCb == \E n \in OnAir(NitOn) : TableSection("nit", n)
BatFilterCb == \E n \in OnAir(BatOn) : TableSection("bat", n)

\* sdt_filter_cb(), before which this_sdt_filter_cb() has named the channel's
\* transport stream by its first section.
SdtSectionCb(f, d) ==
  /\ f \in Active
  /\ UNCHANGED nitComplete
  /\ IF d \in seen[f]
     THEN UNCHANGED <<seen, haveTs, started>> /\ StopFilter(f, "REPEAT_COMPLETE")
     ELSE /\ KeepFilter(f)
          /\ seen' = [seen EXCEPT ![f] = @ \cup {d}]
          /\ haveTs' = (haveTs \/ f = "this_sdt")
          /\ IF f = "this_sdt" /\ ~haveTs THEN FirstSdt(d) ELSE OtherSdt(d)

ThisSdtFilterCb == \E d \in OnAir(ThisSdtOn) : SdtSectionCb("this_sdt", d)
OtherSdtFilterCb == \E d \in OnAir(OtherSdtOn) : SdtSectionCb("other_sdt", d)

FilterCb == NitFilterCb \/ BatFilterCb \/ ThisSdtFilterCb \/ OtherSdtFilterCb
-----------------------------------------------------------------------------
ScanInit ==
  /\ Init
  /\ result = [f \in Filter |-> "BLANK"]
  /\ running = {} /\ seen = [f \in Filter |-> {}]
  /\ nitComplete = {} /\ haveTs = FALSE
  /\ created = {} /\ locked = NoFreq /\ several = FALSE

\* Where the scheduler finishes, it has called cancel().
FiltersCancelled == IF finished' THEN CancelFilters ELSE UNCHANGED csVars

ScanNext ==
  \/ (InNext \/ NoLock \/ Cancel) /\ FiltersCancelled
  \/ LockStarts
  \/ \E f \in Filter : StartFails(f)
  \/ FilterCb
  \/ \E f \in Filter : FilterError(f)

ScanSpec == ScanInit /\ [][ScanNext]_vars

\* The main loop runs next() to its end; a tune is answered within its timeout;
\* each filter is served the sections of its table again and again, or fails when
\* the demultiplexer's timeout expires.
FairScanSpec ==
  /\ ScanSpec
  /\ WF_vars(InNext /\ FiltersCancelled)
  /\ WF_vars(LockStarts \/ (\E f \in Filter : StartFails(f)) \/ (NoLock /\ FiltersCancelled))
  /\ WF_vars(NitFilterCb \/ FilterError("nit"))
  /\ WF_vars(BatFilterCb \/ FilterError("bat"))
  /\ WF_vars(ThisSdtFilterCb \/ FilterError("this_sdt"))
  /\ WF_vars(OtherSdtFilterCb \/ FilterError("other_sdt"))
-----------------------------------------------------------------------------
\* The values of the channel scanner's variables; a filter that still runs has
\* neither failed nor completed, and the transport stream is known from the
\* first section of the channel's own SDT.
ScanTypeOK ==
  /\ result \in [Filter -> Result]
  /\ running \subseteq created /\ created \subseteq Filter
  /\ seen \in [Filter -> SUBSET (Nit \cup Sdt)]
  /\ nitComplete \subseteq Network
  /\ haveTs \in BOOLEAN
  /\ locked \in Freq \cup {NoFreq}
  /\ several \in BOOLEAN
  /\ \A f \in running : result[f] \in {"BLANK", "OK"}
  /\ haveTs <=> seen["this_sdt"] # {}

\* A scan ends, unless an SDT filter has failed for good or a transport stream
\* stays PENDING on a channel that has been tried.
SdtFailed == \E f \in Filter \cap {"this_sdt", "other_sdt"} : result[f] = "ERROR"
LeftPending == \E t \in Outstanding : tuning[t] \in scannedEq
EndsUnlessStuck == []<>~SdtFailed /\ <>[]~LeftPending => <>finished

\* Whenever the main loop rests before the scan has finished, something will call
\* it back: the receiver, which answers the tune it has been asked for, or a filter
\* of a table whose completion ends the channel; unless an SDT filter has failed.
\* No order of callbacks, and no start that throws half way, leaves neither.
NeverStalls ==
  ctl = "idle" /\ ~finished /\ ~SdtFailed
    => pending # NoFreq \/ Active \cap {"nit", "bat"} # {}
-----------------------------------------------------------------------------
(* What the repository's comments say of a scan, and the code does not do. *)

\* multi-scanner.h: finished is emitted when all the channels have been scanned.  It
\* is not, even where no transport stream is left PENDING, once an SDT filter fails.
ScanEnds == <>[]~LeftPending => <>finished

\* single-channel-scanner.h: each channel of Freesat carries the data of all the
\* others, so 2 of them have to be scanned for a complete dataset.
TwoScanned ==
  finished /\ status = "COMPLETE" /\ "SCAN_AT_LEAST_2" \in policy
    => several

\* single-channel-scanner.h: in Freeview all transports the SI refers to need to
\* be scanned; so none counts as scanned on a channel that was never tuned.
CompleteMeansTuned ==
  finished /\ status = "COMPLETE" =>
    \A t \in known : scanStatus[t] = "SCANNED" /\ tuning[t] # NoFreq
                       => tuning[t] \in scannedEq
=============================================================================
