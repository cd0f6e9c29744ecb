---------------------------- MODULE MultiScanner ----------------------------
(***************************************************************************)
(* The scan of a whole set of channels (scan/multi-scanner.cpp).           *)
(*                                                                         *)
(* A MultiScanner picks a channel, asks the Receiver to tune to it, and on *)
(* a lock starts the channel scanner, whose section filters report what    *)
(* they find (transport streams, services) and in the end that the channel *)
(* is finished; then the next channel is picked.  Everything runs in the   *)
(* GLib main loop, but not one handler after the other: Receiver::tune     *)
(* that fails emits nolock BEFORE it throws, so next() is entered again    *)
(* from inside next(), any number of times.  ctl and frames are that call  *)
(* stack; a channel is its tuning's equivalence value, the only thing      *)
(* next() compares.                                                        *)
(*                                                                         *)
(* The channel scanner appears here by its contract alone: while it has    *)
(* filters it may report any section, or a finished channel, at any time.  *)
(* Module Scan puts the real one in its place.                             *)
(***************************************************************************)
EXTENDS Naturals, Sequences, FiniteSets

CONSTANTS
  TS,         \* keys of ts_data_: numbers, because next() goes by their order
  NoTS,       \* current_ts_data_ is null
  Freq,       \* equivalence values of tunings
  NoFreq,     \* a null TuningProperties
  Service,    \* keys of service_data_
  Channels,   \* what the TuningIterator yields, in order
  Network,    \* network and bouquet ids
  Nit,        \* the NIT and BAT sections that may be received
  Sdt,        \* the SDT sections that may be received
  Policies,   \* the values check_harvest_policy() may have
  MaxFrames   \* bound on next() calls suspended in a failed tune

\* A section of a network's NIT lists transport streams, the last one last, with
\* the channel of those whose delivery system it gives, and services.  A BAT
\* section is one of a bouquet, which gives neither.
NitSection ==
  [network : Network, ts : SUBSET TS, last : TS,
   freq : [TS -> Freq \cup {NoFreq}], services : SUBSET Service]

SdtSection == [ts : TS, services : SUBSET Service]

ASSUME ScanConstants ==
  /\ TS \subseteq Nat
  /\ NoTS \notin TS
  /\ NoFreq \notin Freq
  /\ Channels \in Seq(Freq)
  /\ Nit \subseteq NitSection
  /\ \A n \in Nit : n.last \in n.ts
  /\ Sdt \subseteq SdtSection
  /\ Policies \subseteq {{"SCAN_AT_LEAST_2"}, {"SCAN_ALL_DISCOVERED_TS"}}
  /\ MaxFrames \in Nat

VARIABLES
  known,       \* keys present in ts_data_
  scanStatus,  \* scan_status_ of each of them
  tuning,      \* tuning_ of each of them
  services,    \* keys present in service_data_
  described,   \* those whose scanned flag is set
  current,     \* current_ts_data_
  scannedEq,   \* scanned_equivalences_
  iterPos,     \* the iterator's next channel
  successful,  \* successful_scans_, counted as far as it is compared
  status,      \* status_
  finished,    \* finished_
  connected,   \* the receiver's signals reach this scanner
  listening,   \* channel_scanner_ has filters: started and not cancelled
  pending,     \* the channel the receiver waits for a lock on
  tunedTo,     \* the receiver's current tuning
  policy,      \* channel_scanner_->check_harvest_policy()
  ctl,         \* where the main loop's call stack is: "idle", in "next" or its "loop"
  frames,      \* calls of next() suspended below it
  cancelled    \* history: the application cut the scan short

harvest == <<known, scanStatus, tuning, services, described, successful>>
verdict == <<status, finished, connected, listening, cancelled>>
tuner   == <<pending, tunedTo>>
pick    == <<current, scannedEq, iterPos>>
stack   == <<ctl, frames>>
msVars  == <<harvest, verdict, tuner, pick, stack, policy>>

EnoughScans == 2

Outstanding == {t \in known : scanStatus[t] = "PENDING"}

\* Discovered transport streams next() may pick: still PENDING, and tunable on
\* a channel not tried yet.
Untried == {t \in Outstanding : tuning[t] # NoFreq /\ tuning[t] \notin scannedEq}
-----------------------------------------------------------------------------
(* Completion: check_harvest and cancel.                                   *)

\* The third test is written the wrong way round: all_of of the scanned flags is
\* what FIND_ALL_SERVICES asks for, and check_harvest() returns false on it.  No
\* channel scanner has that policy, so neither has Policies.
HarvestComplete ==
  /\ "SCAN_AT_LEAST_2" \in policy => successful >= EnoughScans
  /\ "SCAN_ALL_DISCOVERED_TS" \in policy => Outstanding = {}
  /\ "FIND_ALL_SERVICES" \in policy => services # described

\* The status check_harvest() stores.
Verdict ==
  IF known = {} \/ services = {} THEN "BLANK"
  ELSE IF HarvestComplete THEN "COMPLETE" ELSE "PARTIAL"

\* Mutant: cancel() forgets the channel scanner's filters.
DoCancelKeepingFilters ==
  /\ finished' = TRUE
  /\ connected' = FALSE
  /\ UNCHANGED listening

\* cancel(): the receiver itself goes on with what it was doing.
DoCancel ==
  /\ finished' = TRUE
  /\ connected' = FALSE
  /\ listening' = FALSE

\* The application calls cancel(), or destroys the scanner.
Cancel ==
  /\ ctl = "idle"
  /\ DoCancel
  /\ cancelled' = (cancelled \/ ~finished)
  /\ UNCHANGED <<harvest, status, tuner, pick, stack, policy>>
-----------------------------------------------------------------------------
(* next(), one step at a time, from the top of the innermost call.         *)

\* The innermost call returns, into the catch block of the one below it.
Return ==
  /\ ctl' = IF frames = 0 THEN "idle" ELSE "loop"
  /\ frames' = IF frames = 0 THEN 0 ELSE frames - 1

CheckHarvest ==
  /\ ctl = "next"
  /\ status' = Verdict
  /\ IF Verdict = "COMPLETE"
     THEN DoCancel /\ Return
     ELSE ctl' = "loop" /\ UNCHANGED <<frames, finished, connected, listening>>
  /\ UNCHANGED <<harvest, cancelled, tuner, pick, policy>>

\* Mutant: a nolock goes on to the next channel without check_harvest().
NoLockCbUnchecked(t) ==
  /\ scanStatus' = IF t = NoTS THEN scanStatus
                   ELSE [scanStatus EXCEPT ![t] = "FAILED"]
  /\ ctl' = "loop"

\* nolock_cb(), in a call of its own: next() is entered from the top.
NoLockCb(t) ==
  /\ scanStatus' = IF t = NoTS THEN scanStatus
                   ELSE [scanStatus EXCEPT ![t] = "FAILED"]
  /\ ctl' = "next"

TuneSucceeds(f) ==
  /\ pending' = f
  /\ tunedTo' = f
  /\ Return
  /\ UNCHANGED harvest

\* nolock is emitted inside Receiver::tune and reaches nolock_cb() before the
\* exception reaches the catch block of this call.
TuneFails(t) ==
  /\ pending' = NoFreq
  /\ tunedTo' = NoFreq
  /\ IF connected
     THEN frames < MaxFrames /\ frames' = frames + 1 /\ NoLockCb(t)
     ELSE UNCHANGED <<frames, scanStatus, ctl>>
  /\ UNCHANGED <<known, tuning, services, described, successful>>

Tune(f, t) ==
  /\ ctl = "loop"
  /\ scannedEq' = scannedEq \cup {f}
  /\ current' = t
  /\ TuneSucceeds(f) \/ TuneFails(t)
  /\ UNCHANGED <<verdict, policy>>

\* The first transport stream discovered and not tried.
TuneDiscovered ==
  \E t \in Untried :
    /\ \A u \in Untried : t <= u
    /\ Tune(tuning[t], t)
    /\ UNCHANGED iterPos

\* The search leaves the tuning of the last PENDING transport stream in props
\* when it ends without a match: that channel is tuned, tried already or not.
LeftInProps == {t \in Outstanding : \A u \in Outstanding : u <= t}

TuneLeftover ==
  /\ Untried = {}
  /\ \E t \in LeftInProps : tuning[t] # NoFreq /\ Tune(tuning[t], NoTS)
  /\ UNCHANGED iterPos

\* Mutant: the iterator does not wait for the discovered transport streams.
NothingDiscoveredIgnored == TRUE

NothingDiscovered ==
  Untried = {} /\ \A t \in LeftInProps : tuning[t] = NoFreq

\* The iterator is asked until it yields a channel not tried yet.
TuneIterated ==
  /\ NothingDiscovered
  /\ \E i \in iterPos .. Len(Channels) :
       /\ \A j \in iterPos .. i - 1 : Channels[j] \in scannedEq
       /\ Channels[i] \notin scannedEq
       /\ iterPos' = i + 1
       /\ Tune(Channels[i], NoTS)

Exhausted ==
  /\ ctl = "loop"
  /\ NothingDiscovered
  /\ \A i \in iterPos .. Len(Channels) : Channels[i] \in scannedEq
  /\ iterPos' = Len(Channels) + 1
  /\ current' = NoTS
  /\ DoCancel
  /\ Return
  /\ UNCHANGED <<harvest, status, cancelled, tuner, scannedEq, policy>>

InNext == CheckHarvest \/ TuneDiscovered \/ TuneLeftover \/ TuneIterated \/ Exhausted
-----------------------------------------------------------------------------
(* Signals of the receiver: it stops waiting before it emits either.       *)

\* lock_cb() starts the channel scanner.
Lock ==
  /\ ctl = "idle"
  /\ pending # NoFreq
  /\ pending' = NoFreq
  /\ listening' = (connected \/ listening)
  /\ UNCHANGED <<harvest, status, finished, connected, cancelled, tunedTo, pick,
                 stack, policy>>

\* A filter that cannot be opened throws out of the channel scanner's start(), and
\* out of lock_cb(), into the receiver's: that takes it for its own failure and
\* emits nolock, with the filters created so far left as they are.
LockFails ==
  /\ ctl = "idle"
  /\ pending # NoFreq
  /\ connected
  /\ pending' = NoFreq
  /\ listening' = TRUE
  /\ NoLockCb(current)
  /\ UNCHANGED <<known, tuning, services, described, successful, status, finished,
                 connected, cancelled, tunedTo, pick, frames, policy>>

NoLock ==
  /\ ctl = "idle"
  /\ pending # NoFreq
  /\ pending' = NoFreq
  /\ IF connected THEN NoLockCb(current) ELSE UNCHANGED <<scanStatus, ctl>>
  /\ UNCHANGED <<known, tuning, services, described, successful, verdict,
                 tunedTo, pick, frames, policy>>
-----------------------------------------------------------------------------
(* Calls of the channel scanner.                                           *)

\* A NIT section adds its transport streams and services; every access to a
\* transport stream makes it the current one, so the last one listed stays.
NitData(n) ==
  /\ known' = known \cup n.ts
  /\ tuning' = [t \in TS |-> IF t \in n.ts /\ tuning[t] = NoFreq
                             THEN n.freq[t] ELSE tuning[t]]
  /\ current' = n.last
  /\ services' = services \cup n.services
  /\ UNCHANGED <<scanStatus, described, successful, verdict, tuner, scannedEq,
                 iterPos, stack, policy>>

\* Mutant: a service is described without having been entered.
SdtServicesNotEntered(d) ==
  /\ described' = described \cup d.services
  /\ UNCHANGED services

SdtServices(d) ==
  /\ services' = services \cup d.services
  /\ described' = described \cup d.services

\* The first SDT section of a channel names the transport stream it carries.
FirstSdt(d) ==
  /\ known' = known \cup {d.ts}
  /\ tuning' = IF tuning[d.ts] = NoFreq THEN [tuning EXCEPT ![d.ts] = tunedTo]
               ELSE tuning
  /\ scanStatus' = [scanStatus EXCEPT ![d.ts] = "SCANNED"]
  /\ current' = d.ts
  /\ SdtServices(d)
  /\ UNCHANGED <<successful, verdict, tuner, scannedEq, iterPos, stack, policy>>

OtherSdt(d) ==
  /\ SdtServices(d)
  /\ UNCHANGED <<known, scanStatus, tuning, successful, verdict, tuner, pick,
                 stack, policy>>

ChannelFinished(success) ==
  /\ successful' = IF success /\ successful < EnoughScans
                   THEN successful + 1 ELSE successful
  /\ scanStatus' =
       IF current = NoTS THEN scanStatus
       ELSE [scanStatus EXCEPT ![current] = IF success THEN "SCANNED" ELSE "PENDING"]
  /\ ctl' = "next"
  /\ UNCHANGED <<known, tuning, services, described, verdict, tuner, pick,
                 frames, policy>>

\* The contract of the channel scanner: only while it has filters.
Report ==
  /\ ctl = "idle"
  /\ listening
  /\ \/ \E n \in Nit : NitData(n)
     \/ \E d \in Sdt : FirstSdt(d) \/ OtherSdt(d)
     \/ \E success \in BOOLEAN : ChannelFinished(success)
-----------------------------------------------------------------------------
\* start() has connected the signals and entered next().
Init ==
  /\ known = {} /\ services = {} /\ described = {}
  /\ scanStatus = [t \in TS |-> "PENDING"]
  /\ tuning = [t \in TS |-> NoFreq]
  /\ current = NoTS /\ scannedEq = {} /\ iterPos = 1
  /\ successful = 0
  /\ status = "BLANK" /\ finished = FALSE /\ cancelled = FALSE
  /\ connected = TRUE /\ listening = FALSE
  /\ pending = NoFreq /\ tunedTo = NoFreq
  /\ policy \in Policies
  /\ ctl = "next" /\ frames = 0

Next == InNext \/ Lock \/ LockFails \/ NoLock \/ Report \/ Cancel

Spec == Init /\ [][Next]_msVars
-----------------------------------------------------------------------------
\* The values each variable ranges over; a suspended call of next() means the
\* main loop has not been returned to.
TypeOK ==
  /\ known \subseteq TS
  /\ scanStatus \in [TS -> {"PENDING", "SCANNED", "FAILED"}]
  /\ tuning \in [TS -> Freq \cup {NoFreq}]
  /\ services \subseteq Service
  /\ described \subseteq services
  /\ current \in TS \cup {NoTS}
  /\ scannedEq \subseteq Freq
  /\ iterPos \in 1 .. Len(Channels) + 1
  /\ successful \in 0 .. EnoughScans
  /\ status \in {"BLANK", "PARTIAL", "COMPLETE"}
  /\ finished \in BOOLEAN /\ connected \in BOOLEAN
  /\ listening \in BOOLEAN /\ cancelled \in BOOLEAN
  /\ pending \in Freq \cup {NoFreq}
  /\ tunedTo \in Freq \cup {NoFreq}
  /\ policy \in Policies
  /\ ctl \in {"idle", "next", "loop"}
  /\ frames \in 0 .. MaxFrames
  /\ ctl = "idle" => frames = 0

\* What the policy asks for, in the words of CheckHarvestPolicy's comments: two
\* channels' scans, every transport stream referred to, every service.
PolicyMet ==
  /\ "SCAN_AT_LEAST_2" \in policy => successful >= 2
  /\ "SCAN_ALL_DISCOVERED_TS" \in policy
       => \A t \in known : scanStatus[t] \in {"SCANNED", "FAILED"}
  /\ "FIND_ALL_SERVICES" \in policy => services \subseteq described

\* The status handed to the finished signal is the true state of the harvest: a
\* scan that ends by itself says COMPLETE exactly when it has found anything and
\* its policy is met, in every nesting of next(), and nothing that happens later
\* makes it untrue.
FinalStatusExact ==
  finished /\ ~cancelled
    => /\ status = "BLANK" <=> known = {} \/ services = {}
       /\ status = "COMPLETE" <=> known # {} /\ services # {} /\ PolicyMet

\* A scan that ends by itself without a complete harvest has tried everything
\* it could: all the channels of the iterator, and the channel of every
\* transport stream that is still PENDING.
NothingLeftUntried ==
  finished /\ ~cancelled /\ status # "COMPLETE"
    => /\ \A i \in 1 .. Len(Channels) : Channels[i] \in scannedEq
       /\ Untried = {}

\* Whenever the main loop rests and the receiver or a filter may still call the
\* scanner, the receiver is tuned to something: no refused tune is left behind, whose
\* late answer would be taken for a channel's, and a transport stream that names
\* itself is given a tuning by current_tuning(), through all nested failures.
TunedWhileHeard ==
  ctl = "idle" /\ (connected \/ listening) => tunedTo # NoFreq

\* Once finished is emitted the results stay as they are (the database thread
\* reads them from then on), and no channel is started any more, whatever the
\* receiver and the suspended calls of next() still do.
ResultsFrozen ==
  [][finished => /\ UNCHANGED <<harvest, status>>
                 /\ ~listening' /\ ~connected']_msVars
=============================================================================
