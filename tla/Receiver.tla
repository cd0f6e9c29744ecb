------------------------------ MODULE Receiver ------------------------------
(***************************************************************************)
(* The tuner a scan works with: Receiver over a Frontend, and the section  *)
(* filters opened on its demultiplexer.  Everything runs in the main loop; *)
(* what can go wrong is the life of its sources (the watch of the frontend *)
(* for a lock, the timer) and of file descriptors, which tune(), cancel(), *)
(* the callbacks and failures between two of their statements take from    *)
(* one another.                                                            *)
(*                                                                         *)
(* A sigc::connection names one source, also after that source is gone, so *)
(* sources are numbered: one that no connection names any more can be      *)
(* stopped by nobody.  Signals are emitted at the end of their functions:  *)
(* what their handlers call (tune, filters) is a step of its own.          *)
(***************************************************************************)
EXTENDS Naturals, Sequences, FiniteSets

CONSTANTS
  Channel, None,
  Filter,        \* the places filters are kept in (nit_filter_, ...)
  Fd,            \* file descriptors for the demultiplexer
  MaxTunes,      \* bound: calls of tune() that get as far as connecting
  MaxEvents      \* bound: length of the frontend's event queue

ASSUME ReceiverConstants ==
  /\ None \notin Channel
  /\ Fd \subseteq Nat \ {0}
  /\ MaxTunes \in Nat /\ MaxEvents \in Nat \ {0}

VARIABLES
  tunedTo,       \* tuned_to_
  serial,        \* sources of either kind made so far
  watches,       \* live io sources on the frontend
  timers,        \* live timeout sources
  lockConn,      \* the source lock_conn_ names, 0 for none
  timeoutConn,   \* the source timeout_conn_ names
  feOpen,        \* Frontend: fe_fd_ # -1
  carrier,       \* the frontend device: the channel it was last set to
  events,        \* the frontend device: queue of status events, has lock or not
  overflow,      \* the frontend device: an event was dropped
  signal,        \* history: what the last step emitted
  awaited,       \* history: whose answer is outstanding, see SignalsAwaited
  filterFd,      \* SectionFilterBase: fd_, or 0
  filterIo,      \* SectionFilterBase: io_conn_ connected
  open           \* the kernel: descriptors of the demultiplexer open

rcv     == <<tunedTo, serial, watches, timers, lockConn, timeoutConn>>
device  == <<feOpen, carrier, events, overflow>>
history == <<signal, awaited>>
filters == <<filterFd, filterIo, open>>
vars    == <<rcv, device, history, filters>>

\* What the callbacks emit, as against the nolock a tune() emits before it throws.
Answers == {"lock", "nolock", "lock and nolock"}

IsTuned == tunedTo # None /\ lockConn \notin watches
-----------------------------------------------------------------------------
(* The frontend device. *)

StatusChange(hasLock) ==
  /\ carrier # None
  /\ IF Len(events) < MaxEvents
     THEN events' = Append(events, hasLock) /\ UNCHANGED overflow
     ELSE events' = Append(Tail(events), hasLock) /\ overflow' = TRUE
  /\ signal' = "none"
  /\ UNCHANGED <<rcv, feOpen, carrier, awaited, filters>>

\* FE_SET_PROPERTY with DTV_TUNE: the queue is cleared for the new channel.
SetFrontend(c) == carrier' = c /\ events' = <<>> /\ overflow' = FALSE
-----------------------------------------------------------------------------
\* tune(), when Frontend::open() fails: nothing was set.
TuneNotOpened ==
  /\ ~feOpen
  /\ watches' = watches \ {lockConn}
  /\ timers' = timers \ {timeoutConn}
  /\ tunedTo' = None
  /\ signal' = "failed" /\ awaited' = "none"
  /\ UNCHANGED <<serial, lockConn, timeoutConn, device, filters>>

\* Mutant: the frontend's descriptor is not kept by Frontend::open().
ConnectNotOpened ==
  /\ serial < MaxTunes
  /\ serial' = serial + 1
  /\ watches' = (watches \ {lockConn}) \cup {serial'} /\ lockConn' = serial'
  /\ timers' = (timers \ {timeoutConn}) \cup {serial'} /\ timeoutConn' = serial'
  /\ UNCHANGED <<feOpen, filters>>

\* Mutant: the timer of an earlier tune is not disconnected.
ConnectOver ==
  /\ serial < MaxTunes
  /\ serial' = serial + 1
  /\ watches' = (watches \ {lockConn}) \cup {serial'} /\ lockConn' = serial'
  /\ timers' = timers \cup {serial'} /\ timeoutConn' = serial'
  /\ feOpen' = TRUE
  /\ UNCHANGED filters

\* tune() up to the call of Frontend::tune().
Connect ==
  /\ serial < MaxTunes
  /\ serial' = serial + 1
  /\ watches' = (watches \ {lockConn}) \cup {serial'} /\ lockConn' = serial'
  /\ timers' = (timers \ {timeoutConn}) \cup {serial'} /\ timeoutConn' = serial'
  /\ feOpen' = TRUE
  /\ UNCHANGED filters

TuneSucceeds(c) ==
  /\ Connect
  /\ tunedTo' = c
  /\ SetFrontend(c)
  /\ signal' = "none" /\ awaited' = "tune"

\* Mutant: tuned_to_ is kept.
TuneRefusedKept(c) ==
  /\ Connect
  /\ tunedTo' = c
  /\ UNCHANGED <<carrier, events, overflow>>
  /\ signal' = "failed" /\ awaited' = "refused"

\* The device refuses the properties: the tuning is forgotten, nolock is emitted
\* and the exception passed on, with both sources left connected.
TuneRefused(c) ==
  /\ Connect
  /\ tunedTo' = None
  /\ UNCHANGED <<carrier, events, overflow>>
  /\ signal' = "failed" /\ awaited' = "refused"

Tune == TuneNotOpened \/ \E c \in Channel : TuneSucceeds(c) \/ TuneRefused(c)

\* Mutant: the timer is left running.
CancelKeepingTimer ==
  /\ tunedTo' = IF lockConn \in watches THEN None ELSE tunedTo
  /\ watches' = watches \ {lockConn}
  /\ UNCHANGED timers
  /\ signal' = "none" /\ awaited' = "none"
  /\ UNCHANGED <<serial, lockConn, timeoutConn, device, filters>>

\* Mutant: the tuning is not forgotten.
CancelKeepingTuning ==
  /\ watches' = watches \ {lockConn}
  /\ timers' = timers \ {timeoutConn}
  /\ signal' = "none" /\ awaited' = "none"
  /\ UNCHANGED <<tunedTo, serial, lockConn, timeoutConn, device, filters>>

\* cancel() forgets the tuning only while a lock is awaited.
Cancel ==
  /\ tunedTo' = IF lockConn \in watches THEN None ELSE tunedTo
  /\ watches' = watches \ {lockConn}
  /\ timers' = timers \ {timeoutConn}
  /\ signal' = "none" /\ awaited' = "none"
  /\ UNCHANGED <<serial, lockConn, timeoutConn, device, filters>>

\* The end of a callback of source i that emits s: both connections are cut, and
\* the source itself is removed by the value returned.
Answer(i, s) ==
  /\ watches' = watches \ {lockConn, i}
  /\ timers' = timers \ {timeoutConn, i}
  /\ signal' = s /\ awaited' = "none"
  /\ UNCHANGED <<tunedTo, serial, lockConn, timeoutConn, feOpen, carrier, filters>>

\* Mutant: an event without a lock ends the wait without an answer.
GoOnWaitingNot ==
  /\ watches' = {} /\ timers' = {}
  /\ signal' = "none"
  /\ UNCHANGED <<tunedTo, serial, lockConn, timeoutConn, feOpen, carrier, awaited, filters>>

GoOnWaiting ==
  /\ signal' = "none"
  /\ UNCHANGED <<rcv, feOpen, carrier, awaited, filters>>

\* lock_cb(): FE_GET_EVENT reports an overflow once, then the oldest event.  The
\* test of cond is true of any condition, so an error is found by the ioctl.
LockCbOverflow(i) ==
  /\ i \in watches /\ overflow
  /\ overflow' = FALSE /\ UNCHANGED events
  /\ GoOnWaiting

LockCbEvent(i) ==
  /\ i \in watches /\ ~overflow /\ events # <<>>
  /\ events' = Tail(events) /\ UNCHANGED overflow
  /\ IF Head(events) THEN Answer(i, "lock") ELSE GoOnWaiting

\* What a handler of the lock signal throws (a filter that is not opened) is caught
\* as if waiting had failed: nolock follows the lock.
LockHandlerThrows(i) ==
  /\ i \in watches /\ ~overflow /\ events # <<>>
  /\ Head(events)
  /\ events' = Tail(events) /\ UNCHANGED overflow
  /\ Answer(i, "lock and nolock")

LockCbError(i) ==
  /\ i \in watches
  /\ UNCHANGED <<events, overflow>>
  /\ Answer(i, "nolock")

TimeoutCb(i) ==
  /\ i \in timers
  /\ UNCHANGED <<events, overflow>>
  /\ Answer(i, "nolock")
-----------------------------------------------------------------------------
(* Section filters. *)

\* Mutant: fd_ keeps its value, so that the next stop() closes it again.
StoppedKeepingFd(f) == <<filterFd[f], FALSE, open \ {filterFd[f]}>>

\* stop(): the values of fd_, of io_conn_ and of the open descriptors after it.
Stopped(f) == <<0, FALSE, open \ {filterFd[f]}>>

StopFilter(f) ==
  /\ filterFd' = [filterFd EXCEPT ![f] = Stopped(f)[1]]
  /\ filterIo' = [filterIo EXCEPT ![f] = Stopped(f)[2]]
  /\ open' = Stopped(f)[3]
  /\ signal' = "none"
  /\ UNCHANGED <<rcv, device, awaited>>

\* A new filter takes the place of one that exists still, stopped or not: it is
\* opened first, on any free descriptor, then the old one destroyed, which stops it
\* once more.
StartFilter(f, d) ==
  /\ d \in Fd \ open
  /\ filterFd' = [filterFd EXCEPT ![f] = d]
  /\ filterIo' = [filterIo EXCEPT ![f] = TRUE]
  /\ open' = Stopped(f)[3] \cup {d}
  /\ signal' = "none"
  /\ UNCHANGED <<rcv, device, awaited>>

\* A filter that is not opened, or not accepted by the device, throws out of its
\* constructor: its base is destroyed, which closes what was opened, and the old
\* filter stays.  Of all that nothing is left in the state.
-----------------------------------------------------------------------------
Init ==
  /\ tunedTo = None /\ serial = 0
  /\ watches = {} /\ timers = {} /\ lockConn = 0 /\ timeoutConn = 0
  /\ feOpen \in BOOLEAN /\ carrier = None /\ events = <<>> /\ overflow = FALSE
  /\ signal = "none" /\ awaited = "none"
  /\ filterFd = [f \in Filter |-> 0] /\ filterIo = [f \in Filter |-> FALSE]
  /\ open = {}

LockCb(i) ==
  LockCbOverflow(i) \/ LockCbEvent(i) \/ LockHandlerThrows(i) \/ LockCbError(i)

Next ==
  \/ Tune \/ Cancel
  \/ \E b \in BOOLEAN : StatusChange(b)
  \/ \E i \in 1..MaxTunes : LockCb(i)
  \/ \E i \in 1..MaxTunes : TimeoutCb(i)
  \/ \E f \in Filter : StopFilter(f) \/ \E d \in Fd : StartFilter(f, d)

Spec == Init /\ [][Next]_vars

\* The main loop dispatches a timer that has expired, and every timer expires.
FairSpec == Spec /\ \A i \in 1..MaxTunes : WF_vars(TimeoutCb(i))
-----------------------------------------------------------------------------
\* Types of Receiver, its frontend and its filters; a watch needs an open device.
TypeOK ==
  /\ tunedTo \in Channel \cup {None} /\ carrier \in Channel \cup {None}
  /\ serial \in 0..MaxTunes
  /\ watches \subseteq 1..serial /\ timers \subseteq 1..serial
  /\ lockConn \in 0..serial /\ timeoutConn \in 0..serial
  /\ feOpen \in BOOLEAN /\ overflow \in BOOLEAN
  /\ events \in Seq(BOOLEAN) /\ Len(events) <= MaxEvents
  /\ signal \in {"none", "failed"} \cup Answers
  /\ awaited \in {"none", "tune", "refused"}
  /\ filterFd \in [Filter -> Fd \cup {0}] /\ filterIo \in [Filter -> BOOLEAN]
  /\ open \subseteq Fd
  /\ watches # {} => feOpen

\* No callback of an earlier tune: whatever tune(), cancel() and the callbacks do
\* to one another, only the sources of the last tune live, and the receiver's
\* connections name them.
SourcesHeld == watches \subseteq {lockConn} /\ timers \subseteq {timeoutConn}

\* receiver.h: a tune is answered by lock or nolock.  It is so once, and not after
\* cancel() or another tune(): the signals of the callbacks come only while an
\* answer is outstanding, to a tune that returned or (which the comment leaves
\* out) to one that was refused and has had its nolock already.
SignalsAwaited == [][signal' \in Answers => awaited # "none"]_vars

\* A lock is never reported with another channel as current_tuning() than the one
\* the device is set to: single-channel-scanner.cpp enters that tuning as the one
\* of the transport stream it finds there.
LockNotElsewhere == signal \in {"lock", "lock and nolock"} => tunedTo \in {None, carrier}

\* Every tune that returns is answered, unless it is cancelled or superseded.
TuneAnswered ==
  \A n \in 1..MaxTunes : serial = n /\ awaited = "tune" ~> awaited # "tune" \/ serial # n

\* The two sources of a tune live and die together: while its answer is outstanding
\* the receiver has both in hand, the watch and the timer that will answer it at the
\* latest, and when none is outstanding there is neither.
AnswerComing ==
  IF awaited = "none" THEN watches = {} /\ timers = {}
  ELSE lockConn \in watches /\ timeoutConn \in timers

\* To the scan the receiver is a Tuner.
Promise ==
  INSTANCE Tuner
    WITH waiting <- IF awaited = "tune" THEN tunedTo ELSE None,
         stray   <- awaited = "refused",
         current <- tunedTo,
         signal  <- signal

\* In every order of tunes, cancels and callbacks, what is emitted, the current tuning
\* and the answers still to come are what a Tuner has.
ImplementsTuner == Promise!TInit /\ [][Promise!TNext]_(Promise!tvars)

\* stop() may be called again for a filter stopped before, when its descriptor may
\* be in another's use: each descriptor is open for one filter, which is watching it.
DescriptorsOwned ==
  /\ open = {filterFd[f] : f \in Filter} \ {0}
  /\ \A f, g \in Filter : filterFd[f] = filterFd[g] /\ f # g => filterFd[f] = 0
  /\ \A f \in Filter : filterIo[f] <=> filterFd[f] # 0
=============================================================================
