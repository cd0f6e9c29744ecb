--------------------------- MODULE ReceiverProofs ---------------------------
(* What module Receiver says for every number of tunes, channels, filters  *)
(* and descriptors, proved.                                                *)
EXTENDS Receiver, TLAPS

\* The sources live exactly while an answer is outstanding; the tuning is forgotten
\* or the device's own, and there is one just when a tune that returned is awaited.
AnswerInv ==
  /\ AnswerComing
  /\ tunedTo \in {None, carrier}
  /\ awaited = "tune" => tunedTo # None
  /\ awaited = "refused" => tunedTo = None

IInv == TypeOK /\ SourcesHeld /\ AnswerInv /\ DescriptorsOwned
-----------------------------------------------------------------------------
\* A queue of events that one event is appended to or taken from is a queue.
LEMMA Queue ==
  ASSUME NEW q \in Seq(BOOLEAN), Len(q) <= MaxEvents, NEW b \in BOOLEAN
  PROVE  /\ Len(q) < MaxEvents => /\ Append(q, b) \in Seq(BOOLEAN)
                                  /\ Len(Append(q, b)) <= MaxEvents
         /\ Len(q) >= MaxEvents => /\ Append(Tail(q), b) \in Seq(BOOLEAN)
                                   /\ Len(Append(Tail(q), b)) <= MaxEvents
         /\ q # <<>> => Tail(q) \in Seq(BOOLEAN) /\ Len(Tail(q)) <= MaxEvents
<1>0. MaxEvents \in Nat \ {0}
  BY ReceiverConstants DEF ReceiverConstants
<1>1. CASE q # <<>>
  <2>1. Tail(q) \in Seq(BOOLEAN) /\ Len(Tail(q)) = Len(q) - 1 /\ Len(q) \in Nat
    BY <1>1
  <2>2. Append(Tail(q), b) \in Seq(BOOLEAN) /\ Len(Append(Tail(q), b)) = Len(q)
    BY <2>1
  <2>3. Append(q, b) \in Seq(BOOLEAN) /\ Len(Append(q, b)) = Len(q) + 1
    OBVIOUS
  <2>4. QED
    BY <1>0, <2>1, <2>2, <2>3
<1>2. CASE q = <<>>
  BY <1>0, <1>2
<1>3. QED
  BY <1>1, <1>2

LEMMA TypeStep == TypeOK /\ [Next]_vars => TypeOK'
<1> SUFFICES ASSUME TypeOK, [Next]_vars PROVE TypeOK'
  OBVIOUS
<1>0. MaxTunes \in Nat /\ <<>> \in Seq(BOOLEAN) /\ Len(<<>>) <= MaxEvents
  BY ReceiverConstants DEF ReceiverConstants
<1>1. CASE TuneNotOpened \/ Cancel
  BY <1>1 DEF TuneNotOpened, Cancel, device, filters, TypeOK
<1>2. CASE \E c \in Channel : TuneSucceeds(c) \/ TuneRefused(c)
  <2>1. /\ serial' \in 0..MaxTunes /\ lockConn' \in 0..serial' /\ timeoutConn' \in 0..serial'
        /\ watches' \subseteq 1..serial' /\ timers' \subseteq 1..serial'
    <3>1. Connect /\ serial \in Nat /\ serial' = serial + 1
      BY <1>2 DEF TuneSucceeds, TuneRefused, Connect, TypeOK
    <3>2. 1..serial \subseteq 1..serial' /\ serial' \in 1..serial' /\ serial' <= MaxTunes
      BY <1>0, <3>1 DEF Connect
    <3>3. QED
      BY <3>1, <3>2 DEF Connect, TypeOK
  <2>2. QED
    BY <1>0, <1>2, <2>1 DEF TuneSucceeds, TuneRefused, Connect, SetFrontend, filters, TypeOK
<1>3. CASE \E b \in BOOLEAN : StatusChange(b)
  <2>1. PICK b \in BOOLEAN : StatusChange(b)
    BY <1>3
  <2>2. Len(events) \in Nat /\ MaxEvents \in Nat
    BY ReceiverConstants DEF ReceiverConstants, TypeOK
  <2>3. events' \in Seq(BOOLEAN) /\ Len(events') <= MaxEvents /\ overflow' \in BOOLEAN
    <3>1. events \in Seq(BOOLEAN) /\ Len(events) <= MaxEvents /\ overflow \in BOOLEAN
      BY DEF TypeOK
    <3>2. CASE Len(events) < MaxEvents
      BY <2>1, <3>1, <3>2, Queue DEF StatusChange
    <3>3. CASE ~(Len(events) < MaxEvents)
      <4>1. events' = Append(Tail(events), b) /\ overflow' = TRUE
        BY <2>1, <3>3 DEF StatusChange
      <4>2. Len(events) >= MaxEvents
        BY <2>2, <3>3
      <4>3. events' \in Seq(BOOLEAN) /\ Len(events') <= MaxEvents
        BY <3>1, <4>1, <4>2, Queue
      <4>4. QED
        BY <4>1, <4>3
    <3>4. QED
      BY <3>2, <3>3
  <2>4. QED
    BY <2>1, <2>3 DEF StatusChange, rcv, filters, TypeOK
<1>4. ASSUME NEW i, LockCb(i) \/ TimeoutCb(i)
      PROVE  TypeOK'
  <2>1. events' \in Seq(BOOLEAN) /\ Len(events') <= MaxEvents /\ overflow' \in BOOLEAN
    BY <1>4, Queue DEF LockCb, LockCbOverflow, LockCbEvent, LockHandlerThrows,
                       LockCbError, TimeoutCb, TypeOK
  <2>2. GoOnWaiting \/ \E s \in Answers : Answer(i, s)
    BY <1>4 DEF LockCb, LockCbOverflow, LockCbEvent, LockHandlerThrows, LockCbError,
                TimeoutCb, Answers
  <2>3. QED
    BY <2>1, <2>2 DEF GoOnWaiting, Answer, rcv, filters, TypeOK
<1>5. ASSUME NEW f \in Filter, StopFilter(f) \/ \E d \in Fd : StartFilter(f, d)
      PROVE  TypeOK'
  BY <1>5 DEF StopFilter, StartFilter, Stopped, rcv, device, TypeOK
<1>6. CASE UNCHANGED vars
  BY <1>6 DEF vars, rcv, device, history, filters, TypeOK
<1>7. QED
  BY <1>1, <1>2, <1>3, <1>4, <1>5, <1>6 DEF Next, Tune

\* The sources, whom they belong to and what is awaited of them.
LEMMA SourceStep ==
  TypeOK /\ SourcesHeld /\ AnswerInv /\ [Next]_vars => SourcesHeld' /\ AnswerInv'
<1> SUFFICES ASSUME TypeOK, SourcesHeld, AnswerInv, [Next]_vars
             PROVE  SourcesHeld' /\ AnswerInv'
  OBVIOUS
<1>0. None \notin Channel /\ serial \in Nat
  BY ReceiverConstants DEF ReceiverConstants, TypeOK
<1>1. CASE TuneNotOpened \/ Cancel
  BY <1>1 DEF TuneNotOpened, Cancel, device, SourcesHeld, AnswerInv, AnswerComing
<1>2. CASE \E c \in Channel : TuneSucceeds(c) \/ TuneRefused(c)
  BY <1>0, <1>2 DEF TuneSucceeds, TuneRefused, Connect, SetFrontend, SourcesHeld, AnswerInv, AnswerComing
<1>3. CASE \E b \in BOOLEAN : StatusChange(b)
  BY <1>3 DEF StatusChange, rcv, SourcesHeld, AnswerInv, AnswerComing
<1>4. ASSUME NEW i, LockCb(i) \/ TimeoutCb(i)
      PROVE  SourcesHeld' /\ AnswerInv'
  <2>1. GoOnWaiting \/ \E s \in Answers : Answer(i, s)
    BY <1>4 DEF LockCb, LockCbOverflow, LockCbEvent, LockHandlerThrows, LockCbError,
                TimeoutCb, Answers
  <2>2. QED
    BY <2>1 DEF GoOnWaiting, Answer, rcv, SourcesHeld, AnswerInv, AnswerComing
<1>5. CASE \E f \in Filter : StopFilter(f) \/ \E d \in Fd : StartFilter(f, d)
  BY <1>5 DEF StopFilter, StartFilter, rcv, device, SourcesHeld, AnswerInv, AnswerComing
<1>6. CASE UNCHANGED vars
  BY <1>6 DEF vars, rcv, device, history, SourcesHeld, AnswerInv, AnswerComing
<1>7. QED
  BY <1>1, <1>2, <1>3, <1>4, <1>5, <1>6 DEF Next, Tune

\* Descriptors of filters: only StopFilter and StartFilter touch them.
LEMMA DescriptorStep ==
  TypeOK /\ DescriptorsOwned /\ [Next]_vars => DescriptorsOwned'
<1> SUFFICES ASSUME TypeOK, DescriptorsOwned, [Next]_vars PROVE DescriptorsOwned'
  OBVIOUS
<1>0. 0 \notin Fd
  BY ReceiverConstants DEF ReceiverConstants
<1>1. ASSUME NEW f \in Filter, StopFilter(f) PROVE DescriptorsOwned'
  <2>1. /\ \A g \in Filter : filterFd'[g] = IF g = f THEN 0 ELSE filterFd[g]
        /\ \A g \in Filter : filterIo'[g] = IF g = f THEN FALSE ELSE filterIo[g]
        /\ open' = open \ {filterFd[f]}
    BY <1>1 DEF StopFilter, Stopped, TypeOK
  <2>2. open' = {filterFd'[g] : g \in Filter} \ {0}
    <3>1. ASSUME NEW e PROVE e \in open' <=> e # 0 /\ \E g \in Filter : filterFd'[g] = e
      <4>1. e \in open <=> e # 0 /\ \E g \in Filter : filterFd[g] = e
        BY DEF DescriptorsOwned
      <4>2. \A g \in Filter : filterFd[f] = filterFd[g] /\ f # g => filterFd[f] = 0
        BY DEF DescriptorsOwned
      <4>3. QED
        BY <2>1, <4>1, <4>2
    <3>2. QED
      BY <3>1
  <2>3. QED
    BY <2>1, <2>2 DEF DescriptorsOwned
<1>2. ASSUME NEW f \in Filter, NEW d \in Fd, StartFilter(f, d) PROVE DescriptorsOwned'
  <2>1. /\ \A g \in Filter : filterFd'[g] = IF g = f THEN d ELSE filterFd[g]
        /\ \A g \in Filter : filterIo'[g] = IF g = f THEN TRUE ELSE filterIo[g]
        /\ open' = (open \ {filterFd[f]}) \cup {d}
        /\ d \notin open /\ d # 0
    BY <1>0, <1>2 DEF StartFilter, Stopped, TypeOK
  <2>2. open' = {filterFd'[g] : g \in Filter} \ {0}
    <3>1. ASSUME NEW e PROVE e \in open' <=> e # 0 /\ \E g \in Filter : filterFd'[g] = e
      <4>1. e \in open <=> e # 0 /\ \E g \in Filter : filterFd[g] = e
        BY DEF DescriptorsOwned
      <4>2. \A g \in Filter : filterFd[f] = filterFd[g] /\ f # g => filterFd[f] = 0
        BY DEF DescriptorsOwned
      <4>3. QED
        BY <2>1, <4>1, <4>2
    <3>2. QED
      BY <3>1
  <2>3. \A g \in Filter : filterFd[g] # d
    BY <2>1 DEF DescriptorsOwned
  <2>4. \A g, h \in Filter : filterFd'[g] = filterFd'[h] /\ g # h => filterFd'[g] = 0
    BY <2>1, <2>3 DEF DescriptorsOwned
  <2>5. QED
    BY <2>1, <2>2, <2>4 DEF DescriptorsOwned
<1>3. CASE UNCHANGED filters
  BY <1>3 DEF filters, DescriptorsOwned
<1>4. QED
  BY <1>1, <1>2, <1>3 DEF Next, Tune, TuneNotOpened, TuneSucceeds, TuneRefused, Connect,
     Cancel, StatusChange, LockCb, LockCbOverflow, LockCbEvent, LockHandlerThrows,
     LockCbError, TimeoutCb, Answer, GoOnWaiting, vars

\* The inductive invariant holds in every reachable state.
THEOREM Invariance == Spec => []IInv
<1>1. Init => IInv
  <2>1. 0 \in 0..0 /\ <<>> \in Seq(BOOLEAN) /\ Len(<<>>) <= MaxEvents /\ MaxTunes \in Nat
    BY ReceiverConstants DEF ReceiverConstants
  <2>2. Init => TypeOK
    <3>1. Init => /\ filterFd \in [Filter -> Fd \cup {0}] /\ filterIo \in [Filter -> BOOLEAN]
                  /\ feOpen \in BOOLEAN /\ overflow \in BOOLEAN
      BY DEF Init
    <3>2. QED
      BY <2>1, <3>1 DEF Init, TypeOK
  <2>3. Init => SourcesHeld /\ AnswerInv
    BY DEF Init, SourcesHeld, AnswerInv, AnswerComing
  <2>4. Init => DescriptorsOwned
    BY DEF Init, DescriptorsOwned
  <2>5. QED
    BY <2>2, <2>3, <2>4 DEF IInv
<1>2. IInv /\ [Next]_vars => IInv'
  BY TypeStep, SourceStep, DescriptorStep DEF IInv
<1>3. QED
  BY <1>1, <1>2, PTL DEF Spec

\* Every variable keeps its type, for any number of tunes and filters.
THEOREM TypeCorrect == Spec => []TypeOK
BY Invariance, PTL DEF IInv

\* Only the sources of the last tune live, and its connections name them.
THEOREM NoStraySource == Spec => []SourcesHeld
BY Invariance, PTL DEF IInv

\* A lock is reported with the device's own channel as current_tuning(), or none.
THEOREM LockIsOfTuning == Spec => []LockNotElsewhere
<1>1. IInv => LockNotElsewhere
  BY DEF IInv, AnswerInv, LockNotElsewhere
<1>2. QED
  BY Invariance, <1>1, PTL

\* Each descriptor of the demultiplexer is open for one filter, which watches it.
THEOREM DescriptorsAreOwned == Spec => []DescriptorsOwned
BY Invariance, PTL DEF IInv

\* The callbacks answer only what is outstanding: each tune once at most, and none
\* that was cancelled.
THEOREM AnswersAreAwaited == Spec => SignalsAwaited
<1>1. IInv /\ [Next]_vars => [signal' \in Answers => awaited # "none"]_vars
  <2> SUFFICES ASSUME IInv, Next, signal' \in Answers PROVE awaited # "none"
    OBVIOUS
  <2>1. \E i \in 1..MaxTunes : LockCb(i) \/ TimeoutCb(i)
    BY DEF Next, Tune, TuneNotOpened, TuneSucceeds, TuneRefused, Connect, Cancel,
           StatusChange, StopFilter, StartFilter, Answers
  <2>2. QED
    BY <2>1 DEF LockCb, LockCbOverflow, LockCbEvent, LockHandlerThrows, LockCbError,
                TimeoutCb, IInv, AnswerInv, AnswerComing
<1>2. QED
  BY Invariance, <1>1, PTL DEF Spec, SignalsAwaited

\* Whatever interrupts a tune, its watch and its timer are there until it has been
\* answered, cancelled or superseded, and neither is left behind after that.
THEOREM AnswersWillCome == Spec => []AnswerComing
<1>1. IInv => AnswerComing
  BY DEF IInv, AnswerInv
<1>2. QED
  BY Invariance, <1>1, PTL
-----------------------------------------------------------------------------
(* The receiver is a Tuner. *)

\* A callback answers what is awaited, or is not noticed by the scan.
LEMMA CallbackReplies ==
  ASSUME IInv, NEW i, LockCb(i) \/ TimeoutCb(i)
  PROVE  Promise!Reply \/ Promise!Quiet
<1>1. CASE GoOnWaiting
  BY <1>1 DEF GoOnWaiting, rcv, Promise!Quiet
<1>2. ASSUME NEW s \in Answers, Answer(i, s) PROVE Promise!Reply
  <2>1. i \in watches \/ i \in timers
    BY DEF LockCb, LockCbOverflow, LockCbEvent, LockHandlerThrows, LockCbError, TimeoutCb
  <2>2. awaited = "tune" \/ awaited = "refused"
    BY <2>1 DEF IInv, TypeOK, AnswerInv, AnswerComing
  <2>3. awaited = "tune" => tunedTo # None
    BY DEF IInv, AnswerInv
  <2>4. awaited' = "none" /\ tunedTo' = tunedTo /\ signal' \in Answers
    BY <1>2 DEF Answer
  <2>5. (awaited' = "refused") = FALSE
    BY <2>4
  <2>6. QED
    BY <2>2, <2>3, <2>4, <2>5 DEF Promise!Reply, Answers
<1>3. GoOnWaiting \/ \E s \in Answers : Answer(i, s)
  BY DEF Answers, LockCb, LockCbOverflow, LockCbEvent, LockHandlerThrows, LockCbError, TimeoutCb
<1>4. QED
  BY <1>1, <1>2, <1>3

LEMMA TunerStep == IInv /\ [Next]_vars => [Promise!TNext]_(Promise!tvars)
<1> SUFFICES ASSUME IInv, [Next]_vars
             PROVE  Promise!TNext \/ UNCHANGED Promise!tvars
  OBVIOUS
<1>1. ASSUME NEW c \in Channel, TuneSucceeds(c) PROVE Promise!Accept(c)
  <2>1. awaited' = "tune" /\ tunedTo' = c /\ signal' = "none"
    BY <1>1 DEF TuneSucceeds
  <2>2. (awaited' = "refused") = FALSE
    BY <2>1
  <2>3. QED
    BY <2>1, <2>2 DEF Promise!Accept
<1>2. CASE TuneNotOpened \/ \E c \in Channel : TuneRefused(c)
  <2>1. awaited' # "tune" /\ tunedTo' = None /\ signal' = "failed"
    BY <1>2 DEF TuneNotOpened, TuneRefused
  <2>2. (awaited' = "refused") \in BOOLEAN
    OBVIOUS
  <2>3. Promise!Fail
    BY <2>1, <2>2 DEF Promise!Fail
  <2>4. QED
    BY <2>3 DEF Promise!TNext
<1>3. CASE Cancel
  <2>1. awaited' = "none" /\ signal' = "none"
    BY <1>3 DEF Cancel
  <2>2. (awaited' = "refused") = FALSE
    BY <2>1
  <2>3. tunedTo' = IF awaited = "none" THEN tunedTo ELSE None
    BY <1>3 DEF Cancel, IInv, AnswerInv, AnswerComing
  <2>4. tunedTo' = IF (IF awaited = "tune" THEN tunedTo ELSE None) = None
                   THEN tunedTo ELSE None
    BY <2>3 DEF IInv, AnswerInv, TypeOK
  <2>5. Promise!Abandon
    BY <2>1, <2>2, <2>4 DEF Promise!Abandon
  <2>6. QED
    BY <2>5 DEF Promise!TNext
<1>4. ASSUME NEW i, LockCb(i) \/ TimeoutCb(i)
      PROVE  Promise!TNext \/ UNCHANGED Promise!tvars
  BY <1>4, CallbackReplies DEF Promise!TNext
<1>5. CASE \/ \E b \in BOOLEAN : StatusChange(b)
           \/ \E f \in Filter : StopFilter(f) \/ \E d \in Fd : StartFilter(f, d)
  <2>1. Promise!Quiet
    BY <1>5 DEF StatusChange, StopFilter, StartFilter, rcv, Promise!Quiet
  <2>2. QED
    BY <2>1 DEF Promise!TNext
<1>6. CASE UNCHANGED vars
  BY <1>6 DEF vars, history, rcv, Promise!tvars
<1>7. QED
  BY <1>1, <1>2, <1>3, <1>4, <1>5, <1>6 DEF Next, Tune, Promise!TNext

\* The receiver implements a Tuner, for every number of tunes and whatever the
\* device reports: what it emits, what is waited for or may still be answered, and the
\* current tuning are the Tuner's at every step.
THEOREM ReceiverImplementsTuner == Spec => ImplementsTuner
<1>1. Init => Promise!TInit
  <2> SUFFICES ASSUME Init PROVE Promise!TInit
    OBVIOUS
  <2>1. awaited = "none" /\ tunedTo = None /\ signal = "none"
    BY DEF Init
  <2>2. (awaited = "refused") = FALSE
    BY <2>1
  <2>3. QED
    BY <2>1, <2>2 DEF Promise!TInit
<1>2. QED
  BY <1>1, Invariance, TunerStep, PTL DEF Spec, ImplementsTuner
=============================================================================
