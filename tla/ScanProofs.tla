----------------------------- MODULE ScanProofs -----------------------------
(* What module MultiScanner says of every set of channels, every broadcast  *)
(* and every depth of nesting, proved of any channel scanner that is silent *)
(* without filters; that the real ones, whose filters outlive their channel *)
(* but not a cancel, are such scanners; and that a scan with them does not  *)
(* stall.                                                                   *)
EXTENDS Scan, TLAPS

-----------------------------------------------------------------------------
(* The scheduler (module MultiScanner).                                     *)

\* Once finished, the scanner hears neither the receiver nor its filters and
\* next() is not entered again; an application's cancel ends all activity.
QuietInv ==
  /\ finished <=> ~connected
  /\ finished => ~listening /\ ctl # "next"
  /\ cancelled => finished /\ ctl = "idle"

\* Whatever call of next() is in its loop, the innermost check_harvest() still
\* holds good: a nolock in between has gone through check_harvest() again.
VerdictInv == (ctl = "loop" \/ finished) /\ ~cancelled => status = Verdict

\* The iterator has only passed channels that have been tried.
IterInv == \A i \in 1 .. iterPos - 1 : Channels[i] \in scannedEq

IInv == TypeOK /\ QuietInv /\ VerdictInv /\ IterInv /\ NothingLeftUntried
-----------------------------------------------------------------------------
\* What the assumptions say of the iterator's channels and of the bound.
LEMMA Bounds ==
  /\ Len(Channels) \in Nat /\ MaxFrames \in Nat
  /\ \A i \in 1 .. Len(Channels) : Channels[i] \in Freq
  BY ScanConstants DEF ScanConstants

\* What they say of sections: NIT and SDT sections name known keys only.
LEMMA Sections ==
  /\ Nit \subseteq NitSection /\ Sdt \subseteq SdtSection
  /\ \A n \in Nit : n.last \in n.ts
  BY ScanConstants DEF ScanConstants

\* A return from next() leaves the call stack well formed.
LEMMA ReturnStack ==
  ASSUME frames \in 0 .. MaxFrames, Return
  PROVE  /\ ctl' \in {"idle", "loop"}
         /\ frames' \in 0 .. MaxFrames
         /\ ctl' = "idle" => frames' = 0
  BY Bounds DEF Return

\* The initial states satisfy the inductive invariant.
LEMMA InitIInv == Init => IInv
<1> SUFFICES ASSUME Init PROVE IInv
  OBVIOUS
<1>1. TypeOK
  <2>1. iterPos \in 1 .. Len(Channels) + 1 /\ successful \in 0 .. EnoughScans
        /\ frames \in 0 .. MaxFrames
    BY Bounds DEF Init, EnoughScans
  <2>2. QED
    BY <2>1 DEF Init, TypeOK
<1>2. QuietInv /\ VerdictInv /\ NothingLeftUntried
  BY DEF Init, QuietInv, VerdictInv, NothingLeftUntried
<1>3. IterInv
  BY DEF Init, IterInv
<1>4. QED
  BY <1>1, <1>2, <1>3 DEF IInv

LEMMA TypeStep == TypeOK /\ [Next]_msVars => TypeOK'
<1> SUFFICES ASSUME TypeOK, [Next]_msVars PROVE TypeOK'
  OBVIOUS
<1> USE Bounds
<1>1. CASE CheckHarvest
  <2>1. status' \in {"BLANK", "PARTIAL", "COMPLETE"}
    BY <1>1 DEF CheckHarvest, Verdict
  <2>2. /\ finished' \in BOOLEAN /\ connected' \in BOOLEAN /\ listening' \in BOOLEAN
        /\ frames' \in 0 .. MaxFrames /\ ctl' \in {"idle", "loop"}
        /\ ctl' = "idle" => frames' = 0
    BY <1>1, ReturnStack DEF CheckHarvest, DoCancel, TypeOK
  <2>3. QED
    BY <1>1, <2>1, <2>2 DEF CheckHarvest, harvest, tuner, pick, TypeOK
<1>2. ASSUME NEW f \in Freq, NEW t \in TS \cup {NoTS}, Tune(f, t),
             iterPos' \in 1 .. Len(Channels) + 1
      PROVE  TypeOK'
  <2>1. CASE TuneSucceeds(f)
    BY <1>2, <2>1 DEF Tune, TuneSucceeds, Return, harvest, verdict, TypeOK
  <2>2. CASE TuneFails(t)
    BY <1>2, <2>2 DEF Tune, TuneFails, NoLockCb, verdict, TypeOK
  <2>3. QED
    BY <1>2, <2>1, <2>2 DEF Tune
<1>3. CASE TuneDiscovered
  BY <1>2, <1>3 DEF TuneDiscovered, Untried, Outstanding, TypeOK
<1>4. CASE TuneLeftover
  BY <1>2, <1>4 DEF TuneLeftover, LeftInProps, Outstanding, TypeOK
<1>5. CASE TuneIterated
  <2>1. PICK i \in iterPos .. Len(Channels) : iterPos' = i + 1 /\ Tune(Channels[i], NoTS)
    BY <1>5 DEF TuneIterated
  <2>2. i \in 1 .. Len(Channels) /\ Channels[i] \in Freq
    BY <2>1 DEF TypeOK
  <2>3. QED
    BY <1>2, <2>1, <2>2
<1>6. CASE Exhausted
  <2>1. /\ frames' \in 0 .. MaxFrames /\ ctl' \in {"idle", "loop"}
        /\ ctl' = "idle" => frames' = 0
    BY <1>6, ReturnStack DEF Exhausted, TypeOK
  <2>2. iterPos' \in 1 .. Len(Channels) + 1
    BY <1>6 DEF Exhausted
  <2>3. QED
    BY <1>6, <2>1, <2>2 DEF Exhausted, DoCancel, harvest, tuner, TypeOK
<1>7. CASE Lock
  BY <1>7 DEF Lock, harvest, pick, stack, TypeOK
<1>8. CASE NoLock
  BY <1>8 DEF NoLock, NoLockCb, verdict, pick, TypeOK
<1>15. CASE LockFails
  BY <1>15 DEF LockFails, NoLockCb, pick, TypeOK
<1>9. ASSUME NEW n \in Nit, ctl = "idle", NitData(n)
      PROVE  TypeOK'
  BY <1>9, Sections DEF NitData, NitSection, verdict, tuner, stack, TypeOK
<1>10. ASSUME NEW d \in Sdt, FirstSdt(d) \/ OtherSdt(d)
       PROVE  TypeOK'
  BY <1>10, Sections DEF FirstSdt, OtherSdt, SdtServices, SdtSection, verdict, tuner, pick, stack, TypeOK
<1>11. ASSUME NEW success \in BOOLEAN, ctl = "idle", ChannelFinished(success)
       PROVE  TypeOK'
  BY <1>11 DEF ChannelFinished, verdict, tuner, pick, EnoughScans, TypeOK
<1>12. CASE Cancel
  BY <1>12 DEF Cancel, DoCancel, harvest, tuner, pick, stack, TypeOK
<1>13. CASE UNCHANGED msVars
  BY <1>13 DEF msVars, harvest, verdict, tuner, pick, stack, TypeOK
<1>14. QED
  BY <1>1, <1>3, <1>4, <1>5, <1>6, <1>7, <1>8, <1>9, <1>10, <1>11, <1>12, <1>13,
     <1>15 DEF Next, InNext, Report


\* The status check_harvest() would store is a function of what was collected.
LEMMA SameHarvest == UNCHANGED <<harvest, policy>> => Verdict' = Verdict
  BY DEF harvest, Verdict, HarvestComplete, Outstanding

LEMMA QuietStep == TypeOK /\ QuietInv /\ [Next]_msVars => QuietInv'
<1> SUFFICES ASSUME TypeOK, QuietInv, [Next]_msVars PROVE QuietInv'
  OBVIOUS
<1>1. CASE CheckHarvest
  BY <1>1 DEF CheckHarvest, DoCancel, Return, QuietInv
<1>2. ASSUME NEW f, NEW t, Tune(f, t)
      PROVE  QuietInv'
  BY <1>2 DEF Tune, TuneSucceeds, TuneFails, NoLockCb, Return, verdict, QuietInv
<1>3. CASE TuneDiscovered \/ TuneLeftover \/ TuneIterated
  BY <1>2, <1>3 DEF TuneDiscovered, TuneLeftover, TuneIterated
<1>4. CASE Exhausted
  BY <1>4 DEF Exhausted, DoCancel, Return, QuietInv
<1>5. CASE Lock
  BY <1>5 DEF Lock, stack, QuietInv
<1>6. CASE NoLock
  BY <1>6 DEF NoLock, NoLockCb, verdict, QuietInv
<1>11. CASE LockFails
  BY <1>11 DEF LockFails, NoLockCb, QuietInv, TypeOK
<1>7. CASE Report
  <2>1. ~finished /\ ~cancelled /\ connected
    BY <1>7 DEF Report, QuietInv, TypeOK
  <2>2. UNCHANGED verdict
    BY <1>7 DEF Report, NitData, FirstSdt, OtherSdt, ChannelFinished
  <2>3. QED
    BY <2>1, <2>2 DEF verdict, QuietInv
<1>8. CASE Cancel
  BY <1>8 DEF Cancel, DoCancel, stack, QuietInv
<1>9. CASE UNCHANGED msVars
  BY <1>9 DEF msVars, verdict, stack, QuietInv
<1>10. QED
  BY <1>1, <1>3, <1>4, <1>5, <1>6, <1>7, <1>8, <1>9, <1>11 DEF Next, InNext

LEMMA VerdictStep ==
  TypeOK /\ QuietInv /\ VerdictInv /\ [Next]_msVars => VerdictInv'
<1> SUFFICES ASSUME TypeOK, QuietInv, VerdictInv, [Next]_msVars PROVE VerdictInv'
  OBVIOUS
<1>1. CASE CheckHarvest
  BY <1>1, SameHarvest DEF CheckHarvest, VerdictInv
<1>2. ASSUME NEW f, NEW t, Tune(f, t)
      PROVE  VerdictInv'
  <2>1. CASE TuneSucceeds(f)
    BY <1>2, <2>1, SameHarvest DEF Tune, TuneSucceeds, verdict, VerdictInv
  <2>2. CASE TuneFails(t) /\ connected
    BY <1>2, <2>2 DEF Tune, TuneFails, NoLockCb, verdict, QuietInv, VerdictInv
  <2>3. CASE TuneFails(t) /\ ~connected
    BY <1>2, <2>3, SameHarvest DEF Tune, TuneFails, harvest, verdict, VerdictInv
  <2>4. QED
    BY <1>2, <2>1, <2>2, <2>3 DEF Tune
<1>3. CASE TuneDiscovered \/ TuneLeftover \/ TuneIterated
  BY <1>2, <1>3 DEF TuneDiscovered, TuneLeftover, TuneIterated
<1>4. CASE Exhausted
  BY <1>4, SameHarvest DEF Exhausted, VerdictInv
<1>5. CASE Lock
  BY <1>5, SameHarvest DEF Lock, stack, VerdictInv
<1>6. CASE NoLock
  <2>1. CASE connected
    BY <1>6, <2>1 DEF NoLock, NoLockCb, verdict, QuietInv, VerdictInv
  <2>2. CASE ~connected
    BY <1>6, <2>2, SameHarvest DEF NoLock, harvest, verdict, VerdictInv
  <2>3. QED
    BY <2>1, <2>2
<1>11. CASE LockFails
  BY <1>11 DEF LockFails, NoLockCb, QuietInv, VerdictInv
<1>7. CASE Report
  BY <1>7 DEF Report, NitData, FirstSdt, OtherSdt, ChannelFinished, verdict, stack,
              QuietInv, VerdictInv
<1>8. CASE Cancel
  BY <1>8, SameHarvest DEF Cancel, stack, VerdictInv
<1>9. CASE UNCHANGED msVars
  BY <1>9, SameHarvest DEF msVars, verdict, stack, VerdictInv
<1>10. QED
  BY <1>1, <1>3, <1>4, <1>5, <1>6, <1>7, <1>8, <1>9, <1>11 DEF Next, InNext

LEMMA IterStep == TypeOK /\ IterInv /\ [Next]_msVars => IterInv'
<1> SUFFICES ASSUME TypeOK, IterInv, [Next]_msVars PROVE IterInv'
  OBVIOUS
<1> USE Bounds
<1>1. scannedEq \subseteq scannedEq'
  <2>1. ASSUME NEW f, NEW t, Tune(f, t) PROVE scannedEq \subseteq scannedEq'
    BY <2>1 DEF Tune
  <2>2. QED
    BY <2>1 DEF Next, InNext, CheckHarvest, TuneDiscovered, TuneLeftover, TuneIterated,
         Exhausted, Lock, LockFails, NoLock, Report, NitData, FirstSdt, OtherSdt, ChannelFinished,
         Cancel, msVars, pick
<1>2. CASE TuneIterated
  <2>1. PICK i \in iterPos .. Len(Channels) :
          /\ \A j \in iterPos .. i - 1 : Channels[j] \in scannedEq
          /\ iterPos' = i + 1
          /\ Channels[i] \in scannedEq'
    BY <1>2 DEF TuneIterated, Tune
  <2>2. ASSUME NEW j \in 1 .. i PROVE Channels[j] \in scannedEq'
    <3>1. CASE j < iterPos
      BY <1>1, <3>1 DEF IterInv, TypeOK
    <3>2. CASE j \in iterPos .. i - 1
      BY <1>1, <2>1, <3>2
    <3>3. CASE j = i
      BY <2>1, <3>3
    <3>4. QED
      BY <3>1, <3>2, <3>3 DEF TypeOK
  <2>3. QED
    BY <2>1, <2>2 DEF IterInv, TypeOK
<1>3. CASE Exhausted
  <2>1. ASSUME NEW j \in 1 .. Len(Channels) PROVE Channels[j] \in scannedEq
    <3>1. CASE j < iterPos
      BY <3>1 DEF IterInv, TypeOK
    <3>2. CASE j \in iterPos .. Len(Channels)
      BY <1>3, <3>2 DEF Exhausted
    <3>3. QED
      BY <3>1, <3>2 DEF TypeOK
  <2>2. iterPos' - 1 = Len(Channels)
    BY <1>3 DEF Exhausted
  <2>3. QED
    BY <1>1, <2>1, <2>2 DEF IterInv
<1>4. CASE ~TuneIterated /\ ~Exhausted
  <2>1. iterPos' = iterPos
    BY <1>4 DEF Next, InNext, CheckHarvest, TuneDiscovered, TuneLeftover, Lock, LockFails, NoLock,
         Report, NitData, FirstSdt, OtherSdt, ChannelFinished, Cancel, msVars, pick
  <2>2. QED
    BY <1>1, <2>1 DEF IterInv
<1>5. QED
  BY <1>2, <1>3, <1>4

\* After finished is emitted no step changes what was collected: the filters
\* are gone, and a nolock emitted inside a failed tune finds no slot.
LEMMA FrozenStep ==
  TypeOK /\ QuietInv /\ [Next]_msVars /\ finished
    => /\ UNCHANGED <<harvest, policy>>
       /\ scannedEq \subseteq scannedEq'
       /\ finished' /\ ~listening' /\ ~connected'
       /\ UNCHANGED <<status, cancelled>>
<1> SUFFICES ASSUME TypeOK, QuietInv, [Next]_msVars, finished
             PROVE  /\ UNCHANGED <<harvest, policy>>
                    /\ scannedEq \subseteq scannedEq'
                    /\ finished' /\ ~listening' /\ ~connected'
                    /\ UNCHANGED <<status, cancelled>>
  OBVIOUS
<1>1. ~CheckHarvest /\ ~Report /\ ~connected /\ ~listening
  BY DEF QuietInv, CheckHarvest, Report
<1>2. ASSUME NEW f, NEW t, Tune(f, t)
      PROVE  /\ UNCHANGED <<harvest, verdict, policy>>
             /\ scannedEq \subseteq scannedEq'
  BY <1>1, <1>2 DEF Tune, TuneSucceeds, TuneFails, harvest
<1>3. CASE TuneDiscovered \/ TuneLeftover \/ TuneIterated
  BY <1>1, <1>2, <1>3 DEF TuneDiscovered, TuneLeftover, TuneIterated, verdict
<1>4. CASE Exhausted
  BY <1>4 DEF Exhausted, DoCancel
<1>5. CASE Lock \/ LockFails \/ NoLock
  <2>4. ~LockFails
    BY <1>1 DEF LockFails
  <2>1. CASE Lock
    <3>1. listening' = FALSE
      BY <1>1, <2>1 DEF Lock
    <3>2. QED
      BY <1>1, <2>1, <3>1 DEF Lock, harvest, pick
  <2>2. CASE NoLock
    BY <1>1, <2>2 DEF NoLock, harvest, verdict, pick
  <2>3. QED
    BY <1>5, <2>1, <2>2, <2>4
<1>6. CASE Cancel
  BY <1>6 DEF Cancel, DoCancel, pick, TypeOK
<1>7. CASE UNCHANGED msVars
  BY <1>1, <1>7 DEF msVars, verdict, pick
<1>8. QED
  BY <1>1, <1>3, <1>4, <1>5, <1>6, <1>7 DEF Next, InNext

LEMMA UntriedStep ==
  TypeOK /\ QuietInv /\ IterInv /\ NothingLeftUntried /\ [Next]_msVars
    => NothingLeftUntried'
<1> SUFFICES ASSUME TypeOK, QuietInv, IterInv, NothingLeftUntried, [Next]_msVars,
                    finished', ~cancelled', status' # "COMPLETE"
             PROVE  /\ \A i \in 1 .. Len(Channels) : Channels[i] \in scannedEq'
                    /\ Untried' = {}
  BY DEF NothingLeftUntried
<1> USE Bounds
<1>1. CASE finished
  <2>1. /\ UNCHANGED <<harvest, policy>>
        /\ scannedEq \subseteq scannedEq'
        /\ UNCHANGED <<status, cancelled>>
    BY <1>1, FrozenStep
  <2>2. /\ \A i \in 1 .. Len(Channels) : Channels[i] \in scannedEq
        /\ Untried = {}
    BY <1>1, <2>1 DEF NothingLeftUntried
  <2>3. Untried' \subseteq Untried
    BY <2>1 DEF harvest, Untried, Outstanding
  <2>4. QED
    BY <2>1, <2>2, <2>3
<1>2. CASE ~finished
  <2>1. ASSUME NEW f, NEW t, Tune(f, t) PROVE FALSE
    BY <1>2, <2>1 DEF Tune, verdict
  <2>2. ~Cancel
    BY <1>2 DEF Cancel
  <2>3. ~CheckHarvest
    BY <1>2 DEF CheckHarvest
  <2>4. ~Lock /\ ~LockFails /\ ~NoLock /\ ~Report /\ ~UNCHANGED msVars
    BY <1>2 DEF Lock, LockFails, NoLock, Report, NitData, FirstSdt, OtherSdt, ChannelFinished,
                msVars, verdict
  <2>5. Exhausted
    BY <2>1, <2>2, <2>3, <2>4
    DEF Next, InNext, TuneDiscovered, TuneLeftover, TuneIterated
  <2>6. Untried = {} /\ Untried' = Untried
    BY <2>5 DEF Exhausted, NothingDiscovered, harvest, Untried, Outstanding
  <2>7. ASSUME NEW i \in 1 .. Len(Channels) PROVE Channels[i] \in scannedEq
    <3>1. CASE i < iterPos
      BY <3>1 DEF IterInv, TypeOK
    <3>2. CASE i \in iterPos .. Len(Channels)
      BY <2>5, <3>2 DEF Exhausted
    <3>3. QED
      BY <3>1, <3>2 DEF TypeOK
  <2>8. QED
    BY <2>5, <2>6, <2>7 DEF Exhausted
<1>3. QED
  BY <1>1, <1>2
-----------------------------------------------------------------------------
\* The inductive invariant holds in every reachable state.
THEOREM Invariance == Spec => []IInv
<1>1. IInv /\ [Next]_msVars => IInv'
  BY TypeStep, QuietStep, VerdictStep, IterStep, UntriedStep DEF IInv
<1>2. QED
  BY InitIInv, <1>1, PTL DEF Spec

\* Every variable stays within its range, whatever the constants.
THEOREM TypeCorrect == Spec => []TypeOK
<1>1. IInv => TypeOK
  BY DEF IInv
<1>2. QED
  BY Invariance, <1>1, PTL

\* check_harvest() decides what the two policies in use ask for.
LEMMA VerdictExact ==
  ASSUME TypeOK
  PROVE  /\ Verdict = "BLANK" <=> known = {} \/ services = {}
         /\ Verdict = "COMPLETE" <=> known # {} /\ services # {} /\ PolicyMet
<1>1. "FIND_ALL_SERVICES" \notin policy
  BY ScanConstants DEF ScanConstants, TypeOK
<1>2. Outstanding = {} <=> \A t \in known : scanStatus[t] \in {"SCANNED", "FAILED"}
  BY DEF Outstanding, TypeOK
<1>3. successful >= EnoughScans <=> successful >= 2
  BY DEF EnoughScans
<1>4. HarvestComplete <=> PolicyMet
  BY <1>1, <1>2, <1>3 DEF HarvestComplete, PolicyMet
<1>5. QED
  BY <1>4 DEF Verdict

\* A scan that ends by itself reports COMPLETE exactly when it has found anything
\* and its harvest policy is met, for any broadcast and any nesting of failed tunes.
THEOREM FinalStatusCorrect == Spec => []FinalStatusExact
<1>1. IInv => FinalStatusExact
  BY VerdictExact DEF IInv, VerdictInv, FinalStatusExact
<1>2. QED
  BY Invariance, <1>1, PTL

\* A scan that ends incomplete has tried the whole iterator and the channel of
\* every transport stream still PENDING.
THEOREM NothingIsLeftUntried == Spec => []NothingLeftUntried
<1>1. IInv => NothingLeftUntried
  BY DEF IInv
<1>2. QED
  BY Invariance, <1>1, PTL

\* The results are immutable once finished has been emitted.
THEOREM ResultsAreFrozen == Spec => ResultsFrozen
<1>1. IInv /\ [Next]_msVars
        => [finished => /\ UNCHANGED <<harvest, status>>
                        /\ ~listening' /\ ~connected']_msVars
  BY FrozenStep DEF IInv
<1>2. QED
  BY Invariance, <1>1, PTL DEF Spec, ResultsFrozen
-----------------------------------------------------------------------------
\* next() comes back to the main loop with a channel tuned, or disconnected; only
\* what a disconnected scanner does can leave a refused tune behind.
LEMMA HeardStep ==
  ASSUME TypeOK, QuietInv, TunedWhileHeard, [Next]_msVars
  PROVE  TunedWhileHeard'
<1>1. CASE CheckHarvest \/ Exhausted \/ Cancel
  BY <1>1 DEF CheckHarvest, Exhausted, Cancel, DoCancel, TunedWhileHeard
<1>2. ASSUME NEW f \in Freq, NEW t, Tune(f, t) PROVE TunedWhileHeard'
  BY <1>2, ScanConstants DEF ScanConstants, Tune, TuneSucceeds, TuneFails, NoLockCb, TunedWhileHeard
<1>3. CASE TuneDiscovered \/ TuneLeftover
  BY <1>2, <1>3 DEF TuneDiscovered, TuneLeftover, Untried, Outstanding, LeftInProps, TypeOK
<1>4. CASE TuneIterated
  <2>1. PICK i \in iterPos .. Len(Channels) : Tune(Channels[i], NoTS)
    BY <1>4 DEF TuneIterated
  <2>2. Channels[i] \in Freq
    BY Bounds DEF TypeOK
  <2>3. QED
    BY <1>2, <2>1, <2>2
<1>5. CASE Lock
  BY <1>5 DEF Lock, TunedWhileHeard
<1>6. CASE LockFails
  BY <1>6 DEF LockFails, NoLockCb, TunedWhileHeard
<1>7. CASE NoLock
  BY <1>7 DEF NoLock, NoLockCb, verdict, TunedWhileHeard
<1>8. CASE Report
  BY <1>8 DEF Report, NitData, FirstSdt, OtherSdt, ChannelFinished, verdict, tuner, stack,
              TunedWhileHeard
<1>9. CASE UNCHANGED msVars
  BY <1>9 DEF msVars, verdict, tuner, stack, TunedWhileHeard
<1>10. QED
  BY <1>1, <1>3, <1>4, <1>5, <1>6, <1>7, <1>8, <1>9 DEF Next, InNext

\* For every order in which tunes are refused, one inside another: a scan that
\* waits for the receiver or for its filters has a tuning, which is what
\* single-channel-scanner.cpp gives the transport stream of an SDT section.
THEOREM HeardWhileTuned == Spec => []TunedWhileHeard
<1>1. Init => TunedWhileHeard
  BY DEF Init, TunedWhileHeard
<1>2. IInv /\ TunedWhileHeard /\ [Next]_msVars => TunedWhileHeard'
  BY HeardStep DEF IInv
<1>3. QED
  BY Invariance, <1>1, <1>2, PTL DEF Spec
-----------------------------------------------------------------------------
(* The scan with the real channel scanner (module Scan).                    *)

\* Filters run only where the scheduler has started them and not cancelled them.
FiltersHeard == running # {} => listening

LockedOK == locked \in Freq \cup {NoFreq}

\* What is on the air is what the NIT and SDT constants say may be received.
LEMMA Broadcast ==
  ASSUME TypeOK, LockedOK
  PROVE  /\ OnAir(NitOn) \subseteq Nit
         /\ OnAir(BatOn) \subseteq Nit
         /\ OnAir(ThisSdtOn) \subseteq Sdt
         /\ OnAir(OtherSdtOn) \subseteq Sdt
  BY BroadcastConstants DEF BroadcastConstants, OnAir, TypeOK, LockedOK

\* A callback reports to the scheduler, if anything, in the contract's terms.
LEMMA StopFilterReports ==
  ASSUME FiltersHeard, NEW f, NEW r, f \in Active, StopFilter(f, r)
  PROVE  (Report \/ UNCHANGED msVars) /\ running' \subseteq running
<1>1. ctl = "idle" /\ listening
  BY DEF Active, FiltersHeard
<1>2. (nitComplete' # {}) \in BOOLEAN
  OBVIOUS
<1>3. QED
  BY <1>1, <1>2 DEF StopFilter, Report

LEMMA FilterReports ==
  ASSUME TypeOK, LockedOK, FiltersHeard, FilterCb \/ \E f \in Filter : FilterError(f)
  PROVE  /\ Report \/ UNCHANGED msVars
         /\ running' \subseteq running /\ UNCHANGED started
<1> DEFINE Reports == /\ Report \/ UNCHANGED msVars
                      /\ running' \subseteq running /\ UNCHANGED started
<1>1. ASSUME NEW f \in Filter, FilterError(f) PROVE Reports
  BY <1>1, StopFilterReports DEF FilterError
<1>2. ASSUME NEW f, NEW n \in Nit, TableSection(f, n) PROVE Reports
  <2>1. CASE n \in seen[f] /\ Table(n) \subseteq seen[f]
    BY <1>2, <2>1, StopFilterReports DEF TableSection
  <2>2. CASE ~(n \in seen[f] /\ Table(n) \subseteq seen[f])
    <3>1. NitData(Entered(n)) \/ UNCHANGED msVars
      BY <1>2, <2>2 DEF TableSection
    <3>2. /\ running' = running /\ UNCHANGED started
          /\ ctl = "idle" /\ listening
      BY <1>2, <2>2 DEF TableSection, KeepFilter, Active, FiltersHeard
    <3>3. Entered(n) \in Nit
      BY BroadcastConstants DEF BroadcastConstants, Entered
    <3>4. QED
      BY <3>1, <3>2, <3>3 DEF Report
  <2>3. QED
    BY <2>1, <2>2
<1>3. ASSUME NEW f, NEW d \in Sdt, SdtSectionCb(f, d) PROVE Reports
  <2>1. CASE d \in seen[f]
    BY <1>3, <2>1, StopFilterReports DEF SdtSectionCb
  <2>2. CASE d \notin seen[f]
    BY <1>3, <2>2 DEF SdtSectionCb, KeepFilter, Active, FiltersHeard, Report
  <2>3. QED
    BY <2>1, <2>2
<1>4. CASE NitFilterCb \/ BatFilterCb
  BY <1>2, <1>4, Broadcast DEF NitFilterCb, BatFilterCb
<1>5. CASE ThisSdtFilterCb \/ OtherSdtFilterCb
  BY <1>3, <1>5, Broadcast DEF ThisSdtFilterCb, OtherSdtFilterCb
<1>6. QED
  BY <1>1, <1>4, <1>5 DEF FilterCb

\* A report leaves the scheduler listening, and so does every step of it that does
\* not finish the scan.
LEMMA ListeningStays ==
  ASSUME listening,
         Report \/ UNCHANGED msVars \/ ((InNext \/ NoLock) /\ ~finished')
  PROVE  listening'
<1>1. ASSUME NEW f, NEW t, Tune(f, t) PROVE listening'
  BY <1>1 DEF Tune, verdict
<1>2. CASE Report
  BY <1>2 DEF Report, NitData, FirstSdt, OtherSdt, ChannelFinished, verdict
<1>3. CASE InNext /\ ~finished'
  BY <1>1, <1>3 DEF InNext, CheckHarvest, DoCancel, TuneDiscovered, TuneLeftover,
                    TuneIterated, Exhausted
<1>4. CASE NoLock \/ UNCHANGED msVars
  BY <1>4 DEF NoLock, msVars, verdict
<1>5. QED
  BY <1>2, <1>3, <1>4

\* Every step of the composition is one of the scheduler's or leaves it alone, and
\* a cancel, however deep in next() it is called, leaves no filter to call back.
LEMMA ScanStep ==
  TypeOK /\ LockedOK /\ FiltersHeard /\ [ScanNext]_vars
    => [Next]_msVars /\ LockedOK' /\ FiltersHeard'
<1> SUFFICES ASSUME TypeOK, LockedOK, FiltersHeard, [ScanNext]_vars
             PROVE  [Next]_msVars /\ LockedOK' /\ FiltersHeard'
  OBVIOUS
<1>1. CASE (InNext \/ NoLock \/ Cancel) /\ FiltersCancelled
  <2>1. LockedOK'
    BY <1>1 DEF FiltersCancelled, CancelFilters, csVars, started, LockedOK
  <2>2. CASE finished'
    BY <1>1, <2>1, <2>2 DEF Next, FiltersCancelled, CancelFilters, FiltersHeard
  <2>3. CASE ~finished'
    <3>1. running' = running /\ ~Cancel
      BY <1>1, <2>3 DEF FiltersCancelled, csVars, Cancel, DoCancel
    <3>2. QED
      BY <1>1, <2>1, <2>3, <3>1, ListeningStays DEF Next, FiltersHeard
  <2>4. QED
    BY <2>2, <2>3
<1>2. CASE LockStarts
  <2>1. Lock /\ (connected => listening')
    BY <1>2 DEF LockStarts, Lock
  <2>2. LockedOK'
    BY <1>2 DEF LockStarts, StartChannel, csVars, started, TypeOK, LockedOK
  <2>3. CASE connected
    BY <2>1, <2>2, <2>3 DEF Next, FiltersHeard
  <2>4. CASE ~connected
    <3>1. running' = running /\ listening' = listening
      BY <1>2, <2>4 DEF LockStarts, Lock, csVars, TypeOK
    <3>2. QED
      BY <2>1, <2>2, <3>1 DEF Next, FiltersHeard
  <2>5. QED
    BY <2>3, <2>4
<1>3. CASE FilterCb \/ \E f \in Filter : FilterError(f)
  <2>1. /\ Report \/ UNCHANGED msVars
        /\ running' \subseteq running /\ UNCHANGED started
    BY <1>3, FilterReports
  <2>2. FiltersHeard'
    BY <2>1, ListeningStays DEF FiltersHeard
  <2>3. QED
    BY <2>1, <2>2 DEF Next, started, LockedOK
<1>4. CASE \E f \in Filter : StartFails(f)
  BY <1>4 DEF StartFails, LockFails, Next, TypeOK, LockedOK, FiltersHeard
<1>5. CASE UNCHANGED vars
  BY <1>5 DEF vars, csVars, started, msVars, verdict, LockedOK, FiltersHeard
<1>6. QED
  BY <1>1, <1>2, <1>3, <1>4, <1>5 DEF ScanNext

\* So the real channel scanners keep to what the scheduler was specified with.
LEMMA ScanIsScheduled == ScanSpec => Spec
<1>1. ScanInit => Init /\ LockedOK /\ FiltersHeard /\ TypeOK
  BY InitIInv DEF ScanInit, LockedOK, FiltersHeard, IInv
<1>2. TypeOK /\ LockedOK /\ FiltersHeard /\ [ScanNext]_vars
        => TypeOK' /\ LockedOK' /\ FiltersHeard'
  BY ScanStep, TypeStep
<1>3. ScanSpec => [](TypeOK /\ LockedOK /\ FiltersHeard)
  BY <1>1, <1>2, PTL DEF ScanSpec
<1>4. QED
  BY <1>1, <1>3, ScanStep, PTL DEF ScanSpec, Spec

\* A scan with the real filters, the ones left over from earlier channels among
\* them, ends with the status its harvest deserves, and that harvest stays.
THEOREM ScanStatusCorrect == ScanSpec => []FinalStatusExact /\ ResultsFrozen
<1>1. QED
  BY ScanIsScheduled, FinalStatusCorrect, ResultsAreFrozen, PTL
-----------------------------------------------------------------------------
(* The channel scanner's own variables.                                    *)

\* A callback that stops its filter leaves the others as they were.
LEMMA StopFilterType ==
  ASSUME ScanTypeOK, NEW f \in Filter, NEW r \in {"REPEAT_COMPLETE", "ERROR"},
         StopFilter(f, r), UNCHANGED <<seen, haveTs, started>>,
         nitComplete' \subseteq Network
  PROVE  ScanTypeOK'
<1>1. result' = [result EXCEPT ![f] = r] /\ running' = running \ {f}
  BY DEF StopFilter
<1>2. \A g \in running \ {f} : result'[g] \in {"BLANK", "OK"}
  BY <1>1 DEF ScanTypeOK
<1>3. QED
  BY <1>1, <1>2 DEF ScanTypeOK, Result, started

\* One that goes on has had a section.
LEMMA KeepFilterType ==
  ASSUME ScanTypeOK, NEW f \in Filter, KeepFilter(f),
         NEW x \in Nit \cup Sdt, seen' = [seen EXCEPT ![f] = @ \cup {x}],
         haveTs' = (haveTs \/ f = "this_sdt"), nitComplete' \subseteq Network
  PROVE  ScanTypeOK'
<1>1. result' = [result EXCEPT ![f] = IF @ = "BLANK" THEN "OK" ELSE @]
  BY DEF KeepFilter
<1>2. result' \in [Filter -> Result] /\ \A g \in running : result'[g] \in {"BLANK", "OK"}
  BY <1>1 DEF ScanTypeOK, Result
<1>3. seen' \in [Filter -> SUBSET (Nit \cup Sdt)] /\ haveTs' \in BOOLEAN
  BY DEF ScanTypeOK
<1>4. haveTs' <=> seen'["this_sdt"] # {}
  <2>1. CASE f = "this_sdt"
    BY <2>1 DEF ScanTypeOK, Filter
  <2>2. CASE f # "this_sdt"
    BY <2>2 DEF ScanTypeOK, Filter
  <2>3. QED
    BY <2>1, <2>2
<1>5. QED
  BY <1>2, <1>3, <1>4 DEF ScanTypeOK, KeepFilter, started

LEMMA TableSectionType ==
  ASSUME ScanTypeOK, NEW f \in {"nit", "bat"}, NEW n \in Nit, TableSection(f, n)
  PROVE  ScanTypeOK'
<1>1. f \in Filter /\ f # "this_sdt" /\ haveTs' = haveTs
  BY DEF Filter, TableSection
<1>2. n.network \in Network
  BY ScanConstants DEF ScanConstants, NitSection
<1>3. nitComplete' \subseteq Network
  BY <1>2 DEF TableSection, ScanTypeOK
<1>4. CASE n \in seen[f] /\ Table(n) \subseteq seen[f]
  <2>1. StopFilter(f, "REPEAT_COMPLETE") /\ UNCHANGED <<seen, haveTs, started>>
    BY <1>4 DEF TableSection
  <2>2. QED
    BY <1>1, <1>3, <2>1, StopFilterType
<1>5. CASE ~(n \in seen[f] /\ Table(n) \subseteq seen[f])
  <2>1. KeepFilter(f) /\ seen' = [seen EXCEPT ![f] = @ \cup {n}]
    BY <1>5 DEF TableSection
  <2>2. haveTs' = (haveTs \/ f = "this_sdt")
    BY <1>1 DEF ScanTypeOK
  <2>3. QED
    BY <1>1, <1>3, <2>1, <2>2, KeepFilterType
<1>6. QED
  BY <1>4, <1>5

LEMMA SdtSectionType ==
  ASSUME ScanTypeOK, NEW f \in {"this_sdt", "other_sdt"}, NEW d \in Sdt, SdtSectionCb(f, d)
  PROVE  ScanTypeOK'
<1>1. f \in Filter /\ nitComplete' \subseteq Network
  BY DEF Filter, SdtSectionCb, ScanTypeOK
<1>2. CASE d \in seen[f]
  <2>1. StopFilter(f, "REPEAT_COMPLETE") /\ UNCHANGED <<seen, haveTs, started>>
    BY <1>2 DEF SdtSectionCb
  <2>2. QED
    BY <1>1, <2>1, StopFilterType
<1>3. CASE d \notin seen[f]
  <2>1. KeepFilter(f) /\ seen' = [seen EXCEPT ![f] = @ \cup {d}]
    BY <1>3 DEF SdtSectionCb
  <2>2. haveTs' = (haveTs \/ f = "this_sdt")
    BY <1>3 DEF SdtSectionCb
  <2>3. QED
    BY <1>1, <2>1, <2>2, KeepFilterType
<1>4. QED
  BY <1>2, <1>3

\* Whether the channel is started, or its start throws at some filter: the filters
\* that run afterwards and are of this channel have heard nothing yet.
LEMMA StartType ==
  ASSUME TypeOK, ScanTypeOK, LockStarts \/ \E f \in Filter : StartFails(f)
  PROVE  ScanTypeOK'
<1>1. CASE LockStarts /\ connected
  <2>1. StartChannel
    BY <1>1 DEF LockStarts
  <2>2. /\ result' \in [Filter -> Result]
        /\ \A f \in Filter : result'[f] \in {"BLANK", "OK"}
        /\ running' \subseteq created' /\ created' \subseteq Filter
    BY <2>1 DEF StartChannel, Supported, Result
  <2>3. seen' \in [Filter -> SUBSET (Nit \cup Sdt)] /\ seen'["this_sdt"] = {} /\ haveTs' = FALSE
    BY <2>1 DEF StartChannel, Filter
  <2>4. /\ nitComplete' \subseteq Network
        /\ locked' \in Freq \cup {NoFreq} /\ several' \in BOOLEAN
    BY <2>1 DEF StartChannel, ScanTypeOK, TypeOK
  <2>5. QED
    BY <2>2, <2>3, <2>4 DEF ScanTypeOK
<1>2. CASE LockStarts /\ ~connected
  BY <1>2 DEF LockStarts, csVars, started, ScanTypeOK, Filter, Result
<1>3. ASSUME NEW f \in Filter, StartFails(f)
      PROVE  ScanTypeOK'
  <2>1. /\ nitComplete' \subseteq Network
        /\ locked' \in Freq \cup {NoFreq} /\ several' \in BOOLEAN
    BY <1>3 DEF StartFails, ScanTypeOK, TypeOK
  <2>5. running' \subseteq created' /\ created' \subseteq Filter
    BY <1>3 DEF StartFails, CreatedBefore, Supported, ScanTypeOK
  <2>2. CASE f = "bat"
    <3>1. /\ result' = [result EXCEPT !["bat"] = "BLANK"]
          /\ seen' = [seen EXCEPT !["bat"] = {}]
          /\ haveTs' = haveTs
      BY <1>3, <2>2 DEF StartFails, ScanTypeOK, Filter
    <3>2. running' = running
      BY <1>3, <2>2 DEF StartFails, CreatedBefore
    <3>3. QED
      BY <2>1, <2>5, <3>1, <3>2 DEF ScanTypeOK, Filter, Result
  <2>3. CASE f # "bat"
    <3>1. /\ result' = [g \in Filter |-> "BLANK"]
          /\ seen' = [g \in Filter |-> {}]
          /\ haveTs' = FALSE
      BY <1>3, <2>3 DEF StartFails
    <3>2. QED
      BY <2>1, <2>5, <3>1 DEF ScanTypeOK, Filter, Result
  <2>4. QED
    BY <2>2, <2>3
<1>4. QED
  BY <1>1, <1>2, <1>3

LEMMA ScanTypeStep ==
  TypeOK /\ ScanTypeOK /\ [ScanNext]_vars => ScanTypeOK'
<1> SUFFICES ASSUME TypeOK, ScanTypeOK, [ScanNext]_vars
             PROVE  ScanTypeOK'
  OBVIOUS
<1>1. LockedOK
  BY DEF ScanTypeOK, LockedOK
<1>2. CASE UNCHANGED csVars
  BY <1>2 DEF csVars, started, ScanTypeOK, Filter, Result
<1>7. CASE CancelFilters
  BY <1>7 DEF CancelFilters, ScanTypeOK
<1>3. CASE LockStarts \/ \E f \in Filter : StartFails(f)
  BY <1>3, StartType
<1>4. CASE FilterCb
  BY <1>1, <1>4, Broadcast, TableSectionType, SdtSectionType
  DEF FilterCb, NitFilterCb, BatFilterCb, ThisSdtFilterCb, OtherSdtFilterCb
<1>5. ASSUME NEW f \in Filter, FilterError(f)
      PROVE  ScanTypeOK'
  <2>1. StopFilter(f, "ERROR") /\ UNCHANGED <<seen, nitComplete, haveTs, started>>
    BY <1>5 DEF FilterError
  <2>2. nitComplete' \subseteq Network
    BY <2>1 DEF ScanTypeOK
  <2>3. QED
    BY <2>1, <2>2, StopFilterType
<1>6. QED
  BY <1>2, <1>3, <1>4, <1>5, <1>7 DEF ScanNext, FiltersCancelled, vars

\* The channel scanner's state keeps its types, for every broadcast: no filter that
\* has failed or completed runs on, also when a later start throws half way, and
\* have_current_ts_id_ is set exactly when the channel's own SDT has been heard.
THEOREM ScanTypeCorrect == ScanSpec => []ScanTypeOK
<1>1. ScanInit => ScanTypeOK
  BY DEF ScanInit, ScanTypeOK, Filter, Result
<1>3. ScanSpec => []TypeOK
  BY ScanIsScheduled, TypeCorrect, PTL
<1>4. QED
  BY <1>1, <1>3, ScanTypeStep, PTL DEF ScanSpec
-----------------------------------------------------------------------------
(* Nothing stalls.                                                         *)

\* Only filters the scanner has are ever created.
SupportedInv ==
  running \subseteq Supported /\ \A f \in Filter \ Supported : result[f] = "BLANK"

\* While the main loop rests with no tune to be answered, the channel started last
\* is not complete, and the filters that are stopped have completed or failed.
AtRest ==
  ctl = "idle" /\ ~finished /\ pending = NoFreq
    => /\ Supported \subseteq created /\ ~TrackersComplete(result)
       /\ \A f \in Supported \ running : result[f] \in {"REPEAT_COMPLETE", "ERROR"}

RestInv == SupportedInv /\ AtRest

\* No handler changes the harvest policy.
LEMMA PolicyFixed == [Next]_msVars => Freesat' = Freesat /\ Supported' = Supported
<1> SUFFICES ASSUME [Next]_msVars PROVE policy' = policy
  BY DEF Freesat, Supported
<1>1. ASSUME NEW f, NEW t, Tune(f, t) PROVE policy' = policy
  BY <1>1 DEF Tune
<1>2. CASE InNext
  BY <1>1, <1>2 DEF InNext, CheckHarvest, TuneDiscovered, TuneLeftover, TuneIterated, Exhausted
<1>3. CASE Report
  BY <1>3 DEF Report, NitData, FirstSdt, OtherSdt, ChannelFinished
<1>4. QED
  BY <1>2, <1>3 DEF Next, Lock, LockFails, NoLock, Cancel, msVars

\* next() returns to the main loop with a tune to be answered, or finished.
LEMMA NextNeverRests ==
  ASSUME TypeOK, QuietInv, InNext \/ NoLock \/ Cancel
  PROVE  ctl' = "idle" /\ ~finished' => pending' # NoFreq
<1>1. ASSUME NEW f \in Freq, NEW t, Tune(f, t)
      PROVE  ctl' = "idle" => pending' # NoFreq
  BY <1>1, ScanConstants DEF ScanConstants, Tune, TuneSucceeds, TuneFails, NoLockCb
<1>2. CASE CheckHarvest
  BY <1>2 DEF CheckHarvest, DoCancel
<1>3. CASE TuneDiscovered
  BY <1>1, <1>3 DEF TuneDiscovered, Untried, Outstanding, TypeOK
<1>4. CASE TuneLeftover
  BY <1>1, <1>4 DEF TuneLeftover, LeftInProps, Outstanding, TypeOK
<1>5. CASE TuneIterated
  <2>1. PICK i \in iterPos .. Len(Channels) : Tune(Channels[i], NoTS)
    BY <1>5 DEF TuneIterated
  <2>2. Channels[i] \in Freq
    BY Bounds DEF TypeOK
  <2>3. QED
    BY <1>1, <2>1, <2>2
<1>6. CASE Exhausted \/ Cancel
  BY <1>6 DEF Exhausted, Cancel, DoCancel
<1>7. CASE NoLock
  BY <1>7 DEF NoLock, NoLockCb, verdict, QuietInv, TypeOK
<1>8. QED
  BY <1>2, <1>3, <1>4, <1>5, <1>6, <1>7 DEF InNext

\* A callback that stops its filter ends the channel, or leaves another to end it.
LEMMA StopFilterRests ==
  ASSUME TypeOK, ScanTypeOK, RestInv, QuietInv, NEW f \in Active,
         NEW r \in {"REPEAT_COMPLETE", "ERROR"}, StopFilter(f, r),
         Supported' = Supported, created' = created
  PROVE  RestInv'
<1>1. f \in running /\ f \in Supported /\ f \in Filter
  BY DEF Active, RestInv, SupportedInv, Supported
<1>2. /\ result' = [result EXCEPT ![f] = r]
      /\ running' = running \ {f}
  BY DEF StopFilter
<1>3. SupportedInv'
  BY <1>1, <1>2 DEF RestInv, SupportedInv, ScanTypeOK
<1>4. \A g \in Supported \ running :
        result[g] \in {"REPEAT_COMPLETE", "ERROR"} => result'[g] \in {"REPEAT_COMPLETE", "ERROR"}
  BY <1>1, <1>2 DEF ScanTypeOK, Supported
<1>5. result'[f] \in {"REPEAT_COMPLETE", "ERROR"}
  BY <1>1, <1>2 DEF ScanTypeOK
<1>6. CASE TrackersComplete(result')
  <2>1. ctl' = "next"
    BY <1>6 DEF StopFilter, ChannelFinished
  <2>2. QED
    BY <1>3, <2>1 DEF RestInv, AtRest
<1>7. CASE ~TrackersComplete(result')
  <2>1. UNCHANGED <<ctl, finished, pending, policy>>
    BY <1>7 DEF StopFilter, msVars, verdict, tuner, stack
  <2>2. ~TrackersComplete(result)'
    BY <1>7, <2>1 DEF TrackersComplete, Freesat
  <2>3. AtRest'
    <3> SUFFICES ASSUME ctl = "idle", ~finished, pending = NoFreq
                 PROVE  /\ Supported \subseteq created
                        /\ \A g \in Supported \ running' :
                             result'[g] \in {"REPEAT_COMPLETE", "ERROR"}
      BY <2>1, <2>2 DEF AtRest
    <3>1. /\ Supported \subseteq created
          /\ \A g \in Supported \ running : result[g] \in {"REPEAT_COMPLETE", "ERROR"}
      BY DEF RestInv, AtRest
    <3>2. QED
      BY <1>2, <1>4, <1>5, <3>1
  <2>4. QED
    BY <1>3, <2>3 DEF RestInv
<1>8. QED
  BY <1>6, <1>7

\* One that goes on leaves the channel as incomplete as it was.
LEMMA KeepFilterRests ==
  ASSUME ScanTypeOK, RestInv, NEW f \in Active, KeepFilter(f),
         UNCHANGED <<ctl, finished, pending, policy>>
  PROVE  RestInv'
<1>1. f \in running /\ f \in Supported /\ f \in Filter
  BY DEF Active, RestInv, SupportedInv, Supported
<1>2. /\ running' = running /\ created' = created
      /\ Supported' = Supported /\ Freesat' = Freesat
  BY DEF KeepFilter, started, Supported, Freesat
<1>3. result' = [result EXCEPT ![f] = IF result[f] = "BLANK" THEN "OK" ELSE result[f]]
  BY DEF KeepFilter
<1>4. result'[f] = "OK" /\ result[f] \in {"BLANK", "OK"}
  BY <1>1, <1>3 DEF ScanTypeOK
<1>5. \A g \in Filter \ {f} : result'[g] = result[g]
  BY <1>1, <1>3 DEF ScanTypeOK
<1>6. f = "bat" => Freesat
  BY <1>1 DEF Supported
<1>7. ~TrackersComplete(result) => ~TrackersComplete(result')
  BY <1>1, <1>4, <1>5, <1>6 DEF TrackersComplete, Filter
<1>8. TrackersComplete(result)' <=> TrackersComplete(result')
  BY <1>2 DEF TrackersComplete
<1>9. SupportedInv'
  BY <1>1, <1>2, <1>5 DEF RestInv, SupportedInv
<1>10. AtRest'
  BY <1>1, <1>2, <1>5, <1>7, <1>8 DEF RestInv, AtRest, Supported
<1>11. QED
  BY <1>9, <1>10 DEF RestInv

LEMMA FilterRests ==
  ASSUME TypeOK, ScanTypeOK, RestInv, QuietInv, Supported' = Supported,
         FilterCb \/ \E f \in Filter : FilterError(f)
  PROVE  RestInv'
<1>1. ASSUME NEW f \in Filter, FilterError(f) PROVE RestInv'
  BY <1>1, StopFilterRests DEF FilterError, started
<1>2. ASSUME NEW f, NEW n, TableSection(f, n) PROVE RestInv'
  <2>1. CASE n \in seen[f] /\ Table(n) \subseteq seen[f]
    BY <1>2, <2>1, StopFilterRests DEF TableSection, started
  <2>2. CASE ~(n \in seen[f] /\ Table(n) \subseteq seen[f])
    <3>1. f \in Active /\ KeepFilter(f)
      BY <1>2, <2>2 DEF TableSection
    <3>2. NitData(Entered(n)) \/ UNCHANGED msVars
      BY <1>2, <2>2 DEF TableSection
    <3>3. UNCHANGED <<ctl, finished, pending, policy>>
      BY <3>2 DEF NitData, msVars, verdict, tuner, stack
    <3>4. QED
      BY <3>1, <3>3, KeepFilterRests
  <2>3. QED
    BY <2>1, <2>2
<1>3. ASSUME NEW f, NEW d, SdtSectionCb(f, d) PROVE RestInv'
  <2>1. CASE d \in seen[f]
    BY <1>3, <2>1, StopFilterRests DEF SdtSectionCb, started
  <2>2. CASE d \notin seen[f]
    <3>1. f \in Active /\ KeepFilter(f)
      BY <1>3, <2>2 DEF SdtSectionCb
    <3>2. FirstSdt(d) \/ OtherSdt(d)
      BY <1>3, <2>2 DEF SdtSectionCb
    <3>3. UNCHANGED <<ctl, finished, pending, policy>>
      BY <3>2 DEF FirstSdt, OtherSdt, verdict, tuner, stack
    <3>4. QED
      BY <3>1, <3>3, KeepFilterRests
  <2>3. QED
    BY <2>1, <2>2
<1>4. QED
  BY <1>1, <1>2, <1>3
  DEF FilterCb, NitFilterCb, BatFilterCb, ThisSdtFilterCb, OtherSdtFilterCb

\* A channel is started with every filter the scanner has; a start that throws is
\* followed by next(), in the same callback.
LEMMA StartRests ==
  ASSUME TypeOK, ScanTypeOK, RestInv, QuietInv, Supported' = Supported,
         LockStarts \/ \E f \in Filter : StartFails(f)
  PROVE  RestInv'
<1>1. CASE LockStarts /\ connected
  <2>1. /\ result' = [f \in Filter |-> "BLANK"]
        /\ running' = Supported
        /\ created' = Supported
    BY <1>1 DEF LockStarts, StartChannel, Lock
  <2>2. SupportedInv'
    BY <2>1 DEF SupportedInv
  <2>3. "nit" \in created'
    BY <2>1 DEF Supported, Filter
  <2>5. AtRest'
    BY <2>1, <2>3 DEF AtRest, TrackersComplete, Filter
  <2>4. QED
    BY <2>2, <2>5 DEF RestInv
<1>2. CASE LockStarts /\ ~connected
  <2>1. UNCHANGED <<result, running>> /\ finished'
    BY <1>2 DEF LockStarts, csVars, Lock, QuietInv
  <2>2. QED
    BY <2>1 DEF RestInv, SupportedInv, AtRest
<1>3. ASSUME NEW f \in Filter, StartFails(f) PROVE RestInv'
  <2>1. ctl' = "next"
    BY <1>3 DEF StartFails, LockFails, NoLockCb
  <2>2. running' \subseteq Supported
    BY <1>3 DEF StartFails, CreatedBefore, RestInv, SupportedInv
  <2>3. \A g \in Filter : result'[g] \in {"BLANK", result[g]}
    BY <1>3 DEF StartFails
  <2>4. QED
    BY <2>1, <2>2, <2>3 DEF RestInv, SupportedInv, AtRest
<1>4. QED
  BY <1>1, <1>2, <1>3

LEMMA RestStep ==
  TypeOK /\ QuietInv /\ ScanTypeOK /\ FiltersHeard /\ RestInv /\ [ScanNext]_vars
    => RestInv'
<1> SUFFICES ASSUME TypeOK, QuietInv, ScanTypeOK, FiltersHeard, RestInv, [ScanNext]_vars
             PROVE  RestInv'
  OBVIOUS
<1>1. Supported' = Supported /\ Freesat' = Freesat
  BY ScanStep, PolicyFixed DEF ScanTypeOK, LockedOK
<1>2. CASE (InNext \/ NoLock \/ Cancel) /\ FiltersCancelled
  <2>1. SupportedInv'
    BY <1>1, <1>2 DEF FiltersCancelled, CancelFilters, csVars, RestInv, SupportedInv
  <2>2. QED
    BY <1>2, <2>1, NextNeverRests DEF RestInv, AtRest
<1>3. CASE LockStarts \/ \E f \in Filter : StartFails(f)
  BY <1>1, <1>3, StartRests
<1>4. CASE FilterCb \/ \E f \in Filter : FilterError(f)
  BY <1>1, <1>4, FilterRests
<1>5. CASE UNCHANGED vars
  BY <1>1, <1>5 DEF vars, msVars, csVars, started, verdict, tuner, stack, RestInv,
                    SupportedInv, AtRest, TrackersComplete
<1>6. QED
  BY <1>2, <1>3, <1>4, <1>5 DEF ScanNext

LEMMA RestInvariance == ScanSpec => [](IInv /\ ScanTypeOK /\ RestInv)
<1>1. ScanInit => IInv /\ ScanTypeOK /\ FiltersHeard /\ RestInv
  <2> SUFFICES ASSUME ScanInit PROVE IInv /\ ScanTypeOK /\ FiltersHeard /\ RestInv
    OBVIOUS
  <2>1. IInv
    BY InitIInv DEF ScanInit
  <2>2. ScanTypeOK
    BY DEF ScanInit, ScanTypeOK, Filter, Result
  <2>3. ctl = "next" /\ running = {} /\ result = [f \in Filter |-> "BLANK"]
    BY DEF ScanInit, Init
  <2>4. FiltersHeard /\ RestInv
    BY <2>3 DEF FiltersHeard, RestInv, SupportedInv, AtRest
  <2>5. QED
    BY <2>1, <2>2, <2>4
<1>2. ScanSpec => []IInv
  BY ScanIsScheduled, Invariance, PTL
<1>3. /\ IInv => TypeOK /\ QuietInv
      /\ ScanTypeOK => LockedOK
  BY DEF IInv, ScanTypeOK, LockedOK
<1>4. QED
  BY <1>1, <1>2, <1>3, ScanTypeCorrect, ScanStep, RestStep, PTL DEF ScanSpec

\* The main loop never rests before the scan has finished without a tune to be
\* answered or a filter running that can end the channel, unless an SDT filter has
\* failed: for every broadcast, both scanners, and every order of callbacks.
THEOREM ScanNeverStalls == ScanSpec => []NeverStalls
<1>1. ASSUME IInv, ScanTypeOK, RestInv PROVE NeverStalls
  <2> SUFFICES ASSUME ctl = "idle", ~finished, ~SdtFailed, pending = NoFreq
               PROVE  Active \cap {"nit", "bat"} # {}
    BY DEF NeverStalls
  <2>1. /\ Supported \subseteq created /\ ~TrackersComplete(result)
        /\ \A f \in Supported \ running : result[f] \in {"REPEAT_COMPLETE", "ERROR"}
    BY <1>1 DEF RestInv, AtRest
  <2>2. \A f \in created \cap {"this_sdt", "other_sdt"} : result[f] # "ERROR"
    BY DEF SdtFailed, Filter
  <2>3. "nit" \in Supported /\ (Freesat => "bat" \in Supported)
    BY DEF Supported, Filter
  <2>4. "nit" \in running \/ "bat" \in running
    BY <2>1, <2>2, <2>3 DEF TrackersComplete
  <2>5. QED
    BY <2>1, <2>4 DEF Active
<1>2. QED
  BY <1>1, RestInvariance, PTL
=============================================================================
