-------------------------------- MODULE Tuner --------------------------------
(* What a Receiver promises a scan (receiver.h), whatever sources, queues  *)
(* and descriptors it keeps for that: a tune that returns is answered by   *)
(* lock or nolock, once, unless it is cancelled or another one takes its   *)
(* place, and nothing else is; current_tuning() is the channel that is     *)
(* waited for or was answered last, and none after a tune that failed.     *)
(* One that was refused by the device, which has had its nolock, may be    *)
(* answered again.                                                         *)
CONSTANTS Channel, None

VARIABLES
  waiting,  \* the channel whose lock or nolock is to come
  stray,    \* an answer to a tune that was refused may still come
  current,  \* current_tuning()
  signal    \* what was emitted last

tvars == <<waiting, stray, current, signal>>

TInit == waiting = None /\ stray = FALSE /\ current = None /\ signal = "none"

Accept(c) == waiting' = c /\ current' = c /\ stray' = FALSE /\ signal' = "none"

\* nolock comes from inside the call, before the exception.
Fail == waiting' = None /\ current' = None /\ stray' \in BOOLEAN /\ signal' = "failed"

\* A channel that has been locked, or given up, stays the current one.
Abandon ==
  /\ waiting' = None /\ stray' = FALSE
  /\ current' = IF waiting = None THEN current ELSE None
  /\ signal' = "none"

\* A handler of lock that throws brings nolock upon it.
Reply ==
  /\ waiting # None \/ stray
  /\ waiting' = None /\ stray' = FALSE
  /\ signal' \in {"lock", "nolock", "lock and nolock"}
  /\ UNCHANGED current

\* What goes on without the scan's noticing.
Quiet == signal' = "none" /\ UNCHANGED <<waiting, stray, current>>

TNext == (\E c \in Channel : Accept(c)) \/ Fail \/ Abandon \/ Reply \/ Quiet
=============================================================================
