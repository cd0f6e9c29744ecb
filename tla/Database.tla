------------------------------ MODULE Database ------------------------------
(***************************************************************************)
(* The database thread and its queues (db/logi-db.cpp).                    *)
(*                                                                         *)
(* The main thread queues statements and runs the GLib main loop; one      *)
(* worker thread executes them and hands results back through a queue that *)
(* an idle callback of the main loop drains.  A mutex guards both queues,  *)
(* and the worker sleeps on a condition variable that it waits for without *)
(* a predicate: a notification that comes while it is not waiting is lost. *)
(* stop_ is read and written with no lock.                                 *)
(***************************************************************************)
EXTENDS Naturals, Sequences, FiniteSets

CONSTANTS
  Stmt,       \* the statements, pseudo queries and functions the program queues
  HasResult   \* those whose has_result() is true: queries and callbacks

ASSUME StatementConstants == HasResult \subseteq Stmt /\ IsFiniteSet(Stmt)

VARIABLES
  statementQueue,  \* statement_queue_
  resultQueue,     \* result_queue_
  idle,            \* idle sources connected for result_idle_callback
  mutex,           \* the thread that holds mut_
  stop,            \* stop_
  closed,          \* the subclass has closed its sqlite3 handle
  wpc,             \* where the worker is in thread_main
  stmt,            \* the statement it has popped, as a sequence of at most one
  mpc,             \* where the main thread is
  result,          \* the result it has popped, as a sequence of at most one
  submitted,       \* history: statements in the order they were queued
  executed,        \* history: in the order they were executed
  forwarded        \* history: in the order their results were called back

shared  == <<statementQueue, resultQueue, idle, mutex>>
flags   == <<stop, closed>>
worker  == <<wpc, stmt>>
main    == <<mpc, result>>
history == <<submitted, executed, forwarded>>
vars    == <<shared, flags, worker, main, history>>

WorkerPc == {"test", "lock", "waiting", "wake", "drain", "execute", "relock", "exit"}

\* "loop" is the main loop; "drain" and "callback" are within
\* result_idle_callback, with and without the mutex; the rest is within stop(),
\* "stop2" and so on when a callback called it.
MainPc == {"loop", "drain", "callback", "notify", "join", "notify2", "join2", "dead"}

Elements(s) == {s[i] : i \in 1 .. Len(s)}
-----------------------------------------------------------------------------
(* The worker: thread_main.                                                *)

TestStop ==
  /\ wpc = "test"
  /\ wpc' = IF stop THEN "exit" ELSE "lock"
  /\ UNCHANGED <<shared, flags, stmt, main, history>>

\* The lock is taken and given up again in the call of cv_.wait().
Wait ==
  /\ wpc = "lock" /\ mutex = "none"
  /\ wpc' = "waiting"
  /\ UNCHANGED <<shared, flags, stmt, main, history>>

\* The standard allows wait() to return unnotified.
SpuriousWakeup ==
  /\ wpc = "waiting"
  /\ wpc' = "wake"
  /\ UNCHANGED <<shared, flags, stmt, main, history>>

WakeUp ==
  /\ wpc = "wake" /\ mutex = "none"
  /\ wpc' = "drain" /\ mutex' = "worker"
  /\ UNCHANGED <<statementQueue, resultQueue, idle, flags, stmt, main, history>>

\* For comparison: the lock is kept while the statement is executed.
PopLocked ==
  /\ wpc = "drain" /\ statementQueue # <<>>
  /\ stmt' = <<Head(statementQueue)>>
  /\ statementQueue' = Tail(statementQueue)
  /\ wpc' = "execute"
  /\ UNCHANGED <<resultQueue, idle, mutex, flags, main, history>>

\* For comparison: a stack in the place of the queue.
PopLast ==
  /\ wpc = "drain" /\ statementQueue # <<>>
  /\ stmt' = <<statementQueue[Len(statementQueue)]>>
  /\ statementQueue' = SubSeq(statementQueue, 1, Len(statementQueue) - 1)
  /\ mutex' = "none"
  /\ wpc' = "execute"
  /\ UNCHANGED <<resultQueue, idle, flags, main, history>>

\* The inner loop, mutex held: pop a statement and execute it unlocked...
Pop ==
  /\ wpc = "drain" /\ statementQueue # <<>>
  /\ stmt' = <<Head(statementQueue)>>
  /\ statementQueue' = Tail(statementQueue)
  /\ mutex' = "none"
  /\ wpc' = "execute"
  /\ UNCHANGED <<resultQueue, idle, flags, main, history>>

\* ... or find the queue empty; the mutex is released and stop_ tested again.
Drained ==
  /\ wpc = "drain" /\ statementQueue = <<>>
  /\ mutex' = "none"
  /\ wpc' = "test"
  /\ UNCHANGED <<statementQueue, resultQueue, idle, flags, stmt, main, history>>

\* A statement that throws ends its execution too: the exception is logged.
Execute ==
  /\ wpc = "execute"
  /\ wpc' = "relock"
  /\ executed' = Append(executed, Head(stmt))
  /\ UNCHANGED <<shared, flags, stmt, main, submitted, forwarded>>

\* For comparison: every statement is taken for one with a result; ...
RelockAnyResult ==
  /\ wpc = "relock" /\ mutex = "none"
  /\ mutex' = "worker" /\ wpc' = "drain"
  /\ resultQueue' = Append(resultQueue, Head(stmt)) /\ idle' = idle + 1
  /\ stmt' = <<>>
  /\ UNCHANGED <<statementQueue, flags, main, history>>

\* ... no idle source is connected once stop_ is set; ...
RelockUnlessStopped ==
  /\ wpc = "relock" /\ mutex = "none"
  /\ mutex' = "worker" /\ wpc' = "drain"
  /\ IF Head(stmt) \in HasResult
     THEN resultQueue' = Append(resultQueue, Head(stmt)) /\ idle' = IF stop THEN idle ELSE idle + 1
     ELSE UNCHANGED <<resultQueue, idle>>
  /\ stmt' = <<>>
  /\ UNCHANGED <<statementQueue, flags, main, history>>

\* ... one statement is executed each time the worker is woken.
RelockThenTest ==
  /\ wpc = "relock" /\ mutex = "none"
  /\ wpc' = "test"
  /\ IF Head(stmt) \in HasResult
     THEN resultQueue' = Append(resultQueue, Head(stmt)) /\ idle' = idle + 1
     ELSE UNCHANGED <<resultQueue, idle>>
  /\ stmt' = <<>>
  /\ UNCHANGED <<statementQueue, mutex, flags, main, history>>

Relock ==
  /\ wpc = "relock" /\ mutex = "none"
  /\ mutex' = "worker" /\ wpc' = "drain"
  /\ IF Head(stmt) \in HasResult
     THEN resultQueue' = Append(resultQueue, Head(stmt)) /\ idle' = idle + 1
     ELSE UNCHANGED <<resultQueue, idle>>
  /\ stmt' = <<>>
  /\ UNCHANGED <<statementQueue, flags, main, history>>

Worker == TestStop \/ Wait \/ WakeUp \/ Pop \/ Drained \/ Execute \/ Relock
-----------------------------------------------------------------------------
(* The main thread.                                                        *)

\* cv_.notify_one() reaches a thread that is waiting now, or nobody.
Notify == wpc' = IF wpc = "waiting" THEN "wake" ELSE wpc

\* The program, or a callback, queues a statement.
QueueStatement(s) ==
  /\ mpc \in {"loop", "callback"} /\ mutex = "none"
  /\ ~closed
  /\ s \notin Elements(submitted)
  /\ statementQueue' = Append(statementQueue, s)
  /\ submitted' = Append(submitted, s)
  /\ Notify
  /\ UNCHANGED <<resultQueue, idle, mutex, flags, stmt, main, executed, forwarded>>

\* The main loop dispatches result_idle_callback(), once per source.
IdleCallback ==
  /\ mpc = "loop" /\ idle > 0 /\ mutex = "none"
  /\ idle' = idle - 1
  /\ mutex' = "main" /\ mpc' = "drain"
  /\ UNCHANGED <<statementQueue, resultQueue, flags, worker, result, history>>

\* For comparison: the callback runs with the lock held.
ForwardResultLocked ==
  /\ mpc = "drain" /\ resultQueue # <<>>
  /\ result' = <<Head(resultQueue)>>
  /\ resultQueue' = Tail(resultQueue)
  /\ forwarded' = Append(forwarded, Head(resultQueue))
  /\ mpc' = "callback"
  /\ UNCHANGED <<statementQueue, idle, mutex, flags, worker, submitted, executed>>

\* The result is popped under the lock and forwarded without it.
ForwardResult ==
  /\ mpc = "drain" /\ resultQueue # <<>>
  /\ result' = <<Head(resultQueue)>>
  /\ resultQueue' = Tail(resultQueue)
  /\ forwarded' = Append(forwarded, Head(resultQueue))
  /\ mutex' = "none" /\ mpc' = "callback"
  /\ UNCHANGED <<statementQueue, idle, flags, worker, submitted, executed>>

CallbackReturns ==
  /\ mpc = "callback" /\ mutex = "none"
  /\ result' = <<>>
  /\ mutex' = "main" /\ mpc' = "drain"
  /\ UNCHANGED <<statementQueue, resultQueue, idle, flags, worker, history>>

ResultsDrained ==
  /\ mpc = "drain" /\ resultQueue = <<>>
  /\ mutex' = "none" /\ mpc' = "loop"
  /\ UNCHANGED <<statementQueue, resultQueue, idle, flags, worker, result, history>>

\* stop(), called by the main program or a callback; it does nothing the second
\* time.  The flag is set before the lock is taken.
Stop ==
  /\ mpc \in {"loop", "callback"} /\ ~stop
  /\ stop' = TRUE
  /\ mpc' = IF mpc = "loop" THEN "notify" ELSE "notify2"
  /\ UNCHANGED <<shared, closed, worker, result, history>>

\* The program destroys the database: ~Sqlite3Database closes the handle, then
\* ~Database calls stop(), unless that was done before.
Destroy ==
  /\ mpc \in {"loop", "callback"} /\ ~closed
  /\ closed' = TRUE
  /\ stop' = TRUE
  /\ mpc' = IF stop THEN "dead" ELSE IF mpc = "loop" THEN "notify" ELSE "notify2"
  /\ IF stop THEN statementQueue' = <<>> /\ resultQueue' = <<>>
             ELSE UNCHANGED <<statementQueue, resultQueue>>
  /\ UNCHANGED <<idle, mutex, worker, result, history>>

NotifyStop ==
  /\ mpc \in {"notify", "notify2"} /\ mutex = "none"
  /\ Notify
  /\ mpc' = IF mpc = "notify" THEN "join" ELSE "join2"
  /\ UNCHANGED <<shared, flags, stmt, result, history>>

\* stop() returns to its caller when the worker has ended.  ~Database deletes
\* what is left in the queues; result_idle_callback(), if it was a callback that
\* destroyed the database, goes on in a deleted object, and the model ends.
Join ==
  /\ mpc \in {"join", "join2"} /\ wpc = "exit"
  /\ mpc' = IF closed THEN "dead" ELSE IF mpc = "join" THEN "loop" ELSE "callback"
  /\ IF closed THEN statementQueue' = <<>> /\ resultQueue' = <<>>
               ELSE UNCHANGED <<statementQueue, resultQueue>>
  /\ UNCHANGED <<idle, mutex, flags, worker, result, history>>

Main ==
  \/ IdleCallback \/ ForwardResult \/ CallbackReturns \/ ResultsDrained
  \/ NotifyStop \/ Join
-----------------------------------------------------------------------------
\* start() has returned: the thread has opened the database and goes on into
\* thread_main.
Init ==
  /\ statementQueue = <<>> /\ resultQueue = <<>> /\ idle = 0 /\ mutex = "none"
  /\ stop = FALSE /\ closed = FALSE
  /\ wpc = "test" /\ stmt = <<>>
  /\ mpc = "loop" /\ result = <<>>
  /\ submitted = <<>> /\ executed = <<>> /\ forwarded = <<>>

Next ==
  \/ Worker \/ SpuriousWakeup
  \/ Main \/ Stop \/ Destroy
  \/ \E s \in Stmt : QueueStatement(s)

Spec == Init /\ [][Next]_vars

\* Both threads run on, and one that finds the mutex free again and again gets
\* it.  Nothing makes a thread wake up spuriously, and the program need not queue
\* or stop anything.
FairSpec == Spec /\ SF_vars(Worker) /\ SF_vars(Main)
-----------------------------------------------------------------------------
\* The values of the variables; a thread holds the mutex exactly where the code
\* holds a lock, and a popped statement exactly while it is at it.
TypeOK ==
  /\ statementQueue \in Seq(Stmt) /\ resultQueue \in Seq(Stmt)
  /\ idle \in Nat
  /\ mutex \in {"none", "worker", "main"}
  /\ stop \in BOOLEAN /\ closed \in BOOLEAN
  /\ wpc \in WorkerPc /\ mpc \in MainPc
  /\ submitted \in Seq(Stmt) /\ executed \in Seq(Stmt) /\ forwarded \in Seq(Stmt)
  /\ mutex = "worker" <=> wpc = "drain"
  /\ mutex = "main" <=> mpc = "drain"
  /\ \/ stmt = <<>> /\ wpc \notin {"execute", "relock"}
     \/ wpc \in {"execute", "relock"} /\ \E s \in Stmt : stmt = <<s>>
  /\ \/ result = <<>>
     \/ /\ mpc \in {"callback", "notify2", "join2", "dead"}
        /\ \E s \in Stmt : result = <<s>>

\* The database does for its users what StatementService says.
Service ==
  INSTANCE StatementService
  WITH todo    <- IF wpc = "execute" THEN stmt \o statementQueue ELSE statementQueue,
       results <- IF wpc = "relock" /\ Head(stmt) \in HasResult
                  THEN Append(resultQueue, Head(stmt)) ELSE resultQueue,
       called  <- forwarded,
       alive   <- mpc # "dead"

ImplementsService == Service!SInit /\ [][Service!SNext]_(Service!svars)

\* Whenever a callback runs, every statement queued before it has been executed.
CallbackAfterAll ==
  \A i \in 1 .. Len(forwarded), j \in 1 .. Len(submitted) :
    submitted[j] = forwarded[i] =>
      \A k \in 1 .. j : submitted[k] \in Elements(executed)

\* A result in the queue has an idle source that will fetch it, or the main
\* thread is at the loop that fetches it now.
ResultHasSource ==
  resultQueue # <<>> => idle > 0 \/ mpc # "loop"

\* Once executed a result is called back, unless the program stops the database
\* (whose worker stop() may wait for in vain).
ExecutedIsForwarded ==
  \A s \in HasResult :
    s \in Elements(executed) ~> s \in Elements(forwarded) \/ stop

\* A worker that is awake executes all that is queued before it sleeps again,
\* even when the database has been stopped: thread_main tests stop_ between
\* wakeups and not between statements.
AwakeExecutesAll ==
  \A s \in Stmt :
    s \in Elements(statementQueue) /\ wpc \in {"wake", "drain", "execute", "relock"}
      ~> s \in Elements(executed)
-----------------------------------------------------------------------------
(* What the header says and the code does not do.                          *)

\* logi-db.h: queue_callback() requests a callback on the main thread when all
\* preceding statements have been executed.
CallbackRuns ==
  \A s \in HasResult :
    s \in Elements(submitted) ~> s \in Elements(forwarded) \/ stop

\* logi-db.h: subclasses should call stop() in their destructors, so that no
\* statement is at work on a handle that has been closed.
NotClosedAtWork == closed => wpc \notin {"execute"}
=============================================================================
