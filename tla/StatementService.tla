-------------------------- MODULE StatementService --------------------------
(* What a Database promises its users (db/logi-db.h): statements are       *)
(* executed one at a time in the order they were queued, and the results   *)
(* of those that have one are called back in that same order, each once.   *)
(* Ending the service may leave the rest of either undone, and nothing is   *)
(* done for anybody afterwards.                                            *)
EXTENDS Sequences

CONSTANTS
  Stmt,       \* statements that may be queued
  HasResult   \* those with a result to call back

VARIABLES
  todo,       \* queued and not executed yet
  results,    \* executed, with a result not called back yet
  called,     \* whose results have been called back
  alive       \* the service has not ended

svars == <<todo, results, called, alive>>

SInit == todo = <<>> /\ results = <<>> /\ called = <<>> /\ alive = TRUE

Queue(s) ==
  /\ alive
  /\ todo' = Append(todo, s)
  /\ UNCHANGED <<results, called, alive>>

Execute ==
  /\ alive /\ todo # <<>>
  /\ todo' = Tail(todo)
  /\ results' = IF Head(todo) \in HasResult THEN Append(results, Head(todo)) ELSE results
  /\ UNCHANGED <<called, alive>>

CallBack ==
  /\ alive /\ results # <<>>
  /\ results' = Tail(results)
  /\ called' = Append(called, Head(results))
  /\ UNCHANGED <<todo, alive>>

\* The service ends with what it has left.
Discard ==
  /\ alive /\ ~alive'
  /\ todo' = <<>> /\ results' = <<>>
  /\ UNCHANGED called

SNext == (\E s \in Stmt : Queue(s)) \/ Execute \/ CallBack \/ Discard

SSpec == SInit /\ [][SNext]_svars
=============================================================================
