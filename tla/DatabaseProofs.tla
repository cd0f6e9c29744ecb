--------------------------- MODULE DatabaseProofs ---------------------------
(* What module Database says of every set of statements, proved.           *)
EXTENDS Database, SequenceTheorems, TLAPS

\* After stop() has returned to a program that goes on, and after the database
\* is gone, the worker has ended.
StopInv ==
  /\ mpc \in {"notify", "join", "notify2", "join2", "dead"} => stop
  /\ mpc \in {"loop", "drain", "callback", "dead"} /\ stop => wpc = "exit"

\* Where the queue of statements begins in the order of submission.
Base == Len(executed) + (IF wpc = "execute" THEN 1 ELSE 0)

\* Statements pass from the queue to the worker in the order of submission.
OrderInv ==
  /\ Base + Len(statementQueue) <= Len(submitted)
  /\ mpc # "dead" => Base + Len(statementQueue) = Len(submitted)
  /\ \A k \in 1 .. Len(executed) : executed[k] = submitted[k]
  /\ wpc = "execute" => stmt[1] = submitted[Base]
  /\ \A k \in 1 .. Len(statementQueue) : statementQueue[k] = submitted[Base + k]

\* The program queues no object twice.
OnceInv ==
  \A i, j \in 1 .. Len(submitted) : submitted[i] = submitted[j] => i = j

\* What has a result, or has given it, has been executed.
ResultInv ==
  /\ wpc = "relock" => stmt[1] \in Elements(executed)
  /\ Elements(resultQueue) \subseteq Elements(executed)
  /\ Elements(forwarded) \subseteq Elements(executed)

\* A result in the queue has a source, or the main thread is within
\* result_idle_callback, maybe in a stop() that a callback called.
SourceInv ==
  resultQueue # <<>> =>
    idle > 0 \/ mpc \in {"drain", "callback", "notify2", "join2"}

IInv == TypeOK /\ StopInv /\ OrderInv /\ OnceInv /\ ResultInv /\ SourceInv
-----------------------------------------------------------------------------
(* Facts about sequences.                                                  *)

\* The elements of a sequence, and of one grown or shortened by one.
LEMMA ElementsOfSeq ==
  ASSUME NEW S, NEW s \in Seq(S), NEW x \in S
  PROVE  /\ Elements(Append(s, x)) = Elements(s) \cup {x}
         /\ s # <<>> => Elements(Tail(s)) \subseteq Elements(s)
         /\ s # <<>> => Head(s) \in Elements(s)
<1>1. Elements(Append(s, x)) = Elements(s) \cup {x}
  <2>1. Len(Append(s, x)) = Len(s) + 1 /\ Len(s) \in Nat
    OBVIOUS
  <2>2. Append(s, x)[Len(s) + 1] = x /\ \A i \in 1 .. Len(s) : Append(s, x)[i] = s[i]
    OBVIOUS
  <2>3. QED
    BY <2>1, <2>2 DEF Elements
<1>2. s # <<>> => Elements(Tail(s)) \subseteq Elements(s)
  <2> SUFFICES ASSUME s # <<>>, NEW i \in 1 .. Len(Tail(s))
               PROVE  Tail(s)[i] \in Elements(s)
    BY DEF Elements
  <2>1. Tail(s)[i] = s[i + 1] /\ i + 1 \in 1 .. Len(s)
    BY HeadTailProperties
  <2>2. QED
    BY <2>1 DEF Elements
<1>3. s # <<>> => Head(s) \in Elements(s)
  <2> SUFFICES ASSUME s # <<>> PROVE Head(s) \in Elements(s)
    OBVIOUS
  <2>1. 1 \in 1 .. Len(s) /\ Head(s) = s[1]
    BY EmptySeq
  <2>2. QED
    BY <2>1 DEF Elements
<1>4. QED
  BY <1>1, <1>2, <1>3

\* What a sequence with one more in front consists of.
LEMMA Cons ==
  ASSUME NEW S, NEW s \in Seq(S), NEW x \in S
  PROVE  /\ <<x>> \o s \in Seq(S) /\ <<x>> \o s # <<>>
         /\ Head(<<x>> \o s) = x /\ Tail(<<x>> \o s) = s
         /\ \A y \in S : Append(<<x>> \o s, y) = <<x>> \o Append(s, y)
         /\ s # <<>> => <<Head(s)>> \o Tail(s) = s
<1>0. <<x>> \in Seq(S) /\ Len(<<x>>) = 1 /\ <<x>>[1] = x
  OBVIOUS
<1> DEFINE c == <<x>> \o s
<1>1. c \in Seq(S) /\ Len(c) = 1 + Len(s) /\ c[1] = x
      /\ \A i \in 2 .. Len(c) : c[i] = s[i - 1]
  BY <1>0, ConcatProperties
<1>2. c # <<>>
  BY <1>1
<1> HIDE DEF c
<1>3. Head(c) = x
  BY <1>1, <1>2
<1>4. Tail(c) = s
  <2>1. Tail(c) \in Seq(S) /\ Len(Tail(c)) = Len(s)
        /\ \A i \in 1 .. Len(s) : Tail(c)[i] = s[i]
    BY <1>1, <1>2, HeadTailProperties
  <2>2. QED
    BY <2>1, SeqEqual
<1>5. ASSUME NEW y \in S PROVE Append(c, y) = <<x>> \o Append(s, y)
  <2> DEFINE d == <<x>> \o Append(s, y)
  <2>1. Append(s, y) \in Seq(S) /\ Len(Append(s, y)) = Len(s) + 1
        /\ \A i \in 1 .. Len(s) + 1 : Append(s, y)[i] = IF i <= Len(s) THEN s[i] ELSE y
    OBVIOUS
  <2>2. d \in Seq(S) /\ Len(d) = Len(s) + 2 /\ d[1] = x
        /\ \A i \in 2 .. Len(s) + 2 : d[i] = Append(s, y)[i - 1]
    BY <1>0, <2>1, ConcatProperties
  <2>3. Append(c, y) \in Seq(S) /\ Len(Append(c, y)) = Len(s) + 2
        /\ \A i \in 1 .. Len(s) + 2 :
             Append(c, y)[i] = IF i <= Len(s) + 1 THEN c[i] ELSE y
    BY <1>1
  <2> HIDE DEF d
  <2>4. \A i \in 1 .. Len(s) + 2 : d[i] = Append(c, y)[i]
    BY <1>1, <2>1, <2>2, <2>3
  <2>5. d = Append(c, y)
    BY <2>2, <2>3, <2>4, SeqEqual
  <2>6. QED
    BY <2>5 DEF d
<1>6. s # <<>> => <<Head(s)>> \o Tail(s) = s
  <2> SUFFICES ASSUME s # <<>> PROVE <<Head(s)>> \o Tail(s) = s
    OBVIOUS
  <2> DEFINE h == <<Head(s)>>
             t == Tail(s)
  <2>1. h \in Seq(S) /\ Len(h) = 1 /\ h[1] = s[1]
        /\ t \in Seq(S) /\ Len(t) = Len(s) - 1 /\ Len(s) \in Nat \ {0}
        /\ \A i \in 1 .. Len(t) : t[i] = s[i + 1]
    BY HeadTailProperties, EmptySeq
  <2> HIDE DEF h, t
  <2>2. h \o t \in Seq(S) /\ Len(h \o t) = Len(h) + Len(t)
        /\ \A i \in 1 .. Len(h) + Len(t) :
             (h \o t)[i] = IF i <= Len(h) THEN h[i] ELSE t[i - Len(h)]
    BY <2>1, ConcatProperties
  <2>3. \A i \in 1 .. Len(s) : (h \o t)[i] = s[i]
    BY <2>1, <2>2
  <2>4. Len(h \o t) = Len(s)
    BY <2>1, <2>2
  <2> DEFINE u == h \o t
  <2> HIDE DEF u
  <2>5. u = s
    BY <2>2, <2>3, <2>4, SeqEqual DEF u
  <2>6. QED
    BY <2>5 DEF h, t, u
<1>7. QED
  BY <1>1, <1>2, <1>3, <1>4, <1>5, <1>6 DEF c

\* Adding at the end does not disturb the front.
LEMMA AppendToQueue ==
  ASSUME NEW S, NEW s \in Seq(S), NEW x \in S, s # <<>>
  PROVE  /\ Append(s, x) # <<>>
         /\ Head(Append(s, x)) = Head(s)
         /\ Tail(Append(s, x)) = Append(Tail(s), x)
<1> DEFINE a == Append(s, x)
           t == Tail(s)
<1>1. a \in Seq(S) /\ Len(a) = Len(s) + 1 /\ Len(s) \in Nat \ {0}
      /\ \A i \in 1 .. Len(s) + 1 : a[i] = IF i <= Len(s) THEN s[i] ELSE x
  BY EmptySeq
<1>2. t \in Seq(S) /\ Len(t) = Len(s) - 1 /\ \A i \in 1 .. Len(t) : t[i] = s[i + 1]
  BY HeadTailProperties
<1> HIDE DEF a, t
<1>3. a # <<>> /\ a[1] = s[1]
  BY <1>1
<1>4. Head(a) = Head(s)
  BY <1>1, <1>3
<1>5. Tail(a) \in Seq(S) /\ Len(Tail(a)) = Len(s)
      /\ \A i \in 1 .. Len(s) : Tail(a)[i] = a[i + 1]
  BY <1>1, <1>3, HeadTailProperties
<1>6. Append(t, x) \in Seq(S) /\ Len(Append(t, x)) = Len(s)
      /\ \A i \in 1 .. Len(s) : Append(t, x)[i] = IF i <= Len(t) THEN t[i] ELSE x
  BY <1>1, <1>2
<1>7. \A i \in 1 .. Len(s) : Append(t, x)[i] = Tail(a)[i]
  BY <1>1, <1>2, <1>5, <1>6
<1>8. Tail(a) = Append(t, x)
  BY <1>5, <1>6, <1>7, SeqEqual
<1>9. QED
  BY <1>3, <1>4, <1>8 DEF a, t
-----------------------------------------------------------------------------
(* The inductive invariant.                                                *)

\* The initial states satisfy the inductive invariant.
LEMMA InitIInv == Init => IInv
<1> SUFFICES ASSUME Init PROVE IInv
  OBVIOUS
<1>1. TypeOK
  <2>1. <<>> \in Seq(Stmt) /\ 0 \in Nat
    OBVIOUS
  <2>2. QED
    BY <2>1, Zenon DEF Init, TypeOK, WorkerPc, MainPc
<1>2. StopInv /\ SourceInv
  BY DEF Init, StopInv, SourceInv
<1>3. OrderInv /\ OnceInv
  BY DEF Init, OrderInv, OnceInv, Base
<1>4. ResultInv
  BY DEF Init, ResultInv, Elements
<1>5. QED
  BY <1>1, <1>2, <1>3, <1>4 DEF IInv

LEMMA TypeStep == TypeOK /\ [Next]_vars => TypeOK'
<1> SUFFICES ASSUME TypeOK, [Next]_vars PROVE TypeOK'
  OBVIOUS
<1> USE DEF TypeOK, WorkerPc, MainPc, shared, flags, worker, main, history
<1>1. CASE TestStop
  BY <1>1 DEF TestStop
<1>2. CASE Wait
  BY <1>2 DEF Wait
<1>3. CASE WakeUp
  BY <1>3 DEF WakeUp
<1>4. CASE Pop
  BY <1>4, HeadTailProperties DEF Pop
<1>5. CASE Drained
  BY <1>5 DEF Drained
<1>6. CASE Execute
  BY <1>6 DEF Execute
<1>7. CASE Relock
  <2>1. Head(stmt) \in Stmt
    BY <1>7 DEF Relock
  <2>2. resultQueue' \in Seq(Stmt) /\ idle' \in Nat
    <3>1. Append(resultQueue, Head(stmt)) \in Seq(Stmt) /\ idle + 1 \in Nat
      BY <2>1
    <3>2. QED
      BY <1>7, <3>1, Zenon DEF Relock
  <2>3. mutex' = "worker" /\ wpc' = "drain" /\ stmt' = <<>> /\ mpc # "drain"
    BY <1>7 DEF Relock
  <2>4. UNCHANGED <<statementQueue, stop, closed, mpc, result,
                    submitted, executed, forwarded>>
    BY <1>7 DEF Relock
  <2>5. QED
    BY <2>2, <2>3, <2>4
<1>8. CASE SpuriousWakeup
  BY <1>8 DEF SpuriousWakeup
<1>9. CASE IdleCallback
  BY <1>9 DEF IdleCallback
<1>10. CASE ForwardResult
  BY <1>10, HeadTailProperties DEF ForwardResult
<1>11. CASE CallbackReturns
  BY <1>11 DEF CallbackReturns
<1>12. CASE ResultsDrained
  BY <1>12 DEF ResultsDrained
<1>13. CASE NotifyStop
  BY <1>13 DEF NotifyStop, Notify
<1>14. CASE Join
  <2>1. <<>> \in Seq(Stmt)
    OBVIOUS
  <2>2. CASE closed
    <3>1. statementQueue' = <<>> /\ resultQueue' = <<>> /\ mpc' = "dead" /\ wpc = "exit"
          /\ mpc \in {"join", "join2"}
      BY <1>14, <2>2, Zenon DEF Join
    <3>2. statementQueue' \in Seq(Stmt) /\ resultQueue' \in Seq(Stmt)
      BY <2>1, <3>1, Zenon
    <3>3. UNCHANGED <<idle, mutex, stop, closed, wpc, stmt, result,
                      submitted, executed, forwarded>>
      BY <1>14 DEF Join
    <3>4. QED
      BY <3>1, <3>2, <3>3
  <2>3. CASE ~closed
    <3>1. UNCHANGED <<statementQueue, resultQueue>> /\ mpc' \in {"loop", "callback"}
          /\ mpc \in {"join", "join2"} /\ (mpc = "join" => mpc' = "loop")
          /\ (mpc = "join2" => mpc' = "callback")
      BY <1>14, <2>3 DEF Join
    <3>2. UNCHANGED <<idle, mutex, stop, closed, wpc, stmt, result,
                      submitted, executed, forwarded>>
      BY <1>14 DEF Join
    <3>3. QED
      BY <3>1, <3>2
  <2>4. QED
    BY <2>2, <2>3
<1>15. CASE Stop
  BY <1>15 DEF Stop
<1>16. CASE Destroy
  <2>1. <<>> \in Seq(Stmt)
    OBVIOUS
  <2>2. CASE stop
    BY <1>16, <2>1, <2>2, Zenon DEF Destroy
  <2>3. CASE ~stop
    BY <1>16, <2>3 DEF Destroy
  <2>4. QED
    BY <2>2, <2>3
<1>17. ASSUME NEW s \in Stmt, QueueStatement(s) PROVE TypeOK'
  BY <1>17 DEF QueueStatement, Notify
<1>18. CASE UNCHANGED vars
  BY <1>18 DEF vars
<1>19. QED
  BY <1>1, <1>2, <1>3, <1>4, <1>5, <1>6, <1>7, <1>8, <1>9, <1>10, <1>11, <1>12,
     <1>13, <1>14, <1>15, <1>16, <1>17, <1>18 DEF Next, Worker, Main

\* Each step keeps the rest of the invariant, part by part.
LEMMA StopStep == TypeOK /\ StopInv /\ [Next]_vars => StopInv'
<1> SUFFICES ASSUME TypeOK, StopInv, [Next]_vars PROVE StopInv'
  OBVIOUS
<1> USE DEF TypeOK, WorkerPc, MainPc, StopInv, shared, flags, worker, main, history
<1>1. CASE Worker
  BY <1>1 DEF Worker, TestStop, Wait, WakeUp, Pop, Drained, Execute, Relock
<1>2. CASE Main
  BY <1>2 DEF Main, IdleCallback, ForwardResult, CallbackReturns, ResultsDrained,
              NotifyStop, Notify, Join
<1>3. CASE SpuriousWakeup \/ Stop \/ Destroy
  BY <1>3 DEF SpuriousWakeup, Stop, Destroy
<1>4. CASE \E s \in Stmt : QueueStatement(s)
  BY <1>4 DEF QueueStatement, Notify
<1>5. CASE UNCHANGED vars
  BY <1>5 DEF vars
<1>6. QED
  BY <1>1, <1>2, <1>3, <1>4, <1>5 DEF Next

LEMMA SourceStep == TypeOK /\ SourceInv /\ [Next]_vars => SourceInv'
<1> SUFFICES ASSUME TypeOK, SourceInv, [Next]_vars PROVE SourceInv'
  OBVIOUS
<1> USE DEF TypeOK, WorkerPc, MainPc, SourceInv, shared, flags, worker, main, history
<1>1. CASE Worker
  BY <1>1 DEF Worker, TestStop, Wait, WakeUp, Pop, Drained, Execute, Relock
<1>2. CASE Main
  BY <1>2 DEF Main, IdleCallback, ForwardResult, CallbackReturns, ResultsDrained,
              NotifyStop, Notify, Join
<1>3. CASE SpuriousWakeup \/ Stop \/ Destroy
  BY <1>3 DEF SpuriousWakeup, Stop, Destroy
<1>4. CASE \E s \in Stmt : QueueStatement(s)
  BY <1>4 DEF QueueStatement, Notify
<1>5. CASE UNCHANGED vars
  BY <1>5 DEF vars
<1>6. QED
  BY <1>1, <1>2, <1>3, <1>4, <1>5 DEF Next

\* The queues and histories a step leaves alone.
LEMMA QuietStep ==
  ASSUME \/ TestStop \/ Wait \/ WakeUp \/ Drained \/ SpuriousWakeup
         \/ IdleCallback \/ CallbackReturns \/ ResultsDrained
         \/ Stop \/ NotifyStop \/ UNCHANGED vars
  PROVE  /\ UNCHANGED <<statementQueue, resultQueue, history, stmt>>
         /\ (wpc = "execute") = (wpc' = "execute")
         /\ (wpc = "relock") = (wpc' = "relock")
         /\ (mpc = "dead") = (mpc' = "dead")
  BY DEF TestStop, Wait, WakeUp, Drained, SpuriousWakeup, IdleCallback,
         CallbackReturns, ResultsDrained, Stop, NotifyStop, Notify,
         vars, shared, flags, worker, main, history

LEMMA OnceStep == TypeOK /\ OnceInv /\ [Next]_vars => OnceInv'
<1> SUFFICES ASSUME TypeOK, OnceInv, [Next]_vars PROVE OnceInv'
  OBVIOUS
<1>1. ASSUME NEW s \in Stmt, QueueStatement(s) PROVE OnceInv'
  <2>1. submitted' = Append(submitted, s) /\ submitted \in Seq(Stmt)
    BY <1>1 DEF QueueStatement, TypeOK
  <2>2. \A i \in 1 .. Len(submitted) : submitted[i] # s
    BY <1>1 DEF QueueStatement, Elements
  <2>3. QED
    BY <2>1, <2>2 DEF OnceInv
<1>2. CASE UNCHANGED submitted
  BY <1>2 DEF OnceInv
<1>3. CASE Worker
  BY <1>2, <1>3 DEF Worker, TestStop, Wait, WakeUp, Pop, Drained, Execute, Relock, history
<1>4. CASE Main
  BY <1>2, <1>4 DEF Main, IdleCallback, ForwardResult, CallbackReturns, ResultsDrained,
                    NotifyStop, Join, history
<1>5. CASE SpuriousWakeup \/ Stop \/ Destroy \/ UNCHANGED vars
  BY <1>2, <1>5 DEF SpuriousWakeup, Stop, Destroy, vars, history
<1>6. QED
  BY <1>1, <1>3, <1>4, <1>5 DEF Next

LEMMA OrderStep == TypeOK /\ StopInv /\ OrderInv /\ [Next]_vars => OrderInv'
<1> SUFFICES ASSUME TypeOK, StopInv, OrderInv, [Next]_vars PROVE OrderInv'
  OBVIOUS
<1>0. /\ statementQueue \in Seq(Stmt) /\ submitted \in Seq(Stmt) /\ executed \in Seq(Stmt)
      /\ Len(executed) \in Nat /\ Len(submitted) \in Nat /\ Len(statementQueue) \in Nat
  BY DEF TypeOK
<1>1. CASE Pop
  <2>1. wpc = "drain" /\ wpc' = "execute" /\ statementQueue # <<>>
        /\ stmt' = <<Head(statementQueue)>> /\ statementQueue' = Tail(statementQueue)
        /\ UNCHANGED <<mpc, submitted, executed>>
    BY <1>1 DEF Pop, main, history
  <2>2. Base = Len(executed) /\ Base' = Base + 1
    BY <1>0, <2>1 DEF Base
  <2>3. Len(statementQueue) >= 1 /\ Len(statementQueue') = Len(statementQueue) - 1
        /\ \A k \in 1 .. Len(statementQueue') : statementQueue'[k] = statementQueue[k + 1]
    BY <1>0, <2>1, HeadTailProperties, EmptySeq
  <2>4. stmt'[1] = statementQueue[1]
    BY <1>0, <2>1
  <2>5. QED
    BY <1>0, <2>1, <2>2, <2>3, <2>4 DEF OrderInv
<1>2. CASE Execute
  <2>1. wpc = "execute" /\ wpc' = "relock" /\ executed' = Append(executed, Head(stmt))
        /\ UNCHANGED <<mpc, submitted, statementQueue>> /\ Head(stmt) = stmt[1]
        /\ Head(stmt) \in Stmt
    BY <1>2 DEF Execute, main, shared, TypeOK
  <2>2. Base = Len(executed) + 1 /\ Base' = Base /\ Len(executed') = Len(executed) + 1
    BY <1>0, <2>1 DEF Base
  <2>3. \A k \in 1 .. Len(executed') : executed'[k] = submitted[k]
    BY <1>0, <2>1, <2>2 DEF OrderInv
  <2>4. QED
    BY <1>0, <2>1, <2>2, <2>3 DEF OrderInv
<1>3. CASE Relock
  <2>1. Base' = Base
    BY <1>3 DEF Relock, history, Base
  <2>2. QED
    BY <1>3, <2>1 DEF Relock, main, history, OrderInv
<1>4. ASSUME NEW s \in Stmt, QueueStatement(s) PROVE OrderInv'
  <2>1. submitted' = Append(submitted, s) /\ statementQueue' = Append(statementQueue, s)
        /\ mpc # "dead" /\ UNCHANGED <<mpc, executed, stmt>>
        /\ (wpc = "execute") = (wpc' = "execute")
    BY <1>4 DEF QueueStatement, Notify, main, TypeOK, MainPc
  <2>2. Base' = Base /\ Base \in Nat
    BY <1>0, <2>1 DEF Base
  <2>3. Len(submitted') = Len(submitted) + 1
        /\ Len(statementQueue') = Len(statementQueue) + 1
        /\ Base + Len(statementQueue) = Len(submitted)
    BY <1>0, <2>1 DEF OrderInv
  <2>4. \A k \in 1 .. Len(submitted) : submitted'[k] = submitted[k]
    BY <1>0, <2>1
  <2>5. submitted'[Len(submitted')] = s
    BY <1>0, <2>1, <2>3
  <2>6. \A k \in 1 .. Len(statementQueue') : statementQueue'[k] = submitted'[Base + k]
    <3> SUFFICES ASSUME NEW k \in 1 .. Len(statementQueue')
                 PROVE  statementQueue'[k] = submitted'[Base + k]
      OBVIOUS
    <3>1. CASE k \in 1 .. Len(statementQueue)
      <4>1. statementQueue'[k] = statementQueue[k]
        BY <1>0, <2>1, <3>1
      <4>2. Base + k \in 1 .. Len(submitted)
        BY <1>0, <2>2, <2>3, <3>1
      <4>3. QED
        BY <2>4, <3>1, <4>1, <4>2 DEF OrderInv
    <3>2. CASE k = Len(statementQueue) + 1
      <4>1. statementQueue'[k] = s
        BY <1>0, <2>1, <3>2
      <4>2. Base + k = Len(submitted')
        BY <1>0, <2>2, <2>3, <3>2
      <4>3. QED
        BY <2>5, <4>1, <4>2
    <3>3. QED
      BY <1>0, <2>3, <3>1, <3>2
  <2>7. \A k \in 1 .. Len(executed) : executed[k] = submitted'[k]
    BY <1>0, <2>2, <2>3, <2>4 DEF OrderInv, Base
  <2>8. wpc = "execute" => stmt[1] = submitted'[Base]
    <3> SUFFICES ASSUME wpc = "execute" PROVE stmt[1] = submitted'[Base]
      OBVIOUS
    <3>1. Base = Len(executed) + 1
      BY DEF Base
    <3>2. Base \in 1 .. Len(submitted)
      BY <1>0, <2>3, <3>1
    <3>3. QED
      BY <2>4, <3>2 DEF OrderInv
  <2>9. QED
    <3>1. Base' + Len(statementQueue') = Len(submitted')
      BY <1>0, <2>2, <2>3
    <3>2. Base' + Len(statementQueue') <= Len(submitted')
      BY <1>0, <2>3, <3>1
    <3>3. UNCHANGED <<executed, stmt, Base>> /\ (wpc = "execute") = (wpc' = "execute")
      BY <2>1, <2>2
    <3>4. QED
      BY <2>6, <2>7, <2>8, <3>1, <3>2, <3>3 DEF OrderInv
<1>5. CASE Join \/ Destroy
  <2>1. UNCHANGED <<wpc, stmt, executed, submitted>>
        /\ \/ UNCHANGED statementQueue /\ mpc' # "dead" /\ mpc # "dead"
           \/ statementQueue' = <<>> /\ mpc' = "dead" /\ wpc = "exit"
    BY <1>5 DEF Join, Destroy, worker, history, TypeOK, MainPc, StopInv
  <2>2. Base' = Base /\ Base \in Nat
    BY <1>0, <2>1 DEF Base
  <2>3. Base <= Len(submitted)
    BY <1>0, <2>2 DEF OrderInv
  <2>4. CASE statementQueue' = <<>> /\ mpc' = "dead" /\ wpc = "exit"
    <3>1. Len(statementQueue') = 0
      BY <2>4
    <3>2. QED
      BY <1>0, <2>1, <2>2, <2>3, <2>4, <3>1 DEF OrderInv
  <2>5. CASE UNCHANGED statementQueue /\ mpc' # "dead" /\ mpc # "dead"
    BY <2>1, <2>2, <2>5 DEF OrderInv
  <2>6. QED
    BY <2>1, <2>4, <2>5
<1>6. CASE ForwardResult
  <2>1. UNCHANGED <<wpc, stmt, executed, submitted, statementQueue>> /\ mpc # "dead"
        /\ mpc' # "dead"
    BY <1>6 DEF ForwardResult, worker
  <2>2. QED
    BY <2>1 DEF OrderInv, Base
<1>7. CASE \/ TestStop \/ Wait \/ WakeUp \/ Drained \/ SpuriousWakeup
           \/ IdleCallback \/ CallbackReturns \/ ResultsDrained
           \/ Stop \/ NotifyStop \/ UNCHANGED vars
  BY <1>7, QuietStep DEF OrderInv, Base, history
<1>8. QED
  BY <1>1, <1>2, <1>3, <1>4, <1>5, <1>6, <1>7 DEF Next, Worker, Main

LEMMA ResultStep == TypeOK /\ ResultInv /\ [Next]_vars => ResultInv'
<1> SUFFICES ASSUME TypeOK, ResultInv, [Next]_vars PROVE ResultInv'
  OBVIOUS
<1>0. executed \in Seq(Stmt) /\ resultQueue \in Seq(Stmt) /\ forwarded \in Seq(Stmt)
  BY DEF TypeOK
<1>1. CASE Pop
  BY <1>1 DEF Pop, ResultInv, history
<1>2. CASE Execute
  <2>1. /\ Head(stmt) \in Stmt /\ stmt[1] = Head(stmt)
        /\ executed' = Append(executed, Head(stmt))
        /\ UNCHANGED <<stmt, resultQueue, forwarded>>
    BY <1>2 DEF Execute, shared, TypeOK
  <2>2. Elements(executed') = Elements(executed) \cup {Head(stmt)}
    BY <1>0, <2>1, ElementsOfSeq
  <2>3. Elements(resultQueue') = Elements(resultQueue)
        /\ Elements(forwarded') = Elements(forwarded)
    BY <2>1
  <2>4. QED
    BY <2>1, <2>2, <2>3 DEF ResultInv
<1>3. CASE Relock
  <2>1. Head(stmt) \in Stmt /\ stmt[1] = Head(stmt) /\ wpc = "relock"
        /\ wpc' # "relock" /\ UNCHANGED <<executed, forwarded>>
    BY <1>3 DEF Relock, history, TypeOK
  <2>2. resultQueue' \in {resultQueue, Append(resultQueue, Head(stmt))}
    BY <1>3 DEF Relock
  <2>3. Elements(resultQueue') \subseteq Elements(resultQueue) \cup {stmt[1]}
    <3>1. Elements(Append(resultQueue, Head(stmt))) = Elements(resultQueue) \cup {Head(stmt)}
      BY <1>0, <2>1, ElementsOfSeq
    <3>2. QED
      BY <2>1, <2>2, <3>1
  <2>4. Elements(executed') = Elements(executed)
        /\ Elements(forwarded') = Elements(forwarded)
    BY <2>1
  <2>5. QED
    BY <2>1, <2>3, <2>4 DEF ResultInv
<1>4. CASE ForwardResult
  <2>1. /\ resultQueue # <<>> /\ resultQueue' = Tail(resultQueue)
        /\ forwarded' = Append(forwarded, Head(resultQueue))
        /\ UNCHANGED <<wpc, stmt, executed>>
    BY <1>4 DEF ForwardResult, worker
  <2>2. Head(resultQueue) \in Stmt
    BY <1>0, <2>1, HeadTailProperties
  <2>3. /\ Elements(resultQueue') \subseteq Elements(resultQueue)
        /\ Elements(forwarded') = Elements(forwarded) \cup {Head(resultQueue)}
        /\ Head(resultQueue) \in Elements(resultQueue)
    BY <1>0, <2>1, <2>2, ElementsOfSeq
  <2>4. Elements(executed') = Elements(executed)
    BY <2>1
  <2>5. QED
    BY <2>1, <2>3, <2>4 DEF ResultInv
<1>5. CASE Join \/ Destroy
  <2>1. UNCHANGED <<wpc, stmt, executed, forwarded>>
        /\ (UNCHANGED resultQueue \/ resultQueue' = <<>>)
    BY <1>5 DEF Join, Destroy, worker, history
  <2>2. Elements(<<>>) = {}
    BY DEF Elements
  <2>3. Elements(resultQueue') \subseteq Elements(resultQueue)
    BY <2>1, <2>2
  <2>4. Elements(executed') = Elements(executed)
        /\ Elements(forwarded') = Elements(forwarded)
    BY <2>1
  <2>5. QED
    BY <2>1, <2>3, <2>4 DEF ResultInv
<1>6. ASSUME NEW s \in Stmt, QueueStatement(s) PROVE ResultInv'
  <2>1. UNCHANGED <<stmt, resultQueue, executed, forwarded>>
        /\ (wpc = "relock") = (wpc' = "relock")
    BY <1>6 DEF QueueStatement, Notify
  <2>2. QED
    BY <2>1 DEF ResultInv, Elements
<1>7. CASE \/ TestStop \/ Wait \/ WakeUp \/ Drained \/ SpuriousWakeup
           \/ IdleCallback \/ CallbackReturns \/ ResultsDrained
           \/ Stop \/ NotifyStop \/ UNCHANGED vars
  BY <1>7, QuietStep DEF ResultInv, Elements, history
<1>8. QED
  BY <1>1, <1>2, <1>3, <1>4, <1>5, <1>6, <1>7 DEF Next, Worker, Main

\* The invariant holds in every behaviour.
THEOREM Invariance == Spec => []IInv
<1>1. IInv /\ [Next]_vars => IInv'
  BY TypeStep, StopStep, SourceStep, OnceStep, OrderStep, ResultStep DEF IInv
<1>2. QED
  BY InitIInv, <1>1, PTL DEF Spec
-----------------------------------------------------------------------------
(* What follows from it.                                                   *)

\* The variables have their types, and a thread holds the mutex exactly where
\* thread_main and result_idle_callback hold a lock.
THEOREM TypeCorrect == Spec => []TypeOK
  BY Invariance, PTL DEF IInv

\* A result in the queue will be fetched: one idle source is connected for each
\* by thread_main, and a dispatch that finds nothing costs nothing.
THEOREM ResultsHaveSources == Spec => []ResultHasSource
<1>1. IInv => ResultHasSource
  BY DEF IInv, SourceInv, ResultHasSource
<1>2. QED
  BY Invariance, <1>1, PTL

\* When a callback runs on the main thread, every statement queued before it has
\* been executed on the worker: what queue_callback() is for.
THEOREM CallbacksComeLast == Spec => []CallbackAfterAll
<1>1. IInv => CallbackAfterAll
  <2> SUFFICES ASSUME IInv, NEW i \in 1 .. Len(forwarded), NEW j \in 1 .. Len(submitted),
                      submitted[j] = forwarded[i], NEW k \in 1 .. j
               PROVE  submitted[k] \in Elements(executed)
    BY DEF CallbackAfterAll
  <2>0. executed \in Seq(Stmt) /\ submitted \in Seq(Stmt) /\ statementQueue \in Seq(Stmt)
    BY DEF IInv, TypeOK
  <2>1. forwarded[i] \in Elements(executed)
    BY DEF IInv, ResultInv, Elements
  <2>2. PICK m \in 1 .. Len(executed) : executed[m] = forwarded[i]
    BY <2>1 DEF Elements
  <2>3. Len(executed) <= Len(submitted)
    BY <2>0 DEF IInv, OrderInv, Base
  <2>4. submitted[m] = submitted[j] /\ m \in 1 .. Len(submitted)
    BY <2>0, <2>2, <2>3 DEF IInv, OrderInv
  <2>5. j = m
    BY <2>4 DEF IInv, OnceInv
  <2>6. k \in 1 .. Len(executed) /\ executed[k] = submitted[k]
    BY <2>0, <2>2, <2>5 DEF IInv, OrderInv
  <2>7. QED
    BY <2>6 DEF Elements
<1>2. QED
  BY Invariance, <1>1, PTL

\* The abstract service's variables, in terms of the database's.
Todo == IF wpc = "execute" THEN stmt \o statementQueue ELSE statementQueue
Results == IF wpc = "relock" /\ Head(stmt) \in HasResult
           THEN Append(resultQueue, Head(stmt)) ELSE resultQueue

Alive == mpc # "dead"

\* A step of the abstract service, or none.
ServiceStep ==
  \/ /\ Alive /\ Alive'
     /\ \E s \in Stmt : Todo' = Append(Todo, s) /\ UNCHANGED <<Results, forwarded>>
  \/ /\ Alive /\ Alive'
     /\ Todo # <<>> /\ Todo' = Tail(Todo)
     /\ Results' = IF Head(Todo) \in HasResult THEN Append(Results, Head(Todo)) ELSE Results
     /\ UNCHANGED forwarded
  \/ /\ Alive /\ Alive'
     /\ Results # <<>> /\ Results' = Tail(Results)
     /\ forwarded' = Append(forwarded, Head(Results))
     /\ UNCHANGED Todo
  \/ Alive /\ ~Alive' /\ Todo' = <<>> /\ Results' = <<>> /\ UNCHANGED forwarded
  \/ Alive' = Alive /\ UNCHANGED <<Todo, Results, forwarded>>

\* What is the case in every step: the statement at work is one of Stmt.
LEMMA AtWork ==
  ASSUME TypeOK, wpc \in {"execute", "relock"}
  PROVE  Head(stmt) \in Stmt /\ stmt = <<Head(stmt)>>
  BY DEF TypeOK

\* Every step of the database is one of the service, or none.
LEMMA EveryStepIsAServiceStep ==
  ASSUME TypeOK, StopInv, [Next]_vars PROVE ServiceStep
<1> USE DEF Alive
<1>0. statementQueue \in Seq(Stmt) /\ resultQueue \in Seq(Stmt)
  BY DEF TypeOK
<1>1. CASE Pop
  <2>1. /\ wpc = "drain" /\ wpc' = "execute" /\ statementQueue # <<>>
        /\ stmt' = <<Head(statementQueue)>> /\ statementQueue' = Tail(statementQueue)
        /\ UNCHANGED <<mpc, resultQueue, forwarded>>
    BY <1>1 DEF Pop, main, history
  <2>2. Head(statementQueue) \in Stmt
    BY <1>0, <2>1, HeadTailProperties
  <2>3. <<Head(statementQueue)>> \o Tail(statementQueue) = statementQueue
    BY <1>0, <2>1, <2>2, Cons
  <2>4. Todo' = Todo
    BY <2>1, <2>3 DEF Todo
  <2>5. Results' = Results
    BY <2>1 DEF Results
  <2>6. QED
    BY <2>1, <2>4, <2>5 DEF ServiceStep
<1>2. CASE Execute
  <2>1. wpc = "execute" /\ wpc' = "relock"
        /\ UNCHANGED <<mpc, statementQueue, stmt, resultQueue, forwarded>>
        /\ mpc # "dead"
    BY <1>2 DEF Execute, shared, main, StopInv
  <2>2. Head(stmt) \in Stmt /\ stmt = <<Head(stmt)>>
    BY <2>1, AtWork
  <2> DEFINE h == Head(stmt)
  <2>3. /\ <<h>> \o statementQueue # <<>> /\ Head(<<h>> \o statementQueue) = h
        /\ Tail(<<h>> \o statementQueue) = statementQueue
    BY <1>0, <2>2, Cons
  <2>4. Todo = <<h>> \o statementQueue /\ Todo' = statementQueue
    BY <2>1, <2>2 DEF Todo
  <2>5. Results = resultQueue
        /\ Results' = IF h \in HasResult THEN Append(resultQueue, h) ELSE resultQueue
    BY <2>1 DEF Results
  <2>6. QED
    BY <2>1, <2>3, <2>4, <2>5 DEF ServiceStep
<1>3. CASE Relock
  <2>1. /\ wpc = "relock" /\ wpc' = "drain"
        /\ UNCHANGED <<mpc, statementQueue, forwarded>>
        /\ resultQueue' = IF Head(stmt) \in HasResult
                          THEN Append(resultQueue, Head(stmt)) ELSE resultQueue
    BY <1>3 DEF Relock, main, history
  <2>2. Todo' = Todo /\ Results' = Results
    BY <2>1 DEF Todo, Results
  <2>3. QED
    BY <2>1, <2>2 DEF ServiceStep
<1>4. CASE ForwardResult
  <2>1. /\ resultQueue # <<>> /\ resultQueue' = Tail(resultQueue)
        /\ forwarded' = Append(forwarded, Head(resultQueue))
        /\ UNCHANGED <<wpc, stmt, statementQueue>>
        /\ mpc # "dead" /\ mpc' # "dead"
    BY <1>4 DEF ForwardResult, worker
  <2>2. Todo' = Todo
    BY <2>1 DEF Todo
  <2>3. Results # <<>> /\ Results' = Tail(Results) /\ Head(Results) = Head(resultQueue)
    <3>1. CASE wpc = "relock" /\ Head(stmt) \in HasResult
      <4>1. Head(stmt) \in Stmt
        BY <3>1, AtWork
      <4>2. /\ Append(resultQueue, Head(stmt)) # <<>>
            /\ Head(Append(resultQueue, Head(stmt))) = Head(resultQueue)
            /\ Tail(Append(resultQueue, Head(stmt))) = Append(Tail(resultQueue), Head(stmt))
        BY <1>0, <2>1, <4>1, AppendToQueue
      <4>3. QED
        BY <2>1, <3>1, <4>2 DEF Results
    <3>2. CASE ~(wpc = "relock" /\ Head(stmt) \in HasResult)
      BY <2>1, <3>2 DEF Results
    <3>3. QED
      BY <3>1, <3>2
  <2>4. QED
    BY <2>1, <2>2, <2>3 DEF ServiceStep
<1>5. CASE Join \/ Destroy
  <2>1. /\ UNCHANGED <<wpc, stmt, forwarded>>
        /\ mpc # "dead"
        /\ \/ UNCHANGED <<statementQueue, resultQueue>> /\ mpc' # "dead"
           \/ /\ statementQueue' = <<>> /\ resultQueue' = <<>>
              /\ wpc = "exit" /\ mpc' = "dead"
    BY <1>5 DEF Join, Destroy, worker, history, StopInv
  <2>2. CASE UNCHANGED <<statementQueue, resultQueue>> /\ mpc' # "dead"
    BY <2>1, <2>2 DEF ServiceStep, Todo, Results
  <2>3. CASE statementQueue' = <<>> /\ resultQueue' = <<>> /\ wpc = "exit" /\ mpc' = "dead"
    <3>1. Todo' = <<>> /\ Results' = <<>>
      BY <2>1, <2>3 DEF Todo, Results
    <3>2. QED
      BY <2>1, <2>3, <3>1 DEF ServiceStep
  <2>4. QED
    BY <2>1, <2>2, <2>3
<1>6. ASSUME NEW s \in Stmt, QueueStatement(s) PROVE ServiceStep
  <2>1. /\ statementQueue' = Append(statementQueue, s)
        /\ UNCHANGED <<mpc, stmt, resultQueue, forwarded>> /\ mpc # "dead"
        /\ (wpc = "execute") = (wpc' = "execute") /\ (wpc = "relock") = (wpc' = "relock")
    BY <1>6 DEF QueueStatement, Notify, main
  <2>2. Results' = Results
    BY <2>1 DEF Results
  <2>3. Todo' = Append(Todo, s)
    <3>1. CASE wpc = "execute"
      <4>1. Head(stmt) \in Stmt /\ stmt = <<Head(stmt)>>
        BY <3>1, AtWork
      <4>2. Append(<<Head(stmt)>> \o statementQueue, s)
              = <<Head(stmt)>> \o Append(statementQueue, s)
        BY <1>0, <4>1, Cons
      <4>3. QED
        BY <2>1, <3>1, <4>1, <4>2 DEF Todo
    <3>2. CASE wpc # "execute"
      BY <2>1, <3>2 DEF Todo
    <3>3. QED
      BY <3>1, <3>2
  <2>4. QED
    BY <2>1, <2>2, <2>3 DEF ServiceStep
<1>7. CASE \/ TestStop \/ Wait \/ WakeUp \/ Drained \/ SpuriousWakeup
           \/ IdleCallback \/ CallbackReturns \/ ResultsDrained
           \/ Stop \/ NotifyStop \/ UNCHANGED vars
  BY <1>7, QuietStep DEF ServiceStep, Todo, Results, history
<1>8. QED
  BY <1>1, <1>2, <1>3, <1>4, <1>5, <1>6, <1>7 DEF Next, Worker, Main

\* The threads, the queues and the mutex together are the service that
\* db/logi-db.h promises: statements executed in the order they were queued,
\* their results called back in that order, each once, until stop().
THEOREM DatabaseImplementsService == Spec => ImplementsService
<1>1. Init => Service!SInit
  BY DEF Init, Service!SInit
<1>2. ServiceStep => [Service!SNext]_(Service!svars)
  BY DEF ServiceStep, Todo, Results, Alive, Service!SNext, Service!svars, Service!Queue,
         Service!Execute, Service!CallBack, Service!Discard
<1>3. IInv /\ [Next]_vars => [Service!SNext]_(Service!svars)
  BY <1>2, EveryStepIsAServiceStep DEF IInv
<1>4. QED
  BY Invariance, <1>1, <1>3, PTL DEF Spec, ImplementsService
=============================================================================
