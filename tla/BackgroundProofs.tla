---------------------------- MODULE BackgroundProofs ---------------------------
(***************************************************************************)
(* Theorems about Background: the list of futures holds the running ones,  *)
(* and the lock is held only inside its critical sections, for any number  *)
(* of threads and coroutines.                                              *)
(***************************************************************************)
EXTENDS Background, TLAPS

\* A call before its lock, or inside its critical section.
Calling(th) == thread[th].at \in {"starting", "registering"}

\* What the threads and futures are to each other: each future is busy with at
\* most one call or callback, and says how far that call has come.
Busy ==
    /\ \A th \in Threads : thread[th].at = "idle" <=> thread[th].with = NoFuture
    /\ \A th, u \in Threads :
          thread[th].with = thread[u].with /\ thread[th].with # NoFuture => th = u
    /\ \A th \in Threads :
          Calling(th) => /\ future[thread[th].with] # "made"
                         /\ thread[th].with \notin registered
    /\ \A th \in Threads :
          /\ thread[th].at = "starting" => thread[th].with \notin tasks
          /\ thread[th].at = "registering" => thread[th].with \in tasks
          /\ thread[th].at = "finishing" => future[thread[th].with] = "done"

\* Where a future is that no call and no callback is busy with.
Settled ==
    \A f \in Futures :
        (\A th \in Threads : thread[th].with # f) =>
            /\ future[f] = "made" => f \notin tasks /\ f \notin registered
            /\ future[f] = "running" => f \in tasks /\ f \in registered
            /\ future[f] = "done" => f \notin tasks

\* A future that is made is nobody's yet.
Fresh ==
    \A f \in Futures : future[f] = "made" => \A th \in Threads : thread[th].with # f

IInv == TypeOK /\ Busy /\ Settled /\ Fresh

-----------------------------------------------------------------------------

LEMMA InitHolds == Init => IInv
  BY ThreadConstants DEF Init, IInv, TypeOK, Busy, Settled, Fresh, Calling, Rest

\* Where a thread may be.
LEMMA ThreadTyped ==
  ASSUME TypeOK, NEW th \in Threads
  PROVE  /\ thread[th] = Rest \/ (thread[th].with \in Futures
                                 /\ thread[th].at \in {"starting", "registering", "finishing"})
         /\ thread[th] = Rest <=> thread[th].at = "idle"
         /\ Rest.at = "idle" /\ Rest.with = NoFuture
         /\ NoFuture \notin Futures
  BY ThreadConstants DEF TypeOK, Rest

\* run_coroutine_threadsafe takes a future that nobody has.
LEMMA SubmitHolds ==
  ASSUME IInv, NEW th \in Threads, NEW f \in Futures, Submit(th, f)
  PROVE  IInv'
  BY ThreadTyped DEF IInv, TypeOK, Busy, Settled, Fresh, Calling, Submit, Does

\* The append, under the lock.
LEMMA EnlistHolds ==
  ASSUME IInv, NEW th \in Threads, Enlist(th)
  PROVE  IInv'
  BY ThreadTyped DEF IInv, TypeOK, Busy, Settled, Fresh, Calling, Enlist, Does

\* The callback is registered before the end ...
LEMMA RegisterHolds ==
  ASSUME IInv, NEW th \in Threads, Register(th)
  PROVE  IInv'
  BY ThreadTyped DEF IInv, TypeOK, Busy, Settled, Fresh, Calling, Register

\* ... or after it.
LEMMA RegisterLateHolds ==
  ASSUME IInv, NEW th \in Threads, RegisterLate(th)
  PROVE  IInv'
  BY ThreadTyped DEF IInv, TypeOK, Busy, Settled, Fresh, Calling, RegisterLate, Does

\* A coroutine ends.
LEMMA CompleteHolds ==
  ASSUME IInv, NEW f \in Futures, Complete(f)
  PROVE  IInv'
  BY ThreadTyped DEF IInv, TypeOK, Busy, Settled, Fresh, Calling, Complete, Does, Threads

\* The callback takes its future out of the list.
LEMMA TaskFinishedHolds ==
  ASSUME IInv, NEW th \in Threads, TaskFinished(th)
  PROVE  IInv'
  BY ThreadTyped DEF IInv, TypeOK, Busy, Settled, Fresh, Calling, TaskFinished

LEMMA NextHolds == IInv /\ [Next]_vars => IInv'
<1> SUFFICES ASSUME IInv, [Next]_vars PROVE IInv'
  OBVIOUS
<1>1. ASSUME NEW th \in Threads, Continue(th) PROVE IInv'
  BY <1>1, EnlistHolds, RegisterHolds, RegisterLateHolds, TaskFinishedHolds
     DEF Continue
<1>2. ASSUME NEW th \in Threads, NEW f \in Futures, Submit(th, f) PROVE IInv'
  BY <1>2, SubmitHolds
<1>3. ASSUME NEW f \in Futures, Complete(f) PROVE IInv'
  BY <1>3, CompleteHolds
<1>4. CASE UNCHANGED vars
  BY <1>4 DEF vars, IInv, TypeOK, Busy, Settled, Fresh, Calling
<1> QED BY <1>1, <1>2, <1>3, <1>4 DEF Next

LEMMA Invariance == Spec => []IInv
  BY InitHolds, NextHolds, PTL DEF Spec

\* The lock of tasks.py is held only inside its two critical sections, by any
\* number of threads.
THEOREM TypeCorrect == Spec => []TypeOK
<1>1. IInv => TypeOK
  BY DEF IInv
<1> QED BY <1>1, Invariance, PTL

\* A running coroutine's future is in the list once the call that started it
\* has returned, however its end and its registration interleave.
THEOREM RunningKept == Spec => []KeptWhileRunning
<1>1. IInv => KeptWhileRunning
  BY DEF IInv, Settled, KeptWhileRunning
<1> QED BY <1>1, Invariance, PTL

\* A future that is done and that nothing is busy with is out of the list.
THEOREM FinishedForgotten == Spec => []DoneForgotten
<1>1. IInv => DoneForgotten
  BY DEF IInv, Settled, DoneForgotten
<1> QED BY <1>1, Invariance, PTL

=============================================================================
