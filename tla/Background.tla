------------------------------- MODULE Background ------------------------------
(***************************************************************************)
(* Coroutines started in the background: simple_p2p/common/tasks.py.       *)
(*                                                                         *)
(* A thread that starts a coroutine keeps its future in a list, under a    *)
(* lock, until a done callback takes it out, under the same lock.  The     *)
(* loop thread runs the coroutines and, as a rule, their callbacks; but a  *)
(* future that is done already runs the callback it is given at once, in   *)
(* the thread that registers it.  The lock is not reentrant.               *)
(***************************************************************************)
EXTENDS Naturals, FiniteSets

CONSTANTS
    Loop,       \* the thread of the event loop; it also starts coroutines
    Others,     \* other threads that start coroutines: the shell
    Futures     \* a future for each coroutine started: bounds how many

VARIABLES
    holder,     \* who holds tasks_lock
    tasks,      \* the list of futures
    future,     \* each future: not "made" yet, "running" or "done"
    registered, \* futures with the done callback
    thread      \* what each thread does, and with which future

vars == <<holder, tasks, future, registered, thread>>

Threads == Others \cup {Loop}

NoThread == "nobody"
NoFuture == "none"

ASSUME ThreadConstants ==
    /\ Loop \notin Others
    /\ NoThread \notin Threads
    /\ NoFuture \notin Futures

Rest == [at |-> "idle", with |-> NoFuture]

Does(th, step, f) == thread' = [thread EXCEPT ![th] = [at |-> step, with |-> f]]

-----------------------------------------------------------------------------

\* run_coroutine_threadsafe hands the coroutine to the loop.
Submit(th, f) ==
    /\ thread[th] = Rest
    /\ future[f] = "made"
    /\ future' = [future EXCEPT ![f] = "running"]
    /\ Does(th, "starting", f)
    /\ UNCHANGED <<holder, tasks, registered>>

Unlisted(th) ==    \* mutant: the future is not kept
    /\ thread[th].at = "starting"
    /\ holder = NoThread
    /\ holder' = th
    /\ Does(th, "registering", thread[th].with)
    /\ UNCHANGED <<tasks, future, registered>>

Enlist(th) ==
    /\ thread[th].at = "starting"
    /\ holder = NoThread
    /\ holder' = th
    /\ tasks' = tasks \cup {thread[th].with}
    /\ Does(th, "registering", thread[th].with)
    /\ UNCHANGED <<future, registered>>

\* add_done_callback on a future that is not done, and the release.
ForgottenCallback(th) ==    \* mutant: the callback is not registered
    /\ thread[th].at = "registering"
    /\ future[thread[th].with] = "running"
    /\ holder' = NoThread
    /\ thread' = [thread EXCEPT ![th] = Rest]
    /\ UNCHANGED <<tasks, future, registered>>

NoRelease(th) ==    \* mutant: the lock is kept
    /\ thread[th].at = "registering"
    /\ future[thread[th].with] = "running"
    /\ registered' = registered \cup {thread[th].with}
    /\ thread' = [thread EXCEPT ![th] = Rest]
    /\ UNCHANGED <<holder, tasks, future>>

Register(th) ==
    /\ thread[th].at = "registering"
    /\ future[thread[th].with] = "running"
    /\ registered' = registered \cup {thread[th].with}
    /\ holder' = NoThread
    /\ thread' = [thread EXCEPT ![th] = Rest]
    /\ UNCHANGED <<tasks, future>>

\* The same call when the coroutine has ended: task_finished runs in this
\* thread, which still holds the lock.
RegisterLate(th) ==
    /\ thread[th].at = "registering"
    /\ future[thread[th].with] = "done"
    /\ Does(th, "finishing", thread[th].with)
    /\ UNCHANGED <<holder, tasks, future, registered>>

\* A coroutine ends, in the loop; its callback, if there is one, comes next.
Complete(f) ==
    /\ thread[Loop] = Rest
    /\ future[f] = "running"
    /\ future' = [future EXCEPT ![f] = "done"]
    /\ IF f \in registered THEN Does(Loop, "finishing", f) ELSE UNCHANGED thread
    /\ UNCHANGED <<holder, tasks, registered>>

\* task_finished.
TaskFinished(th) ==
    /\ thread[th].at = "finishing"
    /\ holder = NoThread
    /\ tasks' = tasks \ {thread[th].with}
    /\ thread' = [thread EXCEPT ![th] = Rest]
    /\ UNCHANGED <<holder, future, registered>>

-----------------------------------------------------------------------------

Init ==
    /\ holder = NoThread
    /\ tasks = {}
    /\ future = [f \in Futures |-> "made"]
    /\ registered = {}
    /\ thread = [th \in Threads |-> Rest]

Continue(th) == Enlist(th) \/ Register(th) \/ RegisterLate(th) \/ TaskFinished(th)

Next ==
    \/ \E th \in Threads : Continue(th) \/ \E f \in Futures : Submit(th, f)
    \/ \E f \in Futures : Complete(f)

\* A thread goes on with the call it is in; a lock is granted in the end to a
\* thread that waits for it.  Coroutines need not end.
Fairness == \A th \in Threads : SF_vars(Continue(th))

Spec == Init /\ [][Next]_vars /\ Fairness

-----------------------------------------------------------------------------
(* Properties *)

\* The variables keep their shapes, and only a thread inside a critical section
\* holds the lock.
TypeOK ==
    /\ holder \in Threads \cup {NoThread}
    /\ holder # NoThread => thread[holder].at \in {"registering", "finishing"}
    /\ tasks \subseteq Futures
    /\ future \in [Futures -> {"made", "running", "done"}]
    /\ registered \subseteq Futures
    /\ thread \in [Threads -> {Rest} \cup
                     [at : {"starting", "registering", "finishing"}, with : Futures]]

\* in_background keeps a reference to the future (its docstring) for as long
\* as the coroutine runs, from the return of the call on.
KeptWhileRunning ==
    \A f \in Futures :
        future[f] = "running" /\ (\A th \in Threads : thread[th].with # f) =>
            f \in tasks

\* A future that is done, and that no call or callback is still busy with, has
\* left the list, in whatever order its registration and its end came: the
\* list does not grow for ever.
DoneForgotten ==
    \A f \in Futures :
        future[f] = "done" /\ (\A th \in Threads : thread[th].with # f) =>
            f \notin tasks

\* coro_in_background "runs a given coroutine in the background" (tasks.py:24):
\* the call returns, however soon the coroutine ends.
CallReturns ==
    \A th \in Threads : thread[th].at = "starting" ~> thread[th] = Rest

=============================================================================
