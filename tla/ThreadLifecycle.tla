-------------------------- MODULE ThreadLifecycle --------------------------
(***************************************************************************)
(* A QThread from start() to the end of finish(), and the threads that     *)
(* start it, tell it to exit and wait for it.  The fields of               *)
(* QThreadPrivate are guarded by its mutex, so each locked section is one  *)
(* step; between two of them the thread's steps interleave with those of   *)
(* the others.  QWaitCondition::wait gives the mutex up and takes it       *)
(* again, which is where start() and wait() are in two steps.              *)
(*                                                                         *)
(* pc of the thread: none (there is no such thread), start (about to run   *)
(* QThreadPrivate::start), dispatcher (about to create it), run (in run(), *)
(* with no event loop), exec (in QThread::exec, having unlocked), loop (in *)
(* the topmost QEventLoop::exec), left (out of its while), execEnd (back   *)
(* in QThread::exec), finish, finished (the signal), deleting, end.        *)
(* at of another thread: idle, starts, startWaits, startWoken, waits,      *)
(* woken.                                                                  *)
(***************************************************************************)
EXTENDS Integers, Sequences

CONSTANTS Others, Codes,
          MaxRuns,      \* bound on the runs begun when start() is called
          MaxFailures,  \* bound on the failures to create the thread
          MaxExecs,     \* bound on the event loops that run() starts
          MaxNested,    \* bound on the nesting of event loops
          NoCode

ASSUME ConstantsAssumption ==
    /\ Codes \subseteq Nat /\ 0 \in Codes /\ NoCode \notin Codes \cup {-1}
    /\ MaxRuns \in Nat /\ MaxFailures \in Nat
    /\ MaxExecs \in Nat /\ MaxNested \in Nat

VARIABLES
    running, finished, isInFinish, exited, returnCode,  \* QThreadPrivate
    quitNow,        \* QThreadData::quitNow
    eventLoops,     \* QThreadData::eventLoops, with the loops' fields
    dispatcher,     \* QThreadData::eventDispatcher: 0 or the run it is of
    alive,          \* 0, or the run whose dispatcher object exists
    pc, execs, local,   \* the thread, what it started, its local returnCode
    at,                 \* the other threads
    runs,           \* history: the number of runs started
    failures,       \* history: the number of start()s without a thread
    ticket,         \* history: runs when start() was called
    asked,          \* history: codes passed to exit() in this run
    barred,         \* history: exit() since the last QThread::exec
    result          \* history: what QThread::exec returned last

fields == <<running, finished, isInFinish, exited, returnCode>>
thread == <<pc, execs, local>>
others == <<at, ticket>>
starts == <<runs, failures>>
history == <<asked, barred, result>>
vars == <<fields, quitNow, eventLoops, dispatcher, alive, thread, others,
          starts, history>>

Loop(by) == [exit |-> FALSE, code |-> NoCode, by |-> by]
Told(loop, code) == [exit |-> TRUE, code |-> code, by |-> loop.by]
Top == Len(eventLoops)

GoTo(l) == pc' = l
Become(c, l) == at' = [at EXCEPT ![c] = l]

-----------------------------------------------------------------------------
\* QThread::start.

CallStart(c) ==
    /\ at[c] = "idle" /\ runs < MaxRuns
    /\ Become(c, "starts")
    \* only a start() of a thread that is not running must begin a run
    /\ ticket' = [ticket EXCEPT ![c] =
                      IF running /\ ~isInFinish THEN -1 ELSE runs]
    /\ UNCHANGED <<fields, quitNow, eventLoops, dispatcher, alive, thread,
                   starts, history>>

\* Mutant: an exit() before the run began is still there.
Prepared_KeepExited ==
    /\ finished' = FALSE /\ returnCode' = 0
    /\ asked' = {} /\ barred' = FALSE /\ result' = NoCode
    /\ UNCHANGED <<isInFinish, local, exited>>

\* What start() has set when it comes to create the thread.
Prepared ==
    /\ finished' = FALSE /\ returnCode' = 0 /\ exited' = FALSE
    /\ asked' = {} /\ barred' = FALSE /\ result' = NoCode
    /\ UNCHANGED <<isInFinish, local>>

Launch ==
    /\ Prepared
    /\ running' = TRUE
    /\ GoTo("start") /\ execs' = 0
    /\ runs' = runs + 1 /\ UNCHANGED failures

\* The stack size is refused, or pthread_create fails: there is no thread.
FailedLaunch ==
    /\ failures < MaxFailures
    /\ Prepared
    /\ failures' = failures + 1
    /\ UNCHANGED <<running, pc, execs, runs>>

\* The rest of start(), which does nothing while the thread is running.
Begin ==
    \/ running /\ UNCHANGED <<fields, thread, starts, history>>
    \/ ~running /\ (Launch \/ FailedLaunch)

\* Mutant: start() does not wait for the end of finish().
LockedStart_NoWait(c) ==
    /\ at[c] = "starts"
    /\ Begin
    /\ Become(c, "idle")
    /\ UNCHANGED <<quitNow, eventLoops, dispatcher, alive, ticket>>

LockedStart(c) ==
    /\ at[c] = "starts"
    /\ \/ isInFinish /\ Become(c, "startWaits")
          /\ UNCHANGED <<fields, thread, starts, history>>
       \/ ~isInFinish /\ Become(c, "idle") /\ Begin
    /\ UNCHANGED <<quitNow, eventLoops, dispatcher, alive, ticket>>

\* The wait is an if, not a while.
StartAfterWait(c) ==
    /\ at[c] = "startWoken"
    /\ Begin
    /\ Become(c, "idle")
    /\ UNCHANGED <<quitNow, eventLoops, dispatcher, alive, ticket>>

-----------------------------------------------------------------------------
\* QThread::exit, wait and QCoreApplication::postEvent.

\* QEventLoop::exit does nothing without a dispatcher.
ExitLoops(code) ==
    eventLoops' = IF dispatcher = 0 THEN eventLoops
                  ELSE [i \in DOMAIN eventLoops |-> Told(eventLoops[i], code)]

Asked(code) ==
    /\ asked' = asked \cup {code}
    /\ barred' = TRUE
    /\ UNCHANGED result

\* Mutant: only the innermost loop is told to exit.
Exit_Innermost(code) ==
    /\ exited' = TRUE /\ returnCode' = code /\ quitNow' = TRUE
    /\ eventLoops' = IF dispatcher = 0 \/ Top = 0 THEN eventLoops
                     ELSE [eventLoops EXCEPT ![Top] = Told(eventLoops[Top], code)]
    /\ Asked(code)
    /\ UNCHANGED <<running, finished, isInFinish, dispatcher, alive, thread,
                   others, starts>>

\* By any thread, the thread itself included.
Exit(code) ==
    /\ exited' = TRUE /\ returnCode' = code /\ quitNow' = TRUE
    /\ ExitLoops(code)
    /\ Asked(code)
    /\ UNCHANGED <<running, finished, isInFinish, dispatcher, alive, thread,
                   others, starts>>

\* wait() that does not return true at once.
Wait(c) ==
    /\ at[c] = "idle" /\ running /\ ~finished
    /\ Become(c, "waits")
    /\ UNCHANGED <<fields, quitNow, eventLoops, dispatcher, alive, thread,
                   ticket, starts, history>>

\* while (d->running)
WaitAgain(c) ==
    /\ at[c] = "woken"
    /\ Become(c, IF running THEN "waits" ELSE "idle")
    /\ UNCHANGED <<fields, quitNow, eventLoops, dispatcher, alive, thread,
                   ticket, starts, history>>

-----------------------------------------------------------------------------
\* The thread.

StartRoutine ==
    /\ pc = "start" /\ GoTo("dispatcher")
    /\ quitNow' = exited
    /\ UNCHANGED <<fields, eventLoops, dispatcher, alive, execs, local, others,
                   starts, history>>

CreateEventDispatcher ==
    /\ pc = "dispatcher" /\ GoTo("run")
    /\ dispatcher' = runs /\ alive' = runs
    /\ UNCHANGED <<fields, quitNow, eventLoops, execs, local, others, starts,
                   history>>

\* QThread::exec up to the unlock; it may return returnCode at once.
CallExec ==
    /\ pc = "run" /\ execs < MaxExecs
    /\ execs' = execs + 1
    /\ quitNow' = FALSE /\ exited' = FALSE
    /\ barred' = FALSE
    /\ IF exited
       THEN result' = returnCode /\ UNCHANGED pc
       ELSE GoTo("exec") /\ UNCHANGED result
    /\ UNCHANGED <<running, finished, isInFinish, returnCode, eventLoops,
                   dispatcher, alive, local, others, starts, asked>>

\* The beginning of QEventLoop::exec: a loop is entered, or -1 returned.
Enter(by, back) ==
    IF quitNow
    THEN /\ GoTo(back) /\ local' = -1
         /\ UNCHANGED <<eventLoops, history>>
    ELSE /\ GoTo("loop")
         /\ eventLoops' = Append(eventLoops, Loop(by))
         /\ UNCHANGED <<local, history>>

ExecLoop ==
    /\ pc = "exec" /\ Enter("thread", "execEnd")
    /\ UNCHANGED <<fields, quitNow, dispatcher, alive, execs, others, starts>>

\* run() has a QEventLoop of its own.
CustomLoop ==
    /\ pc = "run" /\ execs < MaxExecs
    /\ execs' = execs + 1
    /\ Enter("custom", "run")
    /\ UNCHANGED <<fields, quitNow, dispatcher, alive, others, starts>>

\* A handler nests a loop.
NestedLoop ==
    /\ pc = "loop" /\ Top < MaxNested
    /\ Enter("custom", "loop")
    /\ UNCHANGED <<fields, quitNow, dispatcher, alive, execs, others, starts>>

\* A handler calls exit() of the loop that run() or another handler started.
ExitInnermost ==
    /\ pc = "loop" /\ eventLoops[Top].by = "custom"
    /\ eventLoops' = [eventLoops EXCEPT ![Top] = Told(eventLoops[Top], 0)]
    /\ UNCHANGED <<fields, quitNow, dispatcher, alive, thread, others, starts,
                   history>>

\* while (!d->exit) ...; the value to return is loaded before the loop is
\* popped.
LeaveLoop ==
    /\ pc = "loop" /\ eventLoops[Top].exit
    /\ GoTo("left") /\ local' = eventLoops[Top].code
    /\ UNCHANGED <<fields, quitNow, eventLoops, dispatcher, alive, execs,
                   others, starts, history>>

PopLoop ==
    /\ pc = "left"
    /\ eventLoops' = SubSeq(eventLoops, 1, Top - 1)
    /\ GoTo(IF eventLoops[Top].by = "thread" THEN "execEnd"
            ELSE IF Top > 1 THEN "loop" ELSE "run")
    /\ UNCHANGED <<fields, quitNow, dispatcher, alive, execs, local, others,
                   starts, history>>

\* The rest of QThread::exec.
ExecReturns ==
    /\ pc = "execEnd" /\ GoTo("run")
    /\ exited' = FALSE /\ returnCode' = -1
    /\ result' = local
    /\ UNCHANGED <<running, finished, isInFinish, quitNow, eventLoops,
                   dispatcher, alive, execs, local, others, starts, asked,
                   barred>>

RunReturns ==
    /\ pc = "run" /\ GoTo("finish")
    /\ UNCHANGED <<fields, quitNow, eventLoops, dispatcher, alive, execs, local,
                   others, starts, history>>

Finish ==
    /\ pc = "finish" /\ GoTo("finished")
    /\ isInFinish' = TRUE
    /\ UNCHANGED <<running, finished, exited, returnCode, quitNow, eventLoops,
                   dispatcher, alive, execs, local, others, starts, history>>

\* finished() has been emitted and deferred deletes sent.
DetachDispatcher ==
    /\ pc = "finished" /\ GoTo("deleting")
    /\ dispatcher' = 0
    /\ UNCHANGED <<fields, quitNow, eventLoops, alive, execs, local, others,
                   starts, history>>

DeleteDispatcher ==
    /\ pc = "deleting" /\ GoTo("end")
    /\ alive' = 0
    /\ UNCHANGED <<fields, quitNow, eventLoops, dispatcher, execs, local, others,
                   starts, history>>

WakeAll == at' = [c \in Others |-> CASE at[c] = "startWaits" -> "startWoken"
                                     [] at[c] = "waits" -> "woken"
                                     [] OTHER -> at[c]]

End ==
    /\ pc = "end" /\ GoTo("none")
    /\ running' = FALSE /\ finished' = TRUE /\ isInFinish' = FALSE
    /\ WakeAll
    /\ UNCHANGED <<exited, returnCode, quitNow, eventLoops, dispatcher, alive,
                   execs, local, ticket, starts, history>>

-----------------------------------------------------------------------------
Init ==
    /\ running = FALSE /\ finished = FALSE /\ isInFinish = FALSE
    /\ exited = FALSE /\ returnCode = -1 /\ quitNow = FALSE
    /\ eventLoops = <<>> /\ dispatcher = 0 /\ alive = 0
    /\ pc = "none" /\ execs = 0 /\ local = 0
    /\ at = [c \in Others |-> "idle"]
    /\ runs = 0 /\ failures = 0 /\ ticket = [c \in Others |-> -1]
    /\ asked = {} /\ barred = FALSE /\ result = NoCode

\* What the thread does without being asked to.
ThreadStep ==
    \/ StartRoutine \/ CreateEventDispatcher \/ ExecLoop \/ LeaveLoop \/ PopLoop
    \/ ExecReturns \/ RunReturns \/ Finish \/ DetachDispatcher
    \/ DeleteDispatcher \/ End

Resume(c) == LockedStart(c) \/ StartAfterWait(c) \/ WaitAgain(c)

Next ==
    \/ ThreadStep \/ CallExec \/ CustomLoop \/ NestedLoop
    \/ ExitInnermost
    \/ \E code \in Codes : Exit(code)
    \/ \E c \in Others : CallStart(c) \/ Wait(c) \/ Resume(c)

Spec == Init /\ [][Next]_vars

\* The thread goes on, run() returns sooner or later when it is in no event
\* loop, and threads that have the mutex to themselves go on.
LiveSpec == Spec /\ WF_vars(ThreadStep) /\ \A c \in Others : WF_vars(Resume(c))

-----------------------------------------------------------------------------
\* Properties.

\* start() never makes a second thread: whenever the fields let it go ahead,
\* the last one has left finish().
OneThread == ~running => pc = "none" /\ ~isInFinish

\* exit() uses the dispatcher of a loop that is in eventLoops: it is there
\* from before the first loop until after the last.
LoopsHaveDispatcher == eventLoops # <<>> => dispatcher = runs /\ alive = runs

\* "If the thread is already running, this function does nothing"; if it is
\* not, and be it still in finish(), a run begins before start() returns, or
\* the thread could not be created: then it is not running, as before.
StartTakesEffect ==
    [][\A c \in Others :
        at[c] \in {"starts", "startWoken"} /\ at'[c] = "idle"
            => \/ runs' > ticket[c]
               \/ failures' > failures /\ ~running']_vars

\* "No QEventLoops will be started anymore in this thread until
\* QThread::exec() has been called again."
NoLoopAfterExit ==
    [][Len(eventLoops') > Len(eventLoops)
        => eventLoops'[Len(eventLoops')].by = "thread" \/ ~barred]_vars

\* "After calling this function, the thread leaves the event loop": told to
\* exit in its loops, however nested, a thread ends or calls QThread::exec
\* anew; told before its first loop, it ends unless it starts a second one.
\* The new QThread::exec may well enter a loop: the end of the last one resets
\* exited, and so forgets an exit() that came after LeaveLoop.
ExitEndsRun ==
    /\ (running /\ barred) ~> (~running \/ ~barred)
    /\ (running /\ asked # {} /\ execs = 0) ~> (~running \/ execs > 1)

\* "Waits until exit() is called, returning the value that was passed to
\* exit()": in this run, and never one of an earlier run; or -1, when exit()
\* comes between the two locked sections of QThread::exec and QEventLoop::exec.
ExecReturnsCode == result \in asked \cup {-1, NoCode}

\* Nobody waits for a thread that has ended.
NoneLeftWaiting ==
    ~running => \A c \in Others : at[c] \notin {"waits", "startWaits"}
=============================================================================
