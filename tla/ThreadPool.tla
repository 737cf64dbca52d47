----------------------------- MODULE ThreadPool -----------------------------
(***************************************************************************)
(* QThreadPool: threads of its own that take runnables from a queue, wait  *)
(* for more, expire and are started again, and users that start runnables, *)
(* change limits and wait for the pool to be done.  Everything is guarded  *)
(* by QThreadPoolPrivate::mutex, so each locked section is a step; the     *)
(* loop of tryToStartMoreThreads takes several, during which more holds.   *)
(*                                                                         *)
(* pc of a pool thread: none (not created), begin (QThread::start was      *)
(* called), task (in QRunnable::run), idle (in runnableReady.wait), woken  *)
(* (about to leave it, woken up or timed out), done (run() has returned),  *)
(* finish (QThreadPrivate::isInFinish), ended (not running).               *)
(*                                                                         *)
(* at of a user's thread: free, checks (at the while of waitForDone),      *)
(* asleep (in noActiveThreads.wait), reset and again (at the while of      *)
(* reset), joins (between two threads of the copy), joining (one).         *)
(***************************************************************************)
EXTENDS Integers, Sequences, FiniteSets

CONSTANTS Tasks,        \* the runnables, which are deleted automatically
          Workers,      \* the QThreadPoolThread objects
          Clients,      \* the user's threads
          Waiters,      \* those of them that call waitForDone
          Priorities, MaxCounts,    \* what start() and setMaxThreadCount() get
          MaxStarts,    \* bound on the starts of a runnable
          MaxReserved,  \* bound on reservedThreads
          MaxFailures,  \* bound on the failures to create a thread
          NoTask, NoWorker

ASSUME ConstantsAssumption ==
    /\ NoTask \notin Tasks /\ NoWorker \notin Workers
    /\ Priorities \subseteq Int /\ MaxCounts \subseteq Nat
    /\ MaxStarts \in Nat /\ MaxReserved \in Nat /\ MaxFailures \in Nat
    /\ IsFiniteSet(Workers) /\ Waiters \subseteq Clients

VARIABLES
    queue, allThreads, waitingThreads, expiredThreads,  \* QThreadPoolPrivate
    activeThreads, reservedThreads, maxThreadCount, isExiting,
    more,               \* tryToStartMoreThreads is going on
    runnable, pc,       \* of each pool thread,
    current,            \* and its local r
    ref, deleted,       \* of each runnable
    at, copy, join,     \* of each user's thread, with the locals of reset()
    starts,             \* history: how often each runnable was accepted,
    failures,           \* how often a thread could not be created, and
    disturbed           \* whether the pool was used during a reset()

pool == <<queue, allThreads, waitingThreads, expiredThreads>>
limits == <<reservedThreads, maxThreadCount, isExiting>>
threads == <<runnable, pc, current>>
tasks == <<ref, deleted, starts>>
users == <<at, copy, join>>
history == <<failures, disturbed>>
vars == <<pool, activeThreads, limits, more, threads, tasks, users, history>>

InSeq(s, x) == \E i \in DOMAIN s : s[i] = x
Become(w, l) == pc' = [pc EXCEPT ![w] = l]
GoTo(c, l) == at' = [at EXCEPT ![c] = l]

ActiveThreadCount ==
    Cardinality(allThreads) - Len(expiredThreads) - Len(waitingThreads)
    + reservedThreads

TooManyThreadsActive ==
    ActiveThreadCount > maxThreadCount /\ ActiveThreadCount - reservedThreads > 1

\* enqueueTask: the queue is sorted, and upper_bound finds this place.
Insert(q, t, p) ==
    LET n == Cardinality({i \in DOMAIN q : q[i].priority >= p})
    IN  SubSeq(q, 1, n) \o <<[task |-> t, priority |-> p]>>
        \o SubSeq(q, n + 1, Len(q))

Dropped(q, n) == SubSeq(q, n + 1, Len(q))
Without(s, i) == SubSeq(s, 1, i - 1) \o Dropped(s, i)

Ref(t) == ref' = [ref EXCEPT ![t] = @ + 1] /\ UNCHANGED deleted
Deref(t) ==
    /\ ref' = [ref EXCEPT ![t] = @ - 1]
    /\ deleted' = deleted \cup (IF ref[t] = 1 THEN {t} ELSE {})

-----------------------------------------------------------------------------
\* Starting runnables.

\* What QThreadPoolPrivate::tryStart returns.
CanStart == allThreads = {} \/ ActiveThreadCount < maxThreadCount

\* QThread::start() of a thread that is running and not in finish() does
\* nothing; it waits for one that is in finish(), and may fail to create one.
StartThread(w, t) ==
    /\ runnable' = [runnable EXCEPT ![w] = t]
    /\ \/ pc[w] \in {"none", "ended"} /\ Become(w, "begin")
          /\ UNCHANGED failures
       \/ pc[w] \in {"none", "ended"} /\ Become(w, "ended")
          /\ failures < MaxFailures /\ failures' = failures + 1
       \/ pc[w] \notin {"none", "ended", "finish"}
          /\ UNCHANGED <<pc, failures>>
    /\ UNCHANGED current

Wake(w) == pc' = [pc EXCEPT ![w] = IF @ = "idle" THEN "woken" ELSE @]

NewThread(t) ==
    /\ \E w \in Workers :
           /\ pc[w] = "none"
           /\ allThreads' = allThreads \cup {w}
           /\ StartThread(w, t)
    /\ activeThreads' = activeThreads + 1
    /\ Ref(t)
    /\ UNCHANGED <<waitingThreads, expiredThreads>>

RecycleThread(t) ==
    /\ Wake(Head(waitingThreads))
    /\ waitingThreads' = Tail(waitingThreads)
    /\ Ref(t)
    /\ UNCHANGED <<allThreads, expiredThreads, activeThreads, runnable, current,
                   failures>>

\* Mutant: a runnable that is started again is not counted.
RestartThread_NoRef(t) ==
    /\ StartThread(Head(expiredThreads), t)
    /\ expiredThreads' = Tail(expiredThreads)
    /\ activeThreads' = activeThreads + 1
    /\ UNCHANGED <<allThreads, waitingThreads, ref, deleted>>

\* Mutant: the restarted thread is not counted as active.
RestartThread_Inactive(t) ==
    /\ StartThread(Head(expiredThreads), t)
    /\ expiredThreads' = Tail(expiredThreads)
    /\ Ref(t)
    /\ UNCHANGED <<allThreads, waitingThreads, activeThreads>>

RestartThread(t) ==
    /\ StartThread(Head(expiredThreads), t)
    /\ expiredThreads' = Tail(expiredThreads)
    /\ activeThreads' = activeThreads + 1
    /\ Ref(t)
    /\ UNCHANGED <<allThreads, waitingThreads>>

\* QThreadPoolPrivate::tryStart, whose caller then removes the first n entries
\* of the queue.
TryStartTask(t, n) ==
    /\ CanStart
    /\ \/ /\ allThreads # {} /\ waitingThreads # <<>>
          /\ RecycleThread(t)
          /\ queue' = Dropped(Insert(queue, t, 0), n)
       \/ /\ allThreads # {} /\ waitingThreads = <<>> /\ expiredThreads # <<>>
          /\ RestartThread(t)
          /\ queue' = Dropped(queue, n)
       \/ /\ allThreads = {} \/ (waitingThreads = <<>> /\ expiredThreads = <<>>)
          /\ NewThread(t)
          /\ queue' = Dropped(queue, n)
    /\ UNCHANGED <<limits, users>>

\* Somebody can call: a user's thread that waits for nothing, or a runnable.
Caller == \/ \E c \in Clients : at[c] = "free"
          \/ \E w \in Workers : pc[w] = "task"
Accept(t) == starts' = [starts EXCEPT ![t] = @ + 1]

\* A user has found the pool done and has not come to the end of reset().
Resetting == \E c \in Clients : at[c] \in {"reset", "again", "joins", "joining"}
Used == disturbed' = (disturbed \/ Resetting)

\* start() of a runnable for which there is no thread.
Enqueue(t, p) ==
    /\ queue' = Insert(queue, t, p) /\ Ref(t)
    /\ IF waitingThreads = <<>> THEN UNCHANGED <<waitingThreads, pc>>
       ELSE Wake(Head(waitingThreads)) /\ waitingThreads' = Tail(waitingThreads)
    /\ UNCHANGED <<allThreads, expiredThreads, activeThreads, limits, runnable,
                   current, users, failures>>

Start(t, p) ==
    /\ ~more /\ Caller /\ starts[t] = 0
    /\ TryStartTask(t, 0) \/ (~CanStart /\ Enqueue(t, p))
    /\ Accept(t) /\ Used
    /\ UNCHANGED more

\* tryStart() that returns true: of a new runnable, or of this from its run().
TryStart(t) ==
    /\ ~more /\ starts[t] < MaxStarts
    /\ \/ starts[t] = 0 /\ Caller
       \/ \E w \in Workers : pc[w] = "task" /\ current[w] = t
    /\ TryStartTask(t, 0)
    /\ Accept(t) /\ Used
    /\ UNCHANGED more

ReserveThread ==
    /\ ~more /\ Caller /\ reservedThreads < MaxReserved
    /\ reservedThreads' = reservedThreads + 1
    /\ UNCHANGED <<pool, activeThreads, maxThreadCount, isExiting, more,
                   threads, tasks, users, history>>

ReleaseThread ==
    /\ ~more /\ Caller /\ reservedThreads > 0
    /\ reservedThreads' = reservedThreads - 1
    /\ more' = TRUE
    /\ UNCHANGED <<pool, activeThreads, maxThreadCount, isExiting, threads,
                   tasks, users, history>>

SetMaxThreadCount(n) ==
    /\ ~more /\ Caller /\ n # maxThreadCount
    /\ maxThreadCount' = n
    /\ more' = TRUE
    /\ UNCHANGED <<pool, activeThreads, reservedThreads, isExiting, threads,
                   tasks, users, history>>

\* An iteration of tryToStartMoreThreads, or its end.
TryToStartMoreThreads ==
    /\ more
    /\ \/ queue # <<>> /\ TryStartTask(Head(queue).task, 1) /\ UNCHANGED more
       \/ /\ queue = <<>> \/ ~CanStart
          /\ more' = FALSE
          /\ UNCHANGED <<pool, activeThreads, limits, threads, ref, deleted,
                         users, failures>>
    /\ UNCHANGED <<starts, disturbed>>

Occurrences(t) == Cardinality({i \in DOMAIN queue : queue[i].task = t})

Clear ==
    /\ ~more /\ Caller /\ queue # <<>>
    /\ queue' = <<>>
    /\ ref' = [t \in Tasks |-> ref[t] - Occurrences(t)]
    /\ deleted' = deleted \cup {t \in Tasks : Occurrences(t) > 0
                                              /\ ref[t] = Occurrences(t)}
    /\ UNCHANGED <<allThreads, waitingThreads, expiredThreads, activeThreads,
                   limits, more, threads, starts, users, history>>

-----------------------------------------------------------------------------
\* QThreadPoolThread::run.

\* registerThreadInactive() when activeThreads is n.
RegisterThreadInactive(n) ==
    /\ activeThreads' = n - 1
    /\ at' = [c \in Clients |-> IF n = 1 /\ at[c] = "asleep" THEN "checks"
                                ELSE at[c]]

\* No runnable is left for w: it ends, for reset() or as expired, or waits.
Rest(w, n) ==
    /\ RegisterThreadInactive(n)
    /\ \/ isExiting /\ Become(w, "done")
          /\ UNCHANGED <<waitingThreads, expiredThreads>>
       \/ ~isExiting /\ TooManyThreadsActive /\ Become(w, "done")
          /\ expiredThreads' = Append(expiredThreads, w)
          /\ UNCHANGED waitingThreads
       \/ ~isExiting /\ ~TooManyThreadsActive /\ Become(w, "idle")
          /\ waitingThreads' = Append(waitingThreads, w)
          /\ UNCHANGED expiredThreads
    /\ current' = [current EXCEPT ![w] = NoTask]
    /\ UNCHANGED queue

\* From "if too many threads are active" on, n threads being active.
Continue(w, n) ==
    /\ \/ (TooManyThreadsActive \/ queue = <<>>) /\ Rest(w, n)
       \/ /\ ~TooManyThreadsActive /\ queue # <<>>
          /\ current' = [current EXCEPT ![w] = Head(queue).task]
          /\ queue' = Tail(queue)
          /\ Become(w, "task")
          /\ activeThreads' = n
          /\ UNCHANGED <<waitingThreads, expiredThreads, at>>
    /\ UNCHANGED <<allThreads, limits, more, runnable, starts, copy, join,
                   history>>

Begin(w) ==
    /\ ~more /\ pc[w] = "begin" /\ Become(w, "task")
    /\ current' = [current EXCEPT ![w] = runnable[w]]
    /\ runnable' = [runnable EXCEPT ![w] = NoTask]
    /\ UNCHANGED <<pool, activeThreads, limits, more, tasks, users, history>>

\* The runnable has returned.
EndTask(w) ==
    /\ ~more /\ pc[w] = "task"
    /\ Deref(current[w])
    /\ Continue(w, activeThreads)

\* runnableReady.wait ends after expiryTimeout.
TimesOut(w) ==
    /\ pc[w] = "idle" /\ Become(w, "woken")
    /\ UNCHANGED <<pool, activeThreads, limits, more, runnable, current, tasks,
                   users, history>>

\* Mutant: a thread whose wait ends takes itself for expired.
Resume_Expired(w) ==
    /\ ~more /\ pc[w] = "woken"
    /\ waitingThreads' = SelectSeq(waitingThreads, LAMBDA v : v # w)
    /\ expiredThreads' = Append(expiredThreads, w)
    /\ Become(w, "done")
    /\ RegisterThreadInactive(activeThreads + 1)
    /\ UNCHANGED <<queue, allThreads, limits, more, runnable, current, tasks,
                   copy, join, history>>

\* Back from the wait: expired when nobody has taken w out of waitingThreads.
Resume(w) ==
    /\ ~more /\ pc[w] = "woken"
    /\ \/ /\ \E i \in DOMAIN waitingThreads :
                 /\ waitingThreads[i] = w
                 /\ waitingThreads' = Without(waitingThreads, i)
          /\ expiredThreads' = Append(expiredThreads, w)
          /\ Become(w, "done")
          /\ RegisterThreadInactive(activeThreads + 1)
          /\ UNCHANGED <<queue, allThreads, limits, more, runnable, current,
                         starts, copy, join, history>>
       \/ ~InSeq(waitingThreads, w) /\ Continue(w, activeThreads + 1)
    /\ UNCHANGED <<ref, deleted>>

\* QThreadPrivate::finish.
Finish(w) ==
    /\ \/ pc[w] = "done" /\ Become(w, "finish")
       \/ pc[w] = "finish" /\ Become(w, "ended")
    /\ UNCHANGED <<pool, activeThreads, limits, more, runnable, current, tasks,
                   users, history>>

-----------------------------------------------------------------------------
\* waitForDone.

IsDone == queue = <<>> /\ activeThreads = 0

WaitForDone(c) ==
    /\ at[c] = "free" /\ GoTo(c, "checks")
    /\ UNCHANGED <<pool, activeThreads, limits, more, threads, tasks, copy, join,
                   history>>

\* Mutant: only the queue is looked at.
CheckDone_Queue(c) ==
    /\ ~more /\ at[c] = "checks"
    /\ GoTo(c, IF queue = <<>> THEN "reset" ELSE "asleep") /\ Used
    /\ UNCHANGED <<pool, activeThreads, limits, more, threads, tasks, copy, join,
                   failures>>

CheckDone(c) ==
    /\ ~more /\ at[c] = "checks"
    /\ GoTo(c, IF IsDone THEN "reset" ELSE "asleep") /\ Used
    /\ UNCHANGED <<pool, activeThreads, limits, more, threads, tasks, copy, join,
                   failures>>

\* The time of waitForDone(msecs) is up.
GiveUp(c) ==
    /\ ~more /\ at[c] = "asleep"
    /\ GoTo(c, IF IsDone THEN "reset" ELSE "free") /\ Used
    /\ UNCHANGED <<pool, activeThreads, limits, more, threads, tasks, copy, join,
                   failures>>

\* reset(): the threads are moved out of the set, or none has come.
Reset(c) ==
    /\ ~more /\ at[c] \in {"reset", "again"}
    /\ \/ /\ allThreads # {} /\ GoTo(c, "joins")
          /\ copy' = [copy EXCEPT ![c] = allThreads]
          /\ allThreads' = {}
          /\ isExiting' = (isExiting \/ at[c] = "reset")
          /\ UNCHANGED <<waitingThreads, expiredThreads>>
       \/ /\ allThreads = {} /\ GoTo(c, "free")
          /\ waitingThreads' = <<>> /\ expiredThreads' = <<>>
          /\ isExiting' = FALSE
          /\ UNCHANGED <<allThreads, copy>>
    /\ UNCHANGED <<queue, activeThreads, reservedThreads, maxThreadCount, more,
                   threads, tasks, join, history>>

\* thread->runnableReady.wakeAll()
WakeForJoin(c) ==
    /\ at[c] = "joins" /\ GoTo(c, "joining")
    /\ \E w \in copy[c] : Wake(w) /\ join' = [join EXCEPT ![c] = w]
    /\ UNCHANGED <<pool, activeThreads, limits, more, runnable, current, tasks,
                   copy, history>>

\* thread->wait() returns; the thread is deleted.
Joined(c) ==
    /\ at[c] = "joining" /\ pc[join[c]] = "ended"
    /\ Become(join[c], "none")
    /\ runnable' = [runnable EXCEPT ![join[c]] = NoTask]
    /\ copy' = [copy EXCEPT ![c] = @ \ {join[c]}]
    /\ GoTo(c, IF copy[c] = {join[c]} THEN "again" ELSE "joins")
    /\ join' = [join EXCEPT ![c] = NoWorker]
    /\ UNCHANGED <<pool, activeThreads, limits, more, current, tasks, history>>

-----------------------------------------------------------------------------
Init ==
    /\ queue = <<>> /\ allThreads = {}
    /\ waitingThreads = <<>> /\ expiredThreads = <<>>
    /\ activeThreads = 0 /\ reservedThreads = 0
    /\ maxThreadCount \in MaxCounts /\ isExiting = FALSE /\ more = FALSE
    /\ runnable = [w \in Workers |-> NoTask] /\ pc = [w \in Workers |-> "none"]
    /\ current = [w \in Workers |-> NoTask]
    /\ ref = [t \in Tasks |-> 0] /\ deleted = {}
    /\ at = [c \in Clients |-> "free"] /\ copy = [c \in Clients |-> {}]
    /\ join = [c \in Clients |-> NoWorker]
    /\ starts = [t \in Tasks |-> 0] /\ failures = 0 /\ disturbed = FALSE

WorkerStep(w) == Begin(w) \/ EndTask(w) \/ Resume(w) \/ Finish(w)
ClientStep(c) == CheckDone(c) \/ Reset(c) \/ WakeForJoin(c) \/ Joined(c)

Next ==
    \/ \E t \in Tasks : TryStart(t) \/ \E p \in Priorities : Start(t, p)
    \/ \E n \in MaxCounts : SetMaxThreadCount(n)
    \/ ReserveThread \/ ReleaseThread \/ TryToStartMoreThreads \/ Clear
    \/ \E w \in Workers : WorkerStep(w) \/ TimesOut(w)
    \/ \E c \in Waiters : WaitForDone(c) \/ GiveUp(c) \/ ClientStep(c)

Spec == Init /\ [][Next]_vars

\* Runnables return, and a thread that waits for the mutex gets it although
\* others keep taking it (hence SF: more disables these steps); nothing has to
\* time out.
LiveSpec ==
    /\ Spec
    /\ WF_vars(TryToStartMoreThreads)
    /\ \A w \in Workers : SF_vars(WorkerStep(w))
    /\ \A c \in Waiters : SF_vars(ClientStep(c))

-----------------------------------------------------------------------------
\* Properties.

\* A runnable was given to a thread whose run() had already returned, or which
\* could not be created.
Stranded ==
    \E w \in Workers : runnable[w] # NoTask /\ pc[w] \in {"done", "finish", "ended"}

\* "runnable is run immediately using one available thread."
NoneStranded == ~Stranded

\* The counter that waitForDone looks at and the sets that the limits are
\* computed from both count the threads that have a runnable; a thread that
\* was taken out of waitingThreads is counted by the latter before it is back.
\* A start() or waitForDone() that comes while reset() joins the threads ends
\* this for ever; any other calls of any number of threads do not.
Busy == {w \in Workers : pc[w] \in {"begin", "task"} \/ runnable[w] # NoTask}
Returning ==
    {w \in Workers : pc[w] = "woken" /\ ~InSeq(waitingThreads, w)}
CountsAgree ==
    ~disturbed =>
        /\ activeThreads = Cardinality(Busy)
        /\ ~isExiting => ActiveThreadCount - reservedThreads
                             = Cardinality(Busy \cup Returning)

\* A runnable is not deleted while the pool will still run it, or runs it.
InUse(t) == \/ \E i \in DOMAIN queue : queue[i].task = t
            \/ \E w \in Workers : t \in {runnable[w], current[w]}
NotDeletedInUse == \A t \in deleted : ~InUse(t)

\* waitForDone() goes on to remove the threads only when every runnable that
\* the pool ever accepted has returned or was cleared.
WaitedForAll ==
    [][\A c \in Clients :
        at[c] \in {"checks", "asleep"} /\ at'[c] = "reset"
            => \A t \in Tasks : ~InUse(t)]_vars

\* A runnable in the queue is taken out of it sooner or later.  (While threads
\* are reserved, the pool may have none to run it; and one that comes during a
\* reset() may be left there when the threads are gone.)
Queued(t) == \E i \in DOMAIN queue : queue[i].task = t
EventuallyRun ==
    \A t \in Tasks :
        Queued(t) ~> (\/ ~Queued(t) \/ Stranded
                      \/ reservedThreads > 0 \/ disturbed)

=============================================================================
