--------------------------- MODULE Threads_proofs ---------------------------
(***************************************************************************)
(* Proofs about what a thread goes through: its life as a QThread, its     *)
(* blocking in a QMutex over futexes, its sleep in the dispatcher for      *)
(* UNIX, and the timers of the dispatcher for Pepper.  The four components *)
(* share no variable; the names of their specifications tell them apart.   *)
(*   - ThreadLifecycle: any set of other threads, any number of runs,      *)
(*     event loops and nestings;                                           *)
(*   - FutexMutex: any set of threads; that it implements AbstractMutex;   *)
(*   - WakeUp: any set of other threads and any number of posts;           *)
(*   - PepperTimers: any number of objects, timer ids and callbacks.       *)
(***************************************************************************)
EXTENDS ThreadLifecycle, FutexMutex, WakeUp, PepperTimers,
        FiniteSetTheorems, SequenceTheorems, TLAPS

-----------------------------------------------------------------------------
\* ThreadLifecycle: the inductive invariant.

Ats == {"idle", "starts", "startWaits", "startWoken", "waits", "woken"}

\* The fields of QThreadPrivate as a function of where the thread is.
Phase ==
    /\ running <=> pc # "none"
    /\ isInFinish <=> pc \in {"finished", "deleting", "end"}

\* No start() that had to begin a run gets here without one: either a run has
\* begun since, or the thread is not running, or still in finish().
Starting ==
    /\ runs \in Nat /\ failures \in Nat /\ ticket \in [Others -> Int]
    /\ \A c \in Others :
           /\ ticket[c] <= runs
           /\ at[c] = "starts" => ticket[c] < runs \/ ~running \/ isInFinish
           /\ at[c] = "startWaits" => isInFinish
           /\ at[c] = "startWoken" => ticket[c] < runs \/ ~running

\* What an exit() leaves behind until QThread::exec is called.
Barred ==
    /\ barred /\ pc = "start" => exited
    /\ barred /\ pc # "start" => quitNow

Bits ==
    /\ running \in BOOLEAN /\ isInFinish \in BOOLEAN /\ exited \in BOOLEAN
    /\ quitNow \in BOOLEAN /\ barred \in BOOLEAN

IInv ==
    /\ Bits /\ Phase /\ at \in [Others -> Ats] /\ NoneLeftWaiting
    /\ Starting /\ Barred

LEMMA InitInv == Init => IInv
<1> SUFFICES ASSUME Init PROVE IInv
  OBVIOUS
<1>1. Bits /\ Phase /\ Barred
  BY DEF Init, Bits, Phase, Barred
<1>2. at \in [Others -> Ats]
  BY DEF Init, Ats
<1>3. NoneLeftWaiting
  BY DEF Init, NoneLeftWaiting
<1>4. Starting
  <2>1. runs \in Nat /\ failures \in Nat /\ ticket \in [Others -> Int]
    BY DEF Init
  <2>2. \A c \in Others : at[c] = "idle"
    BY DEF Init
  <2>3. ASSUME NEW c \in Others PROVE ticket[c] <= runs
    <3>1. ticket[c] = -1 /\ runs = 0
      BY DEF Init
    <3> QED
      BY <3>1
  <2> QED
    BY <2>1, <2>2, <2>3 DEF Starting
<1> QED
  BY <1>1, <1>2, <1>3, <1>4 DEF IInv

\* What start() has done when it returns.
TakesEffect(c) == \/ runs' > ticket[c]
                  \/ failures' > failures /\ ~running'

\* The two steps that can begin a run.
LEMMA StartInv ==
    ASSUME IInv, NEW c \in Others, LockedStart(c) \/ StartAfterWait(c)
    PROVE  IInv' /\ (at'[c] = "idle" => TakesEffect(c))
<1> USE DEF IInv, Phase, Starting, Barred, LockedStart, StartAfterWait, Begin,
        Launch, FailedLaunch, Prepared, Become, GoTo, fields, thread, history,
        starts, NoneLeftWaiting
<1>1. Bits' /\ Phase'
  <2>1. CASE UNCHANGED <<fields, thread, history>>
    BY <2>1 DEF Bits
  <2>2. CASE Launch
    BY <2>2 DEF Bits
  <2>3. CASE FailedLaunch
    BY <2>3 DEF Bits
  <2> QED
    BY <2>1, <2>2, <2>3
<1>2. at' \in [Others -> Ats]
  BY DEF Ats
<1>3. NoneLeftWaiting'
  OBVIOUS
<1>4. Starting'
  <2>1. /\ runs' \in Nat /\ runs' >= runs /\ ticket' = ticket
        /\ failures' \in Nat
    OBVIOUS
  <2>2. ASSUME NEW b \in Others
        PROVE  /\ at'[b] = "starts" => ticket[b] < runs' \/ ~running' \/ isInFinish'
               /\ at'[b] = "startWaits" => isInFinish'
               /\ at'[b] = "startWoken" => ticket[b] < runs' \/ ~running'
    <3>1. CASE UNCHANGED <<runs, running, isInFinish>>
      BY <3>1 DEF Ats
    <3>2. CASE runs' = runs + 1 /\ UNCHANGED isInFinish
      BY <3>2 DEF Ats
    <3> QED
      BY <3>1, <3>2
  <2> QED
    BY <2>1, <2>2
<1>5. Barred'
  BY DEF Bits
<1>6. at'[c] = "idle" => TakesEffect(c)
  BY DEF TakesEffect
<1> QED
  BY <1>1, <1>2, <1>3, <1>4, <1>5, <1>6

\* The other steps of the other threads.
LEMMA OthersInv ==
    ASSUME IInv, NEW c \in Others,
           CallStart(c) \/ Wait(c) \/ WaitAgain(c)
    PROVE  IInv' /\ ~(at[c] \in {"starts", "startWoken"} /\ at'[c] = "idle")
<1> USE DEF IInv, Phase, Barred, Bits, CallStart, Wait, WaitAgain,
        Become, fields, thread, starts, history
<1>1. Bits' /\ Phase' /\ Barred'
  OBVIOUS
<1>2. at' \in [Others -> Ats]
  BY DEF Ats
<1>3. NoneLeftWaiting'
  BY DEF NoneLeftWaiting
<1>4. Starting'
  <2>1. UNCHANGED <<runs, failures, running, isInFinish>>
    BY DEF starts
  <2>2. CASE CallStart(c)
    <3>1. ticket' = [ticket EXCEPT ![c] =
                         IF running /\ ~isInFinish THEN -1 ELSE runs]
      BY <2>2
    <3>2. ticket' \in [Others -> Int]
      BY <3>1 DEF Starting
    <3>3. ASSUME NEW b \in Others, b # c
          PROVE  ticket'[b] = ticket[b] /\ at'[b] = at[b]
      BY <2>2, <3>1, <3>3 DEF Starting
    <3>4. ticket'[c] = (IF running /\ ~isInFinish THEN -1 ELSE runs)
          /\ at'[c] = "starts"
      BY <2>2, <3>1 DEF Starting
    <3>5. ticket'[c] <= runs /\ (ticket'[c] < runs \/ ~running \/ isInFinish)
      BY <3>4 DEF Starting
    <3> QED
      BY <2>1, <3>2, <3>3, <3>4, <3>5 DEF Starting
  <2>3. CASE ticket' = ticket
    BY <2>1, <2>3 DEF Starting
  <2> QED
    BY <2>2, <2>3
<1>5. ~(at[c] \in {"starts", "startWoken"} /\ at'[c] = "idle")
  OBVIOUS
<1> QED
  BY <1>1, <1>2, <1>3, <1>4, <1>5

\* Steps of the thread, and exit(), leave the other threads where they are,
\* except for the end of finish().
ThreadOrExit ==
    \/ ThreadStep \/ CallExec \/ CustomLoop \/ NestedLoop \/ ExitInnermost
    \/ \E code \in Codes : Exit(code)

LEMMA ThreadInv ==
    ASSUME IInv, ThreadOrExit
    PROVE  IInv' /\ \A c \in Others :
               ~(at[c] \in {"starts", "startWoken"} /\ at'[c] = "idle")
<1> USE DEF IInv
<1>1. CASE UNCHANGED <<others, starts, running, isInFinish>>
  <2>1. Bits' /\ Phase' /\ Barred'
    <3> USE <1>1 DEF Bits, Phase, Barred, GoTo, fields, thread, history
    <3>1. CASE StartRoutine \/ CreateEventDispatcher
      BY <3>1 DEF StartRoutine, CreateEventDispatcher
    <3>2. CASE ExecLoop
      BY <3>2 DEF ExecLoop, Enter
    <3>3. CASE CustomLoop \/ NestedLoop
      BY <3>3 DEF CustomLoop, NestedLoop, Enter
    <3>4. CASE LeaveLoop
      BY <3>4 DEF LeaveLoop
    <3>5. CASE PopLoop
      <4>1. pc' \in {"execEnd", "loop", "run"}
        BY <3>5 DEF PopLoop
      <4> QED
        BY <3>5, <4>1 DEF PopLoop
    <3>6. CASE CallExec
      <4>1. /\ pc = "run" /\ pc' \in {"run", "exec"}
            /\ ~quitNow' /\ ~exited' /\ ~barred'
            /\ UNCHANGED <<running, isInFinish>>
        BY <3>6 DEF CallExec
      <4>2. /\ quitNow' \in BOOLEAN /\ exited' \in BOOLEAN
            /\ barred' \in BOOLEAN
        BY <3>6 DEF CallExec
      <4> QED
        BY <4>1, <4>2
    <3>7. CASE ExecReturns
      <4>1. /\ pc = "execEnd" /\ pc' = "run"
            /\ UNCHANGED <<running, isInFinish, barred, quitNow>>
        BY <3>7 DEF ExecReturns
      <4>2. exited' \in BOOLEAN
        BY <3>7 DEF ExecReturns
      <4> QED
        BY <4>1, <4>2
    <3>8. CASE RunReturns \/ DetachDispatcher \/ DeleteDispatcher
      BY <3>8 DEF RunReturns, DetachDispatcher, DeleteDispatcher
    <3>9. CASE ExitInnermost
      BY <3>9 DEF ExitInnermost
    <3>10. CASE \E code \in Codes : Exit(code)
      BY <3>10 DEF Exit, Asked
    <3>11. CASE Finish \/ End
      BY <3>11 DEF Finish, End
    <3> QED
      BY <3>1, <3>2, <3>3, <3>4, <3>5, <3>6, <3>7, <3>8, <3>9, <3>10, <3>11
         DEF ThreadOrExit, ThreadStep
  <2>2. UNCHANGED <<at, ticket, runs, failures>>
    BY <1>1 DEF others, starts
  <2>3. at' \in [Others -> Ats] /\ NoneLeftWaiting' /\ Starting'
    BY <1>1, <2>2 DEF NoneLeftWaiting, Starting
  <2>4. \A c \in Others :
            ~(at[c] \in {"starts", "startWoken"} /\ at'[c] = "idle")
    BY <2>2
  <2> QED
    BY <2>1, <2>2, <2>3, <2>4
<1>2. CASE Finish
  BY <1>2 DEF Finish, Bits, Phase, Barred, NoneLeftWaiting, Starting, GoTo,
     others, starts, history
<1>3. CASE End
  <2> USE <1>3 DEF End, GoTo, WakeAll, history
  <2>1. Bits' /\ Phase' /\ Barred'
    BY DEF Bits, Phase, Barred
  <2>2. at' \in [Others -> Ats] /\ NoneLeftWaiting'
    BY DEF Ats, NoneLeftWaiting
  <2>3. Starting'
    <3>1. /\ UNCHANGED <<runs, failures, ticket>>
          /\ ~running' /\ ~isInFinish'
      BY DEF starts
    <3>2. \A c \in Others : at'[c] # "startWaits"
      OBVIOUS
    <3> QED
      BY <3>1, <3>2 DEF Starting
  <2>4. \A c \in Others :
            ~(at[c] \in {"starts", "startWoken"} /\ at'[c] = "idle")
    OBVIOUS
  <2> QED
    BY <2>1, <2>2, <2>3, <2>4
<1> QED
  BY <1>1, <1>2, <1>3
     DEF ThreadOrExit, ThreadStep, StartRoutine, CreateEventDispatcher, ExecLoop,
         LeaveLoop, PopLoop, ExecReturns, RunReturns, DetachDispatcher,
         DeleteDispatcher, CallExec, CustomLoop, NestedLoop, ExitInnermost, Exit,
         fields

\* A step of the specification, as the lemmas split it.
LEMMA StepCases ==
    ASSUME [Next]_vars
    PROVE  \/ UNCHANGED vars
           \/ ThreadOrExit
           \/ \E c \in Others : LockedStart(c) \/ StartAfterWait(c)
           \/ \E c \in Others : CallStart(c) \/ Wait(c) \/ WaitAgain(c)
BY DEF Next, Resume, ThreadOrExit

LEMMA NextInv == IInv /\ [Next]_vars => IInv'
<1> SUFFICES ASSUME IInv, [Next]_vars PROVE IInv'
  OBVIOUS
<1>1. CASE UNCHANGED vars
  BY <1>1 DEF IInv, Bits, Phase, NoneLeftWaiting, Starting, Barred, vars, fields,
     thread, others, starts, history
<1>2. CASE ThreadOrExit
  BY <1>2, ThreadInv
<1>3. CASE \E c \in Others : LockedStart(c) \/ StartAfterWait(c)
  BY <1>3, StartInv
<1>4. CASE \E c \in Others : CallStart(c) \/ Wait(c) \/ WaitAgain(c)
  BY <1>4, OthersInv
<1> QED
  BY <1>1, <1>2, <1>3, <1>4, StepCases

LEMMA Invariance == Spec => []IInv
<1> QED
  BY InitInv, NextInv, PTL DEF Spec

\* start() finds that there is no thread exactly when the last one has left
\* finish().
THEOREM NeverTwoThreads == Spec => []OneThread
<1>1. IInv => OneThread
  BY DEF IInv, Phase, OneThread
<1> QED
  BY <1>1, Invariance, PTL

\* The broadcast at the end of finish() reaches every wait() and start() that
\* is in the condition variable.
THEOREM WaitersAreReleased == Spec => []NoneLeftWaiting
<1>1. IInv => NoneLeftWaiting
  BY DEF IInv
<1> QED
  BY <1>1, Invariance, PTL

\* Every start() of a thread that is not running, or still in finish(), has
\* begun a run by the time it returns, or another one has, or the thread could
\* not be created: then the fields say again that it is not running.
THEOREM StartIsNotLost == Spec => StartTakesEffect
<1>1. ASSUME IInv, [Next]_vars, NEW c \in Others,
             at[c] \in {"starts", "startWoken"} /\ at'[c] = "idle"
      PROVE  TakesEffect(c)
  <2>1. CASE UNCHANGED vars
    BY <1>1, <2>1 DEF vars, others
  <2>2. CASE ThreadOrExit
    BY <1>1, <2>2, ThreadInv
  <2>3. ASSUME NEW b \in Others, LockedStart(b) \/ StartAfterWait(b)
        PROVE  TakesEffect(c)
    <3>1. CASE b = c
      BY <1>1, <2>3, <3>1, StartInv
    <3>2. CASE b # c
      BY <1>1, <2>3, <3>2
         DEF LockedStart, StartAfterWait, Become, IInv
    <3> QED
      BY <3>1, <3>2
  <2>4. ASSUME NEW b \in Others,
               CallStart(b) \/ Wait(b) \/ WaitAgain(b)
        PROVE  TakesEffect(c)
    <3>1. CASE b = c
      BY <1>1, <2>4, <3>1, OthersInv
    <3>2. CASE b # c
      BY <1>1, <2>4, <3>2
         DEF CallStart, Wait, WaitAgain, Become, IInv
    <3> QED
      BY <3>1, <3>2
  <2> QED
    BY <1>1, <2>1, <2>2, <2>3, <2>4, StepCases
<1>2. IInv /\ [Next]_vars =>
          [\A c \in Others :
              at[c] \in {"starts", "startWoken"} /\ at'[c] = "idle"
                  => TakesEffect(c)]_vars
  BY <1>1
<1> QED
  BY <1>2, Invariance, PTL DEF Spec, StartTakesEffect, TakesEffect

-----------------------------------------------------------------------------
\* The event loops of the thread and its dispatcher.

Loops == [exit : BOOLEAN, code : Codes \cup {NoCode}, by : {"thread", "custom"}]

\* Only the outermost loop can be that of QThread::exec.
Nesting ==
    /\ eventLoops \in Seq(Loops)
    /\ eventLoops # <<>> <=> pc \in {"loop", "left"}
    /\ \A i \in 1..Len(eventLoops) : i > 1 => eventLoops[i].by = "custom"

\* The thread has its dispatcher from before run() until after it.
Equipped ==
    pc \in {"run", "exec", "loop", "left", "execEnd", "finish"}
        => dispatcher = runs /\ alive = runs

LInv == Nesting /\ Equipped

LEMMA InitLInv == Init => LInv
BY DEF Init, LInv, Nesting, Equipped, Loops

\* A loop is entered unless quitNow.
LEMMA EnterLoop ==
    ASSUME Nesting, NEW by \in {"thread", "custom"}, NEW back,
           pc \in {"run", "exec", "loop"}, by = "thread" => eventLoops = <<>>,
           back \in {"loop", "run", "execEnd"}, back = "loop" <=> pc = "loop",
           Enter(by, back)
    PROVE  /\ Nesting' /\ pc' \in {"loop", "run", "execEnd"}
           /\ Len(eventLoops') > Len(eventLoops)
                  => ~quitNow /\ eventLoops'[Len(eventLoops')].by = by
<1>1. CASE quitNow
  <2>1. pc' = back /\ UNCHANGED eventLoops
    BY <1>1 DEF Enter, GoTo
  <2> QED
    BY <2>1 DEF Nesting
<1>2. CASE ~quitNow
  <2>1. pc' = "loop" /\ eventLoops' = Append(eventLoops, Loop(by))
    BY <1>2 DEF Enter, GoTo
  <2>2. Loop(by) \in Loops /\ Loop(by).by = by
    BY DEF Loop, Loops
  <2>3. eventLoops' \in Seq(Loops) /\ Len(eventLoops') = Len(eventLoops) + 1
    BY <2>1, <2>2 DEF Nesting
  <2>4. \A i \in 1..Len(eventLoops') :
            eventLoops'[i] = IF i = Len(eventLoops') THEN Loop(by)
                             ELSE eventLoops[i]
    BY <2>1, <2>2, <2>3 DEF Nesting
  <2>5. \A i \in 1..Len(eventLoops') : i > 1 => eventLoops'[i].by = "custom"
    BY <2>2, <2>3, <2>4 DEF Nesting
  <2>6. eventLoops' # <<>>
    BY <2>3 DEF Nesting
  <2>7. eventLoops'[Len(eventLoops')].by = by
    BY <2>2, <2>3, <2>4 DEF Nesting
  <2> QED
    BY <1>2, <2>1, <2>3, <2>5, <2>6, <2>7 DEF Nesting
<1> QED
  BY <1>1, <1>2

\* exit() changes loops and leaves their number.
LEMMA MarkLoops ==
    ASSUME Nesting, UNCHANGED pc, NEW S \in SUBSET DOMAIN eventLoops,
           NEW code \in Codes,
           eventLoops' = [i \in DOMAIN eventLoops |->
               IF i \in S THEN Told(eventLoops[i], code) ELSE eventLoops[i]]
    PROVE  Nesting' /\ Len(eventLoops') = Len(eventLoops)
<1>1. \A i \in 1..Len(eventLoops) : eventLoops[i] \in Loops
  BY DEF Nesting
<1>2. \A i \in 1..Len(eventLoops) :
          eventLoops'[i] \in Loops /\ eventLoops'[i].by = eventLoops[i].by
  BY <1>1 DEF Nesting, Loops, Told
<1>3. DOMAIN eventLoops' = 1..Len(eventLoops) /\ Len(eventLoops) \in Nat
  BY DEF Nesting
<1>4. eventLoops' \in Seq(Loops) /\ Len(eventLoops') = Len(eventLoops)
  BY <1>2, <1>3 DEF Nesting
<1>5. eventLoops' # <<>> <=> eventLoops # <<>>
  BY <1>4 DEF Nesting
<1> QED
  BY <1>2, <1>4, <1>5 DEF Nesting

\* A loop is added only when QThread::exec or a handler finds quitNow unset.
PushedRightly ==
    Len(eventLoops') > Len(eventLoops)
        => eventLoops'[Len(eventLoops')].by = "thread" \/ ~barred

LEMMA NestingStep ==
    ASSUME IInv, LInv, ConstantsAssumption, Next
    PROVE  Nesting' /\ PushedRightly
<1> USE DEF LInv
<1>1. CASE UNCHANGED <<pc, eventLoops>>
  BY <1>1 DEF Nesting, PushedRightly
<1>2. CASE /\ UNCHANGED eventLoops
         /\ pc \notin {"loop", "left"} /\ pc' \notin {"loop", "left"}
  BY <1>2 DEF Nesting, PushedRightly
<1>3. CASE ExecLoop
  <2>1. Enter("thread", "execEnd") /\ pc = "exec" /\ eventLoops = <<>>
    BY <1>3 DEF ExecLoop, Nesting
  <2> QED
    BY <2>1, EnterLoop DEF PushedRightly
<1>4. CASE CustomLoop
  <2>1. Enter("custom", "run") /\ pc = "run"
    BY <1>4 DEF CustomLoop
  <2>2. quitNow \/ ~barred
    BY <2>1 DEF IInv, Barred
  <2> QED
    BY <2>1, <2>2, EnterLoop DEF PushedRightly
<1>5. CASE NestedLoop
  <2>1. Enter("custom", "loop") /\ pc = "loop"
    BY <1>5 DEF NestedLoop
  <2>2. quitNow \/ ~barred
    BY <2>1 DEF IInv, Barred
  <2> QED
    BY <2>1, <2>2, EnterLoop DEF PushedRightly
<1>6. CASE ExitInnermost
  <2>1. /\ Top \in DOMAIN eventLoops /\ 0 \in Codes /\ UNCHANGED pc
        /\ eventLoops' = [eventLoops EXCEPT ![Top] = Told(eventLoops[Top], 0)]
    BY <1>6 DEF ExitInnermost, Nesting, Top, thread, ConstantsAssumption
  <2>2. eventLoops' = [i \in DOMAIN eventLoops |->
                          IF i \in {Top} THEN Told(eventLoops[i], 0)
                          ELSE eventLoops[i]]
    BY <2>1
  <2>3. Nesting' /\ Len(eventLoops') = Len(eventLoops)
    BY <2>1, <2>2, MarkLoops
  <2> QED
    BY <2>3 DEF PushedRightly, Nesting
<1>7. ASSUME NEW code \in Codes, Exit(code) PROVE Nesting' /\ PushedRightly
  <2>1. UNCHANGED pc
    BY <1>7 DEF Exit, thread
  <2>2. CASE dispatcher = 0
    <3>1. UNCHANGED eventLoops
      BY <1>7, <2>2 DEF Exit, ExitLoops
    <3> QED
      BY <2>1, <3>1 DEF Nesting, PushedRightly
  <2>3. CASE dispatcher # 0
    <3>1. eventLoops' = [i \in DOMAIN eventLoops |-> Told(eventLoops[i], code)]
      BY <1>7, <2>3 DEF Exit, ExitLoops
    <3>2. eventLoops' = [i \in DOMAIN eventLoops |->
                            IF i \in DOMAIN eventLoops
                            THEN Told(eventLoops[i], code) ELSE eventLoops[i]]
      BY <3>1
    <3>3. Nesting' /\ Len(eventLoops') = Len(eventLoops)
      BY <2>1, <3>2, MarkLoops
    <3> QED
      BY <3>3 DEF PushedRightly, Nesting
  <2> QED
    BY <2>2, <2>3
<1>8. CASE LeaveLoop
  <2>1. UNCHANGED eventLoops /\ pc = "loop" /\ pc' = "left"
    BY <1>8 DEF LeaveLoop, GoTo
  <2> QED
    BY <2>1 DEF Nesting, PushedRightly
<1>9. CASE PopLoop
  <2>1. /\ pc = "left" /\ Top \in Nat \ {0}
        /\ eventLoops' = SubSeq(eventLoops, 1, Top - 1)
    BY <1>9 DEF PopLoop, Nesting, Top
  <2>2. /\ eventLoops' \in Seq(Loops) /\ Len(eventLoops') = Top - 1
        /\ \A i \in 1..(Top - 1) : eventLoops'[i] = eventLoops[i]
    <3> DEFINE n == Top - 1
    <3>1. /\ n \in Nat /\ eventLoops' = SubSeq(eventLoops, 1, n)
          /\ \A i \in 1..n : eventLoops[i] \in Loops
      BY <2>1 DEF Nesting, Top
    <3> HIDE DEF n
    <3>2. /\ eventLoops' \in Seq(Loops)
          /\ Len(eventLoops') = IF 1 <= n THEN n - 1 + 1 ELSE 0
          /\ \A i \in 1..(n - 1 + 1) : eventLoops'[i] = eventLoops[1 + i - 1]
      BY <3>1, SubSeqProperties
    <3>3. Len(eventLoops') = n /\ \A i \in 1..n : eventLoops'[i] = eventLoops[i]
      BY <3>1, <3>2
    <3> QED
      BY <3>2, <3>3 DEF n
  <2>3. Top > 1 => eventLoops[Top].by = "custom"
    BY <2>1 DEF Nesting, Top
  <2>4. CASE Top > 1
    <3>1. pc' = "loop"
      BY <1>9, <2>3, <2>4 DEF PopLoop, GoTo
    <3>3. eventLoops' # <<>>
      BY <2>2, <2>4 DEF Nesting, Top
    <3>2. \A i \in 1..Len(eventLoops') : i > 1 => eventLoops'[i].by = "custom"
      BY <2>2 DEF Nesting, Top
    <3> QED
      BY <2>1, <2>2, <3>1, <3>2, <3>3 DEF Nesting, PushedRightly, Top
  <2>5. CASE Top = 1
    <3>1. pc' \in {"execEnd", "run"}
      BY <1>9, <2>5 DEF PopLoop, GoTo
    <3>2. eventLoops' = <<>>
      BY <2>2, <2>5
    <3> QED
      BY <2>1, <2>2, <2>5, <3>1, <3>2 DEF Nesting, PushedRightly, Top
  <2> QED
    BY <2>1, <2>4, <2>5
<1>10. ASSUME NEW c \in Others, LockedStart(c) \/ StartAfterWait(c)
       PROVE  \/ UNCHANGED <<pc, eventLoops>>
              \/ /\ UNCHANGED eventLoops
                 /\ pc \notin {"loop", "left"} /\ pc' \notin {"loop", "left"}
  BY <1>10 DEF IInv, Phase, LockedStart, StartAfterWait, Begin, Launch,
     FailedLaunch, GoTo, thread
<1>11. ASSUME NEW c \in Others,
              CallStart(c) \/ Wait(c) \/ WaitAgain(c)
       PROVE  UNCHANGED <<pc, eventLoops>>
  BY <1>11 DEF CallStart, Wait, WaitAgain, thread
<1>12. CASE \/ StartRoutine \/ CreateEventDispatcher \/ ExecReturns \/ RunReturns
            \/ Finish \/ DetachDispatcher \/ DeleteDispatcher \/ End \/ CallExec
  <2>1. /\ UNCHANGED eventLoops
        /\ pc \notin {"loop", "left"} /\ pc' \notin {"loop", "left"}
    BY <1>12 DEF StartRoutine, CreateEventDispatcher, ExecReturns, RunReturns,
       Finish, DetachDispatcher, DeleteDispatcher, End, CallExec, GoTo
  <2> QED
    BY <2>1, <1>2
<1> QED
  BY <1>1, <1>2, <1>3, <1>4, <1>5, <1>6, <1>7, <1>8, <1>9, <1>10, <1>11, <1>12
     DEF Next, ThreadStep, Resume

LEMMA EquippedStep ==
    ASSUME IInv, LInv, Next
    PROVE  Equipped'
<1> USE DEF Equipped, LInv, starts
<1>1. CASE ThreadStep
  <2>1. CASE UNCHANGED <<dispatcher, alive, starts>>
             /\ pc \in {"run", "exec", "loop", "left", "execEnd", "finish"}
    BY <2>1
  <2>2. CASE ExecLoop \/ LeaveLoop \/ PopLoop \/ ExecReturns \/ RunReturns
    BY <2>1, <2>2 DEF ExecLoop, LeaveLoop, PopLoop, ExecReturns, RunReturns
  <2>3. CASE StartRoutine \/ CreateEventDispatcher
    BY <2>3 DEF StartRoutine, CreateEventDispatcher, GoTo
  <2>4. CASE Finish \/ DetachDispatcher \/ DeleteDispatcher \/ End
    BY <2>4 DEF Finish, DetachDispatcher, DeleteDispatcher, End, GoTo
  <2> QED
    BY <1>1, <2>2, <2>3, <2>4 DEF ThreadStep
<1>2. CASE CallExec \/ CustomLoop \/ NestedLoop
  <2>1. UNCHANGED <<dispatcher, alive, starts>> /\ pc \in {"run", "loop"}
    BY <1>2 DEF CallExec, CustomLoop, NestedLoop
  <2> QED
    BY <2>1
<1>3. CASE ExitInnermost \/ \E code \in Codes : Exit(code)
  BY <1>3 DEF ExitInnermost, Exit, thread
<1>4. ASSUME NEW c \in Others, LockedStart(c) \/ StartAfterWait(c)
      PROVE  Equipped'
  BY <1>4 DEF LockedStart, StartAfterWait, Begin, Launch, FailedLaunch, GoTo,
     thread
<1>5. ASSUME NEW c \in Others,
             CallStart(c) \/ Wait(c) \/ WaitAgain(c)
      PROVE  Equipped'
  BY <1>5 DEF CallStart, Wait, WaitAgain, thread
<1> QED
  BY <1>1, <1>2, <1>3, <1>4, <1>5 DEF Next, Resume

LEMMA LInvariance == Spec => [](IInv /\ LInv)
<1>1. IInv /\ LInv /\ [Next]_vars => LInv'
  <2>1. CASE UNCHANGED vars
    BY <2>1 DEF LInv, Nesting, Equipped, vars, thread, starts
  <2>2. ASSUME IInv, LInv, Next PROVE LInv'
    BY <2>2, NestingStep, EquippedStep, ConstantsAssumption DEF LInv
  <2> QED
    BY <2>1, <2>2
<1> QED
  BY <1>1, InitInv, InitLInv, NextInv, PTL DEF Spec

\* exit() finds the dispatcher of the run that the loops in eventLoops are of.
THEOREM LoopsRunOnTheirDispatcher == Spec => []LoopsHaveDispatcher
<1>1. IInv /\ LInv => LoopsHaveDispatcher
  BY DEF LInv, Nesting, Equipped, LoopsHaveDispatcher
<1> QED
  BY <1>1, LInvariance, PTL

\* After exit() no loop is entered that QThread::exec did not enter, however
\* the run of the thread and its handlers go on.
THEOREM ExitBarsLoops == Spec => NoLoopAfterExit
<1>1. IInv /\ LInv /\ [Next]_vars =>
          [Len(eventLoops') > Len(eventLoops)
              => eventLoops'[Len(eventLoops')].by = "thread" \/ ~barred]_vars
  <2>1. ASSUME IInv, LInv, Next PROVE PushedRightly
    BY <2>1, NestingStep, ConstantsAssumption
  <2> QED
    BY <2>1 DEF PushedRightly
<1> QED
  BY <1>1, LInvariance, PTL DEF Spec, NoLoopAfterExit

-----------------------------------------------------------------------------
\* What QThread::exec returns.

\* Where a code is that QThread::exec may still return, it is one that exit()
\* was given in this run: in returnCode before the loop, in the loop, in the
\* local variable behind it.
Coded ==
    /\ exited => returnCode \in asked
    /\ \A i \in 1..Len(eventLoops) :
           eventLoops[i].by = "thread" /\ eventLoops[i].exit
               => eventLoops[i].code \in asked
    /\ pc = "left" /\ eventLoops[Top].by = "thread" => local \in asked
    /\ pc = "execEnd" => local \in asked \cup {-1}
    /\ ExecReturnsCode

\* Entering a loop, or finding quitNow set, brings no code.
LEMMA EnterCoded ==
    ASSUME LInv, Coded, NEW by \in {"thread", "custom"},
           NEW back \in {"loop", "run", "execEnd"}, pc # "left",
           Enter(by, back), UNCHANGED <<exited, returnCode>>
    PROVE  Coded'
<1>1. UNCHANGED <<asked, result>>
  BY DEF Enter, history
<1>2. CASE quitNow
  BY <1>1, <1>2 DEF Enter, GoTo, Coded, ExecReturnsCode
<1>3. CASE ~quitNow
  <2>1. pc' = "loop" /\ eventLoops' = Append(eventLoops, Loop(by))
    BY <1>3 DEF Enter, GoTo
  <2>2. ~Loop(by).exit /\ Loop(by) \in Loops
    BY DEF Loop, Loops
  <2>3. \A i \in 1..Len(eventLoops') :
            \/ i \in 1..Len(eventLoops) /\ eventLoops'[i] = eventLoops[i]
            \/ eventLoops'[i] = Loop(by)
    BY <2>1, <2>2 DEF LInv, Nesting
  <2> QED
    BY <1>1, <2>1, <2>2, <2>3 DEF Coded, ExecReturnsCode
<1> QED
  BY <1>2, <1>3

\* exit() gives its code to all the loops, or to returnCode only.
LEMMA ExitCoded ==
    ASSUME LInv, Coded, NEW code \in Codes, Exit(code)
    PROVE  Coded'
<1>1. /\ returnCode' = code /\ asked' = asked \cup {code}
      /\ UNCHANGED <<pc, local, result>>
  BY DEF Exit, Asked, thread
<1>2. DOMAIN eventLoops = 1..Len(eventLoops) /\ Len(eventLoops) \in Nat
  BY DEF LInv, Nesting
<1>3. /\ Len(eventLoops') = Len(eventLoops)
      /\ \A i \in 1..Len(eventLoops) :
             /\ eventLoops'[i].by = eventLoops[i].by
             /\ eventLoops'[i].code = code \/ eventLoops'[i] = eventLoops[i]
  <2>1. CASE dispatcher = 0
    BY <2>1 DEF Exit, ExitLoops
  <2>2. CASE dispatcher # 0
    <3>1. eventLoops' = [i \in DOMAIN eventLoops |-> Told(eventLoops[i], code)]
      BY <2>2 DEF Exit, ExitLoops
    <3>2. Len(eventLoops') = Len(eventLoops)
      BY <1>2, <3>1
    <3> QED
      BY <1>2, <3>1, <3>2 DEF Told
  <2> QED
    BY <2>1, <2>2
<1>4. pc = "left" => Top \in 1..Len(eventLoops) /\ Top' = Top
  BY <1>2, <1>3 DEF LInv, Nesting, Top
<1> QED
  BY <1>1, <1>3, <1>4 DEF Coded, ExecReturnsCode

\* No step of the thread or of others brings a code of another run.
LEMMA CodedStep ==
    ASSUME IInv, LInv, Coded, Next
    PROVE  Coded'
<1>1. ASSUME UNCHANGED <<exited, returnCode, eventLoops, local, asked, result>>,
             pc' \notin {"left", "execEnd"} \/ pc' = pc
      PROVE  Coded'
  BY <1>1 DEF Coded, ExecReturnsCode, Top
<1>2. CASE ExecLoop
  <2>1. Enter("thread", "execEnd") /\ pc = "exec"
    BY <1>2 DEF ExecLoop
  <2> QED
    BY <1>2, <2>1, EnterCoded DEF ExecLoop, fields
<1>3. CASE CustomLoop
  <2>1. Enter("custom", "run") /\ pc = "run"
    BY <1>3 DEF CustomLoop
  <2> QED
    BY <1>3, <2>1, EnterCoded DEF CustomLoop, fields
<1>4. CASE NestedLoop
  <2>1. Enter("custom", "loop") /\ pc = "loop"
    BY <1>4 DEF NestedLoop
  <2> QED
    BY <1>4, <2>1, EnterCoded DEF NestedLoop, fields
<1>5. ASSUME NEW code \in Codes, Exit(code) PROVE Coded'
  BY <1>5, ExitCoded
<1>6. CASE ExitInnermost
  <2>1. /\ Top \in DOMAIN eventLoops /\ eventLoops[Top].by = "custom"
        /\ eventLoops' = [eventLoops EXCEPT ![Top] = Told(eventLoops[Top], 0)]
        /\ pc = "loop"
        /\ UNCHANGED <<exited, returnCode, pc, local, asked, result>>
    BY <1>6 DEF ExitInnermost, LInv, Nesting, Top, fields, thread, history
  <2>2. /\ Len(eventLoops') = Len(eventLoops)
        /\ \A i \in 1..Len(eventLoops) :
               eventLoops'[i] = eventLoops[i] \/ eventLoops'[i].by = "custom"
    BY <2>1 DEF LInv, Nesting, Told
  <2> QED
    BY <2>1, <2>2 DEF Coded, ExecReturnsCode
<1>7. CASE LeaveLoop
  <2>1. /\ Top \in 1..Len(eventLoops) /\ eventLoops[Top].exit
        /\ local' = eventLoops[Top].code /\ pc' = "left"
        /\ UNCHANGED <<exited, returnCode, eventLoops, asked, result>>
    BY <1>7 DEF LeaveLoop, LInv, Nesting, Top, GoTo, fields, history
  <2> QED
    BY <2>1 DEF Coded, ExecReturnsCode, Top
<1>8. CASE PopLoop
  <2>1. /\ pc = "left" /\ Top \in Nat \ {0}
        /\ eventLoops' = SubSeq(eventLoops, 1, Top - 1)
        /\ eventLoops[Top].by = "thread" => local \in asked
        /\ UNCHANGED <<exited, returnCode, local, asked, result>>
    BY <1>8 DEF PopLoop, LInv, Nesting, Top, fields, history, Coded
  <2>2. pc' # "left" /\ (pc' = "execEnd" => eventLoops[Top].by = "thread")
    BY <1>8 DEF PopLoop, GoTo
  <2>3. \A i \in 1..Len(eventLoops') :
            i \in 1..Len(eventLoops) /\ eventLoops'[i] = eventLoops[i]
    BY <2>1 DEF LInv, Nesting, Top
  <2> QED
    BY <2>1, <2>2, <2>3 DEF Coded, ExecReturnsCode
<1>9. CASE ExecReturns
  <2>1. /\ ~exited' /\ result' = local /\ pc = "execEnd" /\ pc' = "run"
        /\ UNCHANGED <<eventLoops, local, asked>>
    BY <1>9 DEF ExecReturns, GoTo
  <2> QED
    BY <2>1 DEF Coded, ExecReturnsCode
<1>10. CASE CallExec
  BY <1>10 DEF CallExec, Coded, ExecReturnsCode, GoTo
<1>11. ASSUME NEW c \in Others, LockedStart(c) \/ StartAfterWait(c) PROVE Coded'
  <2>1. CASE UNCHANGED <<fields, thread, starts, history>> /\ UNCHANGED eventLoops
    BY <1>1, <2>1 DEF fields, thread, history
  <2>2. CASE ~running /\ (Launch \/ FailedLaunch) /\ UNCHANGED eventLoops
    <3>1. eventLoops = <<>>
      BY <2>2 DEF IInv, Phase, LInv, Nesting
    <3>2. ~exited' /\ pc' \in {"start", "none"} /\ result' = NoCode
      BY <2>2 DEF Launch, FailedLaunch, Prepared, GoTo, IInv, Phase
    <3> QED
      BY <2>2, <3>1, <3>2 DEF Coded, ExecReturnsCode
  <2> QED
    BY <1>11, <2>1, <2>2 DEF LockedStart, StartAfterWait, Begin
<1>12. ASSUME NEW c \in Others, CallStart(c) \/ Wait(c) \/ WaitAgain(c)
       PROVE  Coded'
  BY <1>1, <1>12 DEF CallStart, Wait, WaitAgain, fields, thread, history
<1>13. CASE \/ StartRoutine \/ CreateEventDispatcher \/ RunReturns \/ Finish
            \/ DetachDispatcher \/ DeleteDispatcher \/ End
  BY <1>1, <1>13 DEF StartRoutine, CreateEventDispatcher, RunReturns, Finish,
     DetachDispatcher, DeleteDispatcher, End, GoTo, fields, history
<1> QED
  BY <1>2, <1>3, <1>4, <1>5, <1>6, <1>7, <1>8, <1>9, <1>10, <1>11, <1>12, <1>13
     DEF Next, ThreadStep, Resume

\* QThread::exec returns a code that exit() was given in this run of the
\* thread, never one of an earlier run, or -1.
THEOREM ExecReturnsWhatWasAsked == Spec => []ExecReturnsCode
<1>1. Init => Coded
  BY DEF Init, Coded, ExecReturnsCode
<1>2. IInv /\ LInv /\ Coded /\ [Next]_vars => Coded'
  <2>1. CASE UNCHANGED vars
    BY <2>1 DEF Coded, ExecReturnsCode, Top, vars, fields, thread, history
  <2> QED
    BY <2>1, CodedStep
<1>3. Coded => ExecReturnsCode
  BY DEF Coded
<1> QED
  BY <1>1, <1>2, <1>3, LInvariance, PTL DEF Spec

-----------------------------------------------------------------------------
\* FutexMutex: the inductive invariant.

\* The invariants hold together: who owns the mutex is known from the value
\* only because there is one owner, and a sleeper is seen only because every
\* lockInternal that takes the mutex leaves the value 3.
FutexInv ==
    /\ TypeOK /\ ValueIsOwnership
    /\ MutualExclusion /\ SleepersAreSeen

\* The initial state satisfies the invariant.
LEMMA FutexInitInv == FutexInit => FutexInv
  BY DEF FutexInit, FutexInv, TypeOK, PCs, Timeouts,
         ValueIsOwnership, MutualExclusion, SleepersAreSeen,
         Owners, Asleep

\* Every step of every thread preserves the invariant.
LEMMA FutexNextInv == FutexInv /\ [FutexNext]_futexVars => FutexInv'
<1> SUFFICES ASSUME FutexInv, [FutexNext]_futexVars PROVE FutexInv'
  OBVIOUS
<1> USE DEF FutexInv, TypeOK, PCs, Timeouts,
            ValueIsOwnership, MutualExclusion,
            SleepersAreSeen, Owners, Asleep, LockGoTo
<1>1. CASE UNCHANGED futexVars
  BY <1>1 DEF futexVars
<1>2. ASSUME NEW t \in Threads, FastTryLock(t) PROVE FutexInv'
  BY <1>2 DEF FastTryLock
<1>3. ASSUME NEW t \in Threads, NEW limit \in {"forever", "fresh"},
             LockInternal(t, limit)
      PROVE  FutexInv'
  BY <1>3 DEF LockInternal
<1>4. ASSUME NEW t \in Threads, Swap(t) PROVE FutexInv'
  BY <1>4 DEF Swap
<1>5. ASSUME NEW t \in Threads, FutexWait(t) PROVE FutexInv'
  BY <1>5 DEF FutexWait
<1>6. ASSUME NEW t \in Threads, StoreUnlocked(t) PROVE FutexInv'
  BY <1>6 DEF StoreUnlocked
<1>7. ASSUME NEW t \in Threads, FutexWake(t) PROVE FutexInv'
  BY <1>7 DEF FutexWake
<1>8. ASSUME NEW t \in Threads, Interrupted(t) PROVE FutexInv'
  BY <1>8 DEF Interrupted
<1>9. ASSUME NEW t \in Threads, TimedOut(t) PROVE FutexInv'
  BY <1>9 DEF TimedOut
<1>10. ASSUME NEW t \in Threads, Unlock(t) PROVE FutexInv'
  BY <1>10 DEF Unlock
<1> QED
  BY <1>1, <1>2, <1>3, <1>4, <1>5, <1>6, <1>7, <1>8, <1>9, <1>10 DEF
         FutexNext, Step

\* So it holds in every state.
LEMMA FutexInvariance == FutexSpec => []FutexInv
<1>1. FutexInv /\ [FutexNext]_futexVars => FutexInv'
  BY FutexNextInv
<1> QED
  BY FutexInitInv, <1>1, PTL DEF FutexSpec

\* The variables have their types, whatever the threads do.
THEOREM FutexTypeCorrect == FutexSpec => []TypeOK
<1>1. FutexInv => TypeOK
  BY DEF FutexInv
<1> QED
  BY FutexInvariance, <1>1, PTL

\* At most one thread is between lock() and unlock(), for any number of them.
THEOREM FutexExclusion == FutexSpec => []MutualExclusion
<1>1. FutexInv => MutualExclusion
  BY DEF FutexInv
<1> QED
  BY FutexInvariance, <1>1, PTL

\* The value tells whether the mutex is owned, and unlockInternal never finds
\* it other than 3: its assertions hold.
THEOREM FutexValueCorrect == FutexSpec => []ValueIsOwnership
<1>1. FutexInv => ValueIsOwnership
  BY DEF FutexInv
<1> QED
  BY FutexInvariance, <1>1, PTL

\* No wake-up is lost: a thread sleeps only while somebody will see it.
THEOREM FutexNoLostWakeUp == FutexSpec => []SleepersAreSeen
<1>1. FutexInv => SleepersAreSeen
  BY DEF FutexInv
<1> QED
  BY FutexInvariance, <1>1, PTL

\* The owner, when there is one, is the abstract holder.
LEMMA FutexHolderIsOwner ==
  ASSUME MutualExclusion
  PROVE  /\ \A t \in Owners : Holder = t
         /\ Owners = {} => Holder = NoThread
  BY DEF MutualExclusion, Holder, Owners

\* And in the next state.
LEMMA FutexHolderIsOwnerNext ==
  ASSUME MutualExclusion'
  PROVE  /\ \A t \in Owners' : Holder' = t
         /\ Owners' = {} => Holder' = NoThread
  BY DEF MutualExclusion, Holder, Owners

\* A step that leaves the owners alone is a stuttering step of the mutex, one
\* that adds an owner acquires it, one that removes the owner releases it.
LEMMA FutexStepSimulation ==
  ASSUME FutexInv, FutexInv', [FutexNext]_futexVars
  PROVE  [Mutex!Next]_Holder
<1> USE FutexHolderIsOwner, FutexHolderIsOwnerNext DEF FutexInv
<1>1. ASSUME Owners' = Owners PROVE Holder' = Holder
  <2>1. CASE Owners = {}
    BY <1>1, <2>1
  <2>2. CASE Owners # {}
    BY <1>1, <2>2
  <2> QED
    BY <2>1, <2>2
<1>2. ASSUME NEW t \in Threads, Owners = {}, Owners' = {t}
      PROVE  Mutex!Acquire(t)
  BY <1>2 DEF Mutex!Acquire
<1>3. ASSUME NEW t \in Threads, Owners = {t}, Owners' = {}
      PROVE  Mutex!Release(t)
  BY <1>3 DEF Mutex!Release
<1> USE DEF TypeOK, PCs, ValueIsOwnership, LockGoTo
<1>4. CASE UNCHANGED futexVars
  BY <1>1, <1>4 DEF futexVars, Owners
<1>5. ASSUME NEW t \in Threads, FastTryLock(t)
      PROVE  [Mutex!Next]_Holder
  <2>1. Owners = {} /\ Owners' = {t}
    BY <1>5 DEF FastTryLock, Owners
  <2> QED
    BY <1>2, <2>1 DEF Mutex!Next
<1>6. ASSUME NEW t \in Threads, Swap(t)
      PROVE  [Mutex!Next]_Holder
  <2>1. CASE d = 0 /\ LockGoTo(t, "holds")
    <3>1. Owners = {} /\ Owners' = {t}
      BY <1>6, <2>1 DEF Swap, Owners
    <3> QED
      BY <1>2, <3>1 DEF Mutex!Next
  <2>2. CASE LockGoTo(t, "wait") \/ LockGoTo(t, "idle")
    <3>1. Owners' = Owners
      BY <1>6, <2>2 DEF Swap, Owners
    <3> QED
      BY <1>1, <3>1
  <2> QED
    BY <1>6, <2>1, <2>2 DEF Swap
<1>7. ASSUME NEW t \in Threads, Unlock(t)
      PROVE  [Mutex!Next]_Holder
  <2>1. CASE d = 1
    <3>1. Owners = {t} /\ Owners' = {}
      BY <1>7, <2>1 DEF Unlock, Owners, MutualExclusion
    <3> QED
      BY <1>3, <3>1 DEF Mutex!Next
  <2>2. CASE d # 1
    <3>1. Owners' = Owners
      BY <1>7, <2>2 DEF Unlock, Owners
    <3> QED
      BY <1>1, <3>1
  <2> QED
    BY <2>1, <2>2
<1>8. ASSUME NEW t \in Threads, StoreUnlocked(t)
      PROVE  [Mutex!Next]_Holder
  <2>1. Owners = {t} /\ Owners' = {}
    BY <1>8 DEF StoreUnlocked, Owners, MutualExclusion
  <2> QED
    BY <1>3, <2>1 DEF Mutex!Next
<1>9. ASSUME NEW t \in Threads,
             \/ \E limit \in {"forever", "fresh"} : LockInternal(t, limit)
             \/ FutexWait(t) \/ FutexWake(t)
             \/ Interrupted(t) \/ TimedOut(t)
      PROVE  [Mutex!Next]_Holder
  <2>1. Owners' = Owners
    BY <1>9 DEF LockInternal, FutexWait, FutexWake,
           Interrupted, TimedOut, Owners, Asleep
  <2> QED
    BY <1>1, <2>1
<1> QED
  BY <1>4, <1>5, <1>6, <1>7, <1>8, <1>9 DEF FutexNext, Step

\* The futex mutex implements the abstract one.
THEOREM FutexImplementation == FutexSpec => ImplementsMutex
<1>1. FutexInit => Mutex!Init
  BY DEF FutexInit, Mutex!Init, Holder, Owners
<1>2. FutexInv /\ FutexInv' /\ [FutexNext]_futexVars
        => [Mutex!Next]_Holder
  BY FutexStepSimulation
<1> QED
  BY <1>1, <1>2, FutexInvariance, PTL DEF FutexSpec, ImplementsMutex,
         Mutex!Spec

-----------------------------------------------------------------------------
\* WakeUp: the inductive invariant.

\* While nothing was posted since the pass began, the list holds what the
\* pass will still deliver.
Drained ==
    /\ canWait => queued = batch
    /\ loopPc \notin {"deliver", "handler"} => batch = 0

Coming == fd = 1 \/ \E t \in Wakers : waker[t] # "idle"

\* Between the tests of canWait and of exit and select(), what made them out
\* of date is followed by a wake-up.
Announced ==
    /\ loopPc \in {"test", "again", "select"} /\ mayBlock /\ ~canWait => Coming
    /\ exit => Coming \/ loopPc \in {"exec", "read", "reset", "returned"}

\* Nobody but the loop takes the wake-up out of the eventfd.
Readable == loopPc = "read" => fd = 1

UnixInv == WakeUpTypeOK /\ OneWakeUp /\ Drained /\ Announced /\ Readable

LEMMA UnixInitInv == WakeUpInit => UnixInv
<1> SUFFICES ASSUME WakeUpInit PROVE UnixInv
  OBVIOUS
<1>1. WakeUpTypeOK
  <2>1. loopPc \in LoopPCs /\ waker \in [Wakers -> WakerAts]
    BY DEF WakeUpInit, LoopPCs, WakerAts
  <2>2. Counters
    BY DEF WakeUpInit, Counters
  <2>3. Flags
    BY DEF WakeUpInit, Flags
  <2> QED
    BY <2>1, <2>2, <2>3 DEF WakeUpTypeOK
<1>2. OneWakeUp
  BY DEF WakeUpInit, OneWakeUp
<1>3. Drained /\ Announced /\ Readable
  BY DEF WakeUpInit, Drained, Announced, Readable
<1> QED
  BY <1>1, <1>2, <1>3 DEF UnixInv

\* Every step preserves the invariant.
LEMMA UnixNextInv == UnixInv /\ [WakeUpNext]_wakeUpVars => UnixInv'
<1> SUFFICES ASSUME UnixInv, [WakeUpNext]_wakeUpVars PROVE UnixInv'
  OBVIOUS
<1> USE DEF UnixInv, WakeUpTypeOK, Counters, Flags, LoopPCs,
            WakerAts, OneWakeUp, Drained, Announced, Coming, Readable,
            LoopGoTo, MutexFree, queueVars
<1>1. CASE UNCHANGED wakeUpVars
  <2>1. WakeUpTypeOK' /\ Drained' /\ Readable'
    BY <1>1 DEF wakeUpVars
  <2>2. OneWakeUp'
    BY <1>1 DEF wakeUpVars
  <2>3. Announced'
    BY <1>1 DEF wakeUpVars
  <2> QED
    BY <2>1, <2>2, <2>3
<1>2. ASSUME NEW t \in Wakers, Post(t) PROVE UnixInv'
  <2>1. loopPc' \in LoopPCs /\ waker' \in [Wakers -> WakerAts]
    BY <1>2 DEF Post
  <2>2. Counters'
    BY <1>2 DEF Post
  <2>3. Flags'
    BY <1>2 DEF Post
  <2>4. OneWakeUp'
    BY <1>2 DEF Post
  <2>5. Drained'
    BY <1>2 DEF Post
  <2>6. Announced' /\ Readable'
    BY <1>2 DEF Post
  <2> QED
    BY <2>1, <2>2, <2>3, <2>4, <2>5, <2>6
<1>3. ASSUME NEW t \in Wakers, StoreExit(t) PROVE UnixInv'
  BY <1>3 DEF StoreExit
<1>4. ASSUME NEW t \in Wakers, StoreInterrupt(t) PROVE UnixInv'
  BY <1>4 DEF StoreInterrupt
<1>5. ASSUME NEW t \in Wakers, TestAndSet(t) PROVE UnixInv'
  BY <1>5 DEF TestAndSet
<1>6. ASSUME NEW t \in Wakers, Write(t) PROVE UnixInv'
  BY <1>6 DEF Write
<1>7. CASE TestExit
  BY <1>7 DEF TestExit
<1>8. CASE ClearInterrupt
  BY <1>8 DEF ClearInterrupt
<1>9. CASE EnterSend
  BY <1>9 DEF EnterSend
<1>10. CASE Deliver
  BY <1>10 DEF Deliver
<1>11. CASE HandlerPosts
  <2>1. wakeUps' = 1 /\ fd' = (IF wakeUps = 0 THEN 1 ELSE fd)
    BY <1>11 DEF HandlerPosts, OwnWakeUp
  <2>2. loopPc' \in LoopPCs /\ waker' \in [Wakers -> WakerAts] /\ Flags'
    BY <1>11, <2>1 DEF HandlerPosts
  <2>6. Counters'
    BY <1>11, <2>1 DEF HandlerPosts
  <2>3. OneWakeUp'
    BY <1>11, <2>1 DEF HandlerPosts
  <2>4. Drained' /\ Announced' /\ Readable'
    BY <1>11, <2>1 DEF HandlerPosts
  <2> QED
    BY <2>2, <2>3, <2>4, <2>6
<1>12. CASE HandlerReturns
  BY <1>12 DEF HandlerReturns
<1>13. CASE EndSend
  <2>1. CASE canWait
    BY <1>13, <2>1 DEF EndSend
  <2>2. CASE ~canWait
    <3>1. wakeUps' = 1 /\ fd' = (IF wakeUps = 0 THEN 1 ELSE fd)
      BY <1>13, <2>2 DEF EndSend, OwnWakeUp
    <3> QED
      BY <1>13, <2>2, <3>1 DEF EndSend
  <2> QED
    BY <2>1, <2>2
<1>14. CASE CanWaitLocked
  BY <1>14 DEF CanWaitLocked
<1>15. CASE TestInterrupt
  BY <1>15 DEF TestInterrupt
<1>16. CASE TestInterruptAgain
  BY <1>16 DEF TestInterruptAgain
<1>17. CASE SelectReadable
  BY <1>17 DEF SelectReadable
<1>18. CASE SelectNothing \/ SelectOther
  BY <1>18 DEF SelectNothing, SelectOther
<1>19. CASE ReadFd
  BY <1>19 DEF ReadFd
<1>20. CASE ResetWakeUps
  BY <1>20 DEF ResetWakeUps
<1> QED
  BY <1>1, <1>2, <1>3, <1>4, <1>5, <1>6, <1>7, <1>8, <1>9, <1>10, <1>11,
     <1>12, <1>13, <1>14, <1>15, <1>16, <1>17, <1>18, <1>19, <1>20
     DEF WakeUpNext, LoopStep, Waker

LEMMA UnixInvariance == WakeUpSpec => []UnixInv
<1>1. UnixInv /\ [WakeUpNext]_wakeUpVars => UnixInv'
  BY UnixNextInv
<1> QED
  BY UnixInitInv, <1>1, PTL DEF WakeUpSpec

\* The variables have their types; in particular the eventfd never counts
\* more than one.
THEOREM UnixTypeCorrect == WakeUpSpec => []WakeUpTypeOK
<1>1. UnixInv => WakeUpTypeOK
  BY DEF UnixInv
<1> QED
  BY UnixInvariance, <1>1, PTL

\* There is one wake-up at a time and wakeUps says so, for any number of
\* threads that call wakeUp().
THEOREM SingleWakeUp == WakeUpSpec => []OneWakeUp
<1>1. UnixInv => OneWakeUp
  BY DEF UnixInv
<1> QED
  BY UnixInvariance, <1>1, PTL

\* The branch of processThreadWakeUp that reports an internal error is dead
\* code, as its comment hopes.
THEOREM ErrorBranchIsDead == WakeUpSpec => []DeadCode
<1>1. UnixInv => DeadCode
  BY DEF UnixInv, OneWakeUp, DeadCode
<1> QED
  BY UnixInvariance, <1>1, PTL

\* No event and no request to exit is slept over.
THEOREM NoWakeUpIsLost == WakeUpSpec => []NoLostWakeUp
<1>1. UnixInv => NoLostWakeUp
  <2> SUFFICES ASSUME UnixInv, loopPc = "select", mayBlock, fd = 0,
                      \A t \in Wakers : waker[t] = "idle"
               PROVE  queued = 0 /\ ~exit
    BY DEF NoLostWakeUp
  <2>1. ~Coming
    BY DEF Coming
  <2>2. canWait /\ ~exit
    BY <2>1 DEF UnixInv, Announced, WakeUpTypeOK
  <2> QED
    BY <2>2 DEF UnixInv, Drained
<1> QED
  BY UnixInvariance, <1>1, PTL

-----------------------------------------------------------------------------
\* PepperTimers: the inductive invariant, in parts.

\* The types, as far as the argument needs them.
Tables ==
    /\ activeTimerIds \in [Serials \cup {NoSerial} -> Ids \cup {NoId}]
    /\ activeTimerSerials \in [Ids -> Serials \cup {NoSerial}]
    /\ timerDetails \in [Ids -> Objects \cup {NoObject}]
    /\ activeTimerIds[NoSerial] = NoId
    /\ activeObjectTimers \subseteq Objects \X Ids
    /\ \A id \in Ids : IsRegistered(id) => <<timerDetails[id], id>> \in activeObjectTimers

Callbacks ==
    /\ posted \subseteq Serials /\ current \in (Serials \cup {NoSerial}) \ posted
    /\ postedFor \in [Serials -> Ids \cup {NoId}] /\ cancelled \subseteq Serials
    /\ doing \in {"idle", "work"} => current = NoSerial
    /\ doing = "timer" => /\ current # NoSerial
                       /\ info.id \in Ids /\ info.id = postedFor[current]
    /\ \A s \in Outstanding : postedFor[s] \in Ids

\* What the tables say of a serial is true of its callback,
Meant ==
    \A s \in Serials : activeTimerIds[s] # NoId =>
        /\ s \in Outstanding \ cancelled
        /\ activeTimerIds[s] = postedFor[s]
        /\ IsRegistered(postedFor[s]) /\ activeTimerSerials[postedFor[s]] = s

\* they know every callback that counts,
Known == \A s \in Outstanding \ cancelled : activeTimerIds[s] # NoId

\* and every timer has one.
Armed ==
    \A id \in Ids :
        IF IsRegistered(id)
        THEN /\ activeTimerSerials[id] \in Serials
             /\ activeTimerIds[activeTimerSerials[id]] = id
        ELSE activeTimerSerials[id] = NoSerial

\* A timer that fires can be started again.
SerialLeft == Unused # {}

TimersInv == Tables /\ Callbacks /\ Meant /\ Known /\ Armed /\ SerialLeft

LEMMA SerialsAreFinite ==
    /\ Serials = 1..MaxSerial /\ NoSerial \notin Serials
    /\ IsFiniteSet(Serials) /\ IsFiniteSet(Unused) /\ Unused \subseteq Serials
<1>1. MaxSerial \in Nat
  BY PepperAssumption
<1>2. IsFiniteSet(Serials)
  BY <1>1, FS_Interval DEF Serials
<1>3. Unused \subseteq Serials
  BY DEF Unused
<1>4. NoSerial \notin Serials
  BY <1>1 DEF NoSerial, Serials
<1> QED
  BY <1>2, <1>3, <1>4, FS_Subset DEF Serials

LEMMA NextSerialIsUnused == Unused # {} => NextSerial \in Unused
BY DEF NextSerial

LEMMA TimersInitInv == TimersInit => TimersInv
<1> SUFFICES ASSUME TimersInit PROVE TimersInv
  OBVIOUS
<1>1. Tables
  BY DEF TimersInit, Tables, IsRegistered
<1>2. Outstanding = {}
  BY DEF TimersInit, Outstanding
<1>3. Callbacks
  BY <1>2, SerialsAreFinite DEF TimersInit, Callbacks, NoSerial
<1>4. Meant /\ Known /\ Armed
  BY <1>2 DEF TimersInit, Meant, Known, Armed, IsRegistered
<1>5. SerialLeft
  <2>1. 1 \in Serials
    BY PepperAssumption DEF Serials
  <2>2. 1 \in Unused
    BY <2>1, <1>2, SerialsAreFinite DEF Unused, TimersInit
  <2> QED
    BY <2>2 DEF SerialLeft
<1> QED
  BY <1>1, <1>3, <1>4, <1>5 DEF TimersInv

\* RegisterTimer takes one of at least two unused serials.
LEMMA RegisterInv ==
    ASSUME TimersInv, NEW o \in Objects, NEW id \in Ids, RegisterTimer(o, id)
    PROVE  TimersInv'
<1> DEFINE s == NextSerial
<1>1. s \in Unused /\ s \in Serials
  BY NextSerialIsUnused, SerialsAreFinite DEF TimersInv, SerialLeft
<1>2. /\ s \notin Outstanding /\ activeTimerIds[s] = NoId
      /\ \A i \in Ids : activeTimerSerials[i] # s
  BY <1>1 DEF Unused
<1> HIDE DEF s
<1>3. /\ activeObjectTimers' = activeObjectTimers \cup {<<o, id>>}
      /\ timerDetails' = [timerDetails EXCEPT ![id] = o]
      /\ activeTimerIds' = [activeTimerIds EXCEPT ![s] = id]
      /\ activeTimerSerials' = [activeTimerSerials EXCEPT ![id] = s]
      /\ posted' = posted \cup {s}
      /\ postedFor' = [postedFor EXCEPT ![s] = id]
      /\ cancelled' = cancelled \ {s}
      /\ doing' = doing /\ current' = current /\ info' = info
      /\ ~IsRegistered(id) /\ InHandler
  BY DEF RegisterTimer, StartTimer, callbackVars, s
<1>4. Outstanding' = Outstanding \cup {s}
  BY <1>3 DEF Outstanding
<1>5. o # NoObject /\ id # NoId /\ s # NoSerial
  BY PepperAssumption, <1>1, SerialsAreFinite
<1>6. Tables'
  BY <1>1, <1>3, <1>5 DEF TimersInv, Tables, IsRegistered
<1>7. Callbacks'
  BY <1>1, <1>2, <1>3, <1>4, <1>5 DEF TimersInv, Callbacks, Outstanding
<1>8. Meant'
  BY <1>1, <1>2, <1>3, <1>4, <1>5 DEF TimersInv, Tables, Callbacks, Meant, IsRegistered
<1>9. Known'
  BY <1>1, <1>2, <1>3, <1>4, <1>5 DEF TimersInv, Tables, Callbacks, Known
<1>10. Armed'
  BY <1>1, <1>2, <1>3, <1>5 DEF TimersInv, Tables, Armed, IsRegistered
<1>11. SerialLeft'
  <2>1. PICK t \in Unused : t # s
    <3>1. Cardinality(Unused) > 1
      BY DEF RegisterTimer
    <3>2. ASSUME Unused = {s} PROVE FALSE
      <4>1. Cardinality({s}) = 1
        BY FS_Singleton
      <4> QED
        BY <3>1, <3>2, <4>1
    <3> QED
      BY <3>2, <1>1
  <2>2. t \in Unused'
    BY <2>1, <1>1, <1>3, <1>4 DEF Unused, TimersInv, Tables
  <2> QED
    BY <2>2 DEF SerialLeft
<1> QED
  BY <1>6, <1>7, <1>8, <1>9, <1>10, <1>11 DEF TimersInv

\* Killing a timer makes its callback mean nothing.
LEMMA KillInv ==
    ASSUME TimersInv, NEW id \in Ids, KillTimer(id)
    PROVE  TimersInv'
<1> DEFINE s == activeTimerSerials[id]
<1>1. /\ activeObjectTimers' = activeObjectTimers \ {<<timerDetails[id], id>>}
      /\ timerDetails' = [timerDetails EXCEPT ![id] = NoObject]
      /\ activeTimerSerials' = [activeTimerSerials EXCEPT ![id] = NoSerial]
      /\ activeTimerIds' = [activeTimerIds EXCEPT ![s] = NoId]
      /\ cancelled' = cancelled \cup {t \in Outstanding : postedFor[t] = id}
      /\ posted' = posted /\ postedFor' = postedFor
      /\ doing' = doing /\ current' = current /\ info' = info
      /\ IsRegistered(id)
  BY DEF KillTimer, UnregisterTimer, callbackVars
<1>2. s \in Serials /\ s # NoSerial /\ activeTimerIds[s] = id /\ id # NoId
  BY <1>1, SerialsAreFinite, PepperAssumption DEF TimersInv, Armed
<1>3. s \in Outstanding /\ s \notin cancelled /\ postedFor[s] = id
  BY <1>2 DEF TimersInv, Meant
<1> HIDE DEF s
<1>4. Outstanding' = Outstanding
  BY <1>1 DEF Outstanding
<1>5. Tables'
  BY <1>1, <1>2 DEF TimersInv, Tables, IsRegistered
<1>6. Callbacks'
  BY <1>1, <1>4, SerialsAreFinite DEF TimersInv, Callbacks, Outstanding
<1>7. \A t \in Serials : t # s /\ activeTimerIds[t] # NoId => postedFor[t] # id
  BY <1>2 DEF TimersInv, Meant, s
<1>8. Meant'
  BY <1>1, <1>2, <1>4, <1>7 DEF TimersInv, Tables, Callbacks, Meant, IsRegistered
<1>9. Known'
  BY <1>1, <1>2, <1>3, <1>4, <1>7 DEF TimersInv, Tables, Known, Meant
<1>10. Armed'
  BY <1>1, <1>2 DEF TimersInv, Tables, Armed, IsRegistered
<1>11. Unused \subseteq Unused'
  BY <1>1, <1>2, <1>4, SerialsAreFinite DEF Unused, TimersInv, Tables
<1> QED
  BY <1>5, <1>6, <1>8, <1>9, <1>10, <1>11 DEF TimersInv, SerialLeft

\* The native loop runs a callback: it is taken for a timer's or dropped.
LEMMA CallbackInv ==
    ASSUME TimersInv, NEW s \in Serials, TimerCallback(s)
    PROVE  TimersInv'
<1>1. /\ s \in posted /\ posted' = posted \ {s} /\ current = NoSerial
      /\ activeTimerIds' = activeTimerIds /\ timerDetails' = timerDetails
      /\ activeTimerSerials' = activeTimerSerials
      /\ activeObjectTimers' = activeObjectTimers
      /\ postedFor' = postedFor /\ cancelled' = cancelled
  BY DEF TimerCallback, tables, timersHistory, TimersInv, Callbacks
<1>2. Outstanding = posted
  BY <1>1 DEF Outstanding
<1>3. s # NoSerial
  BY SerialsAreFinite
<1>4. Tables' /\ Armed'
  BY <1>1 DEF TimersInv, Tables, Armed, IsRegistered
<1>5. CASE activeTimerIds[s] = NoId
  <2>1. doing' = doing /\ current' = current /\ info' = info
    BY <1>5 DEF TimerCallback, callbackVars
  <2>2. Outstanding' = Outstanding \ {s}
    BY <2>1, <1>1, <1>2 DEF Outstanding
  <2>3. Callbacks'
    BY <2>1, <2>2, <1>1 DEF TimersInv, Callbacks
  <2>4. Meant' /\ Known'
    BY <2>2, <1>1, <1>5 DEF TimersInv, Meant, Known, IsRegistered
  <2>5. Unused \subseteq Unused'
    BY <2>2, <1>1 DEF Unused
  <2> QED
    BY <1>4, <2>3, <2>4, <2>5 DEF TimersInv, SerialLeft
<1>6. CASE activeTimerIds[s] # NoId
  <2>1. doing' = "timer" /\ current' = s /\ info'.id = activeTimerIds[s]
    BY <1>6 DEF TimerCallback
  <2>2. Outstanding' = Outstanding
    BY <2>1, <1>1, <1>2, <1>3 DEF Outstanding
  <2>3. Callbacks'
    BY <2>1, <2>2, <1>1, <1>2, <1>3, <1>6 DEF TimersInv, Callbacks, Meant
  <2>4. Meant' /\ Known' /\ Unused' = Unused
    BY <2>2, <1>1 DEF TimersInv, Meant, Known, IsRegistered, Unused
  <2> QED
    BY <1>4, <2>3, <2>4 DEF TimersInv, SerialLeft
<1> QED
  BY <1>5, <1>6

\* The timer that fired is started again, and its serial can be used again.
LEMMA RestartInv ==
    ASSUME TimersInv, LeaveTimerCallback, Restart
    PROVE  TimersInv'
<1> DEFINE n == NextSerial
           id == info.id
<1>1. n \in Unused /\ n \in Serials
  BY NextSerialIsUnused, SerialsAreFinite DEF TimersInv, SerialLeft
<1>2. /\ n \notin Outstanding /\ activeTimerIds[n] = NoId
      /\ \A i \in Ids : activeTimerSerials[i] # n
  BY <1>1 DEF Unused
<1> HIDE DEF n
<1>3. /\ activeTimerIds[current] # NoId
      /\ activeTimerIds' = [[activeTimerIds EXCEPT ![current] = NoId] EXCEPT ![n] = id]
      /\ activeTimerSerials' = [activeTimerSerials EXCEPT ![id] = n]
      /\ posted' = posted \cup {n}
      /\ postedFor' = [postedFor EXCEPT ![n] = id]
      /\ cancelled' = cancelled \ {n}
      /\ activeObjectTimers' = activeObjectTimers /\ timerDetails' = timerDetails
      /\ doing = "timer" /\ doing' = "idle" /\ current' = NoSerial
  BY DEF LeaveTimerCallback, Restart, StartTimer, n
<1>4. /\ current \in Serials /\ current # NoSerial /\ current \notin posted
      /\ id \in Ids /\ id = postedFor[current]
      /\ n # NoSerial /\ id # NoId
  BY <1>1, <1>3, SerialsAreFinite, PepperAssumption DEF TimersInv, Callbacks
<1>5. /\ activeTimerIds[current] = id /\ IsRegistered(id)
      /\ activeTimerSerials[id] = current
  BY <1>3, <1>4 DEF TimersInv, Meant
<1>6. Outstanding = posted \cup {current} /\ Outstanding' = posted \cup {n}
  BY <1>3, <1>4, <1>1, SerialsAreFinite DEF Outstanding
<1>7. n # current
  BY <1>2, <1>6
<1> HIDE DEF id
<1>8. Tables'
  BY <1>1, <1>3, <1>4 DEF TimersInv, Tables, IsRegistered
<1>9. Callbacks'
  BY <1>1, <1>2, <1>3, <1>4, <1>6, SerialsAreFinite DEF TimersInv, Callbacks
<1>10. \A t \in Serials : activeTimerIds[t] # NoId /\ t # current => postedFor[t] # id
  BY <1>5 DEF TimersInv, Meant
<1>11. Meant'
  BY <1>1, <1>2, <1>3, <1>4, <1>5, <1>6, <1>10 DEF TimersInv, Tables, Callbacks, Meant, IsRegistered
<1>12. Known'
  BY <1>1, <1>2, <1>3, <1>4, <1>6 DEF TimersInv, Tables, Callbacks, Known
<1>13. Armed'
  <2>1. activeTimerSerials'[id] = n /\ activeTimerIds'[n] = id
    BY <1>1, <1>3, <1>4 DEF TimersInv, Tables
  <2>2. ASSUME NEW i \in Ids, i # id
        PROVE  /\ activeTimerSerials'[i] = activeTimerSerials[i]
               /\ IsRegistered(i) => activeTimerIds'[activeTimerSerials[i]] = i
    <3>1. activeTimerSerials'[i] = activeTimerSerials[i]
      BY <2>2, <1>3 DEF TimersInv, Tables
    <3>2. ASSUME IsRegistered(i)
          PROVE  activeTimerSerials[i] # current /\ activeTimerSerials[i] # n
      BY <3>2, <2>2, <1>2, <1>5 DEF TimersInv, Armed
    <3> QED
      BY <3>1, <3>2, <1>3 DEF TimersInv, Tables, Armed
  <2> QED
    BY <2>1, <2>2, <1>1, <1>3, <1>5 DEF TimersInv, Armed, IsRegistered
<1>14. current \in Unused'
  <2>1. activeTimerIds'[current] = NoId
    BY <1>3, <1>4, <1>7 DEF TimersInv, Tables
  <2>2. ASSUME NEW i \in Ids PROVE activeTimerSerials'[i] # current
    BY <1>3, <1>4, <1>5, <1>7 DEF TimersInv, Tables, Armed
  <2> QED
    BY <2>1, <2>2, <1>4, <1>6, <1>7, SerialsAreFinite DEF Unused
<1> QED
  BY <1>8, <1>9, <1>11, <1>12, <1>13, <1>14 DEF TimersInv, SerialLeft

\* The timer was killed by a handler.
LEMMA NoRestartInv ==
    ASSUME TimersInv, LeaveTimerCallback, NoRestart
    PROVE  TimersInv'
<1>1. /\ activeTimerIds[current] = NoId /\ current' = NoSerial
      /\ doing' = "idle" /\ doing = "timer"
      /\ activeTimerIds' = activeTimerIds /\ timerDetails' = timerDetails
      /\ activeTimerSerials' = activeTimerSerials
      /\ activeObjectTimers' = activeObjectTimers
      /\ posted' = posted /\ postedFor' = postedFor /\ cancelled' = cancelled
  BY DEF LeaveTimerCallback, NoRestart, tables, timersHistory
<1>2. Outstanding' = Outstanding \ {current}
  BY <1>1, SerialsAreFinite DEF Outstanding, TimersInv, Callbacks
<1>3. Tables' /\ Armed'
  BY <1>1 DEF TimersInv, Tables, Armed, IsRegistered
<1>4. Callbacks'
  BY <1>1, <1>2, SerialsAreFinite DEF TimersInv, Callbacks
<1>5. Meant' /\ Known'
  BY <1>1, <1>2 DEF TimersInv, Meant, Known, IsRegistered
<1>6. Unused \subseteq Unused'
  BY <1>1, <1>2 DEF Unused
<1> QED
  BY <1>3, <1>4, <1>5, <1>6 DEF TimersInv, SerialLeft

\* The steps that only move the thread.
Moves ==
    \/ \E o \in Objects : UnregisterTimers(o)
    \/ ProcessEventsCallback \/ LeaveProcessEvents
    \/ UNCHANGED timersVars

LEMMA MovesInv ==
    ASSUME TimersInv, Moves
    PROVE  TimersInv'
<1>1. UNCHANGED <<tables, posted, current, info, timersHistory>>
  BY DEF Moves, UnregisterTimers, ProcessEventsCallback, LeaveProcessEvents, timersVars, callbackVars
<1>2. \/ doing' = doing \/ doing' = "spinning"
      \/ doing \in {"idle", "work"} /\ doing' \in {"idle", "work"}
  BY DEF Moves, UnregisterTimers, ProcessEventsCallback, LeaveProcessEvents, timersVars, callbackVars
<1>3. Outstanding' = Outstanding
  BY <1>1 DEF Outstanding
<1>4. Callbacks'
  BY <1>1, <1>2, <1>3 DEF TimersInv, Callbacks, timersHistory
<1>5. Tables' /\ Meant' /\ Known' /\ Armed' /\ Unused' = Unused
  BY <1>1, <1>3 DEF TimersInv, Tables, Meant, Known, Armed, Unused, IsRegistered, tables, timersHistory
<1> QED
  BY <1>4, <1>5 DEF TimersInv, SerialLeft

LEMMA TimersNextInv == TimersInv /\ [TimersNext]_timersVars => TimersInv'
<1> SUFFICES ASSUME TimersInv, [TimersNext]_timersVars PROVE TimersInv'
  OBVIOUS
<1>1. ASSUME NEW o \in Objects, NEW id \in Ids, RegisterTimer(o, id) PROVE TimersInv'
  BY <1>1, RegisterInv
<1>2. ASSUME NEW id \in Ids, KillTimer(id) PROVE TimersInv'
  BY <1>2, KillInv
<1>3. ASSUME NEW s \in Serials, TimerCallback(s) PROVE TimersInv'
  BY <1>3, CallbackInv
<1>4. ASSUME LeaveTimerCallback PROVE TimersInv'
  <2>1. Restart \/ NoRestart
    BY <1>4 DEF LeaveTimerCallback
  <2> QED
    BY <1>4, <2>1, RestartInv, NoRestartInv
<1>5. ASSUME Moves PROVE TimersInv'
  BY <1>5, MovesInv
<1> QED
  BY <1>1, <1>2, <1>3, <1>4, <1>5 DEF TimersNext, Application, Leave, Moves

LEMMA TimersInvariance == TimersSpec => []TimersInv
BY TimersInitInv, TimersNextInv, PTL DEF TimersSpec

\* A registered timer always has one callback that will find it, and a killed
\* one has none: registerTimer, unregisterTimer and timerCallback keep the
\* tables and the callbacks in step.
THEOREM OneCallbackEach == TimersSpec => []ArmedOnce
<1>1. ASSUME TimersInv, NEW id \in Ids
      PROVE  {s \in Outstanding \ cancelled : postedFor[s] = id}
                 = IF IsRegistered(id) THEN {activeTimerSerials[id]} ELSE {}
  <2> DEFINE S == {s \in Outstanding \ cancelled : postedFor[s] = id}
  <2>1. Outstanding \subseteq Serials
    BY <1>1 DEF TimersInv, Callbacks, Outstanding
  <2>2. ASSUME NEW s \in S
        PROVE  IsRegistered(id) /\ s = activeTimerSerials[id]
    BY <2>1, <2>2, <1>1 DEF TimersInv, Known, Meant
  <2>3. ASSUME IsRegistered(id) PROVE activeTimerSerials[id] \in S
    <3>1. /\ activeTimerSerials[id] \in Serials
          /\ activeTimerIds[activeTimerSerials[id]] = id
      BY <1>1, <2>3 DEF TimersInv, Armed
    <3> QED
      BY <3>1, <1>1, PepperAssumption DEF TimersInv, Meant
  <2> QED
    BY <2>2, <2>3
<1>2. TimersInv => ArmedOnce
  BY <1>1, FS_Singleton, FS_EmptySet DEF ArmedOnce
<1> QED
  BY <1>2, TimersInvariance, PTL

\* timerCallback never takes the callback of a killed timer for that of the
\* timer that has its id now, and sends the event to the object that started it.
THEOREM CallbacksAreNotMistaken == TimersSpec => NoStaleEvent
<1>1. ASSUME TimersInv, [TimersNext]_timersVars, NEW s \in Serials, current # s, current' = s
      PROVE  /\ s \notin cancelled
             /\ info'.id = postedFor[s]
             /\ <<info'.object, info'.id>> \in activeObjectTimers
  <2>1. TimerCallback(s)
    <3>1. s # NoSerial
      BY SerialsAreFinite
    <3>2. PICK t \in Serials : TimerCallback(t)
      BY <1>1, <3>1 DEF TimersNext, Application, RegisterTimer, KillTimer, UnregisterTimer,
           UnregisterTimers, Leave, LeaveTimerCallback, LeaveProcessEvents,
           ProcessEventsCallback, StartTimer, timersVars, callbackVars
    <3> QED
      BY <3>2, <1>1 DEF TimerCallback, callbackVars
  <2>2. /\ activeTimerIds[s] # NoId
        /\ info' = [id |-> activeTimerIds[s],
                    object |-> timerDetails[activeTimerIds[s]]]
    BY <2>1, <1>1 DEF TimerCallback, callbackVars
  <2>3. /\ s \notin cancelled /\ activeTimerIds[s] = postedFor[s]
        /\ IsRegistered(postedFor[s]) /\ postedFor[s] \in Ids
    BY <2>2, <1>1 DEF TimersInv, Meant, Callbacks
  <2> QED
    BY <2>2, <2>3, <1>1 DEF TimersInv, Tables
<1>2. TimersInv /\ [TimersNext]_timersVars =>
        [\A s \in Serials :
            current # s /\ current' = s =>
              /\ s \notin cancelled
              /\ info'.id = postedFor[s]
              /\ <<info'.object, info'.id>> \in activeObjectTimers]_timersVars
  BY <1>1
<1> QED
  BY <1>2, TimersInvariance, PTL DEF NoStaleEvent, TimersSpec
=============================================================================
