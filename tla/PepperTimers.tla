---------------------------- MODULE PepperTimers ----------------------------
(***************************************************************************)
(* The timers of QPepperEventDispatcher.  The Pepper message loop has only *)
(* single-shot callbacks that cannot be cancelled, and Qt reuses timer     *)
(* ids, so every callback that is posted carries a serial number, and the  *)
(* dispatcher's tables say which timer, if any, that serial still means.   *)
(*                                                                         *)
(* Everything here happens in the one thread whose message loop this is.   *)
(* Between two calls of the message loop nothing runs; inside one, events  *)
(* are sent to the application, whose handlers start and kill timers.      *)
(* That is doing = idle, work (processEvents, or the application's main),  *)
(* timer (timerCallback(current), until its processEvents returns), and    *)
(* spinning (in the loop of unregisterTimers, which does not end).         *)
(***************************************************************************)
EXTENDS Naturals, FiniteSets

CONSTANTS Objects, Ids,     \* the receivers of timer events and the timer ids
          NoObject, NoId,
          MaxSerial         \* bound on the callbacks there are at a time

ASSUME PepperAssumption ==
    NoObject \notin Objects /\ NoId \notin Ids /\ MaxSerial \in Nat \ {0}

Serials == 1..MaxSerial
NoSerial == 0       \* what QHash::value() returns for a key it does not have

VARIABLES
    activeTimerIds,     \* serial -> timer id
    activeTimerSerials, \* timer id -> serial
    activeObjectTimers, \* the pairs of an object and a timer id of its
    timerDetails,       \* timer id -> its object (and interval)
    posted,     \* the serials of the callbacks in the message loop
    doing, current,        \* where the thread is; the callback it runs
    info,       \* the copy timerCallback made of the details
    postedFor,  \* history: the timer id each callback was posted for
    cancelled   \* history: the callbacks whose timer was killed since

tables == <<activeTimerIds, activeTimerSerials, activeObjectTimers, timerDetails>>
callbackVars == <<doing, current, info>>
timersHistory == <<postedFor, cancelled>>
timersVars == <<tables, posted, callbackVars, timersHistory>>

InHandler == doing \in {"work", "timer"}
IsRegistered(id) == timerDetails[id] # NoObject
TimersOf(o) == {id \in Ids : <<o, id>> \in activeObjectTimers}

Outstanding == posted \cup ({current} \ {NoSerial})

\* ++m_currentTimerSerial: a number that no callback and no table has.
Unused == {s \in Serials : /\ s \notin Outstanding
                           /\ activeTimerIds[s] = NoId
                           /\ \A id \in Ids : activeTimerSerials[id] # s}
NextSerial == CHOOSE s \in Unused : TRUE

\* startTimer, where ids is what m_activeTimerIds holds besides the new timer.
StartTimer(id, ids) ==
    LET s == NextSerial
    IN  /\ activeTimerIds' = [ids EXCEPT ![s] = id]
        /\ activeTimerSerials' = [activeTimerSerials EXCEPT ![id] = s]
        /\ posted' = posted \cup {s}
        /\ postedFor' = [postedFor EXCEPT ![s] = id]
        /\ cancelled' = cancelled \ {s}

\* QObject::startTimer. One more serial is left for the timer that fires.
RegisterTimer(o, id) ==
    /\ InHandler /\ ~IsRegistered(id) /\ Cardinality(Unused) > 1
    /\ activeObjectTimers' = activeObjectTimers \cup {<<o, id>>}
    /\ timerDetails' = [timerDetails EXCEPT ![id] = o]
    /\ StartTimer(id, activeTimerIds)
    /\ UNCHANGED callbackVars

\* A mutant: the serial of the killed timer stays.
UnregisterTimer_KeepSerial(id) ==
    /\ activeObjectTimers' = activeObjectTimers \ {<<timerDetails[id], id>>}
    /\ timerDetails' = [timerDetails EXCEPT ![id] = NoObject]
    /\ activeTimerSerials' = [activeTimerSerials EXCEPT ![id] = NoSerial]
    /\ cancelled' = cancelled \cup {s \in Outstanding : postedFor[s] = id}
    /\ UNCHANGED <<activeTimerIds, posted, postedFor, callbackVars>>

\* The history notes the callbacks that were posted for the killed timer.
UnregisterTimer(id) ==
    /\ activeObjectTimers' = activeObjectTimers \ {<<timerDetails[id], id>>}
    /\ timerDetails' = [timerDetails EXCEPT ![id] = NoObject]
    /\ activeTimerSerials' = [activeTimerSerials EXCEPT ![id] = NoSerial]
    /\ activeTimerIds' = [activeTimerIds EXCEPT ![activeTimerSerials[id]] = NoId]
    /\ cancelled' = cancelled \cup {s \in Outstanding : postedFor[s] = id}
    /\ UNCHANGED <<posted, postedFor, callbackVars>>

\* QObject::killTimer.
KillTimer(id) == InHandler /\ IsRegistered(id) /\ UnregisterTimer(id)

\* ~QObject calls unregisterTimers when the object has timers, and the while
\* loop there does not advance its iterator: it appends the first id for ever.
UnregisterTimers(o) ==
    /\ InHandler /\ TimersOf(o) # {}
    /\ doing' = "spinning"
    /\ UNCHANGED <<tables, posted, current, info, timersHistory>>

\* The message loop calls timerCallback(s) when the interval is over.
TimerCallback(s) ==
    /\ doing = "idle" /\ s \in posted
    /\ posted' = posted \ {s}
    /\ UNCHANGED <<tables, timersHistory>>
    /\ \/ activeTimerIds[s] = NoId /\ UNCHANGED callbackVars
       \/ /\ activeTimerIds[s] # NoId
          /\ doing' = "timer" /\ current' = s
          /\ info' = [id |-> activeTimerIds[s],
                      object |-> timerDetails[activeTimerIds[s]]]

\* A mutant: it looks whether a timer has this id.
Restart_ById ==
    /\ IsRegistered(info.id)
    /\ StartTimer(info.id, [activeTimerIds EXCEPT ![current] = NoId])
    /\ UNCHANGED <<activeObjectTimers, timerDetails>>

\* timerCallback after its processEvents(): the timer is started again unless
\* this serial was unregistered, and the serial is done with.
Restart ==
    /\ activeTimerIds[current] # NoId
    /\ StartTimer(info.id, [activeTimerIds EXCEPT ![current] = NoId])
    /\ UNCHANGED <<activeObjectTimers, timerDetails>>
NoRestart ==
    /\ activeTimerIds[current] = NoId
    /\ UNCHANGED <<tables, posted, timersHistory>>

\* A mutant: the serial is removed first, and so the timer never started again.
LeaveTimerCallback_RemoveFirst ==
    /\ doing = "timer"
    /\ activeTimerIds' = [activeTimerIds EXCEPT ![current] = NoId]
    /\ UNCHANGED <<activeTimerSerials, activeObjectTimers, timerDetails, posted>>
    /\ UNCHANGED timersHistory
    /\ doing' = "idle" /\ current' = NoSerial
    /\ info' = [id |-> NoId, object |-> NoObject]

LeaveTimerCallback ==
    /\ doing = "timer"
    /\ Restart \/ NoRestart
    /\ doing' = "idle" /\ current' = NoSerial
    /\ info' = [id |-> NoId, object |-> NoObject]

\* processEventsCallback, which wakeUp() posts, or an input event.
ProcessEventsCallback ==
    doing = "idle" /\ doing' = "work"
    /\ UNCHANGED <<tables, posted, current, info, timersHistory>>
LeaveProcessEvents ==
    doing = "work" /\ doing' = "idle"
    /\ UNCHANGED <<tables, posted, current, info, timersHistory>>

TimersInit ==
    /\ activeTimerIds = [s \in Serials \cup {NoSerial} |-> NoId]
    /\ activeTimerSerials = [id \in Ids |-> NoSerial]
    /\ activeObjectTimers = {}
    /\ timerDetails = [id \in Ids |-> NoObject]
    /\ posted = {}
    /\ doing = "work" /\ current = NoSerial
    /\ info = [id |-> NoId, object |-> NoObject]
    /\ postedFor = [s \in Serials |-> NoId]
    /\ cancelled = {}

Application ==
    \/ \E o \in Objects, id \in Ids : RegisterTimer(o, id)
    \/ \E id \in Ids : KillTimer(id)
    \/ \E o \in Objects : UnregisterTimers(o)

Leave == LeaveTimerCallback \/ LeaveProcessEvents

TimersNext ==
    \/ Application
    \/ \E s \in Serials : TimerCallback(s)
    \/ ProcessEventsCallback
    \/ Leave

TimersSpec == TimersInit /\ [][TimersNext]_timersVars

\* Handlers return, and the message loop gets to every callback in the end: it
\* runs what is due, one call at a time, and postpones none for ever.
TimersLiveSpec ==
    /\ TimersSpec /\ WF_timersVars(Leave)
    /\ \A s \in Serials : SF_timersVars(TimerCallback(s))
-----------------------------------------------------------------------------
\* A timer that is registered has one callback, posted or being run, that was
\* posted for it and not for an earlier timer of the same id: none after it was
\* started again would stop it, two would make it fire at twice the rate.
ArmedOnce ==
    \A id \in Ids :
        Cardinality({s \in Outstanding \ cancelled : postedFor[s] = id})
            = IF IsRegistered(id) THEN 1 ELSE 0

\* A callback that comes after its timer was killed sends nothing, not even when
\* the id is another timer's by then; one that does come in time sends its
\* event to the object that started the timer.
NoStaleEvent ==
    [][\A s \in Serials :
          current # s /\ current' = s =>
              /\ s \notin cancelled
              /\ info'.id = postedFor[s]
              /\ <<info'.object, info'.id>> \in activeObjectTimers]_timersVars

\* A timer fires again and again until it is killed, or the thread is lost in
\* unregisterTimers.
KeepsFiring ==
    \A id \in Ids :
        []<>(doing = "spinning" \/ ~IsRegistered(id) \/ info.id = id)
=============================================================================
