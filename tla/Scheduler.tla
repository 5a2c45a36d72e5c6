------------------------------ MODULE Scheduler ------------------------------
(***************************************************************************)
(* CleanupScheduler (scheduler.py) inside the server (lifespan, main.py):  *)
(* a background thread that sweeps, waits an interval and sweeps again,    *)
(* until the stop event is set.  The sweeps are those of Sweeps.tla, with  *)
(* the threads of the scheduler as the sweepers.                           *)
(*                                                                         *)
(* stop() waits ten seconds for the thread.  SlowPasses says whether a     *)
(* pass can last longer: each of its writes may wait three times for a     *)
(* busy timeout of five seconds.                                           *)
(***************************************************************************)
EXTENDS Sweeps

CONSTANTS
  OlderThan,   \* older_than_days, in ticks of the clock
  KeepLabeled, \* keep_labeled
  SlowPasses   \* can a pass outlast the wait of stop()?

Threads == Sweepers

ASSUME SchedulerAssumption ==
  /\ OlderThan \in Ages /\ RunIds # {}
  /\ KeepLabeled \in BOOLEAN
  /\ SlowPasses \in BOOLEAN
  /\ None \notin Sweepers

VARIABLES
  server,      \* the server that owns the scheduler: "up", "stopping", "down"
  thread,      \* _thread: the thread start() created last, or None
  stop_event,  \* _stop is set
  loop,        \* loop[t]: where thread t is in _run
  last_error   \* _last_error holds a message

schedulerVars == <<server, thread, stop_event, loop, last_error>>
allVars == <<runs, spans, history, comparisons, now, last_sweep, sweep, removed,
             server, thread, stop_event, loop, last_error>>

Alive(t) == loop[t] # "none"

enabled == thread # None /\ Alive(thread)

-----------------------------------------------------------------------------
(* start() and stop().                                                     *)

(* Mutant: start() does not look for a running thread.                     *)
StartAnother(t) ==
  /\ server \in {"down", "up"}
  /\ ~Alive(t)
  /\ server' = "up"
  /\ thread' = t
  /\ loop' = [loop EXCEPT ![t] = "check"]
  /\ stop_event' = FALSE
  /\ last_error' = FALSE
  /\ UNCHANGED <<tables, now, sweepVars>>

Start(t) ==
  /\ server \in {"down", "up"}
  /\ ~enabled
  /\ ~Alive(t)
  /\ server' = "up"
  /\ thread' = t
  /\ loop' = [loop EXCEPT ![t] = "check"]
  /\ stop_event' = FALSE
  /\ last_error' = FALSE
  /\ UNCHANGED <<tables, now, sweepVars>>

Stop ==
  /\ server = "up"
  /\ server' = "stopping"
  /\ stop_event' = TRUE
  /\ UNCHANGED <<thread, loop, last_error, tables, now, sweepVars>>

(* join() returns because the thread ended, or because its ten seconds     *)
(* are over.                                                               *)
Joined ==
  /\ server = "stopping"
  /\ enabled => SlowPasses
  /\ server' = "down"
  /\ thread' = None
  /\ UNCHANGED <<stop_event, loop, last_error, tables, now, sweepVars>>

(* The process ends, and its daemon threads with it, wherever they are; a  *)
(* new one starts with a scheduler of its own.                             *)
Exit ==
  /\ \E t \in Threads : Alive(t)
  /\ server' = "down"
  /\ thread' = None
  /\ stop_event' = FALSE
  /\ loop' = [t \in Threads |-> "none"]
  /\ last_error' = FALSE
  /\ Abandon(Threads)

-----------------------------------------------------------------------------
(* _run and sweep().                                                       *)

(* while not self._stop.is_set() *)
Check(t) ==
  /\ loop[t] = "check"
  /\ IF stop_event
     THEN /\ loop' = [loop EXCEPT ![t] = "none"]
          /\ UNCHANGED <<tables, now, sweepVars>>
     ELSE /\ loop' = [loop EXCEPT ![t] = "pass"]
          /\ Begin(t, OlderThan, KeepLabeled, RunIds)
  /\ UNCHANGED <<server, thread, stop_event, last_error>>

Sweeping(t) ==
  /\ loop[t] = "pass"
  /\ \/ ListProtected(t) \/ SelectExpired(t) \/ CountSpans(t) \/ CountComparisons(t)
     \/ LockTimeout(t)
  /\ UNCHANGED schedulerVars

Deleting(t) == loop[t] = "pass" /\ Delete(t) /\ UNCHANGED schedulerVars

PassSucceeds(t) ==
  /\ loop[t] = "pass"
  /\ Record(t)
  /\ loop' = [loop EXCEPT ![t] = "wait"]
  /\ UNCHANGED <<server, thread, stop_event, last_error>>

(* Mutant: the exception of a failed pass leaves the loop.                 *)
PassKillsThread(t) ==
  /\ loop[t] = "pass"
  /\ LockError(t)
  /\ loop' = [loop EXCEPT ![t] = "none"]
  /\ last_error' = TRUE
  /\ UNCHANGED <<server, thread, stop_event>>

PassFails(t) ==
  /\ loop[t] = "pass"
  /\ LockError(t)
  /\ loop' = [loop EXCEPT ![t] = "wait"]
  /\ last_error' = TRUE
  /\ UNCHANGED <<server, thread, stop_event>>

(* Mutant: the loop sleeps and sweeps without looking at the event again.  *)
WaitAndPass(t) ==
  /\ loop[t] = "wait"
  /\ loop' = [loop EXCEPT ![t] = "pass"]
  /\ Begin(t, OlderThan, KeepLabeled, RunIds)
  /\ UNCHANGED <<server, thread, stop_event, last_error>>

(* self._stop.wait(every_seconds): the interval passes or the event is set.*)
Wait(t) ==
  /\ loop[t] = "wait"
  /\ loop' = [loop EXCEPT ![t] = "check"]
  /\ UNCHANGED <<server, thread, stop_event, last_error, tables, now, sweepVars>>

LoopStep(t) ==
  Check(t) \/ Sweeping(t) \/ Deleting(t) \/ PassSucceeds(t) \/ PassFails(t) \/ Wait(t)

-----------------------------------------------------------------------------
SchedulerInit ==
  /\ SweepInit
  /\ server = "down"
  /\ thread = None
  /\ stop_event = FALSE
  /\ loop = [t \in Threads |-> "none"]
  /\ last_error = FALSE

Environment == (Others \/ Tick) /\ UNCHANGED schedulerVars

SchedulerNext ==
  \/ \E t \in Threads : Start(t) \/ LoopStep(t)
  \/ Stop \/ Joined \/ Exit
  \/ Environment

SchedulerSpec == SchedulerInit /\ [][SchedulerNext]_allVars

(* A thread that can run does run.  No other connection keeps the write    *)
(* lock for good, so a DELETE that is asked for again and again is served  *)
(* at last.                                                                *)
FairSchedulerSpec ==
  /\ SchedulerSpec
  /\ \A t \in Threads : WF_allVars(LoopStep(t)) /\ SF_allVars(Deleting(t))

-----------------------------------------------------------------------------
(* Type invariant: a thread is in a sweep exactly during a pass. *)
SchedulerTypeOK ==
  /\ server \in {"up", "stopping", "down"}
  /\ thread \in Threads \cup {None}
  /\ stop_event \in BOOLEAN /\ last_error \in BOOLEAN
  /\ \A t \in Threads : /\ loop[t] \in {"none", "check", "pass", "wait"}
                        /\ loop[t] = "pass" <=> ~At(t, "idle")

(* scheduler.py:20: the scheduler sweeps "from one background thread",     *)
(* however often start() and stop() are called.                            *)
OneBackgroundThread == \A t, u \in Threads : Alive(t) /\ Alive(u) => t = u

(* A thread whose stop event stays set ends, in whatever step of a pass,   *)
(* or wait, the event found it.                                            *)
StopEndsThreads == <>[]stop_event => <>[](\A t \in Threads : ~Alive(t))

Due(r) == Expired(runs[r], now - OlderThan, KeepLabeled)

(* scheduler.py:68: "The scheduler survives the failure and tries again on *)
(* the next interval", so no run stays due for good while the server is up.*)
DueRunsGo == \A r \in RunIds : ~<>[](server = "up" /\ Due(r))

(* scheduler.py:59, stop() waits "for the current pass to finish": once    *)
(* it has returned, and until the next start(), no thread of the scheduler *)
(* deletes runs.                                                           *)
StopWaitsForPass == server = "down" => \A t \in Threads : loop[t] # "pass"
=============================================================================
