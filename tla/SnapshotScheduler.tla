------------------------- MODULE SnapshotScheduler -------------------------
(***************************************************************************)
(* When the house tells its phones about a change.                         *)
(*                                                                         *)
(* A mapped state change calls push.SnapshotScheduler.request, which arms  *)
(* one loop timer (trailing debounce, bounded by a maximum wait, pushed    *)
(* out by a minimum interval since the last emit).  The timer queues a     *)
(* task that builds and fires the presentation document.  Setup and every  *)
(* options reload emit too, outside the scheduler, and an unload can come  *)
(* between any two of these steps.                                         *)
(*                                                                         *)
(* Everything runs on the event loop, so each callback is one action.  The *)
(* loop is assumed not to be blocked: time does not pass an expired timer  *)
(* or a queued task.                                                       *)
(***************************************************************************)
EXTENDS Integers

CONSTANTS
    Debounce,    \* SNAPSHOT_DEBOUNCE_SECONDS
    MaxWait,     \* SNAPSHOT_MAX_WAIT_SECONDS
    MinInterval, \* SNAPSHOT_MIN_INTERVAL_SECONDS
    MaxTime,     \* bound on the clock
    MaxTasks     \* bound on queued emit tasks

None == -1
MinOf(a, b) == IF a < b THEN a ELSE b
MaxOf(a, b) == IF a > b THEN a ELSE b

ASSUME DelayAssumption ==
    /\ Debounce \in Nat /\ MaxWait \in Nat /\ MinInterval \in Nat
    /\ Debounce <= MaxWait
    /\ MinInterval <= MaxWait
ASSUME SchedulerBoundAssumption == MaxTime \in Nat /\ MaxTasks \in Nat

VARIABLES
    now,          \* the scheduler's clock
    loaded,       \* the config entry is set up and its listener bound
    made,         \* runtime["scheduler"] exists (it is created by the first request)
    handle,       \* when the armed timer expires, or None
    firstPending, \* _first_pending, or None
    lastEmit,     \* _last_emit, or None
    tasks,        \* _emit_snapshot tasks queued by _fire
    unshown,      \* history: a mapped change since the last document was fired
    lost,         \* history: the build that was to show it raised, with nothing
                  \* left to try again
    uncovered,    \* history: time of the oldest change this entry heard of since
                  \* it last tried to build a document
    lastFire      \* history: when this scheduler last fired

timerVars == <<made, handle, firstPending, lastEmit, lastFire>>
changeVars == <<unshown, lost, uncovered>>
schedulerVars == <<now, loaded, timerVars, tasks, changeVars>>

Time == Nat \cup {None}

SchedulerTypeOK ==
    /\ now \in Nat
    /\ loaded \in BOOLEAN /\ made \in BOOLEAN
    /\ unshown \in BOOLEAN /\ lost \in BOOLEAN
    /\ handle \in Time /\ firstPending \in Time /\ lastEmit \in Time
    /\ uncovered \in Time /\ lastFire \in Time
    /\ tasks \in Nat

SchedulerInit ==
    /\ now = 0
    /\ loaded = FALSE /\ made = FALSE
    /\ handle = None /\ firstPending = None /\ lastEmit = None
    /\ tasks = 0
    /\ unshown = FALSE /\ lost = FALSE /\ uncovered = None
    /\ lastFire = None

\* The event loop runs what is due before time moves on.
Tick ==
    /\ now < MaxTime
    /\ tasks = 0
    /\ handle = None \/ now < handle
    /\ now' = now + 1
    /\ UNCHANGED <<loaded, timerVars, tasks, changeVars>>

-----------------------------------------------------------------------------
(* SnapshotScheduler *)

\* Seeded faults (each Fault... definition is a bug a property must notice): a
\* debounce without the maximum wait; a timer that ignores the last emit.
FaultNoMaxWait(first) ==
    IF lastEmit = None THEN now + Debounce
                       ELSE MaxOf(now + Debounce, lastEmit + MinInterval)
FaultNoThrottle(first) == MaxOf(now, MinOf(now + Debounce, first + MaxWait))

\* The time a request at `now` arms the timer for.
DueAt(first) ==
    LET trailing == MinOf(now + Debounce, first + MaxWait)
        due == IF lastEmit = None THEN trailing
                                  ELSE MaxOf(trailing, lastEmit + MinInterval)
    IN  MaxOf(now, due)

\* The history of a change the listener hears: what the scheduler was asked for
\* now covers whatever an earlier build failed to show.
Heard ==
    /\ unshown' = TRUE
    /\ lost' = FALSE
    /\ uncovered' = IF uncovered = None THEN now ELSE uncovered

\* Seeded fault: a change inside the throttle window is dropped.
FaultDropsThrottled ==
    /\ loaded
    /\ LET first == IF firstPending = None THEN now ELSE firstPending
           throttled == lastEmit # None /\ now < lastEmit + MinInterval IN
          /\ firstPending' = IF throttled THEN firstPending ELSE first
          /\ handle' = IF throttled THEN handle ELSE DueAt(first)
    /\ made' = TRUE
    /\ Heard
    /\ UNCHANGED <<now, loaded, lastEmit, tasks, lastFire>>

\* A mapped state changed while the listener is bound.
Request ==
    /\ loaded
    /\ LET first == IF firstPending = None THEN now ELSE firstPending IN
          /\ firstPending' = first
          /\ handle' = DueAt(first)
    /\ made' = TRUE
    /\ Heard
    /\ UNCHANGED <<now, loaded, lastEmit, tasks, lastFire>>

\* A mapped state changes while the entry is unloaded: no listener is bound.
Unheard ==
    /\ ~loaded
    /\ unshown' = TRUE
    /\ UNCHANGED <<now, loaded, timerVars, tasks, lost, uncovered>>

Fire ==
    /\ handle # None
    /\ now >= handle
    /\ tasks < MaxTasks
    /\ handle' = None
    /\ firstPending' = None
    /\ lastEmit' = now
    /\ lastFire' = now
    /\ tasks' = tasks + 1
    /\ UNCHANGED <<now, loaded, made, changeVars>>

-----------------------------------------------------------------------------
(* _emit_snapshot and its callers *)

\* The document is built and fired; the emit is noted if the entry's runtime
\* has a scheduler.
Emitted ==
    /\ lastEmit' = IF made THEN now ELSE lastEmit
    /\ unshown' = FALSE
    /\ lost' = FALSE
    /\ uncovered' = None

\* The build raises: logged, nothing is emitted or noted, and nothing is armed to
\* try again.
BuildFails ==
    /\ uncovered' = None
    /\ lost' = (unshown /\ handle = None /\ tasks' = 0)
    /\ UNCHANGED <<lastEmit, unshown>>

Emit == Emitted \/ BuildFails

RunTask ==
    /\ tasks > 0
    /\ tasks' = tasks - 1
    /\ Emit
    /\ UNCHANGED <<now, loaded, made, handle, firstPending, lastFire>>

\* async_setup_entry: a new runtime without a scheduler, the listener, a first
\* emit.
Setup ==
    /\ ~loaded
    /\ loaded' = TRUE
    /\ UNCHANGED <<now, made, handle, firstPending, tasks, lastFire>>
    /\ Emit

\* _options_updated: the listener is bound again and a document emitted; an
\* armed timer stays armed.
OptionsUpdated ==
    /\ loaded
    /\ UNCHANGED <<now, loaded, made, handle, firstPending, tasks, lastFire>>
    /\ Emit

\* async_unload_entry drops the runtime, cancels the timer, unbinds the
\* listener.  A change that has no document stays without one: a task queued
\* before can still fire it, and so can the next setup.
Unload ==
    /\ loaded
    /\ loaded' = FALSE
    /\ made' = FALSE
    /\ handle' = None
    /\ firstPending' = None
    /\ lastEmit' = None
    /\ lastFire' = None
    /\ uncovered' = None
    /\ UNCHANGED <<now, tasks, unshown, lost>>

SchedulerNext ==
    \/ Tick \/ Request \/ Unheard \/ Fire \/ RunTask
    \/ Setup \/ OptionsUpdated \/ Unload

SchedulerSpec == SchedulerInit /\ [][SchedulerNext]_schedulerVars

-----------------------------------------------------------------------------
(* Properties. *)

\* No change of a loaded entry is forgotten: until a document that shows it is
\* fired, a timer is armed or an emit is queued, through reloads, unloads,
\* changes nobody heard, and throttling.  The one exception is the code's own
\* gap: the last build that was to show the change raised (it is logged and
\* nothing is armed again), and no change was heard since.
NoForgottenChange ==
    loaded /\ unshown => handle # None \/ tasks > 0 \/ lost

\* "a continuous stream of changes still emits at most MAX_WAIT after the first
\* pending change": a loaded entry never leaves a change it heard longer than
\* that without trying to build a document, whatever reloads and throttling do
\* to the timer.  A try that raises ends the wait, and the next change starts
\* one of its own.
FreshWithinMaxWait ==
    uncovered # None => now - uncovered <= MaxWait

\* The scheduler itself never fires twice within the minimum interval.
FiresApart ==
    [][Fire /\ lastFire # None => now - lastFire >= MinInterval]_schedulerVars
=============================================================================
