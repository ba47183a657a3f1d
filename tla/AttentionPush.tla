--------------------------- MODULE AttentionPush ---------------------------
(***************************************************************************)
(* Attention pushes: how a house alarm becomes a phone notification.       *)
(*                                                                         *)
(* __init__._consider_attention captures the FIRE facts on the event loop  *)
(* and hands them to an executor thread; notify.dispatch_attention_pushes  *)
(* plans against the persisted store (baseline classes and debounce        *)
(* stamps of notify.json) under _NOTIFY_LOCK; every planned push is then   *)
(* POSTed outside the lock, retried on a timer, and only a 2xx commits its *)
(* stamp and baseline.  Evaluations, posts, timers and commits of several  *)
(* threads interleave; the process may restart between any two steps.      *)
(*                                                                         *)
(* A mapped item is abstracted to the class classify_fact gives its fact   *)
(* (Quiet when the fact is missing, unavailable or not a FIRE state).      *)
(* Times are whole ticks of one clock that never runs backwards.           *)
(***************************************************************************)
EXTENDS Integers, FiniteSets

CONSTANTS
    Item,        \* mapped items
    Card,        \* presentation cards
    CardOf,      \* the card each item is shown on
    FireClass,   \* classes classify_fact can return ("security.smoke", "alert", ...)
    Quiet,       \* classify_fact returned None
    Job,         \* executor threads that can hold an evaluation
    Window,      \* DEBOUNCE_SECONDS
    Horizon,     \* age at which a stamp is pruned: max(window * 4, 6 h)
    MaxAttempts, \* PUSH_MAX_ATTEMPTS
    RetryDelay,  \* PUSH_RETRY_DELAYS
    MaxTime,     \* bound on the clock
    MaxFaults    \* bound on restarts and failed store writes together

Level == FireClass \cup {Quiet}
StampKey == Card \X FireClass
Never == -1

ASSUME CardOfAssumption == CardOf \in [Item -> Card]
ASSUME QuietAssumption == Quiet \notin FireClass
ASSUME TimingAssumption ==
    /\ Window \in Nat
    /\ Horizon \in Nat
    /\ Window <= Horizon
    /\ MaxAttempts \in Nat \ {0}
    /\ RetryDelay \in [1..(MaxAttempts - 1) -> Nat]
ASSUME BoundAssumption == MaxTime \in Nat /\ MaxFaults \in Nat

VARIABLES
    now,      \* time.time()
    live,     \* the class of every item in Home Assistant right now
    keyed,    \* a usable hek_ is in the entry options
    jobs,     \* evaluations handed to the executor and not yet planned
    seeded,   \* persisted: attention.seeded
    classes,  \* persisted: attention.classes, the FIRE baseline
    pushed,   \* persisted: attention.pushed, the debounce stamps
    inflight, \* memory: _ATTENTION_INFLIGHT
    sends,    \* memory: pushes between planning and release
    faults,   \* restarts and failed writes so far
    settled   \* history: stamp keys the backend answered 2xx for, or that were
              \* taken as baseline when there was nothing to send

clockVars == <<now, live, keyed>>
storeVars == <<seeded, classes, pushed>>
vars == <<now, live, keyed, jobs, seeded, classes, pushed, inflight,
          sends, faults, settled>>

Evaluation == [facts : [Item -> Level], usable : BOOLEAN, since : Nat]
Idle == [facts |-> [i \in Item |-> Quiet], usable |-> FALSE, since |-> Never]

\* One push between planning and release.
\*   ready  about to POST          wait  its retry timer is armed
\*   acked  2xx, not yet committed done  finished, inflight not yet released
\* overtaken is history: an evaluation planned since found the item elsewhere.
Send == [item : Item, fire : FireClass, prev : Level, stamp : Nat,
         attempt : 1..MaxAttempts, due : Nat,
         phase : {"ready", "wait", "acked", "done"}, overtaken : BOOLEAN]

KeyOf(i, c) == <<CardOf[i], c>>
SendKey(s) == KeyOf(s.item, s.fire)

TypeOK ==
    /\ now \in Nat
    /\ live \in [Item -> Level]
    /\ keyed \in BOOLEAN
    /\ jobs \in [Job -> Evaluation \cup {Idle}]
    /\ seeded \in BOOLEAN
    /\ classes \in [Item -> Level]
    /\ pushed \in [StampKey -> Nat \cup {Never}]
    /\ inflight \in SUBSET StampKey
    /\ sends \in SUBSET Send
    /\ faults \in Nat
    /\ settled \in SUBSET StampKey

\* A fresh house: no notify.json yet.
Init ==
    /\ now = 0
    /\ live \in [Item -> Level]
    /\ keyed \in BOOLEAN
    /\ jobs = [j \in Job |-> Idle]
    /\ seeded = FALSE
    /\ classes = [i \in Item |-> Quiet]
    /\ pushed = [k \in StampKey |-> Never]
    /\ inflight = {}
    /\ sends = {}
    /\ faults = 0
    /\ settled = {}

-----------------------------------------------------------------------------
(* The environment. *)

Tick ==
    /\ now < MaxTime
    /\ now' = now + 1
    /\ UNCHANGED <<live, keyed, jobs, storeVars, inflight, sends, faults,
                   settled>>

\* A mapped entity changes.
LiveChange(i, c) ==
    /\ c # live[i]
    /\ live' = [live EXCEPT ![i] = c]
    /\ UNCHANGED <<now, keyed, jobs, storeVars, inflight, sends, faults,
                   settled>>

\* POST /event_key stores a usable key in the entry options.
InstallKey ==
    /\ ~keyed
    /\ keyed' = TRUE
    /\ UNCHANGED <<now, live, jobs, storeVars, inflight, sends, faults,
                   settled>>

-----------------------------------------------------------------------------
(* An evaluation: captured on the loop at any emit (SnapshotScheduler says  *)
(* when those happen), planned later in the executor.                       *)

Evaluate(j) ==
    /\ jobs[j] = Idle
    /\ jobs' = [jobs EXCEPT ![j] = [facts |-> live, usable |-> keyed,
                                    since |-> now]]
    /\ UNCHANGED <<now, live, keyed, storeVars, inflight, sends, faults,
                   settled>>

\* Seeded fault (each Fault... definition is a bug a property must notice): a
\* window one tick short.
FaultShortWindow(k, t) == pushed[k] # Never /\ t - pushed[k] < Window - 1

\* Seeded fault: the window of a card silences all its classes.
FaultCardDebounce(k, t) ==
    \E l \in StampKey : l[1] = k[1] /\ pushed[l] # Never /\ t - pushed[l] < Window

\* The stamp of k is younger than the debounce window at time t.
Recent(k, t) == pushed[k] # Never /\ t - pushed[k] < Window

\* Items that moved into a FIRE class their baseline does not hold yet.
Transitions(f) == {i \in Item : seeded /\ f[i] # Quiet /\ f[i] # classes[i]}

\* ... and that the debounce window does not silence.
Alarming(f, t) == {i \in Transitions(f) : ~Recent(KeyOf(i, f[i]), t)}

\* Seeded fault: a plan that does not look at what is in flight.
FaultIgnoresInflight(f, t) ==
    {W \in SUBSET Alarming(f, t) :
        /\ \A i, h \in W : KeyOf(i, f[i]) = KeyOf(h, f[h]) => i = h
        /\ \A i \in Alarming(f, t) : \E w \in W : KeyOf(w, f[w]) = KeyOf(i, f[i])}

\* The items a plan may push: one per stamp key that is not in flight (the
\* first in mapping order, which the model leaves open).
Chosen(f, t) ==
    {W \in SUBSET Alarming(f, t) :
        /\ \A i \in W : KeyOf(i, f[i]) \notin inflight
        /\ \A i, h \in W : KeyOf(i, f[i]) = KeyOf(h, f[h]) => i = h
        /\ \A i \in Alarming(f, t) :
              KeyOf(i, f[i]) \notin inflight =>
                  \E w \in W : KeyOf(w, f[w]) = KeyOf(i, f[i])}

\* Seeded fault: the baseline moves when the push is planned.
FaultEagerBaseline(f, t) == [i \in Item |-> f[i]]

\* defer_commit: an alarming item keeps its old baseline until a 2xx.
DeferredBaseline(f, t) ==
    [i \in Item |-> IF i \in Alarming(f, t) THEN classes[i] ELSE f[i]]

\* Stamps as old as the horizon are dropped.
Pruned(t) ==
    [k \in StampKey |->
        IF pushed[k] # Never /\ t - pushed[k] >= Horizon THEN Never ELSE pushed[k]]

\* Seeded fault: the delay after the first attempt counted from the start.
FaultStampAhead(i, f, t) ==
    [item |-> i, fire |-> f[i], prev |-> classes[i], stamp |-> t + RetryDelay[1],
     attempt |-> 1, due |-> t, phase |-> "ready", overtaken |-> FALSE]

NewSend(i, f, t) ==
    [item |-> i, fire |-> f[i], prev |-> classes[i], stamp |-> t,
     attempt |-> 1, due |-> t, phase |-> "ready", overtaken |-> FALSE]

Overtake(f) ==
    {[s EXCEPT !.overtaken = s.overtaken \/ f[s.item] # s.fire] : s \in sends}

Keys(f) == {KeyOf(i, f[i]) : i \in {h \in Item : f[h] # Quiet}}

\* First sight: the baseline is recorded and nothing is pushed.
PlanSeed(j) ==
    /\ jobs[j] # Idle
    /\ ~seeded
    /\ seeded' = TRUE
    /\ classes' = jobs[j].facts
    /\ settled' = settled \cup Keys(jobs[j].facts)
    /\ sends' = Overtake(jobs[j].facts)
    /\ jobs' = [jobs EXCEPT ![j] = Idle]
    /\ UNCHANGED <<clockVars, pushed, inflight, faults>>

\* No usable key: the baseline moves, each transition is only logged as
\* missing_key.
PlanNoKey(j) ==
    /\ jobs[j] # Idle
    /\ seeded
    /\ ~jobs[j].usable
    /\ classes' = jobs[j].facts
    /\ settled' = settled \cup Keys(jobs[j].facts)
    /\ sends' = Overtake(jobs[j].facts)
    /\ jobs' = [jobs EXCEPT ![j] = Idle]
    /\ UNCHANGED <<clockVars, seeded, pushed, inflight, faults>>

\* With a key.  The moment is read before the lock is taken, so it may lie
\* anywhere between the evaluation and the planning.
PlanSend(j) ==
    /\ jobs[j] # Idle
    /\ seeded
    /\ jobs[j].usable
    /\ LET f == jobs[j].facts IN
       \E t \in jobs[j].since .. now :
       \E W \in Chosen(f, t) :
          /\ classes' = DeferredBaseline(f, t)
          /\ pushed' = Pruned(t)
          /\ inflight' = inflight \cup {KeyOf(i, f[i]) : i \in W}
          /\ sends' = Overtake(f) \cup {NewSend(i, f, t) : i \in W}
    /\ jobs' = [jobs EXCEPT ![j] = Idle]
    /\ UNCHANGED <<clockVars, seeded, faults, settled>>

\* The store write raises: the exception is logged and the evaluation is lost.
PlanFails(j) ==
    /\ jobs[j] # Idle
    /\ faults < MaxFaults
    /\ faults' = faults + 1
    /\ jobs' = [jobs EXCEPT ![j] = Idle]
    /\ UNCHANGED <<clockVars, storeVars, inflight, sends, settled>>

-----------------------------------------------------------------------------
(* One push: attempts, retry timer, commit, release. *)

Become(s, t) == sends' = (sends \ {s}) \cup {t}

\* 2xx.
PostOk(s) ==
    /\ s.phase = "ready"
    /\ Become(s, [s EXCEPT !.phase = "acked"])
    /\ settled' = settled \cup {SendKey(s)}
    /\ UNCHANGED <<clockVars, jobs, storeVars, inflight, faults>>

\* Timeout, connection error, 5xx or 429 with attempts left: arm the timer.
PostRetry(s) ==
    /\ s.phase = "ready"
    /\ s.attempt < MaxAttempts
    /\ Become(s, [s EXCEPT !.phase = "wait",
                           !.attempt = s.attempt + 1,
                           !.due = now + RetryDelay[s.attempt],
                           !.stamp = s.stamp + RetryDelay[s.attempt]])
    /\ UNCHANGED <<clockVars, jobs, storeVars, inflight, faults, settled>>

\* Seeded fault: the last failure forgets to release the stamp key.
FaultLeaksInflight(s) ==
    /\ s.phase = "ready"
    /\ sends' = sends \ {s}
    /\ UNCHANGED <<clockVars, jobs, storeVars, inflight, faults, settled>>

\* Another 4xx, the last attempt failed, or the retry could not be scheduled.
PostGivesUp(s) ==
    /\ s.phase = "ready"
    /\ Become(s, [s EXCEPT !.phase = "done"])
    /\ UNCHANGED <<clockVars, jobs, storeVars, inflight, faults, settled>>

RetryFires(s) ==
    /\ s.phase = "wait"
    /\ now >= s.due
    /\ Become(s, [s EXCEPT !.phase = "ready"])
    /\ UNCHANGED <<clockVars, jobs, storeVars, inflight, faults, settled>>

\* commit_attention_success under the lock: stamp, and move the baseline if it
\* still is what it was when the push was planned.
Commit(s) ==
    /\ s.phase = "acked"
    /\ pushed' = [pushed EXCEPT ![SendKey(s)] = s.stamp]
    /\ classes' = IF classes[s.item] = s.prev
                    THEN [classes EXCEPT ![s.item] = s.fire]
                    ELSE classes
    /\ Become(s, [s EXCEPT !.phase = "done"])
    /\ UNCHANGED <<clockVars, jobs, seeded, inflight, faults, settled>>

\* The commit's write raises: logged, nothing is stamped.
CommitFails(s) ==
    /\ s.phase = "acked"
    /\ faults < MaxFaults
    /\ faults' = faults + 1
    /\ Become(s, [s EXCEPT !.phase = "done"])
    /\ UNCHANGED <<clockVars, jobs, storeVars, inflight, settled>>

Release(s) ==
    /\ s.phase = "done"
    /\ inflight' = inflight \ {SendKey(s)}
    /\ sends' = sends \ {s}
    /\ UNCHANGED <<clockVars, jobs, storeVars, faults, settled>>

\* Seeded fault: the stamp keys in flight survive the restart.
FaultInflightSurvives ==
    /\ faults < MaxFaults
    /\ faults' = faults + 1
    /\ jobs' = [j \in Job |-> Idle]
    /\ sends' = {}
    /\ UNCHANGED <<now, live, keyed, storeVars, inflight, settled>>

\* Home Assistant restarts: notify.json survives, everything else is gone.
Restart ==
    /\ faults < MaxFaults
    /\ faults' = faults + 1
    /\ jobs' = [j \in Job |-> Idle]
    /\ inflight' = {}
    /\ sends' = {}
    /\ UNCHANGED <<now, live, keyed, storeVars, settled>>

-----------------------------------------------------------------------------
PlanStep(j) == PlanSeed(j) \/ PlanNoKey(j) \/ PlanSend(j) \/ PlanFails(j)

SendStep(s) ==
    \/ PostOk(s) \/ PostRetry(s) \/ PostGivesUp(s) \/ RetryFires(s)
    \/ Commit(s) \/ CommitFails(s) \/ Release(s)

Next ==
    \/ Tick
    \/ \E i \in Item, c \in Level : LiveChange(i, c)
    \/ InstallKey
    \/ \E j \in Job : Evaluate(j) \/ PlanStep(j)
    \/ \E s \in sends : SendStep(s)
    \/ Restart

Spec == Init /\ [][Next]_vars

\* The executor runs every queued job, and every push goes on: its POST is
\* answered or times out, the loop fires its timer.  Nothing obliges a state to
\* change.
Fairness ==
    /\ WF_vars(Tick)
    /\ \A j \in Job : WF_vars(PlanStep(j))
    /\ \A k \in StampKey : WF_vars(\E s \in sends : SendKey(s) = k /\ SendStep(s))

FairSpec == Spec /\ Fairness

-----------------------------------------------------------------------------
(* Properties. *)

\* At most one push per (card, class) is anywhere between planning and release,
\* and _ATTENTION_INFLIGHT names exactly the pushes that are: no leaked stamp
\* that would silence a card for ever, none released while its push still runs.
OnePushPerStamp ==
    /\ \A s, t \in sends : SendKey(s) = SendKey(t) => s = t
    /\ inflight = {SendKey(s) : s \in sends}

\* A debounce stamp never lies in the future: base time plus the delays slept
\* is not later than the clock, whatever the retries, so that no card stays
\* silent longer than the window after its last answered push.
StampsInThePast ==
    /\ \A k \in StampKey : pushed[k] <= now
    /\ \A s \in sends : s.stamp <= IF s.phase = "wait" THEN s.due ELSE now

\* No alarm is dropped by a failed send, a retry or a restart: an item's
\* persisted baseline holds a FIRE class only if the backend answered 2xx for
\* that card and class, or there was nothing to send (first sight, no key).
NoSilentDrop ==
    \A i \in Item : classes[i] # Quiet =>
        KeyOf(i, classes[i]) \in settled

\* Two stamps of one (card, class) are at least the window apart: the same
\* alarm is not repeated inside it, however evaluations, posts, commits and
\* releases of several threads interleave.
DebounceHolds ==
    [][\A k \in StampKey :
          pushed[k] # Never /\ pushed'[k] # Never /\ pushed'[k] # pushed[k] =>
              pushed'[k] - pushed[k] >= Window]_vars

\* commit_attention_success: a later evaluation that saw the item in another
\* class wins over the push's own class.  The code does not keep this (README,
\* Findings).
NewerBaselineWins ==
    [][\A s \in sends :
          Commit(s) /\ s.overtaken =>
              classes'[s.item] = classes[s.item]]_vars

\* Every stamp key that enters flight leaves it: answered, given up on, or
\* lost with a restart.
InflightDrains ==
    \A k \in StampKey : k \in inflight ~> k \notin inflight

\* An alarm that persists is delivered: when an item stays in a FIRE class in a
\* house with a key, evaluations keep coming and the backend eventually stops
\* refusing, its baseline settles on that class - which NoSilentDrop ties to a
\* 2xx.
AlarmDelivered ==
    \A i \in Item, c \in FireClass :
        (/\ <>[](live[i] = c /\ keyed)
         /\ []<><<\E j \in Job : Evaluate(j)>>_vars
         /\ <>[][~ \E s \in sends : PostRetry(s) \/ PostGivesUp(s)]_vars)
        => <>[](classes[i] = c)
=============================================================================
