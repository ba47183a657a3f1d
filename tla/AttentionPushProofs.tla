------------------------ MODULE AttentionPushProofs ------------------------
(***************************************************************************)
(* Proofs about AttentionPush, for every set of items, cards, classes and  *)
(* executor threads, every debounce window and every retry schedule.       *)
(*                                                                         *)
(* Inv is inductive.  OnePushPerStamp is inductive next to TypeOK; the     *)
(* stamps need the age of a pending evaluation (JobsInThePast); the       *)
(* baseline needs to know that an uncommitted 2xx and a live stamp both    *)
(* come from an answered push (Answered); and the debounce needs every     *)
(* push in flight to be a window younger than the stamp it will replace    *)
(* (SendsPastWindow).                                                      *)
(***************************************************************************)
EXTENDS AttentionPush, TLAPS

JobsInThePast == \A j \in Job : jobs[j].since <= now

Answered ==
    /\ \A k \in StampKey : pushed[k] # Never => k \in settled
    /\ \A s \in sends : s.phase = "acked" => SendKey(s) \in settled

SendsPastWindow ==
    \A s \in sends :
        s.phase # "done" /\ pushed[SendKey(s)] # Never =>
            s.stamp - pushed[SendKey(s)] >= Window

Inv ==
    /\ TypeOK
    /\ OnePushPerStamp
    /\ JobsInThePast
    /\ StampsInThePast
    /\ Answered
    /\ NoSilentDrop
    /\ SendsPastWindow

-----------------------------------------------------------------------------
(* Lemmas about the operators. *)

\* A push of a typed item and class has a stamp key.
LEMMA KeyType == \A i \in Item, c \in FireClass : KeyOf(i, c) \in StampKey
BY CardOfAssumption DEF KeyOf, StampKey

\* The key of a push is a stamp key.
LEMMA SendKeyType == \A s \in Send : SendKey(s) \in StampKey
BY KeyType DEF SendKey, Send

\* What a plan may push is a set of alarming items, each in a FIRE class.
LEMMA ChosenType ==
    ASSUME NEW f \in [Item -> Level], NEW t \in Int, NEW W \in Chosen(f, t)
    PROVE  /\ W \subseteq Item
           /\ \A i \in W : f[i] \in FireClass /\ KeyOf(i, f[i]) \in StampKey
BY KeyType DEF Chosen, Alarming, Transitions, Level

\* Overtaking changes only the history flag.
LEMMA OvertakeType ==
    ASSUME NEW f \in [Item -> Level], sends \in SUBSET Send
    PROVE  Overtake(f) \in SUBSET Send
BY DEF Overtake, Send

\* Overtaking changes nothing in a push but the mark that it was.
LEMMA OvertakeKeeps ==
    ASSUME NEW f, sends \in SUBSET Send, NEW s \in Overtake(f)
    PROVE  \E o \in sends :
              /\ s = [o EXCEPT !.overtaken = o.overtaken \/ f[o.item] # o.fire]
              /\ s.item = o.item /\ s.fire = o.fire /\ s.stamp = o.stamp
              /\ s.phase = o.phase /\ s.due = o.due
              /\ SendKey(s) = SendKey(o)
BY DEF Overtake, Send, SendKey

\* Overtaking changes no key of the pushes in flight.
LEMMA OvertakeKeys ==
    ASSUME NEW f, sends \in SUBSET Send
    PROVE  {SendKey(s) : s \in Overtake(f)} = {SendKey(s) : s \in sends}
<1>1. ASSUME NEW s \in sends
      PROVE  \E r \in Overtake(f) : SendKey(r) = SendKey(s)
  <2>1. [s EXCEPT !.overtaken = s.overtaken \/ f[s.item] # s.fire] \in Overtake(f)
    BY DEF Overtake
  <2>2. QED BY <2>1 DEF SendKey, Send
<1>2. ASSUME NEW r \in Overtake(f)
      PROVE  \E s \in sends : SendKey(r) = SendKey(s)
  BY OvertakeKeeps
<1>3. QED BY <1>1, <1>2

\* A fresh push.
LEMMA NewSendType ==
    ASSUME TypeOK, NEW f \in [Item -> Level], NEW t \in Nat,
           NEW i \in Item, f[i] \in FireClass
    PROVE  /\ NewSend(i, f, t) \in Send
           /\ SendKey(NewSend(i, f, t)) = KeyOf(i, f[i])
BY TimingAssumption DEF NewSend, Send, SendKey, TypeOK

-----------------------------------------------------------------------------
(* Type correctness. *)

LEMMA TypeInit == Init => TypeOK
<1> SUFFICES ASSUME Init PROVE TypeOK
  OBVIOUS
<1>1. jobs \in [Job -> Evaluation \cup {Idle}]
  BY DEF Init
<1>2. classes \in [Item -> Level]
  BY DEF Init, Level
<1>3. pushed \in [StampKey -> Nat \cup {Never}]
  BY DEF Init
<1>4. QED BY <1>1, <1>2, <1>3 DEF Init, TypeOK

\* A step of a push keeps the types.
LEMMA TypeSend ==
    ASSUME TypeOK, NEW s \in sends, SendStep(s)
    PROVE  TypeOK'
<1> USE DEF TypeOK
<1>0. s \in Send /\ SendKey(s) \in StampKey
  BY SendKeyType
<1>1. CASE PostOk(s)
  BY <1>0, <1>1 DEF PostOk, Become, Send, clockVars, storeVars
<1>2. CASE PostRetry(s)
  <2>1. RetryDelay[s.attempt] \in Nat /\ s.attempt + 1 \in 1..MaxAttempts
    BY <1>0, <1>2, TimingAssumption DEF PostRetry, Send
  <2>2. now + RetryDelay[s.attempt] \in Nat /\ s.stamp + RetryDelay[s.attempt] \in Nat
    BY <1>0, <2>1 DEF Send
  <2> DEFINE r == [s EXCEPT !.phase = "wait",
                            !.attempt = s.attempt + 1,
                            !.due = now + RetryDelay[s.attempt],
                            !.stamp = s.stamp + RetryDelay[s.attempt]]
  <2>3. r \in Send
    BY <1>0, <2>1, <2>2 DEF Send
  <2>4. sends' = (sends \ {s}) \cup {r}
    BY <1>2 DEF PostRetry, Become
  <2>5. QED BY <1>2, <2>3, <2>4 DEF PostRetry, clockVars, storeVars
<1>3. CASE PostGivesUp(s)
  BY <1>0, <1>3 DEF PostGivesUp, Become, Send, clockVars, storeVars
<1>4. CASE RetryFires(s)
  BY <1>0, <1>4 DEF RetryFires, Become, Send, clockVars, storeVars
<1>5. CASE Commit(s)
  <2>1. s.stamp \in Nat /\ s.fire \in Level
    BY <1>0 DEF Send, Level
  <2>2. sends' \in SUBSET Send
    BY <1>0, <1>5 DEF Commit, Become, Send
  <2>3. pushed' \in [StampKey -> Nat \cup {Never}] /\ classes' \in [Item -> Level]
    BY <1>5, <2>1 DEF Commit
  <2>4. QED BY <1>5, <2>2, <2>3 DEF Commit, clockVars
<1>6. CASE CommitFails(s)
  BY <1>0, <1>6 DEF CommitFails, Become, Send, clockVars, storeVars
<1>7. CASE Release(s)
  BY <1>7 DEF Release, clockVars, storeVars
<1>8. QED
  BY <1>1, <1>2, <1>3, <1>4, <1>5, <1>6, <1>7 DEF SendStep

\* A plan keeps the types.
LEMMA TypePlan ==
    ASSUME TypeOK, NEW j \in Job, PlanStep(j)
    PROVE  TypeOK'
<1> USE DEF TypeOK
<1>0. jobs[j] # Idle
  BY DEF PlanStep, PlanSeed, PlanNoKey, PlanSend, PlanFails
<1>1. jobs[j] \in Evaluation /\ jobs[j].facts \in [Item -> Level]
  BY <1>0 DEF Evaluation
<1>2. jobs' \in [Job -> Evaluation \cup {Idle}]
  BY DEF PlanStep, PlanSeed, PlanNoKey, PlanSend, PlanFails
<1>3. Keys(jobs[j].facts) \subseteq StampKey
  BY <1>1, KeyType DEF Keys, Level
<1>4. CASE PlanSeed(j)
  BY <1>1, <1>2, <1>3, <1>4, OvertakeType DEF PlanSeed, clockVars
<1>5. CASE PlanNoKey(j)
  BY <1>1, <1>2, <1>3, <1>5, OvertakeType DEF PlanNoKey, clockVars
<1>6. CASE PlanSend(j)
  <2> DEFINE f == jobs[j].facts
  <2>1. PICK t \in jobs[j].since .. now : \E W \in Chosen(f, t) :
          /\ classes' = DeferredBaseline(f, t)
          /\ pushed' = Pruned(t)
          /\ inflight' = inflight \cup {KeyOf(i, f[i]) : i \in W}
          /\ sends' = Overtake(f) \cup {NewSend(i, f, t) : i \in W}
    BY <1>6 DEF PlanSend
  <2>2. PICK W \in Chosen(f, t) :
          /\ classes' = DeferredBaseline(f, t)
          /\ pushed' = Pruned(t)
          /\ inflight' = inflight \cup {KeyOf(i, f[i]) : i \in W}
          /\ sends' = Overtake(f) \cup {NewSend(i, f, t) : i \in W}
    BY <2>1
  <2>3. t \in Nat
    BY <1>1 DEF Evaluation
  <2> HIDE DEF f
  <2>4. f \in [Item -> Level]
    BY <1>1 DEF f
  <2>5. classes' \in [Item -> Level]
    BY <2>2, <2>4 DEF DeferredBaseline
  <2>6. pushed' \in [StampKey -> Nat \cup {Never}]
    BY <2>2 DEF Pruned
  <2>7. inflight' \in SUBSET StampKey
    BY <2>2, <2>3, <2>4, ChosenType
  <2>8. sends' \in SUBSET Send
    <3>1. \A i \in W : NewSend(i, f, t) \in Send
      BY <2>3, <2>4, ChosenType, NewSendType
    <3>2. QED BY <2>2, <2>4, <3>1, OvertakeType
  <2>9. QED BY <1>2, <1>6, <2>5, <2>6, <2>7, <2>8 DEF PlanSend, clockVars
<1>7. CASE PlanFails(j)
  BY <1>2, <1>7 DEF PlanFails, clockVars, storeVars
<1>8. QED
  BY <1>4, <1>5, <1>6, <1>7 DEF PlanStep

\* Every step keeps the types.
LEMMA TypeStep == TypeOK /\ [Next]_vars => TypeOK'
<1> SUFFICES ASSUME TypeOK, [Next]_vars PROVE TypeOK'
  OBVIOUS
<1> USE DEF TypeOK
<1>1. CASE Tick
  BY <1>1 DEF Tick, storeVars
<1>2. ASSUME NEW i \in Item, NEW c \in Level, LiveChange(i, c) PROVE TypeOK'
  BY <1>2 DEF LiveChange, storeVars
<1>3. CASE InstallKey
  BY <1>3 DEF InstallKey, storeVars
<1>4. ASSUME NEW j \in Job, Evaluate(j) PROVE TypeOK'
  BY <1>4 DEF Evaluate, storeVars, Evaluation
<1>5. ASSUME NEW j \in Job, PlanStep(j) PROVE TypeOK'
  BY <1>5, TypePlan
<1>6. ASSUME NEW s \in sends, SendStep(s) PROVE TypeOK'
  BY <1>6, TypeSend
<1>7. CASE Restart
  BY <1>7 DEF Restart, storeVars
<1>8. CASE UNCHANGED vars
  BY <1>8 DEF vars
<1>9. QED
  BY <1>1, <1>2, <1>3, <1>4, <1>5, <1>6, <1>7, <1>8 DEF Next

\* Every variable keeps its type, whatever the interleaving.
THEOREM TypeCorrect == Spec => []TypeOK
BY TypeInit, TypeStep, PTL DEF Spec
-----------------------------------------------------------------------------
(* One push per stamp key. *)

LEMMA UniqueSend ==
    ASSUME TypeOK, OnePushPerStamp, NEW s \in sends, SendStep(s)
    PROVE  OnePushPerStamp'
<1> USE DEF OnePushPerStamp
<1>0. s \in Send /\ sends \in SUBSET Send
  BY DEF TypeOK
<1>1. ASSUME NEW r, SendKey(r) = SendKey(s), Become(s, r), inflight' = inflight
      PROVE  OnePushPerStamp'
  <2>1. sends' = (sends \ {s}) \cup {r}
    BY <1>1 DEF Become
  <2>2. ASSUME NEW a \in sends', NEW b \in sends', SendKey(a) = SendKey(b)
        PROVE  a = b
    BY <1>1, <2>1, <2>2
  <2>3. {SendKey(a) : a \in sends'} = {SendKey(a) : a \in sends}
    BY <1>1, <2>1
  <2>4. QED BY <1>1, <2>2, <2>3 DEF SendKey
<1>2. CASE Release(s)
  <2>1. sends' = sends \ {s} /\ inflight' = inflight \ {SendKey(s)}
    BY <1>2 DEF Release
  <2>2. {SendKey(a) : a \in sends'} = {SendKey(a) : a \in sends} \ {SendKey(s)}
    BY <2>1
  <2>3. QED BY <2>1, <2>2 DEF SendKey
<1>3. CASE PostOk(s)
  BY <1>0, <1>1, <1>3 DEF PostOk, SendKey, Send
<1>4. CASE PostRetry(s)
  BY <1>0, <1>1, <1>4 DEF PostRetry, SendKey, Send
<1>5. CASE PostGivesUp(s)
  BY <1>0, <1>1, <1>5 DEF PostGivesUp, SendKey, Send
<1>6. CASE RetryFires(s)
  BY <1>0, <1>1, <1>6 DEF RetryFires, SendKey, Send
<1>7. CASE Commit(s)
  BY <1>0, <1>1, <1>7 DEF Commit, SendKey, Send
<1>8. CASE CommitFails(s)
  BY <1>0, <1>1, <1>8 DEF CommitFails, SendKey, Send
<1>9. QED
  BY <1>2, <1>3, <1>4, <1>5, <1>6, <1>7, <1>8 DEF SendStep

\* Overtaking renames no push and merges none.
LEMMA UniqueOvertake ==
    ASSUME TypeOK, OnePushPerStamp, NEW f,
           NEW a \in Overtake(f), NEW b \in Overtake(f), SendKey(a) = SendKey(b)
    PROVE  a = b
<1>0. sends \in SUBSET Send
  BY DEF TypeOK
<1>1. PICK x \in sends :
        /\ a = [x EXCEPT !.overtaken = x.overtaken \/ f[x.item] # x.fire]
        /\ SendKey(a) = SendKey(x)
  BY <1>0, OvertakeKeeps
<1>2. PICK y \in sends :
        /\ b = [y EXCEPT !.overtaken = y.overtaken \/ f[y.item] # y.fire]
        /\ SendKey(b) = SendKey(y)
  BY <1>0, OvertakeKeeps
<1>3. x = y
  BY <1>1, <1>2 DEF OnePushPerStamp
<1>4. QED BY <1>1, <1>2, <1>3

\* A plan starts no push for a stamp that has one in flight.
LEMMA UniquePlan ==
    ASSUME TypeOK, OnePushPerStamp, NEW j \in Job, PlanStep(j)
    PROVE  OnePushPerStamp'
<1>0. sends \in SUBSET Send /\ inflight = {SendKey(s) : s \in sends}
  BY DEF TypeOK, OnePushPerStamp
<1>1. ASSUME NEW f, sends' = Overtake(f), inflight' = inflight
      PROVE  OnePushPerStamp'
  <2>1. inflight' = {SendKey(s) : s \in sends'}
    BY <1>0, <1>1, OvertakeKeys
  <2>2. \A a, b \in sends' : SendKey(a) = SendKey(b) => a = b
    BY <1>1, UniqueOvertake
  <2>3. QED BY <2>1, <2>2 DEF OnePushPerStamp, SendKey
<1>2. CASE PlanSeed(j)
  BY <1>1, <1>2 DEF PlanSeed
<1>3. CASE PlanNoKey(j)
  BY <1>1, <1>3 DEF PlanNoKey
<1>4. CASE PlanSend(j)
  <2> DEFINE f == jobs[j].facts
  <2>0. PICK t \in jobs[j].since .. now : \E W \in Chosen(f, t) :
          /\ inflight' = inflight \cup {KeyOf(i, f[i]) : i \in W}
          /\ sends' = Overtake(f) \cup {NewSend(i, f, t) : i \in W}
    BY <1>4 DEF PlanSend
  <2>1. PICK W \in Chosen(f, t) :
          /\ inflight' = inflight \cup {KeyOf(i, f[i]) : i \in W}
          /\ sends' = Overtake(f) \cup {NewSend(i, f, t) : i \in W}
    BY <2>0
  <2>2. f \in [Item -> Level] /\ t \in Nat
    BY <1>4 DEF PlanSend, TypeOK, Evaluation
  <2> HIDE DEF f
  <2>3. /\ W \subseteq Item
        /\ \A i \in W : f[i] \in FireClass /\ SendKey(NewSend(i, f, t)) = KeyOf(i, f[i])
    BY <2>2, ChosenType, NewSendType
  <2>4. \A i, h \in W : KeyOf(i, f[i]) = KeyOf(h, f[h]) => i = h
    BY DEF Chosen
  <2>5. \A i \in W : KeyOf(i, f[i]) \notin inflight
    BY DEF Chosen
  <2>6. \A a \in Overtake(f) : SendKey(a) \in inflight
    BY <1>0, OvertakeKeeps
  <2>7. ASSUME NEW a \in sends', NEW b \in sends', SendKey(a) = SendKey(b)
        PROVE  a = b
    <3>1. CASE a \in Overtake(f) /\ b \in Overtake(f)
      BY <2>7, <3>1, UniqueOvertake
    <3>2. CASE a \in Overtake(f) /\ b \notin Overtake(f)
      BY <2>1, <2>3, <2>5, <2>6, <2>7, <3>2
    <3>3. CASE a \notin Overtake(f) /\ b \in Overtake(f)
      BY <2>1, <2>3, <2>5, <2>6, <2>7, <3>3
    <3>4. CASE a \notin Overtake(f) /\ b \notin Overtake(f)
      BY <2>1, <2>3, <2>4, <2>7, <3>4
    <3>5. QED BY <3>1, <3>2, <3>3, <3>4
  <2>8. {SendKey(s) : s \in sends'} =
          {SendKey(s) : s \in Overtake(f)} \cup {KeyOf(i, f[i]) : i \in W}
    BY <2>1, <2>3
  <2>9. inflight' = {SendKey(s) : s \in sends'}
    BY <1>0, <2>1, <2>8, OvertakeKeys
  <2>10. QED BY <2>7, <2>9 DEF OnePushPerStamp, SendKey
<1>5. CASE PlanFails(j)
  BY <1>5 DEF PlanFails, OnePushPerStamp, SendKey
<1>6. QED
  BY <1>2, <1>3, <1>4, <1>5 DEF PlanStep

\* Every step keeps one push for a stamp.
LEMMA UniqueStep ==
    ASSUME TypeOK, OnePushPerStamp, [Next]_vars
    PROVE  OnePushPerStamp'
<1>1. ASSUME UNCHANGED <<sends, inflight>> PROVE OnePushPerStamp'
  BY <1>1 DEF OnePushPerStamp, SendKey
<1>2. CASE Tick
  BY <1>1, <1>2 DEF Tick
<1>3. ASSUME NEW i \in Item, NEW c \in Level, LiveChange(i, c) PROVE OnePushPerStamp'
  BY <1>1, <1>3 DEF LiveChange
<1>4. CASE InstallKey
  BY <1>1, <1>4 DEF InstallKey
<1>5. ASSUME NEW j \in Job, Evaluate(j) PROVE OnePushPerStamp'
  BY <1>1, <1>5 DEF Evaluate
<1>6. CASE Restart
  BY <1>6 DEF Restart, OnePushPerStamp
<1>7. CASE UNCHANGED vars
  BY <1>1, <1>7 DEF vars
<1>8. QED
  BY <1>2, <1>3, <1>4, <1>5, <1>6, <1>7, UniquePlan, UniqueSend DEF Next

\* No two pushes of one (card, class) run at once and no stamp key stays in
\* flight without a push: the debounce can neither be bypassed by a second
\* thread nor silence a card for ever.
THEOREM OnePushAtATime == Spec => []OnePushPerStamp
<1>1. Init => OnePushPerStamp
  BY DEF Init, OnePushPerStamp
<1>2. TypeOK /\ OnePushPerStamp /\ [Next]_vars => OnePushPerStamp'
  BY UniqueStep
<1>3. QED BY <1>1, <1>2, TypeCorrect, PTL DEF Spec
-----------------------------------------------------------------------------
(* The rest of the inductive invariant. *)

\* The parts of Inv about the clock, the baseline and the debounce.
Bookkeeping ==
    JobsInThePast /\ StampsInThePast /\ Answered /\ NoSilentDrop /\ SendsPastWindow

\* Facts a step that only touches one push needs about every other push.
LEMMA BookSend ==
    ASSUME TypeOK, OnePushPerStamp, Bookkeeping, NEW s \in sends, SendStep(s)
    PROVE  Bookkeeping'
<1> USE DEF Bookkeeping
<1>0. s \in Send /\ sends \in SUBSET Send /\ SendKey(s) \in StampKey
      /\ now \in Nat /\ pushed \in [StampKey -> Nat \cup {Never}]
      /\ classes \in [Item -> Level]
  BY SendKeyType DEF TypeOK
<1>1. ASSUME NEW r, Become(s, r), SendKey(r) = SendKey(s),
             UNCHANGED <<now, jobs, classes, pushed>>,
             settled \subseteq settled',
             r.stamp <= IF r.phase = "wait" THEN r.due ELSE now,
             r.phase = "acked" => SendKey(s) \in settled',
             r.phase = "done" \/ (s.phase # "done" /\ r.stamp \in Nat /\ r.stamp >= s.stamp)
      PROVE  Bookkeeping'
  <2>1. sends' = (sends \ {s}) \cup {r}
    BY <1>1 DEF Become
  <2>2. JobsInThePast'
    BY <1>1 DEF JobsInThePast
  <2>3. StampsInThePast'
    BY <1>1, <2>1 DEF StampsInThePast
  <2>4. Answered'
    BY <1>1, <2>1 DEF Answered, SendKey
  <2>5. NoSilentDrop'
    BY <1>1 DEF NoSilentDrop, KeyOf
  <2>6. ASSUME NEW x \in sends', x.phase # "done", pushed[SendKey(x)] # Never
        PROVE  x.stamp - pushed[SendKey(x)] >= Window
    <3>1. CASE x \in sends
      BY <2>6, <3>1 DEF SendsPastWindow
    <3>2. CASE x = r
      <4>1. s.phase # "done" /\ r.stamp >= s.stamp /\ pushed[SendKey(s)] # Never
            /\ r.stamp \in Nat
        BY <1>1, <2>6, <3>2
      <4>2. s.stamp - pushed[SendKey(s)] >= Window
        BY <4>1 DEF SendsPastWindow
      <4>3. s.stamp \in Nat /\ pushed[SendKey(s)] \in Nat
        BY <1>0, <4>1 DEF Send
      <4>4. QED BY <1>1, <3>2, <4>1, <4>2, <4>3, TimingAssumption
    <3>3. QED BY <2>1, <3>1, <3>2
  <2>7. SendsPastWindow'
    BY <1>1, <2>6 DEF SendsPastWindow, SendKey
  <2>8. QED BY <2>2, <2>3, <2>4, <2>5, <2>7
<1>2. CASE PostOk(s)
  <2> DEFINE r == [s EXCEPT !.phase = "acked"]
  <2>1. r.stamp = s.stamp /\ r.phase = "acked" /\ SendKey(r) = SendKey(s) /\ s.stamp \in Nat
    BY <1>0 DEF Send, SendKey
  <2>2. s.stamp <= now
    BY <1>2 DEF PostOk, StampsInThePast
  <2>3. /\ Become(s, r) /\ UNCHANGED <<now, jobs, classes, pushed>>
        /\ settled' = settled \cup {SendKey(s)} /\ s.phase # "done"
    BY <1>2 DEF PostOk, clockVars, storeVars
  <2> HIDE DEF r
  <2>4. QED BY <1>1, <2>1, <2>2, <2>3
<1>3. CASE PostRetry(s)
  <2> DEFINE d == RetryDelay[s.attempt]
             r == [s EXCEPT !.phase = "wait", !.attempt = s.attempt + 1,
                            !.due = now + d, !.stamp = s.stamp + d]
  <2>1. d \in Nat /\ s.stamp \in Nat
    BY <1>0, <1>3, TimingAssumption DEF PostRetry, Send
  <2>2. r.stamp = s.stamp + d /\ r.due = now + d /\ r.phase = "wait"
        /\ SendKey(r) = SendKey(s)
    BY <1>0 DEF Send, SendKey
  <2>3. s.stamp <= now
    BY <1>3 DEF PostRetry, StampsInThePast
  <2>4. Become(s, r) /\ UNCHANGED <<now, jobs, classes, pushed, settled>>
    BY <1>3 DEF PostRetry, clockVars, storeVars
  <2>5. s.phase # "done"
    BY <1>3 DEF PostRetry
  <2> HIDE DEF r, d
  <2>6. r.stamp \in Nat /\ r.stamp >= s.stamp /\ r.stamp <= r.due
    BY <1>0, <2>1, <2>2, <2>3
  <2>7. QED BY <1>1, <2>2, <2>4, <2>5, <2>6
<1>4. CASE PostGivesUp(s)
  <2> DEFINE r == [s EXCEPT !.phase = "done"]
  <2>1. r.stamp = s.stamp /\ r.phase = "done" /\ SendKey(r) = SendKey(s)
    BY <1>0 DEF Send, SendKey
  <2>2. s.stamp <= now
    BY <1>4 DEF PostGivesUp, StampsInThePast
  <2>3. QED BY <1>1, <1>4, <2>1, <2>2 DEF PostGivesUp, clockVars, storeVars
<1>5. CASE RetryFires(s)
  <2> DEFINE r == [s EXCEPT !.phase = "ready"]
  <2>1. r.stamp = s.stamp /\ r.phase = "ready" /\ SendKey(r) = SendKey(s) /\ s.stamp \in Nat
        /\ s.due \in Nat
    BY <1>0 DEF Send, SendKey
  <2>2. s.stamp <= s.due /\ s.due <= now /\ s.phase # "done"
    BY <1>5 DEF RetryFires, StampsInThePast
  <2>3. s.stamp <= now
    BY <1>0, <2>1, <2>2
  <2>4. Become(s, r) /\ UNCHANGED <<now, jobs, classes, pushed, settled>>
    BY <1>5 DEF RetryFires, clockVars, storeVars
  <2> HIDE DEF r
  <2>5. QED BY <1>1, <2>1, <2>2, <2>3, <2>4
<1>6. CASE CommitFails(s)
  <2> DEFINE r == [s EXCEPT !.phase = "done"]
  <2>1. r.stamp = s.stamp /\ r.phase = "done" /\ SendKey(r) = SendKey(s)
    BY <1>0 DEF Send, SendKey
  <2>2. s.stamp <= now
    BY <1>6 DEF CommitFails, StampsInThePast
  <2>3. QED BY <1>1, <1>6, <2>1, <2>2 DEF CommitFails, clockVars, storeVars
<1>7. CASE Commit(s)
  <2> DEFINE r == [s EXCEPT !.phase = "done"]
  <2>1. r.stamp = s.stamp /\ r.phase = "done" /\ SendKey(r) = SendKey(s) /\ s.stamp \in Nat
    BY <1>0 DEF Send, SendKey
  <2>2. s.stamp <= now /\ SendKey(s) \in settled
    BY <1>7 DEF Commit, StampsInThePast, Answered
  <2>3. /\ sends' = (sends \ {s}) \cup {r}
        /\ pushed' = [pushed EXCEPT ![SendKey(s)] = s.stamp]
        /\ classes' = IF classes[s.item] = s.prev
                        THEN [classes EXCEPT ![s.item] = s.fire] ELSE classes
        /\ UNCHANGED <<now, jobs, settled>>
    BY <1>7 DEF Commit, Become, clockVars
  <2> HIDE DEF r
  <2>4. JobsInThePast'
    BY <2>3 DEF JobsInThePast
  <2>5. StampsInThePast'
    BY <1>0, <2>1, <2>2, <2>3 DEF StampsInThePast
  <2>6. Answered'
    BY <1>0, <2>1, <2>2, <2>3 DEF Answered, SendKey
  <2>7. NoSilentDrop'
    <3>1. s.item \in Item /\ KeyOf(s.item, s.fire) \in settled
      BY <1>0, <2>2 DEF Send, SendKey
    <3>2. QED BY <1>0, <2>3, <3>1 DEF NoSilentDrop, KeyOf
  <2>8. ASSUME NEW x \in sends', x.phase # "done", pushed'[SendKey(x)] # Never
        PROVE  x.stamp - pushed'[SendKey(x)] >= Window
    <3>1. x \in sends /\ x # s
      BY <2>1, <2>3, <2>8
    <3>2. SendKey(x) # SendKey(s)
      BY <3>1 DEF OnePushPerStamp
    <3>3. pushed'[SendKey(x)] = pushed[SendKey(x)]
      BY <1>0, <2>3, <3>1, <3>2, SendKeyType
    <3>4. QED BY <2>8, <3>1, <3>3 DEF SendsPastWindow
  <2>9. SendsPastWindow'
    BY <2>8 DEF SendsPastWindow, SendKey
  <2>10. QED BY <2>4, <2>5, <2>6, <2>7, <2>9
<1>8. CASE Release(s)
  <2>1. sends' \subseteq sends /\ UNCHANGED <<now, jobs, classes, pushed, settled>>
    BY <1>8 DEF Release, clockVars, storeVars
  <2>2. QED
    BY <2>1 DEF JobsInThePast, StampsInThePast, Answered, NoSilentDrop,
                SendsPastWindow, SendKey, KeyOf
<1>9. QED
  BY <1>2, <1>3, <1>4, <1>5, <1>6, <1>7, <1>8 DEF SendStep

\* A baseline an evaluation records: what it found, or what was there before.
LEMMA BookPlan ==
    ASSUME TypeOK, OnePushPerStamp, Bookkeeping, NEW j \in Job, PlanStep(j)
    PROVE  Bookkeeping'
<1> USE DEF Bookkeeping
<1>0. /\ sends \in SUBSET Send /\ now \in Nat /\ pushed \in [StampKey -> Nat \cup {Never}]
      /\ classes \in [Item -> Level]
  BY DEF TypeOK
<1>1. JobsInThePast'
  <2>1. Idle.since <= now /\ now' = now /\ jobs' = [jobs EXCEPT ![j] = Idle]
    BY <1>0 DEF PlanStep, PlanSeed, PlanNoKey, PlanSend, PlanFails, clockVars, Idle, Never
  <2>2. jobs \in [Job -> Evaluation \cup {Idle}]
    BY DEF TypeOK
  <2>3. QED BY <2>1, <2>2 DEF JobsInThePast
<1>2. ASSUME NEW f \in [Item -> Level],
             classes' = f, settled' = settled \cup Keys(f), sends' = Overtake(f),
             UNCHANGED <<now, pushed>>
      PROVE  StampsInThePast' /\ Answered' /\ NoSilentDrop' /\ SendsPastWindow'
  <2>1. StampsInThePast'
    BY <1>0, <1>2, OvertakeKeeps DEF StampsInThePast
  <2>2. Answered'
    BY <1>0, <1>2, OvertakeKeeps DEF Answered, SendKey
  <2>3. NoSilentDrop'
    BY <1>2 DEF NoSilentDrop, Keys, KeyOf
  <2>4. SendsPastWindow'
    BY <1>0, <1>2, OvertakeKeeps DEF SendsPastWindow, SendKey
  <2>5. QED BY <2>1, <2>2, <2>3, <2>4
<1>3. ASSUME jobs[j] # Idle PROVE jobs[j].facts \in [Item -> Level] /\ jobs[j].since \in Nat
  BY <1>3 DEF TypeOK, Evaluation
<1>4. CASE PlanSeed(j)
  BY <1>1, <1>2, <1>3, <1>4 DEF PlanSeed, clockVars
<1>5. CASE PlanNoKey(j)
  BY <1>1, <1>2, <1>3, <1>5 DEF PlanNoKey, clockVars
<1>6. CASE PlanSend(j)
  <2> DEFINE f == jobs[j].facts
  <2>0. PICK t \in jobs[j].since .. now : \E W \in Chosen(f, t) :
          /\ classes' = DeferredBaseline(f, t)
          /\ pushed' = Pruned(t)
          /\ sends' = Overtake(f) \cup {NewSend(i, f, t) : i \in W}
    BY <1>6 DEF PlanSend
  <2>1. PICK W \in Chosen(f, t) :
          /\ classes' = DeferredBaseline(f, t)
          /\ pushed' = Pruned(t)
          /\ sends' = Overtake(f) \cup {NewSend(i, f, t) : i \in W}
    BY <2>0
  <2>2. /\ f \in [Item -> Level] /\ t \in Nat /\ t <= now /\ seeded
        /\ UNCHANGED <<now, settled>>
    BY <1>0, <1>3, <1>6 DEF PlanSend, clockVars
  <2> HIDE DEF f
  <2>3. \A k \in StampKey : pushed'[k] = pushed[k] \/ pushed'[k] = Never
    BY <1>0, <2>1 DEF Pruned
  <2>4. \A k \in StampKey : pushed[k] <= now
    BY DEF StampsInThePast
  <2>5. \A i \in W : /\ i \in Alarming(f, t)
                      /\ NewSend(i, f, t) \in Send
                      /\ SendKey(NewSend(i, f, t)) = KeyOf(i, f[i])
                      /\ NewSend(i, f, t).phase = "ready"
                      /\ NewSend(i, f, t).stamp = t
    <3>1. \A i \in W : /\ i \in Item /\ f[i] \in FireClass
                        /\ NewSend(i, f, t) \in Send
                        /\ SendKey(NewSend(i, f, t)) = KeyOf(i, f[i])
      BY <2>2, ChosenType, NewSendType
    <3>2. \A i \in W : /\ NewSend(i, f, t).phase = "ready"
                        /\ NewSend(i, f, t).stamp = t
      BY DEF NewSend
    <3>3. W \subseteq Alarming(f, t)
      BY DEF Chosen
    <3>4. QED BY <3>1, <3>2, <3>3
  <2>6. StampsInThePast'
    <3>1. \A k \in StampKey : pushed'[k] <= now'
      BY <1>0, <2>2, <2>3, <2>4 DEF Never
    <3>2. \A s \in Overtake(f) : s.stamp <= IF s.phase = "wait" THEN s.due ELSE now
      BY <1>0, OvertakeKeeps DEF StampsInThePast
    <3>3. \A i \in W : NewSend(i, f, t).stamp <= now
      BY <2>2, <2>5
    <3>4. QED BY <2>1, <2>2, <2>5, <3>1, <3>2, <3>3 DEF StampsInThePast
  <2>7. Answered'
    <3>1. \A s \in Overtake(f) : s.phase = "acked" => SendKey(s) \in settled
      BY <1>0, OvertakeKeeps DEF Answered
    <3>2. QED BY <2>1, <2>2, <2>3, <2>5, <3>1 DEF Answered, SendKey
  <2>8. NoSilentDrop'
    <3> SUFFICES ASSUME NEW i \in Item, classes'[i] # Quiet
                 PROVE  KeyOf(i, classes'[i]) \in settled
      BY <2>2 DEF NoSilentDrop, KeyOf
    <3>1. CASE i \in Alarming(f, t) \/ f[i] = classes[i]
      BY <2>1, <3>1 DEF DeferredBaseline, NoSilentDrop
    <3>2. CASE i \notin Alarming(f, t) /\ f[i] # classes[i]
      <4>1. classes'[i] = f[i]
        BY <2>1, <3>2 DEF DeferredBaseline
      <4>2. Recent(KeyOf(i, f[i]), t)
        BY <2>2, <3>2, <4>1 DEF Alarming, Transitions
      <4>3. KeyOf(i, f[i]) \in StampKey
        BY <2>2, <4>1, KeyType DEF Level
      <4>4. QED BY <4>1, <4>2, <4>3 DEF Recent, Answered
    <3>3. QED BY <3>1, <3>2
  <2>9. ASSUME NEW s \in sends', s.phase # "done", pushed'[SendKey(s)] # Never
        PROVE  s.stamp - pushed'[SendKey(s)] >= Window
    <3>1. CASE s \in Overtake(f)
      <4>1. PICK o \in sends : s.stamp = o.stamp /\ s.phase = o.phase
                                /\ SendKey(s) = SendKey(o)
        BY <1>0, <3>1, OvertakeKeeps
      <4>2. SendKey(o) \in StampKey
        BY <1>0, SendKeyType
      <4>3. pushed'[SendKey(o)] = pushed[SendKey(o)]
        BY <2>3, <2>9, <4>1, <4>2
      <4>4. QED BY <2>9, <4>1, <4>3 DEF SendsPastWindow
    <3>2. CASE \E i \in W : s = NewSend(i, f, t)
      <4>1. PICK i \in W : s = NewSend(i, f, t)
        BY <3>2
      <4>2. ~Recent(KeyOf(i, f[i]), t) /\ KeyOf(i, f[i]) \in StampKey
        BY <2>2, <2>5, ChosenType DEF Alarming
      <4>3. /\ pushed'[KeyOf(i, f[i])] = pushed[KeyOf(i, f[i])]
            /\ pushed[KeyOf(i, f[i])] \in Nat
        BY <1>0, <2>3, <2>5, <2>9, <4>1, <4>2
      <4>4. t - pushed[KeyOf(i, f[i])] >= Window
        BY <2>2, <2>5, <2>9, <4>1, <4>2, <4>3, TimingAssumption DEF Recent
      <4>5. QED BY <2>5, <4>1, <4>3, <4>4
    <3>3. QED BY <2>1, <3>1, <3>2
  <2>10. SendsPastWindow'
    BY <2>9 DEF SendsPastWindow, SendKey
  <2>11. QED BY <1>1, <2>6, <2>7, <2>8, <2>10
<1>7. CASE PlanFails(j)
  <2>1. UNCHANGED <<now, classes, pushed, sends, settled>>
    BY <1>7 DEF PlanFails, clockVars, storeVars
  <2>2. QED
    BY <1>1, <2>1 DEF StampsInThePast, Answered, NoSilentDrop, SendsPastWindow,
                      SendKey, KeyOf
<1>8. QED
  BY <1>4, <1>5, <1>6, <1>7 DEF PlanStep

\* Every step keeps the bookkeeping of stamps, baselines and answers.
LEMMA BookStep ==
    ASSUME TypeOK, OnePushPerStamp, Bookkeeping, [Next]_vars
    PROVE  Bookkeeping'
<1> USE DEF Bookkeeping
<1>1. ASSUME UNCHANGED <<now, jobs, classes, pushed, sends, settled>>
      PROVE  Bookkeeping'
  BY <1>1 DEF JobsInThePast, StampsInThePast, Answered, NoSilentDrop,
              SendsPastWindow, SendKey, KeyOf
<1>2. CASE Tick
  <2>1. now' = now + 1 /\ UNCHANGED <<jobs, classes, pushed, sends, settled>>
    BY <1>2 DEF Tick, storeVars
  <2>2. JobsInThePast'
    <3>1. \A j \in Job : jobs[j].since \in Int
      BY DEF TypeOK, Evaluation, Idle, Never
    <3>2. QED BY <2>1, <3>1 DEF JobsInThePast, TypeOK
  <2>3. StampsInThePast'
    <3>1. \A k \in StampKey : pushed[k] \in Int
      BY DEF TypeOK, Never
    <3>2. \A s \in sends : s.stamp \in Nat /\ s.due \in Nat
      BY DEF TypeOK, Send
    <3>3. now \in Nat
      BY DEF TypeOK
    <3>4. QED BY <2>1, <3>1, <3>2, <3>3 DEF StampsInThePast
  <2>4. QED
    BY <2>1, <2>2, <2>3 DEF Answered, NoSilentDrop, SendsPastWindow, SendKey, KeyOf
<1>3. ASSUME NEW i \in Item, NEW c \in Level, LiveChange(i, c) PROVE Bookkeeping'
  BY <1>1, <1>3 DEF LiveChange, storeVars
<1>4. CASE InstallKey
  BY <1>1, <1>4 DEF InstallKey, storeVars
<1>5. ASSUME NEW j \in Job, Evaluate(j) PROVE Bookkeeping'
  <2>1. UNCHANGED <<now, classes, pushed, sends, settled>>
    BY <1>5 DEF Evaluate, storeVars
  <2>2. JobsInThePast'
    BY <1>5 DEF Evaluate, JobsInThePast, TypeOK
  <2>3. QED
    BY <2>1, <2>2 DEF StampsInThePast, Answered, NoSilentDrop, SendsPastWindow,
                      SendKey, KeyOf
<1>6. CASE Restart
  <2>1. sends' = {} /\ UNCHANGED <<now, classes, pushed, settled>>
    BY <1>6 DEF Restart, storeVars
  <2>2. JobsInThePast'
    BY <1>6 DEF Restart, storeVars, JobsInThePast, Idle, Never, TypeOK
  <2>3. QED
    BY <2>1, <2>2 DEF StampsInThePast, Answered, NoSilentDrop, SendsPastWindow,
                      SendKey, KeyOf
<1>7. CASE UNCHANGED vars
  BY <1>1, <1>7 DEF vars
<1>8. QED
  BY <1>2, <1>3, <1>4, <1>5, <1>6, <1>7, BookPlan, BookSend DEF Next

\* The bookkeeping is right at the start.
LEMMA BookInit == Init => Bookkeeping
BY DEF Init, Bookkeeping, JobsInThePast, StampsInThePast, Answered, NoSilentDrop,
       SendsPastWindow, Idle, Never

\* Inv is inductive.
THEOREM InvHolds == Spec => []Inv
<1>1. Init => Inv
  BY TypeInit, BookInit DEF Inv, Bookkeeping, Init, OnePushPerStamp
<1>2. Inv /\ [Next]_vars => Inv'
  BY TypeStep, UniqueStep, BookStep DEF Inv, Bookkeeping
<1>3. QED BY <1>1, <1>2, PTL DEF Spec

\* No stamp is ever in the future, so none silences a card longer than the
\* window after the push it records.
THEOREM StampsNeverInTheFuture == Spec => []StampsInThePast
BY InvHolds, PTL DEF Inv

\* No alarm is dropped: a baseline that holds a FIRE class was answered 2xx or
\* had nothing to send, through any failures, retries and restarts.
THEOREM NoAlarmDropped == Spec => []NoSilentDrop
BY InvHolds, PTL DEF Inv

\* Two stamps of one (card, class) are at least a debounce window apart.
THEOREM DebounceIsKept == Spec => DebounceHolds
<1> DEFINE Apart == \A k \in StampKey :
      pushed[k] # Never /\ pushed'[k] # Never /\ pushed'[k] # pushed[k] =>
          pushed'[k] - pushed[k] >= Window
<1>1. Inv /\ [Next]_vars => [Apart]_vars
  <2> SUFFICES ASSUME Inv, Next PROVE Apart
    BY DEF vars
  <2>1. ASSUME NEW s \in sends, SendStep(s), ~Commit(s) PROVE UNCHANGED pushed
    BY <2>1 DEF SendStep, PostOk, PostRetry, PostGivesUp, RetryFires, CommitFails,
                Release, storeVars
  <2>2. ASSUME NEW s \in sends, Commit(s) PROVE Apart
    <3>1. s \in Send /\ pushed \in [StampKey -> Nat \cup {Never}]
      BY DEF Inv, TypeOK
    <3>2. pushed' = [pushed EXCEPT ![SendKey(s)] = s.stamp] /\ s.phase # "done"
      BY <2>2 DEF Commit
    <3>3. pushed[SendKey(s)] # Never => s.stamp - pushed[SendKey(s)] >= Window
      BY <3>2 DEF Inv, SendsPastWindow
    <3>4. QED BY <3>1, <3>2, <3>3
  <2>3. ASSUME NEW j \in Job, PlanStep(j) PROVE Apart
    <3>1. CASE PlanSend(j)
      <4>1. \E t : pushed' = Pruned(t)
        BY <3>1 DEF PlanSend
      <4>2. QED BY <4>1 DEF Pruned
    <3>2. CASE ~PlanSend(j)
      BY <2>3, <3>2 DEF PlanStep, PlanSeed, PlanNoKey, PlanFails, storeVars
    <3>3. QED BY <3>1, <3>2
  <2>4. CASE Tick \/ InstallKey \/ Restart
    BY <2>4 DEF Tick, InstallKey, Restart, storeVars
  <2>5. ASSUME NEW i \in Item, NEW c \in Level, LiveChange(i, c) PROVE Apart
    BY <2>5 DEF LiveChange, storeVars
  <2>6. ASSUME NEW j \in Job, Evaluate(j) PROVE Apart
    BY <2>6 DEF Evaluate, storeVars
  <2>7. QED BY <2>1, <2>2, <2>3, <2>4, <2>5, <2>6 DEF Next
<1>2. QED BY <1>1, InvHolds, PTL DEF Spec, DebounceHolds
=============================================================================
