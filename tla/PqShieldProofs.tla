--------------------------- MODULE PqShieldProofs ---------------------------
(***************************************************************************)
(* Proofs about PqShield, for any members, number of requests at a time,   *)
(* key pairs, requests and faults.                                         *)
(*                                                                         *)
(* TypeOK needs Shape: which requests may be at which step.  A step is     *)
(* seen as what it does to one request and what it does to memory, file    *)
(* and keys; every later proof goes through these lemmas.                  *)
(***************************************************************************)
EXTENDS PqShield, TLAPS

JobShape(s) ==
    /\ s.kind = "write" => s.phone \in Members /\ s.step \in {"body", "act"}
    /\ s.kind = "encap" => s.key.phone # 0
    /\ s.step = "store" => s.kind = "encap"
    /\ s.step = "pop" => s.kind # "encap"
    /\ s.step = "save" => s.copy = s.seen
    /\ s.then \in {"idle", "ensure", "use"}

Shape == \A j \in Job : JobShape(jobs[j])

Typed == TypeOK /\ Shape

-----------------------------------------------------------------------------
(* Type correctness. *)

LEMMA EmptyStoreType == EmptyStore \in Store /\ NoSession \in Session
BY BoundAssumption DEF EmptyStore, NoSession, Store, Session

\* A finished request is idle and holds nothing.
LEMMA FinishedType ==
    /\ Finished \in JobState /\ JobShape(Finished)
    /\ Finished.step = "idle" /\ Finished.kind = "public" /\ Finished.phone = Owner
    /\ Finished.copy = EmptyStore /\ Finished.key = NoSession
    /\ Finished.then = "idle" /\ ~Finished.plain
BY EmptyStoreType DEF Finished, JobState, JobShape, Kind, Step, Phone

\* The types hold at the start.
LEMMA TypeInit == Init => Typed
<1> SUFFICES ASSUME Init PROVE Typed
  OBVIOUS
<1>1. jobs \in [Job -> JobState] /\ Shape
  BY FinishedType DEF Init, Shape
<1>2. Memory \in Store /\ disk \in Store
  BY EmptyStoreType, BoundAssumption DEF Init, Memory, EmptyStore, Store
<1>3. required \in BOOLEAN /\ feature \in BOOLEAN /\ saved \in BOOLEAN /\ listener \in BOOLEAN
      /\ overtaken \in BOOLEAN /\ late \in BOOLEAN
  BY DEF Init
<1>4. /\ offered \in [Phone -> 0..MaxKeys] /\ gone \subseteq 1..MaxKeys
      /\ keys \in 0..MaxKeys /\ requests \in 0..MaxRequests /\ faults \in 0..MaxFaults
  BY BoundAssumption DEF Init
<1>5. QED BY <1>1, <1>2, <1>3, <1>4 DEF Typed, TypeOK

\* One request changes, and the others at most in their excuse.
Moves(j, s) == \A i \in Job : IF i = j THEN jobs'[i] = s
                              ELSE jobs'[i] \in {jobs[i], [jobs[i] EXCEPT !.excused = TRUE]}

\* Replacing one request by a request moves that one only.
LEMMA OneJob ==
    ASSUME Typed, NEW j \in Job, NEW s \in JobState, JobShape(s),
           jobs' = [jobs EXCEPT ![j] = s]
    PROVE  jobs' \in [Job -> JobState] /\ Shape' /\ Moves(j, s)
<1>1. jobs' \in [Job -> JobState] /\ Moves(j, s)
  BY DEF Typed, TypeOK, Moves
<1>2. \A i \in Job : jobs'[i] = IF i = j THEN s ELSE jobs[i]
  BY DEF Typed, TypeOK
<1>3. QED BY <1>1, <1>2 DEF Typed, Shape

\* A request ends, or goes to a step that any request but a write may be at.
LEMMA EndType ==
    ASSUME Typed, NEW j \in Job, End(j)
    PROVE  jobs' \in [Job -> JobState] /\ Shape' /\ Moves(j, Finished)
BY FinishedType, OneJob DEF End

\* Moving a request on keeps the types of the requests.
LEMMA GotoType ==
    ASSUME Typed, NEW j \in Job, NEW t \in Step \ {"store", "pop"}, Goto(j, t),
           jobs[j].kind = "write" => t \in {"body", "act"},
           t = "save" => jobs[j].copy = jobs[j].seen
    PROVE  jobs' \in [Job -> JobState] /\ Shape' /\ Moves(j, [jobs[j] EXCEPT !.step = t])
<1> DEFINE s == [jobs[j] EXCEPT !.step = t]
<1>1. s \in JobState /\ JobShape(s)
  BY DEF Typed, TypeOK, Shape, JobState, JobShape
<1>2. jobs' = [jobs EXCEPT ![j] = s]
  BY DEF Goto
<1>3. QED BY <1>1, <1>2, OneJob

\* Going on after a save keeps the types of the requests.
LEMMA ContinueType ==
    ASSUME Typed, NEW j \in Job, Continue(j), At(j, "save")
    PROVE  jobs' \in [Job -> JobState] /\ Shape'
<1>1. jobs[j] \in JobState /\ JobShape(jobs[j])
  BY DEF Typed, TypeOK, Shape
<1>2. jobs[j].kind # "write" /\ jobs[j].then \in {"idle", "ensure", "use"}
  BY <1>1 DEF JobShape, At
<1>3. CASE jobs[j].then = "idle"
  BY <1>3, EndType DEF Continue
<1>4. CASE jobs[j].then # "idle"
  BY <1>2, <1>4, GotoType DEF Continue, Step
<1>5. QED BY <1>3, <1>4

Arrives(j) ==
    \/ \E p \in Phone : BeginPublic(j, p) \/ BeginEncap(j, p) \/ BeginMemberRotate(j, p)
                          \/ BeginWrite(j, p)
    \/ BeginRotate(j) \/ BeginDisable(j) \/ FeatureOff(j)
    \/ ~feature /\ OptionsUpdated(j)

\* An option changed or was stored, or its listener ran, and no request starts.
Options == FeatureOn \/ SaveEntry \/ (feature /\ \E j \in Job : OptionsUpdated(j))

RequestStep(j) ==
    \/ EncapBody(j) \/ Ensure(j) \/ Renew(j) \/ UsePublic(j) \/ UseEncap(j) \/ StoreSession(j)
    \/ RotateWipe(j) \/ DisableOwner(j) \/ DropMemberSession(j)
    \/ Snapshot(j) \/ Save(j) \/ SaveFails(j)
    \/ (\E plain \in BOOLEAN : OpenBody(j, plain))
    \/ Act(j)

\* A step is one of a request, of the entry's listener, or a restart.
LEMMA NextCases ==
    Next => (\E j \in Job : Arrives(j) \/ RequestStep(j)) \/ Options \/ Restart
BY DEF Next, Arrives, RequestStep, Options

\* The request that arrives.
NewJob(s) ==
    /\ s \in JobState /\ JobShape(s)
    /\ s.step \in {"ensure", "body", "wipe", "pop"}
    /\ s.copy = EmptyStore /\ ~s.plain
    /\ IF s.kind = "encap" THEN s.key.phone = offered[s.phone] /\ s.step = "body"
                            ELSE s.key = NoSession
    /\ s.kind = "write" => (required => Present(s.phone))

\* What an arrival leaves alone, and the request it starts.
LEMMA ArrivalType ==
    ASSUME Typed, NEW j \in Job, Arrives(j)
    PROVE  /\ UNCHANGED <<required, saved, memory, disk, offered, keys, faults, historyVars>>
           /\ requests' \in 0..MaxRequests /\ feature' \in BOOLEAN /\ listener' \in BOOLEAN
           /\ At(j, "idle")
           /\ \E s : /\ jobs' = [jobs EXCEPT ![j] = s] /\ NewJob(s)
                     /\ \/ UNCHANGED <<feature, listener>>
                        \/ s.kind = "off" /\ s.step = "wipe"
<1>0. /\ Owner \in Phone /\ Members \subseteq Phone
      /\ requests \in 0..MaxRequests /\ feature \in BOOLEAN /\ listener \in BOOLEAN
  BY DEF Typed, TypeOK, Phone
<1> DEFINE New(k, p, t) == [Finished EXCEPT !.kind = k, !.phone = p, !.step = t]
           Goal == /\ UNCHANGED <<required, saved, memory, disk, offered, keys, faults, historyVars>>
                   /\ requests' \in 0..MaxRequests /\ feature' \in BOOLEAN
                   /\ listener' \in BOOLEAN
                   /\ At(j, "idle")
                   /\ \E s : /\ jobs' = [jobs EXCEPT ![j] = s] /\ NewJob(s)
                             /\ \/ UNCHANGED <<feature, listener>>
                                \/ s.kind = "off" /\ s.step = "wipe"
<1>1. ASSUME NEW k \in Kind \ {"encap"}, NEW p \in Phone,
             NEW t \in {"ensure", "body", "wipe", "pop"},
             k = "write" => p \in Members /\ t = "body" /\ (required => Present(p)),
             Begin(j, k, p, t)
      PROVE  /\ jobs' = [jobs EXCEPT ![j] = New(k, p, t)] /\ NewJob(New(k, p, t))
             /\ New(k, p, t).kind = k /\ New(k, p, t).step = t
             /\ At(j, "idle") /\ requests' \in 0..MaxRequests
  <2>1. /\ New(k, p, t) \in JobState /\ JobShape(New(k, p, t))
        /\ New(k, p, t).kind = k /\ New(k, p, t).phone = p /\ New(k, p, t).step = t
        /\ New(k, p, t).copy = EmptyStore /\ ~New(k, p, t).plain /\ New(k, p, t).key = NoSession
    BY <1>1, FinishedType DEF JobState, JobShape, Finished, Step
  <2>2. NewJob(New(k, p, t))
    BY <1>1, <2>1 DEF NewJob
  <2>3. requests' \in 0..MaxRequests
    BY <1>0, <1>1, BoundAssumption DEF Begin
  <2>4. QED BY <1>1, <2>1, <2>2, <2>3 DEF Begin
<1>2. ASSUME NEW p \in Phone, BeginPublic(j, p) PROVE Goal
  <2>1. Begin(j, "public", p, "ensure") /\ UNCHANGED <<feature, listener>>
    BY <1>2 DEF BeginPublic
  <2>2. QED BY <1>0, <1>1, <1>2, <2>1 DEF BeginPublic, Kind
<1>3. ASSUME NEW p \in Phone, BeginEncap(j, p) PROVE Goal
  <2> DEFINE s == [Finished EXCEPT !.kind = "encap", !.phone = p, !.step = "body",
                                   !.key.phone = offered[p]]
  <2>1. offered[p] \in 0..MaxKeys /\ offered[p] # 0
    BY <1>3 DEF BeginEncap, Typed, TypeOK
  <2>2. /\ s \in JobState /\ s.kind = "encap" /\ s.phone = p /\ s.step = "body"
        /\ s.key.phone = offered[p] /\ s.copy = EmptyStore /\ s.then = "idle" /\ ~s.plain
    BY <2>1, FinishedType, EmptyStoreType DEF JobState, Finished, Step, Kind, Session, NoSession
  <2>3. NewJob(s)
    BY <2>1, <2>2 DEF NewJob, JobShape
  <2>4. requests' \in 0..MaxRequests
    BY <1>0, <1>3, BoundAssumption DEF BeginEncap
  <2>5. QED BY <1>0, <1>3, <2>3, <2>4 DEF BeginEncap
<1>4. ASSUME NEW p \in Phone, BeginMemberRotate(j, p) PROVE Goal
  <2>1. Begin(j, "mrotate", p, "pop") /\ UNCHANGED <<feature, listener>>
    BY <1>4 DEF BeginMemberRotate
  <2>2. QED BY <1>0, <1>1, <1>4, <2>1 DEF BeginMemberRotate, Kind
<1>5. ASSUME NEW p \in Phone, BeginWrite(j, p) PROVE Goal
  <2>1. /\ Begin(j, "write", p, "body") /\ UNCHANGED <<feature, listener>>
        /\ p \in Members /\ (required => Present(p))
    BY <1>5, OwnerAssumption DEF BeginWrite, ShieldOn
  <2>2. QED BY <1>0, <1>1, <1>5, <2>1 DEF BeginWrite, Kind
<1>6. CASE BeginRotate(j)
  <2>1. Begin(j, "rotate", Owner, "wipe") /\ UNCHANGED <<feature, listener>>
    BY <1>6 DEF BeginRotate
  <2>2. QED BY <1>0, <1>1, <1>6, <2>1 DEF BeginRotate, Kind
<1>7. CASE BeginDisable(j)
  <2>1. Begin(j, "off", Owner, "wipe") /\ UNCHANGED <<feature, listener>>
    BY <1>7 DEF BeginDisable
  <2>2. QED BY <1>0, <1>1, <1>7, <2>1 DEF BeginDisable, Kind
<1>8. CASE FeatureOff(j)
  <2>1. Begin(j, "off", Owner, "wipe") /\ feature' \in BOOLEAN /\ listener' \in BOOLEAN
    BY <1>8 DEF FeatureOff
  <2>2. UNCHANGED <<required, saved, memory, disk, offered, keys, faults, historyVars>>
    BY <1>8 DEF FeatureOff
  <2> HIDE DEF New
  <2>3. /\ jobs' = [jobs EXCEPT ![j] = New("off", Owner, "wipe")]
        /\ NewJob(New("off", Owner, "wipe"))
        /\ New("off", Owner, "wipe").kind = "off" /\ New("off", Owner, "wipe").step = "wipe"
        /\ At(j, "idle") /\ requests' \in 0..MaxRequests
    BY <1>0, <1>1, <2>1 DEF Kind
  <2>4. QED BY <2>1, <2>2, <2>3
<1>9. CASE ~feature /\ OptionsUpdated(j)
  <2> DEFINE s == [Finished EXCEPT !.kind = "off", !.step = "wipe"]
  <2>1. /\ s \in JobState /\ s.kind = "off" /\ s.step = "wipe" /\ s.copy = EmptyStore
        /\ s.then = "idle" /\ ~s.plain /\ s.key = NoSession
    BY FinishedType DEF JobState, Finished, Step, Kind
  <2>2. NewJob(s)
    BY <2>1 DEF NewJob, JobShape
  <2>3. jobs' = [jobs EXCEPT ![j] = s] /\ listener' \in BOOLEAN /\ feature' = feature
    BY <1>9 DEF OptionsUpdated
  <2>4. QED BY <1>0, <1>9, <2>1, <2>2, <2>3 DEF OptionsUpdated
<1>10. QED BY <1>2, <1>3, <1>4, <1>5, <1>6, <1>7, <1>8, <1>9 DEF Arrives

\* The parts of memory and file have their types.
LEMMA MemoryType ==
    ASSUME Typed
    PROVE  /\ recipient \in 0..MaxKeys /\ session \in [Phone -> Session]
           /\ disk.recipient \in 0..MaxKeys /\ disk.session \in [Phone -> Session]
BY DEF Typed, TypeOK, Memory, Store

\* A request replaces some memory; its job and its excuses are those of one lemma.
LEMMA ExcuseType ==
    ASSUME Typed, NEW j \in Job, NEW s \in JobState, JobShape(s), NEW dropped,
           jobs' = [i \in Job |-> IF i = j THEN s ELSE Excuse(i, dropped)]
    PROVE  jobs' \in [Job -> JobState] /\ Shape' /\ Moves(j, s)
<1>1. \A i \in Job : jobs[i] \in JobState /\ JobShape(jobs[i])
  BY DEF Typed, TypeOK, Shape
<1>2. \A i \in Job : LET x == [jobs[i] EXCEPT !.excused = TRUE]
                      IN  x \in JobState /\ JobShape(x)
  BY <1>1 DEF JobState, JobShape
<1>3. \A i \in Job : Excuse(i, dropped) \in {jobs[i], [jobs[i] EXCEPT !.excused = TRUE]}
  BY DEF Excuse
<1>4. QED BY <1>1, <1>2, <1>3 DEF Moves, Shape

\* A request's step, as a change of its own record.
LEMMA StepType ==
    ASSUME Typed, NEW j \in Job, RequestStep(j)
    PROVE  Typed'
<1>1. /\ jobs[j] \in JobState /\ JobShape(jobs[j]) /\ jobs \in [Job -> JobState]
      /\ Owner \in Phone /\ jobs[j].phone \in Phone
      /\ jobs[j].kind = "write" => jobs[j].step \in {"body", "act"}
  BY DEF Typed, TypeOK, Shape, JobShape, Phone, JobState
<1>2. /\ recipient \in 0..MaxKeys /\ session \in [Phone -> Session] /\ disk \in Store
      /\ Memory \in Store
      /\ offered \in [Phone -> 0..MaxKeys] /\ keys \in 0..MaxKeys
      /\ requests \in 0..MaxRequests /\ faults \in 0..MaxFaults /\ gone \subseteq 1..MaxKeys
  BY MemoryType DEF Typed, TypeOK
<1>3. /\ required \in BOOLEAN /\ feature \in BOOLEAN /\ saved \in BOOLEAN /\ listener \in BOOLEAN
      /\ overtaken \in BOOLEAN /\ late \in BOOLEAN
  BY DEF Typed, TypeOK
\* It suffices to say what happens to the request and to the memory.
<1>4. ASSUME jobs' \in [Job -> JobState] /\ Shape',
             recipient' \in 0..MaxKeys, session' \in [Phone -> Session], disk' \in Store,
             offered' \in [Phone -> 0..MaxKeys], keys' \in 0..MaxKeys,
             requests' = requests, faults' \in 0..MaxFaults, gone' \subseteq 1..MaxKeys,
             required' = required, feature' = feature, saved' = saved, listener' = listener,
             overtaken' \in BOOLEAN, late' \in BOOLEAN
      PROVE  Typed'
  <2>1. Memory' \in Store
    BY <1>4 DEF Memory, Store
  <2>2. /\ required' \in BOOLEAN /\ feature' \in BOOLEAN /\ saved' \in BOOLEAN
        /\ listener' \in BOOLEAN
    BY <1>3, <1>4
  <2>3. requests' \in 0..MaxRequests
    BY <1>2, <1>4
  <2>4. QED BY <1>4, <2>1, <2>2, <2>3 DEF Typed, TypeOK
<1>5. CASE EncapBody(j)
  <2>1. jobs' \in [Job -> JobState] /\ Shape'
    BY <1>1, <1>5, EndType, GotoType DEF EncapBody, Step
  <2>2. QED BY <1>2, <1>3, <1>4, <1>5, <2>1 DEF EncapBody, memory, historyVars
<1>6. CASE Ensure(j)
  <2> DEFINE s == [jobs[j] EXCEPT !.step = "renew", !.then = "use"]
  <2>1. s \in JobState /\ JobShape(s)
    BY <1>1, <1>6 DEF Ensure, At, JobState, JobShape, Step
  <2>2. recipient = 0 => jobs' = [jobs EXCEPT ![j] = s]
    BY <1>1, <1>6 DEF Ensure
  <2>3. recipient # 0 => Goto(j, "use") /\ jobs[j].kind # "write"
    BY <1>1, <1>6 DEF Ensure, At
  <2>4. jobs' \in [Job -> JobState] /\ Shape'
    BY <2>1, <2>2, <2>3, OneJob, GotoType DEF Step
  <2>5. QED BY <1>2, <1>3, <1>4, <1>6, <2>4 DEF Ensure, memory, historyVars
<1>7. CASE Renew(j)
  <2>1. jobs' \in [Job -> JobState] /\ Shape'
    BY <1>1, <1>7, GotoType DEF Renew, At, Step, Generated
  <2>2. recipient' \in 0..MaxKeys /\ keys' \in 0..MaxKeys /\ gone' \subseteq 1..MaxKeys
    BY <1>2, <1>7, BoundAssumption DEF Renew, Replace
  <2>3. QED BY <1>2, <1>3, <1>4, <1>7, <2>1, <2>2 DEF Renew
<1>8. CASE UsePublic(j)
  <2>1. jobs' \in [Job -> JobState] /\ Shape'
    BY <1>8, EndType DEF UsePublic
  <2>2. offered' \in [Phone -> 0..MaxKeys]
    BY <1>1, <1>2, <1>8 DEF UsePublic
  <2>3. QED BY <1>2, <1>3, <1>4, <1>8, <2>1, <2>2 DEF UsePublic, memory, historyVars
<1>9. CASE UseEncap(j)
  <2> DEFINE s == [jobs[j] EXCEPT !.step = "store", !.key.house = recipient]
  <2>1. s \in JobState /\ JobShape(s)
    BY <1>1, <1>2, <1>9 DEF UseEncap, JobState, JobShape, Step, Session
  <2>2. recipient # 0 => jobs' = [jobs EXCEPT ![j] = s]
    BY <1>1, <1>9 DEF UseEncap
  <2>3. jobs' \in [Job -> JobState] /\ Shape'
    BY <1>9, <2>1, <2>2, EndType, OneJob DEF UseEncap
  <2>4. QED BY <1>2, <1>3, <1>4, <1>9, <2>3 DEF UseEncap, memory, historyVars
<1>10. CASE StoreSession(j)
  <2> DEFINE s == [jobs[j] EXCEPT !.step = "snap", !.then = "idle"]
  <2>1. s \in JobState /\ JobShape(s)
    BY <1>1, <1>10 DEF StoreSession, At, JobState, JobShape, Step
  <2>2. jobs' = [jobs EXCEPT ![j] = s]
    BY <1>1, <1>10 DEF StoreSession
  <2>3. session' \in [Phone -> Session]
    BY <1>1, <1>2, <1>10 DEF StoreSession, JobState
  <2>4. QED BY <1>2, <1>3, <1>4, <1>10, <2>1, <2>2, <2>3, OneJob DEF StoreSession, historyVars
<1>11. CASE RotateWipe(j)
  <2> DEFINE s == [jobs[j] EXCEPT !.step = "renew", !.then = "idle"]
  <2>1. s \in JobState /\ JobShape(s)
    BY <1>1, <1>11 DEF RotateWipe, At, JobState, JobShape, Step
  <2>2. jobs' = [jobs EXCEPT ![j] = s]
    BY <1>1, <1>11 DEF RotateWipe
  <2>3. session' \in [Phone -> Session]
    BY <1>1, <1>2, <1>11, EmptyStoreType DEF RotateWipe
  <2>4. QED BY <1>2, <1>3, <1>4, <1>11, <2>1, <2>2, <2>3, OneJob DEF RotateWipe, historyVars
<1>12. CASE DisableOwner(j)
  <2>1. CASE required
    <3> DEFINE s == [jobs[j] EXCEPT !.step = "snap", !.then = "idle"]
    <3>1. s \in JobState /\ JobShape(s)
      BY <1>1, <1>12 DEF DisableOwner, At, JobState, JobShape, Step
    <3>2. jobs' = [jobs EXCEPT ![j] = s]
      BY <1>1, <1>12, <2>1 DEF DisableOwner
    <3>3. session' \in [Phone -> Session]
      BY <1>1, <1>2, <1>12, <2>1, EmptyStoreType DEF DisableOwner
    <3>4. late' \in BOOLEAN
      BY <1>12 DEF DisableOwner, OwnerEncapOpen
    <3>5. QED BY <1>2, <1>3, <1>4, <1>12, <2>1, <3>1, <3>2, <3>3, <3>4, OneJob DEF DisableOwner
  <2>2. CASE ~required
    <3> DEFINE s == [jobs[j] EXCEPT !.step = "save", !.copy = EmptyStore,
                                    !.seen = EmptyStore, !.then = "idle"]
    <3>1. s \in JobState /\ JobShape(s)
      BY <1>1, <1>12, EmptyStoreType DEF DisableOwner, At, JobState, JobShape, Step
    <3>2. jobs' = [i \in Job |-> IF i = j THEN s ELSE Excuse(i, Members)]
      BY <1>12, <2>2 DEF DisableOwner
    <3>3. jobs' \in [Job -> JobState] /\ Shape'
      BY <3>1, <3>2, ExcuseType
    <3>4. session' \in [Phone -> Session]
      BY <1>12, <2>2, EmptyStoreType DEF DisableOwner, EmptyStore
    <3>5. recipient' \in 0..MaxKeys /\ gone' \subseteq 1..MaxKeys
      BY <1>2, <1>12, <2>2, BoundAssumption DEF DisableOwner, Replace
    <3>6. late' \in BOOLEAN
      BY <1>12 DEF DisableOwner, OwnerEncapOpen
    <3>7. QED BY <1>2, <1>3, <1>4, <1>12, <3>3, <3>4, <3>5, <3>6 DEF DisableOwner
  <2>3. QED BY <2>1, <2>2
<1>13. CASE DropMemberSession(j)
  <2> DEFINE s == [jobs[j] EXCEPT !.step = IF Present(jobs[j].phone) THEN "snap" ELSE "ensure",
                                  !.then = "ensure"]
  <2>1. s \in JobState /\ JobShape(s)
    BY <1>1, <1>13 DEF DropMemberSession, At, JobState, JobShape, Step
  <2>2. jobs' = [i \in Job |-> IF i = j THEN s ELSE Excuse(i, {jobs[j].phone})]
    BY <1>13 DEF DropMemberSession
  <2>3. session' \in [Phone -> Session]
    BY <1>1, <1>2, <1>13, EmptyStoreType DEF DropMemberSession
  <2>4. jobs' \in [Job -> JobState] /\ Shape'
    BY <2>1, <2>2, ExcuseType
  <2>5. QED BY <1>2, <1>3, <1>4, <1>13, <2>3, <2>4 DEF DropMemberSession, historyVars
<1>14. CASE Snapshot(j)
  <2> DEFINE s == [jobs[j] EXCEPT !.copy = Memory, !.seen = Memory, !.step = "save"]
  <2>1. s \in JobState /\ JobShape(s)
    BY <1>1, <1>2, <1>14 DEF Snapshot, At, JobState, JobShape, Step
  <2>2. jobs' = [jobs EXCEPT ![j] = s]
    BY <1>1, <1>14 DEF Snapshot, Payload
  <2>3. QED BY <1>2, <1>3, <1>4, <1>14, <2>1, <2>2, OneJob DEF Snapshot, memory, historyVars
<1>15. CASE Save(j)
  <2>1. jobs' \in [Job -> JobState] /\ Shape'
    BY <1>15, ContinueType DEF Save
  <2>2. disk' \in Store /\ overtaken' \in BOOLEAN
    BY <1>1, <1>15 DEF Save, JobState
  <2>3. QED BY <1>2, <1>3, <1>4, <1>15, <2>1, <2>2 DEF Save, memory
<1>16. CASE SaveFails(j)
  <2>1. jobs' \in [Job -> JobState] /\ Shape'
    BY <1>16, EndType DEF SaveFails
  <2>2. faults' \in 0..MaxFaults
    BY <1>2, <1>16, BoundAssumption DEF SaveFails
  <2>3. QED BY <1>2, <1>3, <1>4, <1>16, <2>1, <2>2 DEF SaveFails, memory
<1>17. ASSUME NEW plain \in BOOLEAN, OpenBody(j, plain) PROVE Typed'
  <2> DEFINE s == [jobs[j] EXCEPT !.step = "act", !.plain = plain]
  <2>1. s \in JobState /\ JobShape(s)
    BY <1>1, <1>17 DEF OpenBody, JobState, JobShape, Step
  <2>2. jobs' = [jobs EXCEPT ![j] = s] \/ End(j)
    BY <1>1, <1>17 DEF OpenBody
  <2>3. jobs' \in [Job -> JobState] /\ Shape'
    BY <2>1, <2>2, OneJob, EndType
  <2>4. QED BY <1>2, <1>3, <1>4, <1>17, <2>3 DEF OpenBody, memory, historyVars
<1>18. CASE Act(j)
  <2>1. jobs' \in [Job -> JobState] /\ Shape'
    BY <1>18, EndType DEF Act
  <2>2. QED BY <1>2, <1>3, <1>4, <1>18, <2>1 DEF Act, memory, historyVars
<1>19. QED
  BY <1>5, <1>6, <1>7, <1>8, <1>9, <1>10, <1>11, <1>12, <1>13, <1>14, <1>15, <1>16, <1>17, <1>18
     DEF RequestStep

\* Every step keeps the types.
LEMMA TypeNext == Typed /\ [Next]_vars => Typed'
<1> SUFFICES ASSUME Typed, [Next]_vars PROVE Typed'
  OBVIOUS
<1>1. ASSUME NEW j \in Job, Arrives(j) PROVE Typed'
  <2>1. PICK s : jobs' = [jobs EXCEPT ![j] = s] /\ NewJob(s)
    BY <1>1, ArrivalType
  <2>2. jobs' \in [Job -> JobState] /\ Shape'
    BY <2>1, OneJob DEF NewJob
  <2>3. /\ UNCHANGED <<required, saved, memory, disk, offered, keys, faults, historyVars>>
        /\ requests' \in 0..MaxRequests /\ feature' \in BOOLEAN /\ listener' \in BOOLEAN
    BY <1>1, ArrivalType
  <2>4. QED BY <2>2, <2>3 DEF Typed, TypeOK, Memory, memory, historyVars
<1>2. CASE Options
  <2>1. /\ UNCHANGED <<required, memory, disk, offered, jobs, keys, faults, historyVars>>
        /\ feature' \in BOOLEAN /\ saved' \in BOOLEAN /\ listener' \in BOOLEAN
    BY <1>2 DEF Options, FeatureOn, SaveEntry, OptionsUpdated, Typed, TypeOK
  <2>2. requests' \in 0..MaxRequests
    BY <1>2, BoundAssumption DEF Options, FeatureOn, SaveEntry, OptionsUpdated, Typed, TypeOK
  <2>3. QED BY <2>1, <2>2 DEF Typed, TypeOK, Shape, Memory, memory, historyVars
<1>3. CASE Restart
  <2>1. jobs' \in [Job -> JobState] /\ Shape'
    BY <1>3, FinishedType DEF Restart, Shape
  <2>2. Memory' \in Store /\ disk' \in Store
    BY <1>3, MemoryType DEF Restart, Memory, Store, Typed, TypeOK
  <2>5. /\ offered \in [Phone -> 0..MaxKeys] /\ keys \in 0..MaxKeys
        /\ requests \in 0..MaxRequests /\ faults \in 0..MaxFaults /\ gone \subseteq 1..MaxKeys
    BY DEF Typed, TypeOK
  <2>3. /\ offered' \in [Phone -> 0..MaxKeys] /\ keys' \in 0..MaxKeys
        /\ requests' \in 0..MaxRequests /\ faults' \in 0..MaxFaults
    BY <1>3, <2>5, BoundAssumption DEF Restart
  <2>6. gone' \subseteq 1..MaxKeys
    <3>1. 1..keys \subseteq 1..MaxKeys
      BY <2>5, BoundAssumption
    <3>2. QED BY <1>3, <2>5, <3>1 DEF Restart
  <2>4. /\ required' \in BOOLEAN /\ feature' \in BOOLEAN /\ saved' \in BOOLEAN
        /\ listener' \in BOOLEAN /\ overtaken' \in BOOLEAN /\ late' \in BOOLEAN
    BY <1>3 DEF Restart, Typed, TypeOK
  <2>7. QED BY <2>1, <2>2, <2>3, <2>4, <2>6 DEF Typed, TypeOK
<1>4. CASE UNCHANGED vars
  BY <1>4 DEF vars, memory, historyVars, Typed, TypeOK, Shape, Memory
<1>5. QED BY <1>1, <1>2, <1>3, <1>4, NextCases, StepType

\* Every reachable state has the types of TypeOK.
THEOREM TypeCorrect == Spec => []TypeOK
<1>1. Spec => []Typed
  BY TypeInit, TypeNext, PTL DEF Spec
<1>2. Typed => TypeOK
  BY DEF Typed
<1>3. QED BY <1>1, <1>2, PTL

-----------------------------------------------------------------------------
(* Plain writes. *)

\* A write that lost no session on its way still has one when its body is
\* opened, so it was not let in plain.
Admitted(s) == ~s.excused => /\ s.kind = "write" /\ s.step = "body" => Present(s.phone)
                             /\ s.step = "act" => ~s.plain

Plain == required => \A j \in Job : Admitted(jobs[j])

\* The steps that leave the sessions alone and let no write in.
LEMMA PlainQuiet ==
    ASSUME Typed, Plain, NEW j \in Job, UNCHANGED <<required, session>>,
           \/ End(j)
           \/ \E t \in Step \ {"act"} : Goto(j, t) /\ jobs[j].kind # "write"
           \/ \E s \in JobState : /\ jobs' = [jobs EXCEPT ![j] = s]
                                 /\ s.kind # "write" /\ s.step # "act"
    PROVE  Plain'
<1>1. jobs \in [Job -> JobState]
  BY DEF Typed, TypeOK
<1>2. CASE End(j)
  BY <1>1, <1>2, FinishedType DEF End, Plain, Admitted, Present
<1>3. ASSUME NEW t \in Step \ {"act"}, Goto(j, t), jobs[j].kind # "write" PROVE Plain'
  BY <1>1, <1>3 DEF Goto, Plain, Admitted, Present, JobState
<1>4. ASSUME NEW s \in JobState, jobs' = [jobs EXCEPT ![j] = s], s.kind # "write", s.step # "act"
      PROVE  Plain'
  BY <1>1, <1>4 DEF Plain, Admitted, Present
<1>5. QED BY <1>2, <1>3, <1>4

\* A step of a request keeps what a write in the plain was let in with.
LEMMA PlainStep ==
    ASSUME Typed, Plain, NEW j \in Job, RequestStep(j)
    PROVE  Plain'
<1>1. /\ jobs[j] \in JobState /\ jobs \in [Job -> JobState]
      /\ jobs[j].kind = "write" => jobs[j].phone \in Members /\ jobs[j].step \in {"body", "act"}
      /\ \A i \in Job : jobs[i] \in JobState
      /\ jobs[j].step = "save" => jobs[j].then \in {"idle", "ensure", "use"}
      /\ \A i \in Job : jobs[i].kind = "write" => jobs[i].phone \in Members
  BY DEF Typed, TypeOK, Shape, JobShape
<1>2. session \in [Phone -> Session] /\ Owner \notin Members
  BY MemoryType, OwnerAssumption
<1>3. CASE EncapBody(j)
  BY <1>1, <1>3, PlainQuiet DEF EncapBody, Step, memory
<1>4. CASE Ensure(j)
  <2> DEFINE s == [jobs[j] EXCEPT !.step = "renew", !.then = "use"]
  <2>1. recipient = 0 => jobs' = [jobs EXCEPT ![j] = s]
    BY <1>1, <1>4 DEF Ensure
  <2>2. s \in JobState /\ s.kind # "write" /\ s.step # "act" /\ jobs[j].kind # "write"
    BY <1>1, <1>4 DEF Ensure, At, JobState, Step
  <2>3. recipient # 0 => Goto(j, "use")
    BY <1>4 DEF Ensure
  <2>4. UNCHANGED <<required, session>>
    BY <1>4 DEF Ensure, memory
  <2>5. QED BY <2>1, <2>2, <2>3, <2>4, PlainQuiet DEF Step
<1>5. CASE Renew(j)
  BY <1>1, <1>5, PlainQuiet DEF Renew, Generated, At, Step
<1>6. CASE UsePublic(j)
  BY <1>6, PlainQuiet DEF UsePublic, memory
<1>7. CASE UseEncap(j)
  <2> DEFINE s == [jobs[j] EXCEPT !.step = "store", !.key.house = recipient]
  <2>1. recipient # 0 => jobs' = [jobs EXCEPT ![j] = s]
    BY <1>1, <1>7 DEF UseEncap
  <2>2. s \in JobState /\ s.kind # "write" /\ s.step # "act"
    BY <1>1, <1>7, MemoryType DEF UseEncap, At, JobState, Step, Session
  <2>3. recipient = 0 => End(j)
    BY <1>7 DEF UseEncap
  <2>4. UNCHANGED <<required, session>>
    BY <1>7 DEF UseEncap, memory
  <2>5. QED BY <2>1, <2>2, <2>3, <2>4, PlainQuiet
<1>8. CASE StoreSession(j)
  <2>1. jobs[j].key # NoSession /\ jobs[j].phone \in Phone /\ jobs[j].kind # "write"
    BY <1>1, <1>8 DEF StoreSession, At, Typed, Shape, JobShape, NoSession, JobState
  <2>2. \A p \in Phone : Present(p) => session'[p] # NoSession
    BY <1>2, <1>8, <2>1 DEF StoreSession, Present
  <2>3. /\ \A i \in Job : i # j => jobs'[i] = jobs[i]
        /\ jobs'[j].kind # "write" /\ jobs'[j].step = "snap" /\ required' = required
    BY <1>1, <1>8, <2>1 DEF StoreSession, JobState
  <2>4. QED BY <1>1, <2>2, <2>3 DEF Plain, Admitted, Present, Phone
<1>9. CASE RotateWipe(j)
  <2>1. \A p \in Members : session'[p] = session[p]
    BY <1>2, <1>9 DEF RotateWipe, Phone
  <2>2. /\ \A i \in Job : i # j => jobs'[i] = jobs[i]
        /\ jobs'[j].kind # "write" /\ jobs'[j].step = "renew" /\ required' = required
    BY <1>1, <1>9 DEF RotateWipe, JobState
  <2>3. QED BY <1>1, <2>1, <2>2 DEF Plain, Admitted, Present
<1>10. CASE DisableOwner(j)
  <2>0. CASE ~required
    BY <1>10, <2>0 DEF DisableOwner, Plain
  <2>1. CASE required
    <3>1. \A p \in Members : session'[p] = session[p]
      BY <1>2, <1>10, <2>1 DEF DisableOwner, Phone
    <3>2. /\ \A i \in Job : i # j => jobs'[i] = jobs[i]
          /\ jobs'[j].kind # "write" /\ jobs'[j].step = "snap" /\ required' = required
      BY <1>1, <1>10, <2>1 DEF DisableOwner, JobState
    <3>3. QED BY <1>1, <3>1, <3>2 DEF Plain, Admitted, Present
  <2>2. QED BY <2>0, <2>1
<1>11. CASE DropMemberSession(j)
  <2> DEFINE q == jobs[j].phone
  <2>1. \A p \in Phone : p # q => session'[p] = session[p]
    BY <1>2, <1>11 DEF DropMemberSession
  <2>2. \A i \in Job : i # j => jobs'[i] = Excuse(i, {q})
    BY <1>11 DEF DropMemberSession
  <2>3. jobs'[j].kind # "write" /\ jobs'[j].step # "act" /\ required' = required
    BY <1>1, <1>11 DEF DropMemberSession, At, JobState
  <2>4. ASSUME required, NEW i \in Job, i # j PROVE Admitted(jobs[i])'
    <3>1. CASE jobs[i].kind = "write" /\ jobs[i].phone = q
      BY <1>1, <2>2, <2>4, <3>1 DEF Excuse, Admitted, JobState
    <3>2. CASE ~(jobs[i].kind = "write" /\ jobs[i].phone = q)
      <4>1. jobs'[i] = jobs[i] /\ Admitted(jobs[i])
        BY <2>2, <2>4, <3>2 DEF Excuse, Plain
      <4>2. QED BY <1>1, <2>1, <3>2, <4>1 DEF Admitted, Present, Phone
    <3>3. QED BY <3>1, <3>2
  <2>5. Admitted(jobs[j])'
    BY <2>3 DEF Admitted
  <2>6. QED BY <2>3, <2>4, <2>5 DEF Plain
<1>12. CASE Snapshot(j)
  <2> DEFINE s == [jobs[j] EXCEPT !.copy = Memory, !.seen = Memory, !.step = "save"]
  <2>1. jobs' = [jobs EXCEPT ![j] = s]
    BY <1>1, <1>12 DEF Snapshot, Payload
  <2>2. s \in JobState /\ s.kind # "write" /\ s.step # "act"
    BY <1>1, <1>12 DEF Snapshot, At, JobState, Step, Typed, TypeOK
  <2>3. UNCHANGED <<required, session>>
    BY <1>12 DEF Snapshot, memory
  <2>4. QED BY <2>1, <2>2, <2>3, PlainQuiet
<1>13. CASE Save(j)
  BY <1>1, <1>13, PlainQuiet DEF Save, Continue, At, Step, memory
<1>14. CASE SaveFails(j)
  BY <1>14, PlainQuiet DEF SaveFails, memory
<1>15. ASSUME NEW plain \in BOOLEAN, OpenBody(j, plain) PROVE Plain'
  <2>1. CASE End(j)
    BY <1>15, <2>1, PlainQuiet DEF OpenBody, memory
  <2>2. CASE ~End(j)
    <3>1. /\ jobs' = [jobs EXCEPT ![j].step = "act", ![j].plain = plain]
          /\ UNCHANGED <<required, session>>
          /\ plain => ~SealedMode(jobs[j].phone)
          /\ jobs[j].kind = "write" /\ jobs[j].step = "body"
      BY <1>15, <2>2 DEF OpenBody, At, memory
    <3>2. ASSUME required, ~jobs[j].excused PROVE ~plain
      <4>1. Present(jobs[j].phone) /\ jobs[j].phone # Owner
        BY <1>1, <1>2, <3>1, <3>2 DEF Plain, Admitted
      <4>2. SealedMode(jobs[j].phone)
        BY <3>2, <4>1 DEF SealedMode, ShieldOn
      <4>3. QED BY <3>1, <4>2
    <3>3. required => Admitted(jobs[j])'
      BY <1>1, <3>1, <3>2 DEF Admitted, JobState
    <3>4. QED BY <1>1, <3>1, <3>3 DEF Plain, Admitted, Present
  <2>3. QED BY <2>1, <2>2
<1>16. CASE Act(j)
  BY <1>16, PlainQuiet DEF Act, memory
<1>17. QED
  BY <1>3, <1>4, <1>5, <1>6, <1>7, <1>8, <1>9, <1>10, <1>11, <1>12, <1>13, <1>14, <1>15, <1>16
     DEF RequestStep

\* Every step keeps what a write in the plain was let in with.
LEMMA PlainNext == Typed /\ Plain /\ [Next]_vars => Plain'
<1> SUFFICES ASSUME Typed, Plain, [Next]_vars PROVE Plain'
  OBVIOUS
<1>1. ASSUME NEW j \in Job, Arrives(j) PROVE Plain'
  <2>1. PICK s : jobs' = [jobs EXCEPT ![j] = s] /\ NewJob(s)
    BY <1>1, ArrivalType
  <2>2. UNCHANGED <<required, session>>
    BY <1>1, ArrivalType DEF memory
  <2>3. required => Admitted(s)'
    BY <2>1, <2>2 DEF NewJob, Admitted, Present
  <2>4. QED BY <2>1, <2>2, <2>3 DEF Plain, Admitted, Present, Typed, TypeOK
<1>2. CASE Options
  BY <1>2 DEF Options, FeatureOn, SaveEntry, OptionsUpdated, memory, Plain, Admitted, Present
<1>3. CASE Restart
  BY <1>3, FinishedType DEF Restart, Plain, Admitted
<1>4. CASE UNCHANGED vars
  BY <1>4 DEF vars, memory, Plain, Admitted, Present
<1>5. QED BY <1>1, <1>2, <1>3, <1>4, NextCases, PlainStep

\* While members must use PQ, a plain write gets to its handler only if the
\* member's session was dropped after the request had passed the gate, whatever
\* rotations, wipes and restarts run beside it.
THEOREM PlainWrites == Spec => []PlainWriteHasCause
<1>1. Init => Plain
  BY FinishedType DEF Init, Plain, Admitted
<1>2. Spec => [](Typed /\ Plain)
  BY <1>1, TypeInit, TypeNext, PlainNext, PTL DEF Spec
<1>3. Typed /\ Plain => PlainWriteHasCause
  BY DEF Plain, Admitted, PlainWriteHasCause, At
<1>4. QED BY <1>2, <1>3, PTL

-----------------------------------------------------------------------------
(* The file. *)

\* The file holds what memory holds, or a request is about to write it, or the
\* last write was not of what memory holds.
Unwritten(s) == s.step \in {"renew", "snap", "save"}
Written == overtaken \/ disk = Memory \/ \E j \in Job : Unwritten(jobs[j])

\* What a request's step does to the record of another.
Alike(i) == /\ jobs'[i].kind = jobs[i].kind /\ jobs'[i].step = jobs[i].step
            /\ jobs'[i].phone = jobs[i].phone /\ jobs'[i].key = jobs[i].key
            /\ jobs'[i].copy = jobs[i].copy /\ jobs'[i].seen = jobs[i].seen

\* A step of one request leaves the others alike.
LEMMA OthersAlike ==
    ASSUME Typed, NEW j \in Job, RequestStep(j), NEW i \in Job, i # j
    PROVE  Alike(i)
<1>1. jobs \in [Job -> JobState] /\ jobs[i] \in JobState
  BY DEF Typed, TypeOK
<1>2. CASE jobs'[i] = jobs[i]
  BY <1>2 DEF Alike
<1>3. CASE jobs'[i] = [jobs[i] EXCEPT !.excused = TRUE]
  BY <1>1, <1>3 DEF Alike, JobState
<1>4. CASE \E d : jobs'[i] = Excuse(i, d)
  BY <1>2, <1>3, <1>4 DEF Excuse
<1>5. CASE DisableOwner(j)
  <2>1. required => jobs'[i] = jobs[i]
    BY <1>1, <1>5 DEF DisableOwner
  <2>2. ~required => jobs'[i] = Excuse(i, Members)
    BY <1>5 DEF DisableOwner
  <2>3. QED BY <2>1, <2>2, <1>2, <1>4
<1>6. CASE DropMemberSession(j)
  <2>1. jobs'[i] = Excuse(i, {jobs[j].phone})
    BY <1>6 DEF DropMemberSession
  <2>2. QED BY <2>1, <1>4
<1>7. CASE ~DisableOwner(j) /\ ~DropMemberSession(j)
  <2>1. jobs'[i] = jobs[i]
    BY <1>1, <1>7 DEF RequestStep, EncapBody, Ensure, Renew, UsePublic, UseEncap, StoreSession,
       RotateWipe, Snapshot, Save, SaveFails, OpenBody, Act, Goto, End, Continue
  <2>2. QED BY <1>2, <2>1
<1>8. QED BY <1>5, <1>6, <1>7

\* A step of a request keeps file and memory in agreement, but for writes to come.
LEMMA WrittenStep ==
    ASSUME Typed, Written, NEW j \in Job, RequestStep(j)
    PROVE  Written'
<1>1. /\ jobs[j] \in JobState /\ jobs \in [Job -> JobState]
      /\ jobs[j].step = "save" => jobs[j].copy = jobs[j].seen
  BY DEF Typed, TypeOK, Shape, JobShape
<1>2. \A i \in Job : i # j => (Unwritten(jobs[i])' <=> Unwritten(jobs[i]))
  BY OthersAlike DEF Alike, Unwritten
<1>3. CASE Save(j)
  BY <1>1, <1>3 DEF Save, At, memory, Memory, Written
<1>4. CASE SaveFails(j)
  BY <1>4 DEF SaveFails, Written
<1>5. CASE Unwritten(jobs[j])'
  BY <1>5 DEF Written
<1>6. ASSUME ~Unwritten(jobs[j]), UNCHANGED <<recipient, session, disk, overtaken>>
      PROVE  Written'
  BY <1>2, <1>6 DEF Written, Memory
<1>7. CASE EncapBody(j)
  BY <1>6, <1>7 DEF EncapBody, At, memory, historyVars, Unwritten
<1>8. CASE Ensure(j)
  BY <1>6, <1>8 DEF Ensure, At, memory, historyVars, Unwritten
<1>9. CASE Renew(j)
  BY <1>1, <1>5, <1>9 DEF Renew, Goto, Generated, Unwritten, JobState
<1>10. CASE UsePublic(j)
  BY <1>6, <1>10 DEF UsePublic, At, memory, historyVars, Unwritten
<1>11. CASE UseEncap(j)
  BY <1>6, <1>11 DEF UseEncap, At, memory, historyVars, Unwritten
<1>12. CASE StoreSession(j)
  BY <1>1, <1>5, <1>12 DEF StoreSession, Unwritten, JobState
<1>13. CASE RotateWipe(j)
  BY <1>1, <1>5, <1>13 DEF RotateWipe, Unwritten, JobState
<1>14. CASE DisableOwner(j)
  BY <1>1, <1>5, <1>14 DEF DisableOwner, Unwritten, JobState
<1>15. CASE DropMemberSession(j)
  <2>1. CASE Present(jobs[j].phone)
    BY <1>1, <1>5, <1>15, <2>1 DEF DropMemberSession, Unwritten, JobState
  <2>2. CASE ~Present(jobs[j].phone)
    <3>1. session' = session
      BY <1>1, <1>15, <2>2, MemoryType DEF DropMemberSession, Present, JobState
    <3>2. QED BY <1>6, <1>15, <3>1 DEF DropMemberSession, At, historyVars, Unwritten
  <2>3. QED BY <2>1, <2>2
<1>16. CASE Snapshot(j)
  BY <1>1, <1>5, <1>16 DEF Snapshot, Unwritten, JobState
<1>17. ASSUME NEW plain \in BOOLEAN, OpenBody(j, plain) PROVE Written'
  BY <1>6, <1>17 DEF OpenBody, At, memory, historyVars, Unwritten
<1>18. CASE Act(j)
  BY <1>6, <1>18 DEF Act, At, memory, historyVars, Unwritten
<1>19. QED
  BY <1>3, <1>4, <1>7, <1>8, <1>9, <1>10, <1>11, <1>12, <1>13, <1>14, <1>15, <1>16, <1>17, <1>18
     DEF RequestStep

\* Every step keeps file and memory in agreement, but for writes to come.
LEMMA WrittenNext == Typed /\ Written /\ [Next]_vars => Written'
<1> SUFFICES ASSUME Typed, Written, [Next]_vars PROVE Written'
  OBVIOUS
<1>1. ASSUME NEW j \in Job, Arrives(j) PROVE Written'
  <2>1. PICK s : jobs' = [jobs EXCEPT ![j] = s]
    BY <1>1, ArrivalType
  <2>2. At(j, "idle") /\ UNCHANGED <<recipient, session, disk, overtaken>>
    BY <1>1, ArrivalType DEF memory, historyVars
  <2>3. \A i \in Job : Unwritten(jobs[i]) => Unwritten(jobs[i])'
    BY <2>1, <2>2 DEF At, Unwritten, Typed, TypeOK
  <2>4. QED BY <2>2, <2>3 DEF Written, Memory
<1>2. CASE Options
  BY <1>2 DEF Options, FeatureOn, SaveEntry, OptionsUpdated, memory, historyVars, Written, Memory
<1>3. CASE Restart
  <2>1. disk = [recipient |-> disk.recipient, session |-> disk.session]
    BY DEF Typed, TypeOK, Store
  <2>2. QED BY <1>3, <2>1 DEF Restart, Written, Memory
<1>4. CASE UNCHANGED vars
  BY <1>4 DEF vars, memory, historyVars, Written, Memory
<1>5. QED BY <1>1, <1>2, <1>3, <1>4, NextCases, WrittenStep

-----------------------------------------------------------------------------
(* Switching the shield off. *)

OwnerEncap(s) == /\ s.kind = "encap" /\ s.phone = Owner
                 /\ s.step \in {"ensure", "use", "store", "renew", "snap", "save"}
Wiping(s) == s.kind = "off" /\ s.step = "wipe"

\* With the shield off, a wipe is still to come or the owner has no session and
\* no handshake that can still store one.
OwnerOff ==
    ~feature /\ ~late => \/ listener
                         \/ \E j \in Job : Wiping(jobs[j])
                         \/ session[Owner] = NoSession /\ \A j \in Job : ~OwnerEncap(jobs[j])

\* A step of a request keeps the owner's session gone while the feature is off.
LEMMA OwnerOffStep ==
    ASSUME Typed, OwnerOff, NEW j \in Job, RequestStep(j)
    PROVE  OwnerOff'
<1>1. jobs[j] \in JobState /\ jobs \in [Job -> JobState] /\ Owner \in Phone
  BY DEF Typed, TypeOK, Phone
<1>2. \A i \in Job : i # j => /\ OwnerEncap(jobs[i])' <=> OwnerEncap(jobs[i])
                              /\ Wiping(jobs[i])' <=> Wiping(jobs[i])
  BY OthersAlike DEF Alike, OwnerEncap, Wiping
<1>3. session \in [Phone -> Session]
  BY MemoryType
\* The wipe itself.
<1>4. CASE DisableOwner(j)
  <2>1. late' = OwnerEncapOpen
    BY <1>4 DEF DisableOwner
  <2>2. session'[Owner] = NoSession
    BY <1>1, <1>3, <1>4 DEF DisableOwner, EmptyStore
  <2>3. jobs'[j].kind = "off"
    BY <1>1, <1>4 DEF DisableOwner, JobState
  <2>4. ~OwnerEncapOpen => \A i \in Job : ~OwnerEncap(jobs[i])
    BY DEF OwnerEncapOpen, OwnerEncap
  <2>5. ~OwnerEncapOpen => \A i \in Job : ~OwnerEncap(jobs[i])'
    BY <1>2, <2>3, <2>4 DEF OwnerEncap
  <2>6. QED BY <2>1, <2>2, <2>5 DEF OwnerOff
\* The other steps start no handshake, store none that was not open, and end no wipe.
<1>5. ASSUME UNCHANGED <<feature, listener, late>>, ~Wiping(jobs[j]),
             OwnerEncap(jobs[j])' => OwnerEncap(jobs[j]) \/ feature,
             session'[Owner] \in {session[Owner], NoSession} \/ OwnerEncap(jobs[j])
      PROVE  OwnerOff'
  BY <1>2, <1>5 DEF OwnerOff
<1>6. CASE EncapBody(j)
  <2>1. jobs'[j].phone = Owner /\ jobs'[j].kind = "encap" => feature
    BY <1>1, <1>6, FinishedType DEF EncapBody, Goto, End, ShieldOn, JobState
  <2>2. QED BY <1>5, <1>6, <2>1 DEF EncapBody, At, memory, historyVars, OwnerEncap, Wiping
<1>7. CASE Ensure(j)
  <2>1. jobs'[j].kind = jobs[j].kind /\ jobs'[j].phone = jobs[j].phone
    BY <1>1, <1>7 DEF Ensure, Goto, JobState
  <2>2. QED BY <1>5, <1>7, <2>1 DEF Ensure, At, memory, historyVars, OwnerEncap, Wiping
<1>8. CASE Renew(j)
  <2>1. jobs'[j].kind = jobs[j].kind /\ jobs'[j].phone = jobs[j].phone
    BY <1>1, <1>8 DEF Renew, Goto, Generated, JobState
  <2>2. QED BY <1>5, <1>8, <2>1 DEF Renew, At, OwnerEncap, Wiping
<1>9. CASE UsePublic(j)
  <2>1. jobs'[j] = Finished
    BY <1>1, <1>9 DEF UsePublic, End
  <2>2. QED BY <1>5, <1>9, <2>1, FinishedType DEF UsePublic, At, memory, historyVars, OwnerEncap, Wiping
<1>10. CASE UseEncap(j)
  <2>1. jobs'[j] = Finished \/ (jobs'[j].kind = jobs[j].kind /\ jobs'[j].phone = jobs[j].phone)
    BY <1>1, <1>10 DEF UseEncap, End, JobState
  <2>2. QED BY <1>5, <1>10, <2>1, FinishedType DEF UseEncap, At, memory, historyVars, OwnerEncap, Wiping
<1>11. CASE StoreSession(j)
  <2>1. jobs'[j].kind = jobs[j].kind /\ jobs'[j].phone = jobs[j].phone
    BY <1>1, <1>11 DEF StoreSession, JobState
  <2>2. session'[Owner] = session[Owner] \/ jobs[j].phone = Owner
    BY <1>1, <1>3, <1>11 DEF StoreSession
  <2>3. jobs[j].kind = "encap"
    BY <1>11 DEF StoreSession, At, Typed, Shape, JobShape
  <2>4. QED BY <1>5, <1>11, <2>1, <2>2, <2>3 DEF StoreSession, At, historyVars, OwnerEncap, Wiping
<1>12. CASE RotateWipe(j)
  <2>1. jobs'[j].kind = jobs[j].kind /\ jobs[j].kind = "rotate"
    BY <1>1, <1>12 DEF RotateWipe, JobState
  <2>2. session'[Owner] = NoSession
    BY <1>1, <1>3, <1>12 DEF RotateWipe
  <2>3. QED BY <1>5, <1>12, <2>1, <2>2 DEF RotateWipe, historyVars, OwnerEncap, Wiping
<1>13. CASE DropMemberSession(j)
  <2>1. jobs'[j].kind = jobs[j].kind /\ jobs'[j].phone = jobs[j].phone
    BY <1>1, <1>13 DEF DropMemberSession, JobState
  <2>2. session'[Owner] \in {session[Owner], NoSession}
    BY <1>1, <1>3, <1>13 DEF DropMemberSession
  <2>3. jobs[j].kind # "encap"
    BY <1>13 DEF DropMemberSession, At, Typed, Shape, JobShape
  <2>4. QED BY <1>5, <1>13, <2>1, <2>2, <2>3 DEF DropMemberSession, At, historyVars, OwnerEncap, Wiping
<1>14. CASE Snapshot(j)
  <2>1. jobs'[j].kind = jobs[j].kind /\ jobs'[j].phone = jobs[j].phone
    BY <1>1, <1>14 DEF Snapshot, JobState
  <2>2. QED BY <1>5, <1>14, <2>1 DEF Snapshot, At, memory, historyVars, OwnerEncap, Wiping
<1>15. CASE Save(j)
  <2>1. jobs'[j] = Finished \/ (jobs'[j].kind = jobs[j].kind /\ jobs'[j].phone = jobs[j].phone)
    BY <1>1, <1>15 DEF Save, Continue, Goto, End, JobState
  <2>2. QED BY <1>5, <1>15, <2>1, FinishedType DEF Save, At, memory, OwnerEncap, Wiping
<1>16. CASE SaveFails(j)
  <2>1. jobs'[j] = Finished
    BY <1>1, <1>16 DEF SaveFails, End
  <2>2. QED BY <1>5, <1>16, <2>1, FinishedType DEF SaveFails, At, memory, OwnerEncap, Wiping
<1>17. ASSUME NEW plain \in BOOLEAN, OpenBody(j, plain) PROVE OwnerOff'
  <2>1. jobs'[j] = Finished \/ jobs'[j].kind = "write"
    BY <1>1, <1>17 DEF OpenBody, End, JobState
  <2>2. QED BY <1>5, <1>17, <2>1, FinishedType DEF OpenBody, At, memory, historyVars, OwnerEncap, Wiping
<1>18. CASE Act(j)
  <2>1. jobs'[j] = Finished
    BY <1>1, <1>18 DEF Act, End
  <2>2. QED BY <1>5, <1>18, <2>1, FinishedType DEF Act, At, memory, historyVars, OwnerEncap, Wiping
<1>19. QED
  BY <1>4, <1>6, <1>7, <1>8, <1>9, <1>10, <1>11, <1>12, <1>13, <1>14, <1>15, <1>16, <1>17, <1>18
     DEF RequestStep

\* Every step keeps the owner's session gone while the feature is off.
LEMMA OwnerOffNext == Typed /\ Written /\ OwnerOff /\ [Next]_vars => OwnerOff'
<1> SUFFICES ASSUME Typed, Written, OwnerOff, [Next]_vars PROVE OwnerOff'
  OBVIOUS
<1>1. ASSUME NEW j \in Job, Arrives(j) PROVE OwnerOff'
  <2>1. PICK s : /\ jobs' = [jobs EXCEPT ![j] = s] /\ NewJob(s)
                 /\ \/ UNCHANGED <<feature, listener>>
                    \/ s.kind = "off" /\ s.step = "wipe"
    BY <1>1, ArrivalType
  <2>2. At(j, "idle") /\ UNCHANGED <<session, late>>
    BY <1>1, ArrivalType DEF memory, historyVars
  <2>3. ~OwnerEncap(s)
    BY <2>1 DEF NewJob, OwnerEncap
  <2>4. \A i \in Job : jobs'[i] = IF i = j THEN s ELSE jobs[i]
    BY <2>1 DEF Typed, TypeOK
  <2>5. CASE UNCHANGED <<feature, listener>>
    BY <2>2, <2>3, <2>4, <2>5 DEF OwnerOff, At, Wiping
  <2>6. CASE Wiping(s)
    BY <2>4, <2>6 DEF OwnerOff
  <2>7. QED BY <2>1, <2>5, <2>6 DEF Wiping
<1>2. CASE Options
  BY <1>2 DEF Options, FeatureOn, SaveEntry, OptionsUpdated, memory, historyVars, OwnerOff
<1>3. CASE Restart
  <2>1. CASE overtaken \/ ~Quiet \/ listener \/ (feature /\ ~saved)
    BY <1>3, <2>1 DEF Restart, OwnerOff
  <2>2. CASE ~overtaken /\ Quiet /\ ~listener /\ (feature => saved)
    <3>1. disk.session = session
      BY <2>2 DEF Quiet, At, Written, Unwritten, Memory
    <3>2. \A i \in Job : ~OwnerEncap(jobs'[i])
      BY <1>3, FinishedType DEF Restart, OwnerEncap
    <3>3. late' = late /\ (~feature' => ~feature) /\ session' = session
      BY <1>3, <2>2, <3>1 DEF Restart, Typed, TypeOK
    <3>4. \A i \in Job : ~Wiping(jobs[i])
      BY <2>2 DEF Quiet, At, Wiping
    <3>5. QED BY <2>2, <3>2, <3>3, <3>4 DEF OwnerOff
  <2>3. QED BY <2>1, <2>2
<1>4. CASE UNCHANGED vars
  BY <1>4 DEF vars, memory, historyVars, OwnerOff
<1>5. QED BY <1>1, <1>2, <1>3, <1>4, NextCases, OwnerOffStep

\* With the shield off and nothing running, the owner's session is gone from
\* memory, and from the file unless its last write was overtaken, failed or cut;
\* but for a handshake that outlived the wipe, and a restart that lost the switch or
\* brought an older Off back.
THEOREM OffIsGone == Spec => []OffMeansGone
<1>1. Init => Written /\ OwnerOff
  BY DEF Init, Written, Memory, EmptyStore, OwnerOff
<1>2. Spec => [](Typed /\ Written /\ OwnerOff)
  BY <1>1, TypeInit, TypeNext, WrittenNext, OwnerOffNext, PTL DEF Spec
<1>3. Typed /\ Written /\ OwnerOff => OffMeansGone
  <2> SUFFICES ASSUME Typed, Written, OwnerOff, Quiet, ~listener, ~feature, ~late
               PROVE  ~Present(Owner) /\ (overtaken \/ disk.session[Owner] = NoSession)
    BY DEF OffMeansGone
  <2>1. \A j \in Job : jobs[j].step = "idle"
    BY DEF Quiet, At
  <2>2. session[Owner] = NoSession
    BY <2>1 DEF OwnerOff, Wiping
  <2>3. overtaken \/ disk = Memory
    BY <2>1 DEF Written, Unwritten
  <2>4. QED BY <2>2, <2>3 DEF Present, Memory
<1>4. QED BY <1>2, <1>3, PTL

-----------------------------------------------------------------------------
(* Sessions that no phone can open. *)

Paired(x, g) == x.phone # x.house => x.phone \in g
Sound(f, g) == \A p \in Phone : Paired(f[p], g)
Tracked(s, k, g) == /\ s.key.phone \in 0..k /\ s.copy.recipient \in 0..k
                    /\ Sound(s.copy.session, g)
                    /\ s.step = "store" => Paired(s.key, g)

\* Every pair generated so far is the recipient or was replaced; a request holds
\* generated pairs only; a session of two pairs has its phone's pair replaced.
Lineage ==
    /\ recipient \in 0..keys /\ disk.recipient \in 0..keys
    /\ \A p \in Phone : offered[p] \in 0..keys
    /\ 1..keys \subseteq gone \cup {recipient}
    /\ Sound(session, gone) /\ Sound(disk.session, gone)
    /\ \A j \in Job : Tracked(jobs[j], keys, gone)

\* What is sound for some key pairs is sound for more.
LEMMA Growing ==
    ASSUME NEW k \in Nat, NEW l \in Nat, k <= l, NEW g, NEW h, g \subseteq h
    PROVE  /\ \A f : Sound(f, g) => Sound(f, h)
           /\ \A s : Tracked(s, k, g) => Tracked(s, l, h)
<1>1. \A f : Sound(f, g) => Sound(f, h)
  BY DEF Sound, Paired
<1>2. ASSUME NEW s, Tracked(s, k, g) PROVE Tracked(s, l, h)
  <2>1. s.key.phone \in 0..l /\ s.copy.recipient \in 0..l
    BY <1>2 DEF Tracked
  <2>2. QED BY <1>1, <1>2, <2>1 DEF Tracked, Paired
<1>3. QED BY <1>1, <1>2

\* A finished request and an empty store hold no key pair.
LEMMA FinishedTracked ==
    ASSUME NEW k \in Nat, NEW g
    PROVE  Tracked(Finished, k, g) /\ Sound(EmptyStore.session, g)
<1>1. Sound(EmptyStore.session, g)
  BY DEF Sound, Paired, EmptyStore, NoSession
<1>2. Tracked(Finished, k, g)
  BY <1>1, FinishedType DEF Tracked, NoSession, EmptyStore
<1>3. QED BY <1>1, <1>2

\* What is left to show of a request's step: no pair is forgotten, and the
\* request, the memory and the file stay sound.
LEMMA LineageFrom ==
    ASSUME Typed, Lineage, NEW j \in Job, RequestStep(j),
           keys' \in Nat, keys <= keys', gone \subseteq gone',
           recipient' \in 0..keys', disk'.recipient \in 0..keys',
           \A p \in Phone : offered'[p] \in 0..keys',
           1..keys' \subseteq gone' \cup {recipient'},
           Sound(session', gone'), Sound(disk'.session, gone'),
           Tracked(jobs'[j], keys', gone')
    PROVE  Lineage'
<1>1. keys \in Nat
  BY BoundAssumption DEF Typed, TypeOK
<1>2. ASSUME NEW i \in Job, i # j PROVE Tracked(jobs'[i], keys', gone')
  <2>1. Tracked(jobs[i], keys', gone')
    BY <1>1, Growing DEF Lineage
  <2>2. Alike(i)
    BY <1>2, OthersAlike
  <2>3. QED BY <2>1, <2>2 DEF Alike, Tracked
<1>3. QED BY <1>2 DEF Lineage

\* The steps that only move the request.
LEMMA LineageMoves ==
    ASSUME Typed, Lineage, NEW j \in Job, RequestStep(j),
           UNCHANGED <<recipient, session, disk, offered, keys, gone>>,
           Tracked(jobs'[j], keys, gone)
    PROVE  Lineage'
<1>1. keys \in Nat
  BY BoundAssumption DEF Typed, TypeOK
<1>2. QED BY <1>1, LineageFrom DEF Lineage

\* A step of a request keeps the lineage of the key pairs.
LEMMA LineageStep ==
    ASSUME Typed, Lineage, NEW j \in Job, RequestStep(j)
    PROVE  Lineage'
<1>1. /\ jobs[j] \in JobState /\ jobs \in [Job -> JobState] /\ keys \in Nat
      /\ jobs[j].phone \in Phone /\ Owner \in Phone
      /\ gone \subseteq 1..MaxKeys /\ JobShape(jobs[j])
      /\ jobs[j].copy \in Store
  BY BoundAssumption DEF Typed, TypeOK, JobState, Phone, Shape
<1>2. session \in [Phone -> Session] /\ recipient \in 0..MaxKeys
  BY MemoryType
<1>3. Tracked(jobs[j], keys, gone) /\ Tracked(Finished, keys, gone)
  BY <1>1, FinishedTracked DEF Lineage
<1>4. ASSUME NEW t \in Step \ {"store"}, Goto(j, t) PROVE Tracked(jobs'[j], keys, gone)
  BY <1>1, <1>3, <1>4 DEF Goto, Tracked, JobState
<1>5. ASSUME End(j) PROVE Tracked(jobs'[j], keys, gone)
  BY <1>1, <1>3, <1>5 DEF End
<1>6. CASE EncapBody(j)
  BY <1>4, <1>5, <1>6, LineageMoves DEF EncapBody, Step, memory, historyVars
<1>7. CASE Ensure(j)
  <2>1. Tracked(jobs'[j], keys, gone)
    BY <1>1, <1>3, <1>7 DEF Ensure, Goto, Tracked, JobState
  <2>2. QED BY <1>7, <2>1, LineageMoves DEF Ensure, memory, historyVars
<1>8. CASE Renew(j)
  <2>1. keys' = keys + 1 /\ recipient' = keys + 1 /\ gone' = gone \cup ({recipient} \ {0, keys + 1})
    BY <1>8 DEF Renew, Replace
  <2>2. UNCHANGED <<session, disk, offered>>
    BY <1>8 DEF Renew
  <2>3. Tracked(jobs'[j], keys, gone)
    BY <1>4, <1>8 DEF Renew, Generated, Step
  <2>4. Tracked(jobs'[j], keys', gone') /\ Sound(session', gone') /\ Sound(disk'.session, gone')
    BY <1>1, <2>1, <2>2, <2>3, Growing DEF Lineage
  <2>5. 1..keys' \subseteq gone' \cup {recipient'}
    BY <1>1, <2>1 DEF Lineage
  <2>6. /\ keys' \in Nat /\ keys <= keys' /\ gone \subseteq gone'
        /\ recipient' \in 0..keys' /\ disk'.recipient \in 0..keys'
        /\ \A p \in Phone : offered'[p] \in 0..keys'
    BY <1>1, <2>1, <2>2 DEF Lineage
  <2>7. QED BY <2>4, <2>5, <2>6, LineageFrom
<1>9. CASE UsePublic(j)
  <2>1. Tracked(jobs'[j], keys, gone)
    BY <1>5, <1>9 DEF UsePublic
  <2>2. \A p \in Phone : offered'[p] \in 0..keys
    BY <1>1, <1>9 DEF UsePublic, Lineage, Typed, TypeOK
  <2>3. UNCHANGED <<recipient, session, disk, keys, gone>>
    BY <1>9 DEF UsePublic, memory, historyVars
  <2>4. QED BY <1>1, <2>1, <2>2, <2>3, LineageFrom DEF Lineage
<1>10. CASE UseEncap(j)
  <2>1. CASE recipient = 0
    BY <1>5, <1>10, <2>1, LineageMoves DEF UseEncap, memory, historyVars
  <2>2. CASE recipient # 0
    <3> DEFINE s == [jobs[j] EXCEPT !.step = "store", !.key.house = recipient]
    <3>1. jobs'[j] = s /\ jobs[j].kind = "encap"
      BY <1>1, <1>10, <2>2 DEF UseEncap
    <3>2. /\ s.key.phone = jobs[j].key.phone /\ s.key.house = recipient
          /\ s.copy = jobs[j].copy
      BY <1>1 DEF JobState, Session
    <3>3. s.key.phone \in gone \cup {recipient}
      BY <1>1, <1>3, <3>1, <3>2 DEF Lineage, Tracked, JobShape
    <3>4. Tracked(jobs'[j], keys, gone)
      BY <1>3, <3>1, <3>2, <3>3 DEF Tracked, Paired
    <3>5. QED BY <1>10, <3>4, LineageMoves DEF UseEncap, memory, historyVars
  <2>3. QED BY <2>1, <2>2
<1>11. CASE StoreSession(j)
  <2>1. Paired(jobs[j].key, gone)
    BY <1>3, <1>11 DEF StoreSession, At, Tracked
  <2>2. Sound(session', gone)
    BY <1>1, <1>2, <1>11, <2>1 DEF StoreSession, Lineage, Sound
  <2>3. Tracked(jobs'[j], keys, gone)
    BY <1>1, <1>3, <1>11 DEF StoreSession, Tracked, JobState
  <2>4. UNCHANGED <<recipient, disk, offered, keys, gone>>
    BY <1>11 DEF StoreSession, historyVars
  <2>5. QED BY <1>1, <2>2, <2>3, <2>4, LineageFrom DEF Lineage
<1>12. Paired(NoSession, gone)
  BY DEF Paired, NoSession
<1>13. CASE RotateWipe(j)
  <2>1. Sound(session', gone)
    BY <1>1, <1>2, <1>12, <1>13 DEF RotateWipe, Lineage, Sound
  <2>2. Tracked(jobs'[j], keys, gone)
    BY <1>1, <1>3, <1>13 DEF RotateWipe, Tracked, JobState
  <2>3. UNCHANGED <<recipient, disk, offered, keys, gone>>
    BY <1>13 DEF RotateWipe, historyVars
  <2>4. QED BY <1>1, <2>1, <2>2, <2>3, LineageFrom DEF Lineage
<1>14. CASE DisableOwner(j)
  <2>1. CASE required
    <3>1. Sound(session', gone)
      BY <1>1, <1>2, <1>12, <1>14, <2>1 DEF DisableOwner, Lineage, Sound
    <3>2. Tracked(jobs'[j], keys, gone)
      BY <1>1, <1>3, <1>14, <2>1 DEF DisableOwner, Tracked, JobState
    <3>3. UNCHANGED <<recipient, disk, offered, keys, gone>>
      BY <1>14, <2>1 DEF DisableOwner
    <3>4. QED BY <1>1, <3>1, <3>2, <3>3, LineageFrom DEF Lineage
  <2>2. CASE ~required
    <3>1. /\ session' = EmptyStore.session /\ recipient' = 0
          /\ gone' = gone \cup ({recipient} \ {0})
          /\ UNCHANGED <<disk, offered, keys>>
      BY <1>14, <2>2 DEF DisableOwner, Replace
    <3>2. Sound(session', gone')
      BY <1>1, <3>1, FinishedTracked
    <3>3. jobs'[j] = [jobs[j] EXCEPT !.step = "save", !.copy = EmptyStore,
                                     !.seen = EmptyStore, !.then = "idle"]
      BY <1>14, <2>2 DEF DisableOwner
    <3>4. /\ jobs'[j].key = jobs[j].key /\ jobs'[j].copy = EmptyStore /\ jobs'[j].step = "save"
      BY <1>1, <3>3 DEF JobState
    <3>5. Tracked(jobs'[j], keys', gone')
      BY <1>1, <1>3, <3>1, <3>2, <3>4 DEF Tracked, EmptyStore
    <3>6. Sound(disk'.session, gone') /\ gone \subseteq gone'
      BY <1>1, <3>1, Growing DEF Lineage
    <3>7. 1..keys' \subseteq gone' \cup {recipient'}
      BY <1>1, <3>1 DEF Lineage
    <3>8. /\ keys' \in Nat /\ keys <= keys' /\ recipient' \in 0..keys'
          /\ disk'.recipient \in 0..keys' /\ \A p \in Phone : offered'[p] \in 0..keys'
      BY <1>1, <3>1 DEF Lineage
    <3>9. QED BY <3>2, <3>5, <3>6, <3>7, <3>8, LineageFrom
  <2>3. QED BY <2>1, <2>2
<1>15. CASE DropMemberSession(j)
  <2>1. Sound(session', gone)
    BY <1>1, <1>2, <1>12, <1>15 DEF DropMemberSession, Lineage, Sound
  <2>2. Tracked(jobs'[j], keys, gone)
    BY <1>1, <1>3, <1>15 DEF DropMemberSession, Tracked, JobState
  <2>3. UNCHANGED <<recipient, disk, offered, keys, gone>>
    BY <1>15 DEF DropMemberSession, historyVars
  <2>4. QED BY <1>1, <2>1, <2>2, <2>3, LineageFrom DEF Lineage
<1>16. CASE Snapshot(j)
  <2>1. /\ jobs'[j].key = jobs[j].key /\ jobs'[j].copy = Memory /\ jobs'[j].step = "save"
    BY <1>1, <1>16 DEF Snapshot, Payload, JobState
  <2>2. Tracked(jobs'[j], keys, gone)
    BY <1>3, <2>1 DEF Tracked, Memory, Lineage
  <2>3. QED BY <1>16, <2>2, LineageMoves DEF Snapshot, memory, historyVars
<1>17. CASE Save(j)
  <2>1. Tracked(jobs'[j], keys, gone)
    BY <1>1, <1>4, <1>5, <1>17 DEF Save, Continue, JobShape, Step
  <2>2. disk'.recipient \in 0..keys /\ Sound(disk'.session, gone)
    BY <1>3, <1>17 DEF Save, Tracked
  <2>3. UNCHANGED <<recipient, session, offered, keys, gone>>
    BY <1>17 DEF Save, memory
  <2>4. QED BY <1>1, <2>1, <2>2, <2>3, LineageFrom DEF Lineage
<1>18. CASE SaveFails(j)
  BY <1>5, <1>18, LineageMoves DEF SaveFails, memory
<1>19. ASSUME NEW plain \in BOOLEAN, OpenBody(j, plain) PROVE Lineage'
  <2>1. Tracked(jobs'[j], keys, gone)
    BY <1>1, <1>3, <1>5, <1>19 DEF OpenBody, Tracked, JobState
  <2>2. QED BY <1>19, <2>1, LineageMoves DEF OpenBody, memory, historyVars
<1>20. CASE Act(j)
  BY <1>5, <1>20, LineageMoves DEF Act, memory, historyVars
<1>21. QED
  BY <1>6, <1>7, <1>8, <1>9, <1>10, <1>11, <1>13, <1>14, <1>15, <1>16, <1>17, <1>18, <1>19, <1>20
     DEF RequestStep

\* Every step keeps the lineage of the key pairs.
LEMMA LineageNext == Typed /\ Written /\ Lineage /\ [Next]_vars => Lineage'
<1> SUFFICES ASSUME Typed, Written, Lineage, [Next]_vars PROVE Lineage'
  OBVIOUS
<1>1. keys \in Nat
  BY BoundAssumption DEF Typed, TypeOK
<1>2. ASSUME NEW j \in Job, Arrives(j) PROVE Lineage'
  <2>1. PICK s : jobs' = [jobs EXCEPT ![j] = s] /\ NewJob(s)
    BY <1>2, ArrivalType
  <2>2. UNCHANGED <<recipient, session, disk, offered, keys, gone>>
    BY <1>2, ArrivalType DEF memory, historyVars
  <2>3. s \in JobState
    BY <2>1 DEF NewJob
  <2>4. jobs' = [jobs EXCEPT ![j] = s] /\ \A i \in Job : jobs'[i] = IF i = j THEN s ELSE jobs[i]
    BY <2>1 DEF Typed, TypeOK
  <2>5. s.key.phone \in 0..keys
    BY <1>1, <2>1, <2>3 DEF NewJob, Lineage, NoSession, JobState
  <2>6. Tracked(s, keys, gone)
    BY <1>1, <2>1, <2>5, FinishedTracked DEF NewJob, Tracked, EmptyStore
  <2>7. QED BY <2>2, <2>4, <2>6 DEF Lineage
<1>3. CASE Options
  BY <1>3 DEF Options, FeatureOn, SaveEntry, OptionsUpdated, memory, historyVars, Lineage
<1>4. CASE Restart
  <2>1. /\ recipient' = disk.recipient /\ session' = disk.session
        /\ UNCHANGED <<disk, offered, keys>>
        /\ jobs' = [i \in Job |-> Finished]
    BY <1>4 DEF Restart
  <2>2. gone \subseteq gone' /\ 1..keys' \subseteq gone' \cup {recipient'}
    <3>1. CASE overtaken \/ ~Quiet
      BY <1>4, <2>1, <3>1 DEF Restart
    <3>2. CASE ~overtaken /\ Quiet
      <4>1. disk.recipient = recipient
        BY <3>2 DEF Written, Unwritten, Quiet, At, Memory
      <4>2. gone' = gone
        BY <1>4, <3>2 DEF Restart
      <4>3. QED BY <2>1, <4>1, <4>2 DEF Lineage
    <3>3. QED BY <3>1, <3>2
  <2>3. Sound(session', gone') /\ Sound(disk'.session, gone')
    BY <1>1, <2>1, <2>2, Growing DEF Lineage
  <2>4. \A i \in Job : Tracked(jobs'[i], keys', gone')
    BY <1>1, <2>1, FinishedTracked
  <2>5. QED BY <2>1, <2>2, <2>3, <2>4 DEF Lineage
<1>5. CASE UNCHANGED vars
  BY <1>5 DEF vars, memory, historyVars, Lineage
<1>6. QED BY <1>2, <1>3, <1>4, <1>5, NextCases, LineageStep

\* A session no phone can open exists only for a phone whose key pair was
\* replaced or lost between the fetch of the public half and the post of its
\* ciphertext, in any interleaving of handshakes, rotations, wipes and restarts.
THEOREM GarbledIsExplained == Spec => []GarbledHasCause
<1>1. Init => Written /\ Lineage
  <2> SUFFICES ASSUME Init PROVE Written /\ Lineage
    OBVIOUS
  <2>1. Written
    BY DEF Init, Written, Memory, EmptyStore
  <2>2. \A j \in Job : Tracked(jobs[j], keys, gone)
    BY FinishedTracked DEF Init
  <2>3. Sound(session, gone) /\ Sound(disk.session, gone)
    BY FinishedTracked DEF Init
  <2>4. QED BY <2>1, <2>2, <2>3 DEF Init, Lineage, EmptyStore
<1>2. Spec => [](Typed /\ Written /\ Lineage)
  BY <1>1, TypeInit, TypeNext, WrittenNext, LineageNext, PTL DEF Spec
<1>3. Lineage => GarbledHasCause
  BY DEF Lineage, Sound, Paired, GarbledHasCause
<1>4. QED BY <1>2, <1>3, PTL
=============================================================================
