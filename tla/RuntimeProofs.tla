---------------------------- MODULE RuntimeProofs ----------------------------
(***************************************************************************)
(* The two mechanisms every store and every change of the integration goes *)
(* through, each with its inductive invariant: the file cache with its     *)
(* writer thread, and the snapshot scheduler.                              *)
(*                                                                         *)
(* File cache, for any number of threads, any store disciplines and any    *)
(* bounds.  Base holds of every store: where each thread can be, that the  *)
(* count of pending writes is exact, that what runs under a store's lock   *)
(* runs alone, and that its writes are then numbered in the order they     *)
(* reach the disk.  Sound holds of a store that is alone with its file:    *)
(* file, entry, queue and the operation under way all tell the content of  *)
(* the last update, so a read can neither keep nor return an older one.    *)
(*                                                                         *)
(* Scheduler, for any delays that fit the assumption.  What ties a timer   *)
(* to the oldest change it serves is InTime; it holds only with no task    *)
(* queued, for a change that meets a queued task starts a wait of its own  *)
(* although an older one is still uncovered.  That no change is forgotten  *)
(* rests on less: an emit that shows nothing is the last try or it is not. *)
(***************************************************************************)
EXTENDS FileCache, SnapshotScheduler, TLAPS, SequenceTheorems, FiniteSetTheorems

-----------------------------------------------------------------------------
(* FILE CACHE *)

\* The callers that have filled the cache and not yet queued their write.
Pushing == {t \in Caller : At(t, "push")}

\* Which thread can be where.
Placed ==
    /\ th[Refresher].step \in {"idle", "size", "open", "again", "keep", "unmark"}
    /\ \A t \in Caller : /\ ~At(t, "unmark")
                         /\ At(t, "push") \/ At(t, "wait") => th[t].op = "update"
    /\ torn # Missing => outside > 0
    /\ replaced => queue # <<>>
    /\ cache.pending > 0 => cache.present

Counted == IsFiniteSet(Pushing) /\ BookkeepingExact

\* Operations of the store's discipline run one at a time, under its lock.
Serial == \A t \in Caller : ~At(t, "idle") /\ th[t].op \in locked => holder = t

\* With updates under the lock, the numbers of the writes increase: on the disk, in
\* the queue, and in the thread that has yet to queue its own.
InOrder == "update" \in locked =>
    /\ landed <= created
    /\ \A i \in 1..Len(queue) :
         /\ queue[i].num <= created
         /\ ~replaced \/ i > 1 => landed < queue[i].num
         /\ \A k \in 1..Len(queue) : i < k => queue[i].num < queue[k].num
    /\ \A t \in Pushing :
         /\ th[t].num <= created /\ landed < th[t].num
         /\ \A i \in 1..Len(queue) : queue[i].num < th[t].num

Base == TypeOK /\ Placed /\ Counted /\ Serial /\ InOrder

\* A thread that rests is idle.
LEMMA RestingType == Resting \in Doing /\ Resting.step = "idle" /\ Resting.op = "read"
BY DEF Resting, Doing, Step, Content, Missing

\* The first write of the queue and the rest of it.
LEMMA HeadOfQueue ==
    ASSUME TypeOK, queue # <<>>
    PROVE  /\ Head(queue) \in Write /\ Head(queue) = queue[1] /\ Len(queue) \in Nat \ {0}
           /\ Tail(queue) \in Seq(Write) /\ Len(Tail(queue)) = Len(queue) - 1
           /\ \A i \in 1..Len(Tail(queue)) : Tail(queue)[i] = queue[i + 1]
BY HeadTailProperties DEF TypeOK

\* A step of a caller keeps the types.
LEMMA TypeCaller ==
    ASSUME TypeOK, NEW t \in Caller, CallerStep(t)
    PROVE  TypeOK'
<1>1. t \in Thread /\ th[t] \in Doing /\ cache \in Entry
  BY DEF TypeOK, Thread
<1>2. CASE Look(t)
  BY <1>1, <1>2 DEF TypeOK, Look, Return, Goto, At, Doing, Step, Entry, boundVars, historyVars, outsideVars
<1>3. CASE Stat(t)
  BY <1>1, <1>3 DEF TypeOK, Stat, At, Doing, Step, Entry, boundVars, historyVars, outsideVars
<1>4. CASE CheckHit(t)
  BY <1>1, <1>4 DEF TypeOK, CheckHit, Return, At, Doing, Step, Entry, boundVars, historyVars, outsideVars
<1>5. CASE CheckMissing(t)
  BY <1>1, <1>5 DEF TypeOK, CheckMissing, Return, At, Doing, Step, Entry, Cold, Content, Signature, Missing, boundVars, historyVars, outsideVars
<1>6. CASE CheckStale(t)
  <2>1. Refresher \in Thread /\ Refresher # t /\ th[Refresher] \in Doing
    BY ThreadAssumption DEF Caller, Thread, TypeOK
  <2> DEFINE s == [th[t] EXCEPT !.step = "got", !.data = cache.data]
             r == [th[Refresher] EXCEPT !.step = IF refresh THEN @ ELSE "size"]
  <2>2. s \in Doing /\ r \in Doing
    BY <1>1, <2>1 DEF Doing, Step, Entry
  <2>3. th' = [th EXCEPT ![t] = s, ![Refresher] = r]
    BY <1>1, <1>6, <2>1 DEF CheckStale, TypeOK
  <2>4. th' \in [Thread -> Doing]
    BY <1>1, <2>1, <2>2, <2>3 DEF TypeOK
  <2>5. QED BY <1>6, <2>4 DEF TypeOK, CheckStale, boundVars, historyVars, outsideVars
<1>7. CASE CheckLoad(t)
  BY <1>1, <1>7 DEF TypeOK, CheckLoad, Goto, At, Doing, Step, Entry, boundVars, historyVars, outsideVars
<1>8. CASE Take(t)
  BY <1>1, <1>8 DEF TypeOK, Take, Return, At, Doing, Step, Entry, boundVars, historyVars, outsideVars
<1>9. CASE ReadDone(t)
  BY <1>1, <1>9, RestingType DEF TypeOK, ReadDone, Finish, boundVars, historyVars, outsideVars
<1>10. CASE Submit(t)
  <2>1. PICK d \in {created', Missing} :
          /\ cache' = [cache EXCEPT !.present = TRUE, !.data = d, !.pending = cache.pending + 1]
          /\ th' = [th EXCEPT ![t].step = "push", ![t].data = d, ![t].num = created']
          /\ latest' = d
    BY <1>10 DEF Submit
  <2>2. created' \in Nat /\ d \in Content
    BY <1>10 DEF Submit, TypeOK, Content, Missing
  <2>3. cache' \in Entry
    <3>1. cache.pending + 1 \in Nat
      BY <1>1 DEF Entry
    <3>2. QED BY <1>1, <2>1, <2>2, <3>1 DEF Entry
  <2>4. th' \in [Thread -> Doing]
    BY <1>1, <2>1, <2>2 DEF TypeOK, Doing, Step
  <2>5. QED BY <1>10, <2>1, <2>2, <2>3, <2>4 DEF TypeOK, Submit, outsideVars
<1>11. CASE NoChange(t)
  BY <1>1, <1>11, RestingType DEF TypeOK, NoChange, Finish, boundVars, historyVars, outsideVars
<1>12. CASE Push(t)
  <2>1. [num |-> th[t].num, data |-> th[t].data] \in Write
    BY <1>1 DEF Doing, Write
  <2>2. queue' \in Seq(Write)
    BY <1>12, <2>1 DEF Push, TypeOK
  <2>3. th' \in [Thread -> Doing] /\ holder' \in Caller \cup {NoOne}
    <3>1. CASE t = Loop
      BY <1>1, <1>12, <3>1, RestingType DEF TypeOK, Push, Finish
    <3>2. CASE t # Loop
      BY <1>1, <1>12, <3>2 DEF TypeOK, Push, Goto, Doing, Step
    <3>3. QED BY <3>1, <3>2
  <2>4. QED BY <1>12, <2>2, <2>3 DEF TypeOK, Push, boundVars, historyVars, outsideVars
<1>13. CASE Wait(t)
  BY <1>1, <1>13, RestingType DEF TypeOK, Wait, Finish, boundVars, historyVars, outsideVars
<1>14. QED BY <1>2, <1>3, <1>4, <1>5, <1>6, <1>7, <1>8, <1>9, <1>10, <1>11, <1>12, <1>13 DEF CallerStep

\* A step of a load keeps the types.
LEMMA TypeLoad ==
    ASSUME TypeOK, NEW t \in Thread, LoadStep(t)
    PROVE  TypeOK'
<1>1. th[t] \in Doing /\ cache \in Entry
  BY DEF TypeOK
<1>2. CASE Size(t)
  BY <1>1, <1>2 DEF TypeOK, Size, Doing, Step, Content, Missing, boundVars, historyVars, outsideVars
<1>3. CASE Open(t)
  BY <1>1, <1>3 DEF TypeOK, Open, Doing, Step, boundVars, historyVars, outsideVars
<1>4. CASE OpenRaises(t)
  <2>1. CASE t = Refresher
    BY <1>1, <1>4, <2>1 DEF TypeOK, OpenRaises, Goto, Doing, Step, boundVars, historyVars, outsideVars
  <2>2. CASE t # Refresher
    BY <1>1, <1>4, <2>2, RestingType DEF TypeOK, OpenRaises, Finish, boundVars, historyVars, outsideVars
  <2>3. QED BY <2>1, <2>2
<1>5. CASE Again(t)
  BY <1>1, <1>5 DEF TypeOK, Again, Doing, Step, boundVars, historyVars, outsideVars
<1>6. CASE Keep(t)
  <2>1. cache' \in Entry
    BY <1>1, <1>6 DEF Keep, Entry, Doing, Content, Signature
  <2>2. th' \in [Thread -> Doing]
    BY <1>1, <1>6 DEF Keep, Goto, TypeOK, Doing, Step
  <2>3. QED BY <1>6, <2>1, <2>2 DEF TypeOK, Keep, boundVars, historyVars, outsideVars
<1>7. CASE Unmark(t)
  BY <1>1, <1>7, RestingType DEF TypeOK, Unmark, boundVars, historyVars, outsideVars
<1>8. QED BY <1>2, <1>3, <1>4, <1>5, <1>6, <1>7 DEF LoadStep

\* A new call, the writer and the other process keep the types.
LEMMA TypeOther ==
    ASSUME TypeOK,
           \/ \E t \in Caller, op \in {"read", "update"} : Call(t, op)
           \/ WriterStep \/ External \/ ExternalOpens \/ ExternalWrites
    PROVE  TypeOK'
<1>1. ASSUME NEW t \in Caller, NEW op \in {"read", "update"}, Call(t, op)
      PROVE  TypeOK'
  BY <1>1 DEF TypeOK, Call, Thread, Doing, Step, boundVars, historyVars, outsideVars
<1>2. CountedOff \in Nat /\ cache \in Entry
  BY DEF TypeOK, Entry, CountedOff
<1>3. CASE Replace
  BY <1>3, HeadOfQueue DEF TypeOK, Replace, Write, boundVars, historyVars, outsideVars
<1>4. CASE WriteDone
  <2>1. cache' \in Entry
    BY <1>2, <1>4 DEF WriteDone, TypeOK, Entry, Signature, Content
  <2>2. QED BY <1>4, <2>1, HeadOfQueue DEF TypeOK, WriteDone, boundVars, historyVars, outsideVars
<1>5. CASE WriteFails
  <2>1. cache' \in Entry
    BY <1>2, <1>5 DEF WriteFails, TypeOK, Entry, Signature, Failed
  <2>2. QED BY <1>5, <2>1, HeadOfQueue DEF TypeOK, WriteFails, historyVars, outsideVars
<1>6. CASE External \/ ExternalOpens \/ ExternalWrites
  BY <1>6 DEF TypeOK, External, ExternalOpens, ExternalWrites, Content, Missing, historyVars
<1>7. QED BY <1>1, <1>3, <1>4, <1>5, <1>6 DEF WriterStep

\* Every step keeps the types.
LEMMA TypeNext == TypeOK /\ [Next]_vars => TypeOK'
<1>1. TypeOK /\ UNCHANGED vars => TypeOK'
  BY DEF TypeOK, vars
<1>2. QED BY <1>1, TypeCaller, TypeLoad, TypeOther DEF Next
-----------------------------------------------------------------------------
(* How a step moves the threads. *)

Others(t) == \A u \in Thread : u # t => th'[u] = th[u]

\* All but the threads, the entry, the mark and the lock.
Still == UNCHANGED <<locked, disk, queue, replaced, created, outside, torn, faults, latest, landed>>

\* A load replaces no entry with a write under way.
EntryKept == cache' # cache => cache.pending = 0 /\ cache'.pending = 0

\* A caller goes on reading.
Walks(t) ==
    /\ th[t].step \notin {"idle", "push", "wait"}
    /\ th'[t].step \notin {"idle", "push", "wait", "unmark"}
    /\ th'[t].op = th[t].op
    /\ Others(t) /\ Still /\ UNCHANGED <<refresh, holder>>
    /\ EntryKept

\* A caller's operation is over.
Ends(t) ==
    /\ th[t].step \notin {"idle", "push"}
    /\ th'[t] = Resting
    /\ holder' = (IF holder = t THEN NoOne ELSE holder)
    /\ Others(t) /\ Still /\ UNCHANGED <<refresh, cache>>

\* A step that changes one thread leaves the others as they are.
LEMMA OneThread ==
    ASSUME TypeOK, NEW t \in Thread, NEW s, th' = [th EXCEPT ![t] = s]
    PROVE  th'[t] = s /\ Others(t)
BY DEF TypeOK, Others

\* The steps of a read move one caller on and change nothing that is shared.
LEMMA ReadersWalk ==
    ASSUME TypeOK, Placed, NEW t \in Caller,
           \/ Look(t) \/ Stat(t) \/ CheckHit(t) \/ CheckMissing(t) \/ CheckLoad(t) \/ Take(t)
           \/ Size(t) \/ Open(t) \/ Again(t) \/ Keep(t)
    PROVE  Walks(t)
<1>1. t \in Thread /\ t # Refresher /\ th[t] \in Doing /\ cache \in Entry
  BY ThreadAssumption DEF TypeOK, Thread, Caller
<1>2. EntryKept
  <2>1. CASE CheckMissing(t)
    BY <1>1, <2>1 DEF CheckMissing, Hit, Entry, Placed, Cold, EntryKept
  <2>2. CASE Keep(t)
    BY <1>1, <2>2 DEF Keep, Entry, Placed, EntryKept
  <2>3. CASE ~CheckMissing(t) /\ ~Keep(t)
    BY <2>3 DEF Look, Stat, CheckHit, CheckLoad, Take, Size, Open, Again, EntryKept
  <2>4. QED BY <2>1, <2>2, <2>3
<1>3. CASE Look(t)
  BY <1>1, <1>2, <1>3 DEF TypeOK, Look, Return, Goto, At, Doing, Walks, Others, Still, boundVars, historyVars, outsideVars
<1>4. CASE Stat(t)
  BY <1>1, <1>2, <1>4 DEF TypeOK, Stat, At, Doing, Walks, Others, Still, boundVars, historyVars, outsideVars
<1>5. CASE CheckHit(t)
  BY <1>1, <1>2, <1>5 DEF TypeOK, CheckHit, Return, At, Doing, Walks, Others, Still, boundVars, historyVars, outsideVars
<1>6. CASE CheckMissing(t)
  BY <1>1, <1>2, <1>6 DEF TypeOK, CheckMissing, Return, At, Doing, Walks, Others, Still, boundVars, historyVars, outsideVars
<1>7. CASE CheckLoad(t)
  BY <1>1, <1>2, <1>7 DEF TypeOK, CheckLoad, Goto, At, Doing, Walks, Others, Still, boundVars, historyVars, outsideVars
<1>8. CASE Take(t)
  BY <1>1, <1>2, <1>8 DEF TypeOK, Take, Return, At, Doing, Walks, Others, Still, boundVars, historyVars, outsideVars
<1>9. CASE Size(t)
  BY <1>1, <1>2, <1>9 DEF TypeOK, Size, At, Doing, Walks, Others, Still, boundVars, historyVars, outsideVars
<1>10. CASE Open(t)
  BY <1>1, <1>2, <1>10 DEF TypeOK, Open, At, Doing, Walks, Others, Still, boundVars, historyVars, outsideVars
<1>11. CASE Again(t)
  BY <1>1, <1>2, <1>11 DEF TypeOK, Again, At, Doing, Walks, Others, Still, boundVars, historyVars, outsideVars
<1>12. CASE Keep(t)
  BY <1>1, <1>2, <1>12 DEF TypeOK, Keep, Goto, At, Doing, Walks, Others, Still, boundVars, historyVars, outsideVars
<1>13. QED BY <1>3, <1>4, <1>5, <1>6, <1>7, <1>8, <1>9, <1>10, <1>11, <1>12

\* The ends of a call give back what the caller held.
LEMMA CallersEnd ==
    ASSUME TypeOK, NEW t \in Caller,
           \/ ReadDone(t) \/ NoChange(t) \/ Wait(t) \/ OpenRaises(t)
    PROVE  Ends(t)
<1>1. t \in Thread /\ t # Refresher
  BY ThreadAssumption DEF Thread, Caller
<1>2. Finish(t) /\ Still /\ UNCHANGED <<refresh, cache>> /\ th[t].step \notin {"idle", "push"}
  BY <1>1 DEF ReadDone, NoChange, Wait, OpenRaises, At, Still, boundVars, historyVars, outsideVars
<1>3. QED BY <1>1, <1>2, OneThread DEF Finish, Ends

-----------------------------------------------------------------------------
(* The books and the order. *)

LEMMA WalkKeeps ==
    ASSUME Base, NEW t \in Caller, Walks(t), TypeOK'
    PROVE  Base'
<1>1. /\ t \in Thread /\ t # Refresher /\ Refresher \in Thread /\ Caller \subseteq Thread
  BY ThreadAssumption DEF Thread, Caller
<1>2. /\ \A u \in Caller : /\ At(u, "push")' <=> At(u, "push")
                           /\ At(u, "push") => th'[u] = th[u]
                           /\ At(u, "idle")' <=> At(u, "idle")
                           /\ At(u, "wait")' <=> At(u, "wait")
                           /\ th'[u].op = th[u].op
      /\ th'[Refresher] = th[Refresher]
  BY <1>1 DEF Walks, Others, At
<1>3. Pushing' = Pushing
  BY <1>2 DEF Pushing
<1>4. Placed'
  BY <1>1, <1>2 DEF Base, Placed, Walks, Others, Still, At, EntryKept
<1>5. Counted'
  BY <1>2, <1>3 DEF Base, Counted, BookkeepingExact, PendingCountsWrites, RefreshMarked, Walks, Still, Pushing, At, EntryKept
<1>6. Serial'
  BY <1>2 DEF Base, Serial, Walks, Still
<1>7. InOrder'
  BY <1>2, <1>3 DEF Base, InOrder, Walks, Still, Pushing
<1>8. QED BY <1>4, <1>5, <1>6, <1>7 DEF Base

\* The end of a call keeps the books.
LEMMA EndKeeps ==
    ASSUME Base, NEW t \in Caller, Ends(t), TypeOK'
    PROVE  Base'
<1>1. /\ t \in Thread /\ t # Refresher /\ Refresher \in Thread /\ Caller \subseteq Thread
      /\ t # NoOne
  BY ThreadAssumption DEF Thread, Caller
<1>2. /\ \A u \in Caller : /\ At(u, "push")' <=> At(u, "push")
                           /\ At(u, "push") => th'[u] = th[u]
                           /\ u # t => th'[u] = th[u]
      /\ th'[Refresher] = th[Refresher]
      /\ At(t, "idle")'
  BY <1>1, RestingType DEF Ends, Others, At
<1>3. Pushing' = Pushing
  BY <1>2 DEF Pushing
<1>4. Placed'
  BY <1>2, RestingType DEF Base, Placed, Ends, Still, At
<1>5. Counted'
  BY <1>2, <1>3 DEF Base, Counted, BookkeepingExact, PendingCountsWrites, RefreshMarked, Ends, Still, Pushing, At
<1>6. Serial'
  BY <1>1, <1>2 DEF Base, Serial, Ends, Still, At
<1>7. InOrder'
  BY <1>2, <1>3 DEF Base, InOrder, Ends, Still, Pushing
<1>8. QED BY <1>4, <1>5, <1>6, <1>7 DEF Base


\* The refresher and no one are no callers, the loop is one.
LEMMA ThreadsApart ==
    /\ Caller \subseteq Thread /\ Refresher \in Thread /\ Refresher \notin Caller
    /\ NoOne \notin Caller /\ Loop \in Caller
BY ThreadAssumption DEF Thread, Caller

\* A new call keeps the books.
LEMMA CallKeeps ==
    ASSUME Base, NEW t \in Caller, NEW op \in {"read", "update"}, Call(t, op), TypeOK'
    PROVE  Base'
<1>1. /\ th'[t].step = "look" /\ th'[t].op = op /\ th[t].step = "idle"
      /\ Others(t) /\ Still /\ UNCHANGED <<refresh, cache>>
      /\ holder' = (IF op \in locked THEN t ELSE holder)
      /\ op \in locked => holder = NoOne
  BY ThreadsApart DEF Call, At, Base, TypeOK, Doing, Others, Still, boundVars, historyVars, outsideVars
<1>2. /\ \A u \in Caller : /\ At(u, "push")' <=> At(u, "push")
                           /\ At(u, "push") => th'[u] = th[u]
                           /\ u # t => th'[u] = th[u]
      /\ th'[Refresher] = th[Refresher]
  BY <1>1, ThreadsApart DEF Others, At
<1>3. Pushing' = Pushing
  BY <1>2 DEF Pushing
<1>4. Placed'
  BY <1>1, <1>2 DEF Base, Placed, Still, At
<1>5. Counted'
  BY <1>1, <1>2, <1>3 DEF Base, Counted, BookkeepingExact, PendingCountsWrites, RefreshMarked, Still, Pushing, At
<1>6. Serial'
  BY <1>1, <1>2, ThreadsApart DEF Base, Serial, Still, At
<1>7. InOrder'
  BY <1>1, <1>2, <1>3 DEF Base, InOrder, Still, Pushing
<1>8. QED BY <1>4, <1>5, <1>6, <1>7 DEF Base

\* A look that finds the entry stale, and may start the refresher, keeps the books.
LEMMA StaleKeeps ==
    ASSUME Base, NEW t \in Caller, CheckStale(t), TypeOK'
    PROVE  Base'
<1>1. th \in [Thread -> Doing] /\ t \in Thread /\ t # Refresher
  BY ThreadsApart DEF Base, TypeOK
<1>2. th' = [th EXCEPT ![t] = [th[t] EXCEPT !.step = "got", !.data = cache.data],
                       ![Refresher] = [th[Refresher] EXCEPT !.step = IF refresh THEN @ ELSE "size"]]
  BY <1>1, ThreadsApart DEF CheckStale
<1>3. /\ th[t].step = "check" /\ th'[t].step = "got" /\ th'[t].op = th[t].op
      /\ th'[Refresher].step = (IF refresh THEN th[Refresher].step ELSE "size")
      /\ \A u \in Caller : u # t => th'[u] = th[u]
  BY <1>1, <1>2, ThreadsApart DEF CheckStale, At, Doing
<1>4. Still /\ refresh' = TRUE /\ UNCHANGED <<cache, holder>>
  BY DEF CheckStale, Still, boundVars, historyVars, outsideVars
<1>5. \A u \in Caller : /\ At(u, "push")' <=> At(u, "push")
                        /\ At(u, "push") => th'[u] = th[u]
                        /\ At(u, "idle")' <=> At(u, "idle")
                        /\ At(u, "wait")' <=> At(u, "wait")
                        /\ th'[u].op = th[u].op
  BY <1>3 DEF At
<1>6. Pushing' = Pushing
  BY <1>5 DEF Pushing
<1>7. Placed'
  BY <1>3, <1>4, <1>5 DEF Base, Placed, Still, At
<1>8. Counted'
  <2>1. RefreshMarked'
    BY <1>3, <1>4, ThreadsApart DEF Base, Counted, BookkeepingExact, RefreshMarked, At
  <2>2. QED BY <1>4, <1>6, <2>1 DEF Base, Counted, BookkeepingExact, PendingCountsWrites, Still, Pushing
<1>9. Serial'
  BY <1>4, <1>5 DEF Base, Serial, Still
<1>10. InOrder'
  BY <1>4, <1>5, <1>6 DEF Base, InOrder, Still, Pushing
<1>11. QED BY <1>7, <1>8, <1>9, <1>10 DEF Base

\* The refresh thread reads, and keeps or drops what it read.
LEMMA RefreshKeeps ==
    ASSUME Base, LoadStep(Refresher), TypeOK'
    PROVE  Base'
<1>1. th \in [Thread -> Doing] /\ th[Refresher] \in Doing /\ cache \in Entry
  BY ThreadsApart DEF Base, TypeOK
<1>2. EntryKept
  <2>1. CASE Keep(Refresher)
    BY <1>1, <2>1 DEF Keep, Entry, Base, Placed, EntryKept
  <2>2. CASE ~Keep(Refresher)
    BY <2>2 DEF LoadStep, Size, Open, OpenRaises, Again, Unmark, EntryKept
  <2>3. QED BY <2>1, <2>2
<1>3. /\ Others(Refresher) /\ Still /\ holder' = holder
      /\ th[Refresher].step # "idle"
      /\ \/ th'[Refresher].step \in {"size", "open", "again", "keep", "unmark"} /\ refresh' = refresh
         \/ th'[Refresher].step = "idle" /\ refresh' = FALSE
  <2>1. CASE Size(Refresher)
    BY <1>1, <2>1, ThreadsApart DEF Size, At, Doing, Others, Still, boundVars, historyVars, outsideVars
  <2>2. CASE Open(Refresher)
    BY <1>1, <2>2, ThreadsApart DEF Open, At, Doing, Others, Still, boundVars, historyVars, outsideVars
  <2>3. CASE OpenRaises(Refresher)
    BY <1>1, <2>3, ThreadsApart DEF OpenRaises, Goto, At, Doing, Others, Still, boundVars, historyVars, outsideVars
  <2>4. CASE Again(Refresher)
    BY <1>1, <2>4, ThreadsApart DEF Again, At, Doing, Others, Still, boundVars, historyVars, outsideVars
  <2>5. CASE Keep(Refresher)
    BY <1>1, <2>5, ThreadsApart DEF Keep, Goto, At, Doing, Others, Still, boundVars, historyVars, outsideVars
  <2>6. CASE Unmark(Refresher)
    BY <1>1, <2>6, ThreadsApart, RestingType DEF Unmark, At, Others, Still, boundVars, historyVars, outsideVars
  <2>7. QED BY <2>1, <2>2, <2>3, <2>4, <2>5, <2>6 DEF LoadStep
<1>4. \A u \in Caller : th'[u] = th[u]
  BY <1>3, ThreadsApart DEF Others
<1>5. Pushing' = Pushing
  BY <1>4 DEF Pushing, At
<1>6. Placed'
  BY <1>2, <1>3, <1>4 DEF Base, Placed, Still, At, EntryKept
<1>7. Counted'
  <2>1. RefreshMarked'
    BY <1>3 DEF Base, Counted, BookkeepingExact, RefreshMarked, At
  <2>2. QED BY <1>2, <1>3, <1>5, <2>1 DEF Base, Counted, BookkeepingExact, PendingCountsWrites, Still, Pushing, EntryKept
<1>8. Serial'
  BY <1>3, <1>4 DEF Base, Serial, Still, At
<1>9. InOrder'
  BY <1>3, <1>4, <1>5 DEF Base, InOrder, Still, Pushing
<1>10. QED BY <1>6, <1>7, <1>8, <1>9 DEF Base


\* With updates under the lock, nobody else is between filling the cache and queueing.
LEMMA OneUpdate ==
    ASSUME Base, "update" \in locked, NEW t \in Caller, ~At(t, "idle"), th[t].op = "update"
    PROVE  Pushing \subseteq {t}
<1>1. holder = t
  BY DEF Base, Serial
<1>2. ASSUME NEW u \in Pushing PROVE holder = u
  BY <1>2 DEF Base, Serial, Placed, Pushing, At
<1>3. QED BY <1>1, <1>2

\* Filling the cache and counting the write as pending keeps the books.
LEMMA SubmitKeeps ==
    ASSUME Base, NEW t \in Caller, Submit(t), TypeOK'
    PROVE  Base'
<1>1. /\ th \in [Thread -> Doing] /\ t \in Thread /\ t # Refresher /\ cache \in Entry
      /\ created \in Nat /\ landed \in Nat
  BY ThreadsApart DEF Base, TypeOK
<1>2. PICK d : /\ cache' = [cache EXCEPT !.present = TRUE, !.data = d, !.pending = cache.pending + 1]
               /\ th' = [th EXCEPT ![t].step = "push", ![t].data = d, ![t].num = created']
  BY DEF Submit
<1>3. /\ Others(t) /\ th[t].step = "got" /\ th[t].op = "update"
      /\ th'[t].step = "push" /\ th'[t].op = "update" /\ th'[t].num = created + 1
  BY <1>1, <1>2 DEF Submit, At, Doing, Others
<1>4. /\ UNCHANGED <<locked, disk, queue, replaced, refresh, holder, outside, torn, faults, landed>>
      /\ created' = created + 1
      /\ cache'.present = TRUE /\ cache'.pending = cache.pending + 1
  BY <1>1, <1>2 DEF Submit, outsideVars, Entry
<1>5. \A u \in Caller : u # t => th'[u] = th[u]
  BY <1>3, ThreadsApart DEF Others
<1>6. th'[Refresher] = th[Refresher]
  BY <1>1, <1>3, ThreadsApart DEF Others
<1>7. Pushing' = Pushing \cup {t} /\ t \notin Pushing
  BY <1>3, <1>5 DEF Pushing, At
<1>8. Placed'
  BY <1>3, <1>4, <1>5, <1>6 DEF Base, Placed, At
<1>9. Counted'
  <2>1. IsFiniteSet(Pushing') /\ Cardinality(Pushing') = Cardinality(Pushing) + 1
    BY <1>7, FS_AddElement DEF Base, Counted
  <2>2. RefreshMarked'
    BY <1>4, <1>6 DEF Base, Counted, BookkeepingExact, RefreshMarked, At
  <2>3. PendingCountsWrites'
    <3>1. cache.pending = Len(queue) + Cardinality(Pushing)
      BY DEF Base, Counted, BookkeepingExact, PendingCountsWrites, Pushing
    <3>2. Cardinality(Pushing) \in Nat /\ Len(queue) \in Nat
      BY FS_CardinalityType DEF Base, Counted, TypeOK
    <3>3. cache'.pending = Len(queue') + Cardinality(Pushing')
      BY <1>4, <2>1, <3>1, <3>2
    <3>4. QED BY <3>3 DEF PendingCountsWrites, Pushing
  <2>4. QED BY <2>1, <2>2, <2>3 DEF Counted, BookkeepingExact
<1>10. Serial'
  BY <1>3, <1>4, <1>5 DEF Base, Serial, At
<1>11. InOrder'
  <2> SUFFICES ASSUME "update" \in locked PROVE InOrder'
    BY <1>4 DEF InOrder
  <2>1. Pushing' = {t}
    BY <1>3, <1>7, OneUpdate DEF At
  <2>2. /\ landed <= created
        /\ \A i \in 1..Len(queue) : queue[i].num <= created
        /\ \A i \in 1..Len(queue) : queue[i].num \in Nat
    <3>1. \A i \in 1..Len(queue) : queue[i] \in Write
      BY DEF Base, TypeOK
    <3>2. QED BY <3>1 DEF Base, InOrder, Write
  <2>3. QED BY <1>1, <1>3, <1>4, <2>1, <2>2 DEF Base, InOrder
<1>12. QED BY <1>8, <1>9, <1>10, <1>11 DEF Base

\* Queueing a write keeps the books: its caller is one fewer still to queue.
LEMMA PushKeeps ==
    ASSUME Base, NEW t \in Caller, Push(t), TypeOK'
    PROVE  Base'
<1> DEFINE w == [num |-> th[t].num, data |-> th[t].data]
<1>1. /\ th \in [Thread -> Doing] /\ t \in Thread /\ t # Refresher
      /\ queue \in Seq(Write) /\ w \in Write /\ w.num = th[t].num
  BY ThreadsApart DEF Base, TypeOK, Doing, Write
<1>2. /\ Len(queue') = Len(queue) + 1 /\ queue'[Len(queue) + 1] = w /\ Len(queue) \in Nat
      /\ \A i \in 1..Len(queue) : queue'[i] = queue[i]
  BY <1>1, AppendProperties DEF Push
<1>3. /\ UNCHANGED <<locked, disk, cache, replaced, refresh, created, outside, torn, faults, latest, landed>>
      /\ th[t].step = "push"
  BY DEF Push, At, boundVars, historyVars, outsideVars
<1>4. th[t].op = "update"
  BY <1>3 DEF Base, Placed, At
<1>5. /\ Others(t)
      /\ \/ th'[t] = Resting /\ holder' = (IF holder = t THEN NoOne ELSE holder)
         \/ th'[t].step = "wait" /\ th'[t].op = th[t].op /\ holder' = holder
  <2>1. CASE t = Loop
    BY <1>1, <2>1 DEF Push, Finish, Others
  <2>2. CASE t # Loop
    BY <1>1, <2>2 DEF Push, Goto, Others, Doing
  <2>3. QED BY <2>1, <2>2
<1>6. \A u \in Caller : u # t => th'[u] = th[u]
  BY <1>5, ThreadsApart DEF Others
<1>7. th'[Refresher] = th[Refresher]
  BY <1>1, <1>5, ThreadsApart DEF Others
<1>8. Pushing' = Pushing \ {t} /\ t \in Pushing
  BY <1>3, <1>5, <1>6, RestingType DEF Pushing, At
<1>9. Placed'
  BY <1>2, <1>3, <1>4, <1>5, <1>6, <1>7, RestingType DEF Base, Placed, At
<1>10. Counted'
  <2>1. IsFiniteSet(Pushing') /\ Cardinality(Pushing') = Cardinality(Pushing) - 1
    BY <1>8, FS_RemoveElement DEF Base, Counted
  <2>2. RefreshMarked'
    BY <1>3, <1>7 DEF Base, Counted, BookkeepingExact, RefreshMarked, At
  <2>3. PendingCountsWrites'
    <3>1. cache.pending = Len(queue) + Cardinality(Pushing)
      BY DEF Base, Counted, BookkeepingExact, PendingCountsWrites, Pushing
    <3>2. Cardinality(Pushing) \in Nat
      BY FS_CardinalityType DEF Base, Counted
    <3>3. cache'.pending = Len(queue') + Cardinality(Pushing')
      BY <1>2, <1>3, <2>1, <3>1, <3>2
    <3>4. QED BY <3>3 DEF PendingCountsWrites, Pushing
  <2>4. QED BY <2>1, <2>2, <2>3 DEF Counted, BookkeepingExact
<1>11. Serial'
  BY <1>3, <1>5, <1>6, RestingType, ThreadsApart DEF Base, Serial, At
<1>12. InOrder'
  <2> SUFFICES ASSUME "update" \in locked PROVE InOrder'
    BY <1>3 DEF InOrder
  <2>1. Pushing' = {}
    BY <1>3, <1>4, <1>8, OneUpdate DEF At
  <2>2. /\ landed <= created /\ th[t].num <= created /\ landed < th[t].num
        /\ \A i \in 1..Len(queue) :
             /\ queue[i].num <= created /\ queue[i].num < th[t].num
             /\ ~replaced \/ i > 1 => landed < queue[i].num
             /\ \A k \in 1..Len(queue) : i < k => queue[i].num < queue[k].num
    BY <1>8 DEF Base, InOrder
  <2>3. \A i \in 1..Len(queue') : i \in 1..Len(queue) \/ (i = Len(queue) + 1 /\ queue'[i] = w)
    BY <1>2
  <2>4. \A i \in 1..Len(queue') :
             /\ queue'[i].num <= created
             /\ ~replaced \/ i > 1 => landed < queue'[i].num
    BY <1>1, <1>2, <2>2, <2>3
  <2>5. \A i, k \in 1..Len(queue') : i < k => queue'[i].num < queue'[k].num
    BY <1>1, <1>2, <2>2, <2>3
  <2>6. QED BY <1>3, <2>1, <2>2, <2>4, <2>5 DEF InOrder
<1>13. QED BY <1>9, <1>10, <1>11, <1>12 DEF Base


\* The writer's replacement of the file keeps the books.
LEMMA ReplaceKeeps ==
    ASSUME Base, Replace, TypeOK'
    PROVE  Base'
<1>1. /\ UNCHANGED <<locked, cache, queue, th, refresh, holder, created, outside, torn, faults, latest>>
      /\ replaced' = TRUE /\ replaced = FALSE /\ queue # <<>> /\ landed' = queue[1].num
  BY HeadOfQueue DEF Base, TypeOK, Replace, boundVars, outsideVars
<1>2. Pushing' = Pushing
  BY <1>1 DEF Pushing, At
<1>3. Placed'
  BY <1>1 DEF Base, Placed, At
<1>4. Counted'
  BY <1>1, <1>2 DEF Base, Counted, BookkeepingExact, PendingCountsWrites, RefreshMarked, Pushing, At
<1>5. Serial'
  BY <1>1 DEF Base, Serial, At
<1>6. InOrder'
  <2> SUFFICES ASSUME "update" \in locked PROVE InOrder'
    BY <1>1 DEF InOrder
  <2>1. 1 \in 1..Len(queue) /\ Len(queue) \in Nat
    BY <1>1, HeadOfQueue DEF Base
  <2>2. \A i \in 1..Len(queue) : i > 1 => queue[1].num < queue[i].num
    BY <2>1 DEF Base, InOrder
  <2>3. QED BY <1>1, <1>2, <2>1, <2>2 DEF Base, InOrder
<1>7. QED BY <1>3, <1>4, <1>5, <1>6 DEF Base

\* The head of the queue leaves it, written or failed.
LEMMA TailKeeps ==
    ASSUME Base, WriteDone \/ WriteFails, TypeOK'
    PROVE  Base'
<1>1. /\ UNCHANGED <<locked, disk, th, refresh, holder, created, outside, torn, latest, landed>>
      /\ queue # <<>> /\ queue' = Tail(queue) /\ replaced' = FALSE
      /\ cache'.pending = CountedOff /\ cache'.present = cache.present
  <2>1. cache \in Entry /\ replaced \in BOOLEAN
    BY DEF Base, TypeOK
  <2>2. CASE WriteDone
    BY <2>1, <2>2 DEF WriteDone, Entry, boundVars, historyVars, outsideVars
  <2>3. CASE WriteFails
    BY <2>1, <2>3 DEF WriteFails, Entry, historyVars, outsideVars
  <2>4. QED BY <2>2, <2>3
<1>2. /\ Len(queue) \in Nat \ {0} /\ Len(queue') = Len(queue) - 1
      /\ \A i \in 1..Len(queue') : queue'[i] = queue[i + 1]
  BY <1>1, HeadOfQueue DEF Base
<1>3. Pushing' = Pushing
  BY <1>1 DEF Pushing, At
<1>4. cache.pending = Len(queue) + Cardinality(Pushing) /\ Cardinality(Pushing) \in Nat
  BY FS_CardinalityType DEF Base, Counted, BookkeepingExact, PendingCountsWrites, Pushing
<1>5. cache'.pending = cache.pending - 1 /\ cache.pending > 0
  BY <1>1, <1>2, <1>4 DEF CountedOff
<1>6. Placed'
  BY <1>1, <1>5 DEF Base, Placed, At
<1>7. Counted'
  <2>1. cache'.pending = Len(queue') + Cardinality(Pushing')
    BY <1>2, <1>3, <1>4, <1>5
  <2>2. PendingCountsWrites'
    BY <2>1 DEF PendingCountsWrites, Pushing
  <2>3. RefreshMarked'
    BY <1>1 DEF Base, Counted, BookkeepingExact, RefreshMarked, At
  <2>4. QED BY <1>3, <2>2, <2>3 DEF Base, Counted, BookkeepingExact
<1>8. Serial'
  BY <1>1 DEF Base, Serial, At
<1>9. InOrder'
  <2> SUFFICES ASSUME "update" \in locked PROVE InOrder'
    BY <1>1 DEF InOrder
  <2>1. \A i \in 1..Len(queue') : i + 1 \in 1..Len(queue) /\ i + 1 > 1
    BY <1>2
  <2>2. \A i \in 1..Len(queue') : queue'[i].num <= created /\ landed < queue'[i].num
    BY <1>2, <2>1 DEF Base, InOrder
  <2>3. \A i, k \in 1..Len(queue') : i < k => queue'[i].num < queue'[k].num
    <3>1. SUFFICES ASSUME NEW i \in 1..Len(queue'), NEW k \in 1..Len(queue'), i < k
                   PROVE  queue[i + 1].num < queue[k + 1].num
      BY <1>2
    <3>2. i + 1 < k + 1
      BY <1>2, <3>1
    <3>3. QED BY <2>1, <3>1, <3>2 DEF Base, InOrder
  <2>4. \A u \in Pushing : \A i \in 1..Len(queue') : queue'[i].num < th[u].num
    BY <1>2, <2>1 DEF Base, InOrder
  <2>5. QED BY <1>1, <1>3, <2>2, <2>3, <2>4 DEF Base, InOrder
<1>10. QED BY <1>6, <1>7, <1>8, <1>9 DEF Base

\* What the other process does to the file keeps the books.
LEMMA OutsideKeeps ==
    ASSUME Base, External \/ ExternalOpens \/ ExternalWrites, TypeOK'
    PROVE  Base'
<1>1. /\ UNCHANGED <<locked, cache, queue, replaced, th, refresh, holder, faults, latest, landed>>
      /\ created' = created + 1 /\ created \in Nat
      /\ torn' # Missing => outside' > 0
  BY DEF External, ExternalOpens, ExternalWrites, historyVars, Base, TypeOK, Placed
<1>2. Pushing' = Pushing
  BY <1>1 DEF Pushing, At
<1>3. Placed'
  BY <1>1 DEF Base, Placed, At
<1>4. Counted'
  BY <1>1, <1>2 DEF Base, Counted, BookkeepingExact, PendingCountsWrites, RefreshMarked, Pushing, At
<1>5. Serial'
  BY <1>1 DEF Base, Serial, At
<1>6. InOrder'
  <2> SUFFICES ASSUME "update" \in locked PROVE InOrder'
    BY <1>1 DEF InOrder
  <2>1. \A i \in 1..Len(queue) : queue[i].num \in Nat
    <3>1. \A i \in 1..Len(queue) : queue[i] \in Write
      BY DEF Base, TypeOK
    <3>2. QED BY <3>1 DEF Write
  <2>2. \A u \in Pushing : th[u].num \in Nat
    BY ThreadsApart DEF Pushing, Base, TypeOK, Doing
  <2>3. landed <= created' /\ landed \in Nat
    BY <1>1 DEF Base, InOrder, TypeOK
  <2>4. \A i \in 1..Len(queue) : queue[i].num <= created'
    BY <1>1, <2>1 DEF Base, InOrder
  <2>5. \A u \in Pushing : th[u].num <= created'
    BY <1>1, <2>2 DEF Base, InOrder
  <2>6. QED BY <1>1, <1>2, <2>3, <2>4, <2>5 DEF Base, InOrder
<1>7. QED BY <1>3, <1>4, <1>5, <1>6 DEF Base

\* The books are right at the start.
LEMMA InitBase == Init => Base
<1> SUFFICES ASSUME Init PROVE Base
  OBVIOUS
<1>0. cache \in Entry /\ cache.pending = 0
  <2>1. CASE cache = Cold
    BY <2>1 DEF Cold, Entry, Content, Signature, Missing
  <2>2. CASE cache = [Cold EXCEPT !.present = TRUE, !.data = disk, !.sig = disk]
    <3>1. cache = [present |-> TRUE, data |-> disk, sig |-> disk, pending |-> 0]
      BY <2>2 DEF Cold
    <3>2. disk \in Nat
      BY DEF Init
    <3>3. QED BY <3>1, <3>2 DEF Entry, Content, Signature
  <2>3. QED BY <2>1, <2>2 DEF Init
<1>1. TypeOK
  <2>1. queue \in Seq(Write)
    BY DEF Init
  <2>2. th \in [Thread -> Doing]
    BY RestingType DEF Init
  <2>3. disk \in Nat /\ latest \in Nat /\ landed \in Nat /\ created \in Nat /\ outside \in Nat /\ faults \in Nat
    BY DEF Init
  <2>4. QED BY <1>0, <2>1, <2>2, <2>3 DEF Init, TypeOK, Content, Missing
<1>2. \A t \in Thread : th[t].step = "idle"
  BY RestingType DEF Init
<1>3. Pushing = {}
  BY <1>2, ThreadsApart DEF Pushing, At
<1>5. Placed
  BY <1>0, <1>2, ThreadsApart DEF Init, Placed, At
<1>6. Counted
  <2>1. IsFiniteSet(Pushing) /\ Cardinality(Pushing) = 0
    BY <1>3, FS_EmptySet
  <2>2. PendingCountsWrites
    BY <1>0, <2>1 DEF Init, PendingCountsWrites, Pushing
  <2>3. RefreshMarked
    BY <1>2, ThreadsApart DEF Init, RefreshMarked, At
  <2>4. QED BY <2>1, <2>2, <2>3 DEF Counted, BookkeepingExact
<1>7. Serial
  BY <1>2, ThreadsApart DEF Serial, At
<1>8. InOrder
  BY <1>3 DEF Init, InOrder
<1>9. QED BY <1>1, <1>5, <1>6, <1>7, <1>8 DEF Base

\* A step that changes nothing keeps the books.
LEMMA StutterKeeps == Base /\ UNCHANGED vars => Base'
<1> SUFFICES ASSUME Base, UNCHANGED vars PROVE Base'
  OBVIOUS
<1>1. TypeOK'
  BY DEF Base, TypeOK, vars
<1>2. Pushing' = Pushing
  BY DEF Pushing, At, vars
<1>3. Placed' /\ Serial'
  BY DEF Base, Placed, Serial, At, vars
<1>4. Counted'
  BY <1>2 DEF Base, Counted, BookkeepingExact, PendingCountsWrites, RefreshMarked, Pushing, At, vars
<1>5. InOrder'
  BY <1>2 DEF Base, InOrder, vars
<1>6. QED BY <1>1, <1>3, <1>4, <1>5 DEF Base

\* Every step keeps the books.
LEMMA NextBase == Base /\ [Next]_vars => Base'
<1> SUFFICES ASSUME Base, [Next]_vars PROVE Base'
  OBVIOUS
<1>1. TypeOK' /\ TypeOK /\ Placed
  BY TypeNext DEF Base
<1>2. ASSUME NEW t \in Caller, CallerStep(t) PROVE Base'
  <2>1. CASE Look(t) \/ Stat(t) \/ CheckHit(t) \/ CheckMissing(t) \/ CheckLoad(t) \/ Take(t)
    BY <1>1, <2>1, ReadersWalk, WalkKeeps
  <2>2. CASE CheckStale(t)
    BY <1>1, <2>2, StaleKeeps
  <2>3. CASE ReadDone(t) \/ NoChange(t) \/ Wait(t)
    BY <1>1, <2>3, CallersEnd, EndKeeps
  <2>4. CASE Submit(t)
    BY <1>1, <2>4, SubmitKeeps
  <2>5. CASE Push(t)
    BY <1>1, <2>5, PushKeeps
  <2>6. QED BY <1>2, <2>1, <2>2, <2>3, <2>4, <2>5 DEF CallerStep
<1>3. ASSUME NEW t \in Thread, LoadStep(t) PROVE Base'
  <2>1. CASE t = Refresher
    BY <1>1, <1>3, <2>1, RefreshKeeps
  <2>2. CASE t \in Caller
    <3>1. ~Unmark(t)
      BY <1>1, <2>2 DEF Placed, Unmark
    <3>2. CASE OpenRaises(t)
      BY <1>1, <2>2, <3>2, CallersEnd, EndKeeps
    <3>3. CASE Size(t) \/ Open(t) \/ Again(t) \/ Keep(t)
      BY <1>1, <2>2, <3>3, ReadersWalk, WalkKeeps
    <3>4. QED BY <1>3, <3>1, <3>2, <3>3 DEF LoadStep
  <2>3. QED BY <2>1, <2>2 DEF Thread
<1>4. ASSUME NEW t \in Caller, NEW op \in {"read", "update"}, Call(t, op) PROVE Base'
  BY <1>1, <1>4, CallKeeps
<1>5. CASE WriterStep
  BY <1>1, <1>5, ReplaceKeeps, TailKeeps DEF WriterStep
<1>6. CASE External \/ ExternalOpens \/ ExternalWrites
  BY <1>1, <1>6, OutsideKeeps
<1>7. CASE UNCHANGED vars
  BY <1>7, StutterKeeps
<1>8. QED BY <1>2, <1>3, <1>4, <1>5, <1>6, <1>7 DEF Next

-----------------------------------------------------------------------------
(* A store left alone: its cache, its queue and its file tell one story. *)

\* What the last update wrote is in the entry; with nothing under way it is in the file
\* too, and the entry has the file's signature.
EntryTold ==
    /\ cache.present => cache.data = latest
    /\ cache.pending = 0 => disk = latest /\ (cache.present => cache.sig = disk)

\* The last write of the queue is the last update, the first is what is in the file
\* once it has been replaced.
QueueTold ==
    /\ queue # <<>> /\ Pushing = {} => queue[Len(queue)].data = latest
    /\ replaced => disk = queue[1].data

Reading == {"stat", "check", "size", "open", "again", "keep", "take"}

\* A caller that reads the file reads it with nothing under way, and ends with the last
\* update's content.
ReadTold(t) ==
    /\ th[t].step \in Reading => cache.pending = 0
    /\ th[t].step \in {"check", "open", "again", "keep"} => th[t].sig = disk
    /\ At(t, "open") => disk # Missing
    /\ At(t, "again") \/ At(t, "keep") => th[t].data = disk
    /\ At(t, "take") => cache.present
    /\ At(t, "got") \/ At(t, "push") => th[t].data = latest

Told == At(Refresher, "idle") /\ EntryTold /\ QueueTold /\ \A t \in Caller : ReadTold(t)

Sound == Alone => Told

\* Nobody else is inside an operation.
LEMMA OneOperation ==
    ASSUME Base, Alone, NEW t \in Caller, ~At(t, "idle") \/ holder = NoOne
    PROVE  \A u \in Caller : u # t => At(u, "idle")
<1>1. \A u \in Caller : th[u].op \in locked
  <2>1. \A u \in Caller : th[u] \in Doing
    BY ThreadsApart DEF Base, TypeOK
  <2>2. QED BY <2>1 DEF Alone, Doing
<1>2. QED BY <1>1, ThreadsApart DEF Base, Serial

\* ... so only the caller that moves has something to show.
LEMMA OthersTold ==
    ASSUME Base, Alone, Told, NEW t \in Caller, ~At(t, "idle") \/ holder = NoOne, Others(t),
           EntryTold', QueueTold', ReadTold(t)'
    PROVE  Told'
<1>1. th'[Refresher] = th[Refresher]
  BY ThreadsApart DEF Others
<1>2. \A u \in Caller : u # t => th'[u].step = "idle"
  BY OneOperation, ThreadsApart DEF Others, At
<1>3. \A u \in Caller : u # t => ReadTold(u)'
  BY <1>2 DEF ReadTold, At, Reading
<1>4. QED BY <1>1, <1>3 DEF Told, At

\* A step of a read keeps told what it takes from the cache or the disk.
LEMMA WalkTold ==
    ASSUME Base, Alone, Told, NEW t \in Caller, Walks(t),
           \/ Look(t) \/ Stat(t) \/ CheckHit(t) \/ CheckMissing(t) \/ CheckLoad(t) \/ Take(t)
           \/ Size(t) \/ Open(t) \/ Again(t) \/ Keep(t)
    PROVE  Told'
<1>1. /\ th \in [Thread -> Doing] /\ t \in Thread /\ t # Refresher /\ cache \in Entry
      /\ th[t] \in Doing
  BY ThreadsApart DEF Base, TypeOK
<1>2. ReadTold(t) /\ EntryTold /\ QueueTold /\ (cache.pending > 0 => cache.present)
  BY DEF Told, Base, Placed
<1>3. Pushing' = Pushing
  <2>1. \A u \in Caller : At(u, "push")' <=> At(u, "push")
    BY ThreadsApart DEF Walks, Others, At
  <2>2. QED BY <2>1 DEF Pushing
<1>4. UNCHANGED <<disk, queue, replaced, latest>>
  BY DEF Walks, Still
<1>5. QueueTold'
  BY <1>2, <1>3, <1>4 DEF QueueTold
<1>6. EntryTold' /\ ReadTold(t)'
  <2>1. CASE Look(t)
    BY <1>1, <1>2, <1>4, <2>1 DEF Look, Return, Goto, EntryTold, ReadTold, At, Reading, Doing, Entry
  <2>2. CASE Stat(t)
    BY <1>1, <1>2, <1>4, <2>2 DEF Stat, EntryTold, ReadTold, At, Reading, Doing
  <2>3. CASE CheckHit(t)
    BY <1>1, <1>2, <1>4, <2>3 DEF CheckHit, Hit, Return, EntryTold, ReadTold, At, Reading, Doing
  <2>4. CASE CheckMissing(t)
    BY <1>1, <1>2, <1>4, <2>4 DEF CheckMissing, Cold, Hit, Return, EntryTold, ReadTold, At, Reading, Doing
  <2>5. CASE CheckLoad(t)
    BY <1>1, <1>2, <1>4, <2>5 DEF CheckLoad, Goto, EntryTold, ReadTold, At, Reading, Doing
  <2>6. CASE Take(t)
    BY <1>1, <1>2, <1>4, <2>6 DEF Take, Return, EntryTold, ReadTold, At, Reading, Doing
  <2>7. CASE Size(t)
    BY <1>1, <1>2, <1>4, <2>7 DEF Size, EntryTold, ReadTold, At, Reading, Doing
  <2>8. CASE Open(t)
    BY <1>1, <1>2, <1>4, <2>8 DEF Open, EntryTold, ReadTold, At, Reading, Doing
  <2>9. CASE Again(t)
    BY <1>1, <1>2, <1>4, <2>9 DEF Again, EntryTold, ReadTold, At, Reading, Doing
  <2>10. CASE Keep(t)
    BY <1>1, <1>2, <1>4, <2>10 DEF Keep, Goto, EntryTold, ReadTold, At, Reading, Doing
  <2>11. QED BY <2>1, <2>2, <2>3, <2>4, <2>5, <2>6, <2>7, <2>8, <2>9, <2>10
<1>7. ~At(t, "idle") /\ Others(t)
  BY DEF Walks, At
<1>8. QED BY <1>5, <1>6, <1>7, OthersTold

\* The end of a call keeps what is told.
LEMMA EndTold ==
    ASSUME Base, Alone, Told, NEW t \in Caller, Ends(t)
    PROVE  Told'
<1>1. ~At(t, "idle") /\ Others(t) /\ UNCHANGED <<disk, queue, replaced, latest, cache>>
  BY DEF Ends, At, Still
<1>2. Pushing' = Pushing
  <2>1. \A u \in Caller : At(u, "push")' <=> At(u, "push")
    BY ThreadsApart, RestingType DEF Ends, Others, At
  <2>2. QED BY <2>1 DEF Pushing
<1>3. EntryTold' /\ QueueTold'
  BY <1>1, <1>2 DEF Told, EntryTold, QueueTold
<1>4. ReadTold(t)'
  BY RestingType DEF Ends, ReadTold, At, Reading
<1>5. QED BY <1>1, <1>3, <1>4, OthersTold

\* A new call keeps what is told.
LEMMA CallTold ==
    ASSUME Base, Alone, Told, NEW t \in Caller, NEW op \in {"read", "update"}, Call(t, op)
    PROVE  Told'
<1>1. /\ holder = NoOne /\ th[t].step = "idle" /\ th'[t].step = "look" /\ Others(t)
      /\ UNCHANGED <<disk, queue, replaced, latest, cache>>
  BY ThreadsApart DEF Call, At, Base, TypeOK, Doing, Others, Alone, historyVars
<1>2. Pushing' = Pushing
  <2>1. \A u \in Caller : At(u, "push")' <=> At(u, "push")
    BY <1>1, ThreadsApart DEF Others, At
  <2>2. QED BY <2>1 DEF Pushing
<1>3. EntryTold' /\ QueueTold'
  BY <1>1, <1>2 DEF Told, EntryTold, QueueTold
<1>4. ReadTold(t)'
  BY <1>1 DEF ReadTold, At, Reading
<1>5. QED BY <1>1, <1>3, <1>4, OthersTold

\* An update makes its content the one that is told.
LEMMA SubmitTold ==
    ASSUME Base, Alone, Told, NEW t \in Caller, Submit(t)
    PROVE  Told'
<1>1. /\ th \in [Thread -> Doing] /\ t \in Thread /\ cache \in Entry
  BY ThreadsApart DEF Base, TypeOK
<1>2. PICK d : /\ cache' = [cache EXCEPT !.present = TRUE, !.data = d, !.pending = cache.pending + 1]
               /\ th' = [th EXCEPT ![t].step = "push", ![t].data = d, ![t].num = created']
               /\ latest' = d
  BY DEF Submit
<1>3. /\ Others(t) /\ th[t].step = "got" /\ th'[t].step = "push" /\ th'[t].data = d
      /\ cache'.pending = cache.pending + 1 /\ cache'.data = d /\ cache.pending \in Nat
      /\ UNCHANGED <<disk, queue, replaced>>
  BY <1>1, <1>2 DEF Submit, At, Doing, Others, Entry
<1>4. Pushing' # {}
  BY <1>3 DEF Pushing, At
<1>5. EntryTold'
  BY <1>2, <1>3 DEF EntryTold
<1>6. QueueTold'
  BY <1>3, <1>4 DEF Told, QueueTold
<1>7. ReadTold(t)'
  BY <1>2, <1>3 DEF ReadTold, At, Reading
<1>8. QED BY <1>3, <1>5, <1>6, <1>7, OthersTold DEF At

\* A write that enters the queue keeps what is told.
LEMMA PushTold ==
    ASSUME Base, Alone, Told, NEW t \in Caller, Push(t)
    PROVE  Told'
<1> DEFINE w == [num |-> th[t].num, data |-> th[t].data]
<1>1. /\ th \in [Thread -> Doing] /\ t \in Thread
      /\ queue \in Seq(Write) /\ w \in Write /\ w.data = th[t].data
  BY ThreadsApart DEF Base, TypeOK, Doing, Write
<1>2. /\ Len(queue') = Len(queue) + 1 /\ queue'[Len(queue')] = w /\ Len(queue) \in Nat
      /\ \A i \in 1..Len(queue) : queue'[i] = queue[i]
  BY <1>1, AppendProperties DEF Push
<1>3. UNCHANGED <<disk, cache, replaced, latest>> /\ th[t].step = "push" /\ th[t].data = latest
  BY DEF Push, At, historyVars, Told, ReadTold
<1>4. Others(t) /\ th'[t].step \in {"idle", "wait"}
  <2>1. CASE t = Loop
    BY <1>1, <2>1, RestingType DEF Push, Finish, Others
  <2>2. CASE t # Loop
    BY <1>1, <2>2 DEF Push, Goto, Others, Doing
  <2>3. QED BY <2>1, <2>2
<1>5. EntryTold'
  BY <1>3 DEF Told, EntryTold
<1>6. QueueTold'
  <2>1. replaced => queue # <<>> /\ disk = queue[1].data
    BY DEF Told, QueueTold, Base, Placed
  <2>2. replaced => queue'[1] = queue[1]
    BY <1>1, <1>2, <2>1
  <2>3. QED BY <1>1, <1>2, <1>3, <2>1, <2>2 DEF QueueTold
<1>7. ReadTold(t)'
  BY <1>4 DEF ReadTold, At, Reading
<1>8. QED BY <1>3, <1>4, <1>5, <1>6, <1>7, OthersTold DEF At

\* While a write is queued nobody reads the file.
LEMMA NobodyReads ==
    ASSUME Base, Told, queue # <<>>
    PROVE  /\ cache.pending > 0 /\ cache.pending = Len(queue) + Cardinality(Pushing)
           /\ Cardinality(Pushing) \in Nat
           /\ \A u \in Caller : th[u].step \notin Reading
<1>1. cache.pending = Len(queue) + Cardinality(Pushing) /\ Cardinality(Pushing) \in Nat
  BY FS_CardinalityType DEF Base, Counted, BookkeepingExact, PendingCountsWrites, Pushing
<1>2. Len(queue) \in Nat \ {0}
  BY HeadOfQueue DEF Base
<1>3. cache.pending > 0
  BY <1>1, <1>2
<1>4. QED BY <1>1, <1>3 DEF Told, ReadTold

\* The replacement brings the disk one write on, and what is told stays.
LEMMA ReplaceTold ==
    ASSUME Base, Told, Replace
    PROVE  Told'
<1>1. /\ UNCHANGED <<cache, queue, th, latest>> /\ queue # <<>>
      /\ disk' = queue[1].data
  BY HeadOfQueue DEF Base, Replace
<1>2. cache.pending > 0 /\ \A u \in Caller : th[u].step \notin Reading
  BY <1>1, NobodyReads
<1>3. Pushing' = Pushing
  BY <1>1 DEF Pushing, At
<1>4. EntryTold'
  BY <1>1, <1>2 DEF Told, EntryTold
<1>5. QueueTold'
  BY <1>1, <1>3 DEF Told, QueueTold
<1>6. \A u \in Caller : ReadTold(u)'
  BY <1>1, <1>2 DEF Told, ReadTold, At, Reading
<1>7. QED BY <1>1, <1>4, <1>5, <1>6 DEF Told, At

\* The writer's signature of the file it has written is that of what is told.
LEMMA DoneTold ==
    ASSUME Base, Told, WriteDone
    PROVE  Told'
<1>1. /\ UNCHANGED <<disk, th, latest>> /\ queue # <<>> /\ queue' = Tail(queue) /\ replaced
      /\ replaced' = FALSE
      /\ cache'.pending = CountedOff /\ cache'.present = cache.present
      /\ cache'.data = cache.data /\ (CountedOff = 0 => cache'.sig = disk)
  BY DEF WriteDone, Base, TypeOK, Entry, historyVars
<1>2. /\ Len(queue) \in Nat \ {0} /\ Len(queue') = Len(queue) - 1
      /\ \A i \in 1..Len(queue') : queue'[i] = queue[i + 1]
      /\ queue' \in Seq(Write)
  BY <1>1, HeadOfQueue DEF Base
<1>3. /\ cache.pending > 0 /\ cache.pending = Len(queue) + Cardinality(Pushing)
      /\ Cardinality(Pushing) \in Nat /\ \A u \in Caller : th[u].step \notin Reading
  BY <1>1, NobodyReads
<1>4. Pushing' = Pushing
  BY <1>1 DEF Pushing, At
<1>5. CountedOff = Len(queue) - 1 + Cardinality(Pushing)
  BY <1>2, <1>3 DEF CountedOff
<1>6. Pushing = {} => queue[Len(queue)].data = latest
  BY <1>1 DEF Told, QueueTold
<1>7. EntryTold'
  <2>1. ASSUME CountedOff = 0 PROVE disk = latest
    <3>1. Len(queue) = 1 /\ Cardinality(Pushing) = 0
      BY <1>2, <1>3, <1>5, <2>1
    <3>2. Pushing = {}
      BY <3>1, FS_EmptySet DEF Base, Counted
    <3>3. QED BY <1>1, <1>6, <3>1, <3>2 DEF Told, QueueTold
  <2>2. QED BY <1>1, <2>1 DEF Told, EntryTold
<1>8. QueueTold'
  <2>1. ASSUME queue' # <<>>, Pushing = {} PROVE queue'[Len(queue')].data = latest
    <3>1. Len(queue') # 0
      BY <1>2, <2>1
    <3>2. Len(queue') \in 1..Len(queue') /\ Len(queue') + 1 = Len(queue)
      BY <1>2, <3>1
    <3>3. QED BY <1>2, <1>6, <2>1, <3>2
  <2>2. QED BY <1>1, <1>4, <2>1 DEF QueueTold
<1>9. \A u \in Caller : ReadTold(u)'
  BY <1>1, <1>3 DEF Told, ReadTold, At, Reading
<1>10. QED BY <1>1, <1>7, <1>8, <1>9 DEF Told, At

\* A store that is alone has always been.
LEMMA AloneBefore == Base /\ [Next]_vars /\ Alone' =>
    Alone /\ ~WriteFails /\ ~External /\ ~ExternalOpens /\ ~ExternalWrites
<1> SUFFICES ASSUME Base, [Next]_vars, Alone'
             PROVE  Alone /\ ~WriteFails /\ ~External /\ ~ExternalOpens /\ ~ExternalWrites
  OBVIOUS
<1>1. outside \in Nat /\ faults \in Nat /\ (torn # Missing => outside > 0)
      /\ locked' = {"read", "update"} /\ outside' = 0 /\ faults' = 0
  BY DEF Base, TypeOK, Placed, Alone
<1>2. ~WriteFails /\ ~External /\ ~ExternalOpens
  BY <1>1 DEF WriteFails, External, ExternalOpens
<1>3. ~ExternalWrites
  BY <1>1 DEF ExternalWrites
<1>4. UNCHANGED <<locked, outside, faults>>
  <2>1. ASSUME NEW t \in Caller, CallerStep(t) PROVE UNCHANGED <<locked, outside, faults>>
    BY <2>1 DEF CallerStep, Look, Stat, CheckHit, CheckMissing, CheckStale, CheckLoad, Take,
                ReadDone, Submit, NoChange, Push, Wait, boundVars, outsideVars
  <2>2. ASSUME NEW t \in Thread, LoadStep(t) PROVE UNCHANGED <<locked, outside, faults>>
    BY <2>2 DEF LoadStep, Size, Open, OpenRaises, Again, Keep, Unmark, boundVars, outsideVars
  <2>3. ASSUME NEW t \in Caller, NEW op \in {"read", "update"}, Call(t, op)
        PROVE  UNCHANGED <<locked, outside, faults>>
    BY <2>3 DEF Call, boundVars, outsideVars
  <2>4. CASE Replace \/ WriteDone
    BY <2>4 DEF Replace, WriteDone, boundVars, outsideVars
  <2>5. CASE UNCHANGED vars
    BY <2>5 DEF vars
  <2>6. QED BY <1>2, <1>3, <2>1, <2>2, <2>3, <2>4, <2>5 DEF Next, WriterStep
<1>5. QED BY <1>1, <1>2, <1>3, <1>4 DEF Alone

\* Every step keeps a store that is alone coherent.
LEMMA NextSound == Base /\ Sound /\ [Next]_vars => Sound'
<1> SUFFICES ASSUME Base, Sound, [Next]_vars, Alone' PROVE Told'
  BY DEF Sound
<1>1. Alone /\ Told /\ ~WriteFails /\ ~External /\ ~ExternalOpens /\ ~ExternalWrites
  BY AloneBefore DEF Sound
<1>2. TypeOK /\ Placed
  BY DEF Base
<1>3. ASSUME NEW t \in Caller, CallerStep(t) PROVE Told'
  <2>1. CASE Look(t) \/ Stat(t) \/ CheckHit(t) \/ CheckMissing(t) \/ CheckLoad(t) \/ Take(t)
    <3>1. Walks(t)
      BY <1>2, <2>1, ReadersWalk
    <3>2. QED BY <1>1, <2>1, <3>1, WalkTold
  <2>2. ~CheckStale(t)
    BY <1>1, <1>2 DEF CheckStale, Hit, Told, EntryTold, ReadTold, At, TypeOK, Entry
  <2>3. CASE ReadDone(t) \/ NoChange(t) \/ Wait(t)
    BY <1>1, <1>2, <2>3, CallersEnd, EndTold
  <2>4. CASE Submit(t)
    BY <1>1, <2>4, SubmitTold
  <2>5. CASE Push(t)
    BY <1>1, <2>5, PushTold
  <2>6. QED BY <1>3, <2>1, <2>2, <2>3, <2>4, <2>5 DEF CallerStep
<1>4. ASSUME NEW t \in Thread, LoadStep(t) PROVE Told'
  <2>1. t # Refresher
    BY <1>1, <1>4 DEF Told, At, LoadStep, Size, Open, OpenRaises, Again, Keep, Unmark
  <2>2. t \in Caller
    BY <2>1 DEF Thread
  <2>3. ~Unmark(t)
    BY <1>2, <2>2 DEF Placed, Unmark
  <2>4. CASE OpenRaises(t)
    BY <1>1, <1>2, <2>2, <2>4, CallersEnd, EndTold
  <2>5. CASE Size(t) \/ Open(t) \/ Again(t) \/ Keep(t)
    <3>1. Walks(t)
      BY <1>2, <2>2, <2>5, ReadersWalk
    <3>2. QED BY <1>1, <2>2, <2>5, <3>1, WalkTold
  <2>6. QED BY <1>4, <2>3, <2>4, <2>5 DEF LoadStep
<1>5. ASSUME NEW t \in Caller, NEW op \in {"read", "update"}, Call(t, op) PROVE Told'
  BY <1>1, <1>5, CallTold
<1>6. CASE WriterStep
  BY <1>1, <1>6, ReplaceTold, DoneTold DEF WriterStep
<1>7. CASE UNCHANGED vars
  <2>1. Pushing' = Pushing
    BY <1>7 DEF vars, Pushing, At
  <2>2. QED BY <1>1, <1>7, <2>1 DEF vars, Told, EntryTold, QueueTold, ReadTold, At
<1>8. QED BY <1>1, <1>3, <1>4, <1>5, <1>6, <1>7 DEF Next

\* The store is coherent at the start.
LEMMA InitSound == Init => Sound
<1> SUFFICES ASSUME Init PROVE Told
  BY DEF Sound
<1>1. \A t \in Thread : th[t].step = "idle"
  BY RestingType DEF Init
<1>2. EntryTold
  <2>1. CASE cache = Cold
    BY <2>1 DEF Init, Cold, EntryTold
  <2>2. CASE cache = [Cold EXCEPT !.present = TRUE, !.data = disk, !.sig = disk]
    <3>1. cache = [present |-> TRUE, data |-> disk, sig |-> disk, pending |-> 0]
      BY <2>2 DEF Cold
    <3>2. QED BY <3>1 DEF Init, EntryTold
  <2>3. QED BY <2>1, <2>2 DEF Init
<1>3. QueueTold
  BY DEF Init, QueueTold
<1>4. \A t \in Caller : ReadTold(t)
  BY <1>1, ThreadsApart DEF ReadTold, At, Reading
<1>5. QED BY <1>1, <1>2, <1>3, <1>4, ThreadsApart DEF Told, At

-----------------------------------------------------------------------------
(* The theorems. *)

\* Every reachable state satisfies the two inductive invariants: what holds of every
\* store, and what holds of one that is alone.
THEOREM InvHolds == Spec => [](Base /\ Sound)
<1>1. Init => Base /\ Sound
  BY InitBase, InitSound
<1>2. Base /\ Sound /\ [Next]_vars => (Base /\ Sound)'
  BY NextBase, NextSound
<1>3. QED BY <1>1, <1>2, PTL DEF Spec

\* Type correctness of fileio's variables.
THEOREM TypeCorrect == Spec => []TypeOK
<1>1. Base => TypeOK
  BY DEF Base
<1>2. QED BY <1>1, InvHolds, PTL

\* fileio's `pending` counts exactly the writes under way, and a path is marked as being
\* refreshed exactly while its refresh thread runs: nothing that fails, raises or is
\* overtaken, in any number of threads, leaves a count or a mark behind.
THEOREM BooksAreExact == Spec => []BookkeepingExact
<1>1. Base => BookkeepingExact
  BY DEF Base, Counted
<1>2. QED BY <1>1, InvHolds, PTL

\* An entry of a store that is alone with its file, and that looks fresh, is.
THEOREM EntriesAreCoherent == Spec => []CacheCoherent
<1>1. Base /\ Sound => CacheCoherent
  BY DEF Sound, Told, EntryTold, CacheCoherent
<1>2. QED BY <1>1, InvHolds, PTL

\* An update of such a store starts from the content the one before it left.
THEOREM NoUpdateLost == Spec => NoLostUpdate
<1>1. Base /\ Sound /\ [Next]_vars =>
        [Alone => \A t \in Caller : Submit(t) => th[t].data = latest]_vars
  BY DEF Sound, Told, ReadTold, Submit, At
<1>2. QED BY <1>1, InvHolds, PTL DEF Spec, NoLostUpdate

\* When every store updates under its lock, what the writer thread puts on the disk is
\* newer than all it has put there before.  (A store that does not gives no such order:
\* two of its callers may enter the queue in the other order than they filled the cache.)
THEOREM WritesInOrder ==
    ASSUME \A discipline \in Discipline : "update" \in discipline
    PROVE  Spec => DiskOrder
<1>1. Base /\ Sound /\ [Next]_vars => [Replace => Head(queue).num > landed]_vars
  <2> SUFFICES ASSUME Base, Replace PROVE Head(queue).num > landed
    OBVIOUS
  <2>1. /\ queue # <<>> /\ replaced = FALSE /\ "update" \in locked
        /\ Head(queue) = queue[1] /\ 1 \in 1..Len(queue)
    BY HeadOfQueue DEF Replace, Base, TypeOK
  <2>2. landed < queue[1].num
    BY <2>1 DEF Base, InOrder
  <2>3. queue[1] \in Write /\ landed \in Nat
    BY <2>1 DEF Base, TypeOK
  <2>4. QED BY <2>1, <2>2, <2>3 DEF Write
<1>2. QED BY <1>1, InvHolds, PTL DEF Spec, DiskOrder

-----------------------------------------------------------------------------
(* SNAPSHOT SCHEDULER *)

\* A timer is armed exactly while a wait is under way, and time stops at it.
Armed == /\ handle # None <=> firstPending # None
         /\ handle # None => now <= handle

\* What a loaded entry heard waits under a timer or a queued emit.
Waited == uncovered # None => handle # None \/ tasks > 0

\* Nothing noted lies ahead of the clock, and every fire was noted as an emit.
InThePast == /\ lastEmit <= now /\ firstPending <= now /\ uncovered <= now
             /\ lastFire <= lastEmit

\* With no task queued, the oldest uncovered change began the wait or came into
\* it, came after the last emit, and its document is not due too late.
InTime == uncovered # None /\ tasks = 0 =>
              /\ firstPending <= uncovered
              /\ lastEmit <= uncovered
              /\ handle <= uncovered + MaxWait

\* The armed timer respects the interval since the last fire.
Throttled == handle # None /\ lastFire # None => handle >= lastFire + MinInterval

\* SchedulerTypeOK, the times and the flags.
Times == /\ now \in Nat /\ tasks \in Nat
         /\ handle \in Time /\ firstPending \in Time /\ lastEmit \in Time
         /\ uncovered \in Time /\ lastFire \in Time
Flags == /\ loaded \in BOOLEAN /\ made \in BOOLEAN
         /\ unshown \in BOOLEAN /\ lost \in BOOLEAN

SchedulerInv == /\ Times /\ Flags
       /\ Waited
       /\ FreshWithinMaxWait
       /\ Armed /\ InThePast /\ InTime /\ Throttled

\* What DueAt promises: never before now, never inside the interval, and not after
\* the longest wait or the interval.
LEMMA DueAtBounds ==
    ASSUME Times, NEW first \in Nat
    PROVE  /\ DueAt(first) \in Nat
           /\ DueAt(first) >= now
           /\ lastEmit # None => DueAt(first) >= lastEmit + MinInterval
           /\ \A limit \in Nat :
                /\ now <= limit /\ first + MaxWait <= limit
                /\ lastEmit # None => lastEmit + MinInterval <= limit
                => DueAt(first) <= limit
BY DelayAssumption DEF Times, Time, None, DueAt, MinOf, MaxOf

\* A request starts or joins a wait and sets the timer for it.
LEMMA RequestKeeps ==
    ASSUME SchedulerInv, Request
    PROVE  SchedulerInv'
<1> DEFINE first == IF firstPending = None THEN now ELSE firstPending
<1>1. /\ firstPending' = first /\ handle' = DueAt(first)
      /\ uncovered' = IF uncovered = None THEN now ELSE uncovered
      /\ made' = TRUE
      /\ UNCHANGED <<now, loaded, lastEmit, tasks, lastFire>>
  BY DEF Request, Heard
<1>2. Times /\ first \in Nat /\ first <= now /\ first # None
  BY DEF SchedulerInv, Times, Time, None, InThePast
<1>3. DueAt(first) \in Nat /\ DueAt(first) >= now
  BY <1>2, DueAtBounds
<1>4. Times'
  BY <1>1, <1>2, <1>3 DEF Times, Time
<1>5. uncovered' \in Nat /\ uncovered' <= now /\ (tasks = 0 => lastEmit <= uncovered')
  BY <1>1, <1>2 DEF SchedulerInv, Times, Time, None, InThePast, InTime
<1>6. now - uncovered' <= MaxWait
  BY <1>1, <1>2, DelayAssumption DEF SchedulerInv, Times, Time, None, FreshWithinMaxWait
<1>7. tasks = 0 => first <= uncovered'
  <2>1. CASE uncovered = None
    BY <1>1, <1>2, <2>1
  <2>2. CASE uncovered # None
    BY <1>1, <2>2 DEF SchedulerInv, Times, Time, None, InTime, Waited, Armed
  <2>3. QED BY <2>1, <2>2
<1>8. tasks = 0 => DueAt(first) <= uncovered' + MaxWait
  <2> SUFFICES ASSUME tasks = 0 PROVE DueAt(first) <= uncovered' + MaxWait
    OBVIOUS
  <2>1. PICK u \in Nat : u = uncovered'
    BY <1>5
  <2> HIDE DEF first
  <2>2. first <= u /\ lastEmit <= u /\ now - u <= MaxWait
    BY <1>5, <1>6, <1>7, <2>1
  <2>3. now \in Nat /\ lastEmit \in Nat \cup {-1}
    BY <1>2 DEF Times, Time, None
  <2>4. u + MaxWait \in Nat /\ now <= u + MaxWait
    BY <2>2, <2>3, DelayAssumption
  <2>5. first + MaxWait <= u + MaxWait
    BY <1>2, <2>2, DelayAssumption
  <2>6. lastEmit + MinInterval <= u + MaxWait
    BY <2>2, <2>3, DelayAssumption
  <2>7. QED BY <1>2, <2>1, <2>4, <2>5, <2>6, DueAtBounds
<1>9. lastEmit # None => DueAt(first) >= lastEmit + MinInterval
  BY <1>2, DueAtBounds
<1> HIDE DEF first
<1>10. Waited' /\ FreshWithinMaxWait'
  BY <1>1, <1>3, <1>6 DEF Waited, FreshWithinMaxWait, None
<1>11. Armed' /\ InThePast'
  BY <1>1, <1>2, <1>3, <1>5 DEF Armed, InThePast, SchedulerInv, None
<1>12. InTime'
  BY <1>1, <1>5, <1>7, <1>8 DEF InTime
<1>13. Throttled'
  BY <1>1, <1>2, <1>3, <1>9, DelayAssumption DEF Throttled, SchedulerInv, InThePast, Times, Time, None
<1>14. Flags'
  BY <1>1 DEF Request, Heard, SchedulerInv, Flags
<1>15. QED BY <1>4, <1>10, <1>11, <1>12, <1>13, <1>14 DEF SchedulerInv

\* The clock, the timer that expires, the emits and the unload.
LEMMA OthersKeep ==
    ASSUME SchedulerInv, Tick \/ Unheard \/ Fire \/ RunTask \/ Setup \/ OptionsUpdated \/ Unload
    PROVE  SchedulerInv'
<1> DEFINE Rest == /\ Times
                   /\ Waited /\ FreshWithinMaxWait
                   /\ Armed /\ InThePast /\ InTime /\ Throttled
<1>1. Flags'
  BY DEF SchedulerInv, Flags, Tick, Unheard, Fire, RunTask, Setup, OptionsUpdated, Unload, Emit,
         Emitted, BuildFails, timerVars, changeVars
<1>2. Rest
  BY DEF SchedulerInv
<1> SUFFICES Rest'
  BY <1>1 DEF SchedulerInv
<1> USE DEF Times, Time, None, Waited, FreshWithinMaxWait, Armed, InThePast, InTime,
            Throttled
<1>3. CASE Tick
  <2>1. /\ tasks = 0 /\ (handle = None \/ now < handle) /\ now' = now + 1
        /\ UNCHANGED <<handle, firstPending, lastEmit, lastFire, tasks, uncovered>>
    BY <1>3 DEF Tick, timerVars, changeVars
  <2>2. QED BY <1>2, <2>1, DelayAssumption
<1>4. CASE Fire
  <2>1. /\ handle # None /\ now >= handle
        /\ handle' = None /\ firstPending' = None /\ lastEmit' = now /\ lastFire' = now
        /\ tasks' = tasks + 1 /\ UNCHANGED <<now, uncovered>>
    BY <1>4 DEF Fire, changeVars
  <2>2. QED BY <1>2, <2>1, DelayAssumption
<1>5. ASSUME Emit, UNCHANGED <<now, handle, firstPending, lastFire>>, tasks' \in Nat
      PROVE  Rest'
  <2>1. uncovered' = None /\ (lastEmit' = now \/ lastEmit' = lastEmit)
    BY <1>5 DEF Emit, Emitted, BuildFails
  <2>2. QED BY <1>2, <1>5, <2>1
<1>6. CASE RunTask
  <2>1. tasks' \in Nat
    BY <1>2, <1>6 DEF RunTask
  <2>2. QED BY <1>5, <1>6, <2>1 DEF RunTask
<1>7. CASE Setup \/ OptionsUpdated
  <2>1. tasks' \in Nat
    BY <1>2, <1>7 DEF Setup, OptionsUpdated
  <2>2. QED BY <1>5, <1>7, <2>1 DEF Setup, OptionsUpdated
<1>8. CASE Unload
  <2>1. /\ handle' = None /\ firstPending' = None /\ lastEmit' = None /\ lastFire' = None
        /\ uncovered' = None /\ UNCHANGED <<now, tasks>>
    BY <1>8 DEF Unload
  <2>2. QED BY <1>2, <2>1
<1>9. CASE Unheard
  BY <1>2, <1>9 DEF Unheard, timerVars
<1>10. QED BY <1>3, <1>4, <1>6, <1>7, <1>8, <1>9

\* No step forgets a change: only the last try to show it can, and says so.
LEMMA NothingForgotten ==
    ASSUME SchedulerInv, NoForgottenChange, [SchedulerNext]_schedulerVars
    PROVE  NoForgottenChange'
<1>1. Times
  BY DEF SchedulerInv
<1>2. CASE Request
  <2>1. handle' # None
    <3>1. (IF firstPending = None THEN now ELSE firstPending) \in Nat
      BY <1>1 DEF Times, Time, None
    <3>2. QED BY <1>1, <1>2, <3>1, DueAtBounds DEF Request, None
  <2>2. QED BY <2>1 DEF NoForgottenChange
<1>3. CASE Fire
  BY <1>1, <1>3 DEF Fire, NoForgottenChange, Times
<1>4. ASSUME Emit, handle' = handle, tasks' \in Nat
      PROVE  NoForgottenChange'
  <2>1. CASE Emitted
    BY <2>1 DEF Emitted, NoForgottenChange
  <2>2. CASE BuildFails
    <3>1. tasks' = 0 \/ tasks' > 0
      BY <1>4
    <3>2. lost' = (unshown /\ handle = None /\ tasks' = 0) /\ unshown' = unshown
      BY <2>2 DEF BuildFails
    <3>3. QED BY ONLY <1>4, <3>1, <3>2, Zenon DEF NoForgottenChange
  <2>3. QED BY <1>4, <2>1, <2>2 DEF Emit
<1>5. CASE RunTask \/ Setup \/ OptionsUpdated
  <2>1. Emit /\ handle' = handle /\ tasks' \in Nat
    BY <1>1, <1>5 DEF RunTask, Setup, OptionsUpdated, Times
  <2>2. QED BY <1>4, <2>1
<1>6. CASE Unload \/ Unheard
  BY <1>6 DEF Unload, Unheard, NoForgottenChange
<1>7. CASE Tick \/ UNCHANGED schedulerVars
  BY <1>7 DEF Tick, schedulerVars, timerVars, changeVars, NoForgottenChange
<1>8. QED BY <1>2, <1>3, <1>5, <1>6, <1>7 DEF SchedulerNext

\* SchedulerInv holds in every reachable state.
THEOREM SchedulerInvHolds == SchedulerSpec => []SchedulerInv
<1>1. SchedulerInit => SchedulerInv
  <2> SUFFICES ASSUME SchedulerInit PROVE SchedulerInv
    OBVIOUS
  <2>1. Flags
    BY DEF SchedulerInit, Flags
  <2>2. /\ now = 0 /\ tasks = 0 /\ handle = None /\ firstPending = None
        /\ lastEmit = None /\ lastFire = None /\ uncovered = None
    BY DEF SchedulerInit
  <2>3. QED BY <2>1, <2>2 DEF SchedulerInv, Times, Time, None, Waited, FreshWithinMaxWait,
            Armed, InThePast, InTime, Throttled
<1>2. SchedulerInv /\ UNCHANGED schedulerVars => SchedulerInv'
  BY DEF schedulerVars, timerVars, changeVars, SchedulerInv, Times, Flags, Time, Waited, FreshWithinMaxWait,
     Armed, InThePast, InTime, Throttled
<1>3. SchedulerInv /\ [SchedulerNext]_schedulerVars => SchedulerInv'
  BY <1>2, RequestKeeps, OthersKeep DEF SchedulerNext
<1>4. QED BY <1>1, <1>3, PTL DEF SchedulerSpec

\* Every reachable state has the types of SchedulerTypeOK.
THEOREM SchedulerTypeCorrect == SchedulerSpec => []SchedulerTypeOK
<1>1. SchedulerInv => SchedulerTypeOK
  BY DEF SchedulerInv, Times, Flags, SchedulerTypeOK
<1>2. QED BY <1>1, SchedulerInvHolds, PTL

\* A mapped change of a loaded entry waits for its document under an armed timer or
\* a queued emit, through any reloads and unloads, unless the last build that was to
\* show it raised.
THEOREM ChangesAreRemembered == SchedulerSpec => []NoForgottenChange
<1>1. SchedulerInit => NoForgottenChange
  BY DEF SchedulerInit, NoForgottenChange
<1>2. QED BY <1>1, NothingForgotten, SchedulerInvHolds, PTL DEF SchedulerSpec

\* A loaded entry tries to show a change within the maximum wait, however changes,
\* emits and the throttle move the timer.
THEOREM NeverTooLate == SchedulerSpec => []FreshWithinMaxWait
<1>1. SchedulerInv => FreshWithinMaxWait
  BY DEF SchedulerInv
<1>2. QED BY <1>1, SchedulerInvHolds, PTL

\* Two fires of one scheduler are the minimum interval apart.
THEOREM NeverTooSoon == SchedulerSpec => FiresApart
<1>1. SchedulerInv /\ Fire /\ lastFire # None => now - lastFire >= MinInterval
  BY DelayAssumption DEF SchedulerInv, Times, Time, None, Armed, Throttled, Fire
<1>2. SchedulerInv /\ [SchedulerNext]_schedulerVars => [Fire /\ lastFire # None => now - lastFire >= MinInterval]_schedulerVars
  BY <1>1
<1>3. QED BY <1>2, SchedulerInvHolds, PTL DEF SchedulerSpec, FiresApart
=============================================================================
