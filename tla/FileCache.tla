----------------------------- MODULE FileCache -----------------------------
(***************************************************************************)
(* fileio.py: the in-memory cache every Patrimony store reads and writes   *)
(* one file through, seen from one path.                                   *)
(*                                                                         *)
(* Actors: Home Assistant's loop thread, executor threads, the background  *)
(* refresh thread, the single writer thread, and the Supervisor add-on,    *)
(* another process that replaces the file (notify.json) or rewrites it in  *)
(* place (mapping.json).  Each action is one critical section under        *)
(* fileio._LOCK or one system call; everything else interleaves.  Callers  *)
(* may hold a lock of their store around an operation (members._LOCK,      *)
(* notify._NOTIFY_LOCK, ...) or not: each store has its own discipline.    *)
(*                                                                         *)
(* Contents are numbered in the order they are created, 0 is a missing     *)
(* file, and the stat signature of a file is its content's number: (mtime, *)
(* size) is taken to differ whenever the content does.                     *)
(***************************************************************************)
EXTENDS Integers, Sequences, FiniteSets

CONSTANTS
    Loop,        \* the event-loop thread
    Worker,      \* executor threads
    Refresher,   \* the thread running _refresh_bg (one per path at a time)
    Discipline,  \* for a store: the operations its callers run under its lock
    NoOne,       \* nobody holds the store's lock
    MaxContent,  \* bound on contents created by anyone
    MaxExternal, \* bound on external writes
    MaxFaults    \* bound on failing writes

ASSUME ThreadAssumption ==
    /\ Loop \notin Worker
    /\ Refresher \notin Worker \cup {Loop}
    /\ NoOne \notin Worker \cup {Loop}
ASSUME DisciplineAssumption == Discipline \subseteq SUBSET {"read", "update"}
ASSUME BoundAssumption == MaxContent \in Nat /\ MaxExternal \in Nat /\ MaxFaults \in Nat

Caller == Worker \cup {Loop}
Thread == Caller \cup {Refresher}

Missing == 0   \* no such file; the signature and the data are then None
Failed == -1   \* the signature ("failed",)

VARIABLES
    locked,    \* the discipline of the store this path belongs to
    disk,      \* content of the file, or Missing
    cache,     \* _CACHE[path]
    queue,     \* the writer's queue: writes submitted and not yet finished
    replaced,  \* the write at the head has replaced the file
    th,        \* what each thread is doing
    refresh,   \* the path is in _REFRESHING
    holder,    \* who holds the store's lock
    created,   \* contents created so far
    outside,   \* external writes so far
    torn,      \* content of the file the add-on has open and truncated, or Missing
    faults,    \* failed writes so far
    latest,    \* history: content of the last _submit
    landed     \* history: number of the last write that reached the disk

vars == <<locked, disk, cache, queue, replaced, th, refresh, holder, created, outside,
          torn, faults, latest, landed>>
outsideVars == <<outside, torn>>
boundVars == <<created, outsideVars, faults>>
historyVars == <<latest, landed>>

Content == Nat
Signature == Nat \cup {Failed}
Entry == [present : BOOLEAN, data : Content, sig : Signature, pending : Nat]
Cold == [present |-> FALSE, data |-> Missing, sig |-> Missing, pending |-> 0]

\* A write is numbered like a content; a deletion's data is Missing.
Write == [num : Nat, data : Content]

\* look   first lock section of read_bytes    stat   the stat after it
\* check  second lock section                 size   first stat of a load
\* open   open and read                       again  second stat of a load
\* keep   last lock section of a load         take   last section of read_bytes
\* unmark the end of _refresh_bg                got    the value is with the caller
\* push   between lock and executor            wait   blocked on the future
Step == {"idle", "look", "stat", "check", "size", "open", "again", "keep", "take",
         "unmark", "got", "push", "wait"}

Doing == [step : Step, op : {"read", "update"}, sig : Content, data : Content, num : Nat]
Resting == [step |-> "idle", op |-> "read", sig |-> Missing, data |-> Missing, num |-> 0]

TypeOK ==
    /\ locked \in Discipline
    /\ disk \in Content
    /\ cache \in Entry
    /\ queue \in Seq(Write)
    /\ replaced \in BOOLEAN
    /\ th \in [Thread -> Doing]
    /\ refresh \in BOOLEAN
    /\ holder \in Caller \cup {NoOne}
    /\ created \in Nat /\ outside \in Nat /\ faults \in Nat
    /\ torn \in Content
    /\ latest \in Content /\ landed \in Nat

\* The file exists or not, and was warmed or not.
Init ==
    /\ locked \in Discipline
    /\ disk \in {0, 1}
    /\ cache \in {Cold, [Cold EXCEPT !.present = TRUE, !.data = disk, !.sig = disk]}
    /\ queue = <<>>
    /\ replaced = FALSE
    /\ th = [t \in Thread |-> Resting]
    /\ refresh = FALSE
    /\ holder = NoOne
    /\ created = 1
    /\ outside = 0 /\ torn = Missing /\ faults = 0
    /\ latest = disk /\ landed = 0

At(t, s) == th[t].step = s
Goto(t, s) == th' = [th EXCEPT ![t].step = s]

\* The read returns d.
Return(t, d) == th' = [th EXCEPT ![t].step = "got", ![t].data = d]

\* The operation of t is over: its caller leaves the store's lock.
Finish(t) ==
    /\ th' = [th EXCEPT ![t] = Resting]
    /\ holder' = IF holder = t THEN NoOne ELSE holder

-----------------------------------------------------------------------------
(* read_bytes *)

\* Seeded fault (each Fault... definition is a bug a property must notice): the
\* caller forgets the store's lock.
FaultUnlockedCall(t, op) ==
    /\ At(t, "idle")
    /\ th' = [th EXCEPT ![t].step = "look", ![t].op = op]
    /\ UNCHANGED <<locked, disk, cache, queue, replaced, refresh, holder, boundVars, historyVars>>

Call(t, op) ==
    /\ At(t, "idle")
    /\ op \in locked => holder = NoOne
    /\ holder' = IF op \in locked THEN t ELSE holder
    /\ th' = [th EXCEPT ![t].step = "look", ![t].op = op]
    /\ UNCHANGED <<locked, disk, cache, queue, replaced, refresh, boundVars, historyVars>>

Look(t) ==
    /\ At(t, "look")
    /\ IF cache.present /\ cache.pending > 0 THEN Return(t, cache.data)
                                             ELSE Goto(t, "stat")
    /\ UNCHANGED <<locked, disk, cache, queue, replaced, refresh, holder, boundVars, historyVars>>

Stat(t) ==
    /\ At(t, "stat")
    /\ th' = [th EXCEPT ![t].step = "check", ![t].sig = disk]
    /\ UNCHANGED <<locked, disk, cache, queue, replaced, refresh, holder, boundVars, historyVars>>

Hit(t) == cache.present /\ (cache.pending > 0 \/ cache.sig = th[t].sig)

CheckHit(t) ==
    /\ At(t, "check")
    /\ Hit(t)
    /\ Return(t, cache.data)
    /\ UNCHANGED <<locked, disk, cache, queue, replaced, refresh, holder, boundVars, historyVars>>

\* On the loop a missing file empties the entry.
CheckMissing(t) ==
    /\ At(t, "check")
    /\ ~Hit(t)
    /\ t = Loop
    /\ th[t].sig = Missing
    /\ cache' = [Cold EXCEPT !.present = TRUE]
    /\ Return(t, Missing)
    /\ UNCHANGED <<locked, disk, queue, replaced, refresh, holder, boundVars, historyVars>>

\* ... and a stale entry is returned while a refresh thread, started unless
\* one runs, reads the file.
CheckStale(t) ==
    /\ At(t, "check")
    /\ ~Hit(t)
    /\ t = Loop
    /\ cache.present
    /\ th[t].sig # Missing
    /\ refresh' = TRUE
    /\ th' = [th EXCEPT ![t].step = "got", ![t].data = cache.data,
                        ![Refresher].step = IF refresh THEN @ ELSE "size"]
    /\ UNCHANGED <<locked, disk, cache, queue, replaced, holder, boundVars, historyVars>>

\* Anywhere else, and for a cold entry, the caller loads the file itself.
CheckLoad(t) ==
    /\ At(t, "check")
    /\ ~Hit(t)
    /\ t = Loop => ~cache.present /\ th[t].sig # Missing
    /\ Goto(t, "size")
    /\ UNCHANGED <<locked, disk, cache, queue, replaced, refresh, holder, boundVars, historyVars>>

Take(t) ==
    /\ At(t, "take")
    /\ Return(t, cache.data)
    /\ UNCHANGED <<locked, disk, cache, queue, replaced, refresh, holder, boundVars, historyVars>>

-----------------------------------------------------------------------------
(* _load_from_disk, by a caller or by the refresh thread *)

Size(t) ==
    /\ At(t, "size")
    /\ th' = [th EXCEPT ![t].step = IF disk = Missing THEN "keep" ELSE "open",
                        ![t].sig = disk, ![t].data = Missing]
    /\ UNCHANGED <<locked, disk, cache, queue, replaced, refresh, holder, boundVars, historyVars>>

Open(t) ==
    /\ At(t, "open")
    /\ disk # Missing
    /\ th' = [th EXCEPT ![t].step = "again", ![t].data = disk]
    /\ UNCHANGED <<locked, disk, cache, queue, replaced, refresh, holder, boundVars, historyVars>>

\* The file went away after the stat: the open raises, to the caller or into
\* _refresh_bg's except.
OpenRaises(t) ==
    /\ At(t, "open")
    /\ disk = Missing
    /\ IF t = Refresher THEN Goto(t, "unmark") /\ UNCHANGED holder ELSE Finish(t)
    /\ UNCHANGED <<locked, disk, cache, queue, replaced, refresh, boundVars, historyVars>>

Again(t) ==
    /\ At(t, "again")
    /\ th' = [th EXCEPT ![t].step = "keep", ![t].sig = disk]
    /\ UNCHANGED <<locked, disk, cache, queue, replaced, refresh, holder, boundVars, historyVars>>

\* "a newer in-process write wins": a pending entry is left alone.
Keep(t) ==
    /\ At(t, "keep")
    /\ cache' = IF cache.present /\ cache.pending > 0
                  THEN cache
                  ELSE [present |-> TRUE, data |-> th[t].data, sig |-> th[t].sig,
                        pending |-> 0]
    /\ Goto(t, IF t = Refresher THEN "unmark" ELSE "take")
    /\ UNCHANGED <<locked, disk, queue, replaced, refresh, holder, boundVars, historyVars>>

\* _refresh_bg's finally.
Unmark(t) ==
    /\ At(t, "unmark")
    /\ refresh' = FALSE
    /\ th' = [th EXCEPT ![t] = Resting]
    /\ UNCHANGED <<locked, disk, cache, queue, replaced, holder, boundVars, historyVars>>

-----------------------------------------------------------------------------
(* The caller's operation ends with the read, or goes on to write. *)

ReadDone(t) ==
    /\ At(t, "got")
    /\ th[t].op = "read"
    /\ Finish(t)
    /\ UNCHANGED <<locked, disk, cache, queue, replaced, refresh, boundVars, historyVars>>

\* Seeded faults: the write under way is not counted; the store's lock is left
\* before the write is queued.
FaultUncounted(t) ==
    /\ At(t, "got")
    /\ th[t].op = "update"
    /\ created < MaxContent
    /\ created' = created + 1
    /\ \E d \in {created', Missing} :
          /\ cache' = [cache EXCEPT !.present = TRUE, !.data = d]
          /\ th' = [th EXCEPT ![t].step = "push", ![t].data = d, ![t].num = created']
          /\ latest' = d
    /\ UNCHANGED <<locked, disk, queue, replaced, refresh, holder, outsideVars, faults, landed>>
FaultLeavesEarly(t) ==
    /\ At(t, "got")
    /\ th[t].op = "update"
    /\ created < MaxContent
    /\ created' = created + 1
    /\ \E d \in {created', Missing} :
          /\ cache' = [cache EXCEPT !.present = TRUE, !.data = d,
                                    !.pending = cache.pending + 1]
          /\ th' = [th EXCEPT ![t].step = "push", ![t].data = d, ![t].num = created']
          /\ latest' = d
    /\ holder' = NoOne
    /\ UNCHANGED <<locked, disk, queue, replaced, refresh, outsideVars, faults, landed>>

\* First half of _submit: the cache holds the new bytes (or none, for delete).
Submit(t) ==
    /\ At(t, "got")
    /\ th[t].op = "update"
    /\ created < MaxContent
    /\ created' = created + 1
    /\ \E d \in {created', Missing} :
          /\ cache' = [cache EXCEPT !.present = TRUE, !.data = d,
                                    !.pending = cache.pending + 1]
          /\ th' = [th EXCEPT ![t].step = "push", ![t].data = d, ![t].num = created']
          /\ latest' = d
    /\ UNCHANGED <<locked, disk, queue, replaced, refresh, holder, outsideVars, faults, landed>>

\* An update that finds nothing to change does not write.
NoChange(t) ==
    /\ At(t, "got")
    /\ th[t].op = "update"
    /\ Finish(t)
    /\ UNCHANGED <<locked, disk, cache, queue, replaced, refresh, boundVars, historyVars>>

\* Second half, after the lock was left: the loop goes on, others wait.
Push(t) ==
    /\ At(t, "push")
    /\ queue' = Append(queue, [num |-> th[t].num, data |-> th[t].data])
    /\ IF t = Loop THEN Finish(t) ELSE Goto(t, "wait") /\ UNCHANGED holder
    /\ UNCHANGED <<locked, disk, cache, replaced, refresh, boundVars, historyVars>>

Wait(t) ==
    /\ At(t, "wait")
    /\ \A i \in 1..Len(queue) : queue[i].num # th[t].num
    /\ Finish(t)
    /\ UNCHANGED <<locked, disk, cache, queue, replaced, refresh, boundVars, historyVars>>

-----------------------------------------------------------------------------
(* _do_write on the writer thread, and the add-on. *)

\* Seeded fault: the writer takes the lock of the store it writes for.
FaultWriterLocks ==
    /\ holder = NoOne
    /\ queue # <<>>
    /\ ~replaced
    /\ disk' = Head(queue).data
    /\ replaced' = TRUE
    /\ landed' = Head(queue).num
    /\ UNCHANGED <<locked, cache, queue, th, refresh, holder, boundVars, latest>>

Replace ==
    /\ queue # <<>>
    /\ ~replaced
    /\ disk' = Head(queue).data
    /\ replaced' = TRUE
    /\ landed' = Head(queue).num
    /\ UNCHANGED <<locked, cache, queue, th, refresh, holder, boundVars, latest>>

\* One write less under way, never below none.
CountedOff == IF cache.pending > 0 THEN cache.pending - 1 ELSE 0

WriteDone ==
    /\ queue # <<>>
    /\ replaced
    /\ cache' = [cache EXCEPT !.pending = CountedOff,
                              !.sig = IF CountedOff = 0 THEN disk ELSE @]
    /\ queue' = Tail(queue)
    /\ replaced' = FALSE
    /\ UNCHANGED <<locked, disk, th, refresh, holder, boundVars, historyVars>>

\* Seeded fault: a failed write stays counted.
FaultStaysPending ==
    /\ queue # <<>>
    /\ ~replaced
    /\ faults < MaxFaults
    /\ faults' = faults + 1
    /\ cache' = [cache EXCEPT !.sig = Failed]
    /\ queue' = Tail(queue)
    /\ UNCHANGED <<locked, disk, replaced, th, refresh, holder, created, outsideVars, historyVars>>

\* The temporary file cannot be written or renamed.
WriteFails ==
    /\ queue # <<>>
    /\ ~replaced
    /\ faults < MaxFaults
    /\ faults' = faults + 1
    /\ cache' = [cache EXCEPT !.pending = CountedOff, !.sig = Failed]
    /\ queue' = Tail(queue)
    /\ UNCHANGED <<locked, disk, replaced, th, refresh, holder, created, outsideVars, historyVars>>

\* The add-on replaces the file with a temporary one.
External ==
    /\ outside < MaxExternal
    /\ created < MaxContent
    /\ outside' = outside + 1
    /\ created' = created + 1
    /\ disk' = created'
    /\ UNCHANGED <<locked, cache, queue, replaced, th, refresh, holder, torn, faults, historyVars>>

\* The add-on opens the file for writing, which empties it ...
ExternalOpens ==
    /\ outside < MaxExternal
    /\ created < MaxContent
    /\ torn = Missing
    /\ outside' = outside + 1
    /\ created' = created + 1
    /\ disk' = created'
    /\ torn' = created'
    /\ UNCHANGED <<locked, cache, queue, replaced, th, refresh, holder, faults, historyVars>>

\* ... and writes it, which reaches nobody if the file was replaced meanwhile.
ExternalWrites ==
    /\ torn # Missing
    /\ created < MaxContent
    /\ created' = created + 1
    /\ disk' = IF disk = torn THEN created' ELSE disk
    /\ torn' = Missing
    /\ UNCHANGED <<locked, cache, queue, replaced, th, refresh, holder, outside, faults, historyVars>>

-----------------------------------------------------------------------------
CallerStep(t) ==
    \/ Look(t) \/ Stat(t) \/ CheckHit(t) \/ CheckMissing(t) \/ CheckStale(t)
    \/ CheckLoad(t) \/ Take(t) \/ ReadDone(t) \/ Submit(t) \/ NoChange(t)
    \/ Push(t) \/ Wait(t)

LoadStep(t) ==
    Size(t) \/ Open(t) \/ OpenRaises(t) \/ Again(t) \/ Keep(t) \/ Unmark(t)

WriterStep == Replace \/ WriteDone \/ WriteFails

Next ==
    \/ \E t \in Caller, op \in {"read", "update"} : Call(t, op)
    \/ \E t \in Caller : CallerStep(t)
    \/ \E t \in Thread : LoadStep(t)
    \/ WriterStep
    \/ External \/ ExternalOpens \/ ExternalWrites

Spec == Init /\ [][Next]_vars

\* Threads that are running go on running.
Fairness ==
    /\ \A t \in Caller : WF_vars(CallerStep(t) \/ LoadStep(t))
    /\ WF_vars(LoadStep(Refresher))
    /\ WF_vars(WriterStep)

FairSpec == Spec /\ Fairness

-----------------------------------------------------------------------------
(* Properties. *)

\* `pending` counts exactly the writes under way: were it to leak, the entry
\* would never be compared with the disk again; were it to fall short, a read
\* would go back to the file before an accepted write has reached it.
PendingCountsWrites ==
    cache.pending = Len(queue) + Cardinality({t \in Caller : At(t, "push")})

\* A path is in _REFRESHING exactly while its refresh thread runs: a leaked mark
\* would leave the loop with a stale entry for ever.
RefreshMarked == refresh <=> ~At(Refresher, "idle")

\* What every failure, of the writer or of a refresh, must leave in order: neither a
\* count nor a mark that nobody will take back.
BookkeepingExact == PendingCountsWrites /\ RefreshMarked

\* "on-disk order always matches call order": a write never replaces one that
\* was submitted after it.
DiskOrder ==
    [][Replace => Head(queue).num > landed]_vars

\* A store whose callers read and update under its lock, whose file nobody else writes,
\* and none of whose writes has failed: then nothing starts a refresh, which takes no
\* lock of a store.
Alone == locked = {"read", "update"} /\ outside = 0 /\ faults = 0

\* An entry of such a store that looks fresh is fresh: with nothing under way and the
\* file's signature, the data is the file's.
CacheCoherent ==
    Alone /\ cache.present /\ cache.pending = 0 /\ cache.sig = disk => cache.data = disk

\* An update of such a store starts from the last update's content: none is lost.
NoLostUpdate ==
    [][Alone => \A t \in Caller : Submit(t) => th[t].data = latest]_vars

\* Every operation ends, every refresh ends and every write reaches its end: no
\* thread waits for one that waits for it.
EveryOperationEnds ==
    /\ \A t \in Thread : ~At(t, "idle") ~> At(t, "idle")
    /\ queue # <<>> ~> queue = <<>>
=============================================================================
