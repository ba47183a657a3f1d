-------------------------- MODULE HouseDocsProofs --------------------------
(***************************************************************************)
(* Proofs about HouseDocs, for any number of requests at a time, any call  *)
(* list and any bounds: what the locks of the two documents are for, that  *)
(* the write log is true, and type correctness, which rests on that.       *)
(*                                                                         *)
(* Held: one request has read a document at a time.  Current: unless an    *)
(* owner or the add-on wrote meanwhile, what it read is what is there.     *)
(* LogTruth: the log, and whatever copy of it may yet replace it, is made  *)
(* of rows recorded before, in their order.                                *)
(***************************************************************************)
EXTENDS HouseDocs, TLAPS, SequenceTheorems, FiniteSetTheorems

\* Every request is a record with the fields of JobState.
IsRequest(s) ==
    s \in [step : {s.step}, kind : {s.kind}, num : {s.num}, match : {s.match}, saw : {s.saw},
           c : {s.c}, app : {s.app}, list : {s.list}, rows : {s.rows},
           rowLog : {s.rowLog}, overtaken : {s.overtaken}]

Filed == /\ jobs = [j \in Job |-> jobs[j]]
         /\ \A j \in Job : IsRequest(jobs[j])

Held == \A i, j \in Job : At(i, "write") /\ At(j, "write") /\ (OnNotes(i) <=> OnNotes(j)) => i = j

Current ==
    \A j \in Job : At(j, "write") /\ ~jobs[j].overtaken =>
        IF OnNotes(j) THEN ~Conflict(j) ELSE jobs[j].rows = contacts

Locked == Filed /\ Held /\ Current

\* Replacing one request by a request leaves the others as they are.
LEMMA FiledOne ==
    ASSUME Filed, NEW j \in Job, NEW s, jobs' = [jobs EXCEPT ![j] = s], IsRequest(s)
    PROVE  /\ Filed' /\ jobs'[j] = s /\ \A i \in Job : i # j => jobs'[i] = jobs[i]
<1>1. jobs' = [i \in Job |-> IF i = j THEN s ELSE jobs[i]]
  BY DEF Filed
<1>2. jobs'[j] = s /\ \A i \in Job : i # j => jobs'[i] = jobs[i]
  BY <1>1
<1>3. jobs' = [i \in Job |-> jobs'[i]]
  BY <1>1
<1>4. QED BY <1>2, <1>3 DEF Filed

\* An idle request was not overtaken.
LEMMA IdleRequest == IsRequest(Idle) /\ Idle.step = "idle" /\ ~Idle.overtaken
BY DEF Idle, IsRequest

\* Ending a request leaves the others as they are.
LEMMA FiledEnd ==
    ASSUME Filed, NEW j \in Job, End(j)
    PROVE  /\ Filed' /\ jobs'[j].step = "idle" /\ \A i \in Job : i # j => jobs'[i] = jobs[i]
BY FiledOne, IdleRequest DEF End

\* A request lets go of its document, or has none: the others keep what they have.
LEMMA LetGo ==
    ASSUME Locked, NEW j \in Job, Filed', jobs'[j].step # "write",
           \A i \in Job : i # j => jobs'[i] = jobs[i],
           notes' = notes \/ \A i \in Job : i # j /\ At(i, "write") => ~OnNotes(i),
           contacts' = contacts \/ \A i \in Job : i # j /\ At(i, "write") => OnNotes(i)
    PROVE  Locked'
<1>1. Held'
  BY DEF Locked, Held, At, OnNotes
<1>2. ASSUME NEW i \in Job, At(i, "write")', ~jobs'[i].overtaken
      PROVE  IF OnNotes(i)' THEN ~Conflict(i)' ELSE jobs'[i].rows = contacts'
  <2>1. i # j /\ jobs'[i] = jobs[i] /\ At(i, "write")
    BY <1>2 DEF At
  <2>2. CASE OnNotes(i)
    BY <1>2, <2>1, <2>2 DEF Locked, Current, OnNotes, Conflict
  <2>3. CASE ~OnNotes(i)
    BY <1>2, <2>1, <2>3 DEF Locked, Current, OnNotes
  <2>4. QED BY <2>2, <2>3
<1>3. QED BY <1>1, <1>2 DEF Locked, Current

\* A request takes a document that no other holds.
LEMMA Takes ==
    ASSUME Locked, NEW j \in Job, Filed', UNCHANGED docs,
           \A i \in Job : i # j => jobs'[i] = jobs[i],
           jobs'[j].kind = jobs[j].kind, jobs'[j].match = jobs[j].match, jobs'[j].saw = jobs[j].saw,
           IF OnNotes(j) THEN NotesFree /\ ~Conflict(j) ELSE ContactsFree /\ jobs'[j].rows = contacts
    PROVE  Locked'
<1>1. OnNotes(j)' <=> OnNotes(j)
  BY DEF OnNotes
<1>2. \A i \in Job : i # j => (At(i, "write")' <=> At(i, "write")) /\ (OnNotes(i)' <=> OnNotes(i))
  BY DEF At, OnNotes
<1>3. \A i \in Job : At(i, "write") => ~(OnNotes(i) <=> OnNotes(j))
  BY DEF NotesFree, ContactsFree
<1>4. Held'
  BY <1>1, <1>2, <1>3 DEF Locked, Held
<1>5. ASSUME NEW i \in Job, At(i, "write")', ~jobs'[i].overtaken
      PROVE  IF OnNotes(i)' THEN ~Conflict(i)' ELSE jobs'[i].rows = contacts'
  <2>1. CASE i = j
    BY <1>1, <2>1 DEF Conflict, docs
  <2>2. CASE i # j
    BY <1>2, <1>5, <2>2 DEF Locked, Current, Conflict, docs
  <2>3. QED BY <2>1, <2>2
<1>6. QED BY <1>4, <1>5 DEF Locked, Current

\* A writer without a lock: who had read the document is overtaken.
LEMMA Overtakes ==
    ASSUME Locked, NEW b \in BOOLEAN, jobs' = Overtaken(b),
           b => contacts' = contacts, ~b => notes' = notes
    PROVE  Locked'
<1>1. ASSUME NEW i \in Job
      PROVE  jobs'[i] = IF At(i, "write") /\ OnNotes(i) = b THEN [jobs[i] EXCEPT !.overtaken = TRUE]
                        ELSE jobs[i]
  BY DEF Overtaken
<1>2. ASSUME NEW i \in Job
      PROVE  /\ jobs'[i].step = jobs[i].step /\ jobs'[i].kind = jobs[i].kind
             /\ jobs'[i].match = jobs[i].match /\ jobs'[i].saw = jobs[i].saw
             /\ jobs'[i].rows = jobs[i].rows
  BY <1>1 DEF Locked, Filed, IsRequest
<1>3. ASSUME NEW i \in Job, ~jobs'[i].overtaken, At(i, "write")
      PROVE  ~jobs[i].overtaken /\ (OnNotes(i) <=> ~b)
  <2>1. CASE OnNotes(i) = b
    BY <1>1, <1>3, <2>1 DEF Locked, Filed, IsRequest
  <2>2. CASE OnNotes(i) # b
    BY <1>1, <1>3, <2>2 DEF OnNotes
  <2>3. QED BY <2>1, <2>2
<1>4. Filed'
  <2>1. jobs' = [i \in Job |-> jobs'[i]]
    BY DEF Overtaken
  <2>2. QED BY <1>1, <2>1 DEF Locked, Filed, IsRequest
<1>5. Held'
  BY <1>2 DEF Locked, Held, At, OnNotes
<1>6. ASSUME NEW i \in Job, At(i, "write")', ~jobs'[i].overtaken
      PROVE  IF OnNotes(i)' THEN ~Conflict(i)' ELSE jobs'[i].rows = contacts'
  <2>1. At(i, "write") /\ (OnNotes(i)' <=> OnNotes(i))
    BY <1>2, <1>6 DEF At, OnNotes
  <2>2. ~jobs[i].overtaken /\ (OnNotes(i) <=> ~b)
    BY <1>3, <1>6, <2>1
  <2>3. CASE OnNotes(i)
    <3>1. notes' = notes
      BY <2>2, <2>3
    <3>2. ~Conflict(i)
      BY <2>1, <2>2, <2>3 DEF Locked, Current
    <3>3. QED BY <1>2, <2>1, <2>3, <3>1, <3>2 DEF Conflict
  <2>4. CASE ~OnNotes(i)
    <3>1. contacts' = contacts
      BY <2>2, <2>4
    <3>2. jobs[i].rows = contacts
      BY <2>1, <2>2, <2>4 DEF Locked, Current
    <3>3. QED BY <1>2, <2>1, <2>4, <3>1, <3>2
  <2>5. QED BY <2>3, <2>4
<1>7. QED BY <1>4, <1>5, <1>6 DEF Locked, Current

\* Every step keeps one request at a time behind each lock, with what it read.
LEMMA LockedNext == Locked /\ [Next]_vars => Locked'
<1> SUFFICES ASSUME Locked, [Next]_vars PROVE Locked'
  OBVIOUS
<1>1. Filed
  BY DEF Locked
<1>2. ASSUME NEW j \in Job, NoteBegin(j) PROVE Locked'
  <2>1. PICK m \in Match :
          jobs' = [jobs EXCEPT ![j] = [Idle EXCEPT !.step = "sent", !.num = requests + 1,
                                                   !.match = m, !.saw = notes]]
    BY <1>2 DEF NoteBegin
  <2> DEFINE s == [Idle EXCEPT !.step = "sent", !.num = requests + 1, !.match = m, !.saw = notes]
  <2>2. IsRequest(s) /\ s.step = "sent"
    BY DEF Idle, IsRequest
  <2>3. /\ Filed' /\ jobs'[j] = s /\ \A i \in Job : i # j => jobs'[i] = jobs[i]
    BY <1>1, <2>1, <2>2, FiledOne
  <2> HIDE DEF s
  <2>4. QED BY <1>2, <2>2, <2>3, LetGo DEF NoteBegin, docs
<1>3. ASSUME NEW j \in Job, ContactsBegin(j) PROVE Locked'
  <2>1. PICK k \in Kind, c \in Contact \cup {None}, app \in App, list \in Lists(App \cup {None}) :
          jobs' = [jobs EXCEPT ![j] = [Idle EXCEPT !.step = "sent", !.num = requests + 1,
                                             !.kind = k, !.c = c, !.app = app, !.list = list]]
    BY <1>3 DEF ContactsBegin
  <2> DEFINE s == [Idle EXCEPT !.step = "sent", !.num = requests + 1,
                               !.kind = k, !.c = c, !.app = app, !.list = list]
  <2>2. IsRequest(s) /\ s.step = "sent"
    BY DEF Idle, IsRequest
  <2>3. /\ Filed' /\ jobs'[j] = s /\ \A i \in Job : i # j => jobs'[i] = jobs[i]
    BY <1>1, <2>1, <2>2, FiledOne
  <2> HIDE DEF s
  <2>4. QED BY <1>3, <2>2, <2>3, LetGo DEF ContactsBegin, docs
<1>4. ASSUME NEW j \in Job, NoteRead(j) PROVE Locked'
  <2>1. CASE Conflict(j)
    BY <1>1, <1>4, <2>1, FiledEnd, LetGo DEF NoteRead, docs
  <2>2. CASE ~Conflict(j)
    <3> DEFINE s == [jobs[j] EXCEPT !.step = "write"]
    <3>1. jobs' = [jobs EXCEPT ![j] = s]
      BY <1>1, <1>4, <2>2 DEF NoteRead, Filed
    <3>2. /\ IsRequest(s) /\ s.kind = jobs[j].kind /\ s.match = jobs[j].match
          /\ s.saw = jobs[j].saw
      BY <1>1 DEF Filed, IsRequest
    <3>3. /\ Filed' /\ jobs'[j] = s /\ \A i \in Job : i # j => jobs'[i] = jobs[i]
      BY <1>1, <3>1, <3>2, FiledOne
    <3> HIDE DEF s
    <3>4. QED BY <1>4, <2>2, <3>2, <3>3, Takes DEF NoteRead
  <2>3. QED BY <2>1, <2>2
<1>5. ASSUME NEW j \in Job, ContactsRead(j) PROVE Locked'
  <2>1. CASE Refused(jobs[j], contacts)
    BY <1>1, <1>5, <2>1, FiledEnd, LetGo DEF ContactsRead, docs
  <2>2. CASE ~Refused(jobs[j], contacts)
    <3> DEFINE s == [jobs[j] EXCEPT !.step = "write", !.rows = contacts]
    <3>1. jobs' = [jobs EXCEPT ![j] = s]
      BY <1>1, <1>5, <2>2 DEF ContactsRead, Filed
    <3>2. /\ IsRequest(s) /\ s.kind = jobs[j].kind /\ s.match = jobs[j].match
          /\ s.saw = jobs[j].saw /\ s.rows = contacts
      BY <1>1 DEF Filed, IsRequest
    <3>3. /\ Filed' /\ jobs'[j] = s /\ \A i \in Job : i # j => jobs'[i] = jobs[i]
      BY <1>1, <3>1, <3>2, FiledOne
    <3> HIDE DEF s
    <3>4. QED BY <1>5, <2>2, <3>2, <3>3, Takes DEF ContactsRead
  <2>3. QED BY <2>1, <2>2
<1>6. ASSUME NEW j \in Job, NoteWrite(j) PROVE Locked'
  <2> DEFINE s == [jobs[j] EXCEPT !.step = "log"]
  <2>1. jobs' = [jobs EXCEPT ![j] = s]
    BY <1>1, <1>6 DEF NoteWrite, Filed
  <2>2. IsRequest(s) /\ s.step = "log"
    BY <1>1 DEF Filed, IsRequest
  <2>3. /\ Filed' /\ jobs'[j] = s /\ \A i \in Job : i # j => jobs'[i] = jobs[i]
    BY <1>1, <2>1, <2>2, FiledOne
  <2> HIDE DEF s
  <2>4. \A i \in Job : i # j /\ At(i, "write") => ~OnNotes(i)
    BY <1>6 DEF NoteWrite, Locked, Held
  <2>5. QED BY <1>6, <2>2, <2>3, <2>4, LetGo DEF NoteWrite
<1>7. ASSUME NEW j \in Job, ContactsWrite(j) PROVE Locked'
  <2> DEFINE s == [jobs[j] EXCEPT !.step = "log", !.rows = NoContacts]
  <2>1. jobs' = [jobs EXCEPT ![j] = s]
    BY <1>1, <1>7 DEF ContactsWrite, Filed
  <2>2. IsRequest(s) /\ s.step = "log"
    BY <1>1 DEF Filed, IsRequest
  <2>3. /\ Filed' /\ jobs'[j] = s /\ \A i \in Job : i # j => jobs'[i] = jobs[i]
    BY <1>1, <2>1, <2>2, FiledOne
  <2> HIDE DEF s
  <2>4. \A i \in Job : i # j /\ At(i, "write") => OnNotes(i)
    BY <1>7 DEF ContactsWrite, Locked, Held
  <2>5. QED BY <1>7, <2>2, <2>3, <2>4, LetGo DEF ContactsWrite
<1>8. ASSUME NEW j \in Job, WriteFails(j) \/ LogWrite(j) \/ LogWriteFails(j) PROVE Locked'
  BY <1>1, <1>8, FiledEnd, LetGo DEF WriteFails, LogWrite, LogWriteFails, docs
<1>9. ASSUME NEW j \in Job, LogRead(j) PROVE Locked'
  <2>1. CASE unreadable
    BY <1>1, <1>9, <2>1, FiledEnd, LetGo DEF LogRead, docs
  <2>2. CASE ~unreadable
    <3> DEFINE s == [jobs[j] EXCEPT !.step = "logging", !.rowLog = log]
    <3>1. jobs' = [jobs EXCEPT ![j] = s]
      BY <1>1, <1>9, <2>2 DEF LogRead, Filed
    <3>2. IsRequest(s) /\ s.step = "logging"
      BY <1>1 DEF Filed, IsRequest
    <3>3. /\ Filed' /\ jobs'[j] = s /\ \A i \in Job : i # j => jobs'[i] = jobs[i]
      BY <1>1, <3>1, <3>2, FiledOne
    <3> HIDE DEF s
    <3>4. QED BY <1>9, <3>2, <3>3, LetGo DEF LogRead, docs
  <2>3. QED BY <2>1, <2>2
<1>10. CASE OwnerNote \/ OwnerContacts
  BY <1>10, Overtakes DEF OwnerNote, OwnerContacts
<1>11. CASE AddonTruncate
  BY <1>11, Overtakes DEF AddonTruncate
<1>12. CASE UNCHANGED <<docs, jobs>>
  BY <1>12 DEF docs, Locked, Filed, Held, Current, At, OnNotes, Conflict
<1>13. CASE AddonFill
  <2>1. CASE addon.step = "stray"
    BY <1>12, <1>13, <2>1 DEF AddonFill
  <2>2. CASE addon.step # "stray"
    BY <1>13, <2>2, Overtakes DEF AddonFill
  <2>3. QED BY <2>1, <2>2
<1>14. CASE Restart
  <2>1. Filed' /\ \A j \in Job : ~At(j, "write")'
    BY <1>14, IdleRequest DEF Restart, Filed, At
  <2>2. QED BY <2>1 DEF Locked, Held, Current
<1>15. CASE \/ TouchRead \/ TouchWrite \/ AddonBegin \/ AddonDies \/ Tick \/ DamageSession
            \/ UNCHANGED vars
  BY <1>12, <1>15 DEF TouchRead, TouchWrite, AddonBegin, AddonDies, Tick, DamageSession, vars
<1>16. QED
  BY <1>2, <1>3, <1>4, <1>5, <1>6, <1>7, <1>8, <1>9, <1>10, <1>11, <1>13, <1>14, <1>15
     DEF Next, JobStep

\* The locks hold in every state.
LEMMA AlwaysLocked == Spec => []Locked
<1>1. Init => Locked
  <2> SUFFICES ASSUME Init PROVE Locked
    OBVIOUS
  <2>1. jobs = [j \in Job |-> Idle]
    BY DEF Init
  <2>2. Filed /\ \A j \in Job : ~At(j, "write")
    BY <2>1, IdleRequest DEF Filed, At
  <2>3. QED BY <2>2 DEF Locked, Held, Current
<1>2. QED BY <1>1, LockedNext, PTL DEF Spec

\* Members do not lose each other's rows: a member's write makes of the call list what
\* its request asks for, unless the owner or the add-on wrote within its lock.
THEOREM MembersKeepOrder == Spec => MembersInOrder
<1>1. Locked => \A j \in Job : ContactsWrite(j) /\ ~jobs[j].overtaken
                              => contacts' = Applied(jobs[j], contacts)
  BY DEF Locked, Current, ContactsWrite
<1>2. QED BY <1>1, AlwaysLocked, PTL DEF MembersInOrder

\* A member's save that names a note replaces the note its author saw, or one of the
\* same second, unless the owner or the add-on wrote within its lock.
THEOREM SavesReplaceWhatTheySaw == Spec => ReplacesWhatItSaw
<1>1. Locked => \A j \in Job : NoteWrite(j) /\ jobs[j].match \in {"at", "etag"} /\ ~jobs[j].overtaken
                              => \/ notes = jobs[j].saw
                                 \/ jobs[j].match = "at" /\ notes.at = jobs[j].saw.at
  BY DEF Locked, Current, NoteWrite, Conflict
<1>2. QED BY <1>1, AlwaysLocked, PTL DEF ReplacesWhatItSaw

-----------------------------------------------------------------------------
(* The write log.  The log, and every copy of it that a request or an      *)
(* authentication holds, is drawn from what was recorded: some of its rows, *)
(* in their order, at most LogMax.  So a row that a full log lets go of     *)
(* has LogMax later ones.                                                   *)

Drawn(rows, rec) ==
    /\ rows \in Seq(Nat) /\ Len(rows) <= LogMax
    /\ \E f \in [1..Len(rows) -> 1..Len(rec)] :
          /\ \A i \in 1..Len(rows) : rec[f[i]] = rows[i]
          /\ \A i, k \in 1..Len(rows) : i < k => f[i] < f[k]

\* The rows recorded after one of request n.
After(n, rec) == {k \in DOMAIN rec : \E i \in 1..(k - 1) : rec[i] = n}

\* Appending a row leaves the rows before it where they are.
LEMMA AppendedRow ==
    ASSUME NEW rec \in Seq(Nat), NEW n \in Nat
    PROVE  /\ Append(rec, n) \in Seq(Nat) /\ Len(rec) \in Nat
           /\ Len(Append(rec, n)) = Len(rec) + 1
           /\ \A i \in 1..Len(rec) : Append(rec, n)[i] = rec[i]
           /\ Append(rec, n)[Len(rec) + 1] = n
           /\ DOMAIN rec = 1..Len(rec) /\ DOMAIN Append(rec, n) = 1..(Len(rec) + 1)
BY AppendProperties, LenProperties

\* The rows recorded after one are finitely many.
LEMMA AfterCounts ==
    ASSUME NEW rec \in Seq(Nat), NEW m
    PROVE  IsFiniteSet(After(m, rec)) /\ Cardinality(After(m, rec)) \in Nat
<1>1. After(m, rec) \subseteq 1..Len(rec) /\ Len(rec) \in Int
  BY LenProperties DEF After
<1>2. IsFiniteSet(1..Len(rec))
  BY <1>1, FS_Interval
<1>3. IsFiniteSet(After(m, rec))
  BY <1>1, <1>2, FS_Subset
<1>4. QED BY <1>3, FS_CardinalityType

\* As many rows as the log holds came after one, and still do when one more is recorded.
LEMMA AfterGrows ==
    ASSUME NEW rec \in Seq(Nat), NEW n \in Nat, NEW m, Cardinality(After(m, rec)) >= LogMax
    PROVE  Cardinality(After(m, Append(rec, n))) >= LogMax
<1>1. After(m, rec) \subseteq After(m, Append(rec, n))
  BY AppendedRow DEF After
<1>2. /\ Cardinality(After(m, rec)) \in Nat
      /\ IsFiniteSet(After(m, Append(rec, n))) /\ Cardinality(After(m, Append(rec, n))) \in Nat
  BY AppendedRow, AfterCounts
<1>3. Cardinality(After(m, rec)) <= Cardinality(After(m, Append(rec, n)))
  BY <1>1, <1>2, FS_Subset
<1>4. QED BY <1>2, <1>3, BoundAssumption

\* An empty log is drawn from any rows.
LEMMA NothingDrawn == ASSUME NEW rec \in Seq(Nat) PROVE Drawn(<<>>, rec)
<1>1. <<>> \in Seq(Nat) /\ Len(<<>>) = 0 /\ Len(<<>>) <= LogMax
  BY EmptySeq, BoundAssumption
<1> DEFINE f == [i \in 1..Len(<<>>) |-> 1]
<1>2. \A i \in 1..Len(<<>>) : FALSE
  BY <1>1
<1>3. f \in [1..Len(<<>>) -> 1..Len(rec)]
  BY <1>2
<1> HIDE DEF f
<1>4. \E e \in [1..Len(<<>>) -> 1..Len(rec)] :
          /\ \A i \in 1..Len(<<>>) : rec[e[i]] = <<>>[i]
          /\ \A i, k \in 1..Len(<<>>) : i < k => e[i] < e[k]
  <2> WITNESS f \in [1..Len(<<>>) -> 1..Len(rec)]
  <2>1. QED BY <1>2
<1>5. QED BY <1>1, <1>4 DEF Drawn

\* A log drawn from the rows recorded is drawn from them and one more.
LEMMA DrawnStays ==
    ASSUME NEW rec \in Seq(Nat), NEW n \in Nat, NEW rows, Drawn(rows, rec)
    PROVE  Drawn(rows, Append(rec, n))
<1>1. PICK f \in [1..Len(rows) -> 1..Len(rec)] :
          /\ \A i \in 1..Len(rows) : rec[f[i]] = rows[i]
          /\ \A i, k \in 1..Len(rows) : i < k => f[i] < f[k]
  BY DEF Drawn
<1>2. f \in [1..Len(rows) -> 1..Len(Append(rec, n))]
  BY AppendedRow
<1>3. \A i \in 1..Len(rows) : Append(rec, n)[f[i]] = rows[i]
  BY <1>1, AppendedRow
<1>4. QED BY <1>1, <1>2, <1>3 DEF Drawn

\* Drawn rows are rows that were recorded.
LEMMA DrawnFrom ==
    ASSUME NEW rec \in Seq(Nat), NEW rows, Drawn(rows, rec)
    PROVE  ToSet(rows) \subseteq ToSet(rec)
<1>1. PICK f \in [1..Len(rows) -> 1..Len(rec)] : \A i \in 1..Len(rows) : rec[f[i]] = rows[i]
  BY DEF Drawn
<1>2. DOMAIN rows = 1..Len(rows) /\ DOMAIN rec = 1..Len(rec)
  BY LenProperties DEF Drawn
<1>3. QED BY <1>1, <1>2 DEF ToSet

\* A write of the log: it has the new row, and lets go only of what has LogMax later rows.
LEMMA DrawnLogged ==
    ASSUME NEW rec \in Seq(Nat), NEW n \in Nat, NEW rows, Drawn(rows, rec)
    PROVE  /\ Drawn(Logged(rows, n), Append(rec, n))
           /\ n \in ToSet(Logged(rows, n))
           /\ \A m \in ToSet(rows) \ ToSet(Logged(rows, n)) :
                 Cardinality(After(m, Append(rec, n))) >= LogMax
<1> DEFINE L == Len(rows)
           R == Len(rec)
           all == Append(rows, n)
           rec1 == Append(rec, n)
           cut == IF L + 1 > LogMax THEN 1 ELSE 0
           new == Logged(rows, n)
<1>1. PICK f \in [1..L -> 1..R] : /\ \A i \in 1..L : rec[f[i]] = rows[i]
                                  /\ \A i, k \in 1..L : i < k => f[i] < f[k]
  BY DEF Drawn
<1>2. rows \in Seq(Nat) /\ L \in Nat /\ L <= LogMax /\ R \in Nat /\ LogMax \in Nat /\ LogMax >= 1
  BY AppendedRow, BoundAssumption DEF Drawn
<1>3. /\ all \in Seq(Nat) /\ Len(all) = L + 1 /\ all[L + 1] = n
      /\ \A i \in 1..L : all[i] = rows[i]
      /\ \A i \in 1..(L + 1) : all[i] \in Nat
  BY <1>2, AppendedRow, ElementOfSeq
<1>4. /\ rec1 \in Seq(Nat) /\ Len(rec1) = R + 1 /\ rec1[R + 1] = n
      /\ \A i \in 1..R : rec1[i] = rec[i]
      /\ DOMAIN rec1 = 1..(R + 1)
  BY AppendedRow
<1>5. new = SubSeq(all, cut + 1, L + 1)
  <2>1. cut + 1 = IF Len(all) > LogMax THEN Len(all) - LogMax + 1 ELSE 1
    BY <1>2, <1>3
  <2>2. new = SubSeq(all, IF Len(all) > LogMax THEN Len(all) - LogMax + 1 ELSE 1, Len(all))
    BY DEF Logged
  <2>3. QED BY <1>3, <2>1, <2>2
<1> HIDE DEF L, R, all, rec1, new
<1>6. /\ new \in Seq(Nat) /\ Len(new) = (L + 1) - cut
      /\ \A i \in 1..((L + 1) - cut) : new[i] = all[cut + i]
  <2>1. cut \in 0..1 /\ cut + 1 \in Int /\ L + 1 \in Int /\ cut + 1 <= L + 1
    BY <1>2
  <2>2. \A i \in (cut + 1)..(L + 1) : all[i] \in Nat
    BY <1>3, <2>1
  <2>3. /\ new \in Seq(Nat)
        /\ Len(new) = (L + 1) - (cut + 1) + 1
        /\ \A i \in 1..((L + 1) - (cut + 1) + 1) : new[i] = all[(cut + 1) + i - 1]
    BY <1>5, <2>1, <2>2, SubSeqProperties
  <2> HIDE DEF cut
  <2>4. (L + 1) - (cut + 1) + 1 = (L + 1) - cut
    BY <1>2, <2>1
  <2>5. \A i \in 1..((L + 1) - cut) : (cut + 1) + i - 1 = cut + i
    BY <1>2, <2>1
  <2>6. QED BY <2>3, <2>4, <2>5
<1>7. cut \in 0..1 /\ (cut = 0 => L + 1 <= LogMax) /\ (cut = 1 => L = LogMax)
  BY <1>2
<1> HIDE DEF cut
<1> DEFINE g == [i \in 1..(L + 1) |-> IF i = L + 1 THEN R + 1 ELSE f[i]]
<1>8. /\ \A i \in 1..(L + 1) : g[i] \in 1..(R + 1) /\ rec1[g[i]] = all[i]
      /\ \A i, k \in 1..(L + 1) : i < k => g[i] < g[k]
  <2>1. ASSUME NEW i \in 1..(L + 1)
        PROVE  g[i] \in 1..(R + 1) /\ rec1[g[i]] = all[i]
    <3>1. CASE i = L + 1
      BY <1>2, <1>3, <1>4, <3>1
    <3>2. CASE i # L + 1
      <4>1. i \in 1..L /\ g[i] = f[i] /\ f[i] \in 1..R
        BY <1>2, <3>2
      <4> HIDE DEF g
      <4>2. rec1[f[i]] = rec[f[i]] /\ rec[f[i]] = rows[i] /\ all[i] = rows[i]
        BY <1>1, <1>3, <1>4, <4>1
      <4>3. QED BY <1>2, <4>1, <4>2
    <3>3. QED BY <3>1, <3>2
  <2>2. \A i, k \in 1..(L + 1) : i < k => g[i] < g[k]
    BY <1>1, <1>2
  <2>3. QED BY <2>1, <2>2
<1> HIDE DEF g
<1> DEFINE h == [i \in 1..((L + 1) - cut) |-> g[cut + i]]
<1>9. Drawn(new, rec1)
  <2>1. \A i \in 1..((L + 1) - cut) : cut + i \in 1..(L + 1)
    BY <1>2, <1>7
  <2>2. h \in [1..Len(new) -> 1..Len(rec1)]
    BY <1>4, <1>6, <1>8, <2>1
  <2>3. \A i \in 1..Len(new) : rec1[h[i]] = new[i]
    BY <1>6, <1>8, <2>1
  <2>4. \A i, k \in 1..Len(new) : i < k => h[i] < h[k]
    <3> SUFFICES ASSUME NEW i \in 1..((L + 1) - cut), NEW k \in 1..((L + 1) - cut), i < k
                 PROVE  h[i] < h[k]
      BY <1>6
    <3>1. cut + i < cut + k
      BY <1>7
    <3>2. QED BY <1>8, <2>1, <3>1
  <2>5. Len(new) <= LogMax
    BY <1>2, <1>6, <1>7
  <2> HIDE DEF h
  <2>6. QED BY <1>6, <2>2, <2>3, <2>4, <2>5 DEF Drawn
<1>10. DOMAIN new = 1..((L + 1) - cut) /\ DOMAIN rows = 1..L
  BY <1>2, <1>6, LenProperties DEF L
<1>11. n \in ToSet(new)
  <2>1. (L + 1) - cut \in 1..((L + 1) - cut) /\ cut + ((L + 1) - cut) = L + 1
    <3>1. cut = 1 => L >= 1
      BY <1>2, <1>7
    <3>2. QED BY <1>2, <1>7, <3>1
  <2>2. new[(L + 1) - cut] = n
    BY <1>3, <1>6, <2>1
  <2>3. QED BY <1>10, <2>1, <2>2 DEF ToSet
<1>12. ASSUME NEW m \in ToSet(rows) \ ToSet(new)
       PROVE  Cardinality(After(m, rec1)) >= LogMax
  <2>1. PICK i \in 1..L : rows[i] = m
    BY <1>10 DEF ToSet
  <2>2. cut = 1 /\ i = 1
    <3>1. ASSUME i - cut \in 1..((L + 1) - cut)
          PROVE  FALSE
      <4>1. cut + (i - cut) = i
        BY <1>7
      <4>2. new[i - cut] = all[i]
        BY <1>6, <3>1, <4>1
      <4>3. new[i - cut] = m
        BY <1>3, <2>1, <4>2
      <4>4. QED BY <1>10, <1>12, <3>1, <4>3 DEF ToSet
    <3>2. QED BY <1>2, <1>7, <3>1
  <2>3. L = LogMax /\ rec1[g[1]] = m
    BY <1>2, <1>3, <1>7, <1>8, <2>1, <2>2
  <2> DEFINE q == [k \in 1..LogMax |-> g[k + 1]]
  <2>4. \A k \in 1..LogMax : k + 1 \in 1..(L + 1) /\ 1 \in 1..(L + 1) /\ 1 < k + 1
    BY <1>2, <2>3
  <2>5. \A k \in 1..LogMax : q[k] \in 1..(R + 1) /\ g[1] \in 1..(R + 1) /\ g[1] < q[k]
    BY <1>8, <2>4
  <2>6. \A k \in 1..LogMax : q[k] \in After(m, rec1)
    <3> SUFFICES ASSUME NEW k \in 1..LogMax PROVE q[k] \in After(m, rec1)
      OBVIOUS
    <3>1. q[k] \in 1..(R + 1) /\ g[1] \in 1..(q[k] - 1)
      BY <1>2, <2>5
    <3>2. QED BY <1>4, <2>3, <3>1 DEF After
  <2>7. \A k, l \in 1..LogMax : q[k] = q[l] => k = l
    <3>1. ASSUME NEW k \in 1..LogMax, NEW l \in 1..LogMax, k < l PROVE q[k] < q[l]
      <4>1. k + 1 < l + 1
        BY <1>2, <3>1
      <4>2. QED BY <1>8, <2>4, <4>1
    <3> HIDE DEF q
    <3>2. QED
      <4> SUFFICES ASSUME NEW k \in 1..LogMax, NEW l \in 1..LogMax, q[k] = q[l], k # l PROVE FALSE
        OBVIOUS
      <4>1. k < l \/ l < k
        BY <1>2
      <4>2. QED BY <1>2, <2>5, <3>1, <4>1
  <2>8. q \in [1..LogMax -> After(m, rec1)]
    BY <2>6
  <2>9. q \in Injection(1..LogMax, After(m, rec1))
    BY <2>7, <2>8 DEF Injection, IsInjective
  <2>10. IsFiniteSet(After(m, rec1)) /\ Cardinality(After(m, rec1)) \in Nat
    BY <1>4, AfterCounts
  <2> HIDE DEF q
  <2>11. Cardinality(1..LogMax) <= Cardinality(After(m, rec1))
    BY <2>9, <2>10, FS_Injection
  <2>12. Cardinality(1..LogMax) = LogMax
    BY <1>2, FS_Interval
  <2>13. QED BY <1>2, <2>10, <2>11, <2>12
<1>13. QED BY <1>9, <1>11, <1>12 DEF new, rec1
-----------------------------------------------------------------------------
(* The invariant: Numbered, a request has its number to itself and lands    *)
(* once; Copies, the log and its copies are drawn from what was recorded,   *)
(* which landed; Accounted, a write that landed is in the log, on its way   *)
(* there, excused or pushed out.                                            *)

Sending(j) == At(j, "log") \/ At(j, "logging")

Numbered ==
    /\ requests \in Nat /\ landed \subseteq 1..requests
    /\ \A j \in Job :
          /\ jobs[j].step \in Step
          /\ ~At(j, "idle") => jobs[j].num \in 1..requests
          /\ At(j, "sent") \/ At(j, "write") => jobs[j].num \notin landed
          /\ Sending(j) => jobs[j].num \in landed
    /\ \A i, j \in Job :
          ~At(i, "idle") /\ ~At(j, "idle") /\ jobs[i].num = jobs[j].num => i = j

Copies ==
    /\ recorded \in Seq(Nat) /\ ToSet(recorded) \subseteq landed
    /\ Drawn(log, recorded)
    /\ touch # None => Drawn(touch, recorded)
    /\ \A j \in Job : At(j, "logging") => Drawn(jobs[j].rowLog, recorded)

Accounted ==
    \A n \in landed \ excused :
        \/ n \in ToSet(log)
        \/ \E j \in Job : Sending(j) /\ jobs[j].num = n
        \/ Cardinality(After(n, recorded)) >= LogMax

LogTruth == Filed /\ Numbered /\ Copies /\ Accounted

\* A request keeps its step, its number and its copy of the log.
Same(i) == jobs'[i].step = jobs[i].step /\ jobs'[i].num = jobs[i].num /\ jobs'[i].rowLog = jobs[i].rowLog

\* The requests stand where they did.
LEMMA Stands ==
    ASSUME LogTruth, Filed', \A i \in Job : Same(i),
           UNCHANGED <<logVars, historyVars>>, requests' \in {requests, requests + 1}
    PROVE  LogTruth'
<1>1. Numbered'
  BY DEF LogTruth, Numbered, Same, At, Sending, historyVars
<1>2. Copies'
  BY DEF LogTruth, Copies, Same, At, logVars, historyVars
<1>3. Accounted'
  BY DEF LogTruth, Accounted, Same, At, Sending, logVars, historyVars
<1>4. QED BY <1>1, <1>2, <1>3 DEF LogTruth

\* A request that has not written starts, goes on or ends.
LEMMA Turns ==
    ASSUME LogTruth, Filed', NEW j \in Job, \A i \in Job : i # j => Same(i),
           jobs[j].step \in {"idle", "sent", "write"}, jobs'[j].step \in {"idle", "sent", "write"},
           jobs'[j].step # "idle" => \/ jobs[j].step # "idle" /\ jobs'[j].num = jobs[j].num
                                     \/ jobs'[j].num = requests + 1 /\ requests' = requests + 1,
           UNCHANGED <<logVars, historyVars>>, requests' \in {requests, requests + 1}
    PROVE  LogTruth'
<1>1. Numbered'
  <2>1. requests' \in Nat /\ landed' \subseteq 1..requests' /\ landed \subseteq 1..requests /\ requests \in Nat
    BY DEF LogTruth, Numbered, historyVars
  <2>2. \A i \in Job : i # j => /\ jobs'[i].step = jobs[i].step /\ jobs'[i].num = jobs[i].num
                                /\ jobs[i].step # "idle" => jobs[i].num \in 1..requests
    BY DEF LogTruth, Numbered, Same, At
  <2>3. ASSUME NEW i \in Job
        PROVE  /\ jobs'[i].step \in Step
               /\ At(i, "idle")' \/ jobs'[i].num \in 1..requests'
               /\ At(i, "sent")' \/ At(i, "write")' => jobs'[i].num \notin landed'
               /\ Sending(i)' => jobs'[i].num \in landed'
    <3>1. CASE i = j
      <4>1. CASE jobs'[j].step = "idle"
        BY <3>1, <4>1 DEF At, Sending, Step
      <4>2. CASE jobs[j].step # "idle" /\ jobs'[j].num = jobs[j].num
        BY <2>1, <3>1, <4>2 DEF LogTruth, Numbered, At, Sending, Step, historyVars
      <4>3. CASE jobs'[j].num = requests + 1 /\ requests' = requests + 1
        BY <2>1, <3>1, <4>3 DEF At, Sending, Step, historyVars
      <4>4. QED BY <4>1, <4>2, <4>3
    <3>2. CASE i # j
      BY <2>1, <2>2, <3>2 DEF LogTruth, Numbered, At, Sending, historyVars
    <3>3. QED BY <3>1, <3>2
  <2>4. ASSUME NEW i \in Job, i # j, ~At(i, "idle")', ~At(j, "idle")'
        PROVE  jobs'[i].num # jobs'[j].num
    <3>1. CASE jobs[j].step # "idle" /\ jobs'[j].num = jobs[j].num
      BY <2>2, <2>4, <3>1 DEF LogTruth, Numbered, At
    <3>2. CASE jobs'[j].num = requests + 1 /\ requests' = requests + 1
      BY <2>1, <2>2, <2>4, <3>2 DEF At
    <3>3. QED BY <2>4, <3>1, <3>2 DEF At
  <2>5. ASSUME NEW i \in Job, NEW k \in Job, ~At(i, "idle")', ~At(k, "idle")',
               jobs'[i].num = jobs'[k].num
        PROVE  i = k
    <3>1. CASE i = j \/ k = j
      BY <2>4, <2>5, <3>1
    <3>2. CASE i # j /\ k # j
      BY <2>2, <2>5, <3>2 DEF LogTruth, Numbered, At
    <3>3. QED BY <3>1, <3>2
  <2>6. QED BY <2>1, <2>3, <2>5 DEF Numbered
<1>2. Copies'
  BY DEF LogTruth, Copies, Same, At, logVars, historyVars
<1>3. Accounted'
  <2>1. \A i \in Job : Sending(i) => Sending(i)' /\ jobs'[i].num = jobs[i].num
    BY DEF Same, At, Sending
  <2>2. QED BY <2>1 DEF LogTruth, Accounted, logVars, historyVars
<1>4. QED BY <1>1, <1>2, <1>3 DEF LogTruth

\* A request writes its document.
LEMMA Lands ==
    ASSUME LogTruth, Filed', NEW j \in Job, \A i \in Job : i # j => Same(i),
           At(j, "write"), jobs'[j].step = "log", jobs'[j].num = jobs[j].num,
           landed' = landed \cup {jobs[j].num},
           UNCHANGED <<logVars, recorded, excused, requests>>
    PROVE  LogTruth'
<1>1. \A i \in Job : i # j => jobs'[i].step = jobs[i].step /\ jobs'[i].num = jobs[i].num
  BY DEF Same
<1>2. jobs[j].num \in 1..requests /\ requests \in Nat
  BY DEF LogTruth, Numbered, At
<1>3. Numbered'
  <2>1. requests' \in Nat /\ landed' \subseteq 1..requests'
    BY <1>2 DEF LogTruth, Numbered
  <2>2. ASSUME NEW i \in Job
        PROVE  /\ jobs'[i].step \in Step
               /\ ~At(i, "idle")' => jobs'[i].num \in 1..requests'
               /\ At(i, "sent")' \/ At(i, "write")' => jobs'[i].num \notin landed'
               /\ Sending(i)' => jobs'[i].num \in landed'
    <3>1. CASE i = j
      BY <1>2, <3>1 DEF At, Sending, Step
    <3>2. CASE i # j
      <4>1. ~At(i, "idle") => jobs[i].num # jobs[j].num
        BY <3>2 DEF LogTruth, Numbered, At
      <4>2. QED BY <1>1, <3>2, <4>1 DEF LogTruth, Numbered, At, Sending
    <3>3. QED BY <3>1, <3>2
  <2>3. \A i \in Job : jobs'[i].num = jobs[i].num /\ (At(i, "idle")' <=> At(i, "idle"))
    BY <1>1 DEF At
  <2>4. \A i, k \in Job : ~At(i, "idle")' /\ ~At(k, "idle")' /\ jobs'[i].num = jobs'[k].num => i = k
    BY <2>3 DEF LogTruth, Numbered
  <2>5. QED BY <2>1, <2>2, <2>4 DEF Numbered
<1>4. Copies'
  BY DEF LogTruth, Copies, Same, At, logVars
<1>5. Accounted'
  <2>1. \A i \in Job : Sending(i) => Sending(i)' /\ jobs'[i].num = jobs[i].num
    BY <1>1 DEF At, Sending
  <2>2. Sending(j)' /\ jobs'[j].num = jobs[j].num
    BY DEF At, Sending
  <2>3. QED BY <2>1, <2>2 DEF LogTruth, Accounted, logVars
<1>6. QED BY <1>3, <1>4, <1>5 DEF LogTruth

\* Requests leave, and what they were about to record is excused.
LEMMA Leaves ==
    ASSUME LogTruth, Filed',
           \A i \in Job : \/ Same(i)
                          \/ jobs'[i].step = "idle" /\ (Sending(i) => jobs[i].num \in excused'),
           excused \subseteq excused', touch' \in {None, touch},
           UNCHANGED <<log, unreadable, requests, landed, recorded>>
    PROVE  LogTruth'
<1>1. Numbered'
  BY DEF LogTruth, Numbered, Same, At, Sending, Step
<1>2. Copies'
  BY DEF LogTruth, Copies, Same, At
<1>3. Accounted'
  BY DEF LogTruth, Accounted, Same, At, Sending
<1>4. QED BY <1>1, <1>2, <1>3 DEF LogTruth
\* A request reads the log.
LEMMA ReadsLog ==
    ASSUME LogTruth, Filed', NEW j \in Job, \A i \in Job : i # j => Same(i),
           At(j, "log"), jobs'[j].step = "logging", jobs'[j].num = jobs[j].num,
           jobs'[j].rowLog = log,
           UNCHANGED <<logVars, historyVars, requests>>
    PROVE  LogTruth'
<1>1. \A i \in Job : /\ jobs'[i].num = jobs[i].num /\ (Sending(i)' <=> Sending(i))
                     /\ (At(i, "idle")' <=> At(i, "idle"))
                     /\ (At(i, "sent")' <=> At(i, "sent"))
                     /\ (At(i, "write")' <=> At(i, "write"))
  BY DEF Same, At, Sending
<1>2. \A i \in Job : jobs'[i].step \in Step
  BY DEF LogTruth, Numbered, Same, Step
<1>3. Numbered'
  BY <1>1, <1>2 DEF LogTruth, Numbered, historyVars
<1>4. Copies'
  BY DEF LogTruth, Copies, Same, At, logVars, historyVars
<1>5. Accounted'
  BY <1>1 DEF LogTruth, Accounted, logVars, historyVars
<1>6. QED BY <1>3, <1>4, <1>5 DEF LogTruth

\* A request writes the log: over its own copy, which may be older than what is there.
LEMMA WritesLog ==
    ASSUME LogTruth, NEW j \in Job, LogWrite(j)
    PROVE  LogTruth'
<1> DEFINE n == jobs[j].num
           old == jobs[j].rowLog
<1>1. /\ Filed' /\ jobs'[j].step = "idle" /\ \A i \in Job : i # j => jobs'[i] = jobs[i]
  BY FiledEnd DEF LogWrite, LogTruth
<1>2. \A i \in Job : i # j => Same(i)
  BY <1>1 DEF Same
<1>3. n \in landed /\ n \in Nat /\ recorded \in Seq(Nat) /\ Drawn(old, recorded)
  BY DEF LogWrite, LogTruth, Numbered, Copies, Sending, At
<1>4. /\ log' = Logged(old, n) /\ recorded' = Append(recorded, n)
      /\ excused' = excused \cup (ToSet(log) \ ToSet(old))
      /\ landed' = landed /\ touch' = touch /\ requests' = requests
  BY DEF LogWrite
<1> HIDE DEF n, old
<1>5. Numbered'
  BY <1>1, <1>2, <1>4 DEF LogTruth, Numbered, Same, At, Sending, Step
<1>6. Copies'
  <2>1. recorded' \in Seq(Nat)
    BY <1>3, <1>4, AppendedRow
  <2>2. ToSet(recorded') \subseteq landed'
    <3>1. ToSet(Append(recorded, n)) \subseteq ToSet(recorded) \cup {n}
      BY <1>3, AppendedRow DEF ToSet
    <3>2. QED BY <1>3, <1>4, <3>1 DEF LogTruth, Copies
  <2>3. Drawn(log', recorded')
    BY <1>3, <1>4, DrawnLogged
  <2>4. touch' # None => Drawn(touch', recorded')
    <3>1. touch # None => Drawn(touch, Append(recorded, n))
      BY <1>3, DrawnStays DEF LogTruth, Copies
    <3>2. QED BY <1>4, <3>1
  <2>5. ASSUME NEW i \in Job, At(i, "logging")' PROVE Drawn(jobs'[i].rowLog, recorded')
    <3>1. i # j /\ At(i, "logging") /\ jobs'[i].rowLog = jobs[i].rowLog
      BY <1>1, <2>5 DEF At
    <3>2. Drawn(jobs[i].rowLog, recorded)
      BY <3>1 DEF LogTruth, Copies
    <3>3. Drawn(jobs[i].rowLog, Append(recorded, n))
      BY <1>3, <3>2, DrawnStays
    <3>4. QED BY <1>4, <3>1, <3>3
  <2>6. QED BY <2>1, <2>2, <2>3, <2>4, <2>5 DEF Copies
<1>7. Accounted'
  <2> SUFFICES ASSUME NEW m \in landed' \ excused'
               PROVE  \/ m \in ToSet(log')
                      \/ \E i \in Job : Sending(i)' /\ jobs'[i].num = m
                      \/ Cardinality(After(m, recorded')) >= LogMax
    BY DEF Accounted
  <2>1. m \in landed \ excused
    BY <1>4
  <2>2. CASE m \in ToSet(log)
    <3>1. m \in ToSet(old)
      BY <1>4, <2>2
    <3>2. QED BY <1>3, <1>4, <3>1, DrawnLogged
  <2>3. ASSUME NEW i \in Job, Sending(i), jobs[i].num = m
        PROVE  m \in ToSet(log') \/ (Sending(i)' /\ jobs'[i].num = m)
    <3>1. CASE i = j
      BY <1>3, <1>4, <2>3, <3>1, DrawnLogged DEF n
    <3>2. CASE i # j
      BY <1>2, <2>3, <3>2 DEF Same, Sending, At
    <3>3. QED BY <3>1, <3>2
  <2>4. CASE Cardinality(After(m, recorded)) >= LogMax
    BY <1>3, <1>4, <2>4, AfterGrows
  <2>5. QED BY <2>1, <2>2, <2>3, <2>4 DEF LogTruth, Accounted
<1>8. QED BY <1>1, <1>5, <1>6, <1>7 DEF LogTruth

\* The log is replaced by one that was drawn, and what it lacks is excused.
LEMMA Replaces ==
    ASSUME LogTruth, Drawn(log', recorded), touch' \in {None, touch, log},
           excused' = excused \cup (ToSet(log) \ ToSet(log')),
           UNCHANGED <<jobs, requests, landed, recorded>>
    PROVE  LogTruth'
<1>1. Filed' /\ Numbered'
  BY DEF LogTruth, Filed, Numbered, At, Sending
<1>2. Copies'
  BY DEF LogTruth, Copies, At
<1>3. Accounted'
  BY DEF LogTruth, Accounted, At, Sending
<1>4. QED BY <1>1, <1>2, <1>3 DEF LogTruth

\* Every step keeps the truth of the log.
LEMMA LogTruthNext == LogTruth /\ [Next]_vars => LogTruth'
<1> SUFFICES ASSUME LogTruth, [Next]_vars PROVE LogTruth'
  OBVIOUS
<1>1. Filed
  BY DEF LogTruth
<1>2. ASSUME NEW j \in Job, NoteBegin(j) PROVE LogTruth'
  <2>1. PICK m \in Match :
          jobs' = [jobs EXCEPT ![j] = [Idle EXCEPT !.step = "sent", !.num = requests + 1,
                                                   !.match = m, !.saw = notes]]
    BY <1>2 DEF NoteBegin
  <2> DEFINE s == [Idle EXCEPT !.step = "sent", !.num = requests + 1, !.match = m, !.saw = notes]
  <2>2. IsRequest(s) /\ s.step = "sent" /\ s.num = requests + 1
    BY DEF Idle, IsRequest
  <2>3. /\ Filed' /\ jobs'[j] = s /\ \A i \in Job : i # j => jobs'[i] = jobs[i]
    BY <1>1, <2>1, <2>2, FiledOne
  <2> HIDE DEF s
  <2>4. QED BY <1>2, <2>2, <2>3, Turns DEF NoteBegin, At, Same, Request
<1>3. ASSUME NEW j \in Job, ContactsBegin(j) PROVE LogTruth'
  <2>1. PICK k \in Kind, c \in Contact \cup {None}, app \in App, list \in Lists(App \cup {None}) :
          jobs' = [jobs EXCEPT ![j] = [Idle EXCEPT !.step = "sent", !.num = requests + 1,
                                             !.kind = k, !.c = c, !.app = app, !.list = list]]
    BY <1>3 DEF ContactsBegin
  <2> DEFINE s == [Idle EXCEPT !.step = "sent", !.num = requests + 1,
                               !.kind = k, !.c = c, !.app = app, !.list = list]
  <2>2. IsRequest(s) /\ s.step = "sent" /\ s.num = requests + 1
    BY DEF Idle, IsRequest
  <2>3. /\ Filed' /\ jobs'[j] = s /\ \A i \in Job : i # j => jobs'[i] = jobs[i]
    BY <1>1, <2>1, <2>2, FiledOne
  <2> HIDE DEF s
  <2>4. QED BY <1>3, <2>2, <2>3, Turns DEF ContactsBegin, At, Same, Request
<1>4. ASSUME NEW j \in Job, End(j), At(j, "sent") \/ At(j, "write"),
             UNCHANGED <<logVars, requests, historyVars>>
      PROVE  LogTruth'
  BY <1>1, <1>4, FiledEnd, Turns DEF Same, At
<1>5. ASSUME NEW j \in Job, NoteRead(j) PROVE LogTruth'
  <2>1. CASE Conflict(j)
    BY <1>4, <1>5, <2>1 DEF NoteRead
  <2>2. CASE ~Conflict(j)
    <3> DEFINE s == [jobs[j] EXCEPT !.step = "write"]
    <3>1. jobs' = [jobs EXCEPT ![j] = s]
      BY <1>1, <1>5, <2>2 DEF NoteRead, Filed
    <3>2. IsRequest(s) /\ s.step = "write" /\ s.num = jobs[j].num
      BY <1>1 DEF Filed, IsRequest
    <3>3. /\ Filed' /\ jobs'[j] = s /\ \A i \in Job : i # j => jobs'[i] = jobs[i]
      BY <1>1, <3>1, <3>2, FiledOne
    <3> HIDE DEF s
    <3>4. QED BY <1>5, <3>2, <3>3, Turns DEF NoteRead, At, Same
  <2>3. QED BY <2>1, <2>2
<1>6. ASSUME NEW j \in Job, ContactsRead(j) PROVE LogTruth'
  <2>1. CASE Refused(jobs[j], contacts)
    BY <1>4, <1>6, <2>1 DEF ContactsRead
  <2>2. CASE ~Refused(jobs[j], contacts)
    <3> DEFINE s == [jobs[j] EXCEPT !.step = "write", !.rows = contacts]
    <3>1. jobs' = [jobs EXCEPT ![j] = s]
      BY <1>1, <1>6, <2>2 DEF ContactsRead, Filed
    <3>2. IsRequest(s) /\ s.step = "write" /\ s.num = jobs[j].num
      BY <1>1 DEF Filed, IsRequest
    <3>3. /\ Filed' /\ jobs'[j] = s /\ \A i \in Job : i # j => jobs'[i] = jobs[i]
      BY <1>1, <3>1, <3>2, FiledOne
    <3> HIDE DEF s
    <3>4. QED BY <1>6, <3>2, <3>3, Turns DEF ContactsRead, At, Same
  <2>3. QED BY <2>1, <2>2
<1>7. ASSUME NEW j \in Job, NoteWrite(j) PROVE LogTruth'
  <2> DEFINE s == [jobs[j] EXCEPT !.step = "log"]
  <2>1. jobs' = [jobs EXCEPT ![j] = s]
    BY <1>1, <1>7 DEF NoteWrite, Filed
  <2>2. IsRequest(s) /\ s.step = "log" /\ s.num = jobs[j].num
    BY <1>1 DEF Filed, IsRequest
  <2>3. /\ Filed' /\ jobs'[j] = s /\ \A i \in Job : i # j => jobs'[i] = jobs[i]
    BY <1>1, <2>1, <2>2, FiledOne
  <2> HIDE DEF s
  <2>4. QED BY <1>7, <2>2, <2>3, Lands DEF NoteWrite, Same
<1>8. ASSUME NEW j \in Job, ContactsWrite(j) PROVE LogTruth'
  <2> DEFINE s == [jobs[j] EXCEPT !.step = "log", !.rows = NoContacts]
  <2>1. jobs' = [jobs EXCEPT ![j] = s]
    BY <1>1, <1>8 DEF ContactsWrite, Filed
  <2>2. IsRequest(s) /\ s.step = "log" /\ s.num = jobs[j].num
    BY <1>1 DEF Filed, IsRequest
  <2>3. /\ Filed' /\ jobs'[j] = s /\ \A i \in Job : i # j => jobs'[i] = jobs[i]
    BY <1>1, <2>1, <2>2, FiledOne
  <2> HIDE DEF s
  <2>4. QED BY <1>8, <2>2, <2>3, Lands DEF ContactsWrite, Same
<1>9. ASSUME NEW j \in Job, WriteFails(j) PROVE LogTruth'
  BY <1>4, <1>9 DEF WriteFails
<1>10. ASSUME NEW j \in Job, LogRead(j) PROVE LogTruth'
  <2>1. CASE unreadable
    <3>1. /\ Filed' /\ jobs'[j].step = "idle" /\ \A i \in Job : i # j => jobs'[i] = jobs[i]
      BY <1>1, <1>10, <2>1, FiledEnd DEF LogRead
    <3>2. excused' = excused \cup {jobs[j].num}
      BY <1>10, <2>1 DEF LogRead
    <3>3. QED BY <1>10, <3>1, <3>2, Leaves DEF LogRead, Same, logVars
  <2>2. CASE ~unreadable
    <3> DEFINE s == [jobs[j] EXCEPT !.step = "logging", !.rowLog = log]
    <3>1. jobs' = [jobs EXCEPT ![j] = s]
      BY <1>1, <1>10, <2>2 DEF LogRead, Filed
    <3>2. IsRequest(s) /\ s.step = "logging" /\ s.num = jobs[j].num /\ s.rowLog = log
      BY <1>1 DEF Filed, IsRequest
    <3>3. /\ Filed' /\ jobs'[j] = s /\ \A i \in Job : i # j => jobs'[i] = jobs[i]
      BY <1>1, <3>1, <3>2, FiledOne
    <3>4. UNCHANGED <<logVars, historyVars, requests>>
      BY <1>10, <2>2 DEF LogRead, historyVars
    <3> HIDE DEF s
    <3>5. QED BY <1>10, <3>2, <3>3, <3>4, ReadsLog DEF LogRead, Same
  <2>3. QED BY <2>1, <2>2
<1>11. ASSUME NEW j \in Job, LogWrite(j) PROVE LogTruth'
  BY <1>11, WritesLog
<1>12. ASSUME NEW j \in Job, LogWriteFails(j) PROVE LogTruth'
  <2>1. /\ Filed' /\ jobs'[j].step = "idle" /\ \A i \in Job : i # j => jobs'[i] = jobs[i]
    BY <1>1, <1>12, FiledEnd DEF LogWriteFails
  <2>2. excused' = excused \cup {jobs[j].num}
    BY <1>12 DEF LogWriteFails
  <2>3. QED BY <1>12, <2>1, <2>2, Leaves DEF LogWriteFails, Same, logVars
<1>13. ASSUME NEW b, jobs' = Overtaken(b), UNCHANGED <<logVars, historyVars>>,
              requests' \in {requests, requests + 1}
       PROVE  LogTruth'
  <2>1. ASSUME NEW i \in Job
        PROVE  jobs'[i] = IF At(i, "write") /\ OnNotes(i) = b THEN [jobs[i] EXCEPT !.overtaken = TRUE]
                          ELSE jobs[i]
    BY <1>13 DEF Overtaken
  <2>2. Filed'
    <3>1. jobs' = [i \in Job |-> jobs'[i]]
      BY <1>13 DEF Overtaken
    <3>2. QED BY <1>1, <2>1, <3>1 DEF Filed, IsRequest
  <2>3. \A i \in Job : Same(i)
    BY <1>1, <2>1 DEF Filed, IsRequest, Same
  <2>4. QED BY <1>13, <2>2, <2>3, Stands
<1>14. ASSUME UNCHANGED <<jobs, logVars, historyVars>>, requests' \in {requests, requests + 1}
       PROVE  LogTruth'
  BY <1>1, <1>14, Stands DEF Filed, Same
<1>15. CASE OwnerNote \/ OwnerContacts
  BY <1>13, <1>15 DEF OwnerNote, OwnerContacts, Request
<1>16. CASE TouchRead
  <2>1. Drawn(log', recorded) /\ excused' = excused \cup (ToSet(log) \ ToSet(log'))
    BY <1>16 DEF TouchRead, historyVars, LogTruth, Copies
  <2>2. QED BY <1>16, <2>1, Replaces DEF TouchRead, historyVars
<1>17. CASE TouchWrite
  <2>1. Drawn(log', recorded) /\ excused' = excused \cup (ToSet(log) \ ToSet(log'))
    BY <1>17 DEF TouchWrite, LogTruth, Copies
  <2>2. QED BY <1>17, <2>1, Replaces DEF TouchWrite
<1>18. CASE DamageSession
  <2>1. log' = <<>> /\ ToSet(<<>>) = {}
    BY <1>18 DEF DamageSession, ToSet
  <2>2. excused' = excused \cup (ToSet(log) \ ToSet(log'))
    BY <1>18, <2>1 DEF DamageSession
  <2>3. Drawn(log', recorded)
    BY <2>1, NothingDrawn DEF LogTruth, Copies
  <2>4. QED BY <1>18, <2>2, <2>3, Replaces DEF DamageSession
<1>19. CASE AddonTruncate
  BY <1>13, <1>19 DEF AddonTruncate
<1>20. CASE AddonFill
  <2>1. CASE addon.step = "stray"
    BY <1>14, <1>20, <2>1 DEF AddonFill
  <2>2. CASE addon.step # "stray"
    BY <1>13, <1>20, <2>2 DEF AddonFill
  <2>3. QED BY <2>1, <2>2
<1>21. CASE Restart
  <2>1. Filed' /\ \A j \in Job : jobs'[j].step = "idle"
    BY <1>21, IdleRequest DEF Restart, Filed
  <2>2. \A j \in Job : Sending(j) => jobs[j].num \in excused'
    BY <1>21 DEF Restart, Sending
  <2>3. QED BY <1>21, <2>1, <2>2, Leaves DEF Restart
<1>22. CASE AddonBegin \/ AddonDies \/ Tick \/ UNCHANGED vars
  BY <1>14, <1>22 DEF AddonBegin, AddonDies, Tick, vars, Request
<1>23. QED
  BY <1>2, <1>3, <1>5, <1>6, <1>7, <1>8, <1>9, <1>10, <1>11, <1>15, <1>16, <1>17, <1>18,
     <1>12, <1>19, <1>20, <1>21, <1>22 DEF Next, JobStep

\* The log and its copies are true in every state.
LEMMA LogTruthHolds == Spec => []LogTruth
<1>1. Init => LogTruth
  <2> SUFFICES ASSUME Init PROVE LogTruth
    OBVIOUS
  <2>1. /\ jobs = [j \in Job |-> Idle] /\ requests = 0 /\ log = <<>> /\ touch = None
        /\ landed = {} /\ recorded = <<>>
    BY DEF Init
  <2>2. Filed /\ \A j \in Job : At(j, "idle")
    BY <2>1, IdleRequest DEF Filed, At
  <2>3. Numbered
    BY <2>1, <2>2 DEF Numbered, At, Sending, Step
  <2>4. Copies
    <3>1. recorded \in Seq(Nat) /\ ToSet(<<>>) = {}
      BY <2>1 DEF ToSet
    <3>2. QED BY <2>1, <2>2, <3>1, NothingDrawn DEF Copies, At
  <2>5. Accounted
    BY <2>1 DEF Accounted
  <2>6. QED BY <2>2, <2>3, <2>4, <2>5 DEF LogTruth
<1>2. QED BY <1>1, LogTruthNext, PTL DEF Spec

\* The log says what was written: every row in it is of a write that landed, and a write
\* that landed has its row there once it is answered, until LogMax later ones, unless a
\* restart came before, the file did not parse, its own write of the log failed, or a
\* client row's write went over it.
THEOREM LogIsTrue == Spec => []WritesAreLogged
<1>1. LogTruth => WritesAreLogged
  <2> SUFFICES ASSUME LogTruth PROVE WritesAreLogged
    OBVIOUS
  <2>1. ToSet(log) \subseteq landed
    BY DrawnFrom DEF LogTruth, Copies
  <2>2. ASSUME NEW n
        PROVE  {k \in DOMAIN recorded : \E i \in 1..(k - 1) : recorded[i] = n} = After(n, recorded)
    BY DEF After
  <2>3. QED BY <2>1, <2>2 DEF LogTruth, Accounted, WritesAreLogged
<1>2. QED BY <1>1, LogTruthHolds, PTL
-----------------------------------------------------------------------------
(* Type correctness.  The log has its type because it is drawn from what    *)
(* landed (LogTruth); a list of calls has its own because a request that    *)
(* names a row names one (Named).                                           *)

Named(s) == s.kind \in {"add", "patch"} => s.c \in Contact

Typed ==
    /\ notes \in Note /\ contacts \in Lists(App) /\ unreadable \in BOOLEAN
    /\ jobs \in [Job -> JobState] /\ \A j \in Job : Named(jobs[j])
    /\ addon \in AddonState
    /\ now \in 0..MaxTime /\ requests \in 0..MaxRequests /\ faults \in 0..MaxFaults

\* A list over S is a function from some contacts to S.
LEMMA ListsAre ==
    ASSUME NEW S
    PROVE  /\ \A f \in Lists(S) : DOMAIN f \subseteq Contact /\ f = [c \in DOMAIN f |-> f[c]]
                                  /\ \A c \in DOMAIN f : f[c] \in S
           /\ \A D \in SUBSET Contact : \A f \in [D -> S] : f \in Lists(S)
BY DEF Lists

\* The empty list, and what is not there: no note, no request, no add-on.
LEMMA Nothing ==
    /\ NoContacts \in Lists(App) /\ NoContacts \in Lists(App \cup {None})
    /\ NoNote \in Note /\ Idle \in JobState /\ Named(Idle) /\ AddonIdle \in AddonState
<1>1. NoContacts \in [{} -> App] /\ NoContacts \in [{} -> App \cup {None}]
  BY DEF NoContacts
<1>2. NoContacts \in Lists(App) /\ NoContacts \in Lists(App \cup {None})
  BY <1>1, ListsAre
<1>3. NoNote \in Note
  BY BoundAssumption DEF NoNote, Note
<1>4. <<>> \in Seq(1..MaxRequests)
  BY EmptySeq
<1>5. Idle \in JobState /\ Named(Idle)
  BY <1>2, <1>3, <1>4, BoundAssumption DEF Idle, JobState, Named, Step, Kind, Match, App
<1>6. AddonIdle \in AddonState
  BY <1>2, <1>3 DEF AddonIdle, AddonState
<1>7. QED BY <1>2, <1>3, <1>5, <1>6

\* Keeping the stored apps of a list without some gives a list with all.
LEMMA KeptList ==
    ASSUME NEW list \in Lists(App \cup {None}), NEW stored \in Lists(App)
    PROVE  Kept(list, stored) \in Lists(App)
<1>1. \A c \in DOMAIN list : list[c] \in App \cup {None}
  BY ListsAre
<1>2. \A c \in DOMAIN stored : stored[c] \in App
  BY ListsAre
<1>3. "cellular" \in App
  BY DEF App
<1>4. Kept(list, stored) \in [DOMAIN list -> App]
  BY <1>1, <1>2, <1>3 DEF Kept
<1>5. DOMAIN list \in SUBSET Contact
  BY ListsAre
<1>6. QED BY <1>4, <1>5, ListsAre

\* What a request makes of a list is a list.
LEMMA AppliedList ==
    ASSUME NEW s \in JobState, Named(s), NEW rows \in Lists(App)
    PROVE  Applied(s, rows) \in Lists(App)
<1>1. s.app \in App /\ s.list \in Lists(App \cup {None}) /\ s.kind \in Kind
  BY DEF JobState
<1>2. DOMAIN rows \subseteq Contact /\ \A c \in DOMAIN rows : rows[c] \in App
  BY ListsAre
<1>3. CASE s.kind \in {"add", "patch"}
  <2> DEFINE new == [c \in DOMAIN rows \cup {s.c} |-> IF c = s.c THEN s.app ELSE rows[c]]
  <2>1. Applied(s, rows) = new
    BY <1>3 DEF Applied
  <2>2. DOMAIN rows \cup {s.c} \in SUBSET Contact
    BY <1>2, <1>3 DEF Named
  <2>3. new \in [DOMAIN rows \cup {s.c} -> App]
    BY <1>1, <1>2
  <2> HIDE DEF new
  <2>4. QED BY <2>1, <2>2, <2>3, ListsAre
<1>4. CASE s.kind = "delete"
  <2> DEFINE new == [c \in DOMAIN rows \ {s.c} |-> rows[c]]
  <2>1. Applied(s, rows) = new
    BY <1>4 DEF Applied
  <2>2. DOMAIN rows \ {s.c} \in SUBSET Contact /\ new \in [DOMAIN rows \ {s.c} -> App]
    BY <1>2
  <2> HIDE DEF new
  <2>3. QED BY <2>1, <2>2, ListsAre
<1>5. CASE s.kind \notin {"add", "patch", "delete"}
  <2>1. Applied(s, rows) = Kept(s.list, rows)
    BY <1>5 DEF Applied
  <2>2. QED BY <1>1, <2>1, KeptList
<1>6. QED BY <1>3, <1>4, <1>5

\* Rows drawn from what landed, at most as many as the log holds.
LEMMA LogTyped ==
    ASSUME LogTruth, requests \in 0..MaxRequests
    PROVE  /\ log \in Seq(1..MaxRequests) /\ Len(log) <= LogMax
           /\ landed \subseteq 1..MaxRequests /\ ToSet(recorded) \subseteq landed
<1>1. landed \subseteq 1..MaxRequests
  BY BoundAssumption DEF LogTruth, Numbered
<1>2. ToSet(recorded) \subseteq landed /\ ToSet(log) \subseteq landed
  BY DrawnFrom DEF LogTruth, Copies
<1>3. log \in Seq(Nat) /\ Len(log) <= LogMax
  BY DEF LogTruth, Copies, Drawn
<1>4. \A i \in 1..Len(log) : log[i] \in 1..MaxRequests
  <2>1. DOMAIN log = 1..Len(log)
    BY <1>3, LenProperties
  <2>2. QED BY <1>1, <1>2, <2>1 DEF ToSet
<1>5. log \in Seq(1..MaxRequests)
  <2>1. Len(log) \in Nat /\ log = [i \in 1..Len(log) |-> log[i]]
    BY <1>3, LenProperties
  <2>2. [i \in 1..Len(log) |-> log[i]] \in Seq(1..MaxRequests)
    BY <1>4, <2>1
  <2>3. QED BY <2>1, <2>2
<1>6. QED BY <1>1, <1>2, <1>3, <1>5

\* Replacing one request, and marking those that were overtaken, leaves requests.
LEMMA JobsTyped ==
    ASSUME Typed
    PROVE  /\ \A j \in Job : \A s \in JobState :
                 jobs' = [jobs EXCEPT ![j] = s] /\ Named(s)
                 => jobs' \in [Job -> JobState] /\ \A i \in Job : Named(jobs'[i])
           /\ \A j \in Job : End(j)
                 => jobs' \in [Job -> JobState] /\ \A i \in Job : Named(jobs'[i])
           /\ \A b : jobs' = Overtaken(b)
                 => jobs' \in [Job -> JobState] /\ \A i \in Job : Named(jobs'[i])
<1>1. jobs \in [Job -> JobState] /\ \A j \in Job : Named(jobs[j])
  BY DEF Typed
<1>2. ASSUME NEW j \in Job, NEW s \in JobState, jobs' = [jobs EXCEPT ![j] = s], Named(s)
      PROVE  jobs' \in [Job -> JobState] /\ \A i \in Job : Named(jobs'[i])
  <2>1. \A i \in Job : jobs'[i] = IF i = j THEN s ELSE jobs[i]
    BY <1>1, <1>2
  <2>2. jobs' \in [Job -> JobState]
    BY <1>1, <1>2
  <2>3. QED BY <1>1, <1>2, <2>1, <2>2
<1>3. ASSUME NEW j \in Job, End(j)
      PROVE  jobs' \in [Job -> JobState] /\ \A i \in Job : Named(jobs'[i])
  BY <1>2, <1>3, Nothing DEF End
<1>4. ASSUME NEW b, jobs' = Overtaken(b)
      PROVE  jobs' \in [Job -> JobState] /\ \A i \in Job : Named(jobs'[i])
  <2>1. \A s \in JobState : /\ [s EXCEPT !.overtaken = TRUE] \in JobState
                            /\ Named(s) => Named([s EXCEPT !.overtaken = TRUE])
    BY DEF JobState, Named
  <2>2. \A i \in Job : jobs'[i] = IF At(i, "write") /\ OnNotes(i) = b
                                  THEN [jobs[i] EXCEPT !.overtaken = TRUE] ELSE jobs[i]
    BY <1>4 DEF Overtaken
  <2>3. \A i \in Job : jobs'[i] \in JobState /\ Named(jobs'[i])
    BY <1>1, <2>1, <2>2
  <2>4. jobs' = [i \in Job |-> jobs'[i]]
    BY <1>4 DEF Overtaken
  <2>5. QED BY <2>3, <2>4
<1>5. QED BY <1>2, <1>3, <1>4

\* A step that leaves the rest alone moves the requests only.
JobsOnly ==
    /\ UNCHANGED <<notes, contacts, addon, now, faults>>
    /\ unreadable' \in BOOLEAN /\ requests' \in 0..MaxRequests
    /\ jobs' \in [Job -> JobState] /\ \A i \in Job : Named(jobs'[i])

\* Every step keeps the types, as long as the log is true.
LEMMA TypedNext == Typed /\ LogTruth /\ [Next]_vars => Typed'
<1> SUFFICES ASSUME Typed, LogTruth, [Next]_vars PROVE Typed'
  OBVIOUS
<1>1. JobsOnly => Typed'
  BY DEF JobsOnly, Typed
<1>2. /\ jobs = [j \in Job |-> jobs[j]] /\ \A j \in Job : jobs[j] \in JobState /\ Named(jobs[j])
      /\ jobs \in [Job -> JobState]
  BY DEF Typed
<1>3. Request => requests' \in 0..MaxRequests /\ requests + 1 = requests'
  BY BoundAssumption DEF Request, Typed
<1>4. Fault => faults' \in 0..MaxFaults
  BY BoundAssumption DEF Fault, Typed
<1>5. ASSUME NEW j \in Job, NoteBegin(j) PROVE Typed'
  <2>1. PICK m \in Match :
          jobs' = [jobs EXCEPT ![j] = [Idle EXCEPT !.step = "sent", !.num = requests + 1,
                                                   !.match = m, !.saw = notes]]
    BY <1>5 DEF NoteBegin
  <2> DEFINE s == [Idle EXCEPT !.step = "sent", !.num = requests + 1, !.match = m, !.saw = notes]
  <2>2. requests' \in 0..MaxRequests /\ requests + 1 = requests' /\ notes \in Note
    BY <1>3, <1>5 DEF NoteBegin, Typed
  <2>3. s \in JobState
    BY <2>2, Nothing DEF JobState, Step
  <2>4. Named(s)
    BY DEF Named, Idle
  <2> HIDE DEF s
  <2>5. QED BY <1>1, <1>5, <2>1, <2>2, <2>3, <2>4, JobsTyped DEF NoteBegin, JobsOnly, docs, logVars, Typed, s
<1>6. ASSUME NEW j \in Job, ContactsBegin(j) PROVE Typed'
  <2>1. PICK k \in Kind \ {"note"}, c \in Contact \cup {None}, app \in App,
             list \in Lists(App \cup {None}) :
          /\ IF k = "replace" THEN c = None ELSE c # None /\ list = NoContacts
          /\ jobs' = [jobs EXCEPT ![j] = [Idle EXCEPT !.step = "sent", !.num = requests + 1,
                                             !.kind = k, !.c = c, !.app = app, !.list = list]]
    BY <1>6 DEF ContactsBegin
  <2> DEFINE s == [Idle EXCEPT !.step = "sent", !.num = requests + 1,
                               !.kind = k, !.c = c, !.app = app, !.list = list]
  <2>2. requests' \in 0..MaxRequests /\ requests + 1 = requests'
    BY <1>3, <1>6 DEF ContactsBegin
  <2>3. s \in JobState
    BY <2>2, Nothing DEF JobState, Step, Kind
  <2>4. Named(s)
    BY <2>1 DEF Named, Idle
  <2> HIDE DEF s
  <2>5. QED BY <1>1, <1>6, <2>1, <2>2, <2>3, <2>4, JobsTyped
             DEF ContactsBegin, JobsOnly, docs, logVars, Typed, s
<1>7. ASSUME NEW j \in Job, NoteRead(j) PROVE Typed'
  <2>1. [jobs[j] EXCEPT !.step = "write"] \in JobState /\ Named([jobs[j] EXCEPT !.step = "write"])
    BY <1>2 DEF JobState, Named, Step
  <2>2. jobs' = [jobs EXCEPT ![j] = [jobs[j] EXCEPT !.step = "write"]] \/ End(j)
    BY <1>2, <1>7 DEF NoteRead
  <2>3. jobs' \in [Job -> JobState] /\ \A i \in Job : Named(jobs'[i])
    BY <2>1, <2>2, JobsTyped
  <2>4. QED BY <1>1, <1>7, <2>3 DEF NoteRead, JobsOnly, docs, logVars, Typed
<1>8. ASSUME NEW j \in Job, ContactsRead(j) PROVE Typed'
  <2> DEFINE s == [jobs[j] EXCEPT !.step = "write", !.rows = contacts]
  <2>1. s \in JobState /\ Named(s)
    BY <1>2 DEF JobState, Named, Step, Typed
  <2>2. jobs' = [jobs EXCEPT ![j] = s] \/ End(j)
    BY <1>2, <1>8 DEF ContactsRead
  <2> HIDE DEF s
  <2>3. jobs' \in [Job -> JobState] /\ \A i \in Job : Named(jobs'[i])
    BY <2>1, <2>2, JobsTyped
  <2>4. QED BY <1>1, <1>8, <2>3 DEF ContactsRead, JobsOnly, docs, logVars, Typed
<1>9. ASSUME NEW j \in Job, LogRead(j) PROVE Typed'
  <2> DEFINE s == [jobs[j] EXCEPT !.step = "logging", !.rowLog = log]
  <2>1. log \in Seq(1..MaxRequests)
    BY LogTyped DEF Typed
  <2>2. s \in JobState /\ Named(s)
    BY <1>2, <2>1 DEF JobState, Named, Step
  <2>3. jobs' = [jobs EXCEPT ![j] = s] \/ End(j)
    BY <1>2, <1>9 DEF LogRead
  <2> HIDE DEF s
  <2>4. jobs' \in [Job -> JobState] /\ \A i \in Job : Named(jobs'[i])
    BY <2>2, <2>3, JobsTyped
  <2>5. QED BY <1>1, <1>9, <2>4 DEF LogRead, JobsOnly, docs, logVars, Typed
<1>10. ASSUME NEW j \in Job, LogWrite(j) PROVE Typed'
  <2>1. jobs' \in [Job -> JobState] /\ \A i \in Job : Named(jobs'[i])
    BY <1>10, JobsTyped DEF LogWrite
  <2>2. QED BY <1>1, <1>10, <2>1 DEF LogWrite, JobsOnly, docs, Typed
<1>11. ASSUME NEW j \in Job, WriteFails(j) PROVE Typed'
  <2>1. jobs' \in [Job -> JobState] /\ \A i \in Job : Named(jobs'[i])
    BY <1>11, JobsTyped DEF WriteFails
  <2>2. QED BY <1>4, <1>11, <2>1 DEF WriteFails, Typed, docs, logVars
<1>12. \A doc : Replaced(doc) \in AddonState
  BY DEF Replaced, Typed, AddonState
<1>13. ASSUME NEW j \in Job, NoteWrite(j) PROVE Typed'
  <2> DEFINE s == [jobs[j] EXCEPT !.step = "log"]
  <2>1. s \in JobState /\ Named(s) /\ jobs[j].num \in 0..MaxRequests
    BY <1>2 DEF JobState, Named, Step
  <2>2. jobs' = [jobs EXCEPT ![j] = s]
    BY <1>2, <1>13 DEF NoteWrite
  <2> HIDE DEF s
  <2>3. jobs' \in [Job -> JobState] /\ \A i \in Job : Named(jobs'[i])
    BY <2>1, <2>2, JobsTyped
  <2>4. notes' \in Note
    BY <1>13, <2>1 DEF NoteWrite, Note, Typed
  <2>5. QED BY <1>12, <1>13, <2>3, <2>4 DEF NoteWrite, Typed, logVars
<1>14. ASSUME NEW j \in Job, ContactsWrite(j) PROVE Typed'
  <2> DEFINE s == [jobs[j] EXCEPT !.step = "log", !.rows = NoContacts]
  <2>1. s \in JobState /\ Named(s) /\ jobs[j].rows \in Lists(App)
    BY <1>2, Nothing DEF JobState, Named, Step
  <2>2. jobs' = [jobs EXCEPT ![j] = s]
    BY <1>2, <1>14 DEF ContactsWrite
  <2> HIDE DEF s
  <2>3. jobs' \in [Job -> JobState] /\ \A i \in Job : Named(jobs'[i])
    BY <2>1, <2>2, JobsTyped
  <2>4. contacts' \in Lists(App)
    BY <1>2, <1>14, <2>1, AppliedList DEF ContactsWrite
  <2>5. QED BY <1>12, <1>14, <2>3, <2>4 DEF ContactsWrite, Typed, logVars
<1>15. CASE OwnerNote
  <2>1. jobs' \in [Job -> JobState] /\ \A i \in Job : Named(jobs'[i])
    BY <1>15, JobsTyped DEF OwnerNote
  <2>2. requests' \in 0..MaxRequests /\ requests + 1 = requests'
    BY <1>3, <1>15 DEF OwnerNote
  <2>3. notes' \in Note
    BY <1>15, <2>2 DEF OwnerNote, Note, Typed
  <2>4. QED BY <1>12, <1>15, <2>1, <2>2, <2>3 DEF OwnerNote, Typed, logVars
<1>16. CASE OwnerContacts
  <2>1. jobs' \in [Job -> JobState] /\ \A i \in Job : Named(jobs'[i])
    BY <1>16, JobsTyped DEF OwnerContacts
  <2>2. requests' \in 0..MaxRequests
    BY <1>3, <1>16 DEF OwnerContacts
  <2>3. contacts' \in Lists(App)
    BY <1>16, KeptList DEF OwnerContacts, Typed
  <2>4. QED BY <1>12, <1>16, <2>1, <2>2, <2>3 DEF OwnerContacts, Typed, logVars
<1>17. CASE AddonBegin
  <2>1. requests' \in 0..MaxRequests /\ requests + 1 = requests'
    BY <1>3, <1>17 DEF AddonBegin
  <2>2. addon' \in AddonState
    <3>1. [text |-> requests + 1, at |-> now] \in Note
      BY <2>1 DEF Note, Typed
    <3>2. \A list \in Lists(App \cup {None}) : Kept(list, contacts) \in Lists(App)
      BY KeptList DEF Typed
    <3>3. /\ \A n \in Note : [AddonIdle EXCEPT !.step = "open", !.note = n] \in AddonState
          /\ \A l \in Lists(App) :
                [AddonIdle EXCEPT !.step = "open", !.doc = "contacts", !.list = l] \in AddonState
      BY Nothing DEF AddonIdle, AddonState
    <3>4. QED BY <1>17, <3>1, <3>2, <3>3 DEF AddonBegin
  <2>3. QED BY <1>17, <2>1, <2>2 DEF AddonBegin, Typed, docs, logVars
<1>18. CASE AddonTruncate
  <2>1. jobs' \in [Job -> JobState] /\ \A i \in Job : Named(jobs'[i])
    BY <1>18, JobsTyped DEF AddonTruncate
  <2>2. addon' \in AddonState
    BY <1>18 DEF AddonTruncate, Typed, AddonState
  <2>3. notes' \in Note /\ contacts' \in Lists(App)
    BY <1>18, Nothing DEF AddonTruncate, Typed
  <2>4. QED BY <1>18, <2>1, <2>2, <2>3 DEF AddonTruncate, Typed, logVars
<1>19. CASE AddonFill
  <2>1. jobs' \in [Job -> JobState] /\ \A i \in Job : Named(jobs'[i])
    BY <1>2, <1>19, JobsTyped DEF AddonFill
  <2>2. addon' \in AddonState
    BY <1>19, Nothing DEF AddonFill
  <2>3. notes' \in Note /\ contacts' \in Lists(App)
    BY <1>19 DEF AddonFill, Typed, AddonState, docs
  <2>4. QED BY <1>19, <2>1, <2>2, <2>3 DEF AddonFill, Typed, logVars
<1>20. CASE AddonDies
  BY <1>4, <1>20, Nothing DEF AddonDies, Typed, docs, logVars
<1>21. CASE Restart
  <2>1. jobs' \in [Job -> JobState] /\ \A i \in Job : Named(jobs'[i])
    BY <1>21, Nothing DEF Restart
  <2>2. QED BY <1>4, <1>21, <2>1 DEF Restart, Typed, docs
<1>22. ASSUME NEW j \in Job, LogWriteFails(j) PROVE Typed'
  <2>1. jobs' \in [Job -> JobState] /\ \A i \in Job : Named(jobs'[i])
    BY <1>22, JobsTyped DEF LogWriteFails
  <2>2. QED BY <1>4, <1>22, <2>1 DEF LogWriteFails, Typed, docs, logVars
<1>23. CASE DamageSession
  BY <1>4, <1>23 DEF DamageSession, Typed, docs
<1>24. CASE Tick
  BY <1>24, BoundAssumption DEF Tick, Typed, docs, logVars
<1>25. CASE TouchRead \/ TouchWrite \/ UNCHANGED vars
  BY <1>25 DEF TouchRead, TouchWrite, Typed, docs, logVars, vars
<1>26. QED
  BY <1>5, <1>6, <1>7, <1>8, <1>9, <1>10, <1>11, <1>13, <1>14, <1>15, <1>16, <1>17, <1>18,
     <1>19, <1>20, <1>21, <1>22, <1>23, <1>24, <1>25 DEF Next, JobStep

\* Both documents, the log, every request and the add-on always hold values of their
\* types; the log never exceeds its length, and tells of nothing that did not land.
THEOREM TypeCorrect == Spec => []TypeOK
<1>1. Init => Typed
  <2> SUFFICES ASSUME Init PROVE Typed
    OBVIOUS
  <2>1. jobs \in [Job -> JobState] /\ \A j \in Job : Named(jobs[j])
    BY Nothing DEF Init
  <2>2. /\ notes \in Note /\ contacts \in Lists(App) /\ unreadable \in BOOLEAN
        /\ addon \in AddonState
    BY Nothing DEF Init
  <2>3. now \in 0..MaxTime /\ requests \in 0..MaxRequests /\ faults \in 0..MaxFaults
    BY BoundAssumption DEF Init
  <2>4. QED BY <2>1, <2>2, <2>3 DEF Typed
<1>2. Typed /\ LogTruth => TypeOK
  BY LogTyped DEF Typed, TypeOK
<1>3. QED BY <1>1, <1>2, TypedNext, LogTruthHolds, PTL DEF Spec
=============================================================================
