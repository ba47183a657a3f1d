----------------------------- MODULE ChatProofs -----------------------------
(***************************************************************************)
(* Proofs about Chat, for any phones, guests, principals, number of        *)
(* requests at a time and bound of the log.                                *)
(*                                                                         *)
(* The inductive invariant says of every copy a job holds what it says of  *)
(* the document, and of a copy that is not stale how it differs from the   *)
(* document it will replace.                                               *)
(***************************************************************************)
EXTENDS Chat, FiniteSetTheorems, TLAPS

\* The messages were posted; cursors and marks are owed to their readers.
DocOK(d) ==
    /\ d.rows \subseteq 1..created
    /\ Cardinality(d.rows) <= MaxStored
    /\ \A r \in Reader : d.cursors[r] <= reported[r]
    /\ \A m \in Id : \A r \in d.to[m] : m \in fetched[r]

\* c follows d: no cursor goes back, no mark is lost.
Grows(d, c) ==
    /\ \A r \in Reader : d.cursors[r] \in d.rows \cap c.rows => c.cursors[r] >= d.cursors[r]
    /\ \A m \in d.rows \cap c.rows : d.to[m] \subseteq c.to[m]

\* Writing S with the answer (adds, drops) keeps the log faithful.
Follows(S, adds, drops) ==
    /\ S \cap (deleted \cup {drops}) = {}
    /\ adds # 0 => adds \in S
    /\ \A m \in acked \ S :
          \/ m \in deleted \cup expired \cup {drops}
          \/ Cardinality({n \in acked \cup ({adds} \ {0}) : n > m}) >= MaxStored

JobOK(j) ==
    jobs[j].step = "write" =>
        /\ DocOK(jobs[j].copy)
        /\ jobs[j].adds <= created
        /\ jobs[j].drops # 0 => jobs[j].drops \in acked
        /\ jobs[j].copy.rows \subseteq acked \cup ({jobs[j].adds} \ {0})
        /\ ~jobs[j].stale => Grows(store, jobs[j].copy)
        /\ ~jobs[j].stale /\ ~torn => Follows(jobs[j].copy.rows, jobs[j].adds, jobs[j].drops)

LogOK ==
    /\ \A m \in 1..created : from[m] \in Sender
    /\ acked \subseteq 1..created
    /\ deleted \subseteq acked
    /\ store.rows \subseteq acked
    /\ DocOK(store)
    /\ LogFaithful

Inv == TypeOK /\ LogOK /\ \A j \in Job : JobOK(j)

-----------------------------------------------------------------------------
(* The operators *)

LEMMA Counting ==
    /\ \A S \in SUBSET Id : IsFiniteSet(S) /\ Cardinality(S) \in Nat
    /\ \A S, T \in SUBSET Id : S \subseteq T => Cardinality(S) <= Cardinality(T)
<1>1. IsFiniteSet(Id)
  BY BoundAssumption, FS_Interval DEF Id
<1>2. \A S \in SUBSET Id : IsFiniteSet(S) /\ Cardinality(S) \in Nat
  BY <1>1, FS_Subset, FS_CardinalityType
<1>3. \A S, T \in SUBSET Id : S \subseteq T => Cardinality(S) <= Cardinality(T)
  BY <1>2, FS_Subset
<1>4. QED BY <1>2, <1>3

\* At most MaxStored messages are kept, a new one above all others among them, and
\* one that goes has MaxStored above it.  Each kept message counts the ones above
\* it, and no two count the same.
LEMMA NewestOf ==
    ASSUME NEW S \in SUBSET Id
    PROVE  /\ Newest(S) \subseteq S
           /\ Cardinality(Newest(S)) <= MaxStored
           /\ \A m \in S \ Newest(S) : Cardinality({n \in S : n > m}) >= MaxStored
           /\ \A m \in S : (\A n \in S : n <= m) => m \in Newest(S)
<1> DEFINE Above(m) == {n \in S : n > m}
<1>0. \A m \in S : m \in Int
  BY DEF Id
<1>1. \A m \in S : Above(m) \in SUBSET Id /\ Cardinality(Above(m)) \in Nat
  BY Counting
<1>2. Newest(S) = {m \in S : Cardinality(Above(m)) < MaxStored}
  BY DEF Newest
<1> DEFINE f == [m \in Newest(S) |-> Cardinality(Above(m))]
<1>3. f \in [Newest(S) -> 0..(MaxStored - 1)]
  BY <1>1, <1>2, BoundAssumption
<1>4. ASSUME NEW m \in Newest(S), NEW k \in Newest(S), m < k
      PROVE  f[m] # f[k]
  <2>0. m \in S /\ k \in S
    BY <1>2
  <2>1. Above(k) \subseteq Above(m) /\ k \in Above(m) /\ k \notin Above(k)
    BY <2>0, <1>0, <1>4
  <2>2. Cardinality(Above(k)) # Cardinality(Above(m))
    BY <2>1, <1>1, <1>2, Counting, FS_Subset
  <2>3. QED BY <2>2
<1>5. f \in Injection(Newest(S), 0..(MaxStored - 1))
  <2>1. \A m, k \in Newest(S) : m < k \/ k < m \/ m = k
    BY <1>2, <1>0
  <2>2. \A m, k \in Newest(S) : f[m] = f[k] => m = k
    BY <2>1, <1>4
  <2> HIDE DEF f
  <2>3. QED BY <2>2, <1>3 DEF Injection, IsInjective
<1>6. IsFiniteSet(0..(MaxStored - 1)) /\ Cardinality(0..(MaxStored - 1)) = MaxStored
  BY FS_Interval, BoundAssumption
<1>7. Cardinality(Newest(S)) <= MaxStored
  BY <1>5, <1>6, FS_Injection
<1>8. \A m \in S \ Newest(S) : Cardinality(Above(m)) >= MaxStored
  BY <1>1, <1>2, BoundAssumption
<1>9. ASSUME NEW m \in S, \A n \in S : n <= m
      PROVE  m \in Newest(S)
  <2>1. Above(m) = {}
    BY <1>9, <1>0
  <2>2. Cardinality(Above(m)) = 0
    BY <2>1, FS_EmptySet
  <2>3. QED BY <2>2, <1>2, BoundAssumption
<1>10. QED BY <1>2, <1>7, <1>8, <1>9

\* The document of an empty chat.
LEMMA EmptyDoc ==
    /\ Empty \in Document
    /\ Empty.rows = {}
    /\ \A m \in Id : Empty.to[m] = {}
    /\ \A r \in Reader : Empty.cursors[r] = 0
BY DEF Empty, Document

\* Keeping some messages keeps their marks and every cursor.
LEMMA KeepDoc ==
    ASSUME NEW d \in Document, NEW S \in SUBSET Id
    PROVE  /\ Keep(d, S) \in Document
           /\ Keep(d, S).rows = S
           /\ Keep(d, S).cursors = d.cursors
           /\ \A m \in Id : Keep(d, S).to[m] = IF m \in S THEN d.to[m] ELSE {}
<1> DEFINE t == [m \in Id |-> IF m \in S THEN d.to[m] ELSE {}]
<1>1. d \in [rows : SUBSET Id, to : [Id -> SUBSET Reader], cursors : [Reader -> {0} \cup Id]]
  BY DEF Document
<1>2. Keep(d, S) = [rows |-> S, to |-> t, cursors |-> d.cursors]
  BY <1>1 DEF Keep
<1>3. t \in [Id -> SUBSET Reader] /\ \A m \in Id : t[m] = IF m \in S THEN d.to[m] ELSE {}
  BY <1>1
<1> HIDE DEF t
<1>4. QED BY <1>1, <1>2, <1>3 DEF Document

\* Marking what was fetched adds one reader to messages of the document.
LEMMA MarkDoc ==
    ASSUME NEW d \in Document, NEW r \in Reader, NEW paired \in BOOLEAN
    PROVE  LET c == MarkDelivered(d, r, paired) IN
           /\ c \in Document
           /\ c.rows = d.rows
           /\ c.cursors = d.cursors
           /\ \A m \in Id : /\ d.to[m] \subseteq c.to[m]
                            /\ c.to[m] \subseteq d.to[m] \cup (IF m \in d.rows THEN {r} ELSE {})
<1> DEFINE Own(m) == IF paired THEN from[m] = r ELSE Canon(d, from[m]) = Canon(d, r)
           t == [m \in Id |-> IF m \in d.rows /\ ~Own(m) THEN d.to[m] \cup {r} ELSE d.to[m]]
<1>1. d \in [rows : SUBSET Id, to : [Id -> SUBSET Reader], cursors : [Reader -> {0} \cup Id]]
  BY DEF Document
<1>2. MarkDelivered(d, r, paired) = [rows |-> d.rows, to |-> t, cursors |-> d.cursors]
  BY <1>1 DEF MarkDelivered
<1>3. /\ t \in [Id -> SUBSET Reader]
      /\ \A m \in Id : /\ d.to[m] \subseteq t[m]
                       /\ t[m] \subseteq d.to[m] \cup (IF m \in d.rows THEN {r} ELSE {})
  BY <1>1
<1> HIDE DEF t
<1>4. QED BY <1>1, <1>2, <1>3 DEF Document

\* A reported cursor moves to a message of the document, and never back.
LEMMA MoveDoc ==
    ASSUME NEW d \in Document, NEW r \in Reader, NEW m \in Id
    PROVE  LET c == MoveCursor(d, r, m) IN
           /\ c \in Document
           /\ c.rows = d.rows
           /\ c.to = d.to
           /\ \A q \in Reader :
                 \/ c.cursors[q] = d.cursors[q]
                 \/ /\ q = r /\ c.cursors[q] = m /\ m \in d.rows
                    /\ d.cursors[r] \notin d.rows \/ m >= d.cursors[r]
<1>1. d \in [rows : SUBSET Id, to : [Id -> SUBSET Reader], cursors : [Reader -> {0} \cup Id]]
  BY DEF Document
<1> DEFINE k == [d.cursors EXCEPT ![r] = m]
<1>2. [d EXCEPT !.cursors[r] = m] = [rows |-> d.rows, to |-> d.to, cursors |-> k]
  BY <1>1
<1>3. k \in [Reader -> {0} \cup Id] /\ \A q \in Reader : k[q] = IF q = r THEN m ELSE d.cursors[q]
  BY <1>1
<1> HIDE DEF k
<1>4. CASE m \in d.rows /\ (d.cursors[r] \notin d.rows \/ m >= d.cursors[r])
  BY <1>1, <1>2, <1>3, <1>4 DEF MoveCursor, Document
<1>5. CASE ~(m \in d.rows /\ (d.cursors[r] \notin d.rows \/ m >= d.cursors[r]))
  BY <1>5 DEF MoveCursor
<1>6. QED BY <1>4, <1>5

\* Purging removes the expired messages and their marks.
LEMMA PurgeDoc ==
    ASSUME NEW d \in Document
    PROVE  /\ Purge(d) \in Document
           /\ Purge(d).rows = d.rows \ expired
           /\ Purge(d).cursors = d.cursors
           /\ \A m \in Id : Purge(d).to[m] = IF m \in d.rows \ expired THEN d.to[m] ELSE {}
<1>1. d.rows \ expired \in SUBSET Id
  BY DEF Document
<1>2. QED BY <1>1, KeepDoc DEF Purge

-----------------------------------------------------------------------------
(* What a step leaves of the invariant *)

\* What every step but a write does to the document and to what is known of it.
Onward ==
    /\ store' = store /\ acked' = acked /\ deleted' = deleted /\ torn' = torn
    /\ created \in Nat /\ created' \in Nat /\ created <= created'
    /\ expired \subseteq expired'
    /\ \A r \in Reader : reported[r] <= reported'[r] /\ fetched[r] \subseteq fetched'[r]

\* A document that is right stays right as more is created, fetched and reported.
LEMMA DocOKKept ==
    ASSUME NEW d \in Document, DocOK(d),
           created \in Nat, created' \in Nat, created <= created',
           reported \in [Reader -> {0} \cup Id], reported' \in [Reader -> {0} \cup Id],
           \A r \in Reader : reported[r] <= reported'[r] /\ fetched[r] \subseteq fetched'[r]
    PROVE  /\ d.rows \subseteq 1..created'
           /\ Cardinality(d.rows) <= MaxStored
           /\ \A r \in Reader : d.cursors[r] <= reported'[r]
           /\ \A m \in Id : \A r \in d.to[m] : m \in fetched'[r]
<1>1. \A r \in Reader : /\ d.cursors[r] \in Nat /\ reported[r] \in Nat /\ reported'[r] \in Nat
                        /\ d.cursors[r] <= reported[r] /\ reported[r] <= reported'[r]
  BY DEF DocOK, Document, Id
<1>2. \A r \in Reader : d.cursors[r] <= reported'[r]
  BY <1>1
<1>3. \A m \in Id : \A r \in d.to[m] : m \in fetched'[r]
  BY DEF DocOK, Document
<1>4. d.rows \subseteq 1..created'
  BY DEF DocOK
<1>5. QED BY <1>2, <1>3, <1>4 DEF DocOK

\* A request that does not move keeps its part of the invariant.
LEMMA JobKept ==
    ASSUME Inv, Onward, reported' \in [Reader -> {0} \cup Id],
           NEW i \in Job, jobs'[i] = jobs[i]
    PROVE  JobOK(i)'
<1> SUFFICES ASSUME jobs[i].step = "write"
             PROVE  JobOK(i)'
  BY DEF JobOK
<1>1. jobs[i] \in JobState /\ jobs[i].copy \in Document
  BY DEF Inv, TypeOK, JobState
<1>2. JobOK(i)
  BY DEF Inv
<1>3. DocOK(jobs[i].copy)
  BY <1>2 DEF JobOK
<1>4. DocOK(jobs[i].copy)'
  BY <1>1, <1>3, DocOKKept DEF Onward, Inv, TypeOK, DocOK
<1>5. jobs[i].adds <= created'
  <2>1. jobs[i].adds \in Nat
    BY <1>1 DEF JobState, Id
  <2>2. QED BY <2>1, <1>2 DEF JobOK, Onward
<1>6. ~jobs[i].stale => Grows(store', jobs[i].copy)
  BY <1>2 DEF JobOK, Onward
<1>7. ~jobs[i].stale /\ ~torn => Follows(jobs[i].copy.rows, jobs[i].adds, jobs[i].drops)'
  BY <1>2 DEF JobOK, Follows, Onward
<1>8. QED BY <1>2, <1>4, <1>5, <1>6, <1>7 DEF JobOK, Onward

\* A log that is not written keeps its part of the invariant.
LEMMA LogKept ==
    ASSUME Inv, Onward, reported' \in [Reader -> {0} \cup Id],
           \A m \in 1..created' : from'[m] \in Sender
    PROVE  LogOK'
<1>1. DocOK(store)'
  BY DocOKKept DEF Inv, LogOK, TypeOK, Onward, DocOK
<1>2. LogFaithful'
  BY DEF Inv, LogOK, LogFaithful, Onward
<1>3. QED BY <1>1, <1>2 DEF Inv, LogOK, Onward

-----------------------------------------------------------------------------
(* The requests *)

LEMMA JobTyped ==
    ASSUME Inv, NEW j \in Job, NEW d \in Document, NEW m \in {0} \cup Id,
           NEW n \in {0} \cup Id, NEW b \in BOOLEAN, ToWrite(j, d, m, n, b)
    PROVE  /\ jobs' \in [Job -> JobState]
           /\ jobs'[j] = [step |-> "write", copy |-> d, adds |-> m, drops |-> n, stale |-> b]
           /\ \A i \in Job \ {j} : jobs'[i] = jobs[i]
<1> DEFINE s == [step |-> "write", copy |-> d, adds |-> m, drops |-> n, stale |-> b]
<1>1. s \in JobState
  BY DEF JobState
<1>2. jobs' = [jobs EXCEPT ![j] = s] /\ jobs \in [Job -> JobState]
  BY DEF ToWrite, Inv, TypeOK
<1> HIDE DEF s
<1>3. jobs' \in [Job -> JobState] /\ jobs'[j] = s /\ \A i \in Job \ {j} : jobs'[i] = jobs[i]
  BY <1>1, <1>2
<1>4. QED BY <1>3 DEF s

\* The document as it is read, or the empty one in its place.
LEMMA ReadOK ==
    ASSUME Inv, NEW b \in BOOLEAN
    PROVE  /\ Read(b) \in Document
           /\ DocOK(Read(b))
           /\ Read(b).rows \subseteq acked
           /\ ~b => Read(b) = store
<1>1. CASE ~b
  BY <1>1 DEF Read, Inv, TypeOK, LogOK
<1>2. CASE b
  <2>1. Read(b) = Empty
    BY <1>2 DEF Read
  <2>2. Cardinality({}) = 0
    BY FS_EmptySet
  <2>3. \A r \in Reader : reported[r] \in Nat
    BY DEF Inv, TypeOK, Id
  <2>4. DocOK(Empty)
    BY <2>2, <2>3, EmptyDoc, BoundAssumption DEF DocOK
  <2>5. QED BY <2>1, <2>4, EmptyDoc, <1>2
<1>3. QED BY <1>1, <1>2

\* A message is posted.  The copy is named by what is known of it, so that it is a
\* value and not an expression of the state.
LEMMA PostInv ==
    ASSUME Inv, NEW j \in Job, NEW x \in Sender, NEW blind \in BOOLEAN, Post(j, x, blind)
    PROVE  Inv'
<1>1. PICK R, d, new, T, N, c :
        /\ R = Read(blind) /\ d = Purge(R) /\ new = created + 1
        /\ T = d.rows \cup {new} /\ N = Newest(T) /\ c = Keep(d, N)
  OBVIOUS
<1>2. /\ created \in Nat /\ new \in Id /\ new # 0 /\ created' = new /\ 1..created' \subseteq Id
      /\ ToWrite(j, c, new, 0, blind) /\ from' = [from EXCEPT ![new] = x]
  BY <1>1, BoundAssumption DEF Post, Inv, TypeOK, Id
<1>3. /\ R \in Document /\ DocOK(R) /\ R.rows \subseteq acked
      /\ ~blind => R = store
  BY <1>1, ReadOK
<1>4. /\ d \in Document /\ d.rows = R.rows \ expired /\ d.cursors = R.cursors
      /\ \A m \in Id : d.to[m] = IF m \in R.rows \ expired THEN R.to[m] ELSE {}
  BY <1>1, <1>3, PurgeDoc
<1>5. /\ R.rows \subseteq 1..created /\ new \in T
      /\ T \subseteq 1..created' /\ T \in SUBSET Id /\ T \subseteq R.rows \cup {new}
      /\ new \notin 1..created /\ 1..created \subseteq Id /\ T \subseteq d.rows \cup {new}
  <2>1. R.rows \subseteq 1..created /\ T = (R.rows \ expired) \cup {new}
    BY <1>1, <1>3, <1>4 DEF DocOK
  <2>2. \A m \in 1..created : m \in 1..created'
    BY <1>1, <1>2
  <2>3. new \in 1..created' /\ new \notin 1..created
    BY <1>1, <1>2
  <2>4. QED BY <2>1, <2>2, <2>3, <1>1, <1>2
<1>6. /\ N \subseteq T
      /\ Cardinality(N) <= MaxStored
      /\ \A m \in T \ N : Cardinality({n \in T : n > m}) >= MaxStored
      /\ new \in N
  <2>1. \A m \in T : m <= new
    BY <1>1, <1>2, <1>4, <1>5
  <2>2. QED BY <2>1, <1>1, <1>5, NewestOf
<1>7. /\ c \in Document /\ c.rows = N /\ c.cursors = R.cursors
      /\ \A m \in Id : c.to[m] = IF m \in N THEN d.to[m] ELSE {}
  <2>1. N \in SUBSET Id
    BY <1>5, <1>6
  <2>2. d \in Document /\ d.cursors = R.cursors
    BY <1>4
  <2>3. c = Keep(d, N)
    BY <1>1
  <2>4. QED BY ONLY <2>1, <2>2, <2>3, KeepDoc
<1>8. /\ jobs' \in [Job -> JobState]
      /\ jobs'[j] = [step |-> "write", copy |-> c, adds |-> new, drops |-> 0, stale |-> blind]
      /\ \A i \in Job \ {j} : jobs'[i] = jobs[i]
  BY <1>2, <1>7, JobTyped
<1>9. /\ Onward
      /\ reported' = reported /\ fetched' = fetched /\ expired' = expired
      /\ reported' \in [Reader -> {0} \cup Id]
  <2>1. \A r \in Reader : reported[r] \in Nat
    BY DEF Inv, TypeOK, Id
  <2>2. QED BY <2>1, <1>1, <1>2 DEF Post, Onward, answerVars, Inv, TypeOK
<1>10. TypeOK'
  BY <1>1, <1>2, <1>8, <1>9 DEF Post, Begin, CanRead, answerVars, Inv, TypeOK, Id
<1>11. \A m \in 1..created' : from'[m] \in Sender
  <2>1. \A m \in 1..created' : m = new \/ m \in 1..created
    BY <1>1, <1>2
  <2>2. from \in [Id -> Sender \cup {None}]
    BY DEF Inv, TypeOK
  <2>3. QED BY <2>1, <2>2, <1>2 DEF Inv, LogOK
<1>12. JobOK(j)'
  <2>1. DocOK(c)'
    <3>1. c.rows \subseteq 1..created'
      BY <1>5, <1>6, <1>7
    <3>2. \A r \in Reader : c.cursors[r] <= reported'[r]
      BY <1>3, <1>7, <1>9 DEF DocOK
    <3>3. \A m \in Id : \A r \in c.to[m] : m \in fetched'[r]
      BY <1>3, <1>4, <1>7, <1>9 DEF DocOK
    <3>4. QED BY <3>1, <3>2, <3>3, <1>6, <1>7 DEF DocOK
  <2>2. c.rows \subseteq acked \cup ({new} \ {0})
    BY <1>1, <1>2, <1>3, <1>4, <1>6, <1>7
  <2>3. ~blind => Grows(store, c)
    <3>1. SUFFICES ASSUME ~blind
                   PROVE  Grows(store, c)
      OBVIOUS
    <3>2. R = store
      BY <3>1, <1>3
    <3>3. \A r \in Reader : store.cursors[r] \in Nat
      BY DEF Inv, TypeOK, Document, Id
    <3>4. \A m \in store.rows \cap c.rows : m \in Id /\ m \in d.rows
      BY <3>2, <1>5, <1>6, <1>7
    <3>5. QED BY <3>2, <3>3, <3>4, <1>4, <1>7 DEF Grows
  <2>4. ~blind /\ ~torn => Follows(c.rows, new, 0)'
    <3>1. SUFFICES ASSUME ~blind, ~torn
                   PROVE  Follows(c.rows, new, 0)'
      OBVIOUS
    <3>2. R = store /\ LogFaithful /\ acked \subseteq 1..created /\ deleted \subseteq acked
      BY <3>1, <1>3 DEF Inv, LogOK
    <3>3. c.rows \cap (deleted \cup {0}) = {}
      BY <3>1, <3>2, <1>2, <1>5, <1>6, <1>7 DEF LogFaithful
    <3>4. ASSUME NEW m \in acked \ c.rows
          PROVE  \/ m \in deleted \cup expired
                 \/ Cardinality({n \in acked \cup ({new} \ {0}) : n > m}) >= MaxStored
      <4> DEFINE U == {n \in acked \cup ({new} \ {0}) : n > m}
      <4>1. U \in SUBSET Id
        BY <3>2, <1>2, <1>5
      <4>2. CASE m \notin store.rows
        <5>1. m \in deleted \cup expired \/ Cardinality({n \in acked : n > m}) >= MaxStored
          BY <4>2, <3>1, <3>2 DEF LogFaithful
        <5>2. {n \in acked : n > m} \in SUBSET Id /\ {n \in acked : n > m} \subseteq U
          BY <4>1
        <5>3. Cardinality({n \in acked : n > m}) <= Cardinality(U)
          BY <5>2, <4>1, Counting
        <5>4. QED BY <5>1, <5>2, <5>3, <4>1, Counting, BoundAssumption
      <4>3. CASE m \in store.rows /\ m \notin expired
        <5>1. m \in T \ N
          BY <4>3, <3>2, <3>4, <1>1, <1>4, <1>7
        <5>2. {n \in T : n > m} \in SUBSET Id /\ {n \in T : n > m} \subseteq U
          BY <1>1, <1>2, <1>3, <1>4, <1>5
        <5>3. Cardinality({n \in T : n > m}) >= MaxStored
          BY <5>1, <1>6
        <5>4. Cardinality({n \in T : n > m}) <= Cardinality(U)
          BY <5>2, <4>1, Counting
        <5>5. QED BY <5>2, <5>3, <5>4, <4>1, Counting, BoundAssumption
      <4>4. QED BY <4>2, <4>3
    <3>5. QED BY <3>3, <3>4, <1>6, <1>7, <1>9 DEF Follows, Onward
  <2>5. QED BY <2>1, <2>2, <2>3, <2>4, <1>2, <1>8, <1>9 DEF JobOK, Onward
<1>13. QED BY <1>8, <1>9, <1>10, <1>11, <1>12, JobKept, LogKept DEF Inv

\* A copy that is the document R less what expired and what was deleted.
LEMMA EditInv ==
    ASSUME Inv, Onward, reported' \in [Reader -> {0} \cup Id],
           created' = created, from' = from, expired' = expired,
           NEW j \in Job, NEW R \in Document, NEW c \in Document, NEW n \in {0} \cup Id,
           NEW b \in BOOLEAN, ToWrite(j, c, 0, n, b),
           DocOK(R), R.rows \subseteq acked, ~b => R = store,
           c.rows \subseteq R.rows, n \notin c.rows, n # 0 => n \in R.rows,
           R.rows \ c.rows \subseteq expired \cup {n},
           \A r \in Reader : c.cursors[r] <= reported'[r],
           \A m \in Id : \A r \in c.to[m] : m \in fetched'[r],
           Grows(R, c)
    PROVE  /\ jobs' \in [Job -> JobState]
           /\ LogOK'
           /\ \A i \in Job : JobOK(i)'
<1>1. /\ jobs' \in [Job -> JobState]
      /\ jobs'[j] = [step |-> "write", copy |-> c, adds |-> 0, drops |-> n, stale |-> b]
      /\ \A i \in Job \ {j} : jobs'[i] = jobs[i]
  BY JobTyped
<1>2. DocOK(c)'
  <2>1. Cardinality(c.rows) <= MaxStored
    BY Counting, BoundAssumption DEF DocOK, Document
  <2>2. QED BY <2>1 DEF DocOK
<1>3. ~b /\ ~torn => Follows(c.rows, 0, n)'
  <2>1. SUFFICES ASSUME ~b, ~torn
                 PROVE  Follows(c.rows, 0, n)
    BY DEF Follows, Onward
  <2>2. R = store /\ LogFaithful
    BY <2>1 DEF Inv, LogOK
  <2>3. c.rows \cap (deleted \cup {n}) = {}
    BY <2>1, <2>2 DEF LogFaithful
  <2>4. acked \cup ({0} \ {0}) = acked
    OBVIOUS
  <2>5. \A m \in acked \ c.rows : \/ m \in deleted \cup expired \cup {n}
                                  \/ Cardinality({k \in acked : k > m}) >= MaxStored
    BY <2>1, <2>2 DEF LogFaithful
  <2>6. QED BY <2>3, <2>4, <2>5 DEF Follows
<1>4. JobOK(j)'
  BY <1>1, <1>2, <1>3 DEF JobOK, Onward
<1>5. \A m \in 1..created' : from'[m] \in Sender
  BY DEF Inv, LogOK
<1>6. QED BY <1>1, <1>4, <1>5, JobKept, LogKept

\* A deletion keeps the invariant.
LEMMA DeleteInv ==
    ASSUME Inv, NEW j \in Job, NEW x \in Sender, NEW m \in Id, NEW blind \in BOOLEAN,
           Delete(j, x, m, blind)
    PROVE  Inv'
<1>1. PICK R, d, S, n, c :
        /\ R = Read(blind) /\ d = Purge(R) /\ S = d.rows \ {m}
        /\ n = (IF m \in d.rows THEN m ELSE 0) /\ c = Keep(d, S)
  OBVIOUS
<1>2. /\ R \in Document /\ DocOK(R) /\ R.rows \subseteq acked
      /\ ~blind => R = store
  BY <1>1, ReadOK
<1>3. /\ d \in Document /\ d.rows = R.rows \ expired /\ d.cursors = R.cursors
      /\ \A k \in Id : d.to[k] = IF k \in R.rows \ expired THEN R.to[k] ELSE {}
  BY <1>1, <1>2, PurgeDoc
<1>4. /\ c \in Document /\ c.rows = S /\ c.cursors = d.cursors
      /\ \A k \in Id : c.to[k] = IF k \in S THEN d.to[k] ELSE {}
  <2>1. S \in SUBSET Id /\ c = Keep(d, S)
    BY <1>1, <1>3 DEF Document
  <2>2. QED BY ONLY <1>3, <2>1, KeepDoc
<1>5. ToWrite(j, c, 0, n, blind) /\ n \in {0} \cup Id
  BY <1>1 DEF Delete
<1>6. /\ Onward /\ created' = created /\ from' = from /\ expired' = expired
      /\ reported' = reported /\ fetched' = fetched
      /\ reported' \in [Reader -> {0} \cup Id]
  <2>1. \A r \in Reader : reported[r] \in Nat
    BY DEF Inv, TypeOK, Id
  <2>2. QED BY <2>1 DEF Delete, Onward, answerVars, Inv, TypeOK
<1>7. /\ c.rows \subseteq R.rows /\ n \notin c.rows /\ (n # 0 => n \in R.rows)
      /\ R.rows \ c.rows \subseteq expired \cup {n}
  <2>1. 0 \notin d.rows
    BY <1>3 DEF Document, Id
  <2>2. QED BY <2>1, <1>1, <1>3, <1>4
<1>8. \A r \in Reader : c.cursors[r] <= reported'[r]
  BY <1>2, <1>3, <1>4, <1>6 DEF DocOK
<1>9. \A k \in Id : \A r \in c.to[k] : k \in fetched'[r]
  BY <1>2, <1>3, <1>4, <1>6 DEF DocOK
<1>10. Grows(R, c)
  <2>1. \A r \in Reader : R.cursors[r] \in Nat
    BY <1>2 DEF Document, Id
  <2>2. \A k \in R.rows \cap c.rows : k \in Id /\ k \in S /\ k \in R.rows \ expired
    BY <1>1, <1>2, <1>3, <1>4 DEF Document
  <2>3. QED BY <2>1, <2>2, <1>3, <1>4 DEF Grows
<1>11. jobs' \in [Job -> JobState] /\ LogOK' /\ \A i \in Job : JobOK(i)'
  BY <1>2, <1>4, <1>5, <1>6, <1>7, <1>8, <1>9, <1>10, EditInv
<1>12. TypeOK'
  BY <1>6, <1>11 DEF Delete, Begin, CanRead, answerVars, Inv, TypeOK
<1>13. QED BY <1>11, <1>12 DEF Inv

\* A list keeps the invariant.
LEMMA ListInv ==
    ASSUME Inv, NEW j \in Job, NEW x \in Sender, NEW paired \in BOOLEAN, List(j, x, paired)
    PROVE  Inv'
<1>1. PICK d, c : d = Purge(store) /\ c = (IF x = Panel THEN d ELSE MarkDelivered(d, x, paired))
  OBVIOUS
<1>2. store \in Document /\ DocOK(store) /\ store.rows \subseteq acked
  BY DEF Inv, TypeOK, LogOK
<1>3. /\ d \in Document /\ d.rows = store.rows \ expired /\ d.cursors = store.cursors
      /\ \A k \in Id : d.to[k] = IF k \in store.rows \ expired THEN store.to[k] ELSE {}
  BY <1>1, <1>2, PurgeDoc
<1>4. /\ c \in Document /\ c.rows = d.rows /\ c.cursors = d.cursors
      /\ \A k \in Id : /\ d.to[k] \subseteq c.to[k]
                       /\ c.to[k] \subseteq d.to[k] \cup (IF k \in d.rows /\ x # Panel THEN {x} ELSE {})
  <2>1. CASE x = Panel
    BY <2>1, <1>1, <1>3
  <2>2. CASE x # Panel
    <3>1. x \in Reader /\ c = MarkDelivered(d, x, paired)
      BY <2>2, <1>1 DEF Sender
    <3>2. QED BY ONLY <2>2, <3>1, <1>3, MarkDoc
  <2>3. QED BY <2>1, <2>2
<1>5. /\ fetched' \in [Reader -> SUBSET Id]
      /\ \A r \in Reader : fetched[r] \subseteq fetched'[r]
      /\ x # Panel => d.rows \subseteq fetched'[x]
  <2>1. d.rows \subseteq Id /\ fetched \in [Reader -> SUBSET Id]
    BY <1>3 DEF Document, Inv, TypeOK
  <2>2. CASE x = Panel
    BY <2>1, <2>2 DEF List
  <2>3. CASE x # Panel
    <3>1. x \in Reader /\ fetched' = [fetched EXCEPT ![x] = @ \cup d.rows]
      BY <2>3, <1>1 DEF List, Sender
    <3>2. QED BY ONLY <2>1, <3>1
  <2>4. QED BY <2>2, <2>3
<1>6. /\ Onward /\ created' = created /\ from' = from /\ expired' = expired
      /\ reported' = reported /\ reported' \in [Reader -> {0} \cup Id]
  <2>1. \A r \in Reader : reported[r] \in Nat
    BY DEF Inv, TypeOK, Id
  <2>2. QED BY <2>1, <1>5 DEF List, Onward, answerVars, Inv, TypeOK
<1>7. \A r \in Reader : c.cursors[r] <= reported'[r]
  BY <1>2, <1>3, <1>4, <1>6 DEF DocOK
<1>8. \A k \in Id : \A r \in c.to[k] : k \in fetched'[r]
  <2>1. TAKE k \in Id
  <2>2. TAKE r \in c.to[k]
  <2>3. CASE r \in d.to[k]
    <3>1. r \in store.to[k] /\ r \in Reader
      BY <2>3, <1>2, <1>3 DEF Document
    <3>2. QED BY <3>1, <1>2, <1>5 DEF DocOK
  <2>4. CASE r \notin d.to[k]
    BY <2>4, <1>4, <1>5
  <2>5. QED BY <2>3, <2>4
<1>9. Grows(store, c)
  <2>1. \A r \in Reader : store.cursors[r] \in Nat
    BY <1>2 DEF Document, Id
  <2>2. \A k \in store.rows \cap c.rows : k \in Id /\ k \in store.rows \ expired
    BY <1>2, <1>3, <1>4 DEF Document
  <2>3. QED BY <2>1, <2>2, <1>3, <1>4 DEF Grows
<1>10. jobs' \in [Job -> JobState] /\ LogOK' /\ \A i \in Job : JobOK(i)'
  <2>1. CASE ToWrite(j, c, 0, 0, FALSE)
    <3>1. 0 \notin c.rows
      BY <1>4 DEF Document, Id
    <3>2. PICK R : R = store
      OBVIOUS
    <3>3. QED BY <2>1, <3>1, <3>2, <1>2, <1>3, <1>4, <1>6, <1>7, <1>8, <1>9, EditInv
  <2>2. CASE jobs' = jobs
    <3>1. \A m \in 1..created' : from'[m] \in Sender
      BY <1>6 DEF Inv, LogOK
    <3>2. QED BY <2>2, <3>1, <1>6, JobKept, LogKept DEF Inv, TypeOK
  <2>3. QED BY <2>1, <2>2, <1>1 DEF List
<1>11. TypeOK'
  BY <1>5, <1>6, <1>10 DEF List, Begin, answerVars, Inv, TypeOK
<1>12. QED BY <1>10, <1>11 DEF Inv

\* A read report keeps the invariant.
LEMMA MoveReadCursorInv ==
    ASSUME Inv, NEW j \in Job, NEW r \in Reader, NEW m \in Id, MoveReadCursor(j, r, m)
    PROVE  Inv'
<1>1. PICK d, c : d = Purge(store) /\ c = MoveCursor(d, r, m)
  OBVIOUS
<1>2. store \in Document /\ DocOK(store) /\ store.rows \subseteq acked
  BY DEF Inv, TypeOK, LogOK
<1>3. /\ d \in Document /\ d.rows = store.rows \ expired /\ d.cursors = store.cursors
      /\ \A k \in Id : d.to[k] = IF k \in store.rows \ expired THEN store.to[k] ELSE {}
  BY <1>1, <1>2, PurgeDoc
<1>4. /\ c \in Document /\ c.rows = d.rows /\ c.to = d.to
      /\ \A q \in Reader :
            \/ c.cursors[q] = d.cursors[q]
            \/ /\ q = r /\ c.cursors[q] = m /\ m \in d.rows
               /\ d.cursors[r] \notin d.rows \/ m >= d.cursors[r]
  BY ONLY <1>1, <1>3, MoveDoc
<1>5. /\ reported' \in [Reader -> {0} \cup Id]
      /\ \A q \in Reader : reported[q] <= reported'[q]
      /\ m <= reported'[r]
  <2>1. \A q \in Reader : reported[q] \in Nat
    BY DEF Inv, TypeOK, Id
  <2>2. /\ reported \in [Reader -> {0} \cup Id] /\ m \in Nat
        /\ reported' = [reported EXCEPT ![r] = IF m > @ THEN m ELSE @]
    BY DEF MoveReadCursor, Inv, TypeOK, Id
  <2>3. \A q \in Reader : reported'[q] = IF q = r /\ m > reported[r] THEN m ELSE reported[q]
    BY <2>2
  <2>4. reported' \in [Reader -> {0} \cup Id]
    BY <2>2
  <2>5. QED BY <2>1, <2>2, <2>3, <2>4
<1>6. Onward /\ created' = created /\ from' = from /\ expired' = expired /\ fetched' = fetched
  BY <1>5 DEF MoveReadCursor, Onward, answerVars, Inv, TypeOK
<1>7. \A q \in Reader : c.cursors[q] <= reported'[q]
  <2>1. \A q \in Reader : /\ store.cursors[q] <= reported[q] /\ store.cursors[q] \in Nat
                          /\ reported[q] \in Nat /\ reported'[q] \in Nat
    BY <1>2, <1>5 DEF DocOK, Document, Inv, TypeOK, Id
  <2>2. QED BY <2>1, <1>3, <1>4, <1>5
<1>8. \A k \in Id : \A q \in c.to[k] : k \in fetched'[q]
  BY <1>2, <1>3, <1>4, <1>6 DEF DocOK
<1>9. Grows(store, c)
  <2>1. m \in Nat /\ \A q \in Reader : store.cursors[q] \in Nat
    BY <1>2 DEF Document, Id
  <2>2. \A k \in store.rows \cap c.rows : k \in Id /\ k \in store.rows \ expired
    BY <1>2, <1>3, <1>4 DEF Document
  <2>3. \A k \in store.rows \cap c.rows : store.to[k] \subseteq c.to[k]
    BY <2>2, <1>3, <1>4
  <2>4. ASSUME NEW q \in Reader, store.cursors[q] \in store.rows \cap c.rows
        PROVE  c.cursors[q] >= store.cursors[q]
    <3>1. d.cursors[q] = store.cursors[q] /\ d.cursors[q] \in d.rows
      BY <2>4, <1>3, <1>4
    <3>2. CASE c.cursors[q] = d.cursors[q]
      BY <3>1, <3>2, <2>1
    <3>3. CASE q = r /\ c.cursors[q] = m /\ m >= d.cursors[r]
      BY <3>1, <3>3
    <3>4. QED BY <3>1, <3>2, <3>3, <1>4
  <2>5. QED BY <2>3, <2>4 DEF Grows
<1>10. jobs' \in [Job -> JobState] /\ LogOK' /\ \A i \in Job : JobOK(i)'
  <2>1. CASE ToWrite(j, c, 0, 0, FALSE)
    <3>1. 0 \notin c.rows
      BY <1>4 DEF Document, Id
    <3>2. PICK R : R = store
      OBVIOUS
    <3>3. QED BY <2>1, <3>1, <3>2, <1>2, <1>3, <1>4, <1>5, <1>6, <1>7, <1>8, <1>9, EditInv
  <2>2. CASE jobs' = jobs
    <3>1. \A k \in 1..created' : from'[k] \in Sender
      BY <1>6 DEF Inv, LogOK
    <3>2. QED BY <2>2, <3>1, <1>5, <1>6, JobKept, LogKept DEF Inv, TypeOK
  <2>3. QED BY <2>1, <2>2, <1>1 DEF MoveReadCursor
<1>11. TypeOK'
  BY <1>5, <1>6, <1>10 DEF MoveReadCursor, Begin, answerVars, Inv, TypeOK
<1>12. QED BY <1>10, <1>11 DEF Inv

\* The copy becomes the document; every other copy is stale now.
LEMMA WriteInv ==
    ASSUME Inv, NEW j \in Job, Write(j)
    PROVE  Inv'
<1>1. PICK c, m, n :
        /\ c = jobs[j].copy /\ m = jobs[j].adds /\ n = jobs[j].drops
        /\ c \in Document /\ m \in {0} \cup Id /\ n \in {0} \cup Id
  BY DEF Inv, TypeOK, JobState
<1>2. /\ DocOK(c) /\ m <= created /\ (n # 0 => n \in acked)
      /\ c.rows \subseteq acked \cup ({m} \ {0})
      /\ (~jobs[j].stale /\ ~torn => Follows(c.rows, m, n))
  BY <1>1 DEF Write, Inv, JobOK
<1>3. /\ store' = c /\ acked' = acked \cup ({m} \ {0}) /\ deleted' = deleted \cup ({n} \ {0})
      /\ torn' = (torn \/ jobs[j].stale)
      /\ status' = status /\ from' = from /\ created' = created /\ expired' = expired
      /\ fetched' = fetched /\ reported' = reported /\ boundVars' = boundVars
  BY <1>1 DEF Write, boundVars
<1>4. /\ jobs'[j] = Finished
      /\ \A i \in Job \ {j} : jobs'[i] = [jobs[i] EXCEPT !.stale = jobs[i].step = "write"]
      /\ jobs' \in [Job -> JobState]
  <2>1. Finished \in JobState
    BY EmptyDoc DEF Finished, JobState
  <2>2. jobs \in [Job -> JobState]
    BY DEF Inv, TypeOK
  <2>3. \A i \in Job : [jobs[i] EXCEPT !.stale = jobs[i].step = "write"] \in JobState
    BY <2>2 DEF JobState
  <2>4. QED BY <2>1, <2>3 DEF Write
<1>5. acked' \subseteq 1..created /\ deleted' \subseteq acked'
  <2>1. m = 0 \/ m \in 1..created
    BY <1>1, <1>2 DEF Id, Inv, TypeOK
  <2>2. QED BY <2>1, <1>2, <1>3 DEF Inv, LogOK
<1>6. TypeOK'
  <2>1. acked' \subseteq Id /\ deleted' \subseteq Id
    BY <1>1, <1>3 DEF Inv, TypeOK
  <2>2. Cardinality(store'.rows) <= MaxStored
    BY <1>2, <1>3 DEF DocOK
  <2>3. torn' \in BOOLEAN
    BY <1>1, <1>3 DEF Inv, TypeOK, JobState
  <2>4. requests' = requests /\ faults' = faults
    BY <1>3 DEF boundVars
  <2>5. QED BY <2>1, <2>2, <2>3, <2>4, <1>1, <1>3, <1>4 DEF Inv, TypeOK
<1>7. LogFaithful'
  <2>1. SUFFICES ASSUME ~torn'
                 PROVE  LogFaithful'
    BY DEF LogFaithful
  <2>2. Follows(c.rows, m, n)
    <3>1. torn \in BOOLEAN /\ jobs[j].stale \in BOOLEAN
      BY DEF Inv, TypeOK, JobState
    <3>2. QED BY <2>1, <3>1, <1>2, <1>3
  <2>3. c.rows \cap deleted' = {}
    BY <2>2, <1>3 DEF Follows
  <2>4. \A k \in acked' \ c.rows : \/ k \in deleted' \cup expired'
                                   \/ Cardinality({i \in acked' : i > k}) >= MaxStored
    <3>1. \A k \in acked' \ c.rows : k \in acked \ c.rows /\ k # 0
      BY <2>2, <1>3, <1>5 DEF Follows
    <3>2. QED BY <2>2, <3>1, <1>3 DEF Follows
  <2>5. QED BY <2>3, <2>4, <1>3 DEF LogFaithful
<1>8. DocOK(c)'
  BY <1>2, <1>3 DEF DocOK
<1>9. LogOK'
  <2>1. DocOK(store)'
    BY <1>8, <1>3 DEF DocOK
  <2>2. QED BY <2>1, <1>2, <1>3, <1>5, <1>7 DEF Inv, LogOK
<1>10. ASSUME NEW i \in Job
       PROVE  JobOK(i)'
  <2>1. CASE i = j
    BY <2>1, <1>4 DEF JobOK, Finished
  <2>2. CASE i # j /\ jobs[i].step = "write"
    <3>1. jobs[i] \in JobState /\ JobOK(i)
      BY DEF Inv, TypeOK
    <3>2. /\ jobs'[i].step = "write" /\ jobs'[i].stale /\ jobs'[i].copy = jobs[i].copy
          /\ jobs'[i].adds = jobs[i].adds /\ jobs'[i].drops = jobs[i].drops
      BY <2>2, <3>1, <1>4 DEF JobState
    <3>3. DocOK(jobs[i].copy)'
      BY <2>2, <3>1, <3>2, <1>3 DEF JobOK, DocOK
    <3>4. QED BY <2>2, <3>1, <3>2, <3>3, <1>3 DEF JobOK
  <2>3. CASE i # j /\ jobs[i].step # "write"
    <3>1. jobs'[i].step = jobs[i].step
      BY <2>3, <1>4 DEF Inv, TypeOK, JobState
    <3>2. QED BY <2>3, <3>1 DEF JobOK
  <2>4. QED BY <2>1, <2>2, <2>3
<1>11. QED BY <1>6, <1>9, <1>10 DEF Inv

\* A write that fails keeps the invariant.
LEMMA WriteFailsInv ==
    ASSUME Inv, NEW j \in Job, WriteFails(j)
    PROVE  Inv'
<1>1. Onward /\ reported' \in [Reader -> {0} \cup Id]
  <2>1. \A r \in Reader : reported[r] \in Nat
    BY DEF Inv, TypeOK, Id
  <2>2. QED BY <2>1 DEF WriteFails, Onward, answerVars, Inv, TypeOK
<1>2. jobs' \in [Job -> JobState] /\ jobs'[j] = Finished /\ \A i \in Job \ {j} : jobs'[i] = jobs[i]
  <2>1. Finished \in JobState
    BY EmptyDoc DEF Finished, JobState
  <2>2. QED BY <2>1 DEF WriteFails, Inv, TypeOK
<1>3. JobOK(j)'
  BY <1>2 DEF JobOK, Finished
<1>4. \A m \in 1..created' : from'[m] \in Sender
  BY DEF WriteFails, Inv, LogOK
<1>5. TypeOK'
  BY <1>2 DEF WriteFails, answerVars, Inv, TypeOK
<1>6. QED BY <1>1, <1>2, <1>3, <1>4, <1>5, JobKept, LogKept DEF Inv

-----------------------------------------------------------------------------
(* Around the chat *)

LEMMA AroundInv ==
    ASSUME Inv,
           \/ \E r \in Reader : Join(r) \/ Leave(r)
           \/ \E g \in Guest : Prune(g)
           \/ \E m \in Id : Expire(m)
           \/ UNCHANGED vars
    PROVE  Inv'
<1>1. /\ store' = store /\ from' = from /\ created' = created /\ jobs' = jobs
      /\ requests' = requests /\ faults' = faults /\ acked' = acked /\ deleted' = deleted
      /\ torn' = torn /\ fetched' = fetched /\ reported' = reported
      /\ expired \subseteq expired'
  BY DEF Join, Leave, Prune, Expire, vars, boundVars, answerVars
<1>2. status' \in [Reader -> Status] /\ expired' \subseteq Id
  BY DEF Join, Leave, Prune, Expire, vars, Inv, TypeOK, Status, Reader
<1>3. Onward /\ reported' \in [Reader -> {0} \cup Id]
  <2>1. \A r \in Reader : reported[r] \in Nat
    BY DEF Inv, TypeOK, Id
  <2>2. QED BY <2>1, <1>1 DEF Onward, Inv, TypeOK
<1>4. TypeOK'
  BY <1>1, <1>2 DEF Inv, TypeOK
<1>5. \A m \in 1..created' : from'[m] \in Sender
  BY <1>1 DEF Inv, LogOK
<1>6. QED BY <1>1, <1>3, <1>4, <1>5, JobKept, LogKept DEF Inv

-----------------------------------------------------------------------------
(* The theorems *)

LEMMA InitInv == Init => Inv
<1> SUFFICES ASSUME Init
             PROVE  Inv
  OBVIOUS
<1>1. Cardinality({}) = 0
  BY FS_EmptySet
<1>2. Finished \in JobState /\ Finished.step = "idle"
  BY EmptyDoc DEF Finished, JobState
<1>3. TypeOK
  <2>1. store \in Document /\ Cardinality(store.rows) <= MaxStored
    BY <1>1, EmptyDoc, BoundAssumption DEF Init
  <2>2. status \in [Reader -> Status] /\ from \in [Id -> Sender \cup {None}]
    BY DEF Init, Status
  <2>3. jobs \in [Job -> JobState] /\ fetched \in [Reader -> SUBSET Id]
    BY <1>2 DEF Init
  <2>4. reported \in [Reader -> {0} \cup Id] /\ created \in Nat /\ created <= MaxMessages
    BY BoundAssumption DEF Init
  <2>5. QED BY <2>1, <2>2, <2>3, <2>4 DEF Init, TypeOK
<1>4. DocOK(store)
  BY <1>1, EmptyDoc, BoundAssumption DEF Init, DocOK
<1>5. LogOK
  BY <1>4, EmptyDoc DEF Init, LogOK, LogFaithful
<1>6. \A j \in Job : JobOK(j)
  BY <1>2 DEF Init, JobOK
<1>7. QED BY <1>3, <1>5, <1>6 DEF Inv

\* Every step keeps the invariant.
LEMMA NextInv == Inv /\ [Next]_vars => Inv'
<1> SUFFICES ASSUME Inv, [Next]_vars
             PROVE  Inv'
  OBVIOUS
<1>1. ASSUME NEW j \in Job, Request(j)
      PROVE  Inv'
  <2>1. ASSUME NEW x \in Sender, NEW blind \in BOOLEAN, Post(j, x, blind)
        PROVE  Inv'
    BY <2>1, PostInv
  <2>2. ASSUME NEW x \in Sender, NEW blind \in BOOLEAN, NEW m \in Id, Delete(j, x, m, blind)
        PROVE  Inv'
    BY <2>2, DeleteInv
  <2>3. ASSUME NEW x \in Sender, NEW paired \in BOOLEAN, List(j, x, paired)
        PROVE  Inv'
    BY <2>3, ListInv
  <2>4. ASSUME NEW r \in Reader, NEW m \in Id, MoveReadCursor(j, r, m)
        PROVE  Inv'
    BY <2>4, MoveReadCursorInv
  <2>5. QED BY <1>1, <2>1, <2>2, <2>3, <2>4 DEF Request
<1>2. ASSUME NEW j \in Job, Write(j)
      PROVE  Inv'
  BY <1>2, WriteInv
<1>3. ASSUME NEW j \in Job, WriteFails(j)
      PROVE  Inv'
  BY <1>3, WriteFailsInv
<1>4. QED BY <1>1, <1>2, <1>3, AroundInv DEF Next

\* The invariant the other theorems are read from: chat.py's document and every
\* copy of it a request works on.
THEOREM InvHolds == Spec => []Inv
BY InitInv, NextInv, PTL DEF Spec

\* Every document is well formed, and never longer than MaxStored (_MAX_STORED).
THEOREM TypeCorrect == Spec => []TypeOK
<1>1. Inv => TypeOK
  BY DEF Inv
<1>2. QED BY <1>1, InvHolds, PTL

\* Chat requests that do not overlap lose no acknowledged message and bring no
\* deleted one back.
THEOREM LogIsFaithful == Spec => []LogFaithful
<1>1. Inv => LogFaithful
  BY DEF Inv, LogOK
<1>2. QED BY <1>1, InvHolds, PTL

\* Whoever counts as a reader is known by name: an active reader's key is the person.
LEMMA KeyIsPerson ==
    ASSUME Inv, NEW d, NEW k \in ActiveKeys(d), NEW x \in Sender, Canon(d, x) = k
    PROVE  Person(x) = k
<1>1. PICK r \in Reader : status[r] = "active" /\ Canon(d, r) = k
  BY DEF ActiveKeys
<1>2. Person(r) = k
  BY <1>1 DEF Canon, Known, Person
<1>3. CASE Canon(d, x) = Person(x)
  BY <1>3
<1>4. CASE Canon(d, x) # Person(x)
  <2>1. x \in Guest /\ k = x
    BY <1>4 DEF Canon, Person
  <2>2. Person(r) = r \/ Person(r) \in Principal
    BY PrincipalAssumption DEF Person
  <2>3. r = x
    BY <2>1, <2>2, <1>2, NameAssumption DEF Reader
  <2>4. QED BY <2>3, <1>2
<1>5. QED BY <1>3, <1>4

\* Receipts are honest: chat.py never counts a person's own message as read by or
\* delivered to them, across invitations and pruned rows, and every receipt is owed
\* to a report or a list of that person.
THEOREM HonestReceipts == Spec => []ReceiptsHonest
<1>1. Inv => ReceiptsHonest
  <2> SUFFICES ASSUME Inv, NEW m \in store.rows
               PROVE  /\ Person(from[m]) \notin ReadBy(store, m) \cup DeliveredTo(store, m)
                      /\ \A k \in ReadBy(store, m) :
                            \E r \in Reader : Person(r) = k /\ reported[r] >= m
                      /\ \A k \in DeliveredTo(store, m) :
                            \E r \in Reader : Person(r) = k /\ m \in fetched[r]
    BY DEF ReceiptsHonest
  <2>1. /\ m \in Id /\ from[m] \in Sender
        /\ store \in Document /\ DocOK(store)
    BY DEF Inv, LogOK, TypeOK, Document, DocOK
  <2>2. Canon(store, from[m]) = Person(from[m])
    BY DEF Canon, Known, Person
  <2>3. Person(from[m]) \notin ReadBy(store, m) \cup DeliveredTo(store, m)
    BY <2>2 DEF ReadBy, DeliveredTo, Others
  <2>4. ASSUME NEW k \in ReadBy(store, m)
        PROVE  \E r \in Reader : Person(r) = k /\ reported[r] >= m
    <3>1. PICK r \in Reader : Canon(store, r) = k /\ store.cursors[r] >= m
      BY DEF ReadBy
    <3>2. Person(r) = k
      BY <3>1, KeyIsPerson DEF ReadBy, Others, Sender
    <3>3. /\ store.cursors[r] \in Nat /\ reported[r] \in Nat /\ m \in Nat
          /\ store.cursors[r] <= reported[r]
      BY <2>1 DEF DocOK, Document, Inv, TypeOK, Id
    <3>4. QED BY <3>1, <3>2, <3>3
  <2>5. ASSUME NEW k \in DeliveredTo(store, m)
        PROVE  \E r \in Reader : Person(r) = k /\ m \in fetched[r]
    <3>1. PICK r \in store.to[m] : Canon(store, r) = k
      BY DEF DeliveredTo
    <3>2. r \in Reader /\ m \in fetched[r]
      BY <2>1, <3>1 DEF Document, DocOK
    <3>3. Person(r) = k
      BY <3>1, <3>2, KeyIsPerson DEF DeliveredTo, Others, Sender
    <3>4. QED BY <3>2, <3>3
  <2>6. QED BY <2>3, <2>4, <2>5
<1>2. QED BY <1>1, InvHolds, PTL

\* As long as chat requests do not overlap, a read cursor never goes back while its
\* message stands, and no delivery mark is lost.
THEOREM MarksGrow == Spec => MarksOnlyGrow
<1> DEFINE Step ==
      ~torn' =>
         /\ \A r \in Reader : store.cursors[r] \in store.rows \cap store'.rows
                                => store'.cursors[r] >= store.cursors[r]
         /\ \A m \in store.rows \cap store'.rows : store.to[m] \subseteq store'.to[m]
<1>1. Inv /\ [Next]_vars => [Step]_vars
  <2> SUFFICES ASSUME Inv, Next, ~torn'
               PROVE  /\ \A r \in Reader : store.cursors[r] \in store.rows \cap store'.rows
                                             => store'.cursors[r] >= store.cursors[r]
                      /\ \A m \in store.rows \cap store'.rows : store.to[m] \subseteq store'.to[m]
    OBVIOUS
  <2>1. CASE store' = store
    <3>1. \A r \in Reader : store.cursors[r] \in Nat
      BY DEF Inv, TypeOK, Document, Id
    <3>2. QED BY <2>1, <3>1
  <2>2. ASSUME NEW j \in Job, Write(j)
        PROVE  Grows(store, store')
    <3>1. ~jobs[j].stale /\ store' = jobs[j].copy
      BY <2>2 DEF Write
    <3>2. QED BY <2>2, <3>1 DEF Write, Inv, JobOK
  <2>3. store' = store \/ \E j \in Job : Write(j)
    BY DEF Next, Request, Post, List, Delete, MoveReadCursor, WriteFails, Join, Leave,
           Prune, Expire
  <2>4. QED BY <2>1, <2>2, <2>3 DEF Grows
<1>2. QED BY <1>1, InvHolds, PTL DEF Spec, MarksOnlyGrow

=============================================================================
