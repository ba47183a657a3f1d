-------------------------------- MODULE Chat --------------------------------
(***************************************************************************)
(* The house chat: a log of at most MaxStored messages kept in chat.json   *)
(* with the read cursor of each reader, the delivery marks of each         *)
(* message, and the receipts the list shows from them.                     *)
(*                                                                         *)
(* Every request reads the whole document, changes its copy and writes the *)
(* copy back, and no lock is held in between: handlers run in executor     *)
(* threads, and the owners' GET on the event loop.  So a request is a job  *)
(* of two actions, the read with all the work on the copy, and the write.  *)
(* A request that has nothing to change ends with its read.                *)
(*                                                                         *)
(* The status of phones and guests is read a moment after the document; no *)
(* write of the document depends on it in between, so the model reads both *)
(* at once.  Message ids are numbered by the reads of their posts, which   *)
(* is the order any document keeps them in.  A restart loses the jobs, as  *)
(* WriteFails does.  Text, images, labels and the push of a new message    *)
(* are left out.                                                           *)
(***************************************************************************)
EXTENDS Naturals, FiniteSets

CONSTANTS
    Phone,        \* paired owner phones: ios:<clientId>
    Guest,        \* member ids: member:<memberId>
    Principal,    \* backend principals
    PrincipalOf,  \* the principal of each guest's row, or None
    Panel,        \* anyone with the house's login who is no paired phone
    Job,          \* requests running at a time
    None,
    MaxStored,    \* _MAX_STORED
    MaxMessages,  \* bound on posts
    MaxRequests,  \* bound on requests and faults together
    MaxFaults     \* bound on unreadable documents and failing writes

Reader == Phone \cup Guest
Sender == Reader \cup {Panel}
Id == 1..MaxMessages
Status == {"new", "active", "ended", "gone"}

ASSUME PrincipalAssumption == PrincipalOf \in [Guest -> Principal \cup {None}]
ASSUME NameAssumption ==
    /\ Phone \cap Guest = {} /\ Principal \cap Reader = {}
    /\ Panel \notin Reader \cup Principal
    /\ None \notin Principal \cup Sender
ASSUME BoundAssumption ==
    /\ MaxStored \in Nat \ {0} /\ MaxMessages \in Nat
    /\ MaxRequests \in Nat /\ MaxFaults \in Nat

VARIABLES
    store,     \* chat.json
    status,    \* of a phone among the clients, of a guest among the members
    from,      \* the sender of each message
    created,   \* messages posted so far
    expired,   \* messages past their expiresAt
    jobs,      \* requests
    requests, faults,   \* counters for the bounds
    acked,     \* history: messages whose post was answered 201
    deleted,   \* history: messages whose delete was answered 200
    fetched,   \* history: the messages a list showed each reader
    reported,  \* history: the newest message each reader said it has read
    torn       \* history: a document was written that was not made from the
               \* one it replaced

boundVars == <<requests, faults>>
answerVars == <<acked, deleted, torn>>
vars == <<store, status, from, created, expired, jobs, boundVars, answerVars,
          fetched, reported>>

\* rows: messages.  to: deliveredClientIds.  cursors: readCursors, 0 for none.
Document == [rows : SUBSET Id, to : [Id -> SUBSET Reader], cursors : [Reader -> {0} \cup Id]]
Empty == [rows |-> {}, to |-> [m \in Id |-> {}], cursors |-> [r \in Reader |-> 0]]

\* adds, drops: the message a post adds or a delete found, or 0.  stale: history,
\* the copy is not of the document that stands there now.
JobState == [step : {"idle", "write"}, copy : Document, adds : {0} \cup Id,
             drops : {0} \cup Id, stale : BOOLEAN]
Finished == [step |-> "idle", copy |-> Empty, adds |-> 0, drops |-> 0, stale |-> FALSE]

TypeOK ==
    /\ store \in Document
    /\ Cardinality(store.rows) <= MaxStored
    /\ status \in [Reader -> Status]
    /\ from \in [Id -> Sender \cup {None}]
    /\ created \in Nat /\ created <= MaxMessages
    /\ expired \subseteq Id
    /\ jobs \in [Job -> JobState]
    /\ requests \in Nat /\ faults \in Nat
    /\ acked \subseteq Id /\ deleted \subseteq Id
    /\ fetched \in [Reader -> SUBSET Id]
    /\ reported \in [Reader -> {0} \cup Id]
    /\ torn \in BOOLEAN

Init ==
    /\ store = Empty
    /\ status = [r \in Reader |-> "new"]
    /\ from = [m \in Id |-> None]
    /\ created = 0 /\ expired = {}
    /\ jobs = [j \in Job |-> Finished]
    /\ requests = 0 /\ faults = 0
    /\ acked = {} /\ deleted = {}
    /\ fetched = [r \in Reader |-> {}]
    /\ reported = [r \in Reader |-> 0]
    /\ torn = FALSE

-----------------------------------------------------------------------------
(* People and receipts *)

\* Seeded fault (each Fault... definition is a bug a property must notice):
\* messages do not carry their sender's principal.
FaultKnown(d, g) == status[g] # "gone"

\* The principal of a guest is known while the guest's row is in members.json or
\* a message of the guest, which carries it, is in the document.
Known(d, g) == status[g] # "gone" \/ \E m \in d.rows : from[m] = g

Canon(d, x) ==
    IF x \in Guest /\ PrincipalOf[x] # None /\ Known(d, x) THEN PrincipalOf[x] ELSE x

ActiveKeys(d) == {Canon(d, r) : r \in {r \in Reader : status[r] = "active"}}

Others(d, m) == ActiveKeys(d) \ {Canon(d, from[m])}

ReadBy(d, m) ==
    {k \in Others(d, m) : \E r \in Reader : /\ Canon(d, r) = k
                                            /\ d.cursors[r] \in d.rows
                                            /\ d.cursors[r] >= m}

DeliveredTo(d, m) == {k \in Others(d, m) : \E r \in d.to[m] : Canon(d, r) = k}

-----------------------------------------------------------------------------
(* What the requests do to their copy *)

Keep(d, S) ==
    [rows |-> S, to |-> [m \in Id |-> IF m \in S THEN d.to[m] ELSE {}], cursors |-> d.cursors]

Purge(d) == Keep(d, d.rows \ expired)

\* Seeded fault: the log is cut at the wrong end.
FaultWrongEnd(S) == {m \in S : Cardinality({n \in S : n < m}) < MaxStored}

\* rows[-_MAX_STORED:]
Newest(S) == {m \in S : Cardinality({n \in S : n > m}) < MaxStored}

\* Every message of the copy the reader did not send is delivered to it.  Who sent
\* it is asked by principal only of a guest without an active client row; a request
\* with one (paired) is marked by its own id, a guest's too, so that a person's
\* messages under an earlier invitation are marked for the later one.
MarkDelivered(d, r, paired) ==
    LET Own(m) == IF paired THEN from[m] = r ELSE Canon(d, from[m]) = Canon(d, r)
    IN  [d EXCEPT !.to = [m \in Id |-> IF m \in d.rows /\ ~Own(m) THEN d.to[m] \cup {r}
                                                                  ELSE d.to[m]]]

\* Seeded fault: an older id moves the cursor back.
FaultMoveCursor(d, r, m) == IF m \in d.rows THEN [d EXCEPT !.cursors[r] = m] ELSE d

MoveCursor(d, r, m) ==
    IF m \in d.rows /\ (d.cursors[r] \notin d.rows \/ m >= d.cursors[r])
      THEN [d EXCEPT !.cursors[r] = m] ELSE d

-----------------------------------------------------------------------------
(* Requests: the read, and the work on the copy *)

\* A phone counts by its row at that moment; a guest's token was good a moment ago.
MayCall(x) ==
    \/ x = Panel
    \/ x \in Phone /\ status[x] = "active"
    \/ x \in Guest /\ status[x] \in {"active", "ended"}

Begin(j) ==
    /\ jobs[j].step = "idle"
    /\ requests + faults < MaxRequests
    /\ requests' = requests + 1

\* A document that cannot be read counts as empty.  A list or a read report finds
\* nothing to change then; a post or a delete writes what it makes of it.
CanRead(blind) ==
    /\ blind => faults < MaxFaults /\ requests + faults + 1 < MaxRequests
    /\ faults' = IF blind THEN faults + 1 ELSE faults

Read(blind) == IF blind THEN Empty ELSE store

ToWrite(j, d, m, n, blind) ==
    jobs' = [jobs EXCEPT ![j] = [step |-> "write", copy |-> d, adds |-> m, drops |-> n,
                                 stale |-> blind]]

\* POST: always written.
Post(j, x, blind) ==
    /\ Begin(j) /\ CanRead(blind)
    /\ MayCall(x)
    /\ created < MaxMessages
    /\ created' = created + 1
    /\ from' = [from EXCEPT ![created + 1] = x]
    /\ LET d == Purge(Read(blind))
           S == Newest(d.rows \cup {created + 1})
       IN  ToWrite(j, Keep(d, S), created + 1, 0, blind)
    /\ UNCHANGED <<store, status, expired, answerVars, fetched, reported>>

\* DELETE, by the panel or a phone: always written, found or not.
Delete(j, x, m, blind) ==
    /\ Begin(j) /\ CanRead(blind)
    /\ MayCall(x) /\ x \notin Guest
    /\ m <= created
    /\ LET d == Purge(Read(blind))
       IN  ToWrite(j, Keep(d, d.rows \ {m}), 0, IF m \in d.rows THEN m ELSE 0, blind)
    /\ UNCHANGED <<store, status, from, created, expired, answerVars, fetched, reported>>

\* GET: written when something expired or was delivered.  Panel: nothing is
\* marked, as in the GET of an image.  A guest's client row, m_<memberId>, is made
\* active by the authentication just before, unless that failed, the panel unpaired
\* it or another write of the clients dropped it.
List(j, x, paired) ==
    /\ Begin(j)
    /\ MayCall(x)
    /\ x \in Phone => paired
    /\ LET d == Purge(store)
           c == IF x = Panel THEN d ELSE MarkDelivered(d, x, paired)
       IN  /\ IF c = store THEN UNCHANGED jobs ELSE ToWrite(j, c, 0, 0, FALSE)
           /\ fetched' = IF x = Panel THEN fetched
                                      ELSE [fetched EXCEPT ![x] = @ \cup d.rows]
    /\ UNCHANGED <<store, status, from, created, expired, faults, answerVars, reported>>

\* POST /chat/read, with any id: its message may be gone, or never have been stored.
MoveReadCursor(j, r, m) ==
    /\ Begin(j)
    /\ MayCall(r)
    /\ m <= created
    /\ LET c == MoveCursor(Purge(store), r, m)
       IN  IF m \in store.rows /\ c # store THEN ToWrite(j, c, 0, 0, FALSE)
                                            ELSE UNCHANGED jobs
    /\ reported' = [reported EXCEPT ![r] = IF m > @ THEN m ELSE @]
    /\ UNCHANGED <<store, status, from, created, expired, faults, answerVars, fetched>>

-----------------------------------------------------------------------------
(* Requests: the write and the answer *)

Write(j) ==
    /\ jobs[j].step = "write"
    /\ store' = jobs[j].copy
    /\ jobs' = [i \in Job |-> IF i = j THEN Finished
                              ELSE [jobs[i] EXCEPT !.stale = jobs[i].step = "write"]]
    /\ acked' = acked \cup ({jobs[j].adds} \ {0})
    /\ deleted' = deleted \cup ({jobs[j].drops} \ {0})
    /\ torn' = (torn \/ jobs[j].stale)
    /\ UNCHANGED <<status, from, created, expired, boundVars, fetched, reported>>

\* Answered 500; the document is as it was.
WriteFails(j) ==
    /\ jobs[j].step = "write"
    /\ faults < MaxFaults /\ requests + faults < MaxRequests
    /\ faults' = faults + 1
    /\ jobs' = [jobs EXCEPT ![j] = Finished]
    /\ UNCHANGED <<store, status, from, created, expired, requests, answerVars,
                   fetched, reported>>

-----------------------------------------------------------------------------
(* Around the chat *)

\* A phone is paired; a guest's token is used for the first time.
Join(r) ==
    /\ status[r] = "new"
    /\ status' = [status EXCEPT ![r] = "active"]
    /\ UNCHANGED <<store, from, created, expired, jobs, boundVars, answerVars,
                   fetched, reported>>

\* A phone is unpaired; a guest is revoked or expires.
Leave(r) ==
    /\ status[r] = "active"
    /\ status' = [status EXCEPT ![r] = "ended"]
    /\ UNCHANGED <<store, from, created, expired, jobs, boundVars, answerVars,
                   fetched, reported>>

\* A guest's row leaves members.json, 30 days after its end.
Prune(g) ==
    /\ status[g] = "ended"
    /\ status' = [status EXCEPT ![g] = "gone"]
    /\ UNCHANGED <<store, from, created, expired, jobs, boundVars, answerVars,
                   fetched, reported>>

\* A message that was not posted to be kept reaches its expiresAt.
Expire(m) ==
    /\ m <= created /\ m \notin expired
    /\ expired' = expired \cup {m}
    /\ UNCHANGED <<store, status, from, created, jobs, boundVars, answerVars,
                   fetched, reported>>

Request(j) ==
    \/ \E x \in Sender, blind \in BOOLEAN :
          \/ Post(j, x, blind)
          \/ \E m \in Id : Delete(j, x, m, blind)
    \/ \E x \in Sender, paired \in BOOLEAN : List(j, x, paired)
    \/ \E r \in Reader, m \in Id : MoveReadCursor(j, r, m)

Next ==
    \/ \E j \in Job : Request(j) \/ Write(j) \/ WriteFails(j)
    \/ \E r \in Reader : Join(r) \/ Leave(r)
    \/ \E g \in Guest : Prune(g)
    \/ \E m \in Id : Expire(m)

Spec == Init /\ [][Next]_vars

-----------------------------------------------------------------------------
(* Properties *)

\* Who a sender or reader is, whatever the house still knows about them.
Person(x) == IF x \in Guest /\ PrincipalOf[x] # None THEN PrincipalOf[x] ELSE x

\* Nobody's own message counts as read by or delivered to them, not under an
\* earlier invitation either, and every receipt is owed to somebody: a reader of
\* that person said it read as far, or was shown the message.
ReceiptsHonest ==
    \A m \in store.rows :
        /\ Person(from[m]) \notin ReadBy(store, m) \cup DeliveredTo(store, m)
        /\ \A k \in ReadBy(store, m) : \E r \in Reader : Person(r) = k /\ reported[r] >= m
        /\ \A k \in DeliveredTo(store, m) : \E r \in Reader : Person(r) = k /\ m \in fetched[r]

\* As long as no write went over another's (and the document could be read): a
\* message answered 201 stays until it is deleted, expires or MaxStored newer
\* ones were stored, and a deleted message does not come back.
LogFaithful ==
    torn \/ /\ store.rows \cap deleted = {}
            /\ \A m \in acked \ store.rows :
                  \/ m \in deleted \cup expired
                  \/ Cardinality({n \in acked : n > m}) >= MaxStored

\* As long as no write went over another's: a cursor only moves forward while its
\* message stands ("Cursor is per client and monotonic"), and a message keeps its
\* delivery marks.
MarksOnlyGrow ==
    [][~torn' =>
         /\ \A r \in Reader : store.cursors[r] \in store.rows \cap store'.rows
                                => store'.cursors[r] >= store.cursors[r]
         /\ \A m \in store.rows \cap store'.rows : store.to[m] \subseteq store'.to[m]]_vars

\* While the document stays as it is, whoever remains a reader keeps its receipts
\* ("Read/Delivered never drop: cursors/delivery carry to the principal").
\* The code does not keep this (README, Findings).
ReceiptsCarryOver ==
    [][store' = store =>
         \A m \in store.rows :
             /\ ReadBy(store, m) \cap ActiveKeys(store)' \subseteq ReadBy(store, m)'
             /\ DeliveredTo(store, m) \cap ActiveKeys(store)' \subseteq DeliveredTo(store, m)']_vars

=============================================================================
