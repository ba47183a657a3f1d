------------------------------ MODULE HouseDocs ------------------------------
(***************************************************************************)
(* The notepad and the call list of the house, and the log of what members *)
(* wrote.                                                                  *)
(*                                                                         *)
(* Members write notes.json and contacts.json in executor threads, each    *)
(* under a lock: a request reads the document in one step and writes it in *)
(* a later one.  The owner's PUT runs on the loop in one section and takes *)
(* no lock; the Supervisor add-on, another process, truncates the file and *)
(* fills it in place.  A truncated file reads as an empty one, and is      *)
(* represented so.  A member's save of the notepad may name what it        *)
(* replaces, by its time (in seconds) or by its ETag.                      *)
(*                                                                         *)
(* After its write a member's request appends a row to the write log in    *)
(* ios_session.json, under STORE_LOCK; every authentication upserts the    *)
(* client's row there, whole and without that lock.                        *)
(*                                                                         *)
(* Requests are numbered, and a text is the number of the request that     *)
(* wrote it.  A call-list row is its id and its app; its other fields go   *)
(* with it.  Left out: the order and the cut of a list that is too long,   *)
(* the sealing of bodies (PqShield), authentication (MemberAccess).        *)
(***************************************************************************)
EXTENDS Naturals, Sequences, FiniteSets, SequencesExt

CONSTANTS
    Job,          \* member requests running at a time
    Contact,      \* ids of call-list rows
    None,
    MaxContacts,  \* MAX_CONTACTS
    LogMax,       \* WRITE_LOG_MAX
    MaxRequests,  \* bound on requests
    MaxTime,      \* bound on the clock
    MaxFaults     \* bound on restarts, failed writes and damage

ASSUME NoneAssumption == None \notin Job \cup Contact \cup Nat
ASSUME BoundAssumption == /\ MaxContacts \in Nat \ {0} /\ LogMax \in Nat \ {0}
                          /\ MaxRequests \in Nat /\ MaxTime \in Nat /\ MaxFaults \in Nat

VARIABLES
    notes,      \* notes.json
    contacts,   \* contacts.json
    log,        \* ios_session.json: memberWriteLog
    unreadable, \* ios_session.json does not parse
    jobs,       \* the members' requests
    touch,      \* an upsert of a client row: the log as it read it, or None
    addon,      \* the add-on's request
    now, requests, faults,
    landed,     \* history: requests of members whose document was written
    recorded,   \* history: the rows put in the log, in order
    excused     \* history: requests whose row was not written, or was overwritten

docs == <<notes, contacts>>
logVars == <<log, unreadable, touch>>
historyVars == <<landed, recorded, excused>>
vars == <<docs, logVars, jobs, addon, now, requests, faults, historyVars>>

Note == [text : 0..MaxRequests, at : 0..MaxTime \cup {None}]
NoNote == [text |-> 0, at |-> None]

\* "telegram" has the method cellular; a row without an app (None) comes from a phone that
\* only knows methods.
App == {"cellular", "telegram"}
Lists(S) == UNION {[D -> S] : D \in SUBSET Contact}
NoContacts == [c \in {} |-> None]

\* sent   the request waits for its document's lock    write    it holds it and has read
\* log    it has written and waits for STORE_LOCK      logging  it holds that and has read
Step == {"idle", "sent", "write", "log", "logging"}
Kind == {"note", "add", "patch", "delete", "replace"}

\* How a save of the notepad names what it replaces: not, by ifMatch null, by updatedAt, by ETag.
Match == {"absent", "null", "at", "etag"}

\* saw: the note its author fetched.  c, app, list: the row and the list of a call-list
\* request.  rows, rowLog: the document, or the log, as read.
\* History: overtaken, the document changed under the lock.
JobState == [step : Step, kind : Kind, num : 0..MaxRequests, match : Match, saw : Note,
             c : Contact \cup {None}, app : App, list : Lists(App \cup {None}),
             rows : Lists(App), rowLog : Seq(1..MaxRequests), overtaken : BOOLEAN]
Idle == [step |-> "idle", kind |-> "note", num |-> 0, match |-> "absent", saw |-> NoNote,
         c |-> None, app |-> "cellular", list |-> NoContacts, rows |-> NoContacts,
         rowLog |-> <<>>, overtaken |-> FALSE]

\* open: the file is as it was.  fill: it is truncated.  stray: it was replaced meanwhile,
\* what the add-on writes reaches nobody.
AddonIdle == [step |-> "idle", doc |-> "notes", note |-> NoNote, list |-> NoContacts]
AddonState == [step : {"idle", "open", "fill", "stray"}, doc : {"notes", "contacts"},
               note : Note, list : Lists(App)]

TypeOK ==
    /\ notes \in Note /\ contacts \in Lists(App)
    /\ log \in Seq(1..MaxRequests) /\ Len(log) <= LogMax
    /\ unreadable \in BOOLEAN
    /\ jobs \in [Job -> JobState]
    /\ addon \in AddonState
    /\ now \in 0..MaxTime /\ requests \in 0..MaxRequests /\ faults \in 0..MaxFaults
    /\ landed \subseteq 1..MaxRequests /\ ToSet(recorded) \subseteq landed

Init ==
    /\ notes = NoNote /\ contacts = NoContacts
    /\ log = <<>> /\ unreadable = FALSE /\ touch = None
    /\ jobs = [j \in Job |-> Idle] /\ addon = AddonIdle
    /\ now = 0 /\ requests = 0 /\ faults = 0
    /\ landed = {} /\ recorded = <<>> /\ excused = {}

At(j, s) == jobs[j].step = s
End(j) == jobs' = [jobs EXCEPT ![j] = Idle]
Request == requests < MaxRequests /\ requests' = requests + 1
Fault == faults < MaxFaults /\ faults' = faults + 1

OnNotes(j) == jobs[j].kind = "note"

\* A document changed: the requests that have read it are overtaken, ...
Overtaken(onNotes) ==
    [j \in Job |-> IF At(j, "write") /\ OnNotes(j) = onNotes
                   THEN [jobs[j] EXCEPT !.overtaken = TRUE] ELSE jobs[j]]

\* ... and the file the add-on has truncated is replaced.
Replaced(doc) == IF addon.step = "fill" /\ addon.doc = doc THEN [addon EXCEPT !.step = "stray"]
                                                           ELSE addon

Tick == /\ now < MaxTime
        /\ now' = now + 1
        /\ UNCHANGED <<docs, logVars, jobs, addon, requests, faults, historyVars>>

-----------------------------------------------------------------------------
(* The notepad *)

\* A member fetched the note and sends a new text.
NoteBegin(j) ==
    /\ At(j, "idle") /\ Request
    /\ \E m \in Match :
         jobs' = [jobs EXCEPT ![j] = [Idle EXCEPT !.step = "sent", !.num = requests + 1,
                                                  !.match = m, !.saw = notes]]
    /\ UNCHANGED <<docs, logVars, addon, now, faults, historyVars>>

\* Seeded fault (each Fault... definition is a bug a property must notice): a time is not
\* compared.
FaultConflict(j) == jobs[j].match = "etag" /\ notes # jobs[j].saw

\* save_notes_checked: updatedAt or the ETag must be the note's; no ifMatch and null pass.
Conflict(j) == \/ jobs[j].match = "at" /\ notes.at # jobs[j].saw.at
               \/ jobs[j].match = "etag" /\ notes # jobs[j].saw

NotesFree == \A j \in Job : ~(At(j, "write") /\ OnNotes(j))

NoteRead(j) ==
    /\ At(j, "sent") /\ OnNotes(j) /\ NotesFree
    /\ IF Conflict(j) THEN End(j) ELSE jobs' = [jobs EXCEPT ![j].step = "write"]
    /\ UNCHANGED <<docs, logVars, addon, now, requests, faults, historyVars>>

NoteWrite(j) ==
    /\ At(j, "write") /\ OnNotes(j)
    /\ notes' = [text |-> jobs[j].num, at |-> now]
    /\ addon' = Replaced("notes")
    /\ landed' = landed \cup {jobs[j].num}
    /\ jobs' = [jobs EXCEPT ![j].step = "log"]
    /\ UNCHANGED <<contacts, logVars, now, requests, faults, recorded, excused>>

\* The owner's PUT: the last write wins.
OwnerNote ==
    /\ Request
    /\ notes' = [text |-> requests + 1, at |-> now]
    /\ addon' = Replaced("notes")
    /\ jobs' = Overtaken(TRUE)
    /\ UNCHANGED <<contacts, logVars, now, faults, historyVars>>

-----------------------------------------------------------------------------
(* The call list *)

\* keep_stored_apps: a row without an app keeps the stored one, if that has the method the
\* row names.  Both apps here have the method cellular, and so does the row; naming another
\* method replaces the app, as a row with an app does.
Kept(list, stored) ==
    [c \in DOMAIN list |-> IF list[c] # None THEN list[c]
                           ELSE IF c \in DOMAIN stored THEN stored[c] ELSE "cellular"]

\* A member adds a row, changes the app of one, deletes one or replaces the list.
ContactsBegin(j) ==
    /\ At(j, "idle") /\ Request
    /\ \E k \in Kind \ {"note"}, c \in Contact \cup {None}, app \in App,
          list \in Lists(App \cup {None}) :
         /\ IF k = "replace" THEN c = None ELSE c # None /\ list = NoContacts
         /\ k \notin {"add", "patch"} => app = "cellular"
         /\ Cardinality(DOMAIN list) <= MaxContacts
         /\ jobs' = [jobs EXCEPT ![j] = [Idle EXCEPT !.step = "sent", !.num = requests + 1,
                                            !.kind = k, !.c = c, !.app = app, !.list = list]]
    /\ UNCHANGED <<docs, logVars, addon, now, faults, historyVars>>

\* too_many, and contact_not_found; the id of an added row is new.
Refused(s, rows) ==
    \/ s.kind = "add" /\ (s.c \in DOMAIN rows \/ Cardinality(DOMAIN rows) >= MaxContacts)
    \/ s.kind \in {"patch", "delete"} /\ s.c \notin DOMAIN rows

\* What the request makes of the rows it read.
Applied(s, rows) ==
    CASE s.kind \in {"add", "patch"} ->
            [c \in DOMAIN rows \cup {s.c} |-> IF c = s.c THEN s.app ELSE rows[c]]
      [] s.kind = "delete" -> [c \in DOMAIN rows \ {s.c} |-> rows[c]]
      [] OTHER -> Kept(s.list, rows)

\* Seeded fault: the lock is not taken.
FaultContactsFree == TRUE

ContactsFree == \A j \in Job : ~(At(j, "write") /\ ~OnNotes(j))

ContactsRead(j) ==
    /\ At(j, "sent") /\ ~OnNotes(j) /\ ContactsFree
    /\ IF Refused(jobs[j], contacts) THEN End(j)
       ELSE jobs' = [jobs EXCEPT ![j].step = "write", ![j].rows = contacts]
    /\ UNCHANGED <<docs, logVars, addon, now, requests, faults, historyVars>>

ContactsWrite(j) ==
    /\ At(j, "write") /\ ~OnNotes(j)
    /\ contacts' = Applied(jobs[j], jobs[j].rows)
    /\ addon' = Replaced("contacts")
    /\ landed' = landed \cup {jobs[j].num}
    /\ jobs' = [jobs EXCEPT ![j].step = "log", ![j].rows = NoContacts]
    /\ UNCHANGED <<notes, logVars, now, requests, faults, recorded, excused>>

OwnerContacts ==
    /\ Request
    /\ \E list \in Lists(App \cup {None}) :
         /\ Cardinality(DOMAIN list) <= MaxContacts
         /\ contacts' = Kept(list, contacts)
    /\ addon' = Replaced("contacts")
    /\ jobs' = Overtaken(FALSE)
    /\ UNCHANGED <<notes, logVars, now, faults, historyVars>>

\* The write of a document raises: the request ends without an answer.
WriteFails(j) ==
    /\ At(j, "write") /\ Fault
    /\ End(j)
    /\ UNCHANGED <<docs, logVars, addon, now, requests, historyVars>>

-----------------------------------------------------------------------------
(* The write log *)

\* Seeded fault: a full log keeps its oldest rows.
FaultLogged(rows, n) ==
    LET all == Append(rows, n)
    IN  SubSeq(all, 1, IF Len(all) > LogMax THEN LogMax ELSE Len(all))

Logged(rows, n) ==
    LET all == Append(rows, n)
    IN  SubSeq(all, IF Len(all) > LogMax THEN Len(all) - LogMax + 1 ELSE 1, Len(all))

\* update_store under STORE_LOCK; a file that does not parse is left alone and the request
\* goes on.
LogRead(j) ==
    /\ At(j, "log") /\ \A k \in Job : ~At(k, "logging")
    /\ IF unreadable THEN End(j) /\ excused' = excused \cup {jobs[j].num}
       ELSE jobs' = [jobs EXCEPT ![j].step = "logging", ![j].rowLog = log] /\ UNCHANGED excused
    /\ UNCHANGED <<docs, logVars, addon, now, requests, faults, landed, recorded>>

LogWrite(j) ==
    /\ At(j, "logging")
    /\ log' = Logged(jobs[j].rowLog, jobs[j].num)
    /\ unreadable' = FALSE
    /\ recorded' = Append(recorded, jobs[j].num)
    /\ excused' = excused \cup (ToSet(log) \ ToSet(jobs[j].rowLog))
    /\ End(j)
    /\ UNCHANGED <<docs, touch, addon, now, requests, faults, landed>>

\* record_member_write catches whatever the write of the log raises, and warns: the
\* request is answered, its row is nowhere.
LogWriteFails(j) ==
    /\ At(j, "logging") /\ Fault
    /\ End(j)
    /\ excused' = excused \cup {jobs[j].num}
    /\ UNCHANGED <<docs, logVars, addon, now, requests, landed, recorded>>

\* upsert_client in an authentication: what does not parse reads as empty.
TouchRead ==
    /\ touch = None
    /\ touch' = log
    /\ UNCHANGED <<docs, log, unreadable, jobs, addon, now, requests, faults, historyVars>>

TouchWrite ==
    /\ touch # None
    /\ log' = touch
    /\ unreadable' = FALSE
    /\ touch' = None
    /\ excused' = excused \cup (ToSet(log) \ ToSet(touch))
    /\ UNCHANGED <<docs, jobs, addon, now, requests, faults, landed, recorded>>

-----------------------------------------------------------------------------
(* The add-on, and faults *)

\* Its own copy of the two saves: it reads the stored apps, then writes.
AddonBegin ==
    /\ addon.step = "idle" /\ Request
    /\ \/ addon' = [AddonIdle EXCEPT !.step = "open", !.note = [text |-> requests + 1, at |-> now]]
       \/ \E list \in Lists(App \cup {None}) :
             /\ Cardinality(DOMAIN list) <= MaxContacts
             /\ addon' = [AddonIdle EXCEPT !.step = "open", !.doc = "contacts",
                                           !.list = Kept(list, contacts)]
    /\ UNCHANGED <<docs, logVars, jobs, now, faults, historyVars>>

AddonTruncate ==
    /\ addon.step = "open"
    /\ IF addon.doc = "notes" THEN notes' = NoNote /\ UNCHANGED contacts
                              ELSE contacts' = NoContacts /\ UNCHANGED notes
    /\ addon' = [addon EXCEPT !.step = "fill"]
    /\ jobs' = Overtaken(addon.doc = "notes")
    /\ UNCHANGED <<logVars, now, requests, faults, historyVars>>

AddonFill ==
    /\ addon.step \in {"fill", "stray"}
    /\ IF addon.step = "stray" THEN UNCHANGED <<docs, jobs>>
       ELSE /\ IF addon.doc = "notes" THEN notes' = addon.note /\ UNCHANGED contacts
                                      ELSE contacts' = addon.list /\ UNCHANGED notes
            /\ jobs' = Overtaken(addon.doc = "notes")
    /\ addon' = AddonIdle
    /\ UNCHANGED <<logVars, now, requests, faults, historyVars>>

AddonDies ==
    /\ addon.step # "idle" /\ Fault
    /\ addon' = AddonIdle
    /\ UNCHANGED <<docs, logVars, jobs, now, requests, historyVars>>

Restart ==
    /\ Fault
    /\ jobs' = [j \in Job |-> Idle] /\ touch' = None
    /\ excused' = excused \cup {jobs[j].num : j \in {k \in Job : At(k, "log") \/ At(k, "logging")}}
    /\ UNCHANGED <<docs, log, unreadable, addon, now, requests, landed, recorded>>

\* ios_session.json no longer parses.
DamageSession ==
    /\ ~unreadable /\ Fault
    /\ unreadable' = TRUE /\ log' = <<>>
    /\ excused' = excused \cup ToSet(log)
    /\ UNCHANGED <<docs, touch, jobs, addon, now, requests, landed, recorded>>

JobStep(j) ==
    \/ NoteRead(j) \/ NoteWrite(j) \/ ContactsRead(j) \/ ContactsWrite(j) \/ WriteFails(j)
    \/ LogRead(j) \/ LogWrite(j) \/ LogWriteFails(j)

Next ==
    \/ \E j \in Job : NoteBegin(j) \/ ContactsBegin(j) \/ JobStep(j)
    \/ OwnerNote \/ OwnerContacts
    \/ TouchRead \/ TouchWrite
    \/ AddonBegin \/ AddonTruncate \/ AddonFill \/ AddonDies
    \/ Tick \/ Restart \/ DamageSession

Spec == Init /\ [][Next]_vars

-----------------------------------------------------------------------------
(* Properties *)

\* Members do not lose each other's rows: a member's write makes of the list what its
\* request asks for, unless the owner or the add-on, who take no lock, wrote between its
\* read and its write.
MembersInOrder ==
    [][\A j \in Job : ContactsWrite(j) /\ ~jobs[j].overtaken
                        => contacts' = Applied(jobs[j], contacts)]_vars

\* A member's save that names a note replaces the note its author saw; by its time, also
\* another of the same second.  Between the comparison and the write only the owner or the
\* add-on can come.
ReplacesWhatItSaw ==
    [][\A j \in Job : NoteWrite(j) /\ jobs[j].match \in {"at", "etag"} /\ ~jobs[j].overtaken
                        => \/ notes = jobs[j].saw
                           \/ jobs[j].match = "at" /\ notes.at = jobs[j].saw.at]_vars

\* The log says what was written: every row in it is of a write that landed, and a write
\* that landed has its row in the log once it is answered, until LogMax later ones, unless
\* a restart came before, the file did not parse, its own write of the log failed, or a
\* client row's write went over it.
WritesAreLogged ==
    LET Later(n) == {k \in DOMAIN recorded : \E i \in 1..(k - 1) : recorded[i] = n}
    IN  /\ ToSet(log) \subseteq landed
        /\ \A n \in landed \ excused :
              \/ n \in ToSet(log)
              \/ \E j \in Job : jobs[j].num = n
              \/ Cardinality(Later(n)) >= LogMax

\* ifMatch null means "no note yet", as save_notes_checked says.  The code does not keep
\* this (README, Findings): a null is taken as no ifMatch.
NullMeansNoNote ==
    [][\A j \in Job : NoteWrite(j) /\ jobs[j].match = "null" => notes.at = None]_vars
=============================================================================
