----------------------------- MODULE HousePush -----------------------------
(***************************************************************************)
(* The house's id and event key, and the pushes sent with them.            *)
(*                                                                         *)
(* A phone claims the house at the backend, installs the key it got in     *)
(* Home Assistant (POST /event_key) and may rotate it.  Chat and manual    *)
(* pushes take id and key when they start; in an executor thread they POST,*)
(* note a rejection of the key, log the attempt and, for chat, arm a timer *)
(* for the next.  notify.json is updated under _NOTIFY_LOCK, one section   *)
(* an update, and never when it cannot be read.                            *)
(*                                                                         *)
(* A house nobody has claimed may adopt the id of another (POST /property).*)
(* What tells that it was claimed is spread over three stores: the config  *)
(* entry, notify.json and ios_session.json.  Home Assistant saves the      *)
(* entry about a second after a change, so a crash may bring back an older *)
(* one; the files are written at once.  Handlers on the loop (install,     *)
(* adopt, setup) are one section each.                                     *)
(*                                                                         *)
(* Left out: titles, devices and other columns of the log, who may adopt,  *)
(* its rate limit and its log.                                             *)
(***************************************************************************)
EXTENDS Naturals, Sequences, FiniteSets

CONSTANTS
    Key,         \* house event keys, in the order the backend issues them
    Id,          \* property ids
    Push,        \* pushes
    None,
    MaxAttempts, \* PUSH_MAX_ATTEMPTS
    LogMax,      \* PUSH_LOG_MAX
    MaxFaults    \* bound on crashes, damaged files and failed writes

ASSUME KeyAssumption == Key \subseteq Nat \ {0} /\ 1 \in Key
ASSUME NoneAssumption == None \notin Id \cup Push
ASSUME BoundAssumption ==
    /\ MaxAttempts \in Nat \ {0}
    /\ LogMax \in Nat \ {0}
    /\ MaxFaults \in Nat

NoKey == 0

VARIABLES
    backend,  \* the key the backend takes (external), NoKey before the claim
    entry,    \* the config entry: id, key, claimed_at, adopt lock migrated
    saved,    \* the entry as Home Assistant saved it
    notify,   \* notify.json: event key status, push log, readable or not
    session,  \* ios_session.json: keyInstallClients, any client row
    pushes,
    faults,
    claimed,  \* history: the backend has claimed the house for its id
    erased,   \* history: stores whose evidence of the claim a fault took
    late,     \* history: keys that were replaced while a push with them was under way
    lost      \* history: pushes a restart, a failed timer or an unwritten row cut off

historyVars == <<claimed, erased, late, lost>>
vars == <<backend, entry, saved, notify, session, pushes, faults, historyVars>>

Entry == [id : Id, key : Key \cup {NoKey}, claimedAt : BOOLEAN, migrated : BOOLEAN]

\* rejected: lastPushStatus is set (the model keeps whose rejection it is).
LogRow == [push : Push, attempt : 1..MaxAttempts, retry : BOOLEAN]

\* post  about to POST     note  about to note_event_key_attempt
\* log   about to record   wait  its retry timer is armed
Phase == {"idle", "post", "note", "log", "wait", "over"}
Answer == {"ok", "auth", "retryable", "refused"}
Sending == [phase : Phase, chat : BOOLEAN, key : Key \cup {NoKey}, attempt : 1..MaxAttempts,
            answer : Answer \cup {None}]
Unsent == [phase |-> "idle", chat |-> FALSE, key |-> NoKey, attempt |-> 1, answer |-> None]
Over == [Unsent EXCEPT !.phase = "over"]

Stores == {"entry", "notify", "session"}

TypeOK ==
    /\ backend \in Key \cup {NoKey}
    /\ entry \in Entry /\ saved \in Entry
    /\ notify.installed \in BOOLEAN /\ notify.bad \in BOOLEAN
    /\ notify.rejected \in Key \cup {NoKey}
    /\ notify.log \in Seq(LogRow) /\ Len(notify.log) <= LogMax
    /\ session \in [installs : BOOLEAN, rows : BOOLEAN]
    /\ pushes \in [Push -> Sending]
    /\ \A p \in Push : pushes[p].attempt > 1 => pushes[p].chat
    /\ faults \in 0..MaxFaults
    /\ claimed \in BOOLEAN /\ erased \subseteq Stores
    /\ late \subseteq Key /\ lost \subseteq Push

EmptyNotify == [installed |-> FALSE, rejected |-> NoKey, log |-> <<>>, bad |-> FALSE]

\* A new house, or one that was claimed before there was a latch.
Init ==
    /\ \E id \in Id, legacy \in BOOLEAN :
         LET k == IF legacy THEN 1 ELSE NoKey
         IN  /\ entry = [id |-> id, key |-> k, claimedAt |-> FALSE, migrated |-> FALSE]
             /\ backend = k
             /\ notify = [EmptyNotify EXCEPT !.installed = legacy]
             /\ session = [installs |-> FALSE, rows |-> legacy]
             /\ claimed = legacy
    /\ saved = entry
    /\ pushes = [p \in Push |-> Unsent]
    /\ faults = 0
    /\ erased = {} /\ late = {} /\ lost = {}

Fault == faults < MaxFaults /\ faults' = faults + 1

\* A push that holds its key.
UnderWay(p) == pushes[p].phase \notin {"idle", "over"}

-----------------------------------------------------------------------------
(* The backend and the phone (external) *)

\* A phone claims the house, or rotates its key.
Rotate ==
    /\ backend + 1 \in Key
    /\ backend' = backend + 1
    /\ UNCHANGED <<entry, saved, notify, session, pushes, faults, historyVars>>

\* A phone pairs: a client row.
PhonePairs ==
    /\ ~session.rows
    /\ session' = [session EXCEPT !.rows = TRUE]
    /\ UNCHANGED <<backend, entry, saved, notify, pushes, faults, historyVars>>

-----------------------------------------------------------------------------
(* The key *)

\* Seeded fault (a Fault... definition is a bug a property must notice): an
\* installation keeps the last rejection.
FaultInstalled(n) == IF n.bad THEN n ELSE [n EXCEPT !.installed = TRUE]

\* mark_event_key_installed, or nothing when the file cannot be read.
Installed(n) == IF n.bad THEN n ELSE [n EXCEPT !.installed = TRUE, !.rejected = NoKey]

\* apply_event_key_payload, then stamp_claimed.
Keyed(e, k) == [e EXCEPT !.key = k]
Stamped(e) == [e EXCEPT !.claimedAt = TRUE, !.migrated = TRUE]

\* POST /event_key: any key the backend ever issued, also one already rotated away.  The
\* status is not written when that fails.
Install(k) ==
    /\ k \in 1..backend
    /\ entry' = Stamped(Keyed(entry, k))
    /\ LET replaced == {pushes[p].key : p \in {q \in Push : UnderWay(q)}}
       IN  \/ /\ UNCHANGED faults
              /\ notify' = Installed(notify)
              /\ late' = late \cup (replaced \ {k})
           \/ /\ Fault /\ UNCHANGED notify
              /\ late' = late \cup ((replaced \cup {notify.rejected}) \ {NoKey, k})
    /\ session' = [session EXCEPT !.installs = TRUE]
    /\ claimed' = TRUE
    /\ erased' = IF notify'.installed THEN {} ELSE {"notify"}
    /\ UNCHANGED <<backend, saved, pushes, lost>>

-----------------------------------------------------------------------------
(* The latch and adoption *)

\* claim_evidence; a notify.json that cannot be read gives no sign.
Evidence(e) ==
    \/ e.claimedAt \/ e.key # NoKey
    \/ ~notify.bad /\ (notify.installed \/ notify.rejected # NoKey \/ notify.log # <<>>)
    \/ session.installs

\* Seeded fault: only the entry is asked.
FaultMayAdopt == ~(entry.claimedAt \/ entry.key # NoKey)

MayAdopt == ~Evidence(entry)

\* migrate_adopt_lock, at each setup of the entry.
Setup ==
    /\ ~entry.migrated
    /\ entry' = [entry EXCEPT !.migrated = TRUE,
                              !.claimedAt = @ \/ Evidence(entry) \/ session.rows]
    /\ UNCHANGED <<backend, saved, notify, session, pushes, faults, historyVars>>

\* adopt, for an active paired phone.
Adopt(id) ==
    /\ session.rows
    /\ id # entry.id
    /\ MayAdopt
    /\ entry' = [entry EXCEPT !.id = id]
    /\ UNCHANGED <<backend, saved, notify, session, pushes, faults, historyVars>>

-----------------------------------------------------------------------------
(* A push *)

\* With the key of the entry.
Begin(p, chat) ==
    /\ pushes[p].phase = "idle"
    /\ entry.key # NoKey
    /\ pushes' = [pushes EXCEPT ![p] = [Unsent EXCEPT !.phase = "post", !.chat = chat,
                                                      !.key = entry.key]]
    /\ UNCHANGED <<backend, entry, saved, notify, session, faults, historyVars>>

BeginChat(p) == Begin(p, TRUE)

\* POST /notify: refused without a key.
BeginManual(p) == Begin(p, FALSE)

\* Seeded fault: a full log keeps its oldest rows.
FaultAppended(n, row) ==
    LET all == Append(n.log, row)
    IN  [n EXCEPT !.log = SubSeq(all, 1, IF Len(all) > LogMax THEN LogMax ELSE Len(all))]

\* record_push: the newest PUSH_LOG_MAX rows.
Appended(n, row) ==
    LET all == Append(n.log, row)
        over == IF Len(all) > LogMax THEN Len(all) - LogMax ELSE 0
    IN  [n EXCEPT !.log = SubSeq(all, over + 1, Len(all))]

\* A chat push without a key is logged and not sent.
BeginKeyless(p) ==
    /\ pushes[p].phase = "idle"
    /\ entry.key = NoKey
    /\ notify' = IF notify.bad THEN notify
                 ELSE Appended(notify, [push |-> p, attempt |-> 1, retry |-> FALSE])
    /\ pushes' = [pushes EXCEPT ![p] = Over]
    /\ UNCHANGED <<backend, entry, saved, session, faults, historyVars>>

\* The backend refuses a key that is not its own; any POST may fail on the way, be
\* told to retry, or be refused for its content.
Outcomes(k) == {"retryable", "refused", IF k = backend THEN "ok" ELSE "auth"}

PostEvent(p) ==
    /\ pushes[p].phase = "post"
    /\ \E a \in Outcomes(pushes[p].key) :
         pushes' = [pushes EXCEPT ![p].phase = "note", ![p].answer = a]
    /\ UNCHANGED <<backend, entry, saved, notify, session, faults, historyVars>>

\* note_event_key_attempt: a 401 or 403 sets the status, a 2xx clears it.
AfterAttempt(n, s) ==
    IF n.bad \/ s.answer \notin {"auth", "ok"} THEN n
    ELSE [n EXCEPT !.rejected = IF s.answer = "auth" THEN s.key ELSE NoKey]

\* A write that fails is logged and the push goes on.
NoteAttempt(p) ==
    /\ pushes[p].phase = "note"
    /\ \/ notify' = AfterAttempt(notify, pushes[p]) /\ UNCHANGED faults
       \/ Fault /\ UNCHANGED notify
    /\ pushes' = [pushes EXCEPT ![p].phase = "log"]
    /\ UNCHANGED <<backend, entry, saved, session, historyVars>>

\* is_retryable, and not the last attempt; a manual push has one.
Retries(s) == s.chat /\ s.answer = "retryable" /\ s.attempt < MaxAttempts

\* record_push, then the timer of the next attempt.  The write may fail.
LogAttempt(p) ==
    LET s == pushes[p]
        row == [push |-> p, attempt |-> s.attempt, retry |-> Retries(s)]
    IN  /\ s.phase = "log"
        /\ \/ /\ notify' = IF notify.bad THEN notify ELSE Appended(notify, row)
              /\ lost' = IF notify.bad THEN lost \cup {p} ELSE lost
              /\ UNCHANGED faults
           \/ Fault /\ lost' = lost \cup {p} /\ UNCHANGED notify
        /\ pushes' = [pushes EXCEPT ![p] = IF Retries(s)
                                           THEN [s EXCEPT !.phase = "wait", !.answer = None]
                                           ELSE Over]
        /\ UNCHANGED <<backend, entry, saved, session, claimed, erased, late>>

\* The timer fires: the next attempt, with the same key.
Again(p) ==
    /\ pushes[p].phase = "wait"
    /\ pushes' = [pushes EXCEPT ![p].phase = "post", ![p].attempt = @ + 1]
    /\ UNCHANGED <<backend, entry, saved, notify, session, faults, historyVars>>

-----------------------------------------------------------------------------
(* Home Assistant and faults *)

\* Home Assistant saves the entry (external).
SaveEntry ==
    /\ saved # entry
    /\ saved' = entry
    /\ UNCHANGED <<backend, entry, notify, session, pushes, faults, historyVars>>

\* Power loss: the entry as saved, no push, no timer.
Crash ==
    /\ Fault
    /\ entry' = saved
    /\ pushes' = [p \in Push |-> IF UnderWay(p) THEN Over ELSE pushes[p]]
    /\ lost' = lost \cup {p \in Push : UnderWay(p)}
    /\ late' = late \cup ({entry.key} \ {saved.key, NoKey})
    /\ erased' = IF saved.key = NoKey /\ ~saved.claimedAt THEN erased \cup {"entry"} ELSE erased
    /\ UNCHANGED <<backend, saved, notify, session, claimed>>

\* notify.json no longer parses; nothing in the integration writes it again.
DamageNotify ==
    /\ ~notify.bad /\ Fault
    /\ notify' = [EmptyNotify EXCEPT !.bad = TRUE]
    /\ erased' = erased \cup {"notify"}
    /\ lost' = lost \cup {p \in Push : UnderWay(p)}
    /\ UNCHANGED <<backend, entry, saved, session, pushes, claimed, late>>

\* ios_session.json no longer parses, or another writer wrote an older copy of it.
DamageSession ==
    /\ session.installs \/ session.rows
    /\ Fault
    /\ session' = [installs |-> FALSE, rows |-> FALSE]
    /\ erased' = erased \cup {"session"}
    /\ UNCHANGED <<backend, entry, saved, notify, pushes, claimed, late, lost>>

PushStep(p) == PostEvent(p) \/ NoteAttempt(p) \/ LogAttempt(p) \/ Again(p)

Next ==
    \/ \E p \in Push : BeginChat(p) \/ BeginManual(p) \/ BeginKeyless(p) \/ PushStep(p)
    \/ \E k \in Key : Install(k)
    \/ \E id \in Id : Adopt(id)
    \/ Rotate \/ PhonePairs \/ Setup \/ SaveEntry
    \/ Crash \/ DamageNotify \/ DamageSession

Spec == Init /\ [][Next]_vars

-----------------------------------------------------------------------------
(* Properties *)

\* A claimed house keeps its id: any one sign left, in whichever store, refuses the
\* adoption, through rotations, crashes that bring back an entry without key and latch,
\* and unreadable files.  (The crash itself may bring back the id before an adoption.)
ClaimedForGood ==
    [][claimed /\ entry'.id # entry.id /\ UNCHANGED faults => erased = Stores]_vars

\* The rejection a phone reads is of the key the house has now, unless a push with the
\* older key was under way when it was replaced, or the clearing could not be written.
RejectionExplained == notify.rejected \in {NoKey, entry.key} \cup late

\* A log row that says another try follows is followed by one, logged later or still to
\* come, unless a restart or an unwritten row cut the push off.
RetryPromiseKept ==
    \A i \in DOMAIN notify.log :
        LET row == notify.log[i]
            s == pushes[row.push]
        IN  row.retry =>
              \/ row.push \in lost
              \/ UnderWay(row.push) /\ s.attempt = row.attempt + (IF s.phase = "wait" THEN 0 ELSE 1)
              \/ \E k \in DOMAIN notify.log :
                    /\ k > i
                    /\ notify.log[k].push = row.push
                    /\ notify.log[k].attempt = row.attempt + 1
=============================================================================
