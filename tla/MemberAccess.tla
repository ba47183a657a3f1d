---------------------------- MODULE MemberAccess ----------------------------
(***************************************************************************)
(* Member tokens: minting, authentication, revocation, and what a          *)
(* revocation takes from the member.                                       *)
(*                                                                         *)
(* Three stores keep a member: members.json (every update one section      *)
(* under members._LOCK), the PQ sessions (a dictionary in memory, written  *)
(* whole to pq_shield.json) and the member's row among the paired clients  *)
(* in ios_session.json (read, changed and written without a lock).  The    *)
(* requests run in executor threads, all but the upsert of the client row, *)
(* which runs on the event loop, one request at a time.  A request is a    *)
(* job here, and each of its sections an action.                           *)
(*                                                                         *)
(* Every operation reads the clock just before its first section; the      *)
(* model reads it in the section.  Tokens and member ids are never reused, *)
(* so a member stands for its token.  The member PQ gate is on.            *)
(***************************************************************************)
EXTENDS Naturals, FiniteSets

CONSTANTS
    Member,       \* member ids
    Principal,    \* backend principals
    PrincipalOf,  \* the principal each member is minted for
    Source,       \* who may revoke: the audit kept with a revocation
    Job,          \* requests running at a time
    None,         \* no member, principal, audit or request
    MaxRequests,  \* bound on requests
    MaxFaults     \* bound on restarts, failing reads and failing writes

ASSUME PrincipalAssumption == PrincipalOf \in [Member -> Principal]
ASSUME NoneAssumption == None \notin Member \cup Principal \cup Source \cup Job
ASSUME BoundAssumption == MaxRequests \in Nat /\ MaxFaults \in Nat

VARIABLES
    rows,      \* members.json: the row of each member it holds
    minted,    \* members ever minted: their phones hold a token
    expired,   \* members whose token is past its expiry
    aged,      \* members whose row ended MEMBER_INACTIVE_KEEP_DAYS ago
    live,      \* _member_keys: members with a session
    disk,      \* memberSessions in pq_shield.json
    clients,   \* members with a row in ios_session.json
    jobs,      \* requests
    loop,      \* the request whose upsert the event loop runs, or None
    requests, faults,   \* counters for the bounds
    excused,   \* history: members whose session may outlive a revocation
    answered   \* history: how many principal revocations reported the member

boundVars == <<requests, faults>>
rowVars == <<rows, minted, expired, aged>>
sessionVars == <<live, disk>>
historyVars == <<excused, answered>>
vars == <<rowVars, sessionVars, clients, jobs, loop, boundVars, historyVars>>

Row == [used : BOOLEAN, revoked : BOOLEAN, cancelled : BOOLEAN, tombstone : BOOLEAN,
        by : Source \cup {None}]

\* read    a member view                     encap   POST /m/pq/encap
\* rotate  POST /m/pq/rotate                 unpair  revoke_member
\* revoke  revoke_principal
MemberKind == {"read", "encap", "rotate"}
Kind == MemberKind \cup {"unpair", "revoke"}

\* auth     load_rows in authenticate          touch    its _update
\* upsert   before upsert_client               upwrite  between its read and write
\* key      accept_member_encap                pop      drop_member_sessions
\* snap     _persist builds the payload        save     _write_disk
\* rows     the locked section of a revocation list     load_clients
\* drop     before _drop_client_row            dropping between its read and write
Step == {"idle", "auth", "touch", "upsert", "upwrite", "key", "pop", "snap", "save",
         "rows", "list", "drop", "dropping"}

\* m, p, by: the request's arguments.  ids: sessions to drop.  todo: client rows
\* to drop.  copy: the store as read, or the payload.  good: history, the token
\* was good when the request came.
JobState == [kind : Kind, step : Step, m : Member \cup {None}, p : Principal \cup {None},
             by : Source \cup {None}, ids : SUBSET Member, todo : SUBSET Member,
             copy : SUBSET Member, good : BOOLEAN]
Finished == [kind |-> "read", step |-> "idle", m |-> None, p |-> None, by |-> None,
             ids |-> {}, todo |-> {}, copy |-> {}, good |-> FALSE]

TypeOK ==
    /\ minted \subseteq Member /\ expired \subseteq Member /\ aged \subseteq Member
    /\ DOMAIN rows \subseteq minted
    /\ rows \in [DOMAIN rows -> Row]
    /\ live \subseteq Member /\ disk \subseteq Member /\ clients \subseteq Member
    /\ jobs \in [Job -> JobState]
    /\ loop \in Job \cup {None}
    /\ requests \in Nat /\ faults \in Nat
    /\ excused \subseteq Member
    /\ answered \in [Member -> Nat]

Init ==
    /\ rows = [m \in {} |-> {}]
    /\ minted = {} /\ expired = {} /\ aged = {}
    /\ live = {} /\ disk = {} /\ clients = {}
    /\ jobs = [j \in Job |-> Finished]
    /\ loop = None
    /\ requests = 0 /\ faults = 0
    /\ excused = {}
    /\ answered = [m \in Member |-> 0]

At(j, s) == jobs[j].step = s
Goto(j, s) == jobs' = [jobs EXCEPT ![j].step = s]
End(j) == jobs' = [jobs EXCEPT ![j] = Finished]
Quiet == \A j \in Job : At(j, "idle")

RowStatus(m) ==
    IF rows[m].revoked THEN "revoked"
    ELSE IF m \in expired THEN "expired"
    ELSE IF rows[m].used THEN "active" ELSE "pending"

Ended(m) == RowStatus(m) \in {"revoked", "expired"}

\* The token of m would be accepted now.
Good(m) == m \in DOMAIN rows /\ ~Ended(m)

Tombstone(row) == [row EXCEPT !.revoked = TRUE, !.cancelled = FALSE, !.tombstone = TRUE]

\* The rows _prune keeps.
KeptMembers == DOMAIN rows \ aged

-----------------------------------------------------------------------------
(* One-section operations *)

\* The new row, and what _prune leaves.
Mint(m) ==
    /\ m \notin minted
    /\ minted' = minted \cup {m}
    /\ rows' = [k \in KeptMembers \cup {m} |->
                  IF k = m THEN [used |-> FALSE, revoked |-> FALSE, cancelled |-> FALSE,
                                 tombstone |-> FALSE, by |-> None]
                  ELSE rows[k]]
    /\ UNCHANGED <<expired, aged, sessionVars, clients, jobs, loop, boundVars, historyVars>>

\* Seeded fault (each Fault... definition is a bug a property must notice): the
\* row's status is not looked at.
FaultBury(ms) ==
    /\ rows' = [k \in KeptMembers |->
                  IF k \in ms /\ ~rows[k].tombstone THEN Tombstone(rows[k]) ELSE rows[k]]
    /\ UNCHANGED <<minted, expired, aged, sessionVars, clients, jobs, loop, boundVars,
                   historyVars>>

\* Tombstones for the ended rows among ms.  A tombstone starts a new period.
Bury(ms) ==
    /\ rows' = [k \in KeptMembers |->
                  IF k \in ms /\ ~rows[k].tombstone /\ Ended(k)
                  THEN Tombstone(rows[k]) ELSE rows[k]]
    /\ UNCHANGED <<minted, expired, aged, sessionVars, clients, jobs, loop, boundVars,
                   historyVars>>

\* A row that has not ended is refused, and so is the pruning.
RemoveInactive(m) ==
    /\ m \in KeptMembers => Ended(m)
    /\ Bury({m})

ClearInactive == Bury(Member)

\* Time passes for one member: its token expires, or its ended row grows old.
Expire(m) ==
    /\ m \in minted
    /\ expired' = expired \cup {m}
    /\ UNCHANGED <<rows, minted, aged, sessionVars, clients, jobs, loop, boundVars,
                   historyVars>>

\* No request is 30 days long.
Age(m) ==
    /\ Quiet
    /\ m \in DOMAIN rows /\ Ended(m)
    /\ aged' = aged \cup {m}
    /\ UNCHANGED <<rows, minted, expired, sessionVars, clients, jobs, loop, boundVars,
                   historyVars>>

-----------------------------------------------------------------------------
(* authenticate, _member_auth *)

Begin(j, job) ==
    /\ At(j, "idle")
    /\ requests < MaxRequests
    /\ requests' = requests + 1
    /\ jobs' = [jobs EXCEPT ![j] = job]
    /\ UNCHANGED <<rowVars, sessionVars, clients, loop, faults, historyVars>>

Present(j, kind, m) ==
    /\ m \in minted
    /\ Begin(j, [Finished EXCEPT !.kind = kind, !.step = "auth", !.m = m, !.good = Good(m)])

\* A pruned row: "unauthorized".
AuthUnknown(j) ==
    /\ At(j, "auth") /\ jobs[j].m \notin DOMAIN rows
    /\ End(j)
    /\ UNCHANGED <<rowVars, sessionVars, clients, loop, boundVars, historyVars>>

\* A revoked or expired token: 401, and the session goes.
AuthDenied(j) ==
    /\ At(j, "auth") /\ jobs[j].m \in DOMAIN rows /\ Ended(jobs[j].m)
    /\ jobs' = [jobs EXCEPT ![j].step = "pop", ![j].ids = {jobs[j].m}]
    /\ UNCHANGED <<rowVars, sessionVars, clients, loop, boundVars, historyVars>>

\* Seeded fault: the expiry is checked, the revocation is not.
FaultAuthAccepted(j) ==
    /\ At(j, "auth") /\ jobs[j].m \in DOMAIN rows /\ jobs[j].m \notin expired
    /\ Goto(j, "touch")
    /\ UNCHANGED <<rowVars, sessionVars, clients, loop, boundVars, historyVars>>

AuthAccepted(j) ==
    /\ At(j, "auth") /\ Good(jobs[j].m)
    /\ Goto(j, "touch")
    /\ UNCHANGED <<rowVars, sessionVars, clients, loop, boundVars, historyVars>>

\* The row is read again, but its status is not.
Touch(j) ==
    /\ At(j, "touch")
    /\ rows' = [k \in DOMAIN rows |->
                  IF k = jobs[j].m THEN [rows[k] EXCEPT !.used = TRUE] ELSE rows[k]]
    /\ Goto(j, "upsert")
    /\ UNCHANGED <<minted, expired, aged, sessionVars, clients, loop, boundVars, historyVars>>

UpsertRead(j) ==
    /\ At(j, "upsert") /\ loop = None
    /\ loop' = j
    /\ jobs' = [jobs EXCEPT ![j].step = "upwrite", ![j].copy = clients]
    /\ UNCHANGED <<rowVars, sessionVars, clients, boundVars, historyVars>>

\* What a request goes on with once its client row is written.
AfterAuth(j) ==
    CASE jobs[j].kind = "encap" ->
            jobs' = [jobs EXCEPT ![j].step = "key", ![j].copy = {}]
      [] jobs[j].kind = "rotate" ->
            jobs' = [jobs EXCEPT ![j].step = "pop", ![j].copy = {}, ![j].ids = {jobs[j].m}]
      [] OTHER -> End(j)

UpsertWrite(j) ==
    /\ At(j, "upwrite")
    /\ clients' = jobs[j].copy \cup {jobs[j].m}
    /\ loop' = None
    /\ AfterAuth(j)
    /\ UNCHANGED <<rowVars, sessionVars, boundVars, historyVars>>

-----------------------------------------------------------------------------
(* PQShieldManager: member sessions *)

AcceptMemberEncap(j) ==
    /\ At(j, "key")
    /\ live' = live \cup {jobs[j].m}
    /\ Goto(j, "snap")
    /\ UNCHANGED <<rowVars, disk, clients, loop, boundVars, historyVars>>

\* Accepted handshakes of m that have not stored their key.
Handshakes(m) ==
    {j \in Job : /\ jobs[j].kind = "encap" /\ jobs[j].m = m
                 /\ jobs[j].step \in {"touch", "upsert", "upwrite", "key"}}

\* Seeded fault: only sessions that were saved are dropped.
FaultDropMemberSessions(j) ==
    /\ At(j, "pop")
    /\ live' = live \ (jobs[j].ids \cap disk)
    /\ excused' = {m \in excused : m \notin jobs[j].ids \/ Handshakes(m) # {}}
    /\ IF live \cap jobs[j].ids \cap disk # {} THEN Goto(j, "snap")
       ELSE IF jobs[j].kind \in MemberKind THEN End(j) ELSE Goto(j, "list")
    /\ UNCHANGED <<rowVars, disk, clients, loop, boundVars, answered>>

\* Nothing is written when no session was there.
DropMemberSessions(j) ==
    /\ At(j, "pop")
    /\ live' = live \ jobs[j].ids
    /\ excused' = {m \in excused : m \notin jobs[j].ids \/ Handshakes(m) # {}}
    /\ IF live \cap jobs[j].ids # {} THEN Goto(j, "snap")
       ELSE IF jobs[j].kind \in MemberKind THEN End(j) ELSE Goto(j, "list")
    /\ UNCHANGED <<rowVars, disk, clients, loop, boundVars, answered>>

Snapshot(j) ==
    /\ At(j, "snap")
    /\ jobs' = [jobs EXCEPT ![j].step = "save", ![j].copy = live]
    /\ UNCHANGED <<rowVars, sessionVars, clients, loop, boundVars, historyVars>>

AfterSave(j) ==
    IF jobs[j].kind \in MemberKind THEN End(j)
    ELSE jobs' = [jobs EXCEPT ![j].step = "list", ![j].copy = {}]

Save(j) ==
    /\ At(j, "save")
    /\ disk' = jobs[j].copy
    /\ AfterSave(j)
    /\ UNCHANGED <<rowVars, live, clients, loop, boundVars, historyVars>>

-----------------------------------------------------------------------------
(* revoke_member, revoke_principal, _drop_clients *)

Unpair(j, m, by) ==
    /\ m \in minted
    /\ Begin(j, [Finished EXCEPT !.kind = "unpair", !.step = "rows", !.m = m, !.by = by])

Revoke(j, p, by) ==
    Begin(j, [Finished EXCEPT !.kind = "revoke", !.step = "rows", !.p = p, !.by = by])

Unrevoked(ms) == {k \in ms \cap DOMAIN rows : ~rows[k].revoked}

\* Seeded fault: a row revoked before is marked again.
FaultMarkRevoked(ms, by, cancels) ==
    /\ rows' = [k \in DOMAIN rows |->
                  IF k \in ms
                  THEN [rows[k] EXCEPT !.revoked = TRUE, !.by = by,
                                       !.cancelled = @ \/ (cancels /\ RowStatus(k) = "pending")]
                  ELSE rows[k]]
    /\ aged' = aged \ (ms \cap DOMAIN rows)
    /\ excused' = excused \cup {k \in Unrevoked(ms) : Handshakes(k) # {}}

\* The rows of ms that were not revoked are now, with this audit; a principal's
\* revocation also cancels those never used.
MarkRevoked(ms, by, cancels) ==
    /\ rows' = [k \in DOMAIN rows |->
                  IF k \in Unrevoked(ms)
                  THEN [rows[k] EXCEPT !.revoked = TRUE, !.by = by,
                                       !.cancelled = @ \/ (cancels /\ RowStatus(k) = "pending")]
                  ELSE rows[k]]
    /\ aged' = aged \ Unrevoked(ms)
    /\ excused' = excused \cup {k \in Unrevoked(ms) : Handshakes(k) # {}}

UnpairRow(j) ==
    /\ At(j, "rows") /\ jobs[j].kind = "unpair" /\ jobs[j].m \in DOMAIN rows
    /\ MarkRevoked({jobs[j].m}, jobs[j].by, FALSE)
    /\ jobs' = [jobs EXCEPT ![j].step = "pop", ![j].ids = {jobs[j].m}]
    /\ UNCHANGED <<minted, expired, sessionVars, clients, loop, boundVars, answered>>

\* No row: nothing is dropped either.
UnpairUnknown(j) ==
    /\ At(j, "rows") /\ jobs[j].kind = "unpair" /\ jobs[j].m \notin DOMAIN rows
    /\ End(j)
    /\ UNCHANGED <<rowVars, sessionVars, clients, loop, boundVars, historyVars>>

RowsOf(p) == {m \in DOMAIN rows : PrincipalOf[m] = p}

\* Seeded fault: every row of the principal is reported.
FaultRevokeRows(j) ==
    /\ At(j, "rows") /\ jobs[j].kind = "revoke"
    /\ MarkRevoked(RowsOf(jobs[j].p), jobs[j].by, TRUE)
    /\ LET fresh == RowsOf(jobs[j].p) IN
         /\ jobs' = [jobs EXCEPT ![j].step = "pop", ![j].ids = fresh]
         /\ answered' = [m \in Member |-> IF m \in fresh THEN answered[m] + 1 ELSE answered[m]]
    /\ UNCHANGED <<minted, expired, sessionVars, clients, loop, boundVars>>

RevokeRows(j) ==
    /\ At(j, "rows") /\ jobs[j].kind = "revoke"
    /\ MarkRevoked(RowsOf(jobs[j].p), jobs[j].by, TRUE)
    /\ LET fresh == Unrevoked(RowsOf(jobs[j].p)) IN
         /\ jobs' = [jobs EXCEPT ![j].step = "pop", ![j].ids = fresh]
         /\ answered' = [m \in Member |-> IF m \in fresh THEN answered[m] + 1 ELSE answered[m]]
    /\ UNCHANGED <<minted, expired, sessionVars, clients, loop, boundVars>>

\* The request is answered when no client row is left to drop.
GoDrop(j, todo) ==
    IF todo = {} THEN End(j)
    ELSE jobs' = [jobs EXCEPT ![j].step = "drop", ![j].todo = todo, ![j].copy = {}]

ListClients(j) ==
    /\ At(j, "list")
    /\ GoDrop(j, {m \in clients : \/ m \in jobs[j].ids
                                  \/ jobs[j].kind = "revoke" /\ PrincipalOf[m] = jobs[j].p})
    /\ UNCHANGED <<rowVars, sessionVars, clients, loop, boundVars, historyVars>>

DropClientRead(j) ==
    /\ At(j, "drop")
    /\ jobs' = [jobs EXCEPT ![j].step = "dropping", ![j].copy = clients]
    /\ UNCHANGED <<rowVars, sessionVars, clients, loop, boundVars, historyVars>>

DropClientWrite(j) ==
    /\ At(j, "dropping")
    /\ \E m \in jobs[j].todo :
         /\ clients' = jobs[j].copy \ {m}
         /\ GoDrop(j, jobs[j].todo \ {m})
    /\ UNCHANGED <<rowVars, sessionVars, loop, boundVars, historyVars>>

-----------------------------------------------------------------------------
(* Failures *)

\* A store cannot be written.  The touch and the upsert are skipped; a handshake
\* answers 400; a revocation goes on with the clients, or gives them up.  (When it
\* cannot write the rows it ends as in ReadFails.)  A payload built while another
\* thread changes the sessions fails too: the dictionary changes size under it.
WriteFails(j) ==
    /\ faults < MaxFaults
    /\ faults' = faults + 1
    /\ \/ At(j, "touch") /\ Goto(j, "upsert") /\ UNCHANGED loop
       \/ At(j, "upwrite") /\ AfterAuth(j) /\ loop' = None
       \/ jobs[j].step \in {"snap", "save"} /\ AfterSave(j) /\ UNCHANGED loop
       \/ At(j, "dropping") /\ End(j) /\ UNCHANGED loop
    /\ UNCHANGED <<rowVars, sessionVars, clients, requests, historyVars>>

\* A store cannot be read: the token is refused, the revocation given up.  An
\* unreadable ios_session.json counts as empty.
ReadFails(j) ==
    /\ faults < MaxFaults
    /\ faults' = faults + 1
    /\ \/ jobs[j].step \in {"auth", "rows", "list"} /\ End(j) /\ UNCHANGED loop
       \/ /\ At(j, "upsert") /\ loop = None
          /\ loop' = j
          /\ jobs' = [jobs EXCEPT ![j].step = "upwrite", ![j].copy = {}]
       \/ /\ At(j, "drop")
          /\ jobs' = [jobs EXCEPT ![j].step = "dropping", ![j].copy = {}]
          /\ UNCHANGED loop
    /\ UNCHANGED <<rowVars, sessionVars, clients, requests, historyVars>>

\* The process ends; the next one loads the sessions of the file.
Restart ==
    /\ faults < MaxFaults
    /\ faults' = faults + 1
    /\ jobs' = [j \in Job |-> Finished]
    /\ loop' = None
    /\ live' = disk
    /\ excused' = excused \cup {m \in disk \cap DOMAIN rows : rows[m].revoked}
    /\ UNCHANGED <<rowVars, disk, clients, requests, answered>>

-----------------------------------------------------------------------------

RequestStep(j) ==
    \/ AuthUnknown(j) \/ AuthDenied(j) \/ AuthAccepted(j) \/ Touch(j)
    \/ UpsertRead(j) \/ UpsertWrite(j)
    \/ AcceptMemberEncap(j) \/ DropMemberSessions(j) \/ Snapshot(j) \/ Save(j)
    \/ UnpairRow(j) \/ UnpairUnknown(j) \/ RevokeRows(j)
    \/ ListClients(j) \/ DropClientRead(j) \/ DropClientWrite(j)
    \/ ReadFails(j) \/ WriteFails(j)

Next ==
    \/ \E m \in Member : Mint(m) \/ RemoveInactive(m) \/ Expire(m) \/ Age(m)
    \/ ClearInactive
    \/ \E j \in Job, m \in Member : \E kind \in MemberKind : Present(j, kind, m)
    \/ \E j \in Job, m \in Member, by \in Source : Unpair(j, m, by)
    \/ \E j \in Job, p \in Principal, by \in Source : Revoke(j, p, by)
    \/ \E j \in Job : RequestStep(j)
    \/ Restart

Spec == Init /\ [][Next]_vars

-----------------------------------------------------------------------------
(* Properties *)

\* A request that gets past authentication brought a token that was good when it
\* came: no race with a revocation, tombstone, pruning or restart makes a refused
\* token good again (authenticate, http._member_auth).
AcceptedWhileGood ==
    \A j \in Job :
        /\ jobs[j].kind \in MemberKind
        /\ jobs[j].step \in {"touch", "upsert", "upwrite", "key"}
        => jobs[j].good

\* "An already-revoked row keeps its first audit", and stays revoked, whatever
\* touches, tombstones or revokes it later (members.py).
RevokedForGood ==
    [][\A m \in DOMAIN rows \cap DOMAIN rows' :
          rows[m].revoked => rows'[m].revoked /\ rows'[m].by = rows[m].by]_rows

\* Removing, clearing and pruning only take what has ended: "Active and pending
\* stay" (remove_inactive, clear_inactive, _prune).
OnlyEndedRowsGo ==
    [][\A m \in DOMAIN rows :
          \/ m \notin DOMAIN rows'
          \/ rows'[m].tombstone /\ ~rows[m].tombstone
          => Ended(m)]_rows

\* The counts of revoke_principal are idempotent: two owners who revoke a principal
\* together are never both told of the same member.
ReportedOnce == \A m \in Member : answered[m] <= 1

\* m is being revoked, and its session is still to be dropped.
Dropping(m) == \E j \in Job : At(j, "pop") /\ m \in jobs[j].ids

\* A session outlives a revocation of its member only when a handshake was already
\* accepted at the revocation, or a restart brought it back from the file; once it
\* is dropped after that, it stays dropped (_drop_pq_sessions).
LeftoverHasCause ==
    \A m \in live \cap DOMAIN rows :
        rows[m].by # None /\ ~Dropping(m) => m \in excused

\* When nothing runs, a revoked member has no session: "revoking a member deletes
\* its PQ session" (members.py:434).  The code does not keep this (README,
\* Findings).
RevokedHasNoSession ==
    Quiet => \A m \in live \cap DOMAIN rows : rows[m].by = None
=============================================================================
