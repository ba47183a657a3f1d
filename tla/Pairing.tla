------------------------------ MODULE Pairing ------------------------------
(***************************************************************************)
(* A phone's life with the house: the panel mints a Home Assistant         *)
(* credential and puts it under a single-use ticket, a phone claims the    *)
(* ticket and reports, the panel renames or unpairs it, the phone is told  *)
(* once, and its credential and its row go.                                *)
(*                                                                         *)
(* The event loop runs a handler without interruption up to its next       *)
(* await; ticket claims and chat posts run in executor threads.  A request *)
(* that does not end in one section is a job here, and each of its         *)
(* sections an action.  ios_session.json (doc) has two kinds of writers:   *)
(* the session fields are merged under STORE_LOCK and never into a file    *)
(* that cannot be read; the client rows are read, changed and written      *)
(* whole without that lock, and such a file reads as an empty one.         *)
(*                                                                         *)
(* A refresh-token id stands for the token, its ticket and its client row. *)
(* All tokens are the owner's and are named "Patrimony iOS".  A restart    *)
(* lets the queued writes finish.  The limiter of claims is left out.      *)
(***************************************************************************)
EXTENDS Naturals, Sequences, SequencesExt

CONSTANTS
    Token,        \* refresh-token ids
    HandMade,     \* long-lived tokens made by hand under the same client name
    Addr,         \* request addresses
    Job,          \* requests running at a time
    None,
    IssuedMax,    \* PAIR_ISSUED_MAX
    MaxRequests,  \* bound on requests
    MaxFaults     \* bound on restarts, failed writes and unreadable files

ASSUME TokenAssumption == HandMade \subseteq Token
ASSUME NoneAssumption == None \notin Token \cup Addr \cup Job
ASSUME BoundAssumption == IssuedMax \in Nat \ {0} /\ MaxRequests \in Nat /\ MaxFaults \in Nat

VARIABLES
    auth,      \* the refresh tokens Home Assistant holds
    minted,    \* ids a mint has created
    tickets,   \* pair_tickets.json: ids with a ticket
    lapsed,    \* tickets past their exp
    grace,     \* pair_claim_grace: the address each claimed id was given to
    over,      \* grace entries past their end
    doc,       \* ios_session.json
    issued,    \* pair_issued.json, newest last
    lookups,   \* addresses whose reverse lookup runs
    jobs, requests, faults,
    ticketed,  \* history: ids ever put under a ticket
    holders,   \* history: the addresses each id's payload was sent to
    unpaired,  \* history: ids the panel unpaired
    raced,     \* history: ids whose row a chat post's unlocked write or a damaged file
               \* put back or lost
    cut        \* history: ids whose unpair service a restart cut short

ticketVars == <<tickets, lapsed, grace, over>>
historyVars == <<ticketed, holders, unpaired, raced, cut>>
vars == <<auth, minted, ticketVars, doc, issued, lookups, jobs, requests, faults, historyVars>>

Row == [active : BOOLEAN, served : BOOLEAN, edited : BOOLEAN]
NewRow == [active |-> TRUE, served |-> FALSE, edited |-> FALSE]
Rows == UNION {[S -> Row] : S \in SUBSET Token}

\* host: the address whose name is stored as hostname.  bad: does not parse.
Doc == [rows : Rows, ip : Addr \cup {None}, host : Addr \cup {None}, bad : BOOLEAN]
EmptyDoc == [rows |-> [t \in {} |-> NewRow], ip |-> None, host |-> None, bad |-> FALSE]

\* drop    mint_pairing: _drop_existing      create  ... before create_refresh
\* ticket  ... before put_ticket             claim   claim_with_grace, before its lock
\* beat    POST ios_session, body awaited    look    client_sender_label
\* read    upsert_client, before its read    write   ... before its write
\* revoke  note_unpair_served, row marked    row     ... before _drop_client_row
Step == {"idle", "drop", "create", "ticket", "claim", "beat", "look", "read", "write",
         "revoke", "row"}

\* ids: tokens to remove, or the grace entries that were over when a claim came.
\* copy: the document as upsert_client read it.
JobState == [step : Step, t : Token \cup {None}, ip : Addr \cup {None}, ids : SUBSET Token,
             copy : Doc \cup {None}]
Idle == [step |-> "idle", t |-> None, ip |-> None, ids |-> {}, copy |-> None]

TypeOK ==
    /\ auth \subseteq Token /\ minted \subseteq Token \ HandMade
    /\ lapsed \subseteq tickets /\ tickets \subseteq minted
    /\ over \subseteq DOMAIN grace /\ grace \in [DOMAIN grace -> Addr]
    /\ doc \in Doc /\ (doc.bad => DOMAIN doc.rows = {})
    /\ Len(issued) <= IssuedMax /\ IsInjective(issued) /\ ToSet(issued) \subseteq minted
    /\ lookups \subseteq Addr
    /\ jobs \in [Job -> JobState]
    /\ requests \in 0..MaxRequests /\ faults \in 0..MaxFaults
    /\ tickets \subseteq ticketed /\ ticketed \subseteq minted
    /\ holders \in [Token -> SUBSET Addr]
    /\ unpaired \subseteq Token /\ raced \subseteq Token /\ cut \subseteq Token

Init ==
    /\ auth = HandMade /\ minted = {}
    /\ tickets = {} /\ lapsed = {} /\ over = {}
    /\ grace = [t \in {} |-> None]
    /\ doc = EmptyDoc /\ issued = <<>> /\ lookups = {}
    /\ jobs = [j \in Job |-> Idle]
    /\ requests = 0 /\ faults = 0
    /\ ticketed = {} /\ holders = [t \in Token |-> {}]
    /\ unpaired = {} /\ raced = {} /\ cut = {}

At(j, s) == jobs[j].step = s
Goto(j, s) == jobs' = [jobs EXCEPT ![j].step = s]
End(j) == jobs' = [jobs EXCEPT ![j] = Idle]
Request == requests < MaxRequests /\ requests' = requests + 1
Start(j, state) == At(j, "idle") /\ Request /\ jobs' = [jobs EXCEPT ![j] = state]
Fault == faults < MaxFaults /\ faults' = faults + 1
NoFault == UNCHANGED faults

\* get_client: the row of t, if there is one.
RowOf(d, t) == {d.rows[k] : k \in {t} \cap DOMAIN d.rows}

\* A credential in a phone: one it claimed, or one its user made and typed in.
InPhone(t) == t \in auth /\ (holders[t] # {} \/ t \in HandMade)

-----------------------------------------------------------------------------
(* The client rows *)

\* Seeded fault (a Fault... definition is a bug a property must notice): a report makes
\* an unpaired row active.
FaultUpserted(d, t) ==
    [d EXCEPT !.bad = FALSE,
              !.rows = [k \in DOMAIN d.rows \cup {t} |->
                          IF k \in DOMAIN d.rows \ {t} THEN d.rows[k] ELSE NewRow]]

\* upsert_client: an unpaired row stays unpaired, an edited name stays.
Upserted(d, t) ==
    [d EXCEPT !.bad = FALSE,
              !.rows = [k \in DOMAIN d.rows \cup {t} |->
                          IF k \in DOMAIN d.rows THEN d.rows[k] ELSE NewRow]]

\* Seeded faults: a report may always create the row; served rows stay; the list of
\* issued ids is not cut.
FaultMayCreate(t) == TRUE
FaultDropped(d, t) == [d EXCEPT !.bad = FALSE]
FaultNoted(t) == Append(RemoveFirst(issued, t), t)

\* rename_client, mark_unpaired, and note_unpair_served with its mark
Renamed(d, t) == [d EXCEPT !.rows[t].edited = TRUE]
Unpaired(d, t) == [d EXCEPT !.rows[t].active = FALSE, !.rows[t].served = FALSE]
Served(d, t) == [d EXCEPT !.rows[t].served = TRUE]

\* is_pair_issued
MayCreate(t) == t \in ToSet(issued)

\* _drop_client_row
Dropped(d, t) ==
    [d EXCEPT !.bad = FALSE,
              !.rows = [k \in DOMAIN d.rows \ {t} |-> d.rows[k]]]

\* note_pair_issued, without the id if it is there (no id is there twice: TypeOK)
Noted(t) == LET all == Append(RemoveFirst(issued, t), t)
            IN  SubSeq(all, Max({1, Len(all) - IssuedMax + 1}), Len(all))

\* forget_pair_issued
Forgotten(t) == RemoveFirst(issued, t)

\* update_store: a document that cannot be read is left alone.
Updated(d, e) == IF d.bad THEN d ELSE e

-----------------------------------------------------------------------------
(* Minting: the loop, with an await between any two sections *)

MintBegin(j) ==
    /\ Start(j, [Idle EXCEPT !.step = "drop", !.ids = auth])
    /\ UNCHANGED <<auth, minted, ticketVars, doc, issued, lookups, faults, historyVars>>

MintDrop(j) ==
    /\ At(j, "drop")
    /\ IF jobs[j].ids = {} THEN Goto(j, "create") /\ UNCHANGED auth
       ELSE \E t \in jobs[j].ids :
              /\ auth' = auth \ {t}
              /\ jobs' = [jobs EXCEPT ![j].ids = @ \ {t}]
    /\ UNCHANGED <<minted, ticketVars, doc, issued, lookups, requests, faults, historyVars>>

\* Home Assistant refuses a second long-lived token of one name; the mint ends in 501.
MintRefused(j) ==
    /\ At(j, "create") /\ auth # {}
    /\ End(j)
    /\ UNCHANGED <<auth, minted, ticketVars, doc, issued, lookups, requests, faults, historyVars>>

\* The token, its id among the issued ones, and its row.  A failure to record is logged only.
MintCreate(j) ==
    /\ At(j, "create") /\ auth = {}
    /\ \E t \in Token \ (minted \cup HandMade) :
         /\ auth' = {t}
         /\ minted' = minted \cup {t}
         /\ \/ NoFault /\ issued' = Noted(t) /\ doc' = Upserted(doc, t)
            \/ Fault /\ issued' = Noted(t) /\ UNCHANGED doc
            \/ Fault /\ UNCHANGED <<issued, doc>>
         /\ jobs' = [jobs EXCEPT ![j].step = "ticket", ![j].t = t]
    /\ UNCHANGED <<ticketVars, lookups, requests, historyVars>>

\* put_ticket, in an executor thread under _LOCK; 503 when the store fails.
MintTicket(j) ==
    /\ At(j, "ticket")
    /\ \/ /\ NoFault
          /\ tickets' = (tickets \ lapsed) \cup {jobs[j].t}
          /\ lapsed' = {}
          /\ ticketed' = ticketed \cup {jobs[j].t}
       \/ Fault /\ UNCHANGED <<tickets, lapsed, ticketed>>
    /\ End(j)
    /\ UNCHANGED <<auth, minted, grace, over, doc, issued, lookups, requests, holders, unpaired,
                   raced, cut>>

-----------------------------------------------------------------------------
(* Claiming *)

TicketLapses(t) ==
    /\ t \in tickets \ lapsed
    /\ lapsed' = lapsed \cup {t}
    /\ UNCHANGED <<auth, minted, tickets, grace, over, doc, issued, lookups, jobs, requests,
                   faults, historyVars>>

GraceEnds(t) ==
    /\ t \in DOMAIN grace \ over
    /\ over' = over \cup {t}
    /\ UNCHANGED <<auth, minted, tickets, lapsed, grace, doc, issued, lookups, jobs, requests,
                   faults, historyVars>>

\* The grace clock is read before the lock is taken.
ClaimBegin(j) ==
    /\ \E t \in minted, ip \in Addr :
         Start(j, [Idle EXCEPT !.step = "claim", !.t = t, !.ip = ip, !.ids = over])
    /\ UNCHANGED <<auth, minted, ticketVars, doc, issued, lookups, faults, historyVars>>

\* claim_ticket: the row is consumed even if it has lapsed, and lapsed ones are pruned.
Consumed(t) == tickets \ (lapsed \cup {t})

\* Seeded fault: the grace answers any address.
FaultGiven(t, ip, kept) == t \in kept \/ t \in tickets \ lapsed

\* claim_with_grace under _LOCK, with the grace entries it keeps: is the claim answered?
Given(t, ip, kept) == IF t \in kept THEN grace[t] = ip ELSE t \in tickets \ lapsed

ClaimRun(j) ==
    LET t == jobs[j].t
        ip == jobs[j].ip
        kept == DOMAIN grace \ jobs[j].ids
    IN  /\ At(j, "claim")
        /\ tickets' = IF t \in kept THEN tickets ELSE Consumed(t)
        /\ lapsed' = lapsed \cap tickets'
        /\ grace' = [k \in kept \cup (IF Given(t, ip, kept) THEN {t} ELSE {}) |->
                       IF k \in kept THEN grace[k] ELSE ip]
        /\ over' = over \cap kept
        /\ holders' = IF Given(t, ip, kept) THEN [holders EXCEPT ![t] = @ \cup {ip}]
                      ELSE holders
        /\ End(j)
        /\ UNCHANGED <<auth, minted, doc, issued, lookups, requests, faults, ticketed, unpaired,
                       raced, cut>>

\* The store cannot be read (no answer) or written (an exception): the ticket stays.
ClaimFails(j) ==
    LET kept == DOMAIN grace \ jobs[j].ids
    IN  /\ At(j, "claim") /\ jobs[j].t \notin kept
        /\ Fault
        /\ grace' = [k \in kept |-> grace[k]]
        /\ over' = over \cap kept
        /\ End(j)
        /\ UNCHANGED <<auth, minted, tickets, lapsed, doc, issued, lookups, requests, historyVars>>

-----------------------------------------------------------------------------
(* Reports from a phone: the loop, the body awaited after authentication *)

HeartbeatBegin(j) ==
    /\ \E t \in {k \in Token : InPhone(k)}, ip \in Addr :
         Start(j, [Idle EXCEPT !.step = "beat", !.t = t, !.ip = ip])
    /\ UNCHANGED <<auth, minted, ticketVars, doc, issued, lookups, faults, historyVars>>

\* persist_ios_session, the reverse lookup started, upsert_client.
Persisted(d, ip) == Updated(d, [d EXCEPT !.ip = ip, !.host = None])

Heartbeat(j) ==
    LET t == jobs[j].t
        d == Persisted(doc, jobs[j].ip)
    IN  /\ At(j, "beat")
        /\ doc' = IF t \in DOMAIN d.rows \/ MayCreate(t) THEN Upserted(d, t) ELSE d
        /\ lookups' = lookups \cup {jobs[j].ip}
        /\ End(j)
        /\ UNCHANGED <<auth, minted, ticketVars, issued, requests, faults, historyVars>>

\* Seeded fault: the name is stored whatever the address is by now.
FaultResolved(d, ip) == IF d.bad THEN d ELSE [d EXCEPT !.host = ip]

\* store_resolved_hostname, for an address that has a name.
Resolved(d, ip) == Updated(d, IF d.ip = ip THEN [d EXCEPT !.host = ip] ELSE d)

LookupEnds(ip) ==
    /\ ip \in lookups
    /\ lookups' = lookups \ {ip}
    /\ doc' \in {doc, Resolved(doc, ip)}
    /\ UNCHANGED <<auth, minted, ticketVars, issued, jobs, requests, faults, historyVars>>

-----------------------------------------------------------------------------
(* The panel *)

Rename(t) ==
    /\ t \in DOMAIN doc.rows /\ doc.rows[t].active
    /\ ~doc.rows[t].edited
    /\ Request
    /\ doc' = Renamed(doc, t)
    /\ UNCHANGED <<auth, minted, ticketVars, issued, lookups, jobs, faults, historyVars>>

Unpair(t) ==
    /\ t \in DOMAIN doc.rows
    /\ Request
    /\ doc' = Unpaired(doc, t)
    /\ unpaired' = unpaired \cup {t}
    /\ UNCHANGED <<auth, minted, ticketVars, issued, lookups, jobs, faults, ticketed, holders,
                   raced, cut>>

-----------------------------------------------------------------------------
(* Telling the phone: GET pairing of an unpaired row, note_unpair_served *)

\* A chat post has decided to upsert the row of t.
Upserting(j, t) == jobs[j].step \in {"read", "write"} /\ jobs[j].t = t

\* A row already marked served is answered without the rest.
ServeBegin(j) ==
    /\ \E t \in {k \in DOMAIN doc.rows : InPhone(k)} :
         /\ ~doc.rows[t].active /\ ~doc.rows[t].served
         /\ doc' = Served(doc, t)
         /\ Start(j, [Idle EXCEPT !.step = "revoke", !.t = t])
    /\ UNCHANGED <<auth, minted, ticketVars, issued, lookups, faults, historyVars>>

\* _revoke_refresh_token: a failure is logged and the service goes on.
ServeRevoke(j) ==
    /\ At(j, "revoke")
    /\ \/ NoFault /\ auth' = auth \ {jobs[j].t}
       \/ Fault /\ UNCHANGED auth
    /\ Goto(j, "row")
    /\ UNCHANGED <<minted, ticketVars, doc, issued, lookups, requests, historyVars>>

ServeDrop(j) ==
    /\ At(j, "row")
    /\ doc' = Dropped(doc, jobs[j].t)
    /\ issued' = Forgotten(jobs[j].t)
    /\ raced' = raced \cup {t \in {jobs[j].t} : \E k \in Job : Upserting(k, t)}
    /\ End(j)
    /\ UNCHANGED <<auth, minted, ticketVars, lookups, requests, faults, ticketed, holders,
                   unpaired, cut>>

-----------------------------------------------------------------------------
(* The sender of a chat post: client_sender_label in an executor thread *)

ChatBegin(j) ==
    /\ \E t \in {k \in Token : InPhone(k)} :
         Start(j, [Idle EXCEPT !.step = "look", !.t = t])
    /\ UNCHANGED <<auth, minted, ticketVars, doc, issued, lookups, faults, historyVars>>

\* An active row with a stock name is improved; an issued id without an active row is
\* registered.  Otherwise, or with no usable device name, the post only gets its label.
ChatLook(j) ==
    LET t == jobs[j].t
        active == {row \in RowOf(doc, t) : row.active}
        upserts == IF active # {} THEN \E row \in active : ~row.edited ELSE MayCreate(t)
    IN  /\ At(j, "look")
        /\ \/ upserts /\ Goto(j, "read")
           \/ End(j)
        /\ UNCHANGED <<auth, minted, ticketVars, doc, issued, lookups, requests, faults,
                       historyVars>>

ChatRead(j) ==
    /\ At(j, "read")
    /\ jobs' = [jobs EXCEPT ![j].step = "write", ![j].copy = doc]
    /\ UNCHANGED <<auth, minted, ticketVars, doc, issued, lookups, requests, faults, historyVars>>

ChatWrite(j) ==
    LET copy == jobs[j].copy
    IN  /\ At(j, "write")
        /\ doc' = Upserted(copy, jobs[j].t)
        /\ raced' = raced \cup {k \in Token : RowOf(copy, k) # RowOf(doc, k)}
        /\ End(j)
        /\ UNCHANGED <<auth, minted, ticketVars, issued, lookups, requests, faults, ticketed,
                       holders, unpaired, cut>>

-----------------------------------------------------------------------------
(* Faults *)

\* ios_session.json no longer parses.
Damage ==
    /\ Fault
    /\ doc' = [EmptyDoc EXCEPT !.bad = TRUE]
    /\ raced' = raced \cup DOMAIN doc.rows
    /\ UNCHANGED <<auth, minted, ticketVars, issued, lookups, jobs, requests, ticketed,
                   holders, unpaired, cut>>

Restart ==
    /\ Fault
    /\ grace' = [t \in {} |-> None] /\ over' = {} /\ lookups' = {}
    /\ jobs' = [j \in Job |-> Idle]
    /\ cut' = cut \cup {jobs[j].t : j \in {k \in Job : jobs[k].step \in {"revoke", "row"}}}
    /\ UNCHANGED <<auth, minted, tickets, lapsed, doc, issued, requests, ticketed, holders, unpaired,
                   raced>>

JobStep(j) ==
    \/ MintDrop(j) \/ MintRefused(j) \/ MintCreate(j) \/ MintTicket(j)
    \/ ClaimRun(j) \/ ClaimFails(j)
    \/ Heartbeat(j)
    \/ ServeRevoke(j) \/ ServeDrop(j)
    \/ ChatLook(j) \/ ChatRead(j) \/ ChatWrite(j)

Arrival(j) == MintBegin(j) \/ ClaimBegin(j) \/ HeartbeatBegin(j) \/ ServeBegin(j) \/ ChatBegin(j)

Next ==
    \/ \E j \in Job : JobStep(j) \/ Arrival(j)
    \/ \E t \in Token : TicketLapses(t) \/ GraceEnds(t) \/ Rename(t) \/ Unpair(t)
    \/ \E ip \in Addr : LookupEnds(ip)
    \/ Damage \/ Restart

Spec == Init /\ [][Next]_vars

-----------------------------------------------------------------------------
(* Properties *)

Promise == INSTANCE SingleUse
           WITH Ticket <- Token, Holder <- Addr, open <- tickets \ lapsed,
                issued <- ticketed

\* A code hands its token to one address only, and to nobody after it lapsed, through
\* claims in parallel, replays, failing writes and a restart that forgets the grace.
SingleUseKept == Promise!Spec

\* The row of a phone the panel unpaired is never active again, whatever the phone
\* reports before, during or after its service, unless a chat post's unlocked write
\* or an unreadable file put it back.
UnpairStands ==
    \A t \in (unpaired \ raced) \cap DOMAIN doc.rows : ~doc.rows[t].active

\* An unpaired id does not come back: what _drop_client_row says of forget_pair_issued.
\* The code does not keep this (README, Findings).
UnpairedNeverReturns ==
    \A t \in unpaired \cap DOMAIN doc.rows : ~doc.rows[t].active

\* A row marked served is being served.  Only a restart between the mark and the end,
\* or a chat post that writes the row back, leaves one, and no later poll serves it.
ServedIsServing ==
    \A t \in DOMAIN doc.rows \ (raced \cup cut) :
        doc.rows[t].served => \E j \in Job : jobs[j].step \in {"revoke", "row"} /\ jobs[j].t = t

\* Only ids a mint created have a row, however a credential made by hand is used, and
\* the stored hostname is the name of the stored address, however late it arrives.
DocumentSound == /\ DOMAIN doc.rows \subseteq minted
                 /\ doc.host \in {None, doc.ip}
=============================================================================
