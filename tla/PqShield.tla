------------------------------ MODULE PqShield ------------------------------
(***************************************************************************)
(* PQ shield sessions: the key pair of the house (the recipient), the      *)
(* session of the owner and those of the members, their file               *)
(* pq_shield.json, and what a member request is allowed to carry in plain. *)
(*                                                                         *)
(* A phone fetches the public material, encapsulates a secret against it   *)
(* and posts the ciphertext; the house decapsulates it with the recipient  *)
(* it has by then.  A ciphertext for another recipient does not fail: it   *)
(* yields another secret (implicit rejection), and the house answers       *)
(* "present" all the same.  The requests run in executor threads without a *)
(* lock; only the write of the file holds one, and its content is built    *)
(* before.  Each step of a request is an action here.  ML-KEM is           *)
(* available; the length and encoding checks of the bodies pass.           *)
(***************************************************************************)
EXTENDS Naturals, FiniteSets

CONSTANTS Owner,         \* the owner's phone (one session for all owner phones)
          Members,       \* members' phones
          Job,           \* requests running at a time
          MaxKeys,       \* bound on generated key pairs
          MaxRequests,   \* bound on requests
          MaxFaults      \* bound on restarts and failed writes

ASSUME OwnerAssumption == Owner \notin Members
ASSUME BoundAssumption == MaxKeys \in Nat /\ MaxRequests \in Nat /\ MaxFaults \in Nat

VARIABLES required,   \* member_pq_required, an option nothing here changes
          feature,    \* the pq_shield option of the house
          saved,      \* the option as Home Assistant has stored it
          listener,   \* _options_updated is scheduled
          recipient,  \* the number of the key pair in memory, 0 for none
          session,    \* the sessions in memory
          disk,       \* pq_shield.json: recipient and sessions
          offered,    \* the key pair each phone holds the public half of, or 0
          jobs,
          keys, requests, faults,   \* counters: pairs generated, and the bounds
          gone,       \* history: key pairs that were replaced or lost
          overtaken,  \* history: the last write does not hold what memory holds
          late        \* history: a session may outlive the last switch-off

memory == <<recipient, session>>
historyVars == <<gone, overtaken, late>>
vars == <<required, feature, saved, listener, memory, disk, offered, jobs, keys, requests, faults,
          historyVars>>

Phone == Members \cup {Owner}

\* A session is named by the pair the phone encapsulated against and the one the
\* house decapsulated with: they hold the same secret if these are the same.
Session == [phone : 0..MaxKeys, house : 0..MaxKeys]
NoSession == [phone |-> 0, house |-> 0]
Shared(s) == s # NoSession /\ s.phone = s.house

Store == [recipient : 0..MaxKeys, session : [Phone -> Session]]
EmptyStore == [recipient |-> 0, session |-> [p \in Phone |-> NoSession]]
Memory == [recipient |-> recipient, session |-> session]

\* public   GET public            encap    POST accept_encap (owner or member)
\* rotate   POST rotate           mrotate  POST /m/pq/rotate
\* off      feature or options Off, or disable      write   a member's write
Kind == {"public", "encap", "rotate", "mrotate", "off", "write"}

\* ensure   before ensure_recipient      use     its return
\* store    the secret is derived        wipe    before disable_owner changes memory
\* renew    rotate: the new pair         pop     drop_member_sessions
\* snap     _persist builds the payload  save    _write_disk
\* body     the request awaits its body  act     the write was let in
\* copy: the payload.  then: where the request goes on after its write of the file.
\* History: seen, the memory the payload was built from; excused, a session was
\* dropped while the write was on its way.
Step == {"idle", "ensure", "use", "store", "wipe", "renew", "pop", "snap", "save", "body", "act"}
JobState == [kind : Kind, step : Step, phone : Phone, key : Session, copy : Store,
             seen : Store, then : Step, plain : BOOLEAN, excused : BOOLEAN]
Finished == [kind |-> "public", step |-> "idle", phone |-> Owner, key |-> NoSession,
             copy |-> EmptyStore,
             seen |-> EmptyStore, then |-> "idle", plain |-> FALSE, excused |-> FALSE]

TypeOK ==
    /\ required \in BOOLEAN /\ feature \in BOOLEAN /\ saved \in BOOLEAN
    /\ listener \in BOOLEAN
    /\ Memory \in Store /\ disk \in Store
    /\ offered \in [Phone -> 0..MaxKeys]
    /\ jobs \in [Job -> JobState]
    /\ keys \in 0..MaxKeys /\ requests \in 0..MaxRequests /\ faults \in 0..MaxFaults
    /\ gone \subseteq 1..MaxKeys /\ overtaken \in BOOLEAN /\ late \in BOOLEAN

Init ==
    /\ required \in BOOLEAN /\ feature = TRUE /\ saved = TRUE /\ listener = FALSE
    /\ recipient = 0 /\ session = EmptyStore.session /\ disk = EmptyStore
    /\ offered = [p \in Phone |-> 0]
    /\ jobs = [j \in Job |-> Finished]
    /\ keys = 0 /\ requests = 0 /\ faults = 0
    /\ gone = {} /\ overtaken = FALSE /\ late = FALSE

At(j, s) == jobs[j].step = s
Goto(j, s) == jobs' = [jobs EXCEPT ![j].step = s]
End(j) == jobs' = [jobs EXCEPT ![j] = Finished]
Quiet == \A j \in Job : At(j, "idle")

\* The member gate does not depend on the house's flag while members must use PQ.
ShieldOn(p) == IF p = Owner THEN feature ELSE feature \/ required

Present(p) == session[p] # NoSession
-----------------------------------------------------------------------------
(* Requests arrive: the view's gate, before the executor job.              *)

Begin(j, k, p, step) ==
    /\ At(j, "idle") /\ requests < MaxRequests
    /\ requests' = requests + 1
    /\ jobs' = [jobs EXCEPT ![j] = [Finished EXCEPT !.kind = k, !.phone = p, !.step = step]]

BeginPublic(j, p) ==
    /\ ShieldOn(p)
    /\ Begin(j, "public", p, "ensure")
    /\ UNCHANGED <<required, feature, saved, listener, memory, disk, offered, keys, faults,
                   historyVars>>

\* The phone encapsulates against the pair it was offered; the gate of the view
\* and that of accept_encap have the body's await between them.
BeginEncap(j, p) ==
    /\ ShieldOn(p) /\ offered[p] # 0
    /\ At(j, "idle") /\ requests < MaxRequests
    /\ requests' = requests + 1
    /\ jobs' = [jobs EXCEPT ![j] = [Finished EXCEPT !.kind = "encap", !.phone = p, !.step = "body",
                                                    !.key.phone = offered[p]]]
    /\ UNCHANGED <<required, feature, saved, listener, memory, disk, offered, keys, faults,
                   historyVars>>

EncapBody(j) ==
    /\ At(j, "body") /\ jobs[j].kind = "encap"
    /\ IF ShieldOn(jobs[j].phone) THEN Goto(j, "ensure") ELSE End(j)
    /\ UNCHANGED <<required, feature, saved, listener, memory, disk, offered, keys, requests,
                   faults, historyVars>>

BeginRotate(j) ==
    /\ ShieldOn(Owner)
    /\ Begin(j, "rotate", Owner, "wipe")
    /\ UNCHANGED <<required, feature, saved, listener, memory, disk, offered, keys, faults,
                   historyVars>>

BeginMemberRotate(j, p) ==
    /\ p \in Members /\ ShieldOn(p)
    /\ Begin(j, "mrotate", p, "pop")
    /\ UNCHANGED <<required, feature, saved, listener, memory, disk, offered, keys, faults,
                   historyVars>>

\* _pq_gate: 428 before anything else.
BeginWrite(j, p) ==
    /\ p \in Members
    /\ ~(ShieldOn(p) /\ required /\ ~Present(p))
    /\ Begin(j, "write", p, "body")
    /\ UNCHANGED <<required, feature, saved, listener, memory, disk, offered, keys, faults,
                   historyVars>>

BeginDisable(j) ==
    /\ Begin(j, "off", Owner, "wipe")
    /\ UNCHANGED <<required, feature, saved, listener, memory, disk, offered, keys, faults,
                   historyVars>>

\* POST feature: the option changes and its listener is scheduled; Off also runs
\* flag_off itself.
FeatureOff(j) ==
    /\ feature
    /\ Begin(j, "off", Owner, "wipe")
    /\ feature' = FALSE /\ listener' = TRUE
    /\ UNCHANGED <<required, saved, memory, disk, offered, keys, faults, historyVars>>

FeatureOn ==
    /\ ~feature /\ requests < MaxRequests
    /\ requests' = requests + 1
    /\ feature' = TRUE /\ listener' = TRUE
    /\ UNCHANGED <<required, saved, memory, disk, offered, jobs, keys, faults, historyVars>>

\* Home Assistant writes its entries after a delay, and when it stops.
SaveEntry ==
    /\ saved # feature
    /\ saved' = feature
    /\ UNCHANGED <<required, feature, listener, memory, disk, offered, jobs, keys, requests,
                   faults, historyVars>>

OptionsUpdated(j) ==
    /\ listener /\ At(j, "idle")
    /\ listener' = FALSE
    /\ IF feature THEN UNCHANGED jobs
       ELSE jobs' = [jobs EXCEPT ![j] = [Finished EXCEPT !.kind = "off", !.step = "wipe"]]
    /\ UNCHANGED <<required, feature, saved, memory, disk, offered, keys, requests, faults,
                   historyVars>>
-----------------------------------------------------------------------------
(* The key pair.                                                           *)

\* The recipient in memory becomes r.
Replace(r) ==
    /\ recipient' = r
    /\ gone' = gone \cup ({recipient} \ {0, r})

\* Seeded fault (each Fault... definition is a bug a property must notice): the
\* new pair is not persisted.
FaultGenerated == "use"

Generated == "snap"

\* ensure_recipient: two requests may both find none.
Ensure(j) ==
    /\ At(j, "ensure")
    /\ IF recipient # 0 THEN Goto(j, "use")
       ELSE jobs' = [jobs EXCEPT ![j].step = "renew", ![j].then = "use"]
    /\ UNCHANGED <<required, feature, saved, listener, memory, disk, offered, keys, requests,
                   faults, historyVars>>

Renew(j) ==
    /\ At(j, "renew") /\ keys < MaxKeys
    /\ keys' = keys + 1
    /\ Replace(keys + 1)
    /\ Goto(j, Generated)
    /\ UNCHANGED <<required, feature, saved, listener, session, disk, offered, requests, faults,
                   overtaken, late>>

\* Its return: the pair that is there by then; without one the request fails.
UsePublic(j) ==
    /\ At(j, "use") /\ jobs[j].kind \in {"public", "mrotate"}
    /\ offered' = [offered EXCEPT ![jobs[j].phone] = recipient]
    /\ End(j)
    /\ UNCHANGED <<required, feature, saved, listener, memory, disk, keys, requests, faults,
                   historyVars>>

UseEncap(j) ==
    /\ At(j, "use") /\ jobs[j].kind = "encap"
    /\ IF recipient = 0 THEN End(j)
       ELSE jobs' = [jobs EXCEPT ![j].step = "store", ![j].key.house = recipient]
    /\ UNCHANGED <<required, feature, saved, listener, memory, disk, offered, keys, requests,
                   faults, historyVars>>

StoreSession(j) ==
    /\ At(j, "store")
    /\ session' = [session EXCEPT ![jobs[j].phone] = jobs[j].key]
    /\ jobs' = [jobs EXCEPT ![j].step = "snap", ![j].then = "idle"]
    /\ UNCHANGED <<required, feature, saved, listener, recipient, disk, offered, keys, requests,
                   faults, historyVars>>
-----------------------------------------------------------------------------
(* Wiping.                                                                 *)

\* An owner's handshake past its last gate when the owner's session goes.
OwnerEncapOpen == \E i \in Job : /\ jobs[i].kind = "encap" /\ jobs[i].phone = Owner
                                 /\ jobs[i].step \in {"ensure", "use", "store", "renew", "snap", "save"}

\* Sessions dropped while a member's write is on its way.
Excuse(i, dropped) ==
    IF jobs[i].kind = "write" /\ jobs[i].phone \in dropped
    THEN [jobs[i] EXCEPT !.excused = TRUE] ELSE jobs[i]

\* rotate: the owner's session, then a new pair.
RotateWipe(j) ==
    /\ At(j, "wipe") /\ jobs[j].kind = "rotate"
    /\ session' = [session EXCEPT ![Owner] = NoSession]
    /\ jobs' = [jobs EXCEPT ![j].step = "renew", ![j].then = "idle"]
    /\ UNCHANGED <<required, feature, saved, listener, recipient, disk, offered, keys, requests,
                   faults, historyVars>>

\* disable_owner: the owner's session; everything, and an empty file, when
\* members need no PQ.
DisableOwner(j) ==
    /\ At(j, "wipe") /\ jobs[j].kind = "off"
    /\ late' = OwnerEncapOpen
    /\ IF required
       THEN /\ session' = [session EXCEPT ![Owner] = NoSession]
            /\ jobs' = [jobs EXCEPT ![j].step = "snap", ![j].then = "idle"]
            /\ UNCHANGED <<recipient, gone>>
       ELSE /\ session' = EmptyStore.session
            /\ Replace(0)
            /\ jobs' = [i \in Job |->
                          IF i = j THEN [jobs[j] EXCEPT !.step = "save", !.copy = EmptyStore,
                                                        !.seen = EmptyStore, !.then = "idle"]
                          ELSE Excuse(i, Members)]
    /\ UNCHANGED <<required, feature, saved, listener, disk, offered, keys, requests, faults,
                   overtaken>>

DropMemberSession(j) ==
    /\ At(j, "pop")
    /\ LET p == jobs[j].phone
       IN  /\ session' = [session EXCEPT ![p] = NoSession]
           /\ jobs' = [i \in Job |->
                         IF i = j THEN [jobs[j] EXCEPT !.step = IF Present(p) THEN "snap" ELSE "ensure",
                                                       !.then = "ensure"]
                         ELSE Excuse(i, {p})]
    /\ UNCHANGED <<required, feature, saved, listener, recipient, disk, offered, keys, requests,
                   faults, historyVars>>
-----------------------------------------------------------------------------
(* The file.                                                               *)

\* Seeded fault: the owner's session is written even when it is none, as it was.
FaultPayload == [Memory EXCEPT !.session[Owner] = IF @ = NoSession THEN disk.session[Owner] ELSE @]

Payload == Memory

Snapshot(j) ==
    /\ At(j, "snap")
    /\ jobs' = [jobs EXCEPT ![j].copy = Payload, ![j].seen = Memory, ![j].step = "save"]
    /\ UNCHANGED <<required, feature, saved, listener, memory, disk, offered, keys, requests,
                   faults, historyVars>>

Continue(j) == IF jobs[j].then = "idle" THEN End(j) ELSE Goto(j, jobs[j].then)

Save(j) ==
    /\ At(j, "save")
    /\ disk' = jobs[j].copy
    /\ overtaken' = (jobs[j].seen # Memory)
    /\ Continue(j)
    /\ UNCHANGED <<required, feature, saved, listener, memory, offered, keys, requests, faults,
                   gone, late>>

\* The write raises: the request fails, memory keeps what it has.
SaveFails(j) ==
    /\ At(j, "save") /\ faults < MaxFaults
    /\ faults' = faults + 1
    /\ overtaken' = TRUE
    /\ End(j)
    /\ UNCHANGED <<required, feature, saved, listener, memory, disk, offered, keys, requests,
                   gone, late>>

\* A restart drops the requests and loads the file and the stored option; a clean
\* one comes after SaveEntry.  It loses what a request had not written yet.  Setup
\* wipes nothing: an older Off that comes back finds the session of the owner.
Restart ==
    /\ faults < MaxFaults
    /\ faults' = faults + 1
    /\ feature' = saved /\ listener' = FALSE
    /\ recipient' = disk.recipient /\ session' = disk.session
    /\ jobs' = [j \in Job |-> Finished]
    /\ LET cut == overtaken \/ ~Quiet
       IN  /\ gone' = IF cut THEN gone \cup (1..keys \ {disk.recipient}) ELSE gone
           /\ late' = (late \/ cut \/ listener \/ (feature /\ ~saved))
    /\ overtaken' = FALSE
    /\ UNCHANGED <<required, saved, disk, offered, keys, requests>>
-----------------------------------------------------------------------------
(* A member's write: open_body.                                            *)

\* Seeded fault: the session is asked for only when the house's flag is on.
FaultSealedMode(p) == feature /\ Present(p)

\* A member with a session must seal.
SealedMode(p) == ShieldOn(p) /\ Present(p)

\* A plain body is refused in sealed mode; an envelope opens with the member's
\* session alone.
OpenBody(j, plain) ==
    /\ At(j, "body") /\ jobs[j].kind = "write"
    /\ LET p == jobs[j].phone
           opens == IF plain THEN ~SealedMode(p) ELSE ShieldOn(p) /\ Shared(session[p])
       IN  IF opens THEN jobs' = [jobs EXCEPT ![j].step = "act", ![j].plain = plain] ELSE End(j)
    /\ UNCHANGED <<required, feature, saved, listener, memory, disk, offered, keys, requests,
                   faults, historyVars>>

\* The handler does its work and answers.
Act(j) ==
    /\ At(j, "act")
    /\ End(j)
    /\ UNCHANGED <<required, feature, saved, listener, memory, disk, offered, keys, requests,
                   faults, historyVars>>
-----------------------------------------------------------------------------
Next ==
    \/ \E j \in Job :
          \/ \E p \in Phone : BeginPublic(j, p) \/ BeginEncap(j, p) \/ BeginMemberRotate(j, p)
                                \/ BeginWrite(j, p)
          \/ EncapBody(j) \/ BeginRotate(j) \/ BeginDisable(j) \/ FeatureOff(j) \/ OptionsUpdated(j)
          \/ Ensure(j) \/ Renew(j) \/ UsePublic(j) \/ UseEncap(j) \/ StoreSession(j)
          \/ RotateWipe(j) \/ DisableOwner(j) \/ DropMemberSession(j)
          \/ Snapshot(j) \/ Save(j) \/ SaveFails(j)
          \/ \E plain \in BOOLEAN : OpenBody(j, plain)
          \/ Act(j)
    \/ FeatureOn \/ SaveEntry
    \/ Restart

Spec == Init /\ [][Next]_vars
-----------------------------------------------------------------------------
\* A session no phone can open exists only for a phone whose key pair was replaced
\* between the public material it fetched and the ciphertext it posted: by a
\* rotation, a full wipe, a second request that generated a pair at the same time,
\* or a restart that came before the pair was written.
GarbledHasCause == \A p \in Phone : session[p].phone # session[p].house => session[p].phone \in gone

\* With the shield off and nothing running, the owner's session is gone from
\* memory and from the file, unless a handshake of the owner was past its last
\* check when it was wiped, the last write was overtaken, failed or cut, or a
\* restart lost the switch itself: its listener had not run, or the shield had been
\* turned on again and the stored entry still said Off.
OffMeansGone ==
    (Quiet /\ ~listener /\ ~feature /\ ~late)
    => /\ ~Present(Owner)
       /\ overtaken \/ disk.session[Owner] = NoSession

\* While members must use PQ, a plain write reaches its handler only if the
\* member's session was dropped after the request had passed the gate.
PlainWriteHasCause ==
    required => \A j \in Job : At(j, "act") /\ jobs[j].plain => jobs[j].excused
=============================================================================
