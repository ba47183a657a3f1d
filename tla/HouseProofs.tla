----------------------------- MODULE HouseProofs -----------------------------
(***************************************************************************)
(* Proofs about two components that share no state: HousePush, for any     *)
(* keys, ids and pushes, any length of the log and number of attempts; and *)
(* HouseMapping with the operators of MappingRows, for any cards, titles,  *)
(* items, sources and calendars, lists of any length, any protected items  *)
(* and any limits.                                                         *)
(*                                                                         *)
(* HousePush: Typed adds to TypeOK which pushes have a timer.  On it rest  *)
(* the status of the key (Sent), the evidence of the claim (Witnessed) and *)
(* the log (RetryPromiseKept is inductive by itself).                      *)
(*                                                                         *)
(* HouseMapping: every operator takes the elements at a set of positions   *)
(* (Pick), so what it keeps follows from one lemma that counts along a     *)
(* total order (Numbered).  Collapsing gives a settled document: cards of  *)
(* one title and one id each, rows of one item and one source each, the    *)
(* ranks assigned; collapsing a settled document changes nothing.  The     *)
(* types are inductive, what is served is settled in every typed state,    *)
(* and with the types the invariant of the activity ring is inductive.     *)
(***************************************************************************)
EXTENDS HousePush, HouseMapping, SequenceTheorems, FiniteSetTheorems, TLAPS

Notify == [installed : BOOLEAN, rejected : Key \cup {NoKey}, log : Seq(LogRow), bad : BOOLEAN]

\* A push under way has a key; a timer belongs to a chat push that may try again.
PushShape(s) == /\ s.phase \notin {"idle", "over"} => s.key \in Key
                /\ s.phase = "wait" => s.chat /\ s.attempt < MaxAttempts
                /\ s.attempt > 1 => s.chat

Typed ==
    /\ backend \in Key \cup {NoKey} /\ entry \in Entry /\ saved \in Entry
    /\ notify \in Notify /\ Len(notify.log) <= LogMax
    /\ notify.bad => notify.rejected = NoKey /\ notify.log = <<>> /\ ~notify.installed
    /\ session \in [installs : BOOLEAN, rows : BOOLEAN]
    /\ pushes \in [Push -> Sending]
    /\ \A p \in Push : PushShape(pushes[p])
    /\ faults \in 0..MaxFaults
    /\ claimed \in BOOLEAN /\ erased \subseteq Stores
    /\ late \subseteq Key /\ lost \subseteq Push

-----------------------------------------------------------------------------
(* Type correctness. *)

LEMMA UnsentType == /\ Unsent \in Sending /\ Over \in Sending
                    /\ Unsent.phase = "idle" /\ Over.phase = "over" /\ Over.attempt = 1
                    /\ Unsent.attempt = 1
<1>1. 1 \in 1..MaxAttempts
  BY BoundAssumption
<1>2. /\ Unsent \in Sending /\ Unsent.phase = "idle" /\ Unsent.attempt = 1 /\ ~Unsent.chat
      /\ Unsent.answer = None
  BY <1>1 DEF Unsent, Sending, Phase
<1>3. /\ Over \in Sending /\ Over.phase = "over" /\ Over.attempt = 1
  BY <1>2 DEF Over, Sending, Phase
<1>4. QED BY <1>2, <1>3

\* A notify.json without content is a document: no key installed, none rejected, no row.
LEMMA EmptyNotifyType ==
    /\ EmptyNotify \in Notify /\ EmptyNotify.log = <<>> /\ EmptyNotify.rejected = NoKey
    /\ ~EmptyNotify.installed /\ ~EmptyNotify.bad
<1>1. <<>> \in Seq(LogRow)
  OBVIOUS
<1>2. QED BY <1>1 DEF EmptyNotify, Notify

\* What record_push makes of the log: the row comes last, the newest rows before it.
LEMMA AppendedLog ==
    ASSUME NEW n \in Notify, NEW row \in LogRow, Len(n.log) <= LogMax
    PROVE  /\ Appended(n, row) \in Notify
           /\ Appended(n, row).installed = n.installed /\ Appended(n, row).bad = n.bad
           /\ Appended(n, row).rejected = n.rejected
           /\ Len(Appended(n, row).log) <= LogMax
           /\ \E cut \in Nat :
                 /\ cut <= Len(n.log)
                 /\ Len(Appended(n, row).log) = Len(n.log) + 1 - cut
                 /\ \A i \in 1..(Len(n.log) - cut) : Appended(n, row).log[i] = n.log[i + cut]
                 /\ Appended(n, row).log[Len(n.log) + 1 - cut] = row
<1> DEFINE all == Append(n.log, row)
           over == IF Len(all) > LogMax THEN Len(all) - LogMax ELSE 0
           new == SubSeq(all, over + 1, Len(all))
<1> HIDE DEF new
<1>1. n.log \in Seq(LogRow) /\ LogMax \in Nat \ {0}
  BY BoundAssumption DEF Notify
<1>2. /\ all \in Seq(LogRow) /\ Len(all) = Len(n.log) + 1
      /\ \A i \in 1..Len(n.log) : all[i] = n.log[i]
      /\ all[Len(n.log) + 1] = row
  BY <1>1, AppendProperties
<1>3. Len(n.log) \in Nat /\ over \in Nat /\ over <= Len(n.log) /\ Len(all) - over <= LogMax
  BY <1>1, <1>2
<1>4. \A i \in (over + 1)..Len(all) : all[i] \in LogRow
  BY <1>2, <1>3
<1> HIDE DEF all, over
<1>5. /\ new \in Seq(LogRow)
      /\ Len(new) = IF over + 1 <= Len(all) THEN Len(all) - (over + 1) + 1 ELSE 0
      /\ \A i \in 1..(Len(all) - (over + 1) + 1) : new[i] = all[over + 1 + i - 1]
  <2>1. over + 1 \in Int /\ Len(all) \in Int
    BY <1>2, <1>3
  <2>2. QED BY <1>4, <2>1, SubSeqProperties DEF new
<1>6. Len(new) = Len(n.log) + 1 - over /\ Len(new) <= LogMax
  BY <1>1, <1>2, <1>3, <1>5
<1>7. \A i \in 1..(Len(n.log) - over) : new[i] = n.log[i + over]
  BY <1>2, <1>3, <1>5
<1>8. new[Len(n.log) + 1 - over] = row
  <2>1. Len(n.log) + 1 - over \in 1..(Len(all) - (over + 1) + 1)
    BY <1>2, <1>3
  <2>2. new[Len(n.log) + 1 - over] = all[over + 1 + (Len(n.log) + 1 - over) - 1]
    BY <1>5, <2>1
  <2>3. over + 1 + (Len(n.log) + 1 - over) - 1 = Len(n.log) + 1
    <3>1. \A a, b \in Nat : a + 1 + (b + 1 - a) - 1 = b + 1
      OBVIOUS
    <3>2. over \in Nat /\ Len(n.log) \in Nat
      BY <1>3
    <3>3. QED BY <3>1, <3>2
  <2>4. QED BY <1>2, <2>2, <2>3
<1>9. Appended(n, row) = [n EXCEPT !.log = new]
  BY DEF Appended, all, over, new
<1>10. /\ Appended(n, row).log = new /\ Appended(n, row) \in Notify
       /\ Appended(n, row).installed = n.installed /\ Appended(n, row).bad = n.bad
       /\ Appended(n, row).rejected = n.rejected
  BY <1>5, <1>9 DEF Notify
<1>11. QED BY <1>3, <1>6, <1>7, <1>8, <1>10

\* The types hold when the house is set up.
LEMMA TypeInit == Init => Typed
<1> SUFFICES ASSUME Init PROVE Typed
  OBVIOUS
<1>1. PICK id \in Id, legacy \in BOOLEAN :
         LET k == IF legacy THEN 1 ELSE NoKey
         IN  /\ entry = [id |-> id, key |-> k, claimedAt |-> FALSE, migrated |-> FALSE]
             /\ backend = k
             /\ notify = [EmptyNotify EXCEPT !.installed = legacy]
             /\ session = [installs |-> FALSE, rows |-> legacy]
             /\ claimed = legacy
  BY DEF Init
<1>2. legacy => 1 \in Key
  BY KeyAssumption
<1>3. entry \in Entry /\ backend \in Key \cup {NoKey} /\ saved \in Entry
  BY <1>1, <1>2 DEF Entry, Init
<1>4. notify \in Notify /\ notify.log = <<>> /\ ~notify.bad
  BY <1>1, EmptyNotifyType DEF Notify
<1>5. pushes \in [Push -> Sending] /\ \A p \in Push : PushShape(pushes[p])
  BY UnsentType DEF Init, PushShape
<1>6. Len(notify.log) <= LogMax /\ faults \in 0..MaxFaults
  BY <1>4, BoundAssumption DEF Init
<1>7. session \in [installs : BOOLEAN, rows : BOOLEAN] /\ claimed \in BOOLEAN
  BY <1>1
<1>8. erased \subseteq Stores /\ late \subseteq Key /\ lost \subseteq Push
  BY DEF Init
<1>9. QED BY <1>3, <1>4, <1>5, <1>6, <1>7, <1>8 DEF Typed

\* The actions that leave notify.json, the pushes and the faults alone.
LEMMA EntryType ==
    ASSUME Typed, Rotate \/ PhonePairs \/ Setup \/ SaveEntry \/ \E id \in Id : Adopt(id)
    PROVE  /\ Typed'
           /\ UNCHANGED <<notify, pushes, faults, historyVars>> /\ entry'.key = entry.key
<1>1. /\ UNCHANGED <<notify, pushes, faults, claimed, erased, late, lost>>
  BY DEF Rotate, PhonePairs, Setup, SaveEntry, Adopt, historyVars
<1>2. backend' \in Key \cup {NoKey} /\ saved' \in Entry
  BY DEF Rotate, PhonePairs, Setup, SaveEntry, Adopt, Typed
<1>3. session' \in [installs : BOOLEAN, rows : BOOLEAN]
  BY DEF Rotate, PhonePairs, Setup, SaveEntry, Adopt, Typed
<1>4. entry' \in Entry /\ entry'.key = entry.key
  <2>1. CASE Setup
    <3>1. (entry.claimedAt \/ Evidence(entry) \/ session.rows) \in BOOLEAN
      BY DEF Evidence, Typed, Entry
    <3>2. QED BY <2>1, <3>1 DEF Setup, Typed, Entry
  <2>2. CASE ~Setup
    BY <2>2 DEF Rotate, PhonePairs, SaveEntry, Adopt, Typed, Entry
  <2>3. QED BY <2>1, <2>2
<1>5. QED BY <1>1, <1>2, <1>3, <1>4 DEF Typed, historyVars

\* Installing a key keeps the types, claims the house and leaves the log alone.
LEMMA InstallType ==
    ASSUME Typed, NEW k \in Key, Install(k)
    PROVE  /\ Typed'
           /\ entry'.key = k /\ entry'.claimedAt
           /\ notify' \in {notify, [notify EXCEPT !.installed = TRUE, !.rejected = NoKey]}
           /\ notify'.log = notify.log
<1>1. /\ notify \in Notify
      /\ notify.bad => notify.rejected = NoKey /\ notify.log = <<>> /\ ~notify.installed
      /\ \A p \in Push : pushes[p].key \in Key \cup {NoKey} /\ pushes[p].phase \in Phase
      /\ entry \in Entry
  BY DEF Typed, Sending
<1>2. /\ notify' \in {notify, [notify EXCEPT !.installed = TRUE, !.rejected = NoKey]}
      /\ notify.bad => notify' = notify
      /\ faults' \in 0..MaxFaults
  BY BoundAssumption DEF Install, Installed, Fault, Typed
<1>3. /\ notify' \in Notify /\ notify'.log = notify.log /\ notify'.bad = notify.bad
      /\ notify'.bad => notify'.rejected = NoKey /\ ~notify'.installed
  <2>1. CASE notify' = notify
    BY <1>1, <2>1
  <2>2. CASE notify' = [notify EXCEPT !.installed = TRUE, !.rejected = NoKey]
    <3>1. /\ notify' \in Notify /\ notify'.log = notify.log /\ notify'.bad = notify.bad
          /\ notify'.rejected = NoKey
      BY <1>1, <2>2 DEF Notify
    <3>2. notify.bad => ~notify'.installed
      BY <1>1, <1>2
    <3>3. QED BY <3>1, <3>2
  <2>3. QED BY <1>2, <2>1, <2>2
<1>4. entry' \in Entry /\ entry'.key = k /\ entry'.claimedAt
  BY <1>1 DEF Install, Stamped, Keyed, Entry
<1>5. late' \subseteq Key
  <2>1. \A p \in Push : UnderWay(p) => pushes[p].key \in Key
    BY DEF UnderWay, Typed, PushShape
  <2>2. notify.rejected \in Key \cup {NoKey} /\ late \subseteq Key
    BY <1>1 DEF Notify, Typed
  <2>3. QED BY <2>1, <2>2 DEF Install
<1>6. session' \in [installs : BOOLEAN, rows : BOOLEAN] /\ claimed' \in BOOLEAN
      /\ erased' \subseteq Stores
  BY DEF Install, Typed, Stores
<1>7. UNCHANGED <<backend, saved, pushes, lost>>
  BY DEF Install
<1>8. QED BY <1>2, <1>3, <1>4, <1>5, <1>6, <1>7 DEF Typed

\* A push goes on: the record of one push changes.
LEMMA OnePush ==
    ASSUME Typed, NEW p \in Push, NEW s \in Sending, PushShape(s), pushes' = [pushes EXCEPT ![p] = s]
    PROVE  /\ pushes' \in [Push -> Sending] /\ \A q \in Push : PushShape(pushes'[q])
           /\ pushes'[p] = s /\ \A q \in Push : q # p => pushes'[q] = pushes[q]
BY DEF Typed

\* What a step of a push may do: to its record, to notify.json, and to lost.
LEMMA PushType ==
    ASSUME Typed, NEW p \in Push,
           BeginChat(p) \/ BeginManual(p) \/ BeginKeyless(p) \/ PushStep(p)
    PROVE  /\ Typed'
           /\ UNCHANGED <<backend, entry, saved, session, claimed, erased, late>>
           /\ lost \subseteq lost'
           /\ \A q \in Push : q # p => pushes'[q] = pushes[q]
           /\ notify'.installed = notify.installed /\ notify'.bad = notify.bad
           /\ notify'.rejected \in {notify.rejected, pushes[p].key, NoKey}
           /\ notify'.rejected # notify.rejected => UnderWay(p)
<1>1. /\ pushes[p] \in Sending /\ PushShape(pushes[p]) /\ pushes \in [Push -> Sending]
      /\ notify \in Notify /\ Len(notify.log) <= LogMax /\ entry \in Entry
      /\ notify.bad => notify.rejected = NoKey /\ notify.log = <<>> /\ ~notify.installed
      /\ MaxAttempts \in Nat \ {0} /\ 1 \in 1..MaxAttempts
  BY BoundAssumption DEF Typed
<1> DEFINE Same == UNCHANGED <<backend, entry, saved, session, claimed, erased, late>>
           Kept == /\ notify' \in Notify /\ Len(notify'.log) <= LogMax
                   /\ notify'.bad => notify'.rejected = NoKey /\ notify'.log = <<>>
                                      /\ ~notify'.installed
                   /\ notify'.installed = notify.installed /\ notify'.bad = notify.bad
                   /\ notify'.rejected \in {notify.rejected, pushes[p].key, NoKey}
                   /\ notify'.rejected # notify.rejected => UnderWay(p)
\* It suffices to give the new record of the push.
<1>2. ASSUME NEW s \in Sending, PushShape(s), pushes' = [pushes EXCEPT ![p] = s],
             Same, Kept, lost \subseteq lost', lost' \subseteq lost \cup {p},
             faults' = faults \/ Fault
      PROVE  /\ Typed' /\ Same /\ Kept /\ lost \subseteq lost'
             /\ \A q \in Push : q # p => pushes'[q] = pushes[q]
  <2>1. /\ pushes' \in [Push -> Sending] /\ \A q \in Push : PushShape(pushes'[q])
        /\ \A q \in Push : q # p => pushes'[q] = pushes[q]
    BY <1>2, OnePush
  <2>2. faults' \in 0..MaxFaults
    BY <1>2, BoundAssumption DEF Fault, Typed
  <2>3. lost' \subseteq Push
    BY <1>2 DEF Typed
  <2>4. QED BY <1>2, <2>1, <2>2, <2>3 DEF Typed
<1>3. UNCHANGED notify => Kept
  BY <1>1
<1>4. ASSUME NEW row \in LogRow, notify' = IF notify.bad THEN notify ELSE Appended(notify, row)
      PROVE  Kept
  BY <1>1, <1>4, AppendedLog
<1>5. ASSUME NEW chat \in BOOLEAN, Begin(p, chat) PROVE Typed' /\ Same /\ Kept /\ lost \subseteq lost'
             /\ \A q \in Push : q # p => pushes'[q] = pushes[q]
  <2> DEFINE s == [Unsent EXCEPT !.phase = "post", !.chat = chat, !.key = entry.key]
  <2>1. s \in Sending /\ PushShape(s)
    <3>1. /\ s \in Sending /\ s.phase = "post" /\ s.key = entry.key /\ s.attempt = 1
      BY <1>1, <1>5, UnsentType DEF Sending, Phase, Entry
    <3>2. entry.key \in Key
      BY <1>1, <1>5 DEF Begin, Entry
    <3>3. QED BY <3>1, <3>2 DEF PushShape
  <2>2. /\ pushes' = [pushes EXCEPT ![p] = s] /\ Same /\ UNCHANGED notify /\ faults' = faults
        /\ lost' = lost
    BY <1>5 DEF Begin, historyVars
  <2>3. QED BY <1>2, <1>3, <2>1, <2>2
<1>6. CASE BeginKeyless(p)
  <2> DEFINE row == [push |-> p, attempt |-> 1, retry |-> FALSE]
  <2>1. row \in LogRow
    BY <1>1 DEF LogRow
  <2>2. /\ notify' = IF notify.bad THEN notify ELSE Appended(notify, row)
        /\ pushes' = [pushes EXCEPT ![p] = Over] /\ Same /\ faults' = faults /\ lost' = lost
    BY <1>6 DEF BeginKeyless, historyVars
  <2>3. PushShape(Over)
    BY UnsentType DEF PushShape
  <2>4. QED BY <1>2, <1>4, <2>1, <2>2, <2>3, UnsentType
<1>7. CASE PostEvent(p)
  <2>1. PICK a \in Outcomes(pushes[p].key) :
            pushes' = [pushes EXCEPT ![p].phase = "note", ![p].answer = a]
    BY <1>7 DEF PostEvent
  <2> DEFINE s == [pushes[p] EXCEPT !.phase = "note", !.answer = a]
  <2>2. s \in Sending /\ PushShape(s)
    BY <1>1, <1>7 DEF PostEvent, Outcomes, Sending, Phase, Answer, PushShape
  <2>3. /\ pushes' = [pushes EXCEPT ![p] = s] /\ Same /\ UNCHANGED notify /\ faults' = faults
        /\ lost' = lost
    BY <1>1, <1>7, <2>1 DEF PostEvent, historyVars
  <2>4. QED BY <1>2, <1>3, <2>2, <2>3
<1>8. CASE NoteAttempt(p)
  <2> DEFINE s == [pushes[p] EXCEPT !.phase = "log"]
  <2>1. s \in Sending /\ PushShape(s)
    BY <1>1, <1>8 DEF NoteAttempt, Sending, Phase, PushShape
  <2>2. pushes' = [pushes EXCEPT ![p] = s] /\ Same /\ lost' = lost /\ (faults' = faults \/ Fault)
    BY <1>1, <1>8 DEF NoteAttempt, historyVars
  <2>3. UnderWay(p) /\ (UNCHANGED notify \/ notify' = AfterAttempt(notify, pushes[p]))
    BY <1>8 DEF NoteAttempt, UnderWay
  <2>4. pushes[p].key \in Key
    BY <1>1, <2>3 DEF UnderWay, PushShape
  <2>5. CASE notify' = AfterAttempt(notify, pushes[p]) /\ ~UNCHANGED notify
    <3>1. ~notify.bad
      BY <2>5 DEF AfterAttempt
    <3>2. notify' = [notify EXCEPT !.rejected = IF pushes[p].answer = "auth" THEN pushes[p].key
                                                ELSE NoKey]
      BY <2>5 DEF AfterAttempt
    <3>3. Kept
      BY <1>1, <2>3, <2>4, <3>1, <3>2 DEF Notify
    <3>4. QED BY <1>2, <2>1, <2>2, <3>3
  <2>6. QED BY <1>2, <1>3, <2>1, <2>2, <2>3, <2>5
<1>9. CASE LogAttempt(p)
  <2> DEFINE s == IF Retries(pushes[p]) THEN [pushes[p] EXCEPT !.phase = "wait", !.answer = None]
                  ELSE Over
             row == [push |-> p, attempt |-> pushes[p].attempt, retry |-> Retries(pushes[p])]
  <2>1. s \in Sending /\ PushShape(s)
    <3>1. CASE Retries(pushes[p])
      BY <1>1, <1>9, <3>1 DEF LogAttempt, Retries, Sending, Phase, PushShape
    <3>2. CASE ~Retries(pushes[p])
      BY <3>2, UnsentType DEF PushShape
    <3>3. QED BY <3>1, <3>2
  <2>2. row \in LogRow
    BY <1>1 DEF LogRow, Retries, Sending
  <2>3. /\ pushes' = [pushes EXCEPT ![p] = s] /\ Same
        /\ lost \subseteq lost' /\ lost' \subseteq lost \cup {p} /\ (faults' = faults \/ Fault)
    BY <1>9 DEF LogAttempt
  <2>4. UNCHANGED notify \/ notify' = IF notify.bad THEN notify ELSE Appended(notify, row)
    BY <1>9 DEF LogAttempt
  <2>5. Kept
    BY <1>3, <1>4, <2>2, <2>4
  <2>6. QED BY <1>2, <2>1, <2>3, <2>5
<1>10. CASE Again(p)
  <2> DEFINE s == [pushes[p] EXCEPT !.phase = "post", !.attempt = @ + 1]
  <2>1. s \in Sending /\ PushShape(s)
    BY <1>1, <1>10 DEF Again, Sending, Phase, PushShape
  <2>2. /\ pushes' = [pushes EXCEPT ![p] = s] /\ Same /\ UNCHANGED notify /\ faults' = faults
        /\ lost' = lost
    BY <1>1, <1>10 DEF Again, historyVars
  <2>3. QED BY <1>2, <1>3, <2>1, <2>2
<1>11. QED
  BY <1>5, <1>6, <1>7, <1>8, <1>9, <1>10 DEF BeginChat, BeginManual, PushStep

\* A crash and a damaged file keep the types.
LEMMA FaultType ==
    ASSUME Typed, Crash \/ DamageNotify \/ DamageSession
    PROVE  Typed'
<1>1. faults' \in 0..MaxFaults
  BY BoundAssumption DEF Crash, DamageNotify, DamageSession, Fault, Typed
<1>2. CASE Crash
  <2>1. pushes' \in [Push -> Sending] /\ \A p \in Push : PushShape(pushes'[p])
    BY <1>2, UnsentType DEF Crash, Typed, PushShape
  <2>2. late' \subseteq Key /\ lost' \subseteq Push /\ erased' \subseteq Stores
    BY <1>2 DEF Crash, Typed, Entry, Stores
  <2>3. entry' \in Entry /\ UNCHANGED <<backend, saved, notify, session, claimed>>
    BY <1>2 DEF Crash, Typed
  <2>4. QED BY <1>1, <2>1, <2>2, <2>3 DEF Typed
<1>3. CASE DamageNotify
  <2> DEFINE n == [EmptyNotify EXCEPT !.bad = TRUE]
  <2>1. n \in Notify /\ n.log = <<>> /\ n.rejected = NoKey /\ ~n.installed
    BY EmptyNotifyType DEF Notify
  <2>2. notify' = n /\ UNCHANGED <<backend, entry, saved, session, pushes, claimed, late>>
    BY <1>3 DEF DamageNotify
  <2>3. lost' \subseteq Push /\ erased' \subseteq Stores
    BY <1>3 DEF DamageNotify, Typed, Stores
  <2>4. Len(notify'.log) <= LogMax
    BY <2>1, <2>2, BoundAssumption
  <2>5. QED BY <1>1, <2>1, <2>2, <2>3, <2>4 DEF Typed
<1>4. CASE DamageSession
  <2>1. /\ session' = [installs |-> FALSE, rows |-> FALSE] /\ erased' = erased \cup {"session"}
        /\ UNCHANGED <<backend, entry, saved, notify, pushes, claimed, late, lost>>
    BY <1>4 DEF DamageSession
  <2>2. QED BY <1>1, <2>1 DEF Typed, Stores
<1>5. QED BY <1>2, <1>3, <1>4

\* Every step keeps the types.
LEMMA TypeNext == Typed /\ [Next]_vars => Typed'
<1>1. Typed /\ UNCHANGED vars => Typed'
  BY DEF vars, historyVars, Typed
<1>2. QED BY <1>1, EntryType, InstallType, PushType, FaultType DEF Next

\* Every reachable state has the types of TypeOK: a log no longer than PUSH_LOG_MAX,
\* no attempt beyond PUSH_MAX_ATTEMPTS, and more than one for chat only.
THEOREM TypeCorrect == Spec => []TypeOK
<1>1. Spec => []Typed
  BY TypeInit, TypeNext, PTL DEF Spec
<1>2. Typed => TypeOK
  BY DEF Typed, TypeOK, Notify, PushShape
<1>3. QED BY <1>1, <1>2, PTL

-----------------------------------------------------------------------------
(* The status of the key. *)

\* What a push holds is the key of the house, or was when the push was under way.
Sent == /\ notify.rejected \in {NoKey, entry.key} \cup late
        /\ \A p \in Push : UnderWay(p) => pushes[p].key \in {entry.key} \cup late

\* Every step keeps the keys of the pushes under way explained.
LEMMA SentNext == Typed /\ Sent /\ [Next]_vars => Sent'
<1> SUFFICES ASSUME Typed, Sent, [Next]_vars PROVE Sent'
  OBVIOUS
<1>1. CASE Rotate \/ PhonePairs \/ Setup \/ SaveEntry \/ \E id \in Id : Adopt(id)
  BY <1>1, EntryType DEF Sent, UnderWay, historyVars
<1>2. ASSUME NEW k \in Key, Install(k) PROVE Sent'
  <2>1. entry'.key = k /\ pushes' = pushes
    BY <1>2, InstallType DEF Install
  <2>2. \A p \in Push : UnderWay(p)' => pushes[p].key \in {k} \cup late'
    <3>1. \A p \in Push : UnderWay(p)' => UnderWay(p) /\ pushes[p].key # NoKey
      BY <2>1, KeyAssumption DEF UnderWay, Typed, PushShape, NoKey
    <3>2. \A p \in Push : UnderWay(p) => pushes[p].key \in {pushes[q].key : q \in {r \in Push : UnderWay(r)}}
      OBVIOUS
    <3>3. QED BY <1>2, <3>1, <3>2 DEF Install
  <2>3. notify'.rejected \in {NoKey, k} \cup late'
    <3>1. CASE notify' = Installed(notify)
      <4>1. notify' = notify \/ notify' = [notify EXCEPT !.installed = TRUE, !.rejected = NoKey]
        BY <3>1 DEF Installed
      <4>2. notify.bad => notify.rejected = NoKey
        BY DEF Typed
      <4>3. notify.bad \/ notify'.rejected = NoKey
        BY <3>1 DEF Installed, Typed, Notify
      <4>4. notify.bad => notify' = notify
        BY <3>1 DEF Installed
      <4>5. QED BY <4>2, <4>3, <4>4
    <3>2. CASE notify' # Installed(notify)
      BY <1>2, <3>2 DEF Install
    <3>3. QED BY <3>1, <3>2
  <2>4. QED BY <2>1, <2>2, <2>3 DEF Sent
<1>3. ASSUME NEW p \in Push, BeginChat(p) \/ BeginManual(p) \/ BeginKeyless(p) \/ PushStep(p)
      PROVE  Sent'
  <2>1. /\ UNCHANGED <<entry, late>>
        /\ \A q \in Push : q # p => pushes'[q] = pushes[q]
        /\ notify'.rejected \in {notify.rejected, pushes[p].key, NoKey}
        /\ notify'.rejected # notify.rejected => UnderWay(p)
    BY <1>3, PushType
  <2>2. UnderWay(p)' => pushes'[p].key = entry.key \/ (UnderWay(p) /\ pushes'[p].key = pushes[p].key)
    <3>1. pushes[p] \in Sending /\ pushes \in [Push -> Sending]
      BY DEF Typed
    <3>2. CASE BeginChat(p) \/ BeginManual(p)
      BY <3>1, <3>2 DEF BeginChat, BeginManual, Begin, Unsent
    <3>3. CASE BeginKeyless(p)
      BY <3>1, <3>3, UnsentType DEF BeginKeyless, UnderWay
    <3>4. CASE LogAttempt(p)
      BY <3>1, <3>4, UnsentType DEF LogAttempt, UnderWay, Sending
    <3>5. CASE PostEvent(p) \/ NoteAttempt(p) \/ Again(p)
      BY <3>1, <3>5 DEF PostEvent, NoteAttempt, Again, UnderWay, Sending
    <3>6. QED BY <1>3, <3>2, <3>3, <3>4, <3>5 DEF PushStep
  <2>3. QED BY <2>1, <2>2 DEF Sent, UnderWay
<1>4. CASE Crash
  <2>1. \A p \in Push : ~UnderWay(p)'
    BY <1>4, UnsentType DEF Crash, UnderWay, Typed
  <2>2. notify' = notify /\ entry' = saved /\ late' = late \cup ({entry.key} \ {saved.key, NoKey})
    BY <1>4 DEF Crash
  <2>3. QED BY <2>1, <2>2 DEF Sent
<1>5. CASE DamageNotify
  <2>1. notify'.rejected = NoKey /\ UNCHANGED <<entry, pushes, late>>
    BY <1>5 DEF DamageNotify, EmptyNotify
  <2>2. QED BY <2>1 DEF Sent, UnderWay
<1>6. CASE DamageSession
  BY <1>6 DEF DamageSession, Sent, UnderWay
<1>7. CASE UNCHANGED vars
  BY <1>7 DEF vars, historyVars, Sent, UnderWay
<1>8. QED BY <1>1, <1>2, <1>3, <1>4, <1>5, <1>6, <1>7 DEF Next

\* The rejection a phone reads is of the key the house has now, unless a push with
\* the older key was under way when it was replaced, or the clearing was not written.
THEOREM RejectionIsExplained == Spec => []RejectionExplained
<1>1. Init => Sent
  BY UnsentType DEF Init, Sent, UnderWay, EmptyNotify
<1>2. Spec => [](Typed /\ Sent)
  BY <1>1, TypeInit, TypeNext, SentNext, PTL DEF Spec
<1>3. Sent => RejectionExplained
  BY DEF Sent, RejectionExplained
<1>4. QED BY <1>2, <1>3, PTL

-----------------------------------------------------------------------------
(* The claim. *)

\* Each store tells of the claim unless a fault erased it there.  A house that was
\* claimed before the latch existed may have no sign in ios_session.json: it keeps
\* its key, in the entry and in the entry Home Assistant saved.
InEntry == claimed /\ "entry" \notin erased => entry.claimedAt \/ entry.key # NoKey
InNotify == claimed /\ "notify" \notin erased => ~notify.bad /\ notify.installed
InSession == claimed /\ "session" \notin erased
             => session.installs \/ (entry.key # NoKey /\ saved.key # NoKey)
Witnessed == InEntry /\ InNotify /\ InSession

\* Every step keeps the evidence of the claim in the stores no fault has touched.
LEMMA WitnessedNext == Typed /\ Witnessed /\ [Next]_vars => Witnessed'
<1> SUFFICES ASSUME Typed, Witnessed, [Next]_vars PROVE Witnessed'
  OBVIOUS
<1>0. NoKey \notin Key
  BY KeyAssumption DEF NoKey
<1>1. CASE Rotate \/ PhonePairs \/ Setup \/ SaveEntry \/ \E id \in Id : Adopt(id)
  <2>1. UNCHANGED <<notify, claimed, erased>> /\ entry'.key = entry.key
    BY <1>1, EntryType DEF historyVars
  <2>2. session'.installs = session.installs
    BY <1>1 DEF Rotate, PhonePairs, Setup, SaveEntry, Adopt, Typed
  <2>3. entry.claimedAt => entry'.claimedAt
    BY <1>1 DEF Rotate, PhonePairs, Setup, SaveEntry, Adopt, Typed, Entry
  <2>4. saved'.key = saved.key \/ saved'.key = entry.key
    BY <1>1 DEF Rotate, PhonePairs, Setup, SaveEntry, Adopt
  <2>5. InEntry'
    BY <2>1, <2>3 DEF Witnessed, InEntry
  <2>6. InNotify'
    BY <2>1 DEF Witnessed, InNotify
  <2>7. InSession'
    BY <2>1, <2>2, <2>4 DEF Witnessed, InSession
  <2>8. QED BY <2>5, <2>6, <2>7 DEF Witnessed
<1>2. ASSUME NEW k \in Key, Install(k) PROVE Witnessed'
  <2>1. entry'.key = k /\ entry'.claimedAt
    BY <1>2, InstallType
  <2>2. session'.installs
    BY <1>2 DEF Install, Typed
  <2>3. erased' = IF notify'.installed THEN {} ELSE {"notify"}
    BY <1>2 DEF Install
  <2>4. Typed' => (notify'.bad => ~notify'.installed)
    BY DEF Typed
  <2>5. notify'.bad => ~notify'.installed
    BY <1>2, <2>4, InstallType
  <2>6. InEntry'
    BY <2>1 DEF InEntry
  <2>7. InNotify'
    BY <2>3, <2>5 DEF InNotify
  <2>8. InSession'
    BY <2>2 DEF InSession
  <2>9. QED BY <2>6, <2>7, <2>8 DEF Witnessed
<1>3. ASSUME NEW p \in Push, BeginChat(p) \/ BeginManual(p) \/ BeginKeyless(p) \/ PushStep(p)
      PROVE  Witnessed'
  <2>1. /\ UNCHANGED <<entry, saved, session, claimed, erased>>
        /\ notify'.installed = notify.installed /\ notify'.bad = notify.bad
    BY <1>3, PushType
  <2>2. QED BY <2>1 DEF Witnessed, InEntry, InNotify, InSession
<1>4. CASE Crash
  <2>1. /\ entry' = saved /\ UNCHANGED <<saved, notify, session, claimed>>
        /\ erased \subseteq erased'
        /\ saved.key = NoKey /\ ~saved.claimedAt => "entry" \in erased'
    BY <1>4 DEF Crash
  <2>2. QED BY <2>1 DEF Witnessed, InEntry, InNotify, InSession
<1>5. CASE DamageNotify
  <2>1. UNCHANGED <<entry, saved, session, claimed>> /\ erased' = erased \cup {"notify"}
    BY <1>5 DEF DamageNotify
  <2>2. QED BY <2>1 DEF Witnessed, InEntry, InNotify, InSession
<1>6. CASE DamageSession
  <2>1. UNCHANGED <<entry, saved, notify, claimed>> /\ erased' = erased \cup {"session"}
    BY <1>6 DEF DamageSession
  <2>2. QED BY <2>1 DEF Witnessed, InEntry, InNotify, InSession
<1>7. CASE UNCHANGED vars
  BY <1>7 DEF vars, historyVars, Witnessed, InEntry, InNotify, InSession
<1>8. QED BY <1>1, <1>2, <1>3, <1>4, <1>5, <1>6, <1>7 DEF Next

\* A claimed house keeps its id: one sign left, in whichever store, refuses the
\* adoption, whatever crashes and damaged files took the others.
THEOREM ClaimStands == Spec => ClaimedForGood
<1>1. Init => Witnessed
  <2> SUFFICES ASSUME Init PROVE Witnessed
    OBVIOUS
  <2>1. PICK legacy \in BOOLEAN :
           LET k == IF legacy THEN 1 ELSE NoKey
           IN  /\ entry.key = k
               /\ notify = [EmptyNotify EXCEPT !.installed = legacy]
               /\ claimed = legacy
    BY DEF Init
  <2>2. notify.installed = legacy /\ ~notify.bad
    BY <2>1 DEF EmptyNotify
  <2>3. legacy => entry.key # NoKey /\ saved.key # NoKey
    BY <2>1 DEF Init, NoKey
  <2>4. QED BY <2>1, <2>2, <2>3 DEF Witnessed, InEntry, InNotify, InSession
<1>2. Spec => [](Typed /\ Witnessed)
  BY <1>1, TypeInit, TypeNext, WitnessedNext, PTL DEF Spec
<1>3. Typed /\ Witnessed /\ [Next]_vars
        => [claimed /\ entry'.id # entry.id /\ UNCHANGED faults => erased = Stores]_vars
  <2> SUFFICES ASSUME Typed, Witnessed, Next, claimed, entry'.id # entry.id, UNCHANGED faults
               PROVE  erased = Stores
    OBVIOUS
  <2>1. PICK id \in Id : Adopt(id)
    <3>1. faults' # faults + 1
      BY BoundAssumption DEF Typed
    <3>2. ~Crash
      BY <3>1 DEF Crash, Fault
    <3>3. entry'.id = entry.id \/ \E id \in Id : Adopt(id)
      <4>1. ASSUME NEW p \in Push,
                   BeginChat(p) \/ BeginManual(p) \/ BeginKeyless(p) \/ PushStep(p)
            PROVE  entry' = entry
        BY <4>1, PushType
      <4>2. ASSUME NEW k \in Key, Install(k) PROVE entry'.id = entry.id
        BY <4>2 DEF Install, Stamped, Keyed, Typed, Entry
      <4>3. Rotate \/ PhonePairs \/ SaveEntry \/ DamageNotify \/ DamageSession => entry' = entry
        BY DEF Rotate, PhonePairs, SaveEntry, DamageNotify, DamageSession
      <4>4. Setup => entry'.id = entry.id
        BY DEF Setup, Typed, Entry
      <4>5. QED BY <3>2, <4>1, <4>2, <4>3, <4>4 DEF Next
    <3>4. QED BY <3>3
  <2>2. ~Evidence(entry)
    BY <2>1 DEF Adopt, MayAdopt
  <2>3. "entry" \in erased /\ "notify" \in erased /\ "session" \in erased
    BY <2>2 DEF Evidence, Witnessed, InEntry, InNotify, InSession
  <2>4. QED BY <2>3 DEF Stores, Typed
<1>4. QED BY <1>2, <1>3, PTL DEF Spec, ClaimedForGood

-----------------------------------------------------------------------------
(* The log. *)

\* The push goes on to the attempt that the row promises.
Coming(row) == LET s == pushes[row.push]
               IN  /\ UnderWay(row.push)
                   /\ s.attempt = row.attempt + (IF s.phase = "wait" THEN 0 ELSE 1)

\* The row of the next attempt of the push of row i.
Follows(log, i, k) == /\ k \in DOMAIN log /\ k > i
                      /\ log[k].push = log[i].push
                      /\ log[k].attempt = log[i].attempt + 1

\* The promise of the log, row by row.
LEMMA RetryPromise ==
    RetryPromiseKept <=> \A i \in DOMAIN notify.log :
                           notify.log[i].retry => \/ notify.log[i].push \in lost
                                                  \/ Coming(notify.log[i])
                                                  \/ \E k : Follows(notify.log, i, k)
BY DEF RetryPromiseKept, Coming, Follows

\* Without a new row: no push gives up what a row promises.
LEMMA SameLog ==
    ASSUME Typed, RetryPromiseKept, notify'.log = notify.log, lost \subseteq lost',
           \A row \in LogRow : Coming(row) => row.push \in lost' \/ Coming(row)'
    PROVE  RetryPromiseKept'
<1>1. \A i \in DOMAIN notify.log : notify.log[i] \in LogRow
  BY DEF Typed, Notify
<1>2. QED BY <1>1, RetryPromise DEF RetryPromiseKept, Coming

\* With a new row: the promises it does not keep itself are still kept.
LEMMA NewRow ==
    ASSUME Typed, RetryPromiseKept, NEW row \in LogRow, notify' = Appended(notify, row),
           lost \subseteq lost',
           row.retry => Coming(row)',
           \A r \in LogRow : Coming(r) => \/ Coming(r)'
                                          \/ row.push = r.push /\ row.attempt = r.attempt + 1
    PROVE  RetryPromiseKept'
<1> DEFINE old == notify.log
           new == notify'.log
<1>1. old \in Seq(LogRow) /\ new \in Seq(LogRow)
  BY AppendedLog DEF Typed, Notify
<1>2. PICK cut \in Nat : /\ cut <= Len(old)
                         /\ Len(new) = Len(old) + 1 - cut
                         /\ \A i \in 1..(Len(old) - cut) : new[i] = old[i + cut]
                         /\ new[Len(old) + 1 - cut] = row
  BY AppendedLog DEF Typed
<1>3. Len(old) \in Nat /\ DOMAIN old = 1..Len(old) /\ DOMAIN new = 1..(Len(old) + 1 - cut)
  BY <1>1, <1>2
<1> DEFINE last == Len(old) + 1 - cut
<1>4. last \in DOMAIN new /\ new[last] = row /\ last \in Nat
  BY <1>2, <1>3
<1>5. ASSUME NEW i \in DOMAIN new, new[i].retry
      PROVE  new[i].push \in lost' \/ Coming(notify.log[i])' \/ \E k : Follows(new, i, k)
  <2>1. CASE i = last
    <3>1. notify'.log[i] = row
      BY <1>4, <2>1
    <3>2. QED BY <1>5, <3>1
  <2>2. CASE i # last
    <3>1. i \in 1..(Len(old) - cut) /\ i + cut \in DOMAIN old /\ i < last
      BY <1>2, <1>3, <2>2
    <3>2. new[i] = old[i + cut] /\ old[i + cut] \in LogRow
      BY <1>1, <1>2, <3>1
    <3>3. \/ old[i + cut].push \in lost \/ Coming(old[i + cut])
          \/ \E k : Follows(old, i + cut, k)
      BY <1>5, <3>1, <3>2, RetryPromise
    <3>4. ASSUME NEW k, Follows(old, i + cut, k) PROVE Follows(new, i, k - cut)
      <4>1. k \in Nat /\ k > i + cut /\ k <= Len(old)
        BY <1>3, <3>4 DEF Follows
      <4>2. k - cut \in 1..(Len(old) - cut) /\ k - cut > i /\ (k - cut) + cut = k
        BY <1>2, <1>3, <3>1, <4>1
      <4>3. new[k - cut] = old[k] /\ k - cut \in DOMAIN new
        BY <1>2, <1>3, <4>2
      <4>4. QED BY <3>2, <3>4, <4>2, <4>3 DEF Follows
    <3>5. ASSUME Coming(old[i + cut]) PROVE Coming(notify.log[i])' \/ Follows(new, i, last)
      <4> PICK r \in LogRow : r = old[i + cut]
        BY <3>2
      <4>1. Coming(r)' \/ (row.push = r.push /\ row.attempt = r.attempt + 1)
        BY <3>5
      <4>2. CASE row.push = r.push /\ row.attempt = r.attempt + 1
        BY <1>4, <3>1, <3>2, <4>2 DEF Follows
      <4>3. CASE Coming(r)'
        BY <3>2, <4>3 DEF Coming, UnderWay
      <4>4. QED BY <4>1, <4>2, <4>3
    <3>6. QED BY <3>2, <3>3, <3>4, <3>5
  <2>3. QED BY <2>1, <2>2
<1>6. QED BY <1>5 DEF RetryPromiseKept, Coming, Follows

\* A row that promises a retry keeps its promise in every step.
LEMMA RetryNext == Typed /\ RetryPromiseKept /\ [Next]_vars => RetryPromiseKept'
<1> SUFFICES ASSUME Typed, RetryPromiseKept, [Next]_vars PROVE RetryPromiseKept'
  OBVIOUS
<1>1. CASE Rotate \/ PhonePairs \/ Setup \/ SaveEntry \/ \E id \in Id : Adopt(id)
  BY <1>1, EntryType, SameLog DEF historyVars, Coming, UnderWay
<1>2. ASSUME NEW k \in Key, Install(k) PROVE RetryPromiseKept'
  <2>1. notify'.log = notify.log /\ pushes' = pushes /\ lost' = lost
    BY <1>2, InstallType DEF Install
  <2>2. QED BY <2>1, SameLog DEF Coming, UnderWay
<1>3. ASSUME NEW p \in Push, BeginChat(p) \/ BeginManual(p) \/ BeginKeyless(p) \/ PushStep(p)
      PROVE  RetryPromiseKept'
  <2>1. /\ pushes[p] \in Sending /\ pushes \in [Push -> Sending] /\ 1 \in 1..MaxAttempts
        /\ notify \in Notify
    BY BoundAssumption DEF Typed
  <2>2. /\ lost \subseteq lost' /\ \A q \in Push : q # p => pushes'[q] = pushes[q]
    BY <1>3, PushType
  <2>3. \A r \in LogRow : r.push # p => (Coming(r) => Coming(r)')
    BY <2>2 DEF Coming, UnderWay, LogRow
  <2>4. CASE BeginChat(p) \/ BeginManual(p)
    <3>1. \A r \in LogRow : r.push = p => ~Coming(r)
      BY <2>4 DEF BeginChat, BeginManual, Begin, Coming, UnderWay
    <3>2. notify' = notify
      BY <2>4 DEF BeginChat, BeginManual, Begin
    <3>3. QED BY <2>2, <2>3, <3>1, <3>2, SameLog
  <2>5. CASE BeginKeyless(p)
    <3> DEFINE row == [push |-> p, attempt |-> 1, retry |-> FALSE]
    <3>1. \A r \in LogRow : r.push = p => ~Coming(r)
      BY <2>5 DEF BeginKeyless, Coming, UnderWay
    <3>2. row \in LogRow /\ ~row.retry
      BY <2>1 DEF LogRow
    <3>3. notify' = notify \/ notify' = Appended(notify, row)
      BY <2>5 DEF BeginKeyless
    <3> HIDE DEF row
    <3>4. CASE notify' = notify
      BY <2>2, <2>3, <3>1, <3>4, SameLog
    <3>5. CASE notify' = Appended(notify, row)
      BY <2>2, <2>3, <3>1, <3>2, <3>5, NewRow
    <3>6. QED BY <3>3, <3>4, <3>5
  <2>6. CASE PostEvent(p) \/ NoteAttempt(p) \/ Again(p)
    <3>1. notify'.log = notify.log
      BY <2>1, <2>6 DEF PostEvent, NoteAttempt, Again, AfterAttempt, Notify
    <3>2. \/ /\ pushes[p].phase \in {"post", "note"} /\ pushes'[p].phase \in {"note", "log"}
             /\ pushes'[p].attempt = pushes[p].attempt
          \/ /\ pushes[p].phase = "wait" /\ pushes'[p].phase = "post"
             /\ pushes'[p].attempt = pushes[p].attempt + 1
      BY <2>1, <2>6 DEF PostEvent, NoteAttempt, Again, Sending
    <3>3. \A r \in LogRow : r.push = p => (Coming(r) => Coming(r)')
      BY <2>1, <3>2 DEF Coming, UnderWay, LogRow
    <3>4. QED BY <2>2, <2>3, <3>1, <3>3, SameLog
  <2>7. CASE LogAttempt(p)
    <3> DEFINE new == [push |-> p, attempt |-> pushes[p].attempt, retry |-> Retries(pushes[p])]
    <3>0. new \in LogRow /\ pushes[p].attempt \in Nat
      BY <2>1, BoundAssumption DEF LogRow, Retries, Sending
    <3> PICK row \in LogRow : row = new
      BY <3>0
    <3>1. row.push = p /\ row.attempt = pushes[p].attempt /\ row.retry = Retries(pushes[p])
      OBVIOUS
    <3>2. \/ notify' = notify /\ p \in lost'
          \/ notify' = Appended(notify, row)
      BY <2>7 DEF LogAttempt
    <3>3. CASE notify' = notify /\ p \in lost'
      BY <2>2, <2>3, <3>3, SameLog
    <3>4. CASE notify' = Appended(notify, row)
      <4>1. Retries(pushes[p]) => /\ pushes'[p].phase = "wait"
                                  /\ pushes'[p].attempt = pushes[p].attempt
        BY <2>1, <2>7 DEF LogAttempt, Sending
      <4>2. row.retry => Coming(row)'
        BY <3>0, <3>1, <4>1 DEF Coming, UnderWay
      <4>3. \A r \in LogRow : r.push = p /\ Coming(r) => row.attempt = r.attempt + 1
        BY <2>7, <3>1 DEF Coming, LogAttempt
      <4>4. \A r \in LogRow : Coming(r) => \/ Coming(r)'
                                           \/ row.push = r.push /\ row.attempt = r.attempt + 1
        BY <2>3, <3>1, <4>3
      <4>5. QED BY <2>2, <3>4, <4>2, <4>4, NewRow
    <3>5. QED BY <3>2, <3>3, <3>4
  <2>8. QED BY <1>3, <2>4, <2>5, <2>6, <2>7 DEF PushStep
<1>4. CASE Crash
  BY <1>4, SameLog DEF Crash, Coming, UnderWay, LogRow
<1>5. CASE DamageNotify
  BY <1>5 DEF DamageNotify, EmptyNotify, RetryPromiseKept
<1>6. CASE DamageSession
  BY <1>6, SameLog DEF DamageSession, Coming, UnderWay
<1>7. CASE UNCHANGED vars
  BY <1>7, SameLog DEF vars, historyVars, Coming, UnderWay
<1>8. QED BY <1>1, <1>2, <1>3, <1>4, <1>5, <1>6, <1>7 DEF Next

\* A log row that says another try follows is followed by one, in whatever order the
\* pushes log and however short the log is cut, unless the push was cut off.
THEOREM RetriesFollow == Spec => []RetryPromiseKept
<1>1. Init => RetryPromiseKept
  BY DEF Init, EmptyNotify, RetryPromiseKept
<1>2. Spec => [](Typed /\ RetryPromiseKept)
  BY <1>1, TypeInit, TypeNext, RetryNext, PTL DEF Spec
<1>3. QED BY <1>2, PTL

-----------------------------------------------------------------------------
(* HouseMapping: the lists and documents of the mapping, taken by positions.  *)

\* The number of positions of K that R does not put behind k.
Below(K, R, k) == Cardinality({j \in K : <<j, k>> \in R})
TotalOrder(R, K) ==
    /\ \A j, k \in K : <<j, k>> \in R \/ <<k, j>> \in R
    /\ \A j, k \in K : <<j, k>> \in R /\ <<k, j>> \in R => j = k
    /\ \A i, j, k \in K : <<i, j>> \in R /\ <<j, k>> \in R => <<i, k>> \in R

\* Counting along a total order numbers the set from 1 on.
LEMMA Numbered ==
    ASSUME NEW K, IsFiniteSet(K), NEW R, TotalOrder(R, K)
    PROVE  /\ Cardinality(K) \in Nat
           /\ \A k \in K : Below(K, R, k) \in 1..Cardinality(K)
           /\ \A j, k \in K : <<j, k>> \in R <=> Below(K, R, j) <= Below(K, R, k)
           /\ \A j, k \in K : Below(K, R, j) = Below(K, R, k) => j = k
           /\ \A n \in 1..Cardinality(K) : \E k \in K : Below(K, R, k) = n
<1> DEFINE D(k) == {j \in K : <<j, k>> \in R}
           c == [k \in K |-> Cardinality(D(k))]
<1>1. \A k \in K : IsFiniteSet(D(k)) /\ Cardinality(D(k)) \in Nat /\ k \in D(k)
  <2>1. SUFFICES ASSUME NEW k \in K
                 PROVE IsFiniteSet(D(k)) /\ Cardinality(D(k)) \in Nat /\ k \in D(k)
    OBVIOUS
  <2>2. D(k) \subseteq K
    OBVIOUS
  <2>3. IsFiniteSet(D(k))
    BY <2>2, FS_Subset
  <2>4. QED BY <2>3, FS_CardinalityType DEF TotalOrder
<1>2. Cardinality(K) \in Nat /\ \A k \in K : c[k] = Cardinality(D(k))
  BY FS_CardinalityType
<1>3. \A k \in K : c[k] \in 1..Cardinality(K)
  <2>1. SUFFICES ASSUME NEW k \in K PROVE c[k] \in 1..Cardinality(K)
    OBVIOUS
  <2>2. Cardinality(D(k)) <= Cardinality(K)
    <3>1. D(k) \subseteq K
      OBVIOUS
    <3>2. QED BY <3>1, FS_Subset
  <2>3. Cardinality(D(k)) # 0
    BY <1>1, FS_EmptySet
  <2> HIDE DEF D, c
  <2>4. QED BY <1>1, <1>2, <2>2, <2>3
<1>4. ASSUME NEW j \in K, NEW k \in K, <<j, k>> \in R PROVE c[j] <= c[k]
  <2>1. D(j) \subseteq D(k)
    BY <1>4 DEF TotalOrder
  <2>2. QED BY <1>1, <2>1, FS_Subset
<1>5. ASSUME NEW j \in K, NEW k \in K, <<j, k>> \notin R PROVE c[k] < c[j]
  <2>1. D(k) \subseteq D(j) /\ j \in D(j) /\ j \notin D(k)
    BY <1>5 DEF TotalOrder
  <2>2. D(k) # D(j) /\ IsFiniteSet(D(j))
    BY <1>1, <2>1
  <2>3. Cardinality(D(k)) <= Cardinality(D(j)) /\ (Cardinality(D(k)) = Cardinality(D(j)) => D(k) = D(j))
    BY <2>1, <2>2, FS_Subset
  <2> HIDE DEF D, c
  <2>4. QED BY <1>1, <1>2, <2>2, <2>3
<1>6. \A j, k \in K : <<j, k>> \in R <=> c[j] <= c[k]
  <2> HIDE DEF D, c
  <2>1. SUFFICES ASSUME NEW j \in K, NEW k \in K PROVE <<j, k>> \in R <=> c[j] <= c[k]
    OBVIOUS
  <2>2. c[j] \in 1..Cardinality(K) /\ c[k] \in 1..Cardinality(K)
    BY <1>3
  <2>3. QED BY <1>2, <1>4, <1>5, <2>2
<1>7. \A j, k \in K : c[j] = c[k] => j = k
  <2> HIDE DEF D, c
  <2>1. SUFFICES ASSUME NEW j \in K, NEW k \in K, c[j] = c[k] PROVE j = k
    OBVIOUS
  <2>2. c[j] <= c[k] /\ c[k] <= c[j]
    BY <1>2, <1>3, <2>1
  <2>3. <<j, k>> \in R /\ <<k, j>> \in R
    BY <1>6, <2>2
  <2>4. QED BY <2>3 DEF TotalOrder
<1>8. \A n \in 1..Cardinality(K) : \E k \in K : c[k] = n
  <2>1. c \in [K -> 1..Cardinality(K)]
    BY <1>3
  <2>2. c \in Injection(K, 1..Cardinality(K))
    BY <1>7, <2>1 DEF Injection, IsInjective
  <2>3. IsFiniteSet(1..Cardinality(K)) /\ Cardinality(1..Cardinality(K)) = Cardinality(K)
    BY <1>2, FS_Interval
  <2>4. c \in Surjection(K, 1..Cardinality(K))
    BY <2>2, <2>3, FS_Injection
  <2>5. QED BY <2>4 DEF Surjection
<1>9. \A k \in K : c[k] = Below(K, R, k)
  BY DEF Below
<1>10. QED
  <2> HIDE DEF c
  <2>1. QED BY <1>2, <1>3, <1>6, <1>7, <1>8, <1>9

\* The first and the last element of a finite set under a total order.
LEMMA Ends ==
    ASSUME NEW K, IsFiniteSet(K), K # {}, NEW R, TotalOrder(R, K)
    PROVE  /\ \E k \in K : \A j \in K : <<k, j>> \in R
           /\ \E k \in K : \A j \in K : <<j, k>> \in R
<1>1. Cardinality(K) \in Nat \ {0}
  BY FS_CardinalityType, FS_EmptySet
<1>2. PICK a \in K : Below(K, R, a) = 1
  BY <1>1, Numbered
<1>3. PICK b \in K : Below(K, R, b) = Cardinality(K)
  BY <1>1, Numbered
<1>4. \A j \in K : Below(K, R, j) \in 1..Cardinality(K)
  BY Numbered
<1>5. \A j \in K : Below(K, R, a) <= Below(K, R, j) /\ Below(K, R, j) <= Below(K, R, b)
  BY <1>1, <1>2, <1>3, <1>4
<1>6. QED BY <1>5, Numbered

\* Of finitely many numbers one is the last, which is Max, and one the first.
LEMMA Extremes ==
    ASSUME NEW K, K \subseteq Nat, IsFiniteSet(K), K # {}
    PROVE  /\ Max(K) \in K /\ \A j \in K : j <= Max(K)
           /\ \E k \in K : \A j \in K : k <= j
<1> DEFINE R == {p \in K \X K : p[1] <= p[2]}
<1>1. TotalOrder(R, K) /\ \A j, k \in K : <<j, k>> \in R <=> j <= k
  BY DEF TotalOrder
<1>2. /\ \E k \in K : \A j \in K : k <= j
      /\ \E k \in K : \A j \in K : j <= k
  <2> HIDE DEF R
  <2>1. QED BY <1>1, Ends
<1>3. \E x \in K : \A y \in K : x >= y
  BY <1>2
<1>4. QED BY <1>2, <1>3 DEF Max

-----------------------------------------------------------------------------
\* Lists made of the positions of another.

LEMMA ListIsSame ==
    ASSUME NEW S, NEW f \in Seq(S)
    PROVE  List(f) = f
BY ConcatEmptySeq DEF List

\* Pick takes the elements at the positions of K, each once, in their order.
LEMMA PickFacts ==
    ASSUME NEW S, NEW s \in Seq(S), NEW K, K \subseteq DOMAIN s
    PROVE  /\ Cardinality(K) \in Nat
           /\ Pick(s, K) \in Seq(S) /\ Len(Pick(s, K)) = Cardinality(K)
           /\ DOMAIN Pick(s, K) = 1..Cardinality(K)
           /\ \A n \in DOMAIN Pick(s, K) :
                 \E k \in K : Pick(s, K)[n] = s[k] /\ Place(K, k) = n
           /\ \A k \in K : \E n \in DOMAIN Pick(s, K) : Pick(s, K)[n] = s[k] /\ Place(K, k) = n
           /\ \A j, k \in K : j <= k <=> Place(K, j) <= Place(K, k)
           /\ \A j, k \in K : Place(K, j) = Place(K, k) => j = k
           /\ \A k \in K : Place(K, k) \in 1..Cardinality(K)
<1> DEFINE R == {p \in K \X K : p[1] <= p[2]}
           f == [n \in 1..Cardinality(K) |-> s[CHOOSE k \in K : Place(K, k) = n]]
<1>1. IsFiniteSet(K) /\ K \subseteq Nat
  <2>1. DOMAIN s = 1..Len(s) /\ Len(s) \in Nat
    BY LenProperties
  <2>2. IsFiniteSet(1..Len(s))
    BY <2>1, FS_Interval
  <2>3. QED BY <2>1, <2>2, FS_Subset
<1>2. TotalOrder(R, K) /\ \A j, k \in K : <<j, k>> \in R <=> j <= k
  BY <1>1 DEF TotalOrder
<1>3. \A k \in K : Below(K, R, k) = Place(K, k)
  <2>1. SUFFICES ASSUME NEW k \in K PROVE Below(K, R, k) = Place(K, k)
    OBVIOUS
  <2>2. {j \in K : <<j, k>> \in R} = {j \in K : j <= k}
    BY <1>2
  <2>3. QED BY <2>2 DEF Below, Place
<1>4. /\ Cardinality(K) \in Nat
      /\ \A k \in K : Place(K, k) \in 1..Cardinality(K)
      /\ \A j, k \in K : j <= k <=> Place(K, j) <= Place(K, k)
      /\ \A j, k \in K : Place(K, j) = Place(K, k) => j = k
      /\ \A n \in 1..Cardinality(K) : \E k \in K : Place(K, k) = n
  <2> HIDE DEF R
  <2>1. /\ Cardinality(K) \in Nat
        /\ \A k \in K : Below(K, R, k) \in 1..Cardinality(K)
        /\ \A j, k \in K : <<j, k>> \in R <=> Below(K, R, j) <= Below(K, R, k)
        /\ \A j, k \in K : Below(K, R, j) = Below(K, R, k) => j = k
        /\ \A n \in 1..Cardinality(K) : \E k \in K : Below(K, R, k) = n
    BY <1>1, <1>2, Numbered
  <2>2. \A j, k \in K : j <= k <=> Place(K, j) <= Place(K, k)
    <3>1. SUFFICES ASSUME NEW j \in K, NEW k \in K
                   PROVE j <= k <=> Place(K, j) <= Place(K, k)
      OBVIOUS
    <3>2. <<j, k>> \in R <=> j <= k
      BY <1>2
    <3>3. <<j, k>> \in R <=> Below(K, R, j) <= Below(K, R, k)
      BY <2>1
    <3>4. Below(K, R, j) = Place(K, j) /\ Below(K, R, k) = Place(K, k)
      BY <1>3
    <3>5. QED BY <3>2, <3>3, <3>4
  <2>3. \A n \in 1..Cardinality(K) : \E k \in K : Place(K, k) = n
    BY <1>3, <2>1
  <2>4. QED BY <1>3, <2>1, <2>2, <2>3
<1>5. \A n \in 1..Cardinality(K) :
         /\ (CHOOSE k \in K : Place(K, k) = n) \in K
         /\ Place(K, CHOOSE k \in K : Place(K, k) = n) = n
  BY <1>4
<1>6. \A k \in K : s[k] \in S
  BY ElementOfSeq, LenProperties
<1>7. \A n \in 1..Cardinality(K) : f[n] \in S
  BY <1>5, <1>6
<1>8. f \in Seq(S) /\ Len(f) = Cardinality(K)
  BY <1>4, <1>7
<1>9. Pick(s, K) = f
  BY <1>8, ListIsSame DEF Pick
<1>10. \A n \in 1..Cardinality(K) : \E k \in K : f[n] = s[k] /\ Place(K, k) = n
  BY <1>5
<1>11. \A k \in K : f[Place(K, k)] = s[k]
  BY <1>4, <1>5
<1>12. DOMAIN f = 1..Cardinality(K)
  OBVIOUS
<1> HIDE DEF f
<1>13. QED BY <1>4, <1>8, <1>9, <1>10, <1>11, <1>12

\* Taking the first positions, or all of them, changes nothing.
LEMMA PickPrefix ==
    ASSUME NEW S, NEW s \in Seq(S), NEW m \in 0..Len(s)
    PROVE  /\ Pick(s, 1..m) \in Seq(S) /\ Len(Pick(s, 1..m)) = m
           /\ \A n \in 1..m : Pick(s, 1..m)[n] = s[n]
<1>1. DOMAIN s = 1..Len(s) /\ Len(s) \in Nat /\ m \in Nat /\ m <= Len(s)
  BY LenProperties
<1>2. 1..m \subseteq DOMAIN s
  BY <1>1
<1>3. Cardinality(1..m) = m
  BY <1>1, FS_Interval
<1>4. \A k \in 1..m : Place(1..m, k) = k
  <2>1. SUFFICES ASSUME NEW k \in 1..m PROVE Place(1..m, k) = k
    OBVIOUS
  <2>2. {j \in 1..m : j <= k} = 1..k /\ k \in Nat \ {0}
    BY <1>1
  <2>3. Cardinality(1..k) = k
    BY <2>2, FS_Interval
  <2>4. QED BY <2>2, <2>3 DEF Place
<1>5. Pick(s, 1..m) \in Seq(S) /\ Len(Pick(s, 1..m)) = m
  BY <1>2, <1>3, PickFacts
<1>6. ASSUME NEW n \in 1..m PROVE Pick(s, 1..m)[n] = s[n]
  <2>1. n \in DOMAIN Pick(s, 1..m)
    BY <1>3, <1>2, PickFacts
  <2>2. PICK k \in 1..m : Pick(s, 1..m)[n] = s[k] /\ Place(1..m, k) = n
    BY <1>2, <2>1, PickFacts
  <2>3. QED BY <1>4, <2>2
<1>7. QED BY <1>5, <1>6

\* All positions of a list pick the list.
LEMMA PickAll ==
    ASSUME NEW S, NEW s \in Seq(S)
    PROVE  Pick(s, DOMAIN s) = s
<1>1. DOMAIN s = 1..Len(s) /\ Len(s) \in 0..Len(s)
  BY LenProperties
<1>2. /\ Pick(s, 1..Len(s)) \in Seq(S) /\ Len(Pick(s, 1..Len(s))) = Len(s)
      /\ \A n \in 1..Len(s) : Pick(s, 1..Len(s))[n] = s[n]
  BY <1>1, PickPrefix
<1>3. Pick(s, 1..Len(s)) = s
  BY <1>2, SeqEqual
<1>4. QED BY <1>1, <1>3

-----------------------------------------------------------------------------
\* What the union of two lists keeps.

LEMMA RowFields ==
    ASSUME NEW r \in RowType
    PROVE  /\ r.item \in Item /\ r.card \in Card /\ r.src \in SourceType /\ r.rank \in Nat
           /\ \A n \in 0..MaxOnPass \cup {Unranked} :
                 /\ [r EXCEPT !.rank = n] \in RowType
                 /\ [r EXCEPT !.rank = n].item = r.item /\ [r EXCEPT !.rank = n].card = r.card
                 /\ [r EXCEPT !.rank = n].src = r.src /\ [r EXCEPT !.rank = n].rank = n
           /\ \A c \in Card :
                 /\ [r EXCEPT !.card = c] \in RowType
                 /\ [r EXCEPT !.card = c].item = r.item /\ [r EXCEPT !.card = c].card = c
                 /\ [r EXCEPT !.card = c].src = r.src /\ [r EXCEPT !.card = c].rank = r.rank
           /\ [r EXCEPT !.rank = r.rank] = r /\ [r EXCEPT !.card = r.card] = r
BY MaxOnPassAssumption DEF RowType, Unranked

\* The positions of a list are finitely many numbers.
LEMMA Positions ==
    ASSUME NEW S, NEW s \in Seq(S)
    PROVE  /\ IsFiniteSet(DOMAIN s) /\ DOMAIN s \subseteq Nat \ {0} /\ DOMAIN s = 1..Len(s)
           /\ Len(s) \in Nat /\ \A k \in DOMAIN s : s[k] \in S
           /\ \A K : K \subseteq DOMAIN s => IsFiniteSet(K)
<1>1. DOMAIN s = 1..Len(s) /\ Len(s) \in Nat /\ \A k \in DOMAIN s : s[k] \in S
  BY LenProperties
<1>2. IsFiniteSet(1..Len(s))
  BY <1>1, FS_Interval
<1>3. \A K : K \subseteq DOMAIN s => IsFiniteSet(K)
  BY <1>1, <1>2, FS_Subset
<1>4. QED BY <1>1, <1>2, <1>3

\* Of some positions of a list one is the last, which is Max, and one the first.
LEMMA MaxOfPositions ==
    ASSUME NEW S, NEW s \in Seq(S), NEW K, K \subseteq DOMAIN s, K # {}
    PROVE  /\ Max(K) \in K /\ \A j \in K : j <= Max(K)
           /\ \E k \in K : \A j \in K : k <= j
<1>1. IsFiniteSet(K) /\ K \subseteq Nat
  BY Positions
<1>2. QED BY <1>1, Extremes

\* Each field of an overlaid source is the row's own or that of a row over it; a row
\* that is alone over itself keeps its source.
LEMMA OverlaidSource ==
    ASSUME NEW row \in RowType, NEW rows \in Seq(RowType)
    PROVE  /\ OverlaySource(row, rows) \in SourceType
           /\ \A f \in Fields :
                 \/ OverlaySource(row, rows)[f] = row.src[f]
                 \/ \E k \in DOMAIN rows : /\ rows[k].item = row.item
                                           /\ OverlaySource(row, rows)[f] = rows[k].src[f]
           /\ (\E k \in DOMAIN rows : /\ row = rows[k]
                                      /\ \A j \in DOMAIN rows : rows[j].item = row.item => j = k)
              => OverlaySource(row, rows) = row.src
<1> DEFINE src == OverlaySource(row, rows)
           Overlaid(f) == OverlayField(row, rows, f)
<1>1. ASSUME NEW f
      PROVE  \/ Overlaid(f) = row.src[f]
             \/ \E k \in DOMAIN rows : rows[k].item = row.item /\ Overlaid(f) = rows[k].src[f]
  <2> DEFINE given == {k \in DOMAIN rows : rows[k].item = row.item /\ rows[k].src[f] # Unset}
  <2>1. Overlaid(f) = IF given = {} THEN row.src[f] ELSE rows[Max(given)].src[f]
    BY DEF OverlayField
  <2>2. given # {} => Max(given) \in given
    <3>1. given \subseteq DOMAIN rows
      OBVIOUS
    <3> HIDE DEF given
    <3>2. QED BY <3>1, MaxOfPositions
  <2>3. QED BY <2>1, <2>2
<1> HIDE DEF Overlaid
<1>2. src = [entity |-> Overlaid("entity"), attr |-> Overlaid("attr"), label |-> Overlaid("label")]
  BY DEF OverlaySource, Overlaid
<1>3. /\ row.src \in SourceType
      /\ \A k \in DOMAIN rows : rows[k].src \in SourceType
  BY Positions, RowFields
<1>4. src \in SourceType
  <2>1. Overlaid("entity") \in Entity
    BY <1>1, <1>3 DEF SourceType
  <2>2. Overlaid("attr") \in Attribute \cup {Unset}
    BY <1>1, <1>3 DEF SourceType
  <2>3. Overlaid("label") \in Label \cup {Unset}
    BY <1>1, <1>3 DEF SourceType
  <2>4. QED BY <1>2, <2>1, <2>2, <2>3 DEF SourceType
<1>5. \A f \in Fields : src[f] = Overlaid(f)
  BY <1>2 DEF Fields
<1>6. ASSUME NEW k \in DOMAIN rows, row = rows[k],
             \A j \in DOMAIN rows : rows[j].item = row.item => j = k
      PROVE  src = row.src
  <2>1. \A f : Overlaid(f) = row.src[f]
    BY <1>1, <1>6
  <2>2. row.src = [entity |-> row.src.entity, attr |-> row.src.attr, label |-> row.src.label]
    BY <1>3 DEF SourceType
  <2>3. src = [entity |-> row.src.entity, attr |-> row.src.attr, label |-> row.src.label]
    BY <1>2, <2>1
  <2>4. QED BY <2>2, <2>3
<1> HIDE DEF src
<1>7. QED BY <1>1, <1>4, <1>5, <1>6 DEF src

\* An overlaid row keeps its item and has the overlaid source; a row that is alone over
\* itself does not change it.
LEMMA OverlaidRow ==
    ASSUME NEW row \in RowType, NEW rows \in Seq(RowType)
    PROVE  /\ OverlayRow(row, rows) \in RowType /\ OverlayRow(row, rows).item = row.item
           /\ \A f \in Fields :
                 \/ OverlayRow(row, rows).src[f] = row.src[f]
                 \/ \E k \in DOMAIN rows : /\ rows[k].item = row.item
                                           /\ OverlayRow(row, rows).src[f] = rows[k].src[f]
           /\ (\E k \in DOMAIN rows : /\ row = rows[k]
                                      /\ \A j \in DOMAIN rows : rows[j].item = row.item => j = k)
              => OverlayRow(row, rows) = row
<1> DEFINE same == {k \in DOMAIN rows : rows[k].item = row.item}
           ranked == {k \in same : rows[k].rank # 0}
           n == IF ranked = {} THEN row.rank ELSE rows[Max(ranked)].rank
           src == OverlaySource(row, rows)
<1>1. same \subseteq DOMAIN rows /\ ranked \subseteq DOMAIN rows /\ ranked \subseteq same
  OBVIOUS
<1>2. \A k \in DOMAIN rows : rows[k] \in RowType
  BY Positions
<1>3. ranked # {} => Max(ranked) \in ranked
  <2> HIDE DEF ranked
  <2>1. QED BY <1>1, MaxOfPositions
<1>4. same # {} => Max(same) \in same
  <2> HIDE DEF same
  <2>1. QED BY <1>1, MaxOfPositions
<1>5. n \in 0..MaxOnPass \cup {Unranked}
  BY <1>1, <1>2, <1>3 DEF RowType
<1>6. OverlayRow(row, rows) =
         IF same = {} THEN row ELSE [rows[Max(same)] EXCEPT !.src = src, !.rank = n]
  BY DEF OverlayRow
<1>7. CASE same = {}
  BY <1>6, <1>7
<1>8. CASE same # {}
  <2> DEFINE q == rows[Max(same)]
  <2>1. Max(same) \in DOMAIN rows /\ q.item = row.item /\ q \in RowType
    BY <1>2, <1>4, <1>8
  <2>2. OverlayRow(row, rows) = [q EXCEPT !.src = src, !.rank = n]
    BY <1>6, <1>8
  <2>3. ASSUME NEW k \in DOMAIN rows, row = rows[k],
               \A j \in DOMAIN rows : rows[j].item = row.item => j = k
        PROVE  q = row /\ n = row.rank
    <3>1. Max(same) = k
      BY <2>1, <2>3
    <3>2. CASE ranked = {}
      BY <2>3, <3>1, <3>2
    <3>3. CASE ranked # {}
      <4>1. Max(ranked) \in DOMAIN rows /\ rows[Max(ranked)].item = row.item
        BY <1>3, <3>3
      <4>2. Max(ranked) = k
        BY <2>3, <4>1
      <4>3. QED BY <2>3, <3>1, <3>3, <4>2
    <3>4. QED BY <3>2, <3>3
  <2> HIDE DEF q, n, src, same, ranked
  <2>4. src \in SourceType
    BY OverlaidSource DEF src
  <2>5. q = [item |-> q.item, card |-> q.card, src |-> q.src, rank |-> q.rank]
    BY <2>1 DEF RowType
  <2>6. OverlayRow(row, rows) = [item |-> q.item, card |-> q.card, src |-> src, rank |-> n]
    BY <2>2, <2>5
  <2>7. /\ OverlayRow(row, rows) \in RowType /\ OverlayRow(row, rows).item = row.item
        /\ OverlayRow(row, rows).src = src
    BY <1>5, <2>1, <2>4, <2>6 DEF RowType
  <2>8. ASSUME NEW k \in DOMAIN rows, row = rows[k],
               \A j \in DOMAIN rows : rows[j].item = row.item => j = k
        PROVE  OverlayRow(row, rows) = row
    <3>1. q = row /\ n = row.rank
      BY <2>3, <2>8
    <3>2. src = row.src
      BY <2>8, OverlaidSource DEF src
    <3>3. QED BY <2>5, <2>6, <3>1, <3>2
  <2>9. \A f \in Fields :
           \/ src[f] = row.src[f]
           \/ \E k \in DOMAIN rows : rows[k].item = row.item /\ src[f] = rows[k].src[f]
    BY OverlaidSource DEF src
  <2>10. QED BY <2>7, <2>8, <2>9
<1>9. QED BY <1>7, <1>8

\* An overlaid card keeps its id; one that is alone over itself does not change it.
LEMMA OverlaidCard ==
    ASSUME NEW card \in CardType, NEW cards \in Seq(CardType)
    PROVE  /\ OverlayCard(card, cards) \in CardType /\ OverlayCard(card, cards).id = card.id
           /\ (\E k \in DOMAIN cards : /\ card = cards[k]
                                       /\ \A j \in DOMAIN cards : cards[j].id = card.id => j = k)
              => OverlayCard(card, cards) = card
<1> DEFINE same == {k \in DOMAIN cards : cards[k].id = card.id}
<1>1. same \subseteq DOMAIN cards /\ \A k \in DOMAIN cards : cards[k] \in CardType
  BY Positions
<1>2. same # {} => Max(same) \in same
  <2> HIDE DEF same
  <2>1. QED BY <1>1, MaxOfPositions
<1>3. OverlayCard(card, cards) = IF same = {} THEN card ELSE cards[Max(same)]
  BY DEF OverlayCard
<1>4. CASE same = {}
  BY <1>3, <1>4
<1>5. CASE same # {}
  <2>1. Max(same) \in DOMAIN cards /\ cards[Max(same)].id = card.id
    BY <1>2, <1>5
  <2>2. OverlayCard(card, cards) = cards[Max(same)]
    BY <1>3, <1>5
  <2> HIDE DEF same
  <2>3. QED BY <1>1, <2>1, <2>2
<1>6. QED BY <1>4, <1>5

\* Each element of two joined lists is one of the first or one of the second, at its place.
LEMMA Joined ==
    ASSUME NEW S, NEW base \in Seq(S), NEW extra \in Seq(S)
    PROVE  /\ base \o extra \in Seq(S) /\ Len(base \o extra) = Len(base) + Len(extra)
           /\ DOMAIN (base \o extra) = 1..(Len(base) + Len(extra))
           /\ \A k \in DOMAIN (base \o extra) :
                 \/ k \in DOMAIN base /\ (base \o extra)[k] = base[k]
                 \/ \E j \in DOMAIN extra : k = Len(base) + j /\ (base \o extra)[k] = extra[j]
           /\ \A k \in DOMAIN base : k \in DOMAIN (base \o extra) /\ (base \o extra)[k] = base[k]
           /\ \A k \in DOMAIN extra : /\ Len(base) + k \in DOMAIN (base \o extra)
                                      /\ (base \o extra)[Len(base) + k] = extra[k]
<1> DEFINE all == base \o extra
<1>1. /\ all \in Seq(S) /\ Len(all) = Len(base) + Len(extra)
      /\ \A i \in 1..(Len(base) + Len(extra)) :
            all[i] = IF i <= Len(base) THEN base[i] ELSE extra[i - Len(base)]
  BY ConcatProperties
<1>2. /\ DOMAIN all = 1..Len(all) /\ DOMAIN base = 1..Len(base) /\ DOMAIN extra = 1..Len(extra)
      /\ Len(base) \in Nat /\ Len(extra) \in Nat
  BY <1>1, LenProperties
<1> HIDE DEF all
<1>3. ASSUME NEW k \in DOMAIN all
      PROVE  \/ k \in DOMAIN base /\ all[k] = base[k]
             \/ \E j \in DOMAIN extra : k = Len(base) + j /\ all[k] = extra[j]
  <2>1. CASE k <= Len(base)
    BY <1>1, <1>2, <2>1
  <2>2. CASE ~(k <= Len(base))
    <3>1. k - Len(base) \in DOMAIN extra /\ k = Len(base) + (k - Len(base))
      BY <1>1, <1>2, <2>2
    <3>2. all[k] = extra[k - Len(base)]
      BY <1>1, <1>2, <2>2
    <3>3. QED BY <3>1, <3>2
  <2>3. QED BY <2>1, <2>2
<1>4. \A k \in DOMAIN base : k \in DOMAIN all /\ all[k] = base[k]
  BY <1>1, <1>2
<1>5. ASSUME NEW k \in DOMAIN extra
      PROVE  Len(base) + k \in DOMAIN all /\ all[Len(base) + k] = extra[k]
  <2>1. Len(base) + k \in DOMAIN all /\ ~(Len(base) + k <= Len(base))
    BY <1>1, <1>2
  <2>2. (Len(base) + k) - Len(base) = k
    BY <1>2
  <2>3. QED BY <1>1, <1>2, <2>1, <2>2
<1>6. QED BY <1>1, <1>2, <1>3, <1>4, <1>5 DEF all

\* One of the rows gives the item this field of its source.
Gives(rows, i, f, v) == \E j \in DOMAIN rows : rows[j].item = i /\ rows[j].src[f] = v

\* The item of a row of the base is never lost; each field of the source of a row of the
\* union is one that the two lists give its item.
LEMMA UnionKeepsItems ==
    ASSUME NEW base \in Seq(RowType), NEW extra \in Seq(RowType)
    PROVE  /\ UnionRows(base, extra) \in Seq(RowType)
           /\ \A k \in DOMAIN base : \E n \in DOMAIN UnionRows(base, extra) :
                 UnionRows(base, extra)[n].item = base[k].item
           /\ \A n \in DOMAIN UnionRows(base, extra), f \in Fields :
                 LET row == UnionRows(base, extra)[n]
                 IN  Gives(base, row.item, f, row.src[f]) \/ Gives(extra, row.item, f, row.src[f])
<1> DEFINE all == base \o extra
           Firsts == {k \in DOMAIN all : \A j \in DOMAIN all : all[j].item = all[k].item => k <= j}
           laid == [k \in DOMAIN all |-> OverlayRow(all[k], extra)]
           new == UnionRows(base, extra)
<1>1. new = Pick(laid, Firsts)
  BY DEF UnionRows
<1>2. all \in Seq(RowType) /\ \A k \in DOMAIN all : all[k] \in RowType
  BY Joined, Positions
<1> HIDE DEF all
<1>3. /\ laid \in Seq(RowType) /\ DOMAIN laid = DOMAIN all
      /\ \A k \in DOMAIN all : laid[k] = OverlayRow(all[k], extra) /\ laid[k].item = all[k].item
  <2>1. DOMAIN all = 1..Len(all) /\ Len(all) \in Nat
    BY <1>2, LenProperties
  <2>2. \A k \in DOMAIN all : OverlayRow(all[k], extra) \in RowType
    BY <1>2, OverlaidRow
  <2>3. \A k \in DOMAIN all : OverlayRow(all[k], extra).item = all[k].item
    BY <1>2, OverlaidRow
  <2>4. QED BY <2>1, <2>2, <2>3
<1> HIDE DEF laid
<1>4. Firsts \subseteq DOMAIN laid
  BY <1>3
<1>5. ASSUME NEW k \in DOMAIN all PROVE \E j \in Firsts : all[j].item = all[k].item
  <2> DEFINE same == {j \in DOMAIN all : all[j].item = all[k].item}
  <2>1. same \subseteq DOMAIN all /\ k \in same
    OBVIOUS
  <2>2. PICK m \in same : \A j \in same : m <= j
    <3> HIDE DEF same
    <3>1. QED BY <1>2, <2>1, MaxOfPositions
  <2>3. QED BY <2>2
<1> HIDE DEF Firsts
<1>6. /\ new \in Seq(RowType)
      /\ \A n \in DOMAIN new : \E k \in Firsts : new[n] = laid[k]
      /\ \A k \in Firsts : \E n \in DOMAIN new : new[n] = laid[k]
  BY <1>1, <1>3, <1>4, PickFacts
<1> HIDE DEF new
<1>7. ASSUME NEW k \in DOMAIN base PROVE \E n \in DOMAIN new : new[n].item = base[k].item
  <2>1. k \in DOMAIN all /\ all[k] = base[k]
    BY Joined DEF all
  <2>2. PICK j \in Firsts : all[j].item = all[k].item
    BY <1>5, <2>1
  <2>3. PICK n \in DOMAIN new : new[n] = laid[j]
    BY <1>6
  <2>4. j \in DOMAIN all
    BY <1>3, <1>4
  <2>5. QED BY <1>3, <2>1, <2>2, <2>3, <2>4
<1>8. ASSUME NEW n \in DOMAIN new, NEW f \in Fields
      PROVE  Gives(base, new[n].item, f, new[n].src[f]) \/ Gives(extra, new[n].item, f, new[n].src[f])
  <2>1. PICK k \in Firsts : new[n] = laid[k]
    BY <1>6
  <2>2. k \in DOMAIN all /\ new[n] = OverlayRow(all[k], extra) /\ new[n].item = all[k].item
    BY <1>3, <1>4, <2>1
  <2>3. \/ new[n].src[f] = all[k].src[f]
        \/ \E j \in DOMAIN extra : extra[j].item = all[k].item /\ new[n].src[f] = extra[j].src[f]
    <3>1. all[k] \in RowType
      BY <1>2, <2>2
    <3>2. \/ OverlayRow(all[k], extra).src[f] = all[k].src[f]
          \/ \E j \in DOMAIN extra : /\ extra[j].item = all[k].item
                                    /\ OverlayRow(all[k], extra).src[f] = extra[j].src[f]
      BY <3>1, OverlaidRow
    <3>3. QED BY <2>2, <3>2
  <2>4. \/ \E j \in DOMAIN base : all[k] = base[j]
        \/ \E j \in DOMAIN extra : all[k] = extra[j]
    BY <2>2, Joined DEF all
  <2>5. QED BY <2>2, <2>3, <2>4 DEF Gives
<1>9. QED BY <1>6, <1>7, <1>8 DEF new

\* The union of two lists of cards has each id once.
LEMMA UnionKeepsCards ==
    ASSUME NEW base \in Seq(CardType), NEW extra \in Seq(CardType)
    PROVE  /\ UnionCards(base, extra) \in Seq(CardType)
           /\ \A m, n \in DOMAIN UnionCards(base, extra) :
                 UnionCards(base, extra)[m].id = UnionCards(base, extra)[n].id => m = n
<1> DEFINE all == base \o extra
           Firsts == {k \in DOMAIN all : \A j \in DOMAIN all : all[j].id = all[k].id => k <= j}
           laid == [k \in DOMAIN all |-> OverlayCard(all[k], extra)]
           new == UnionCards(base, extra)
<1>1. new = Pick(laid, Firsts)
  BY DEF UnionCards
<1>2. all \in Seq(CardType) /\ \A k \in DOMAIN all : all[k] \in CardType
  BY Joined, Positions
<1> HIDE DEF all
<1>3. /\ laid \in Seq(CardType) /\ DOMAIN laid = DOMAIN all
      /\ \A k \in DOMAIN all : laid[k].id = all[k].id
  <2>1. DOMAIN all = 1..Len(all) /\ Len(all) \in Nat
    BY <1>2, LenProperties
  <2>2. \A k \in DOMAIN all : OverlayCard(all[k], extra) \in CardType
    BY <1>2, OverlaidCard
  <2>3. \A k \in DOMAIN all : OverlayCard(all[k], extra).id = all[k].id
    BY <1>2, OverlaidCard
  <2>4. QED BY <2>1, <2>2, <2>3
<1> HIDE DEF laid
<1>4. Firsts \subseteq DOMAIN laid
  BY <1>3
<1>5. \A j, k \in Firsts : all[j].id = all[k].id => j = k
  <2>1. SUFFICES ASSUME NEW j \in Firsts, NEW k \in Firsts, all[j].id = all[k].id PROVE j = k
    OBVIOUS
  <2>2. j <= k /\ k <= j /\ j \in Nat /\ k \in Nat
    BY <1>2, <2>1, Positions
  <2>3. QED BY <2>2
<1> HIDE DEF Firsts
<1>6. /\ new \in Seq(CardType)
      /\ \A n \in DOMAIN new : \E k \in Firsts : new[n] = laid[k] /\ Place(Firsts, k) = n
  BY <1>1, <1>3, <1>4, PickFacts
<1> HIDE DEF new
<1>7. ASSUME NEW m \in DOMAIN new, NEW n \in DOMAIN new, new[m].id = new[n].id PROVE m = n
  <2>1. PICK j \in Firsts : new[m] = laid[j] /\ Place(Firsts, j) = m
    BY <1>6
  <2>2. PICK k \in Firsts : new[n] = laid[k] /\ Place(Firsts, k) = n
    BY <1>6
  <2>3. all[j].id = all[k].id
    BY <1>3, <1>4, <1>7, <2>1, <2>2
  <2>4. QED BY <1>5, <2>1, <2>2, <2>3
<1>8. QED BY <1>6, <1>7 DEF new

\* A list without a doubled key, overlaid with itself, stays as it is.
LEMMA UnionRowsSame ==
    ASSUME NEW x \in Seq(RowType), \A j, k \in DOMAIN x : x[j].item = x[k].item => j = k
    PROVE  UnionRows(x, x) = x
<1> DEFINE all == x \o x
           Firsts == {k \in DOMAIN all : \A j \in DOMAIN all : all[j].item = all[k].item => k <= j}
           laid == [k \in DOMAIN all |-> OverlayRow(all[k], x)]
<1>1. UnionRows(x, x) = Pick(laid, Firsts)
  BY DEF UnionRows
<1>2. /\ Len(x) \in Nat /\ DOMAIN x = 1..Len(x) /\ all \in Seq(RowType) /\ Len(all) = Len(x) + Len(x)
      /\ DOMAIN all = 1..(Len(x) + Len(x)) /\ \A k \in DOMAIN all : all[k] \in RowType
  BY Joined, Positions
<1>3. /\ \A k \in DOMAIN all :
            \/ k \in DOMAIN x /\ all[k] = x[k]
            \/ \E j \in DOMAIN x : k = Len(x) + j /\ all[k] = x[j]
      /\ \A k \in DOMAIN x : k \in DOMAIN all /\ all[k] = x[k]
  BY Joined
<1> HIDE DEF all
<1>4. Firsts = 1..Len(x)
  <2>1. ASSUME NEW k \in DOMAIN x PROVE k \in Firsts
    <3>1. k \in DOMAIN all /\ all[k] = x[k] /\ k \in Nat /\ k <= Len(x)
      BY <1>2, <1>3
    <3>2. ASSUME NEW j \in DOMAIN all, all[j].item = all[k].item PROVE k <= j
      <4>1. CASE j \in DOMAIN x /\ all[j] = x[j]
        BY <3>1, <3>2, <4>1
      <4>2. CASE \E i \in DOMAIN x : j = Len(x) + i /\ all[j] = x[i]
        BY <1>2, <3>1, <4>2
      <4>3. QED BY <1>3, <4>1, <4>2
    <3>3. QED BY <3>1, <3>2
  <2>2. ASSUME NEW k \in Firsts PROVE k \in DOMAIN x
    <3>1. SUFFICES ASSUME k \notin DOMAIN x PROVE FALSE
      OBVIOUS
    <3>2. PICK j \in DOMAIN x : k = Len(x) + j /\ all[k] = x[j]
      BY <1>3, <3>1
    <3>3. j \in DOMAIN all /\ all[j].item = all[k].item
      BY <1>3, <3>2
    <3>4. k <= j
      BY <3>3
    <3> HIDE DEF Firsts
    <3>5. QED BY <1>2, <3>2, <3>4
  <2>3. QED BY <1>2, <2>1, <2>2
<1>5. laid \in Seq(RowType) /\ Len(laid) = Len(x) + Len(x)
  <2>1. \A k \in DOMAIN all : OverlayRow(all[k], x) \in RowType
    BY <1>2, OverlaidRow
  <2>2. QED BY <1>2, <2>1
<1>6. ASSUME NEW k \in 1..Len(x) PROVE laid[k] = x[k]
  <2>1. k \in DOMAIN all /\ all[k] = x[k] /\ x[k] \in RowType /\ k \in DOMAIN x
    BY <1>2, <1>3, Positions
  <2>2. OverlayRow(x[k], x) = x[k]
    BY <2>1, OverlaidRow
  <2>3. QED BY <2>1, <2>2
<1> HIDE DEF laid, Firsts
<1>7. /\ Pick(laid, 1..Len(x)) \in Seq(RowType) /\ Len(Pick(laid, 1..Len(x))) = Len(x)
      /\ \A n \in 1..Len(x) : Pick(laid, 1..Len(x))[n] = laid[n]
  <2>1. Len(x) \in 0..Len(laid)
    BY <1>2, <1>5
  <2>2. QED BY <1>5, <2>1, PickPrefix
<1>8. Pick(laid, 1..Len(x)) = x
  BY <1>6, <1>7, SeqEqual
<1>9. QED BY <1>1, <1>4, <1>8

\* Cards of one id each, overlaid with themselves, stay as they are.
LEMMA UnionCardsSame ==
    ASSUME NEW x \in Seq(CardType), \A j, k \in DOMAIN x : x[j].id = x[k].id => j = k
    PROVE  UnionCards(x, x) = x
<1> DEFINE all == x \o x
           Firsts == {k \in DOMAIN all : \A j \in DOMAIN all : all[j].id = all[k].id => k <= j}
           laid == [k \in DOMAIN all |-> OverlayCard(all[k], x)]
<1>1. UnionCards(x, x) = Pick(laid, Firsts)
  BY DEF UnionCards
<1>2. /\ Len(x) \in Nat /\ DOMAIN x = 1..Len(x) /\ all \in Seq(CardType) /\ Len(all) = Len(x) + Len(x)
      /\ DOMAIN all = 1..(Len(x) + Len(x)) /\ \A k \in DOMAIN all : all[k] \in CardType
  BY Joined, Positions
<1>3. /\ \A k \in DOMAIN all :
            \/ k \in DOMAIN x /\ all[k] = x[k]
            \/ \E j \in DOMAIN x : k = Len(x) + j /\ all[k] = x[j]
      /\ \A k \in DOMAIN x : k \in DOMAIN all /\ all[k] = x[k]
  BY Joined
<1> HIDE DEF all
<1>4. Firsts = 1..Len(x)
  <2>1. ASSUME NEW k \in DOMAIN x PROVE k \in Firsts
    <3>1. k \in DOMAIN all /\ all[k] = x[k] /\ k \in Nat /\ k <= Len(x)
      BY <1>2, <1>3
    <3>2. ASSUME NEW j \in DOMAIN all, all[j].id = all[k].id PROVE k <= j
      <4>1. CASE j \in DOMAIN x /\ all[j] = x[j]
        BY <3>1, <3>2, <4>1
      <4>2. CASE \E i \in DOMAIN x : j = Len(x) + i /\ all[j] = x[i]
        BY <1>2, <3>1, <4>2
      <4>3. QED BY <1>3, <4>1, <4>2
    <3>3. QED BY <3>1, <3>2
  <2>2. ASSUME NEW k \in Firsts PROVE k \in DOMAIN x
    <3>1. SUFFICES ASSUME k \notin DOMAIN x PROVE FALSE
      OBVIOUS
    <3>2. PICK j \in DOMAIN x : k = Len(x) + j /\ all[k] = x[j]
      BY <1>3, <3>1
    <3>3. j \in DOMAIN all /\ all[j].id = all[k].id
      BY <1>3, <3>2
    <3>4. k <= j
      BY <3>3
    <3> HIDE DEF Firsts
    <3>5. QED BY <1>2, <3>2, <3>4
  <2>3. QED BY <1>2, <2>1, <2>2
<1>5. laid \in Seq(CardType) /\ Len(laid) = Len(x) + Len(x)
  <2>1. \A k \in DOMAIN all : OverlayCard(all[k], x) \in CardType
    BY <1>2, OverlaidCard
  <2>2. QED BY <1>2, <2>1
<1>6. ASSUME NEW k \in 1..Len(x) PROVE laid[k] = x[k]
  <2>1. k \in DOMAIN all /\ all[k] = x[k] /\ x[k] \in CardType /\ k \in DOMAIN x
    BY <1>2, <1>3, Positions
  <2>2. OverlayCard(x[k], x) = x[k]
    BY <2>1, OverlaidCard
  <2>3. QED BY <2>1, <2>2
<1> HIDE DEF laid, Firsts
<1>7. /\ Pick(laid, 1..Len(x)) \in Seq(CardType) /\ Len(Pick(laid, 1..Len(x))) = Len(x)
      /\ \A n \in 1..Len(x) : Pick(laid, 1..Len(x))[n] = laid[n]
  <2>1. Len(x) \in 0..Len(laid)
    BY <1>2, <1>5
  <2>2. QED BY <1>5, <2>1, PickPrefix
<1>8. Pick(laid, 1..Len(x)) = x
  BY <1>6, <1>7, SeqEqual
<1>9. QED BY <1>1, <1>4, <1>8

-----------------------------------------------------------------------------
\* What removing doubles keeps.

\* One row of each item is left, and it is one of its rows.
LEMMA OnePerItemFacts ==
    ASSUME NEW rows \in Seq(RowType)
    PROVE  /\ OnePerItem(rows) \in Seq(RowType)
           /\ \A n \in DOMAIN OnePerItem(rows) : \E k \in DOMAIN rows : OnePerItem(rows)[n] = rows[k]
           /\ \A k \in DOMAIN rows : \E n \in DOMAIN OnePerItem(rows) :
                 OnePerItem(rows)[n].item = rows[k].item
           /\ \A m, n \in DOMAIN OnePerItem(rows) :
                 OnePerItem(rows)[m].item = OnePerItem(rows)[n].item => m = n
           /\ (\A j, k \in DOMAIN rows : rows[j].item = rows[k].item => j = k)
              => OnePerItem(rows) = rows
<1> DEFINE Same(k) == {j \in DOMAIN rows : rows[j].item = rows[k].item}
           kept == [k \in DOMAIN rows |->
                      IF rows[k].item \in Protected THEN rows[Max(Same(k))] ELSE rows[k]]
           Firsts == {k \in DOMAIN rows : \A j \in Same(k) : k <= j}
           new == OnePerItem(rows)
<1>1. new = Pick(kept, Firsts)
  BY DEF OnePerItem
<1>2. DOMAIN rows = 1..Len(rows) /\ Len(rows) \in Nat /\ \A k \in DOMAIN rows : rows[k] \in RowType
  BY Positions
<1>3. ASSUME NEW k \in DOMAIN rows
      PROVE  /\ Max(Same(k)) \in Same(k)
             /\ \E m \in Same(k) : \A j \in Same(k) : m <= j
  <2>1. Same(k) \subseteq DOMAIN rows /\ k \in Same(k)
    OBVIOUS
  <2> HIDE DEF Same
  <2>2. QED BY <2>1, MaxOfPositions
<1>4. \A k \in DOMAIN rows : \E j \in Same(k) : kept[k] = rows[j]
  BY <1>3
<1>5. \A k \in DOMAIN rows : kept[k] \in RowType /\ kept[k].item = rows[k].item
  <2>1. SUFFICES ASSUME NEW k \in DOMAIN rows
                 PROVE  kept[k] \in RowType /\ kept[k].item = rows[k].item
    OBVIOUS
  <2>2. PICK j \in Same(k) : kept[k] = rows[j]
    BY <1>4
  <2> HIDE DEF kept
  <2>3. QED BY <1>2, <2>2
<1>6. kept \in Seq(RowType) /\ DOMAIN kept = DOMAIN rows
  <2>1. DOMAIN kept = DOMAIN rows
    OBVIOUS
  <2>2. kept = [k \in 1..Len(rows) |-> kept[k]]
    BY <1>2
  <2> HIDE DEF kept
  <2>3. QED BY <1>2, <1>5, <2>1, <2>2
<1> HIDE DEF kept
<1>7. Firsts \subseteq DOMAIN kept
  BY <1>6
<1>8. ASSUME NEW k \in DOMAIN rows PROVE \E j \in Firsts : rows[j].item = rows[k].item
  <2>1. PICK m \in Same(k) : \A j \in Same(k) : m <= j
    BY <1>3
  <2>2. Same(m) = Same(k)
    BY <2>1
  <2>3. QED BY <2>1, <2>2
<1>9. \A j, k \in Firsts : rows[j].item = rows[k].item => j = k
  <2>1. SUFFICES ASSUME NEW j \in Firsts, NEW k \in Firsts, rows[j].item = rows[k].item PROVE j = k
    OBVIOUS
  <2>2. j <= k /\ k <= j /\ j \in Nat /\ k \in Nat
    BY <1>2, <2>1
  <2>3. QED BY <2>2
<1>10. (\A j, k \in DOMAIN rows : rows[j].item = rows[k].item => j = k) => Pick(kept, Firsts) = rows
  <2>1. SUFFICES ASSUME \A j, k \in DOMAIN rows : rows[j].item = rows[k].item => j = k
                 PROVE  Pick(kept, Firsts) = rows
    OBVIOUS
  <2>2. \A k \in DOMAIN rows : kept[k] = rows[k]
    BY <1>4, <2>1
  <2>3. kept = rows
    BY <1>2, <1>6, <2>2, SeqEqual, LenProperties
  <2>4. Firsts = DOMAIN rows
    BY <1>2, <2>1
  <2>5. QED BY <2>3, <2>4, PickAll
<1> HIDE DEF Firsts, Same
<1>11. /\ new \in Seq(RowType)
       /\ \A n \in DOMAIN new : \E k \in Firsts : new[n] = kept[k] /\ Place(Firsts, k) = n
       /\ \A k \in Firsts : \E n \in DOMAIN new : new[n] = kept[k] /\ Place(Firsts, k) = n
  BY <1>1, <1>6, <1>7, PickFacts
<1>12. ASSUME NEW n \in DOMAIN new PROVE \E k \in DOMAIN rows : new[n] = rows[k]
  <2>1. PICK k \in Firsts : new[n] = kept[k]
    BY <1>11
  <2>2. PICK j \in Same(k) : kept[k] = rows[j]
    BY <1>4, <1>6, <1>7
  <2>3. QED BY <2>1, <2>2 DEF Same
<1>13. ASSUME NEW k \in DOMAIN rows PROVE \E n \in DOMAIN new : new[n].item = rows[k].item
  <2>1. PICK j \in Firsts : rows[j].item = rows[k].item
    BY <1>8
  <2>2. PICK n \in DOMAIN new : new[n] = kept[j]
    BY <1>11
  <2>3. QED BY <1>5, <1>6, <1>7, <2>1, <2>2
<1>14. ASSUME NEW m \in DOMAIN new, NEW n \in DOMAIN new, new[m].item = new[n].item PROVE m = n
  <2>1. PICK j \in Firsts : new[m] = kept[j] /\ Place(Firsts, j) = m
    BY <1>11
  <2>2. PICK k \in Firsts : new[n] = kept[k] /\ Place(Firsts, k) = n
    BY <1>11
  <2>3. rows[j].item = rows[k].item
    BY <1>5, <1>6, <1>7, <1>14, <2>1, <2>2
  <2>4. QED BY <1>9, <2>1, <2>2, <2>3
<1>15. QED BY <1>1, <1>10, <1>11, <1>12, <1>13, <1>14

\* One row of each source is left.
LEMMA OnePerSourceFacts ==
    ASSUME NEW rows \in Seq(RowType)
    PROVE  /\ OnePerSource(rows) \in Seq(RowType)
           /\ \A n \in DOMAIN OnePerSource(rows) : \E k \in DOMAIN rows : OnePerSource(rows)[n] = rows[k]
           /\ \A k \in DOMAIN rows : \E n \in DOMAIN OnePerSource(rows) :
                 OnePerSource(rows)[n].src = rows[k].src
           /\ \A m, n \in DOMAIN OnePerSource(rows) :
                 OnePerSource(rows)[m].src = OnePerSource(rows)[n].src => m = n
           /\ (\A j, k \in DOMAIN rows : rows[j].item = rows[k].item => j = k)
              => \A m, n \in DOMAIN OnePerSource(rows) :
                    OnePerSource(rows)[m].item = OnePerSource(rows)[n].item => m = n
           /\ (\A j, k \in DOMAIN rows : rows[j].src = rows[k].src => j = k)
              => OnePerSource(rows) = rows
<1> DEFINE Same(k) == {j \in DOMAIN rows : rows[j].src = rows[k].src}
           claims == {k \in DOMAIN rows : rows[k].item \in Protected}
           Kept == {k \in DOMAIN rows :
                      IF k \in claims THEN \A j \in Same(k) \cap claims : j <= k
                      ELSE Same(k) \cap claims = {} /\ \A j \in Same(k) : k <= j}
           new == OnePerSource(rows)
<1>1. new = Pick(rows, Kept)
  BY DEF OnePerSource
<1>2. DOMAIN rows = 1..Len(rows) /\ Len(rows) \in Nat /\ \A k \in DOMAIN rows : rows[k] \in RowType
  BY Positions
<1>3. Kept \subseteq DOMAIN rows
  OBVIOUS
<1>4. ASSUME NEW k \in DOMAIN rows PROVE \E j \in Kept : rows[j].src = rows[k].src
  <2>1. CASE Same(k) \cap claims # {}
    <3> DEFINE C == Same(k) \cap claims
    <3>1. C \subseteq DOMAIN rows /\ C # {}
      BY <2>1
    <3>2. PICK m \in C : \A j \in C : j <= m
      <4> HIDE DEF C
      <4>1. QED BY <3>1, MaxOfPositions
    <3>3. Same(m) = Same(k)
      BY <3>2
    <3>4. QED BY <3>2, <3>3
  <2>2. CASE Same(k) \cap claims = {}
    <3>1. Same(k) \subseteq DOMAIN rows /\ Same(k) # {}
      OBVIOUS
    <3>2. PICK m \in Same(k) : \A j \in Same(k) : m <= j
      <4> HIDE DEF Same
      <4>1. QED BY <3>1, MaxOfPositions
    <3>3. Same(m) = Same(k)
      BY <3>2
    <3>4. m \notin claims
      BY <2>2, <3>2
    <3>5. QED BY <2>2, <3>2, <3>3, <3>4
  <2>3. QED BY <2>1, <2>2
<1>5. ASSUME NEW j \in Kept, NEW k \in Kept, rows[j].src = rows[k].src PROVE j = k
  <2>1. j \in Same(k) /\ k \in Same(j) /\ j \in Nat /\ k \in Nat /\ Same(j) = Same(k)
    BY <1>2, <1>5
  <2>2. CASE j \in claims /\ k \in claims
    <3>1. j <= k /\ k <= j
      BY <2>1, <2>2
    <3>2. QED BY <2>1, <3>1
  <2>3. CASE j \notin claims /\ k \notin claims
    <3>1. j <= k /\ k <= j
      BY <2>1, <2>3
    <3>2. QED BY <2>1, <3>1
  <2>4. CASE j \in claims /\ k \notin claims
    BY <2>1, <2>4
  <2>5. CASE j \notin claims /\ k \in claims
    BY <2>1, <2>5
  <2>6. QED BY <2>2, <2>3, <2>4, <2>5
<1>6. (\A j, k \in DOMAIN rows : rows[j].src = rows[k].src => j = k) => Kept = DOMAIN rows
  BY <1>2
<1> HIDE DEF Kept
<1>7. /\ new \in Seq(RowType)
      /\ \A n \in DOMAIN new : \E k \in Kept : new[n] = rows[k] /\ Place(Kept, k) = n
      /\ \A k \in Kept : \E n \in DOMAIN new : new[n] = rows[k] /\ Place(Kept, k) = n
  BY <1>1, <1>3, PickFacts
<1>8. (\A j, k \in DOMAIN rows : rows[j].src = rows[k].src => j = k) => new = rows
  BY <1>1, <1>6, PickAll
<1> HIDE DEF new
<1>9. \A n \in DOMAIN new : \E k \in DOMAIN rows : new[n] = rows[k]
  BY <1>3, <1>7
<1>10. ASSUME NEW k \in DOMAIN rows PROVE \E n \in DOMAIN new : new[n].src = rows[k].src
  <2>1. PICK j \in Kept : rows[j].src = rows[k].src
    BY <1>4
  <2>2. PICK n \in DOMAIN new : new[n] = rows[j]
    BY <1>7
  <2>3. QED BY <2>1, <2>2
<1>11. ASSUME NEW m \in DOMAIN new, NEW n \in DOMAIN new
       PROVE  \E j, k \in Kept : /\ new[m] = rows[j] /\ new[n] = rows[k]
                                 /\ (j = k => m = n)
  BY <1>7
<1>12. ASSUME NEW m \in DOMAIN new, NEW n \in DOMAIN new, new[m].src = new[n].src PROVE m = n
  BY <1>5, <1>11, <1>12
<1>13. ASSUME \A j, k \in DOMAIN rows : rows[j].item = rows[k].item => j = k,
              NEW m \in DOMAIN new, NEW n \in DOMAIN new, new[m].item = new[n].item
       PROVE  m = n
  BY <1>3, <1>11, <1>13
<1>14. QED BY <1>7, <1>8, <1>9, <1>10, <1>12, <1>13 DEF new

-----------------------------------------------------------------------------
\* The ranks: who is on the glance, and at which place.

OnGlance(rows) == {k \in DOMAIN rows : rows[k].rank # 0}
GlancePlace(rows, k) == Cardinality({j \in OnGlance(rows) : Ahead(rows, j, k)})
Ranked(rows, k) == IF k \in OnGlance(rows) /\ GlancePlace(rows, k) <= MaxOnPass
                   THEN GlancePlace(rows, k) ELSE 0

\* The rows on the glance are numbered along their ranks, each by a number of its own.
LEMMA GlanceOrder ==
    ASSUME NEW rows \in Seq(RowType)
    PROVE  /\ \A k \in OnGlance(rows) : GlancePlace(rows, k) \in Nat \ {0}
           /\ \A j, k \in OnGlance(rows) :
                 Ahead(rows, j, k) <=> GlancePlace(rows, j) <= GlancePlace(rows, k)
           /\ \A j, k \in OnGlance(rows) : GlancePlace(rows, j) = GlancePlace(rows, k) => j = k
<1> DEFINE C == OnGlance(rows)
           R == {p \in C \X C : Ahead(rows, p[1], p[2])}
<1>1. C \subseteq DOMAIN rows
  BY DEF OnGlance
<1>2. /\ IsFiniteSet(C) /\ C \subseteq Nat
      /\ \A k \in C : rows[k].rank \in Nat
  BY <1>1, Positions, RowFields
<1> HIDE DEF C
<1>3. \A j, k \in C : <<j, k>> \in R <=> Ahead(rows, j, k)
  OBVIOUS
<1>4. TotalOrder(R, C)
  <2>1. \A j, k \in C : Ahead(rows, j, k) \/ Ahead(rows, k, j)
    BY <1>2 DEF Ahead
  <2>2. \A j, k \in C : Ahead(rows, j, k) /\ Ahead(rows, k, j) => j = k
    BY <1>2 DEF Ahead
  <2>3. \A i, j, k \in C : Ahead(rows, i, j) /\ Ahead(rows, j, k) => Ahead(rows, i, k)
    BY <1>2 DEF Ahead
  <2> HIDE DEF R
  <2>4. QED BY <1>3, <2>1, <2>2, <2>3 DEF TotalOrder
<1>5. \A k \in C : Below(C, R, k) = GlancePlace(rows, k)
  <2>1. SUFFICES ASSUME NEW k \in C PROVE Below(C, R, k) = GlancePlace(rows, k)
    OBVIOUS
  <2>2. {j \in C : <<j, k>> \in R} = {j \in C : Ahead(rows, j, k)}
    BY <1>3
  <2>3. QED BY <2>2 DEF Below, GlancePlace, C
<1> HIDE DEF R
<1>6. /\ Cardinality(C) \in Nat /\ \A k \in C : Below(C, R, k) \in 1..Cardinality(C)
      /\ \A j, k \in C : <<j, k>> \in R <=> Below(C, R, j) <= Below(C, R, k)
      /\ \A j, k \in C : Below(C, R, j) = Below(C, R, k) => j = k
  BY <1>2, <1>4, Numbered
<1>7. \A k \in C : GlancePlace(rows, k) \in Nat \ {0}
  BY <1>5, <1>6
<1>8. ASSUME NEW j \in C, NEW k \in C
      PROVE  /\ Ahead(rows, j, k) <=> GlancePlace(rows, j) <= GlancePlace(rows, k)
             /\ GlancePlace(rows, j) = GlancePlace(rows, k) => j = k
  <2>1. <<j, k>> \in R <=> Below(C, R, j) <= Below(C, R, k)
    BY <1>6
  <2>2. Below(C, R, j) = GlancePlace(rows, j) /\ Below(C, R, k) = GlancePlace(rows, k)
    BY <1>5
  <2>3. QED BY <1>3, <1>6, <2>1, <2>2
<1>9. QED BY <1>7, <1>8 DEF C

\* Assigning ranks touches nothing but the ranks, and assigning them twice is once.
LEMMA AssignRanksFacts ==
    ASSUME NEW rows \in Seq(RowType)
    PROVE  /\ AssignRanks(rows) \in Seq(RowType) /\ DOMAIN AssignRanks(rows) = DOMAIN rows
           /\ \A k \in DOMAIN rows :
                 /\ AssignRanks(rows)[k] = [rows[k] EXCEPT !.rank = Ranked(rows, k)]
                 /\ AssignRanks(rows)[k].item = rows[k].item /\ AssignRanks(rows)[k].src = rows[k].src
                 /\ AssignRanks(rows)[k].card = rows[k].card
                 /\ AssignRanks(rows)[k].rank = Ranked(rows, k)
<1> DEFINE f == [k \in DOMAIN rows |-> [rows[k] EXCEPT !.rank = Ranked(rows, k)]]
<1>1. DOMAIN rows = 1..Len(rows) /\ Len(rows) \in Nat /\ \A k \in DOMAIN rows : rows[k] \in RowType
  BY Positions
<1>2. \A k \in DOMAIN rows : Ranked(rows, k) \in 0..MaxOnPass \cup {Unranked}
  <2>1. SUFFICES ASSUME NEW k \in DOMAIN rows PROVE Ranked(rows, k) \in 0..MaxOnPass
    OBVIOUS
  <2>2. CASE k \in OnGlance(rows) /\ GlancePlace(rows, k) <= MaxOnPass
    <3>1. GlancePlace(rows, k) \in Nat
      BY <2>2, GlanceOrder
    <3>2. Ranked(rows, k) = GlancePlace(rows, k)
      BY <2>2 DEF Ranked
    <3>3. QED BY <2>2, <3>1, <3>2, MaxOnPassAssumption
  <2>3. CASE ~(k \in OnGlance(rows) /\ GlancePlace(rows, k) <= MaxOnPass)
    <3>1. Ranked(rows, k) = 0
      BY <2>3 DEF Ranked
    <3>2. QED BY <3>1, MaxOnPassAssumption
  <2>4. QED BY <2>2, <2>3
<1>3. AssignRanks(rows) = List(f)
  BY DEF AssignRanks, Ranked, GlancePlace, OnGlance
<1>4. ASSUME NEW k \in DOMAIN rows
      PROVE  /\ [rows[k] EXCEPT !.rank = Ranked(rows, k)] \in RowType
             /\ [rows[k] EXCEPT !.rank = Ranked(rows, k)].item = rows[k].item
             /\ [rows[k] EXCEPT !.rank = Ranked(rows, k)].src = rows[k].src
             /\ [rows[k] EXCEPT !.rank = Ranked(rows, k)].card = rows[k].card
             /\ [rows[k] EXCEPT !.rank = Ranked(rows, k)].rank = Ranked(rows, k)
  <2>1. rows[k] \in RowType /\ Ranked(rows, k) \in 0..MaxOnPass \cup {Unranked}
    BY <1>1, <1>2
  <2>2. QED BY <2>1, RowFields
<1>5. f \in Seq(RowType)
  BY <1>1, <1>4
<1>6. AssignRanks(rows) = f
  BY <1>3, <1>5, ListIsSame
<1>7. DOMAIN f = DOMAIN rows /\ \A k \in DOMAIN rows : f[k] = [rows[k] EXCEPT !.rank = Ranked(rows, k)]
  OBVIOUS
<1> HIDE DEF f
<1>8. QED BY <1>4, <1>5, <1>6, <1>7

\* Assigning the ranks twice is assigning them once.
LEMMA AssignRanksOnce ==
    ASSUME NEW rows \in Seq(RowType)
    PROVE  AssignRanks(AssignRanks(rows)) = AssignRanks(rows)
<1> DEFINE new == AssignRanks(rows)
           C == OnGlance(rows)
           D == OnGlance(new)
           P(k) == GlancePlace(rows, k)
<1>1. /\ new \in Seq(RowType) /\ DOMAIN new = DOMAIN rows
      /\ \A k \in DOMAIN rows : new[k].rank = Ranked(rows, k)
  BY AssignRanksFacts
<1>2. /\ \A k \in C : P(k) \in Nat \ {0}
      /\ \A j, k \in C : Ahead(rows, j, k) <=> P(j) <= P(k)
      /\ \A j, k \in C : P(j) = P(k) => j = k
  BY GlanceOrder
<1> HIDE DEF new
<1>3. D = {k \in C : P(k) <= MaxOnPass}
  <2>1. \A k \in DOMAIN rows : Ranked(rows, k) # 0 <=> (k \in C /\ P(k) <= MaxOnPass)
    BY <1>2 DEF Ranked
  <2>2. QED BY <1>1, <2>1 DEF OnGlance
<1>4. \A k \in D : new[k].rank = P(k) /\ k \in Nat
  BY <1>1, <1>3, Positions DEF OnGlance, Ranked
<1> HIDE DEF P, C, D
<1>5. \A j, k \in D : Ahead(new, j, k) <=> P(j) <= P(k)
  BY <1>2, <1>3, <1>4 DEF Ahead
<1>6. ASSUME NEW k \in D PROVE GlancePlace(new, k) = P(k)
  <2>1. {j \in D : Ahead(new, j, k)} = {j \in C : Ahead(rows, j, k)}
    <3>1. ASSUME NEW j \in C, Ahead(rows, j, k) PROVE j \in D
      BY <1>2, <1>3, <3>1, MaxOnPassAssumption
    <3>2. \A j \in D : j \in C /\ (Ahead(new, j, k) <=> Ahead(rows, j, k))
      BY <1>2, <1>3, <1>5
    <3>3. QED BY <3>1, <3>2
  <2>2. QED BY <2>1 DEF GlancePlace, P, C, D
<1>7. ASSUME NEW k \in DOMAIN new PROVE Ranked(new, k) = new[k].rank
  <2>1. CASE k \in D
    <3>1. GlancePlace(new, k) = P(k) /\ P(k) <= MaxOnPass /\ new[k].rank = P(k)
      BY <1>3, <1>4, <1>6, <2>1
    <3>2. QED BY <2>1, <3>1 DEF Ranked, D
  <2>2. CASE k \notin D
    BY <2>2 DEF Ranked, D, OnGlance
  <2>3. QED BY <2>1, <2>2
<1>8. /\ AssignRanks(new) \in Seq(RowType) /\ DOMAIN AssignRanks(new) = DOMAIN new
      /\ \A k \in DOMAIN new : AssignRanks(new)[k] = [new[k] EXCEPT !.rank = Ranked(new, k)]
  BY <1>1, AssignRanksFacts
<1>9. \A k \in DOMAIN new : AssignRanks(new)[k] = new[k]
  <2>1. SUFFICES ASSUME NEW k \in DOMAIN new PROVE AssignRanks(new)[k] = new[k]
    OBVIOUS
  <2>2. new[k] \in RowType
    BY <1>1, Positions
  <2>3. [new[k] EXCEPT !.rank = new[k].rank] = new[k]
    BY <2>2, RowFields
  <2>4. QED BY <1>7, <1>8, <2>3
<1>10. AssignRanks(new) = new
  <2>1. /\ Len(AssignRanks(new)) = Len(new)
        /\ \A i \in 1..Len(AssignRanks(new)) : AssignRanks(new)[i] = new[i]
    BY <1>1, <1>8, <1>9, LenProperties
  <2>2. QED BY <1>1, <1>8, <2>1, SeqEqual
<1>11. QED BY <1>10 DEF new

-----------------------------------------------------------------------------
\* What collapsing the cards of one title gives.

\* The parts of Collapse.
Keeps(d) == {k \in DOMAIN d.cards : Survivor(d, k) = k}
Home(d, c) == IF \E k \in DOMAIN d.cards : d.cards[k].id = c
              THEN d.cards[Survivor(d, CHOOSE k \in DOMAIN d.cards : d.cards[k].id = c)].id
              ELSE c
Moved(d) == [k \in DOMAIN d.maps |-> [d.maps[k] EXCEPT !.card = Home(d, @)]]

\* Collapsing keeps one card of each title, and the ranked, distinct rows on their new cards.
LEMMA CollapseParts ==
    ASSUME NEW d
    PROVE  /\ Collapse(d).cards = Pick(d.cards, Keeps(d))
           /\ Collapse(d).maps = AssignRanks(OnePerSource(OnePerItem(Moved(d))))
           /\ Collapse(d) = [cards |-> Collapse(d).cards, maps |-> Collapse(d).maps]
BY DEF Collapse, Keeps, Moved, Home, Dedupe

SameTitle(d, k) == {j \in DOMAIN d.cards : d.cards[j].title = d.cards[k].title}
Fuller(d, j, i) ==
    \/ ItemCount(d.cards[i].id, d.maps) < ItemCount(d.cards[j].id, d.maps)
    \/ ItemCount(d.cards[i].id, d.maps) = ItemCount(d.cards[j].id, d.maps) /\ j <= i

\* The cards of one title have one survivor, which is one of them.
LEMMA SurvivorFacts ==
    ASSUME NEW d \in DocType, NEW k \in DOMAIN d.cards
    PROVE  /\ Survivor(d, k) \in DOMAIN d.cards
           /\ d.cards[Survivor(d, k)].title = d.cards[k].title
           /\ \A j \in DOMAIN d.cards : d.cards[j].title = d.cards[k].title
                                         => Survivor(d, j) = Survivor(d, k)
<1> DEFINE T == SameTitle(d, k)
           R == {p \in T \X T : Fuller(d, p[1], p[2])}
<1>1. d.cards \in Seq(CardType) /\ d.maps \in Seq(RowType)
  BY DEF DocType
<1>2. T \subseteq DOMAIN d.cards /\ k \in T
  BY DEF SameTitle
<1>3. IsFiniteSet(T) /\ T \subseteq Nat
  BY <1>1, <1>2, Positions
<1>4. \A c : ItemCount(c, d.maps) \in Nat
  <2>1. SUFFICES ASSUME NEW c PROVE ItemCount(c, d.maps) \in Nat
    OBVIOUS
  <2> DEFINE K == {j \in DOMAIN d.maps : d.maps[j].card = c}
  <2>2. K \subseteq DOMAIN d.maps
    OBVIOUS
  <2> HIDE DEF K
  <2>3. IsFiniteSet(K)
    BY <1>1, <2>2, Positions
  <2>4. Cardinality(K) \in Nat
    BY <2>3, FS_CardinalityType
  <2>5. QED BY <2>4 DEF ItemCount, K
<1> HIDE DEF T
<1>5. \A j, i \in T : <<j, i>> \in R <=> Fuller(d, j, i)
  OBVIOUS
<1>6. TotalOrder(R, T)
  <2>1. \A j, i \in T : Fuller(d, j, i) \/ Fuller(d, i, j)
    BY <1>3, <1>4 DEF Fuller
  <2>2. \A j, i \in T : Fuller(d, j, i) /\ Fuller(d, i, j) => j = i
    BY <1>3, <1>4 DEF Fuller
  <2>3. \A h, j, i \in T : Fuller(d, h, j) /\ Fuller(d, j, i) => Fuller(d, h, i)
    BY <1>3, <1>4 DEF Fuller
  <2> HIDE DEF R
  <2>4. QED BY <1>5, <2>1, <2>2, <2>3 DEF TotalOrder
<1>7. \E j \in T : \A i \in T : Fuller(d, j, i)
  <2> HIDE DEF R
  <2>1. PICK j \in T : \A i \in T : <<j, i>> \in R
    BY <1>2, <1>3, <1>6, Ends
  <2>2. QED BY <1>5, <2>1
<1>8. \A j \in DOMAIN d.cards : Survivor(d, j) = CHOOSE h \in SameTitle(d, j) :
                                                \A i \in SameTitle(d, j) : Fuller(d, h, i)
  BY DEF Survivor, SameTitle, Fuller
<1>9. Survivor(d, k) \in T
  BY <1>7, <1>8 DEF T
<1>10. ASSUME NEW j \in DOMAIN d.cards, d.cards[j].title = d.cards[k].title
       PROVE  Survivor(d, j) = Survivor(d, k)
  <2>1. SameTitle(d, j) = SameTitle(d, k)
    BY <1>10 DEF SameTitle
  <2>2. QED BY <1>8, <2>1
<1>11. QED BY <1>9, <1>10 DEF T, SameTitle

\* Rows that move to the card kept stay at their places with their items and sources.
LEMMA MovedFacts ==
    ASSUME NEW d \in DocType
    PROVE  /\ Moved(d) \in Seq(RowType) /\ DOMAIN Moved(d) = DOMAIN d.maps
           /\ \A k \in DOMAIN d.maps : /\ Moved(d)[k].item = d.maps[k].item
                                        /\ Moved(d)[k].src = d.maps[k].src
<1>1. d.cards \in Seq(CardType) /\ d.maps \in Seq(RowType)
  BY DEF DocType
<1>2. \A c \in Card : Home(d, c) \in Card
  <2>1. SUFFICES ASSUME NEW c \in Card, NEW k \in DOMAIN d.cards
                 PROVE  d.cards[Survivor(d, k)].id \in Card
    BY DEF Home
  <2>2. Survivor(d, k) \in DOMAIN d.cards
    BY SurvivorFacts
  <2>3. d.cards[Survivor(d, k)] \in CardType
    BY <1>1, <2>2, Positions
  <2>4. QED BY <2>3 DEF CardType
<1>3. DOMAIN d.maps = 1..Len(d.maps) /\ Len(d.maps) \in Nat
  BY <1>1, Positions
<1>4. ASSUME NEW k \in DOMAIN d.maps
      PROVE  /\ [d.maps[k] EXCEPT !.card = Home(d, @)] \in RowType
             /\ [d.maps[k] EXCEPT !.card = Home(d, @)].item = d.maps[k].item
             /\ [d.maps[k] EXCEPT !.card = Home(d, @)].src = d.maps[k].src
  <2>1. d.maps[k] \in RowType
    BY <1>1, Positions
  <2>2. Home(d, d.maps[k].card) \in Card
    BY <1>2, <2>1, RowFields
  <2>3. QED BY <2>1, <2>2, RowFields
<1>5. DOMAIN Moved(d) = DOMAIN d.maps /\ Moved(d) \in Seq(RowType)
  BY <1>3, <1>4 DEF Moved
<1>6. QED BY <1>4, <1>5 DEF Moved

\* No two cards of one id or title, no two rows of one item or source, ranks in order.
Distinct(rows) == /\ \A j, k \in DOMAIN rows : rows[j].item = rows[k].item => j = k
                  /\ \A j, k \in DOMAIN rows : rows[j].src = rows[k].src => j = k
OneTitleEach(cards) == /\ \A j, k \in DOMAIN cards : cards[j].id = cards[k].id => j = k
                       /\ \A j, k \in DOMAIN cards : cards[j].title = cards[k].title => j = k
Settled(d) == /\ OneTitleEach(d.cards) /\ Distinct(d.maps)
              /\ AssignRanks(d.maps) = d.maps

\* The rows of a collapsed document: distinct, ranked, and every item that was there
\* is there or has left its source to another; none has a source it did not have.
LEMMA CollapsedRows ==
    ASSUME NEW d \in DocType
    PROVE  /\ Collapse(d).maps \in Seq(RowType)
           /\ Distinct(Collapse(d).maps)
           /\ AssignRanks(Collapse(d).maps) = Collapse(d).maps
           /\ \A k \in DOMAIN d.maps : \E j \in DOMAIN d.maps :
                 /\ d.maps[j].item = d.maps[k].item
                 /\ \E n \in DOMAIN Collapse(d).maps : Collapse(d).maps[n].src = d.maps[j].src
           /\ \A n \in DOMAIN Collapse(d).maps : \E j \in DOMAIN d.maps :
                 /\ d.maps[j].item = Collapse(d).maps[n].item
                 /\ d.maps[j].src = Collapse(d).maps[n].src
<1> DEFINE moved == Moved(d)
           single == OnePerItem(moved)
           rows == OnePerSource(single)
           new == AssignRanks(rows)
<1>1. Collapse(d).maps = new
  BY CollapseParts
<1>2. /\ moved \in Seq(RowType) /\ DOMAIN moved = DOMAIN d.maps
      /\ \A k \in DOMAIN d.maps : moved[k].item = d.maps[k].item /\ moved[k].src = d.maps[k].src
  BY MovedFacts
<1> HIDE DEF moved
<1>3. /\ single \in Seq(RowType)
      /\ \A n \in DOMAIN single : \E k \in DOMAIN moved : single[n] = moved[k]
      /\ \A k \in DOMAIN moved : \E n \in DOMAIN single : single[n].item = moved[k].item
      /\ \A m, n \in DOMAIN single : single[m].item = single[n].item => m = n
  BY <1>2, OnePerItemFacts
<1> HIDE DEF single
<1>4. /\ rows \in Seq(RowType)
      /\ \A k \in DOMAIN single : \E n \in DOMAIN rows : rows[n].src = single[k].src
      /\ \A n \in DOMAIN rows : \E k \in DOMAIN single : rows[n] = single[k]
      /\ \A m, n \in DOMAIN rows : rows[m].src = rows[n].src => m = n
      /\ \A m, n \in DOMAIN rows : rows[m].item = rows[n].item => m = n
  BY <1>3, OnePerSourceFacts
<1> HIDE DEF rows
<1>5. /\ new \in Seq(RowType) /\ DOMAIN new = DOMAIN rows
      /\ \A k \in DOMAIN rows : new[k].item = rows[k].item /\ new[k].src = rows[k].src
  BY <1>4, AssignRanksFacts
<1>6. AssignRanks(new) = new
  BY <1>4, AssignRanksOnce
<1> HIDE DEF new
<1>7. Distinct(new)
  BY <1>4, <1>5 DEF Distinct
<1>8. ASSUME NEW k \in DOMAIN d.maps
      PROVE  \E j \in DOMAIN d.maps : /\ d.maps[j].item = d.maps[k].item
                                      /\ \E n \in DOMAIN new : new[n].src = d.maps[j].src
  <2>1. PICK s \in DOMAIN single : single[s].item = moved[k].item
    BY <1>2, <1>3
  <2>2. PICK j \in DOMAIN moved : single[s] = moved[j]
    BY <1>3
  <2>3. PICK n \in DOMAIN rows : rows[n].src = single[s].src
    BY <1>4
  <2>4. QED BY <1>2, <1>5, <2>1, <2>2, <2>3
<1>9. ASSUME NEW n \in DOMAIN new
      PROVE  \E j \in DOMAIN d.maps : d.maps[j].item = new[n].item /\ d.maps[j].src = new[n].src
  <2>1. PICK k \in DOMAIN single : rows[n] = single[k]
    BY <1>4, <1>5
  <2>2. PICK j \in DOMAIN moved : single[k] = moved[j]
    BY <1>3
  <2>3. QED BY <1>2, <1>5, <2>1, <2>2
<1>10. QED BY <1>1, <1>5, <1>6, <1>7, <1>8, <1>9

\* Collapsing leaves each title once, and each id once if it was there once.
LEMMA CollapsedCards ==
    ASSUME NEW d \in DocType
    PROVE  /\ Collapse(d).cards \in Seq(CardType)
           /\ \A j, k \in DOMAIN Collapse(d).cards :
                 Collapse(d).cards[j].title = Collapse(d).cards[k].title => j = k
           /\ (\A j, k \in DOMAIN d.cards : d.cards[j].id = d.cards[k].id => j = k)
              => \A j, k \in DOMAIN Collapse(d).cards :
                    Collapse(d).cards[j].id = Collapse(d).cards[k].id => j = k
<1> DEFINE new == Collapse(d).cards
           K == Keeps(d)
<1>1. d.cards \in Seq(CardType) /\ K \subseteq DOMAIN d.cards
  BY DEF DocType, Keeps
<1>2. new = Pick(d.cards, K)
  BY CollapseParts
<1>3. ASSUME NEW j \in K, NEW k \in K, d.cards[j].title = d.cards[k].title PROVE j = k
  <2>1. Survivor(d, j) = Survivor(d, k)
    BY <1>1, <1>3, SurvivorFacts
  <2>2. QED BY <2>1 DEF Keeps
<1> HIDE DEF K, new
<1>4. /\ new \in Seq(CardType)
      /\ \A n \in DOMAIN new : \E k \in K : new[n] = d.cards[k] /\ Place(K, k) = n
  BY <1>1, <1>2, PickFacts
<1>5. ASSUME NEW m \in DOMAIN new, NEW n \in DOMAIN new
      PROVE  \E j, k \in K : new[m] = d.cards[j] /\ new[n] = d.cards[k] /\ (j = k => m = n)
  BY <1>4
<1>6. ASSUME NEW m \in DOMAIN new, NEW n \in DOMAIN new, new[m].title = new[n].title PROVE m = n
  BY <1>3, <1>5, <1>6
<1>7. ASSUME \A j, k \in DOMAIN d.cards : d.cards[j].id = d.cards[k].id => j = k,
             NEW m \in DOMAIN new, NEW n \in DOMAIN new, new[m].id = new[n].id
      PROVE  m = n
  BY <1>1, <1>5, <1>7
<1>8. QED BY <1>4, <1>6, <1>7 DEF new

\* Collapsing gives a document, and a settled one if the ids of its cards are distinct.
LEMMA CollapseType ==
    ASSUME NEW d \in DocType
    PROVE  /\ Collapse(d) \in DocType
           /\ (\A j, k \in DOMAIN d.cards : d.cards[j].id = d.cards[k].id => j = k)
              => Settled(Collapse(d))
<1>1. Collapse(d).cards \in Seq(CardType) /\ Collapse(d).maps \in Seq(RowType)
  BY CollapsedCards, CollapsedRows
<1>2. Collapse(d) \in DocType
  BY <1>1, CollapseParts DEF DocType
<1>3. QED BY <1>2, CollapsedCards, CollapsedRows DEF Settled, OneTitleEach

\* Cards of one title each and distinct rows stay; they get their ranks.
LEMMA CollapseDistinct ==
    ASSUME NEW d \in DocType, OneTitleEach(d.cards), Distinct(d.maps)
    PROVE  Collapse(d) = [cards |-> d.cards, maps |-> AssignRanks(d.maps)]
<1>1. d.cards \in Seq(CardType) /\ d.maps \in Seq(RowType)
  BY DEF DocType
<1>2. \A k \in DOMAIN d.cards : Survivor(d, k) = k
  BY SurvivorFacts DEF OneTitleEach
<1>3. Pick(d.cards, Keeps(d)) = d.cards
  <2>1. Keeps(d) = DOMAIN d.cards
    BY <1>2 DEF Keeps
  <2>2. QED BY <1>1, <2>1, PickAll
<1>4. \A c : Home(d, c) = c
  BY <1>2 DEF Home
<1>5. Moved(d) = d.maps
  <2>1. \A k \in DOMAIN d.maps : [d.maps[k] EXCEPT !.card = Home(d, @)] = d.maps[k]
    <3>1. SUFFICES ASSUME NEW k \in DOMAIN d.maps
                   PROVE  [d.maps[k] EXCEPT !.card = Home(d, @)] = d.maps[k]
      OBVIOUS
    <3>2. d.maps[k] \in RowType
      BY <1>1, Positions
    <3>3. QED BY <1>4, <3>2, RowFields
  <2>2. d.maps = [k \in DOMAIN d.maps |-> d.maps[k]]
    BY <1>1, LenProperties
  <2>3. QED BY <2>1, <2>2 DEF Moved
<1>6. OnePerItem(d.maps) = d.maps /\ OnePerSource(d.maps) = d.maps
  <2>1. OnePerItem(d.maps) = d.maps
    BY <1>1, OnePerItemFacts DEF Distinct
  <2>2. OnePerSource(d.maps) = d.maps
    BY <1>1, OnePerSourceFacts DEF Distinct
  <2>3. QED BY <2>1, <2>2
<1>7. Collapse(d).cards = d.cards /\ Collapse(d).maps = AssignRanks(d.maps)
  BY <1>3, <1>5, <1>6, CollapseParts
<1>8. QED BY <1>7, CollapseParts

\* Collapsing what is settled changes nothing.
LEMMA CollapseSettled ==
    ASSUME NEW d \in DocType, Settled(d)
    PROVE  Collapse(d) = d
BY CollapseDistinct DEF Settled, DocType

-----------------------------------------------------------------------------
\* The document the house works with, and what an editor makes of it.

\* What the house works with is settled; of every row of the options it has a row whose
\* source is put together from what the options and the file give its item, and that row
\* is of this item if the item is there at all.
LEMMA MergeFacts ==
    ASSUME NEW o, NEW f, o.cards \in Seq(CardType), o.maps \in Seq(RowType),
           f.cards \in Seq(CardType), f.maps \in Seq(RowType)
    PROVE  /\ Merge(o, f) \in DocType /\ Settled(Merge(o, f))
           /\ \A k \in DOMAIN o.maps : \E n \in DOMAIN Merge(o, f).maps :
                 LET i == o.maps[k].item  row == Merge(o, f).maps[n]
                 IN  /\ i \in ItemIds(Merge(o, f)) => row.item = i
                     /\ \A g \in Fields : \/ Gives(o.maps, i, g, row.src[g])
                                          \/ Gives(f.maps, i, g, row.src[g])
<1> DEFINE d == [cards |-> UnionCards(o.cards, f.cards), maps |-> UnionRows(o.maps, f.maps)]
           rows == UnionRows(o.maps, f.maps)
           m == Merge(o, f)
<1>1. m = Collapse(d) /\ d.maps = rows
  BY DEF Merge
<1>2. d \in DocType
  BY UnionKeepsCards, UnionKeepsItems DEF DocType
<1>3. m \in DocType /\ Settled(m)
  <2>1. \A j, k \in DOMAIN d.cards : d.cards[j].id = d.cards[k].id => j = k
    BY UnionKeepsCards
  <2> HIDE DEF d, m
  <2>2. QED BY <1>1, <1>2, <2>1, CollapseType
<1>4. /\ \A k \in DOMAIN rows : \E j \in DOMAIN rows :
            /\ rows[j].item = rows[k].item
            /\ \E n \in DOMAIN m.maps : m.maps[n].src = rows[j].src
      /\ \A n \in DOMAIN m.maps : \E j \in DOMAIN rows :
            rows[j].item = m.maps[n].item /\ rows[j].src = m.maps[n].src
  <2> HIDE DEF d, m, rows
  <2>1. QED BY <1>1, <1>2, CollapsedRows
<1>5. \A j \in DOMAIN rows, g \in Fields : \/ Gives(o.maps, rows[j].item, g, rows[j].src[g])
                                           \/ Gives(f.maps, rows[j].item, g, rows[j].src[g])
  BY UnionKeepsItems
<1>6. ASSUME NEW k \in DOMAIN o.maps
      PROVE  \E n \in DOMAIN m.maps :
                /\ o.maps[k].item \in ItemIds(m) => m.maps[n].item = o.maps[k].item
                /\ \A g \in Fields : \/ Gives(o.maps, o.maps[k].item, g, m.maps[n].src[g])
                                     \/ Gives(f.maps, o.maps[k].item, g, m.maps[n].src[g])
  <2> DEFINE i == o.maps[k].item
  <2>1. PICK u \in DOMAIN rows : rows[u].item = i
    BY UnionKeepsItems
  <2> HIDE DEF m, rows
  <2>2. CASE i \in ItemIds(m)
    <3>1. PICK n \in DOMAIN m.maps : m.maps[n].item = i
      BY <2>2 DEF ItemIds
    <3>2. PICK j \in DOMAIN rows : rows[j].item = m.maps[n].item /\ rows[j].src = m.maps[n].src
      BY <1>4
    <3>3. QED BY <1>5, <3>1, <3>2
  <2>3. CASE i \notin ItemIds(m)
    <3>1. PICK j \in DOMAIN rows, n \in DOMAIN m.maps :
             rows[j].item = i /\ m.maps[n].src = rows[j].src
      BY <1>4, <2>1
    <3>2. QED BY <1>5, <2>3, <3>1
  <2>4. QED BY <2>2, <2>3
<1>7. QED BY <1>3, <1>6

\* The rows on the document's own cards are just those, and distinct if all are.
LEMMA OnACardFacts ==
    ASSUME NEW d, d.maps \in Seq(RowType)
    PROVE  /\ OnACard(d) \in Seq(RowType)
           /\ \A n \in DOMAIN OnACard(d) : \E k \in DOMAIN d.maps :
                 OnACard(d)[n] = d.maps[k] /\ d.maps[k].card \in CardIds(d)
           /\ \A k \in DOMAIN d.maps : d.maps[k].card \in CardIds(d)
                 => \E n \in DOMAIN OnACard(d) : OnACard(d)[n] = d.maps[k]
           /\ Distinct(d.maps) => Distinct(OnACard(d))
<1> DEFINE K == {k \in DOMAIN d.maps : d.maps[k].card \in CardIds(d)}
           new == OnACard(d)
<1>1. new = Pick(d.maps, K) /\ K \subseteq DOMAIN d.maps
  BY DEF OnACard
<1> HIDE DEF K, new
<1>2. /\ new \in Seq(RowType)
      /\ \A n \in DOMAIN new : \E k \in K : new[n] = d.maps[k] /\ Place(K, k) = n
      /\ \A k \in K : \E n \in DOMAIN new : new[n] = d.maps[k] /\ Place(K, k) = n
  BY <1>1, PickFacts
<1>3. ASSUME Distinct(d.maps) PROVE Distinct(new)
  <2>1. ASSUME NEW m \in DOMAIN new, NEW n \in DOMAIN new
        PROVE  \E j, k \in K : new[m] = d.maps[j] /\ new[n] = d.maps[k] /\ (j = k => m = n)
    BY <1>2
  <2>2. ASSUME NEW m \in DOMAIN new, NEW n \in DOMAIN new,
               new[m].item = new[n].item \/ new[m].src = new[n].src
        PROVE  m = n
    <3>1. PICK j \in K, k \in K : new[m] = d.maps[j] /\ new[n] = d.maps[k] /\ (j = k => m = n)
      BY <2>1
    <3>2. j \in DOMAIN d.maps /\ k \in DOMAIN d.maps
      BY <1>1
    <3>3. j = k
      BY <1>3, <2>2, <3>1, <3>2 DEF Distinct
    <3>4. QED BY <3>1, <3>3
  <2>3. QED BY <2>2 DEF Distinct
<1>4. QED BY <1>1, <1>2, <1>3 DEF K, new

\* What the editor or the add-on makes of two documents is a document.
LEMMA NormalizeType ==
    ASSUME NEW b, NEW e, b.cards \in Seq(CardType), b.maps \in Seq(RowType),
           e.cards \in Seq(CardType), e.maps \in Seq(RowType)
    PROVE  Normalize(b, e) \in DocType /\ AddonSaved(b, e) \in DocType
<1>1. OnACard(b) \in Seq(RowType) /\ UnionCards(e.cards, b.cards) \in Seq(CardType)
  BY OnACardFacts, UnionKeepsCards
<1>2. Normalize(b, e) \in DocType
  <2>1. [cards |-> IF b.cards = <<>> THEN e.cards ELSE b.cards,
         maps |-> IF OnACard(b) = <<>> THEN e.maps ELSE OnACard(b)] \in DocType
    BY <1>1 DEF DocType
  <2>2. QED BY <2>1, CollapseType DEF Normalize
<1>3. AddonSaved(b, e) \in DocType
  <2> DEFINE kept == b.maps = <<>> /\ e.maps # <<>>
             d == [maps  |-> IF kept THEN e.maps ELSE b.maps,
                   cards |-> IF b.cards = <<>> THEN e.cards
                             ELSE IF kept THEN UnionCards(e.cards, b.cards) ELSE b.cards]
  <2>1. d \in DocType
    BY <1>1 DEF DocType
  <2>2. AddonSaved(b, e) = Collapse(d)
    BY DEF AddonSaved
  <2> HIDE DEF d
  <2>3. QED BY <2>1, <2>2, CollapseType
<1>4. QED BY <1>2, <1>3

\* The items shown, each with its card, as SaveIsStable tells them.
ShownPairs(d) == {<<OnACard(d)[k].item, OnACard(d)[k].card>> : k \in DOMAIN OnACard(d)}

\* Collapsing a settled document, saving nothing over it and uniting what it is saved as
\* with itself change nothing; saving it as it was fetched keeps what is shown.
LEMMA SettledSaves ==
    ASSUME NEW m \in DocType, Settled(m)
    PROVE  /\ Collapse(m) = m
           /\ Normalize(Blank, m) = m
           /\ ShownPairs(Normalize(m, m)) = ShownPairs(m)
           /\ Merge(Normalize(m, m), Normalize(m, m)) = Normalize(m, m)
<1> DEFINE known == OnACard(m)
           e == [cards |-> m.cards, maps |-> IF known = <<>> THEN m.maps ELSE known]
           back == Normalize(m, m)
<1>1. /\ m.cards \in Seq(CardType) /\ m.maps \in Seq(RowType) /\ m = [cards |-> m.cards, maps |-> m.maps]
      /\ OneTitleEach(m.cards) /\ Distinct(m.maps) /\ AssignRanks(m.maps) = m.maps
  BY DEF DocType, Settled
<1>2. Collapse(m) = m
  BY CollapseSettled
<1>3. Normalize(Blank, m) = m
  <2>1. Blank.cards = <<>> /\ Blank.maps = <<>> /\ Blank.maps \in Seq(RowType)
    BY EmptySeq DEF Blank
  <2>2. OnACard(Blank) \in Seq(RowType) /\ OnACard(Blank) = <<>>
    <3>1. /\ OnACard(Blank) \in Seq(RowType)
          /\ \A n \in DOMAIN OnACard(Blank) : \E k \in DOMAIN Blank.maps :
                OnACard(Blank)[n] = Blank.maps[k]
      BY <2>1, OnACardFacts
    <3>2. DOMAIN Blank.maps = {}
      BY <2>1
    <3>3. DOMAIN OnACard(Blank) = {}
      BY <3>1, <3>2
    <3>4. Len(OnACard(Blank)) = 0
      <4>1. DOMAIN OnACard(Blank) = 1..Len(OnACard(Blank)) /\ Len(OnACard(Blank)) \in Nat
        BY <3>1, LenProperties
      <4>2. QED BY <3>3, <4>1
    <3>5. QED BY <3>1, <3>4, EmptySeq
  <2>3. Normalize(Blank, m) = Collapse([cards |-> m.cards, maps |-> m.maps])
    BY <2>1, <2>2 DEF Normalize
  <2>4. QED BY <1>1, <1>2, <2>3
<1>4. /\ known \in Seq(RowType) /\ Distinct(known)
      /\ \A n \in DOMAIN known : known[n].card \in CardIds(m)
  BY <1>1, OnACardFacts
<1>5. back = Collapse(e)
  BY DEF Normalize
<1> HIDE DEF known
<1>6. e \in DocType /\ OneTitleEach(e.cards) /\ Distinct(e.maps)
  BY <1>1, <1>4 DEF DocType
<1>7. back = [cards |-> e.cards, maps |-> AssignRanks(e.maps)]
  <2> HIDE DEF e, back
  <2>1. QED BY <1>5, <1>6, CollapseDistinct
<1>8. back \in DocType /\ Settled(back)
  <2>1. \A j, k \in DOMAIN e.cards : e.cards[j].id = e.cards[k].id => j = k
    BY <1>6 DEF OneTitleEach
  <2> HIDE DEF e, back
  <2>2. QED BY <1>5, <1>6, <2>1, CollapseType
<1>9. ShownPairs(back) = ShownPairs(m)
  <2>1. CASE known = <<>>
    <3>1. e = m
      BY <1>1, <2>1
    <3>2. back = m
      BY <1>2, <1>5, <3>1
    <3>3. QED BY <3>2
  <2>2. CASE known # <<>>
    <3> DEFINE new == AssignRanks(known)
    <3>1. back.cards = m.cards /\ back.maps = new /\ CardIds(back) = CardIds(m)
      BY <1>7, <2>2 DEF CardIds
    <3>2. /\ new \in Seq(RowType) /\ DOMAIN new = DOMAIN known
          /\ \A k \in DOMAIN known : new[k].item = known[k].item /\ new[k].card = known[k].card
      BY <1>4, AssignRanksFacts
    <3> HIDE DEF new, back
    <3>3. /\ \A n \in DOMAIN OnACard(back) : \E k \in DOMAIN new : OnACard(back)[n] = new[k]
          /\ \A k \in DOMAIN new : new[k].card \in CardIds(back)
                => \E n \in DOMAIN OnACard(back) : OnACard(back)[n] = new[k]
      BY <3>1, <3>2, OnACardFacts
    <3>4. \A k \in DOMAIN new : new[k].card \in CardIds(back)
      BY <1>4, <3>1, <3>2
    <3>5. ShownPairs(back) = {<<new[k].item, new[k].card>> : k \in DOMAIN new}
      BY <3>3, <3>4 DEF ShownPairs
    <3>6. ShownPairs(m) = {<<known[k].item, known[k].card>> : k \in DOMAIN known}
      BY DEF ShownPairs, known
    <3>7. QED BY <3>2, <3>5, <3>6
  <2>3. QED BY <2>1, <2>2
<1>10. Merge(back, back) = back
  <2> HIDE DEF back
  <2>1. back.cards \in Seq(CardType) /\ back.maps \in Seq(RowType) /\ back = [cards |-> back.cards, maps |-> back.maps]
    BY <1>8 DEF DocType
  <2>2. UnionCards(back.cards, back.cards) = back.cards
    BY <1>8, <2>1, UnionCardsSame DEF Settled, OneTitleEach
  <2>3. UnionRows(back.maps, back.maps) = back.maps
    BY <1>8, <2>1, UnionRowsSame DEF Settled, Distinct
  <2>4. Merge(back, back) = Collapse(back)
    BY <2>1, <2>2, <2>3 DEF Merge
  <2>5. QED BY <1>8, <2>4, CollapseSettled
<1>11. QED BY <1>2, <1>3, <1>9, <1>10

-----------------------------------------------------------------------------
\* The pass: which rows it shows.

\* The order of the pass is total on the rows of its cards.
LEMMA PassOrderTotal ==
    ASSUME NEW d \in DocType
    PROVE  /\ OnPass(d) \subseteq DOMAIN d.maps
           /\ \A k \in OnPass(d) : Emitted(d.maps[k])
           /\ \A j, k \in OnPass(d) : PassOrder(d, j, k) \/ PassOrder(d, k, j)
           /\ \A j, k \in OnPass(d) : PassOrder(d, j, k) /\ PassOrder(d, k, j) => j = k
           /\ \A i, j, k \in OnPass(d) :
                 PassOrder(d, i, j) /\ PassOrder(d, j, k) => PassOrder(d, i, k)
<1> DEFINE C(k) == CardOf(d, k)
           T(c) == d.cards[c].title
<1>1. d.cards \in Seq(CardType) /\ d.maps \in Seq(RowType)
  BY DEF DocType
<1>2. ASSUME NEW k \in OnPass(d)
      PROVE  k \in DOMAIN d.maps /\ Emitted(d.maps[k]) /\ C(k) \in DOMAIN d.cards
  <2>1. PICK c \in PassCards(d) : k \in CardItems(d, c)
    BY DEF OnPass
  <2>2. c \in DOMAIN d.cards
    BY <2>1 DEF PassCards
  <2>3. k \in DOMAIN d.maps /\ d.maps[k].card = d.cards[c].id /\ Emitted(d.maps[k])
    BY <2>1 DEF CardItems
  <2>4. QED BY <2>2, <2>3 DEF CardOf
<1>3. \A k \in OnPass(d) : k \in Nat /\ C(k) \in Nat /\ C(k) \in DOMAIN d.cards
  BY <1>1, <1>2, Positions
<1>4. \A c \in DOMAIN d.cards : T(c) \in Nat
  <2>1. \A c \in DOMAIN d.cards : d.cards[c] \in CardType
    BY <1>1, Positions
  <2>2. QED BY <2>1, TitleAssumption DEF CardType
<1>5. \A j, k : PassOrder(d, j, k) <=>
         IF C(j) = C(k) THEN j <= k
         ELSE T(C(j)) < T(C(k)) \/ (T(C(j)) = T(C(k)) /\ C(j) <= C(k))
  BY DEF PassOrder, Before
<1>6. \A k \in OnPass(d) : T(C(k)) \in Nat
  BY <1>3, <1>4
<1> HIDE DEF C, T
<1>7. ASSUME NEW j \in OnPass(d), NEW k \in OnPass(d)
      PROVE  /\ PassOrder(d, j, k) \/ PassOrder(d, k, j)
             /\ PassOrder(d, j, k) /\ PassOrder(d, k, j) => j = k
  BY <1>3, <1>5, <1>6
<1>8. ASSUME NEW i \in OnPass(d), NEW j \in OnPass(d), NEW k \in OnPass(d),
             PassOrder(d, i, j), PassOrder(d, j, k)
      PROVE  PassOrder(d, i, k)
  BY <1>3, <1>5, <1>6, <1>8
<1>9. QED BY <1>2, <1>7, <1>8

\* The pass shows rows of the document, of sources whose state can be read.
LEMMA PassRowsFacts ==
    ASSUME NEW d \in DocType
    PROVE  /\ PassRows(d) \in Seq(RowType)
           /\ \A n \in DOMAIN PassRows(d) : \E k \in DOMAIN d.maps :
                 PassRows(d)[n] = d.maps[k] /\ Emitted(d.maps[k])
<1> DEFINE shown == OnPass(d)
           R == {p \in shown \X shown : PassOrder(d, p[1], p[2])}
           P(k) == Cardinality({j \in shown : PassOrder(d, j, k)})
           rows == [n \in 1..Cardinality(shown) |-> d.maps[CHOOSE k \in shown : P(k) = n]]
<1>1. PassRows(d) = rows
  BY DEF PassRows
<1>2. /\ shown \subseteq DOMAIN d.maps /\ \A k \in shown : Emitted(d.maps[k])
      /\ d.maps \in Seq(RowType) /\ \A k \in DOMAIN d.maps : d.maps[k] \in RowType
  BY PassOrderTotal, Positions DEF DocType
<1>3. IsFiniteSet(shown)
  <2> HIDE DEF shown
  <2>1. QED BY <1>2, Positions
<1>4. \A j, k \in shown : <<j, k>> \in R <=> PassOrder(d, j, k)
  OBVIOUS
<1>5. TotalOrder(R, shown)
  <2>1. /\ \A j, k \in shown : PassOrder(d, j, k) \/ PassOrder(d, k, j)
        /\ \A j, k \in shown : PassOrder(d, j, k) /\ PassOrder(d, k, j) => j = k
        /\ \A i, j, k \in shown : PassOrder(d, i, j) /\ PassOrder(d, j, k) => PassOrder(d, i, k)
    BY PassOrderTotal
  <2> HIDE DEF R, shown
  <2>2. QED BY <1>4, <2>1 DEF TotalOrder
<1>6. \A k \in shown : Below(shown, R, k) = P(k)
  <2>1. SUFFICES ASSUME NEW k \in shown PROVE Below(shown, R, k) = P(k)
    OBVIOUS
  <2>2. {j \in shown : <<j, k>> \in R} = {j \in shown : PassOrder(d, j, k)}
    BY <1>4
  <2>3. QED BY <2>2 DEF Below
<1> HIDE DEF R, P, shown
<1>7. Cardinality(shown) \in Nat /\ \A n \in 1..Cardinality(shown) : \E k \in shown : P(k) = n
  BY <1>3, <1>5, <1>6, Numbered
<1>8. ASSUME NEW n \in 1..Cardinality(shown)
      PROVE  \E k \in DOMAIN d.maps : rows[n] = d.maps[k] /\ Emitted(d.maps[k])
  <2>1. (CHOOSE k \in shown : P(k) = n) \in shown
    BY <1>7
  <2>2. QED BY <1>2, <2>1
<1>9. \A n \in 1..Cardinality(shown) : rows[n] \in RowType
  BY <1>2, <1>8
<1>10. rows \in Seq(RowType) /\ DOMAIN rows = 1..Cardinality(shown)
  BY <1>7, <1>9
<1>11. QED BY <1>1, <1>8, <1>10

-----------------------------------------------------------------------------
\* The diff of two documents, and the ring it goes into.

\* What the rows of the pass show, by item.
LEMMA IndexFacts ==
    ASSUME NEW d \in DocType, Distinct(d.maps), ha \in [Entity -> [Attribute \cup {Unset} -> State]]
    PROVE  /\ DOMAIN Index(PassRows(d)) \subseteq Item
           /\ \A i \in DOMAIN Index(PassRows(d)) : Index(PassRows(d))[i] \in ShownType
           /\ \A n \in DOMAIN PassRows(d) :
                 /\ PassRows(d)[n].item \in DOMAIN Index(PassRows(d))
                 /\ Index(PassRows(d))[PassRows(d)[n].item] = Presented(PassRows(d)[n])
           /\ \A i \in DOMAIN Index(PassRows(d)) : \E n \in DOMAIN PassRows(d) : PassRows(d)[n].item = i
<1> DEFINE rows == PassRows(d)
           ix == Index(rows)
<1>1. /\ d.maps \in Seq(RowType) /\ \A k \in DOMAIN d.maps : d.maps[k] \in RowType
      /\ \A n \in DOMAIN rows : \E k \in DOMAIN d.maps : rows[n] = d.maps[k] /\ Emitted(d.maps[k])
  BY PassRowsFacts, Positions DEF DocType
<1> HIDE DEF rows
<1>2. ASSUME NEW n \in DOMAIN rows
      PROVE  rows[n] \in RowType /\ Presented(rows[n]) \in ShownType
  <2>1. rows[n] \in RowType /\ Emitted(rows[n])
    BY <1>1
  <2> DEFINE src == rows[n].src
  <2>2. src.entity \in Entity /\ src.attr \in Attribute \cup {Unset} /\ src.label \in Label \cup {Unset}
    BY <2>1, RowFields DEF SourceType
  <2>3. Reading(src) \in State /\ Reading(src) # "odd"
    BY <2>1, <2>2 DEF Emitted, Reading
  <2>4. ItemValue(Reading(src)) \in Value
    BY <2>3 DEF ItemValue, State, Value
  <2>5. (IF src.label = Unset THEN src.entity ELSE src.label) \in Label \cup Entity
    BY <2>2
  <2>6. QED BY <2>1, <2>4, <2>5 DEF Presented, ShownType
<1>3. ASSUME NEW m \in DOMAIN rows, NEW n \in DOMAIN rows, rows[m].item = rows[n].item
      PROVE  rows[m] = rows[n]
  BY <1>1, <1>3 DEF Distinct
<1>4. DOMAIN ix = {rows[k].item : k \in DOMAIN rows}
  BY DEF Index
<1>5. ASSUME NEW n \in DOMAIN rows
      PROVE  rows[n].item \in DOMAIN ix /\ ix[rows[n].item] = Presented(rows[n])
  <2> DEFINE c == CHOOSE k \in DOMAIN rows : rows[k].item = rows[n].item
  <2>1. c \in DOMAIN rows /\ rows[c].item = rows[n].item
    OBVIOUS
  <2>2. ix[rows[n].item] = Presented(rows[c])
    BY DEF Index
  <2>3. rows[c] = rows[n]
    BY <1>3, <2>1
  <2>4. QED BY <1>4, <2>2, <2>3
<1> HIDE DEF ix
<1>6. \A i \in DOMAIN ix : i \in Item /\ ix[i] \in ShownType
  <2>1. SUFFICES ASSUME NEW n \in DOMAIN rows PROVE rows[n].item \in Item /\ ix[rows[n].item] \in ShownType
    BY <1>4
  <2>2. QED BY <1>2, <1>5, RowFields
<1>7. QED BY <1>4, <1>5, <1>6 DEF ix, rows

\* The items whose label or value is another one than before, the value not unknown.
Differing(rows, previous) ==
    {k \in DOMAIN rows : /\ rows[k].item \in DOMAIN previous
                         /\ previous[rows[k].item] # Presented(rows[k])
                         /\ Presented(rows[k]).val # "none"}

\* The fresh lines are those of the rows that differ from what was shown, with the value
\* they have now.
LEMMA FreshFacts ==
    ASSUME NEW rows \in Seq(RowType), NEW previous,
           \A n \in DOMAIN rows : Presented(rows[n]) \in ShownType
    PROVE  /\ Fresh(rows, previous) \in Seq(EventType)
           /\ \A k \in DOMAIN Fresh(rows, previous) : \E n \in Differing(rows, previous) :
                 Fresh(rows, previous)[k] = [item |-> rows[n].item, val |-> Presented(rows[n]).val]
           /\ \A n \in Differing(rows, previous) : \E k \in DOMAIN Fresh(rows, previous) :
                 Fresh(rows, previous)[k].item = rows[n].item
<1> DEFINE all == [item : Item, val : Value]
           lines == [k \in DOMAIN rows |-> [item |-> rows[k].item, val |-> Presented(rows[k]).val]]
           K == Differing(rows, previous)
           fresh == Fresh(rows, previous)
<1>1. fresh = Pick(lines, K)
  BY DEF Fresh, Differing
<1>2. DOMAIN rows = 1..Len(rows) /\ Len(rows) \in Nat /\ \A n \in DOMAIN rows : rows[n] \in RowType
  BY Positions
<1>3. \A n \in DOMAIN rows : lines[n] \in all
  <2>1. \A n \in DOMAIN rows : rows[n].item \in Item /\ Presented(rows[n]).val \in Value
    BY <1>2, RowFields DEF ShownType
  <2>2. QED BY <2>1
<1>4. lines \in Seq(all) /\ DOMAIN lines = DOMAIN rows
  BY <1>2, <1>3
<1>5. K \subseteq DOMAIN rows
  BY DEF Differing
<1>6. \A n \in DOMAIN rows : lines[n] = [item |-> rows[n].item, val |-> Presented(rows[n]).val]
  OBVIOUS
<1> HIDE DEF K, lines, all, fresh
<1>7. /\ fresh \in Seq(all)
      /\ \A k \in DOMAIN fresh : \E n \in K : fresh[k] = lines[n]
      /\ \A n \in K : \E k \in DOMAIN fresh : fresh[k] = lines[n]
  BY <1>1, <1>4, <1>5, PickFacts
<1>8. \A k \in DOMAIN fresh : \E n \in K :
         fresh[k] = [item |-> rows[n].item, val |-> Presented(rows[n]).val]
  BY <1>5, <1>6, <1>7
<1>9. ASSUME NEW n \in K PROVE \E k \in DOMAIN fresh : fresh[k].item = rows[n].item
  <2>1. PICK k \in DOMAIN fresh : fresh[k] = lines[n]
    BY <1>7
  <2>2. n \in DOMAIN rows
    BY <1>5
  <2>3. lines[n] = [item |-> rows[n].item, val |-> Presented(rows[n]).val]
    BY <1>6, <2>2
  <2>4. fresh[k].item = rows[n].item
    BY <2>1, <2>3
  <2>5. QED BY <2>4
<1>10. \A k \in DOMAIN fresh : fresh[k] \in EventType
  <2>1. SUFFICES ASSUME NEW k \in DOMAIN fresh PROVE fresh[k] \in EventType
    OBVIOUS
  <2>2. PICK n \in K : fresh[k] = [item |-> rows[n].item, val |-> Presented(rows[n]).val]
    BY <1>8
  <2>3. n \in DOMAIN rows /\ Presented(rows[n]).val # "none" /\ Presented(rows[n]).val \in Value
    BY DEF K, Differing, ShownType
  <2>4. rows[n].item \in Item
    BY <1>2, <2>3, RowFields
  <2>5. QED BY <2>2, <2>3, <2>4 DEF EventType
<1>11. fresh \in Seq(EventType)
  <2>1. DOMAIN fresh = 1..Len(fresh) /\ Len(fresh) \in Nat /\ fresh \in [1..Len(fresh) -> all]
    BY <1>7, LenProperties
  <2>2. fresh = [k \in 1..Len(fresh) |-> fresh[k]]
    BY <2>1
  <2>3. QED BY <1>10, <2>1, <2>2
<1>12. QED BY <1>8, <1>9, <1>11 DEF fresh, K

\* The ring begins with the fresh lines and goes on with the old ones, cut at its length.
LEMMA RingFacts ==
    ASSUME NEW fresh \in Seq(EventType), events \in Seq(EventType)
    PROVE  /\ Ring(fresh) \in Seq(EventType) /\ Len(Ring(fresh)) <= MaxEvents
           /\ Len(Ring(fresh)) <= Len(fresh) + Len(events)
           /\ \A k \in DOMAIN Ring(fresh) :
                 /\ k \in 1..(Len(fresh) + Len(events))
                 /\ \A j \in 1..k : j \in DOMAIN Ring(fresh)
                 /\ k <= Len(fresh) => Ring(fresh)[k] = fresh[k]
                 /\ k > Len(fresh) => /\ k - Len(fresh) \in DOMAIN events
                                      /\ Ring(fresh)[k] = events[k - Len(fresh)]
<1> DEFINE all == fresh \o events
           n == IF Len(all) < MaxEvents THEN Len(all) ELSE MaxEvents
           new == Ring(fresh)
<1>1. new = SubSeq(all, 1, n)
  BY DEF Ring, Newest
<1>2. /\ all \in Seq(EventType) /\ Len(all) = Len(fresh) + Len(events)
      /\ \A i \in 1..(Len(fresh) + Len(events)) :
            all[i] = IF i <= Len(fresh) THEN fresh[i] ELSE events[i - Len(fresh)]
  BY ConcatProperties
<1>3. /\ Len(fresh) \in Nat /\ Len(events) \in Nat /\ Len(all) \in Nat
      /\ DOMAIN events = 1..Len(events) /\ \A i \in 1..Len(all) : all[i] \in EventType
  BY <1>2, LenProperties, ElementOfSeq
<1> HIDE DEF all
<1>4. n \in Nat /\ n <= Len(all) /\ n <= MaxEvents
  BY <1>3, LimitAssumption
<1> HIDE DEF n
<1>5. /\ new \in Seq(EventType) /\ Len(new) = n
      /\ \A i \in 1..n : new[i] = all[i]
  <2>1. \A i \in 1..n : all[i] \in EventType
    BY <1>3, <1>4
  <2>2. /\ SubSeq(all, 1, n) \in Seq(EventType)
        /\ Len(SubSeq(all, 1, n)) = IF 1 <= n THEN n - 1 + 1 ELSE 0
        /\ \A i \in 1..(n - 1 + 1) : SubSeq(all, 1, n)[i] = all[1 + i - 1]
    BY <1>4, <2>1, SubSeqProperties
  <2> HIDE DEF new
  <2>3. QED BY <1>1, <1>4, <2>2
<1> HIDE DEF new
<1>6. DOMAIN new = 1..n
  BY <1>5, LenProperties
<1>7. ASSUME NEW k \in 1..n
      PROVE  /\ k \in 1..(Len(fresh) + Len(events))
             /\ \A j \in 1..k : j \in 1..n
             /\ k <= Len(fresh) => new[k] = fresh[k]
             /\ k > Len(fresh) => k - Len(fresh) \in DOMAIN events /\ new[k] = events[k - Len(fresh)]
  BY <1>2, <1>3, <1>4, <1>5
<1>8. QED BY <1>2, <1>4, <1>5, <1>6, <1>7 DEF new

\* What the pass shows goes into presented, the ring and rejoined with its type.
LEMMA RecordType ==
    ASSUME NEW d \in DocType, Distinct(d.maps), ha \in [Entity -> [Attribute \cup {Unset} -> State]],
           events \in Seq(EventType), Record(d)
    PROVE  /\ DOMAIN presented' \subseteq Item
           /\ \A i \in DOMAIN presented' : presented'[i] \in ShownType
           /\ events' \in Seq(EventType) /\ Len(events') <= MaxEvents
           /\ rejoined' \subseteq DOMAIN presented'
<1> DEFINE rows == PassRows(d)
           fresh == Fresh(rows, presented)
<1>1. presented' = Index(rows) /\ events' = Ring(fresh) /\ rejoined' \subseteq DOMAIN Index(rows)
  BY DEF Record
<1>2. /\ DOMAIN Index(rows) \subseteq Item
      /\ \A i \in DOMAIN Index(rows) : Index(rows)[i] \in ShownType
      /\ \A n \in DOMAIN rows : /\ rows[n].item \in DOMAIN Index(rows)
                                /\ Index(rows)[rows[n].item] = Presented(rows[n])
  BY IndexFacts
<1>3. rows \in Seq(RowType)
  BY PassRowsFacts
<1> HIDE DEF rows
<1>4. \A n \in DOMAIN rows : Presented(rows[n]) \in ShownType
  BY <1>2
<1>5. fresh \in Seq(EventType)
  BY <1>3, <1>4, FreshFacts
<1>6. Ring(fresh) \in Seq(EventType) /\ Len(Ring(fresh)) <= MaxEvents
  BY <1>5, RingFacts
<1>7. QED BY <1>1, <1>2, <1>6

\* A newest line about an item is either a fresh one, of the value it shows now, or an old
\* one; then the item was shown before and its value is the one it had, or unknown.
LEMMA RecordTruthful ==
    ASSUME NEW d \in DocType, Distinct(d.maps), ha \in [Entity -> [Attribute \cup {Unset} -> State]],
           events \in Seq(EventType), RingTruthful, Record(d)
    PROVE  RingTruthful'
<1> DEFINE rows == PassRows(d)
           fresh == Fresh(rows, presented)
           ix == Index(rows)
           F == Len(fresh)
           Now(n) == Presented(rows[n])
<1>1. /\ presented' = ix /\ events' = Ring(fresh)
      /\ rejoined' = ((rejoined \ {fresh[k].item : k \in DOMAIN fresh})
                          \cup (DOMAIN ix \ DOMAIN presented)) \cap DOMAIN ix
  BY DEF Record
<1>2. /\ \A i \in DOMAIN ix : ix[i] \in ShownType
      /\ \A n \in DOMAIN rows : rows[n].item \in DOMAIN ix /\ ix[rows[n].item] = Now(n)
      /\ \A i \in DOMAIN ix : \E n \in DOMAIN rows : rows[n].item = i
  BY IndexFacts
<1>3. rows \in Seq(RowType)
  BY PassRowsFacts
<1> HIDE DEF rows, ix
<1>4. \A n \in DOMAIN rows : Now(n) \in ShownType
  BY <1>2
<1>5. /\ fresh \in Seq(EventType)
      /\ \A k \in DOMAIN fresh : \E n \in Differing(rows, presented) :
            fresh[k] = [item |-> rows[n].item, val |-> Now(n).val]
      /\ \A n \in Differing(rows, presented) : \E k \in DOMAIN fresh : fresh[k].item = rows[n].item
  BY <1>3, <1>4, FreshFacts
<1> HIDE DEF fresh
<1>6. \A k \in DOMAIN Ring(fresh) :
         /\ k \in 1..(F + Len(events))
         /\ \A j \in 1..k : j \in DOMAIN Ring(fresh)
         /\ k <= F => Ring(fresh)[k] = fresh[k]
         /\ k > F => k - F \in DOMAIN events /\ Ring(fresh)[k] = events[k - F]
  BY <1>5, RingFacts
<1>7. /\ F \in Nat /\ DOMAIN fresh = 1..F
      /\ Len(events) \in Nat /\ DOMAIN events = 1..Len(events)
  BY <1>5, LenProperties
<1>8. ASSUME NEW i \in DOMAIN presented' \ rejoined', NEW k \in DOMAIN events',
             events'[k].item = i, \A j \in 1..(k - 1) : events'[j].item # i
      PROVE  presented'[i].val \in {events'[k].val, "none"}
  <2>1. i \in DOMAIN ix /\ k \in DOMAIN Ring(fresh) /\ k \in Nat
    BY <1>1, <1>6, <1>7
  <2>2. CASE k <= F
    <3>1. k \in DOMAIN fresh /\ events'[k] = fresh[k]
      BY <1>1, <1>6, <1>7, <2>1, <2>2
    <3>2. PICK n \in Differing(rows, presented) : fresh[k] = [item |-> rows[n].item, val |-> Now(n).val]
      BY <1>5, <3>1
    <3>3. n \in DOMAIN rows /\ i = rows[n].item /\ events'[k].val = Now(n).val
      BY <1>8, <3>1, <3>2 DEF Differing
    <3>4. QED BY <1>1, <1>2, <3>3
  <2>3. CASE k > F
    <3> DEFINE o == k - F
    <3>1. o \in DOMAIN events /\ events'[k] = events[o] /\ o \in Nat /\ o <= Len(events)
      BY <1>1, <1>6, <1>7, <2>1, <2>3
    <3>2. ASSUME NEW j \in DOMAIN fresh PROVE fresh[j].item # i
      <4>1. j \in 1..(k - 1) /\ j \in 1..k /\ j <= F
        BY <1>7, <2>1, <2>3
      <4>2. j \in DOMAIN Ring(fresh) /\ Ring(fresh)[j] = fresh[j]
        BY <1>6, <2>1, <4>1
      <4>3. events'[j].item # i
        BY <1>8, <4>1
      <4>4. QED BY <1>1, <4>2, <4>3
    <3>3. i \in DOMAIN presented \ rejoined
      BY <1>1, <1>8, <2>1, <3>2
    <3>4. ASSUME NEW j \in 1..(o - 1) PROVE events[j].item # i
      <4>1. j + F \in 1..(k - 1) /\ j + F \in 1..k /\ j + F > F /\ j + F - F = j
        BY <1>7, <2>1, <2>3
      <4>2. j + F \in DOMAIN Ring(fresh)
        BY <1>6, <2>1, <4>1
      <4>3. Ring(fresh)[j + F] = events[j]
        BY <1>6, <4>1, <4>2
      <4>4. events'[j + F].item # i
        BY <1>8, <4>1
      <4>5. QED BY <1>1, <4>3, <4>4
    <3>5. events[o].item = i
      BY <1>8, <3>1
    <3> HIDE DEF o
    <3>6. presented[i].val \in {events[o].val, "none"}
      BY <3>1, <3>3, <3>4, <3>5 DEF RingTruthful
    <3>7. PICK n \in DOMAIN rows : rows[n].item = i
      BY <1>2, <2>1
    <3>8. n \notin Differing(rows, presented)
      BY <1>5, <3>2, <3>7
    <3>9. presented[i] = Now(n) \/ Now(n).val = "none"
      BY <3>3, <3>7, <3>8 DEF Differing
    <3>10. presented'[i] = Now(n)
      BY <1>1, <1>2, <3>7
    <3>11. QED BY <3>1, <3>6, <3>9, <3>10
  <2>4. QED BY <1>7, <2>1, <2>2, <2>3
<1>9. QED BY <1>8 DEF RingTruthful

-----------------------------------------------------------------------------
(* HouseMapping: the edits. *)

\* Whatever a user does to a document leaves a document.
LEMMA EditsType ==
    ASSUME NEW d \in DocType
    PROVE  Edits(d) \subseteq DocType
<1>1. /\ d.cards \in Seq(CardType) /\ d.maps \in Seq(RowType)
      /\ d = [cards |-> d.cards, maps |-> d.maps]
      /\ \A k \in DOMAIN d.cards : d.cards[k] \in CardType
      /\ \A k \in DOMAIN d.maps : d.maps[k] \in RowType
  BY Positions DEF DocType
<1>2. Blank \in DocType
  BY EmptySeq DEF Blank, DocType
<1>0. /\ \A X \in Seq(CardType) : [d EXCEPT !.cards = X] \in DocType
     /\ \A X \in Seq(RowType) : [d EXCEPT !.maps = X] \in DocType
  BY <1>1 DEF DocType
<1>3. ASSUME NEW i PROVE WithoutItem(d, i) \in DocType
  <2> DEFINE K == {k \in DOMAIN d.maps : d.maps[k].item # i}
  <2>1. Pick(d.maps, K) \in Seq(RowType)
    BY <1>1, PickFacts
  <2>2. QED BY <1>1, <2>1 DEF WithoutItem, DocType
<1>4. ASSUME NEW c PROVE WithoutCard(d, c) \in DocType
  <2> DEFINE K == {k \in DOMAIN d.maps : d.maps[k].card # c}
             L == {k \in DOMAIN d.cards : d.cards[k].id # c}
  <2>1. Pick(d.maps, K) \in Seq(RowType) /\ Pick(d.cards, L) \in Seq(CardType)
    BY <1>1, PickFacts
  <2>2. QED BY <2>1 DEF WithoutCard, DocType
<1>5. ASSUME NEW k \in DOMAIN d.cards, NEW t \in Title
      PROVE  Retitled(d, k, t) \in DocType
  <2> DEFINE card == [d.cards[k] EXCEPT !.title = t]
  <2>1. card \in CardType
    BY <1>1 DEF CardType
  <2> HIDE DEF card
  <2>2. [d.cards EXCEPT ![k] = card] \in Seq(CardType)
    BY <1>1, <2>1, ExceptSeq
  <2>3. [d EXCEPT !.cards = [d.cards EXCEPT ![k] = card]] \in DocType
    BY <1>0, <2>2
  <2>4. QED BY <2>3 DEF card, Retitled
<1>6. ASSUME NEW k \in DOMAIN d.maps, NEW s \in Source
      PROVE  Rewired(d, k, s) \in DocType
  <2> DEFINE row == [d.maps[k] EXCEPT !.src = s]
  <2>1. row \in RowType
    BY <1>1, SourceAssumption DEF RowType, SourceType
  <2> HIDE DEF row
  <2>2. [d.maps EXCEPT ![k] = row] \in Seq(RowType)
    BY <1>1, <2>1, ExceptSeq
  <2>3. [d EXCEPT !.maps = [d.maps EXCEPT ![k] = row]] \in DocType
    BY <1>0, <2>2
  <2>4. QED BY <2>3 DEF row, Rewired
<1>7. ASSUME NEW k \in DOMAIN d.maps
      PROVE  Toggled(d, k) \in DocType
  <2> DEFINE row == [d.maps[k] EXCEPT !.rank = IF @ = 0 THEN Unranked ELSE 0]
  <2>1. 0 \in 0..MaxOnPass
    BY MaxOnPassAssumption
  <2>2. row \in RowType
    BY <1>1, <2>1 DEF RowType
  <2> HIDE DEF row
  <2>3. [d.maps EXCEPT ![k] = row] \in Seq(RowType)
    BY <1>1, <2>2, ExceptSeq
  <2>4. [d EXCEPT !.maps = [d.maps EXCEPT ![k] = row]] \in DocType
    BY <1>0, <2>3
  <2>5. QED BY <2>4 DEF row, Toggled
<1>8. ASSUME NEW j \in DOMAIN d.maps, NEW k \in DOMAIN d.maps
      PROVE  Exchanged(d, j, k) \in DocType
  <2> DEFINE rows == d.maps
             At(n, row) == IF rows[j].rank # 0 /\ rows[k].rank # 0
                           THEN [row EXCEPT !.rank = rows[n].rank] ELSE row
             one == [rows EXCEPT ![j] = At(j, rows[k])]
             two == [one EXCEPT ![k] = At(k, rows[j])]
  <2>1. At(j, rows[k]) \in RowType /\ At(k, rows[j]) \in RowType
    BY <1>1 DEF RowType
  <2>2. one \in Seq(RowType) /\ DOMAIN one = DOMAIN rows
    <3> HIDE DEF At
    <3>1. QED BY <1>1, <2>1, ExceptSeq
  <2>3. two \in Seq(RowType)
    <3> HIDE DEF At, one
    <3>1. QED BY <2>1, <2>2, ExceptSeq
  <2>4. [d EXCEPT !.maps = two] \in DocType
    <3> HIDE DEF two
    <3>1. QED BY <1>0, <2>3
  <2>5. Exchanged(d, j, k) = [d EXCEPT !.maps = two]
    BY DEF Exchanged
  <2>6. QED BY <2>4, <2>5
<1>9. ASSUME NEW i \in Item \ UsedItems, NEW c \in CardIds(d), NEW s \in Source, NEW r \in {0, Unranked}
      PROVE  WithNewItem(d, i, c, s, r) \in DocType
  <2> DEFINE row == [item |-> i, card |-> c, src |-> s, rank |-> r]
  <2>1. c \in Card /\ 0 \in 0..MaxOnPass
    BY <1>1, MaxOnPassAssumption DEF CardIds, CardType
  <2>2. row \in RowType
    BY <2>1, SourceAssumption DEF RowType, SourceType
  <2> HIDE DEF row
  <2>3. Append(d.maps, row) \in Seq(RowType)
    BY <1>1, <2>2, AppendProperties
  <2>4. QED BY <1>0, <2>3 DEF row, WithNewItem
<1>10. ASSUME NEW c \in Card \ UsedCards, NEW t \in Title
       PROVE  WithNewCard(d, c, t) \in DocType
  <2> DEFINE card == [id |-> c, title |-> t]
  <2>1. card \in CardType
    BY DEF CardType
  <2> HIDE DEF card
  <2>2. Append(d.cards, card) \in Seq(CardType)
    BY <1>1, <2>1, AppendProperties
  <2>3. QED BY <1>0, <2>2 DEF card, WithNewCard
<1> DEFINE E1 == {WithoutItem(d, i) : i \in ItemIds(d)} \cup {WithoutCard(d, c) : c \in CardIds(d)}
           E2 == {Retitled(d, k, t) : k \in DOMAIN d.cards, t \in Title}
           E3 == {Rewired(d, k, s) : k \in DOMAIN d.maps, s \in Source}
           E4 == {Toggled(d, k) : k \in DOMAIN d.maps}
           E5 == {Exchanged(d, p[1], p[2]) : p \in Neighbours(d)}
           E6 == {WithNewItem(d, i, c, s, r) :
                     i \in Item \ UsedItems, c \in CardIds(d), s \in Source, r \in {0, Unranked}}
           E7 == {WithNewCard(d, c, t) : c \in Card \ UsedCards, t \in Title}
<1>11. E1 \subseteq DocType
  BY <1>3, <1>4
<1>12. E2 \subseteq DocType
  BY <1>5
<1>13. E3 \subseteq DocType
  BY <1>6
<1>14. E4 \subseteq DocType
  BY <1>7
<1>15. E5 \subseteq DocType
  BY <1>8 DEF Neighbours
<1>16. E6 \subseteq DocType
  BY <1>9
<1>17. E7 \subseteq DocType
  BY <1>10
<1>18. Edits(d) = {Blank} \cup E1 \cup E2 \cup E3 \cup E4 \cup E5 \cup E6 \cup E7
  BY DEF Edits
<1> HIDE DEF E1, E2, E3, E4, E5, E6, E7
<1>19. QED BY <1>2, <1>11, <1>12, <1>13, <1>14, <1>15, <1>16, <1>17, <1>18

-----------------------------------------------------------------------------
(* HouseMapping: type correctness. *)

\* The parts of a document, and the file it makes.
LEMMA DocFacts ==
    ASSUME NEW d \in DocType
    PROVE  /\ d.cards \in Seq(CardType) /\ d.maps \in Seq(RowType)
           /\ Entities(d) \subseteq Entity
           /\ \A cal \in SUBSET Calendar : File(d, cal) \in FileType
<1>1. d.cards \in Seq(CardType) /\ d.maps \in Seq(RowType)
  BY DEF DocType
<1>2. Entities(d) \subseteq Entity
  <2>1. \A k \in DOMAIN d.maps : d.maps[k].src.entity \in Entity
    BY <1>1, Positions, RowFields DEF SourceType
  <2>2. QED BY <2>1 DEF Entities
<1>3. QED BY <1>1, <1>2 DEF File, FileType

\* The parts of a request, and what a request is made of.
LEMMA RequestFacts ==
    ASSUME NEW pcs
    PROVE  /\ \A r \in RequestType(pcs) :
                 /\ r.pc \in pcs /\ r.cards \in Seq(CardType) /\ r.maps \in Seq(RowType)
                 /\ r.cal \in SUBSET Calendar
                 /\ \A cal \in SUBSET Calendar : File(r, cal) \in FileType
           /\ \A p \in pcs, c \in Seq(CardType), m \in Seq(RowType), cal \in SUBSET Calendar :
                 [pc |-> p, cards |-> c, maps |-> m, cal |-> cal] \in RequestType(pcs)
           /\ \A r \in RequestType(pcs), p \in pcs : [r EXCEPT !.pc = p] \in RequestType(pcs)
           /\ "idle" \in pcs => Idle \in RequestType(pcs)
<1>1. <<>> \in Seq(CardType) /\ <<>> \in Seq(RowType)
  BY EmptySeq
<1>2. "idle" \in pcs => Idle \in RequestType(pcs)
  BY <1>1 DEF Idle, RequestType
<1>3. \A r \in RequestType(pcs), p \in pcs : [r EXCEPT !.pc = p] \in RequestType(pcs)
  BY DEF RequestType
<1>4. \A r \in RequestType(pcs) :
         /\ r.pc \in pcs /\ r.cards \in Seq(CardType) /\ r.maps \in Seq(RowType)
         /\ r.cal \in SUBSET Calendar
         /\ \A cal \in SUBSET Calendar : File(r, cal) \in FileType
  BY DEF RequestType, File, FileType
<1>5. \A p \in pcs, c \in Seq(CardType), m \in Seq(RowType), cal \in SUBSET Calendar :
         [pc |-> p, cards |-> c, maps |-> m, cal |-> cal] \in RequestType(pcs)
  BY DEF RequestType
<1>6. QED BY <1>2, <1>3, <1>4, <1>5

\* What the stores hold, and what is served of them.
LEMMA StoreFacts ==
    ASSUME MappingTypeOK
    PROVE  /\ options \in DocType /\ options.cards \in Seq(CardType) /\ options.maps \in Seq(RowType)
           /\ file \in FileType /\ file.cards \in Seq(CardType) /\ file.maps \in Seq(RowType)
           /\ file.cal \in SUBSET Calendar
           /\ Mapping \in DocType /\ Settled(Mapping) /\ Distinct(Mapping.maps)
           /\ [cards |-> file.cards, maps |-> file.maps] \in DocType
<1>1. options \in DocType /\ file \in FileType
  BY DEF MappingTypeOK
<1>2. /\ options.cards \in Seq(CardType) /\ options.maps \in Seq(RowType)
      /\ file.cards \in Seq(CardType) /\ file.maps \in Seq(RowType) /\ file.cal \in SUBSET Calendar
  BY <1>1 DEF DocType, FileType
<1>3. Merge(options, file) \in DocType /\ Settled(Merge(options, file))
  BY <1>2, MergeFacts
<1>4. QED BY <1>1, <1>2, <1>3 DEF Mapping, Settled, DocType

\* Seeding and replacing the file keep the types.
LEMMA SeedFacts ==
    ASSUME MappingTypeOK, NEW d \in DocType
    PROVE  /\ Seeded(d) \in FileType
           /\ Replaced \in RequestType({"idle", "open", "fill", "stray"})
           /\ Seed(d) => /\ file' \in FileType
                         /\ addon' \in RequestType({"idle", "open", "fill", "stray"})
<1>1. file \in FileType /\ addon \in RequestType({"idle", "open", "fill", "stray"})
  BY DEF MappingTypeOK
<1>2. Seeded(d) \in FileType
  BY <1>1, DocFacts DEF Seeded
<1>3. Replaced \in RequestType({"idle", "open", "fill", "stray"})
  BY <1>1, RequestFacts DEF Replaced
<1>4. QED BY <1>1, <1>2, <1>3 DEF Seed

\* The types hold when setup has run.
LEMMA MappingTypeInit == MappingInit => MappingTypeOK
<1> SUFFICES ASSUME MappingInit PROVE MappingTypeOK
  OBVIOUS
<1> DEFINE t == CHOOSE t \in Title : TRUE
<1>1. PICK c \in Card, i \in Item, s \in Source :
         options = [cards |-> <<[id |-> c, title |-> t]>>,
                    maps |-> <<[item |-> i, card |-> c, src |-> s, rank |-> 1]>>]
  BY DEF MappingInit
<1> DEFINE row == [item |-> i, card |-> c, src |-> s, rank |-> 1]
           card == [id |-> c, title |-> t]
<1>2. row \in RowType /\ card \in CardType
  BY MaxOnPassAssumption, TitleAssumption, SourceAssumption DEF RowType, CardType, SourceType
<1> HIDE DEF row, card
<1>3. options = [cards |-> <<card>>, maps |-> <<row>>]
  BY <1>1 DEF row, card
<1>4. <<card>> \in Seq(CardType) /\ <<row>> \in Seq(RowType)
  BY <1>2
<1>5. options \in DocType /\ Distinct(options.maps)
  BY <1>3, <1>4 DEF DocType, Distinct
<1>6. ha \in [Entity -> [Attribute \cup {Unset} -> State]]
  BY DEF MappingInit, State
<1>7. /\ DOMAIN presented \subseteq Item
      /\ \A k \in DOMAIN presented : presented[k] \in ShownType
  BY <1>5, <1>6, IndexFacts DEF MappingInit
<1>8. file \in FileType /\ tracked \subseteq Entity
  BY <1>5, DocFacts DEF MappingInit
<1>9. /\ panel \in RequestType({"idle", "open", "read", "write"})
      /\ calsave \in RequestType({"idle", "write"})
      /\ addon \in RequestType({"idle", "open", "fill", "stray"})
  BY RequestFacts DEF MappingInit
<1>10. events \in Seq(EventType) /\ Len(events) <= MaxEvents
  BY EmptySeq, LimitAssumption DEF MappingInit
<1>11. saves \in 0..MaxSaves /\ changes \in 0..MaxChanges /\ mishaps \in 0..MaxMishaps
  BY LimitAssumption DEF MappingInit
<1>12. hidden \subseteq Calendar /\ updated \in BOOLEAN /\ pending \in BOOLEAN /\ rejoined \subseteq DOMAIN presented
  BY DEF MappingInit
<1>13. QED BY <1>5, <1>6, <1>7, <1>8, <1>9, <1>10, <1>11, <1>12 DEF MappingTypeOK

\* The types of what a diff writes.
ActivityTyped == /\ DOMAIN presented \subseteq Item /\ \A i \in DOMAIN presented : presented[i] \in ShownType
                 /\ events \in Seq(EventType) /\ Len(events) <= MaxEvents
                 /\ rejoined \subseteq DOMAIN presented

\* A step that leaves the pass and the list alone keeps their types.
LEMMA ActivityStays ==
    ASSUME MappingTypeOK, UNCHANGED activity
    PROVE  ActivityTyped'
BY DEF MappingTypeOK, ActivityTyped, activity

\* Recording what the pass shows keeps the types of the activity.
LEMMA ActivityRecorded ==
    ASSUME MappingTypeOK, Record(Mapping)
    PROVE  ActivityTyped'
<1>1. Mapping \in DocType /\ Distinct(Mapping.maps)
  BY StoreFacts
<1>2. ha \in [Entity -> [Attribute \cup {Unset} -> State]] /\ events \in Seq(EventType)
  BY DEF MappingTypeOK
<1>3. /\ DOMAIN presented' \subseteq Item
      /\ \A i \in DOMAIN presented' : presented'[i] \in ShownType
      /\ events' \in Seq(EventType) /\ Len(events') <= MaxEvents
      /\ rejoined' \subseteq DOMAIN presented'
  BY <1>1, <1>2, RecordType
<1>4. QED BY <1>3 DEF ActivityTyped

\* Every step keeps the types.
LEMMA MappingTypeStep == MappingTypeOK /\ [MappingNext]_mappingVars => MappingTypeOK'
<1> SUFFICES ASSUME MappingTypeOK, [MappingNext]_mappingVars PROVE MappingTypeOK'
  OBVIOUS
<1> USE DEF stores, requests, bounds
<1>0. /\ options \in DocType /\ file \in FileType
      /\ panel \in RequestType({"idle", "open", "read", "write"})
      /\ calsave \in RequestType({"idle", "write"})
      /\ addon \in RequestType({"idle", "open", "fill", "stray"})
      /\ hidden \subseteq Calendar /\ updated \in BOOLEAN /\ pending \in BOOLEAN
      /\ ha \in [Entity -> [Attribute \cup {Unset} -> State]] /\ tracked \subseteq Entity
      /\ saves \in 0..MaxSaves /\ changes \in 0..MaxChanges /\ mishaps \in 0..MaxMishaps
      /\ {MaxSaves, MaxChanges, MaxMishaps} \subseteq Nat
  BY LimitAssumption DEF MappingTypeOK
<1> DEFINE Goal == /\ options' \in DocType /\ file' \in FileType
                   /\ panel' \in RequestType({"idle", "open", "read", "write"})
                   /\ calsave' \in RequestType({"idle", "write"})
                   /\ addon' \in RequestType({"idle", "open", "fill", "stray"})
                   /\ hidden' \subseteq Calendar /\ updated' \in BOOLEAN /\ pending' \in BOOLEAN
                   /\ ha' \in [Entity -> [Attribute \cup {Unset} -> State]] /\ tracked' \subseteq Entity
                   /\ saves' \in 0..MaxSaves /\ changes' \in 0..MaxChanges /\ mishaps' \in 0..MaxMishaps
<1>1. SUFFICES Goal /\ ActivityTyped'
  BY DEF MappingTypeOK, ActivityTyped
<1>2. CASE PanelOpen
  <2>1. PICK d \in Edits(Mapping) : panel' = [Idle EXCEPT !.pc = "open", !.cards = d.cards, !.maps = d.maps]
    BY <1>2 DEF PanelOpen
  <2>2. d.cards \in Seq(CardType) /\ d.maps \in Seq(RowType)
    BY StoreFacts, EditsType, DocFacts
  <2>3. panel' = [pc |-> "open", cards |-> d.cards, maps |-> d.maps, cal |-> {}]
    BY <2>1 DEF Idle
  <2>4. panel' \in RequestType({"idle", "open", "read", "write"})
    BY <2>2, <2>3, RequestFacts
  <2>5. saves' \in 0..MaxSaves
    BY <1>0, <1>2 DEF PanelOpen
  <2>6. ActivityTyped'
    BY <1>2, ActivityStays DEF PanelOpen
  <2>7. QED BY <1>0, <1>2, <2>4, <2>5, <2>6 DEF PanelOpen
<1>3. CASE PanelPost
  <2> DEFINE d == Normalize([cards |-> panel.cards, maps |-> panel.maps], Mapping)
  <2>1. d \in DocType
    BY <1>0, RequestFacts, StoreFacts, DocFacts, NormalizeType
  <2>2. /\ options' = d /\ updated' \in BOOLEAN /\ Seed(d)
        /\ panel' = [panel EXCEPT !.pc = "read", !.cards = d.cards, !.maps = d.maps]
    BY <1>3 DEF PanelPost
  <2> HIDE DEF d
  <2>3. panel' \in RequestType({"idle", "open", "read", "write"})
    BY <1>0, <2>1, <2>2, DocFacts DEF RequestType
  <2>4. QED BY <1>0, <1>3, <2>1, <2>2, <2>3, SeedFacts, ActivityStays DEF PanelPost
<1>4. CASE PanelRead
  <2>1. panel' \in RequestType({"idle", "open", "read", "write"})
    BY <1>0, <1>4, StoreFacts DEF PanelRead, RequestType
  <2>2. QED BY <1>0, <1>4, <2>1, ActivityStays DEF PanelRead
<1>5. CASE PanelWrite
  <2>1. File(panel, panel.cal) \in FileType
    BY <1>0, RequestFacts
  <2>2. file' \in FileType /\ addon' \in RequestType({"idle", "open", "fill", "stray"})
    BY <1>0, <1>5, <2>1, SeedFacts, StoreFacts DEF PanelWrite
  <2>3. mishaps' \in 0..MaxMishaps
    BY <1>0, <1>5 DEF PanelWrite
  <2>4. tracked' \subseteq Entity
    <3>1. file'.cards \in Seq(CardType) /\ file'.maps \in Seq(RowType)
      BY <2>2 DEF FileType
    <3>2. Merge(options, file') \in DocType
      BY <3>1, StoreFacts, MergeFacts
    <3>3. QED BY <1>5, <3>2, DocFacts DEF PanelWrite
  <2>5. panel' \in RequestType({"idle", "open", "read", "write"})
    BY <1>5, RequestFacts DEF PanelWrite
  <2>6. QED BY <1>0, <1>5, <2>2, <2>3, <2>4, <2>5, ActivityStays DEF PanelWrite
<1>6. CASE OptionsUpdated
  <2>1. tracked' \subseteq Entity /\ updated' = FALSE
    BY <1>6, StoreFacts, DocFacts DEF OptionsUpdated
  <2>2. QED BY <1>0, <1>6, <2>1, ActivityRecorded DEF OptionsUpdated
<1>7. CASE CalRead
  <2>1. calsave' \in RequestType({"idle", "write"})
    BY <1>7, StoreFacts DEF CalRead, RequestType
  <2>2. saves' \in 0..MaxSaves
    BY <1>0, <1>7 DEF CalRead
  <2>3. ActivityTyped'
    BY <1>7, ActivityStays DEF CalRead
  <2>4. QED BY <1>0, <1>7, <2>1, <2>2, <2>3 DEF CalRead
<1>8. CASE CalWrite
  <2>1. file' \in FileType /\ hidden' \subseteq Calendar /\ calsave' \in RequestType({"idle", "write"})
    BY <1>0, <1>8, RequestFacts DEF CalWrite
  <2>2. addon' \in RequestType({"idle", "open", "fill", "stray"})
    BY <1>8, SeedFacts, StoreFacts DEF CalWrite
  <2>3. QED BY <1>0, <1>8, <2>1, <2>2, ActivityStays DEF CalWrite
<1>9. CASE AddonRead
  <2>1. PICK body \in Edits([cards |-> file.cards, maps |-> file.maps]) :
           addon' = [pc |-> "open", cards |-> AddonSaved(body, file).cards,
                     maps |-> AddonSaved(body, file).maps, cal |-> file.cal]
    BY <1>9 DEF AddonRead
  <2>2. AddonSaved(body, file) \in DocType
    BY StoreFacts, EditsType, DocFacts, NormalizeType
  <2>3. addon' \in RequestType({"idle", "open", "fill", "stray"})
    BY <2>1, <2>2, StoreFacts, DocFacts DEF RequestType
  <2>4. saves' \in 0..MaxSaves
    BY <1>0, <1>9 DEF AddonRead
  <2>5. ActivityTyped'
    BY <1>9, ActivityStays DEF AddonRead
  <2>6. QED BY <1>0, <1>9, <2>3, <2>4, <2>5 DEF AddonRead
<1>10. CASE AddonTruncate
  <2>1. Blank \in DocType
    BY EmptySeq DEF Blank, DocType
  <2>2. file' \in FileType
    BY <1>10, <2>1, DocFacts DEF AddonTruncate
  <2>3. addon' \in RequestType({"idle", "open", "fill", "stray"})
    BY <1>0, <1>10, RequestFacts DEF AddonTruncate
  <2>4. QED BY <1>0, <1>10, <2>2, <2>3, ActivityStays DEF AddonTruncate
<1>11. CASE AddonFill
  <2>1. File(addon, addon.cal) \in FileType
    BY <1>0, RequestFacts
  <2>2. file' \in FileType /\ addon' \in RequestType({"idle", "open", "fill", "stray"})
    BY <1>0, <1>11, <2>1, RequestFacts DEF AddonFill
  <2>3. QED BY <1>0, <1>11, <2>2, ActivityStays DEF AddonFill
<1>12. CASE AddonDies
  <2>1. addon' \in RequestType({"idle", "open", "fill", "stray"})
    BY <1>12, RequestFacts DEF AddonDies
  <2>2. mishaps' \in 0..MaxMishaps
    BY <1>0, <1>12 DEF AddonDies
  <2>3. ActivityTyped'
    BY <1>12, ActivityStays DEF AddonDies
  <2>4. QED BY <1>0, <1>12, <2>1, <2>2, <2>3 DEF AddonDies
<1>13. ASSUME NEW e \in Entity, NEW a \in Attribute \cup {Unset}, NEW v \in State, Change(e, a, v)
       PROVE  Goal /\ ActivityTyped'
  <2>1. ha' \in [Entity -> [Attribute \cup {Unset} -> State]]
    BY <1>0, <1>13 DEF Change
  <2>2. changes' \in 0..MaxChanges /\ pending' \in BOOLEAN
    BY <1>0, <1>13 DEF Change
  <2>3. ActivityTyped'
    BY <1>13, ActivityStays DEF Change
  <2>4. QED BY <1>0, <1>13, <2>1, <2>2, <2>3 DEF Change
<1>14. CASE Emit
  BY <1>0, <1>14, ActivityRecorded DEF Emit
<1>15. CASE Restart
  <2>1. /\ Seed(options) /\ Seeded(options) \in FileType
        /\ file' \in FileType /\ addon' \in RequestType({"idle", "open", "fill", "stray"})
    BY <1>0, <1>15, SeedFacts DEF Restart
  <2>2. /\ panel' \in RequestType({"idle", "open", "read", "write"})
        /\ calsave' \in RequestType({"idle", "write"})
    BY <1>15, RequestFacts DEF Restart
  <2> DEFINE d == Merge(options, Seeded(options))
  <2>3. d \in DocType /\ Distinct(d.maps)
    BY <2>1, StoreFacts, MergeFacts DEF FileType, Settled
  <2>4. /\ tracked' = Entities(d) /\ presented' = Index(PassRows(d)) /\ rejoined' = DOMAIN presented'
        /\ events' = <<>>
    BY <1>15 DEF Restart
  <2> HIDE DEF d
  <2>5. tracked' \subseteq Entity
    BY <2>3, <2>4, DocFacts
  <2>6. /\ DOMAIN presented' \subseteq Item
        /\ \A i \in DOMAIN presented' : presented'[i] \in ShownType
    BY <1>0, <2>3, <2>4, IndexFacts
  <2>7. ActivityTyped'
    BY <2>4, <2>6, EmptySeq, LimitAssumption DEF ActivityTyped
  <2>8. /\ UNCHANGED <<options, hidden, ha, saves, changes>>
        /\ mishaps < MaxMishaps /\ mishaps' = mishaps + 1
        /\ updated' = FALSE /\ pending' = FALSE
    BY <1>15 DEF Restart
  <2>9. mishaps' \in 0..MaxMishaps
    BY <1>0, <2>8
  <2>10. QED BY <1>0, <2>1, <2>2, <2>5, <2>7, <2>8, <2>9
<1>16. CASE UNCHANGED mappingVars
  <2>1. /\ UNCHANGED <<options, file, panel, calsave, addon, hidden, updated, ha, tracked, pending>>
        /\ UNCHANGED <<saves, changes, mishaps>> /\ UNCHANGED activity
    BY <1>16 DEF mappingVars
  <2>2. ActivityTyped'
    BY <2>1, ActivityStays
  <2>3. Goal
    BY <1>0, <2>1
  <2>4. QED BY <2>2, <2>3
<1>17. QED
  BY <1>2, <1>3, <1>4, <1>5, <1>6, <1>7, <1>8, <1>9, <1>10, <1>11, <1>12, <1>13, <1>14, <1>15, <1>16
     DEF MappingNext

\* The stores, the requests and the activity always hold values of their types.
THEOREM MappingTypeCorrect == MappingSpec => []MappingTypeOK
BY MappingTypeInit, MappingTypeStep, PTL DEF MappingSpec

\* In every state of the types, what is served is settled.
LEMMA TypesMakeStable == MappingTypeOK => SaveIsStable
<1> SUFFICES ASSUME MappingTypeOK PROVE SaveIsStable
  OBVIOUS
<1> DEFINE m == Mapping
           back == Normalize(m, m)
<1>1. m \in DocType /\ Settled(m)
  BY StoreFacts
<1> HIDE DEF m
<1>2. /\ Collapse(m) = m /\ Normalize(Blank, m) = m
      /\ ShownPairs(back) = ShownPairs(m) /\ Merge(back, back) = back
  BY <1>1, SettledSaves
<1>3. QED BY <1>2 DEF SaveIsStable, ShownPairs, m

\* In every state of the types, what the panel saved is served.
LEMMA TypesMakeServed == MappingTypeOK => SavedIsServed
<1> SUFFICES ASSUME MappingTypeOK PROVE SavedIsServed
  OBVIOUS
<1> DEFINE m == Mapping
           Rows(d) == {d.maps[k] : k \in DOMAIN d.maps}
           Given(i, f) == {r.src[f] : r \in {q \in Rows(options) \cup Rows(file) : q.item = i}}
<1>1. Distinct(m.maps)
  BY StoreFacts
<1>2. /\ options.cards \in Seq(CardType) /\ options.maps \in Seq(RowType)
      /\ file.cards \in Seq(CardType) /\ file.maps \in Seq(RowType)
      /\ m = Merge(options, file)
  BY StoreFacts DEF Mapping
<1> HIDE DEF m
<1>3. ASSUME NEW i \in ItemIds(options)
      PROVE  \E n \in DOMAIN m.maps : /\ i \in ItemIds(m) => m.maps[n].item = i
                                      /\ \A f \in Fields : m.maps[n].src[f] \in Given(i, f)
  <2>1. PICK k \in DOMAIN options.maps : options.maps[k].item = i
    BY DEF ItemIds
  <2>2. PICK n \in DOMAIN m.maps :
           /\ i \in ItemIds(m) => m.maps[n].item = i
           /\ \A f \in Fields : \/ Gives(options.maps, i, f, m.maps[n].src[f])
                                \/ Gives(file.maps, i, f, m.maps[n].src[f])
    BY <1>2, <2>1, MergeFacts
  <2>3. ASSUME NEW f \in Fields PROVE m.maps[n].src[f] \in Given(i, f)
    <3>1. PICK r \in Rows(options) \cup Rows(file) : r.item = i /\ r.src[f] = m.maps[n].src[f]
      BY <2>2 DEF Gives
    <3>2. QED BY <3>1
  <2>4. QED BY <2>2, <2>3
<1>4. \A j, k \in DOMAIN m.maps :
         j # k => m.maps[j].item # m.maps[k].item /\ m.maps[j].src # m.maps[k].src
  BY <1>1 DEF Distinct
<1>5. QED BY <1>3, <1>4 DEF SavedIsServed, m

\* Nothing the house serves is changed by collapsing, saving or uniting it again,
\* whatever the four writers of the mapping did to its two places.
THEOREM SavesAreStable == MappingSpec => []SaveIsStable
BY MappingTypeCorrect, TypesMakeStable, PTL

\* What the panel saved is served, however the file was written, cut or seeded since;
\* and no item and no source is mapped twice.
THEOREM SavesAreServed == MappingSpec => []SavedIsServed
BY MappingTypeCorrect, TypesMakeServed, PTL

\* Only a diff writes lines; a restart drops them all.
LEMMA RingStep == MappingTypeOK /\ RingTruthful /\ [MappingNext]_mappingVars => RingTruthful'
<1> SUFFICES ASSUME MappingTypeOK, RingTruthful, [MappingNext]_mappingVars PROVE RingTruthful'
  OBVIOUS
<1>1. ASSUME Record(Mapping) PROVE RingTruthful'
  <2>1. Mapping \in DocType /\ Distinct(Mapping.maps)
    BY StoreFacts
  <2>2. ha \in [Entity -> [Attribute \cup {Unset} -> State]] /\ events \in Seq(EventType)
    BY DEF MappingTypeOK
  <2>3. QED BY <1>1, <2>1, <2>2, RecordTruthful
<1>2. ASSUME UNCHANGED activity PROVE RingTruthful'
  BY <1>2 DEF RingTruthful, activity
<1>3. CASE Restart
  <2>1. events' = <<>>
    BY <1>3 DEF Restart
  <2>2. DOMAIN events' = {}
    BY <2>1
  <2>3. QED BY <2>2 DEF RingTruthful
<1>4. CASE OptionsUpdated \/ Emit
  BY <1>1, <1>4 DEF OptionsUpdated, Emit
<1>5. CASE PanelOpen \/ PanelPost \/ PanelRead \/ PanelWrite \/ CalRead \/ CalWrite
  BY <1>2, <1>5 DEF PanelOpen, PanelPost, PanelRead, PanelWrite, CalRead, CalWrite
<1>6. CASE AddonRead \/ AddonTruncate \/ AddonFill \/ AddonDies
  BY <1>2, <1>6 DEF AddonRead, AddonTruncate, AddonFill, AddonDies
<1>7. CASE \E e \in Entity, a \in Attribute \cup {Unset}, v \in State : Change(e, a, v)
  BY <1>2, <1>7 DEF Change
<1>8. CASE UNCHANGED mappingVars
  BY <1>2, <1>8 DEF mappingVars
<1>9. QED BY <1>3, <1>4, <1>5, <1>6, <1>7, <1>8 DEF MappingNext

\* At first there is no line to be wrong.
LEMMA RingInit == MappingInit => RingTruthful
BY DEF MappingInit, RingTruthful

\* The newest line about an item tells what the pass shows for it, over every
\* order of saves, state changes, emits and restarts.
THEOREM RingIsTruthful == MappingSpec => []RingTruthful
<1>1. MappingInit => MappingTypeOK /\ RingTruthful
  BY MappingTypeInit, RingInit
<1>2. MappingTypeOK /\ RingTruthful /\ [MappingNext]_mappingVars => (MappingTypeOK /\ RingTruthful)'
  BY MappingTypeStep, RingStep
<1>3. QED BY <1>1, <1>2, PTL DEF MappingSpec
=============================================================================
