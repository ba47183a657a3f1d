------------------------- MODULE MemberAccessProofs -------------------------
(***************************************************************************)
(* Proofs about MemberAccess, for any members, principals, auditors and    *)
(* number of requests at a time.                                           *)
(*                                                                         *)
(* Everything rests on what a step may do to the rows (RowChange): a row   *)
(* never comes back, a revocation is never undone, and only ended rows go. *)
(* TypeOK needs Shape: which requests may be at which step.                *)
(***************************************************************************)
EXTENDS MemberAccess, TLAPS

AuthStep == {"auth", "touch", "upsert", "upwrite"}

Shape ==
    \A j \in Job :
        /\ jobs[j].step \in AuthStep => jobs[j].kind \in MemberKind /\ jobs[j].m \in minted
        /\ jobs[j].step = "key" => jobs[j].kind = "encap" /\ jobs[j].m \in minted

Typed == TypeOK /\ Shape

RowChange ==
    /\ minted \subseteq minted' /\ expired \subseteq expired'
    /\ DOMAIN rows' \cap minted \subseteq DOMAIN rows
    /\ \A m \in DOMAIN rows \ DOMAIN rows' : m \in aged
    /\ \A m \in DOMAIN rows' \ DOMAIN rows : rows'[m].by = None
    /\ \A m \in aged' \ aged : m \in DOMAIN rows /\ Ended(m)
    /\ \A m \in DOMAIN rows \cap DOMAIN rows' :
         /\ rows[m].revoked => rows'[m].revoked /\ rows'[m].by = rows[m].by
         /\ rows'[m].by # rows[m].by => rows'[m].revoked
         /\ rows'[m].tombstone /\ ~rows[m].tombstone => Ended(m)

-----------------------------------------------------------------------------
(* Type correctness. *)

LEMMA TypeInit == Init => Typed
BY DEF Init, Typed, TypeOK, Shape, AuthStep, Finished, JobState, Kind, MemberKind, Step, Row

\* A finished request is an idle one.
LEMMA FinishedType ==
    /\ Finished \in JobState
    /\ Finished.step = "idle" /\ Finished.kind = "read"
BY DEF Finished, JobState, Kind, MemberKind, Step

\* A step that leaves the rows alone and moves one request to a typed state.
LEMMA OneJob ==
    ASSUME Typed, NEW j \in Job, NEW s \in JobState,
           jobs' = [jobs EXCEPT ![j] = s], minted' = minted,
           s.step \in AuthStep => s.kind \in MemberKind /\ s.m \in minted,
           s.step = "key" => s.kind = "encap" /\ s.m \in minted
    PROVE  jobs' \in [Job -> JobState] /\ Shape'
<1>1. jobs' \in [Job -> JobState]
  BY DEF Typed, TypeOK
<1>2. \A i \in Job : jobs'[i] = IF i = j THEN s ELSE jobs[i]
  BY DEF Typed, TypeOK
<1>3. QED BY <1>1, <1>2 DEF Typed, Shape

\* Ending a request keeps the types of the requests.
LEMMA EndType ==
    ASSUME Typed, NEW j \in Job, End(j), minted' = minted
    PROVE  jobs' \in [Job -> JobState] /\ Shape'
<1>1. jobs' = [jobs EXCEPT ![j] = Finished]
  BY DEF End
<1>2. QED BY <1>1, FinishedType, OneJob DEF AuthStep

\* A request that goes on to a step after its authentication.
LEMMA GoType ==
    ASSUME Typed, NEW j \in Job, minted' = minted, NEW t \in Step \ (AuthStep \cup {"key"}),
           Goto(j, t)
    PROVE  jobs' \in [Job -> JobState] /\ Shape'
<1> DEFINE s == [jobs[j] EXCEPT !.step = t]
<1>1. s \in JobState /\ s.step = t
  BY DEF Typed, TypeOK, JobState
<1>2. jobs' = [jobs EXCEPT ![j] = s]
  BY DEF Goto
<1>3. QED BY <1>1, <1>2, OneJob

\* Going on after the authentication keeps the types of the requests.
LEMMA AfterAuthType ==
    ASSUME Typed, NEW j \in Job, At(j, "upwrite"), AfterAuth(j), minted' = minted
    PROVE  jobs' \in [Job -> JobState] /\ Shape'
<1>0. jobs[j] \in JobState /\ jobs[j].m \in minted /\ jobs[j].m \in Member
  BY DEF Typed, TypeOK, Shape, AuthStep, At
<1>1. CASE jobs[j].kind = "encap"
  <2> DEFINE s == [jobs[j] EXCEPT !.step = "key", !.copy = {}]
  <2>1. s \in JobState /\ s.step = "key" /\ s.kind = "encap" /\ s.m \in minted
    BY <1>0, <1>1 DEF JobState, Step
  <2>2. jobs' = [jobs EXCEPT ![j] = s]
    BY <1>1 DEF AfterAuth
  <2>3. QED BY <2>1, <2>2, OneJob DEF AuthStep
<1>2. CASE jobs[j].kind = "rotate"
  <2> DEFINE s == [jobs[j] EXCEPT !.step = "pop", !.copy = {}, !.ids = {jobs[j].m}]
  <2>1. s \in JobState /\ s.step = "pop"
    BY <1>0 DEF JobState, Step
  <2>2. jobs' = [jobs EXCEPT ![j] = s]
    BY <1>2 DEF AfterAuth
  <2>3. QED BY <2>1, <2>2, OneJob DEF AuthStep
<1>3. CASE jobs[j].kind \notin {"encap", "rotate"}
  BY <1>3, EndType DEF AfterAuth
<1>4. QED BY <1>1, <1>2, <1>3

\* Going on after a save keeps the types of the requests.
LEMMA AfterSaveType ==
    ASSUME Typed, NEW j \in Job, AfterSave(j), minted' = minted
    PROVE  jobs' \in [Job -> JobState] /\ Shape'
<1>1. CASE jobs[j].kind \in MemberKind
  BY <1>1, EndType DEF AfterSave
<1>2. CASE jobs[j].kind \notin MemberKind
  <2> DEFINE s == [jobs[j] EXCEPT !.step = "list", !.copy = {}]
  <2>1. s \in JobState /\ s.step = "list"
    BY DEF Typed, TypeOK, JobState, Step
  <2>2. jobs' = [jobs EXCEPT ![j] = s]
    BY <1>2 DEF AfterSave
  <2>3. QED BY <2>1, <2>2, OneJob DEF AuthStep
<1>3. QED BY <1>1, <1>2

\* Going on to the rows to drop keeps the types of the requests.
LEMMA GoDropType ==
    ASSUME Typed, NEW j \in Job, NEW todo \in SUBSET Member, GoDrop(j, todo), minted' = minted
    PROVE  jobs' \in [Job -> JobState] /\ Shape'
<1>1. CASE todo = {}
  BY <1>1, EndType DEF GoDrop
<1>2. CASE todo # {}
  <2> DEFINE s == [jobs[j] EXCEPT !.step = "drop", !.todo = todo, !.copy = {}]
  <2>1. s \in JobState /\ s.step = "drop"
    BY DEF Typed, TypeOK, JobState, Step
  <2>2. jobs' = [jobs EXCEPT ![j] = s]
    BY <1>2 DEF GoDrop
  <2>3. QED BY <2>1, <2>2, OneJob DEF AuthStep
<1>3. QED BY <1>1, <1>2

\* Marking rows as revoked adds and removes no row.
LEMMA MarkType ==
    ASSUME TypeOK, NEW ms, NEW by \in Source \cup {None}, NEW cancels \in BOOLEAN,
           MarkRevoked(ms, by, cancels)
    PROVE  /\ DOMAIN rows' = DOMAIN rows
           /\ rows' \in [DOMAIN rows' -> Row]
           /\ aged' \subseteq Member /\ excused' \subseteq Member
           /\ Unrevoked(ms) \subseteq Member
<1>1. \A k \in DOMAIN rows : rows[k] \in Row
  BY DEF TypeOK
<1>2. DOMAIN rows' = DOMAIN rows
  BY DEF MarkRevoked
<1>3. ASSUME NEW k \in DOMAIN rows PROVE rows'[k] \in Row
  <2>1. (rows[k].cancelled \/ (cancels /\ RowStatus(k) = "pending")) \in BOOLEAN
    OBVIOUS
  <2>2. QED BY <1>1, <2>1 DEF MarkRevoked, Row
<1>4. Unrevoked(ms) \subseteq Member
  BY DEF Unrevoked, TypeOK
<1>5. QED BY <1>2, <1>3, <1>4 DEF MarkRevoked, TypeOK

-----------------------------------------------------------------------------

\* A step of a request keeps the types.
LEMMA TypeRequest ==
    ASSUME Typed, NEW j \in Job, RequestStep(j)
    PROVE  Typed'
<1> USE DEF TypeOK
<1>0. TypeOK /\ jobs[j] \in JobState
  BY DEF Typed
<1> DEFINE JobsOK == jobs' \in [Job -> JobState] /\ Shape'
<1>1. CASE AuthUnknown(j)
  <2>1. JobsOK
    BY <1>1, EndType DEF AuthUnknown, rowVars
  <2>2. QED BY <1>0, <1>1, <2>1 DEF Typed, AuthUnknown, rowVars, sessionVars, boundVars, historyVars
<1>2. CASE AuthDenied(j)
  <2> DEFINE s == [jobs[j] EXCEPT !.step = "pop", !.ids = {jobs[j].m}]
  <2>1. s \in JobState /\ s.step = "pop"
    BY <1>0, <1>2 DEF AuthDenied, JobState, Step
  <2>2. jobs' = [jobs EXCEPT ![j] = s] /\ minted' = minted
    BY <1>2 DEF AuthDenied, rowVars
  <2>3. JobsOK
    BY <2>1, <2>2, OneJob DEF AuthStep
  <2>4. QED BY <1>0, <1>2, <2>3 DEF Typed, AuthDenied, rowVars, sessionVars, boundVars, historyVars
<1>3. CASE AuthAccepted(j)
  <2> DEFINE s == [jobs[j] EXCEPT !.step = "touch"]
  <2>1. s \in JobState /\ s.step = "touch" /\ s.kind \in MemberKind /\ s.m \in minted
    BY <1>0, <1>3 DEF AuthAccepted, At, Typed, Shape, AuthStep, JobState, Step
  <2>2. jobs' = [jobs EXCEPT ![j] = s] /\ minted' = minted
    BY <1>3 DEF AuthAccepted, Goto, rowVars
  <2>3. JobsOK
    BY <2>1, <2>2, OneJob
  <2>4. QED BY <1>0, <1>3, <2>3 DEF Typed, AuthAccepted, rowVars, sessionVars, boundVars, historyVars
<1>4. CASE Touch(j)
  <2>1. rows' \in [DOMAIN rows -> Row]
    BY <1>0, <1>4 DEF Touch, Row
  <2> DEFINE s == [jobs[j] EXCEPT !.step = "upsert"]
  <2>2. s \in JobState /\ s.step = "upsert" /\ s.kind \in MemberKind /\ s.m \in minted
    BY <1>0, <1>4 DEF Touch, At, Typed, Shape, AuthStep, JobState, Step
  <2>3. jobs' = [jobs EXCEPT ![j] = s] /\ minted' = minted
    BY <1>4 DEF Touch, Goto
  <2>4. JobsOK
    BY <2>2, <2>3, OneJob
  <2>5. QED BY <1>0, <1>4, <2>1, <2>4 DEF Typed, Touch, sessionVars, boundVars, historyVars
<1>5. CASE UpsertRead(j)
  <2> DEFINE s == [jobs[j] EXCEPT !.step = "upwrite", !.copy = clients]
  <2>1. s \in JobState /\ s.step = "upwrite" /\ s.kind \in MemberKind /\ s.m \in minted
    BY <1>0, <1>5 DEF UpsertRead, At, Typed, Shape, AuthStep, JobState, Step
  <2>2. jobs' = [jobs EXCEPT ![j] = s] /\ minted' = minted
    BY <1>5 DEF UpsertRead, rowVars
  <2>3. JobsOK
    BY <2>1, <2>2, OneJob
  <2>4. QED BY <1>0, <1>5, <2>3 DEF Typed, UpsertRead, rowVars, sessionVars, boundVars, historyVars
<1>6. CASE UpsertWrite(j)
  <2>1. JobsOK
    BY <1>6, AfterAuthType DEF UpsertWrite, rowVars
  <2>2. jobs[j].m \in Member /\ jobs[j].copy \subseteq Member
    BY <1>0, <1>6 DEF UpsertWrite, At, Typed, Shape, AuthStep, JobState
  <2>3. QED BY <1>0, <1>6, <2>1, <2>2 DEF Typed, UpsertWrite, rowVars, sessionVars, boundVars, historyVars
<1>7. CASE AcceptMemberEncap(j)
  <2>1. JobsOK
    BY <1>7, GoType DEF AcceptMemberEncap, rowVars, Step, AuthStep
  <2>2. jobs[j].m \in Member
    BY <1>0, <1>7 DEF AcceptMemberEncap, At, Typed, Shape
  <2>3. QED BY <1>0, <1>7, <2>1, <2>2 DEF Typed, AcceptMemberEncap, rowVars, boundVars, historyVars
<1>8. CASE DropMemberSessions(j)
  <2>1. JobsOK
    BY <1>8, GoType, EndType DEF DropMemberSessions, rowVars, Step, AuthStep
  <2>2. QED BY <1>0, <1>8, <2>1 DEF Typed, DropMemberSessions, rowVars, boundVars
<1>9. CASE Snapshot(j)
  <2> DEFINE s == [jobs[j] EXCEPT !.step = "save", !.copy = live]
  <2>1. s \in JobState /\ s.step = "save"
    BY <1>0 DEF JobState, Step
  <2>2. jobs' = [jobs EXCEPT ![j] = s] /\ minted' = minted
    BY <1>9 DEF Snapshot, rowVars
  <2>3. JobsOK
    BY <2>1, <2>2, OneJob DEF AuthStep
  <2>4. QED BY <1>0, <1>9, <2>3 DEF Typed, Snapshot, rowVars, sessionVars, boundVars, historyVars
<1>10. CASE Save(j)
  <2>1. JobsOK
    BY <1>10, AfterSaveType DEF Save, rowVars
  <2>2. jobs[j].copy \subseteq Member
    BY <1>0 DEF JobState
  <2>3. QED BY <1>0, <1>10, <2>1, <2>2 DEF Typed, Save, rowVars, boundVars, historyVars
<1>11. CASE UnpairRow(j)
  <2>1. jobs[j].by \in Source \cup {None} /\ jobs[j].m \in Member
    BY <1>0, <1>11 DEF UnpairRow, JobState
  <2>2. /\ DOMAIN rows' = DOMAIN rows
        /\ rows' \in [DOMAIN rows' -> Row]
        /\ aged' \subseteq Member /\ excused' \subseteq Member
    BY <1>0, <1>11, <2>1, MarkType DEF UnpairRow
  <2> DEFINE s == [jobs[j] EXCEPT !.step = "pop", !.ids = {jobs[j].m}]
  <2>3. s \in JobState /\ s.step = "pop"
    BY <1>0, <2>1 DEF JobState, Step
  <2>4. jobs' = [jobs EXCEPT ![j] = s] /\ minted' = minted
    BY <1>11 DEF UnpairRow
  <2>5. JobsOK
    BY <2>3, <2>4, OneJob DEF AuthStep
  <2>6. QED BY <1>0, <1>11, <2>2, <2>5 DEF Typed, UnpairRow, sessionVars, boundVars
<1>12. CASE UnpairUnknown(j)
  <2>1. JobsOK
    BY <1>12, EndType DEF UnpairUnknown, rowVars
  <2>2. QED BY <1>0, <1>12, <2>1 DEF Typed, UnpairUnknown, rowVars, sessionVars, boundVars, historyVars
<1>13. CASE RevokeRows(j)
  <2> DEFINE fresh == Unrevoked(RowsOf(jobs[j].p))
  <2>1. jobs[j].by \in Source \cup {None}
    BY <1>0 DEF JobState
  <2>2. /\ DOMAIN rows' = DOMAIN rows
        /\ rows' \in [DOMAIN rows' -> Row]
        /\ aged' \subseteq Member /\ excused' \subseteq Member
        /\ fresh \subseteq Member
    BY <1>0, <1>13, <2>1, MarkType DEF RevokeRows
  <2> DEFINE s == [jobs[j] EXCEPT !.step = "pop", !.ids = fresh]
  <2>3. s \in JobState /\ s.step = "pop"
    BY <1>0, <2>2 DEF JobState, Step
  <2>4. /\ jobs' = [jobs EXCEPT ![j] = s] /\ minted' = minted
        /\ answered' = [m \in Member |-> IF m \in fresh THEN answered[m] + 1 ELSE answered[m]]
    BY <1>13 DEF RevokeRows
  <2>5. JobsOK
    BY <2>3, <2>4, OneJob DEF AuthStep
  <2>6. answered' \in [Member -> Nat]
    BY <1>0, <2>4
  <2>7. QED BY <1>0, <1>13, <2>2, <2>5, <2>6 DEF Typed, RevokeRows, sessionVars, boundVars
<1>14. CASE ListClients(j)
  <2>1. PICK todo \in SUBSET clients : GoDrop(j, todo)
    BY <1>14 DEF ListClients
  <2>2. JobsOK
    BY <1>0, <1>14, <2>1, GoDropType DEF ListClients, rowVars
  <2>3. QED BY <1>0, <1>14, <2>2 DEF Typed, ListClients, rowVars, sessionVars, boundVars, historyVars
<1>15. CASE DropClientRead(j)
  <2> DEFINE s == [jobs[j] EXCEPT !.step = "dropping", !.copy = clients]
  <2>1. s \in JobState /\ s.step = "dropping"
    BY <1>0 DEF JobState, Step
  <2>2. jobs' = [jobs EXCEPT ![j] = s] /\ minted' = minted
    BY <1>15 DEF DropClientRead, rowVars
  <2>3. JobsOK
    BY <2>1, <2>2, OneJob DEF AuthStep
  <2>4. QED BY <1>0, <1>15, <2>3 DEF Typed, DropClientRead, rowVars, sessionVars, boundVars, historyVars
<1>16. CASE DropClientWrite(j)
  <2>1. jobs[j].copy \subseteq Member /\ jobs[j].todo \subseteq Member
    BY <1>0 DEF JobState
  <2>2. PICK m \in jobs[j].todo : clients' = jobs[j].copy \ {m} /\ GoDrop(j, jobs[j].todo \ {m})
    BY <1>16 DEF DropClientWrite
  <2>3. jobs[j].todo \ {m} \in SUBSET Member
    BY <2>1
  <2>4. JobsOK
    BY <1>16, <2>2, <2>3, GoDropType DEF DropClientWrite, rowVars
  <2>5. QED BY <1>0, <1>16, <2>1, <2>2, <2>4 DEF Typed, DropClientWrite, rowVars, sessionVars, boundVars, historyVars
<1>17. CASE WriteFails(j)
  <2>0. minted' = minted
    BY <1>17 DEF WriteFails, rowVars
  <2>1. ASSUME At(j, "touch") /\ Goto(j, "upsert") PROVE JobsOK
    <3> DEFINE s == [jobs[j] EXCEPT !.step = "upsert"]
    <3>1. s \in JobState /\ s.step = "upsert" /\ s.kind \in MemberKind /\ s.m \in minted
      BY <1>0, <2>1 DEF At, Typed, Shape, AuthStep, JobState, Step
    <3>2. jobs' = [jobs EXCEPT ![j] = s]
      BY <2>1 DEF Goto
    <3>3. QED BY <2>0, <3>1, <3>2, OneJob
  <2>2. ASSUME At(j, "upwrite") /\ AfterAuth(j) PROVE JobsOK
    BY <2>0, <2>2, AfterAuthType
  <2>3. ASSUME AfterSave(j) PROVE JobsOK
    BY <2>0, <2>3, AfterSaveType
  <2>4. ASSUME At(j, "dropping") /\ End(j) PROVE JobsOK
    BY <2>0, <2>4, EndType
  <2>5. JobsOK
    BY <1>17, <2>1, <2>2, <2>3, <2>4 DEF WriteFails
  <2>6. loop' \in Job \cup {None}
    BY <1>0, <1>17 DEF WriteFails
  <2>7. QED BY <1>0, <1>17, <2>5, <2>6 DEF Typed, WriteFails, rowVars, sessionVars, historyVars
<1>18. CASE ReadFails(j)
  <2>0. minted' = minted
    BY <1>18 DEF ReadFails, rowVars
  <2>1. ASSUME End(j) PROVE JobsOK
    BY <2>0, <2>1, EndType
  <2>2. ASSUME At(j, "upsert"),
               jobs' = [jobs EXCEPT ![j].step = "upwrite", ![j].copy = {}]
        PROVE  JobsOK
    <3> DEFINE s == [jobs[j] EXCEPT !.step = "upwrite", !.copy = {}]
    <3>1. s \in JobState /\ s.step = "upwrite" /\ s.kind \in MemberKind /\ s.m \in minted
      BY <1>0, <2>2 DEF At, Typed, Shape, AuthStep, JobState, Step
    <3>2. jobs' = [jobs EXCEPT ![j] = s]
      BY <2>2
    <3>3. QED BY <2>0, <3>1, <3>2, OneJob
  <2>3. ASSUME jobs' = [jobs EXCEPT ![j].step = "dropping", ![j].copy = {}] PROVE JobsOK
    <3> DEFINE s == [jobs[j] EXCEPT !.step = "dropping", !.copy = {}]
    <3>1. s \in JobState /\ s.step = "dropping"
      BY <1>0 DEF JobState, Step
    <3>2. jobs' = [jobs EXCEPT ![j] = s]
      BY <2>3
    <3>3. QED BY <2>0, <3>1, <3>2, OneJob DEF AuthStep
  <2>4. JobsOK
    BY <1>18, <2>1, <2>2, <2>3 DEF ReadFails
  <2>5. loop' \in Job \cup {None}
    BY <1>0, <1>18 DEF ReadFails
  <2>6. QED BY <1>0, <1>18, <2>4, <2>5 DEF Typed, ReadFails, rowVars, sessionVars, historyVars
<1>19. QED
  BY <1>1, <1>2, <1>3, <1>4, <1>5, <1>6, <1>7, <1>8, <1>9, <1>10, <1>11, <1>12,
     <1>13, <1>14, <1>15, <1>16, <1>17, <1>18 DEF RequestStep

\* A new request keeps the types.
LEMMA BeginType ==
    ASSUME Typed, NEW j \in Job, NEW s \in JobState, Begin(j, s),
           s.step = "auth" => s.kind \in MemberKind /\ s.m \in minted,
           s.step \in {"auth", "rows"}
    PROVE  Typed'
<1>1. jobs' \in [Job -> JobState] /\ Shape'
  BY OneJob DEF Begin, AuthStep, rowVars
<1>2. requests' \in Nat
  BY DEF Typed, TypeOK, Begin
<1>3. QED BY <1>1, <1>2 DEF Typed, TypeOK, Begin, rowVars, sessionVars, historyVars

\* Making tombstones keeps the types.
LEMMA BuryType == ASSUME Typed, NEW ms, Bury(ms) PROVE Typed'
<1>1. rows' \in [DOMAIN rows' -> Row] /\ DOMAIN rows' \subseteq minted
  BY DEF Typed, TypeOK, Bury, KeptMembers, Tombstone, Row
<1>2. Shape'
  BY DEF Typed, Shape, Bury
<1>3. QED BY <1>1, <1>2 DEF Typed, TypeOK, Bury, sessionVars, boundVars, historyVars

\* Every step keeps the types.
LEMMA TypeNext == Typed /\ [Next]_vars => Typed'
<1> SUFFICES ASSUME Typed, [Next]_vars PROVE Typed'
  OBVIOUS
<1>1. ASSUME NEW m \in Member, Mint(m) PROVE Typed'
  <2>1. rows' \in [DOMAIN rows' -> Row] /\ DOMAIN rows' \subseteq minted' /\ minted' \subseteq Member
    BY <1>1 DEF Typed, TypeOK, Mint, KeptMembers, Row
  <2>2. Shape'
    BY <1>1 DEF Typed, Shape, Mint
  <2>3. QED BY <1>1, <2>1, <2>2 DEF Typed, TypeOK, Mint, sessionVars, boundVars, historyVars
<1>2. ASSUME NEW m \in Member, RemoveInactive(m) PROVE Typed'
  BY <1>2, BuryType DEF RemoveInactive
<1>3. ASSUME NEW m \in Member, Expire(m) PROVE Typed'
  BY <1>3 DEF Typed, TypeOK, Shape, Expire, sessionVars, boundVars, historyVars
<1>4. ASSUME NEW m \in Member, Age(m) PROVE Typed'
  BY <1>4 DEF Typed, TypeOK, Shape, Age, sessionVars, boundVars, historyVars
<1>5. CASE ClearInactive
  BY <1>5, BuryType DEF ClearInactive
<1>6. ASSUME NEW j \in Job, NEW m \in Member, NEW kind \in MemberKind, Present(j, kind, m)
      PROVE  Typed'
  <2> DEFINE s == [Finished EXCEPT !.kind = kind, !.step = "auth", !.m = m, !.good = Good(m)]
  <2>1. Good(m) \in BOOLEAN
    BY DEF Good, Ended
  <2>2. s \in JobState /\ s.kind \in MemberKind /\ s.m = m /\ s.step = "auth"
    BY <2>1 DEF Finished, JobState, Kind, MemberKind, Step
  <2>3. QED BY <1>6, <2>2, BeginType DEF Present
<1>7. ASSUME NEW j \in Job, NEW m \in Member, NEW by \in Source, Unpair(j, m, by)
      PROVE  Typed'
  <2> DEFINE s == [Finished EXCEPT !.kind = "unpair", !.step = "rows", !.m = m, !.by = by]
  <2>1. s \in JobState /\ s.step = "rows"
    BY DEF Finished, JobState, Kind, MemberKind, Step
  <2>2. QED BY <1>7, <2>1, BeginType DEF Unpair
<1>8. ASSUME NEW j \in Job, NEW p \in Principal, NEW by \in Source, Revoke(j, p, by)
      PROVE  Typed'
  <2> DEFINE s == [Finished EXCEPT !.kind = "revoke", !.step = "rows", !.p = p, !.by = by]
  <2>1. s \in JobState /\ s.step = "rows"
    BY DEF Finished, JobState, Kind, MemberKind, Step
  <2>2. QED BY <1>8, <2>1, BeginType DEF Revoke
<1>9. ASSUME NEW j \in Job, RequestStep(j) PROVE Typed'
  BY <1>9, TypeRequest
<1>10. CASE Restart
  <2>1. jobs' \in [Job -> JobState] /\ Shape'
    BY <1>10, FinishedType DEF Restart, Shape, AuthStep
  <2>2. QED BY <1>10, <2>1 DEF Typed, TypeOK, Restart, rowVars
<1>11. CASE UNCHANGED vars
  BY <1>11 DEF Typed, TypeOK, Shape, vars, rowVars, sessionVars, boundVars, historyVars
<1>12. QED
  BY <1>1, <1>2, <1>3, <1>4, <1>5, <1>6, <1>7, <1>8, <1>9, <1>10, <1>11 DEF Next

\* Every variable has its type in every reachable state.
THEOREM TypeCorrect == Spec => []TypeOK
<1>1. Typed => TypeOK
  BY DEF Typed
<1>2. QED BY TypeInit, TypeNext, <1>1, PTL DEF Spec

-----------------------------------------------------------------------------
(* The rows. *)

LEMMA BuryRows == ASSUME Typed, NEW ms, Bury(ms) PROVE RowChange
BY DEF Typed, TypeOK, Bury, RowChange, KeptMembers, Tombstone, Row, Ended, RowStatus

\* Marking rows as revoked is a change rows may undergo.
LEMMA MarkRows ==
    ASSUME Typed, NEW ms, NEW by, NEW cancels, MarkRevoked(ms, by, cancels),
           UNCHANGED <<minted, expired>>
    PROVE  RowChange
<1>1. DOMAIN rows' = DOMAIN rows /\ aged' \subseteq aged
  BY DEF MarkRevoked
<1>2. ASSUME NEW m \in DOMAIN rows
      PROVE  /\ rows[m].revoked => rows'[m] = rows[m]
             /\ rows'[m].by # rows[m].by => rows'[m].revoked
             /\ rows'[m].tombstone = rows[m].tombstone
  BY DEF MarkRevoked, Unrevoked, Typed, TypeOK, Row
<1>3. QED BY <1>1, <1>2 DEF RowChange

\* Every step changes rows only in ways they may change.
LEMMA RowsStep == Typed /\ [Next]_vars => RowChange
<1> SUFFICES ASSUME Typed, [Next]_vars PROVE RowChange
  OBVIOUS
<1>0. UNCHANGED rowVars => RowChange
  BY DEF RowChange, rowVars
<1>1. ASSUME NEW m \in Member, Mint(m) PROVE RowChange
  BY <1>1 DEF Typed, TypeOK, Mint, RowChange, KeptMembers
<1>2. ASSUME NEW m \in Member, RemoveInactive(m) PROVE RowChange
  BY <1>2, BuryRows DEF RemoveInactive
<1>3. ASSUME NEW m \in Member, Expire(m) \/ Age(m) PROVE RowChange
  BY <1>3 DEF Expire, Age, RowChange
<1>4. CASE ClearInactive
  BY <1>4, BuryRows DEF ClearInactive
<1>5. ASSUME NEW j \in Job, NEW m \in Member, NEW kind \in MemberKind, Present(j, kind, m)
      PROVE  RowChange
  BY <1>0, <1>5 DEF Present, Begin
<1>6. ASSUME NEW j \in Job, NEW m \in Member, NEW by \in Source, Unpair(j, m, by)
      PROVE  RowChange
  BY <1>0, <1>6 DEF Unpair, Begin
<1>7. ASSUME NEW j \in Job, NEW p \in Principal, NEW by \in Source, Revoke(j, p, by)
      PROVE  RowChange
  BY <1>0, <1>7 DEF Revoke, Begin
<1>8. ASSUME NEW j \in Job, RequestStep(j) PROVE RowChange
  <2>1. CASE Touch(j)
    <3>1. DOMAIN rows' = DOMAIN rows /\ UNCHANGED <<minted, expired, aged>>
      BY <2>1 DEF Touch
    <3>2. ASSUME NEW m \in DOMAIN rows
          PROVE  /\ rows'[m].revoked = rows[m].revoked /\ rows'[m].by = rows[m].by
                 /\ rows'[m].tombstone = rows[m].tombstone
      BY <2>1 DEF Touch, Typed, TypeOK, Row
    <3>3. QED BY <3>1, <3>2 DEF RowChange
  <2>2. CASE UnpairRow(j)
    BY <2>2, MarkRows DEF UnpairRow
  <2>3. CASE RevokeRows(j)
    BY <2>3, MarkRows DEF RevokeRows
  <2>4. CASE UNCHANGED rowVars
    BY <1>0, <2>4
  <2>5. QED
    BY <1>8, <2>1, <2>2, <2>3, <2>4
       DEF RequestStep, AuthUnknown, AuthDenied, AuthAccepted, UpsertRead, UpsertWrite,
           AcceptMemberEncap, DropMemberSessions, Snapshot, Save, UnpairUnknown,
           ListClients, DropClientRead, DropClientWrite, ReadFails, WriteFails
<1>9. CASE Restart
  BY <1>0, <1>9 DEF Restart
<1>10. CASE UNCHANGED vars
  BY <1>0, <1>10 DEF vars, rowVars
<1>11. QED
  BY <1>1, <1>2, <1>3, <1>4, <1>5, <1>6, <1>7, <1>8, <1>9, <1>10 DEF Next

\* A revoked row stays revoked and keeps its first audit, in every behaviour.
THEOREM RevocationIsFinal == Spec => RevokedForGood
<1>1. Typed /\ [Next]_vars =>
        [\A m \in DOMAIN rows \cap DOMAIN rows' :
           rows[m].revoked => rows'[m].revoked /\ rows'[m].by = rows[m].by]_rows
  BY RowsStep DEF RowChange
<1>2. QED BY TypeInit, TypeNext, <1>1, PTL DEF Spec, RevokedForGood

\* A row is only aged after it has ended.
AgedEnded == aged \subseteq minted /\ \A m \in aged \cap DOMAIN rows : Ended(m)

\* What ended stays ended as long as it is there, and a refused token stays refused.
LEMMA EndedStays ==
    ASSUME RowChange, NEW m \in DOMAIN rows \cap DOMAIN rows', Ended(m)
    PROVE  Ended(m)'
BY DEF RowChange, Ended, RowStatus

\* A token that is refused stays refused.
LEMMA RefusalStays ==
    ASSUME RowChange, NEW m \in minted, ~Good(m)
    PROVE  m \in minted' /\ ~Good(m)'
<1>1. m \in minted' /\ (m \in DOMAIN rows' => m \in DOMAIN rows)
  BY DEF RowChange
<1>2. QED BY <1>1, EndedStays DEF Good

\* A row that has grown old has ended, and stays so in every step.
LEMMA AgedStep == Typed /\ AgedEnded /\ [Next]_vars => AgedEnded'
<1> SUFFICES ASSUME Typed, AgedEnded, [Next]_vars PROVE AgedEnded'
  OBVIOUS
<1>1. RowChange
  BY RowsStep
<1>2. \A m \in aged' : m \in minted /\ (m \in DOMAIN rows => Ended(m))
  BY <1>1 DEF RowChange, AgedEnded, Typed, TypeOK
<1>3. \A m \in aged' \cap DOMAIN rows' : m \in DOMAIN rows
  BY <1>1, <1>2 DEF RowChange
<1>4. \A m \in aged' \cap DOMAIN rows' : Ended(m)'
  BY <1>1, <1>2, <1>3, EndedStays
<1>5. QED BY <1>1, <1>2, <1>4 DEF AgedEnded, RowChange

\* Removing, clearing and pruning only take rows that have ended.
THEOREM OnlyTheEndedGo == Spec => OnlyEndedRowsGo
<1>1. Init => AgedEnded
  BY DEF Init, AgedEnded
<1>2. Typed /\ AgedEnded /\ [Next]_vars =>
        [\A m \in DOMAIN rows :
           \/ m \notin DOMAIN rows'
           \/ rows'[m].tombstone /\ ~rows[m].tombstone
           => Ended(m)]_rows
  <2> SUFFICES ASSUME Typed, AgedEnded, [Next]_vars, NEW m \in DOMAIN rows,
                      m \notin DOMAIN rows' \/ (rows'[m].tombstone /\ ~rows[m].tombstone)
               PROVE  Ended(m)
    OBVIOUS
  <2>1. RowChange
    BY RowsStep
  <2>2. QED BY <2>1 DEF RowChange, AgedEnded
<1>3. QED BY TypeInit, TypeNext, <1>1, AgedStep, <1>2, PTL DEF Spec, OnlyEndedRowsGo

-----------------------------------------------------------------------------
(* Authentication. *)

Accepted == {"touch", "upsert", "upwrite", "key"}

\* One request moves: it begins, is accepted, goes on, or is past its authentication.
JobMove(j) ==
    /\ \A i \in Job \ {j} : jobs'[i] = jobs[i]
    /\ \/ jobs'[j].step \notin AuthStep \cup {"key"}
       \/ /\ jobs'[j].step = "auth" /\ jobs'[j].m \in minted
          /\ jobs'[j].good = Good(jobs'[j].m)
       \/ /\ jobs'[j].kind = jobs[j].kind /\ jobs'[j].m = jobs[j].m
          /\ jobs'[j].good = jobs[j].good /\ jobs'[j].step \in Accepted
          /\ \/ jobs[j].step \in Accepted
             \/ jobs[j].step = "auth" /\ Good(jobs[j].m)

\* Ending a request is one of its moves.
LEMMA EndMove == ASSUME Typed, NEW j \in Job, End(j) PROVE JobMove(j)
<1>1. jobs'[j] = Finished /\ \A i \in Job \ {j} : jobs'[i] = jobs[i]
  BY DEF End, Typed, TypeOK
<1>2. QED BY <1>1, FinishedType DEF JobMove, AuthStep

\* Every step of a request is one of its moves.
LEMMA RequestMove == ASSUME Typed, NEW j \in Job, RequestStep(j) PROVE JobMove(j)
<1>0. jobs \in [Job -> JobState] /\ jobs[j] \in JobState
  BY DEF Typed, TypeOK
<1>1. CASE AuthUnknown(j) \/ UnpairUnknown(j)
  BY <1>1, EndMove DEF AuthUnknown, UnpairUnknown
<1>2. CASE AuthDenied(j) \/ Snapshot(j) \/ UnpairRow(j) \/ RevokeRows(j) \/ DropClientRead(j)
  <2>1. CASE AuthDenied(j) \/ UnpairRow(j)
    BY <1>0, <2>1 DEF AuthDenied, UnpairRow, JobMove, AuthStep, JobState
  <2>2. CASE Snapshot(j) \/ DropClientRead(j)
    BY <1>0, <2>2 DEF Snapshot, DropClientRead, JobMove, AuthStep, JobState
  <2>3. CASE RevokeRows(j)
    BY <1>0, <2>3 DEF RevokeRows, JobMove, AuthStep, JobState
  <2>4. QED BY <1>2, <2>1, <2>2, <2>3
<1>3. CASE AuthAccepted(j)
  BY <1>0, <1>3 DEF AuthAccepted, Goto, At, JobMove, AuthStep, Accepted, JobState
<1>4. CASE Touch(j)
  BY <1>0, <1>4 DEF Touch, Goto, At, JobMove, AuthStep, Accepted, JobState
<1>5. CASE UpsertRead(j)
  BY <1>0, <1>5 DEF UpsertRead, At, JobMove, AuthStep, Accepted, JobState
<1>6. CASE At(j, "upwrite") /\ AfterAuth(j)
  <2>1. CASE jobs[j].kind = "encap"
    BY <1>0, <1>6, <2>1 DEF AfterAuth, At, JobMove, AuthStep, Accepted, JobState
  <2>2. CASE jobs[j].kind = "rotate"
    BY <1>0, <1>6, <2>2 DEF AfterAuth, At, JobMove, AuthStep, JobState
  <2>3. CASE jobs[j].kind \notin {"encap", "rotate"}
    BY <1>6, <2>3, EndMove DEF AfterAuth
  <2>4. QED BY <2>1, <2>2, <2>3
<1>7. CASE AcceptMemberEncap(j)
  BY <1>0, <1>7 DEF AcceptMemberEncap, Goto, JobMove, AuthStep, JobState
<1>8. CASE DropMemberSessions(j)
  <2>1. End(j) \/ Goto(j, "snap") \/ Goto(j, "list")
    BY <1>8 DEF DropMemberSessions
  <2>2. QED BY <1>0, <2>1, EndMove DEF Goto, JobMove, AuthStep, JobState
<1>9. CASE AfterSave(j)
  <2>1. CASE jobs[j].kind \in MemberKind
    BY <1>9, <2>1, EndMove DEF AfterSave
  <2>2. CASE jobs[j].kind \notin MemberKind
    BY <1>0, <1>9, <2>2 DEF AfterSave, JobMove, AuthStep, JobState
  <2>3. QED BY <2>1, <2>2
<1>10. ASSUME NEW todo, GoDrop(j, todo) PROVE JobMove(j)
  <2>1. CASE todo = {}
    BY <1>10, <2>1, EndMove DEF GoDrop
  <2>2. CASE todo # {}
    BY <1>0, <1>10, <2>2 DEF GoDrop, JobMove, AuthStep, JobState
  <2>3. QED BY <2>1, <2>2
<1>11. CASE WriteFails(j)
  <2>1. CASE At(j, "touch") /\ Goto(j, "upsert")
    BY <1>0, <2>1 DEF Goto, At, JobMove, AuthStep, Accepted, JobState
  <2>2. CASE At(j, "dropping") /\ End(j)
    BY <2>2, EndMove
  <2>3. QED BY <1>6, <1>9, <1>11, <2>1, <2>2 DEF WriteFails
<1>12. CASE ReadFails(j)
  <2>1. CASE End(j)
    BY <2>1, EndMove
  <2>2. CASE At(j, "upsert") /\ jobs' = [jobs EXCEPT ![j].step = "upwrite", ![j].copy = {}]
    BY <1>0, <2>2 DEF At, JobMove, AuthStep, Accepted, JobState
  <2>3. CASE jobs' = [jobs EXCEPT ![j].step = "dropping", ![j].copy = {}]
    BY <1>0, <2>3 DEF JobMove, AuthStep, JobState
  <2>4. QED BY <1>12, <2>1, <2>2, <2>3 DEF ReadFails
<1>13. QED
  BY <1>1, <1>2, <1>3, <1>4, <1>5, <1>6, <1>7, <1>8, <1>9, <1>10, <1>11, <1>12
     DEF RequestStep, UpsertWrite, Save, ListClients, DropClientWrite

\* Starting a request is one of its moves.
LEMMA BeginMove ==
    ASSUME Typed, NEW j \in Job, NEW s \in JobState, Begin(j, s),
           s.step = "rows" \/ (s.step = "auth" /\ s.m \in minted /\ s.good = Good(s.m))
    PROVE  JobMove(j)
BY DEF Begin, JobMove, AuthStep, Typed, TypeOK

\* A request arrives.
Arrives(j) ==
    \/ \E m \in Member, kind \in MemberKind : Present(j, kind, m)
    \/ \E m \in Member, by \in Source : Unpair(j, m, by)
    \/ \E p \in Principal, by \in Source : Revoke(j, p, by)

\* An arrival starts an idle request and changes no row and no session.
LEMMA ArrivalMove ==
    ASSUME Typed, NEW j \in Job, Arrives(j)
    PROVE  JobMove(j) /\ At(j, "idle") /\ UNCHANGED <<rows, live, excused>>
<1>1. ASSUME NEW m \in Member, NEW kind \in MemberKind, Present(j, kind, m)
      PROVE  JobMove(j)
  <2> DEFINE s == [Finished EXCEPT !.kind = kind, !.step = "auth", !.m = m, !.good = Good(m)]
  <2>1. Good(m) \in BOOLEAN
    BY DEF Good, Ended
  <2>2. s \in JobState /\ s.m = m /\ s.step = "auth" /\ s.good = Good(m)
    BY <2>1 DEF Finished, JobState, Kind, MemberKind, Step
  <2>3. QED BY <1>1, <2>2, BeginMove DEF Present
<1>2. ASSUME NEW m \in Member, NEW by \in Source, Unpair(j, m, by)
      PROVE  JobMove(j)
  <2> DEFINE s == [Finished EXCEPT !.kind = "unpair", !.step = "rows", !.m = m, !.by = by]
  <2>1. s \in JobState /\ s.step = "rows"
    BY DEF Finished, JobState, Kind, MemberKind, Step
  <2>2. QED BY <1>2, <2>1, BeginMove DEF Unpair
<1>3. ASSUME NEW p \in Principal, NEW by \in Source, Revoke(j, p, by)
      PROVE  JobMove(j)
  <2> DEFINE s == [Finished EXCEPT !.kind = "revoke", !.step = "rows", !.p = p, !.by = by]
  <2>1. s \in JobState /\ s.step = "rows"
    BY DEF Finished, JobState, Kind, MemberKind, Step
  <2>2. QED BY <1>3, <2>1, BeginMove DEF Revoke
<1>4. At(j, "idle") /\ UNCHANGED <<rows, live, excused>>
  BY DEF Arrives, Present, Unpair, Revoke, Begin, rowVars, sessionVars, historyVars
<1>5. QED BY <1>1, <1>2, <1>3, <1>4 DEF Arrives

\* A step moves one request, or none, or a restart ends all.
LEMMA JobsStep ==
    ASSUME Typed, [Next]_vars
    PROVE  \/ \E j \in Job : JobMove(j)
           \/ UNCHANGED jobs
           \/ \A j \in Job : jobs'[j] = Finished
BY ArrivalMove, RequestMove
   DEF Next, Arrives, Mint, RemoveInactive, Bury, ClearInactive, Expire, Age, Restart, vars

\* A request whose token was refused when it came will be refused.
Refused ==
    \A m \in Member, j \in Job :
        jobs[j].step = "auth" /\ jobs[j].m = m /\ ~jobs[j].good => ~Good(m)

\* AcceptedWhileGood without the kinds, which Shape gives.
AcceptedGood == \A j \in Job : jobs[j].step \in Accepted => jobs[j].good

\* Every step keeps the refused refused and the accepted good when they were.
LEMMA RefusalStep == Typed /\ Refused /\ AcceptedGood /\ [Next]_vars => Refused' /\ AcceptedGood'
<1> SUFFICES ASSUME Typed, Refused, AcceptedGood, [Next]_vars
             PROVE  Refused' /\ AcceptedGood'
  OBVIOUS
<1>1. RowChange
  BY RowsStep
<1> DEFINE RefusedBy(m, i) ==
             jobs'[i].step = "auth" /\ jobs'[i].m = m /\ ~jobs'[i].good => ~Good(m)'
           GoodBy(i) == jobs'[i].step \in Accepted => jobs'[i].good
<1>2. ASSUME NEW m \in Member, NEW i \in Job, jobs'[i] = jobs[i]
      PROVE  RefusedBy(m, i)
  <2>1. jobs[i].step = "auth" => jobs[i].m \in minted
    BY DEF Typed, Shape, AuthStep
  <2>2. jobs[i].step = "auth" /\ jobs[i].m = m /\ ~jobs[i].good => m \in minted /\ ~Good(m)
    BY <2>1 DEF Refused
  <2>3. m \in minted /\ ~Good(m) => ~Good(m)'
    BY <1>1, RefusalStays
  <2>4. QED BY <1>2, <2>2, <2>3
<1>3. ASSUME NEW i \in Job, jobs'[i] = jobs[i] PROVE GoodBy(i)
  BY <1>3 DEF AcceptedGood
<1>4. ASSUME NEW j \in Job, JobMove(j) PROVE Refused' /\ AcceptedGood'
  <2>1. \A i \in Job \ {j} : jobs'[i] = jobs[i]
    BY <1>4 DEF JobMove
  <2>2. ASSUME NEW m \in Member PROVE RefusedBy(m, j)
    <3>1. m \in minted /\ ~Good(m) => ~Good(m)'
      BY <1>1, RefusalStays
    <3>2. jobs'[j].step = "auth" => jobs'[j].m \in minted /\ jobs'[j].good = Good(jobs'[j].m)
      BY <1>4 DEF JobMove, AuthStep, Accepted
    <3>3. QED BY <3>1, <3>2
  <2>3. GoodBy(j)
    <3>1. jobs[j].step = "auth" /\ Good(jobs[j].m) => jobs[j].good
      BY DEF Refused, Typed, TypeOK, Shape, AuthStep
    <3>2. QED BY <1>4, <3>1 DEF JobMove, AuthStep, Accepted, AcceptedGood
  <2>4. \A m \in Member, i \in Job : RefusedBy(m, i)
    BY <1>2, <2>1, <2>2
  <2>5. \A i \in Job : GoodBy(i)
    BY <1>3, <2>1, <2>3
  <2>6. QED BY <2>4, <2>5 DEF Refused, AcceptedGood
<1>5. CASE UNCHANGED jobs
  <2>1. \A m \in Member, i \in Job : RefusedBy(m, i)
    BY <1>2, <1>5
  <2>2. QED BY <1>5, <2>1 DEF Refused, AcceptedGood
<1>6. CASE \A j \in Job : jobs'[j] = Finished
  BY <1>6, FinishedType DEF Refused, AcceptedGood, Accepted
<1>7. QED BY <1>4, <1>5, <1>6, JobsStep

\* Only a token that was good when the request came gets past authentication.
THEOREM OnlyGoodAccepted == Spec => []AcceptedWhileGood
<1>1. Init => Refused /\ AcceptedGood
  BY DEF Init, Refused, AcceptedGood, Accepted, Finished
<1>2. AcceptedGood => AcceptedWhileGood
  BY DEF AcceptedGood, AcceptedWhileGood, Accepted
<1>3. QED BY TypeInit, TypeNext, <1>1, <1>2, RefusalStep, PTL DEF Spec

-----------------------------------------------------------------------------
(* What a revocation reports. *)

\* A member is reported once, and is revoked, or gone, ever after.
Reported ==
    \A m \in Member :
        /\ answered[m] <= 1
        /\ answered[m] # 0 => m \in minted /\ (m \in DOMAIN rows => rows[m].revoked)

\* Every step keeps the members that were reported revoked or gone.
LEMMA ReportedStep == Typed /\ Reported /\ [Next]_vars => Reported'
<1> SUFFICES ASSUME Typed, Reported, [Next]_vars PROVE Reported'
  OBVIOUS
<1>1. RowChange
  BY RowsStep
<1>2. ASSUME NEW m \in Member, answered[m] # 0
      PROVE  m \in minted' /\ (m \in DOMAIN rows' => rows'[m].revoked)
  BY <1>1, <1>2 DEF RowChange, Reported
<1>3. CASE UNCHANGED answered
  BY <1>2, <1>3 DEF Reported
<1>4. ASSUME NEW j \in Job, RevokeRows(j) PROVE Reported'
  <2> DEFINE fresh == Unrevoked(RowsOf(jobs[j].p))
  <2>1. answered' = [m \in Member |-> IF m \in fresh THEN answered[m] + 1 ELSE answered[m]]
    BY <1>4 DEF RevokeRows
  <2>2. ASSUME NEW m \in fresh
        PROVE  /\ m \in minted' /\ rows'[m].revoked
               /\ m \in Member => answered[m] = 0
    <3>1. m \in DOMAIN rows /\ ~rows[m].revoked /\ m \in minted
      BY DEF Unrevoked, Typed, TypeOK
    <3>2. rows'[m].revoked
      BY <1>4, <3>1 DEF RevokeRows, MarkRevoked, Typed, TypeOK, Row
    <3>3. QED BY <1>1, <3>1, <3>2 DEF RowChange, Reported
  <2>3. QED BY <1>2, <2>1, <2>2 DEF Reported, Typed, TypeOK
<1>5. ASSUME NEW j \in Job, RequestStep(j) PROVE RevokeRows(j) \/ UNCHANGED answered
  BY <1>5
     DEF RequestStep, AuthUnknown, AuthDenied, AuthAccepted, Touch, UpsertRead, UpsertWrite,
         AcceptMemberEncap, DropMemberSessions, Snapshot, Save, UnpairRow, UnpairUnknown,
         ListClients, DropClientRead, DropClientWrite, ReadFails, WriteFails, historyVars
<1>6. (\E j \in Job : RequestStep(j)) \/ UNCHANGED answered
  BY DEF Next, Mint, RemoveInactive, Bury, ClearInactive, Expire, Age, Present, Unpair, Revoke,
         Begin, Restart, vars, historyVars
<1>7. QED BY <1>3, <1>4, <1>5, <1>6

\* No member is reported by two revocations.
THEOREM NoDoubleReport == Spec => []ReportedOnce
<1>1. Init => Reported
  BY DEF Init, Reported
<1>2. Reported => ReportedOnce
  BY DEF Reported, ReportedOnce
<1>3. QED BY TypeInit, TypeNext, <1>1, <1>2, ReportedStep, PTL DEF Spec

-----------------------------------------------------------------------------
(* Sessions that outlive a revocation. *)

\* An audit is only on a revoked row.
AuditRevoked == \A m \in DOMAIN rows : rows[m].by # None => rows[m].revoked

\* A handshake still running for a member a revocation has marked was running then.
HandshakesExcused ==
    \A m \in DOMAIN rows : rows[m].by # None /\ Handshakes(m) # {} => m \in excused

Leftovers == AuditRevoked /\ HandshakesExcused /\ LeftoverHasCause

\* Every step keeps the rows with an audit revoked.
LEMMA AuditStep == Typed /\ AuditRevoked /\ [Next]_vars => AuditRevoked'
BY RowsStep DEF RowChange, AuditRevoked

\* The rows, the sessions and their excuses stay as they are, one request moves.
LEMMA LeftoverKept ==
    ASSUME Typed, Leftovers, NEW j \in Job, JobMove(j), jobs[j].step # "pop",
           \A m \in DOMAIN rows' : rows'[m].by # None => m \in DOMAIN rows /\ rows[m].by # None,
           UNCHANGED <<live, excused>>
    PROVE  HandshakesExcused' /\ LeftoverHasCause'
<1>1. ASSUME NEW m \in Member, NEW i \in Job, i \in Handshakes(m)'
      PROVE  i \in Handshakes(m) \/ (i = j /\ Good(m))
  BY <1>1 DEF JobMove, Handshakes, AuthStep, Accepted
<1>2. ASSUME NEW m \in Member, Dropping(m) PROVE Dropping(m)'
  BY <1>2 DEF JobMove, Dropping, At
<1>3. ASSUME NEW m \in DOMAIN rows', rows'[m].by # None, Handshakes(m)' # {}
      PROVE  m \in excused'
  <2>1. m \in DOMAIN rows /\ rows[m].by # None /\ rows[m].revoked /\ m \in Member
    BY <1>3 DEF Leftovers, AuditRevoked, Typed, TypeOK
  <2>2. ~Good(m)
    BY <2>1 DEF Good, Ended, RowStatus
  <2>3. Handshakes(m)' \subseteq Job
    BY DEF Handshakes
  <2>4. Handshakes(m) # {}
    BY <1>1, <1>3, <2>1, <2>2, <2>3
  <2>5. QED BY <2>1, <2>4 DEF Leftovers, HandshakesExcused
<1>4. ASSUME NEW m \in live' \cap DOMAIN rows', rows'[m].by # None, ~Dropping(m)'
      PROVE  m \in excused'
  BY <1>2, <1>4 DEF Leftovers, LeftoverHasCause, Typed, TypeOK
<1>5. QED BY <1>3, <1>4 DEF HandshakesExcused, LeftoverHasCause
\* A revocation marks its rows and is about to drop their sessions.
LEMMA LeftoverMarked ==
    ASSUME Typed, Leftovers, NEW j \in Job, JobMove(j), At(j, "rows"),
           NEW ms, NEW by, NEW cancels, MarkRevoked(ms, by, cancels),
           jobs'[j].step = "pop", Unrevoked(ms) \subseteq jobs'[j].ids, live' = live
    PROVE  HandshakesExcused' /\ LeftoverHasCause'
<1>1. \A i \in Job \ {j} : jobs'[i] = jobs[i]
  BY DEF JobMove
<1>2. ASSUME NEW m \in Member PROVE Handshakes(m)' \subseteq Handshakes(m)
  BY <1>1 DEF Handshakes
<1>3. ASSUME NEW m \in Member, Dropping(m) PROVE Dropping(m)'
  BY <1>1, <1>3 DEF Dropping, At
<1>4. DOMAIN rows' = DOMAIN rows /\ DOMAIN rows \subseteq Member
  BY DEF MarkRevoked, Typed, TypeOK
<1>5. ASSUME NEW m \in DOMAIN rows, rows'[m].by # None
      PROVE  rows[m].by # None \/ m \in Unrevoked(ms)
  BY <1>5 DEF MarkRevoked
<1>6. ASSUME NEW m \in Unrevoked(ms)
      PROVE  Dropping(m)' /\ (Handshakes(m) # {} => m \in excused')
  BY <1>6 DEF MarkRevoked, Dropping, At
<1>7. excused \subseteq excused'
  BY DEF MarkRevoked
<1>8. ASSUME NEW m \in DOMAIN rows', rows'[m].by # None, Handshakes(m)' # {}
      PROVE  m \in excused'
  <2>1. Handshakes(m) # {}
    BY <1>2, <1>4, <1>8
  <2>2. QED BY <1>4, <1>5, <1>6, <1>7, <1>8, <2>1 DEF Leftovers, HandshakesExcused
<1>9. ASSUME NEW m \in live' \cap DOMAIN rows', rows'[m].by # None, ~Dropping(m)'
      PROVE  m \in excused'
  BY <1>3, <1>4, <1>5, <1>6, <1>7, <1>9 DEF Leftovers, LeftoverHasCause
<1>10. QED BY <1>8, <1>9 DEF HandshakesExcused, LeftoverHasCause

\* Dropping sessions leaves one only to a member a handshake excuses.
LEMMA LeftoverDropped ==
    ASSUME Typed, Leftovers, NEW j \in Job, DropMemberSessions(j)
    PROVE  HandshakesExcused' /\ LeftoverHasCause'
<1>0. JobMove(j) /\ rows' = rows
  BY RequestMove DEF RequestStep, DropMemberSessions, rowVars
<1>1. \A i \in Job \ {j} : jobs'[i] = jobs[i]
  BY <1>0 DEF JobMove
<1>2. jobs[j].step = "pop" /\ jobs'[j].step \notin {"touch", "upsert", "upwrite", "key"}
  BY FinishedType DEF DropMemberSessions, At, Goto, End, Typed, TypeOK, JobState
<1>3. \A m \in Member : Handshakes(m)' \subseteq Handshakes(m)
  BY <1>1, <1>2 DEF Handshakes
<1>4. ASSUME NEW m \in DOMAIN rows', rows'[m].by # None, Handshakes(m)' # {}
      PROVE  m \in excused'
  <2>1. Handshakes(m) # {} /\ m \in DOMAIN rows
    BY <1>0, <1>3, <1>4 DEF Typed, TypeOK
  <2>2. m \in excused
    BY <1>0, <1>4, <2>1 DEF Leftovers, HandshakesExcused
  <2>3. QED BY <2>1, <2>2 DEF DropMemberSessions
<1>5. ASSUME NEW m \in live' \cap DOMAIN rows', rows'[m].by # None, ~Dropping(m)'
      PROVE  m \in excused'
  <2>1. m \in live /\ m \notin jobs[j].ids
    BY <1>5 DEF DropMemberSessions
  <2>2. ~Dropping(m)
    BY <1>1, <1>5, <2>1 DEF Dropping, At
  <2>3. m \in excused
    BY <1>0, <1>5, <2>1, <2>2 DEF Leftovers, LeftoverHasCause
  <2>4. QED BY <2>1, <2>3 DEF DropMemberSessions
<1>6. QED BY <1>4, <1>5 DEF HandshakesExcused, LeftoverHasCause

\* A handshake stores its key: if its member is revoked, that was while it ran.
LEMMA LeftoverAdded ==
    ASSUME Typed, Leftovers, NEW j \in Job, AcceptMemberEncap(j)
    PROVE  HandshakesExcused' /\ LeftoverHasCause'
<1>0. /\ JobMove(j) /\ rows' = rows /\ excused' = excused
      /\ live' = live \cup {jobs[j].m} /\ jobs[j].step = "key"
  BY RequestMove DEF RequestStep, AcceptMemberEncap, rowVars, historyVars, At
<1>1. \A i \in Job \ {j} : jobs'[i] = jobs[i]
  BY <1>0 DEF JobMove
<1>2. jobs'[j].step = "snap"
  BY DEF AcceptMemberEncap, Goto, Typed, TypeOK, JobState
<1>3. \A m \in Member : Handshakes(m)' \subseteq Handshakes(m) /\ (Dropping(m) => Dropping(m)')
  BY <1>0, <1>1, <1>2 DEF Handshakes, Dropping, At
<1>4. j \in Handshakes(jobs[j].m)
  BY <1>0 DEF Handshakes, Typed, Shape
<1>5. ASSUME NEW m \in DOMAIN rows', rows'[m].by # None, Handshakes(m)' # {}
      PROVE  m \in excused'
  BY <1>0, <1>3, <1>5 DEF Leftovers, HandshakesExcused, Typed, TypeOK
<1>6. ASSUME NEW m \in live' \cap DOMAIN rows', rows'[m].by # None, ~Dropping(m)'
      PROVE  m \in excused'
  <2>1. CASE m = jobs[j].m
    BY <1>0, <1>4, <1>6, <2>1 DEF Leftovers, HandshakesExcused
  <2>2. CASE m \in live
    BY <1>0, <1>3, <1>6, <2>2 DEF Leftovers, LeftoverHasCause, Typed, TypeOK
  <2>3. QED BY <1>0, <1>6, <2>1, <2>2
<1>7. QED BY <1>5, <1>6 DEF HandshakesExcused, LeftoverHasCause

\* A restart brings a session back only to a member it excuses.
LEMMA LeftoverRestart ==
    ASSUME Typed, Leftovers, Restart
    PROVE  HandshakesExcused' /\ LeftoverHasCause'
<1>1. \A m \in Member : Handshakes(m)' = {}
  BY DEF Restart, Handshakes, Finished
<1>2. rows' = rows /\ DOMAIN rows \subseteq Member
  BY DEF Restart, rowVars, Typed, TypeOK
<1>3. \A m \in live' \cap DOMAIN rows' : rows'[m].by # None => m \in excused'
  BY <1>2 DEF Restart, Leftovers, AuditRevoked
<1>4. QED BY <1>1, <1>2, <1>3 DEF HandshakesExcused, LeftoverHasCause

\* Every step keeps the causes of the sessions left over.
LEMMA LeftoverStep == Typed /\ Leftovers /\ [Next]_vars => Leftovers'
<1> SUFFICES ASSUME Typed, Leftovers, [Next]_vars PROVE HandshakesExcused' /\ LeftoverHasCause'
  BY AuditStep DEF Leftovers
<1> DEFINE Goal == HandshakesExcused' /\ LeftoverHasCause'
           SameAudits == \A m \in DOMAIN rows' :
                            rows'[m].by # None => m \in DOMAIN rows /\ rows[m].by # None
<1>1. CASE /\ SameAudits
           /\ UNCHANGED <<live, excused, jobs>>
  <2>1. \A m \in Member : Handshakes(m)' = Handshakes(m) /\ (Dropping(m) => Dropping(m)')
    BY <1>1 DEF Handshakes, Dropping, At
  <2>2. DOMAIN rows \subseteq Member
    BY DEF Typed, TypeOK
  <2>3. QED
    BY <1>1, <2>1, <2>2 DEF Leftovers, HandshakesExcused, LeftoverHasCause
<1>2. ASSUME NEW ms, Bury(ms) PROVE SameAudits /\ UNCHANGED <<live, excused, jobs>>
  BY <1>2 DEF Bury, Tombstone, KeptMembers, Typed, TypeOK, Row, sessionVars, historyVars
<1>3. ASSUME NEW m \in Member, Mint(m) \/ RemoveInactive(m) \/ Expire(m) \/ Age(m)
      PROVE  Goal
  <2>1. CASE Mint(m)
    BY <1>1, <2>1 DEF Mint, KeptMembers, sessionVars, historyVars
  <2>2. CASE RemoveInactive(m)
    BY <1>1, <1>2, <2>2 DEF RemoveInactive
  <2>3. CASE Expire(m) \/ Age(m)
    BY <1>1, <2>3 DEF Expire, Age, sessionVars, historyVars
  <2>4. QED BY <1>3, <2>1, <2>2, <2>3
<1>4. ASSUME NEW j \in Job, Arrives(j) PROVE Goal
  <2>1. JobMove(j) /\ jobs[j].step # "pop" /\ UNCHANGED <<rows, live, excused>>
    BY <1>4, ArrivalMove DEF At
  <2>2. QED BY <2>1, LeftoverKept
<1>5. ASSUME NEW j \in Job, RequestStep(j) PROVE Goal
  <2>0. JobMove(j)
    BY <1>5, RequestMove
  <2>1. CASE DropMemberSessions(j)
    BY <2>1, LeftoverDropped
  <2>2. CASE AcceptMemberEncap(j)
    BY <2>2, LeftoverAdded
  <2>3. CASE UnpairRow(j)
    <3>1. /\ jobs'[j].step = "pop" /\ jobs'[j].ids = {jobs[j].m} /\ live' = live
          /\ At(j, "rows") /\ MarkRevoked({jobs[j].m}, jobs[j].by, FALSE)
      BY <2>3 DEF UnpairRow, Typed, TypeOK, JobState, sessionVars
    <3>2. Unrevoked({jobs[j].m}) \subseteq jobs'[j].ids
      BY <3>1 DEF Unrevoked
    <3>3. QED BY <2>0, <3>1, <3>2, LeftoverMarked
  <2>4. CASE RevokeRows(j)
    <3>1. /\ jobs'[j].step = "pop" /\ jobs'[j].ids = Unrevoked(RowsOf(jobs[j].p)) /\ live' = live
          /\ At(j, "rows") /\ MarkRevoked(RowsOf(jobs[j].p), jobs[j].by, TRUE)
      BY <2>4 DEF RevokeRows, Typed, TypeOK, JobState, sessionVars
    <3>2. QED BY <2>0, <3>1, LeftoverMarked
  <2>5. CASE Touch(j)
    <3>1. SameAudits /\ jobs[j].step # "pop" /\ UNCHANGED <<live, excused>>
      BY <2>5 DEF Touch, At, Typed, TypeOK, Row, sessionVars, historyVars
    <3>2. QED BY <2>0, <3>1, LeftoverKept
  <2>6. CASE /\ RequestStep(j)
             /\ ~DropMemberSessions(j) /\ ~AcceptMemberEncap(j) /\ ~UnpairRow(j)
             /\ ~RevokeRows(j) /\ ~Touch(j)
    <3>1. UNCHANGED <<rows, live, excused>> /\ jobs[j].step # "pop"
      BY <2>6
         DEF RequestStep, AuthUnknown, AuthDenied, AuthAccepted, UpsertRead, UpsertWrite,
             Snapshot, Save, UnpairUnknown, ListClients, DropClientRead, DropClientWrite,
             ReadFails, WriteFails, At, rowVars, sessionVars, historyVars
    <3>2. QED BY <2>0, <3>1, LeftoverKept
  <2>7. QED BY <1>5, <2>1, <2>2, <2>3, <2>4, <2>5, <2>6
<1>6. CASE Restart
  BY <1>6, LeftoverRestart
<1>7. CASE UNCHANGED vars
  BY <1>1, <1>7 DEF vars, rowVars, sessionVars, historyVars
<1>8. QED
  BY <1>1, <1>2, <1>3, <1>4, <1>5, <1>6, <1>7 DEF Next, Arrives, ClearInactive

\* A session outlives a revocation of its member only for one of the two known
\* reasons: a handshake that was running, or a restart (_drop_pq_sessions).
THEOREM LeftoversExplained == Spec => []LeftoverHasCause
<1>1. Init => Leftovers
  BY DEF Init, Leftovers, AuditRevoked, HandshakesExcused, LeftoverHasCause
<1>2. Leftovers => LeftoverHasCause
  BY DEF Leftovers
<1>3. QED BY TypeInit, TypeNext, <1>1, <1>2, LeftoverStep, PTL DEF Spec
=============================================================================
