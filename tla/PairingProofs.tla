--------------------------- MODULE PairingProofs ---------------------------
(***************************************************************************)
(* What pairing promises, for any tokens, addresses, requests at a time    *)
(* and bounds.                                                             *)
(*                                                                         *)
(* Pairing implements SingleUse: a step of the claims, the mint or the     *)
(* clock is a step of SingleUse or leaves its variables alone, in a state  *)
(* where Ledger holds: a ticket in the store was handed to nobody, a grace *)
(* entry says to whom, and a mint puts an id under a ticket that never had *)
(* one.                                                                    *)
(*                                                                         *)
(* The client rows keep what the panel decided: Registry says what each    *)
(* request carries between its sections, the document a chat post has read *)
(* included.  An unpaired row that nothing raced is inactive; once gone,   *)
(* its id is neither among the issued ones nor with a chat post that was   *)
(* let through while it was (Stands), so nothing can make it a new row.    *)
(***************************************************************************)
EXTENDS Pairing, TLAPS, SequenceTheorems

IsRequest(s) == s \in [step : {s.step}, t : {s.t}, ip : {s.ip}, ids : {s.ids}, copy : {s.copy}]

Filed == /\ jobs = [j \in Job |-> jobs[j]]
         /\ \A j \in Job : IsRequest(jobs[j])

\* A mint that has its token and not yet its ticket.
Minting(s) == s.step = "ticket"

\* A claim names an id that a mint created and an address.
Claiming(s) == s.step = "claim" => s.t \in Token /\ s.ip \in Addr

Ledger ==
    /\ minted \subseteq Token
    /\ lapsed \subseteq tickets /\ tickets \subseteq ticketed /\ ticketed \subseteq minted
    /\ holders = [t \in Token |-> holders[t]]
    /\ grace = [t \in DOMAIN grace |-> grace[t]]
    /\ \A t \in Token : t \in tickets \/ t \notin ticketed => holders[t] = {} /\ t \notin DOMAIN grace
    /\ \A t \in DOMAIN grace : t \in Token /\ holders[t] = {grace[t]}
    /\ \A j \in Job : Claiming(jobs[j])
    /\ \A j \in Job : Minting(jobs[j]) => jobs[j].t \in minted \ ticketed
    /\ \A i, j \in Job : Minting(jobs[i]) /\ Minting(jobs[j]) /\ jobs[i].t = jobs[j].t => i = j

Inv == Filed /\ Ledger

-----------------------------------------------------------------------------
(* The requests. *)

LEMMA IdleRequest == IsRequest(Idle) /\ Idle.step = "idle"
BY DEF Idle, IsRequest

\* Replacing one request by a request leaves the others as they are.
LEMMA FiledOne ==
    ASSUME Filed, NEW j \in Job, NEW s, jobs' = [jobs EXCEPT ![j] = s], IsRequest(s)
    PROVE  /\ Filed' /\ jobs'[j] = s /\ \A i \in Job : i # j => jobs'[i] = jobs[i]
<1>1. jobs' = [i \in Job |-> IF i = j THEN s ELSE jobs[i]]
  BY DEF Filed
<1>2. jobs'[j] = s /\ \A i \in Job : i # j => jobs'[i] = jobs[i]
  BY <1>1
<1>3. jobs' = [i \in Job |-> jobs'[i]]
  BY <1>1
<1>4. QED BY <1>2, <1>3 DEF Filed

\* Ending a request leaves the others as they are.
LEMMA FiledEnd ==
    ASSUME Filed, NEW j \in Job, End(j)
    PROVE  /\ Filed' /\ jobs'[j] = Idle /\ \A i \in Job : i # j => jobs'[i] = jobs[i]
BY FiledOne, IdleRequest DEF End

\* Moving a request on leaves the others as they are.
LEMMA FiledGoto ==
    ASSUME Filed, NEW j \in Job, NEW st, Goto(j, st)
    PROVE  /\ Filed' /\ jobs'[j].step = st /\ jobs'[j].t = jobs[j].t
           /\ \A i \in Job : i # j => jobs'[i] = jobs[i]
<1> DEFINE s == [jobs[j] EXCEPT !.step = st]
<1>1. jobs' = [jobs EXCEPT ![j] = s]
  BY DEF Goto, Filed
<1>2. IsRequest(s) /\ s.step = st /\ s.t = jobs[j].t
  BY DEF Filed, IsRequest
<1>3. QED BY <1>1, <1>2, FiledOne

\* A request moves on, and neither mints nor claims; the books stay.
LEMMA Moves ==
    ASSUME Inv, NEW j \in Job, Filed', \A i \in Job : i # j => jobs'[i] = jobs[i],
           jobs'[j].step # "ticket", Claiming(jobs'[j]),
           UNCHANGED <<minted, ticketVars, ticketed, holders>>
    PROVE  Inv'
BY DEF Inv, Ledger, ticketVars, Minting, Claiming

\* A new request, in s.
LEMMA Starts ==
    ASSUME Inv, NEW j \in Job, NEW s, Start(j, s), IsRequest(s), s.step # "ticket", Claiming(s),
           UNCHANGED <<minted, ticketVars, ticketed, holders>>
    PROVE  Inv'
<1>1. Filed' /\ jobs'[j] = s /\ \A i \in Job : i # j => jobs'[i] = jobs[i]
  BY FiledOne DEF Start, Inv
<1>2. QED BY <1>1, Moves

-----------------------------------------------------------------------------
(* The steps that leave the tickets alone. *)

\* A request arrives.
LEMMA ArrivalQuiet ==
    ASSUME Inv, NEW j \in Job, Arrival(j)
    PROVE  Inv' /\ UNCHANGED <<minted, ticketVars, ticketed, holders>>
<1>1. CASE MintBegin(j)
  <2> DEFINE s == [Idle EXCEPT !.step = "drop", !.ids = auth]
  <2>1. IsRequest(s) /\ s.step = "drop" /\ Claiming(s)
    BY DEF Idle, IsRequest, Claiming
  <2>2. Start(j, s) /\ UNCHANGED <<minted, ticketVars, ticketed, holders>>
    BY <1>1 DEF MintBegin, historyVars
  <2> HIDE DEF s
  <2>3. QED BY <2>1, <2>2, Starts
<1>2. CASE ClaimBegin(j)
  <2>1. PICK t \in minted, ip \in Addr :
          Start(j, [Idle EXCEPT !.step = "claim", !.t = t, !.ip = ip, !.ids = over])
    BY <1>2 DEF ClaimBegin
  <2> DEFINE s == [Idle EXCEPT !.step = "claim", !.t = t, !.ip = ip, !.ids = over]
  <2>2. IsRequest(s) /\ s.step = "claim" /\ s.t = t /\ s.ip = ip
    BY DEF Idle, IsRequest
  <2>3. Claiming(s)
    BY <2>2 DEF Claiming, Inv, Ledger
  <2>4. UNCHANGED <<minted, ticketVars, ticketed, holders>>
    BY <1>2 DEF ClaimBegin, historyVars
  <2> HIDE DEF s
  <2>5. QED BY <2>1, <2>2, <2>3, <2>4, Starts DEF s
<1>3. CASE HeartbeatBegin(j)
  <2>1. PICK t \in Token, ip \in Addr : Start(j, [Idle EXCEPT !.step = "beat", !.t = t, !.ip = ip])
    BY <1>3 DEF HeartbeatBegin
  <2> DEFINE s == [Idle EXCEPT !.step = "beat", !.t = t, !.ip = ip]
  <2>2. IsRequest(s) /\ s.step = "beat" /\ Claiming(s)
    BY DEF Idle, IsRequest, Claiming
  <2>3. UNCHANGED <<minted, ticketVars, ticketed, holders>>
    BY <1>3 DEF HeartbeatBegin, historyVars
  <2> HIDE DEF s
  <2>4. QED BY <2>1, <2>2, <2>3, Starts DEF s
<1>4. CASE ServeBegin(j)
  <2>1. PICK t \in DOMAIN doc.rows : Start(j, [Idle EXCEPT !.step = "revoke", !.t = t])
    BY <1>4 DEF ServeBegin
  <2> DEFINE s == [Idle EXCEPT !.step = "revoke", !.t = t]
  <2>2. IsRequest(s) /\ s.step = "revoke" /\ Claiming(s)
    BY DEF Idle, IsRequest, Claiming
  <2>3. UNCHANGED <<minted, ticketVars, ticketed, holders>>
    BY <1>4 DEF ServeBegin, historyVars
  <2> HIDE DEF s
  <2>4. QED BY <2>1, <2>2, <2>3, Starts DEF s
<1>5. CASE ChatBegin(j)
  <2>1. PICK t \in Token : Start(j, [Idle EXCEPT !.step = "look", !.t = t])
    BY <1>5 DEF ChatBegin
  <2> DEFINE s == [Idle EXCEPT !.step = "look", !.t = t]
  <2>2. IsRequest(s) /\ s.step = "look" /\ Claiming(s)
    BY DEF Idle, IsRequest, Claiming
  <2>3. UNCHANGED <<minted, ticketVars, ticketed, holders>>
    BY <1>5 DEF ChatBegin, historyVars
  <2> HIDE DEF s
  <2>4. QED BY <2>1, <2>2, <2>3, Starts DEF s
<1>6. QED BY <1>1, <1>2, <1>3, <1>4, <1>5 DEF Arrival

\* A request goes on, and has to do with tokens, rows or the panel.
LEMMA RequestQuiet ==
    ASSUME Inv, NEW j \in Job,
           \/ MintDrop(j) \/ MintRefused(j) \/ Heartbeat(j) \/ ServeRevoke(j) \/ ServeDrop(j)
           \/ ChatLook(j) \/ ChatRead(j) \/ ChatWrite(j)
    PROVE  Inv' /\ UNCHANGED <<minted, ticketVars, ticketed, holders>>
<1>1. UNCHANGED <<minted, ticketVars, ticketed, holders>>
  BY DEF MintDrop, MintRefused, Heartbeat, ServeRevoke, ServeDrop, ChatLook, ChatRead, ChatWrite,
     historyVars
<1>2. Filed /\ Claiming(Idle)
  BY IdleRequest DEF Inv, Claiming
<1>3. ASSUME End(j) PROVE Inv'
  BY <1>1, <1>2, <1>3, FiledEnd, IdleRequest, Moves
<1>4. ASSUME NEW st \in {"create", "row", "read"}, Goto(j, st) PROVE Inv'
  BY <1>1, <1>2, <1>4, FiledGoto, Moves DEF Claiming
<1>5. CASE MintDrop(j)
  <2>1. CASE jobs[j].ids = {}
    <3>1. Goto(j, "create")
      BY <1>5, <2>1 DEF MintDrop
    <3>2. Inv'
      BY <1>4, <3>1
    <3>3. QED BY <1>1, <3>2
  <2>2. CASE jobs[j].ids # {}
    <3>1. PICK t : jobs' = [jobs EXCEPT ![j].ids = @ \ {t}]
      BY <1>5, <2>2 DEF MintDrop
    <3> DEFINE s == [jobs[j] EXCEPT !.ids = @ \ {t}]
    <3>2. jobs' = [jobs EXCEPT ![j] = s]
      BY <1>2, <3>1 DEF Filed
    <3>3. IsRequest(s) /\ s.step = "drop"
      BY <1>2, <1>5 DEF Filed, IsRequest, MintDrop, At
    <3>4. Filed' /\ jobs'[j] = s /\ \A i \in Job : i # j => jobs'[i] = jobs[i]
      BY <1>2, <3>2, <3>3, FiledOne
    <3> HIDE DEF s
    <3>5. QED BY <1>1, <3>3, <3>4, Moves DEF Claiming
  <2>3. QED BY <2>1, <2>2
<1>6. CASE MintRefused(j) \/ Heartbeat(j) \/ ServeDrop(j) \/ ChatWrite(j)
  <2>1. End(j)
    BY <1>6 DEF MintRefused, Heartbeat, ServeDrop, ChatWrite
  <2>2. Inv'
    BY <1>3, <2>1
  <2>3. QED BY <1>1, <2>2
<1>7. CASE ServeRevoke(j)
  <2>1. Goto(j, "row")
    BY <1>7 DEF ServeRevoke
  <2>2. Inv'
    BY <1>4, <2>1
  <2>3. QED BY <1>1, <2>2
<1>8. CASE ChatLook(j)
  <2>1. Goto(j, "read") \/ End(j)
    BY <1>8 DEF ChatLook
  <2>2. Inv'
    BY <1>3, <1>4, <2>1
  <2>3. QED BY <1>1, <2>2
<1>9. CASE ChatRead(j)
  <2> DEFINE s == [jobs[j] EXCEPT !.step = "write", !.copy = doc]
  <2>1. jobs' = [jobs EXCEPT ![j] = s]
    BY <1>2, <1>9 DEF ChatRead, Filed
  <2>2. IsRequest(s) /\ s.step = "write"
    BY <1>2 DEF Filed, IsRequest
  <2>3. Filed' /\ jobs'[j] = s /\ \A i \in Job : i # j => jobs'[i] = jobs[i]
    BY <1>2, <2>1, <2>2, FiledOne
  <2> HIDE DEF s
  <2>4. QED BY <1>1, <2>2, <2>3, Moves DEF Claiming
<1>10. QED BY <1>1, <1>5, <1>6, <1>7, <1>8, <1>9

-----------------------------------------------------------------------------
(* The steps of the promise. *)

LEMMA MintCreateStep ==
    ASSUME Inv, NEW j \in Job, MintCreate(j)
    PROVE  Inv' /\ UNCHANGED <<ticketVars, ticketed, holders>>
<1>1. PICK t \in Token \ (minted \cup HandMade) :
        /\ minted' = minted \cup {t}
        /\ jobs' = [jobs EXCEPT ![j].step = "ticket", ![j].t = t]
  BY DEF MintCreate
<1> DEFINE s == [jobs[j] EXCEPT !.step = "ticket", !.t = t]
<1>2. jobs' = [jobs EXCEPT ![j] = s]
  BY <1>1 DEF Inv, Filed
<1>3. IsRequest(s) /\ s.step = "ticket" /\ s.t = t
  BY DEF Inv, Filed, IsRequest
<1>4. Filed' /\ jobs'[j] = s /\ \A i \in Job : i # j => jobs'[i] = jobs[i]
  BY <1>2, <1>3, FiledOne DEF Inv
<1> HIDE DEF s
<1>5. UNCHANGED <<ticketVars, ticketed, holders>>
  BY DEF MintCreate, historyVars
<1>6. \A i \in Job : i # j /\ Minting(jobs[i]) => jobs[i].t # t
  BY <1>1 DEF Inv, Ledger
<1>7. t \in Token /\ t \notin minted /\ minted' = minted \cup {t}
  BY <1>1
<1>8. UNCHANGED <<tickets, lapsed, grace, ticketed, holders>>
  BY <1>5 DEF ticketVars
<1>9. Ledger
  BY DEF Inv
<1>10. minted' \subseteq Token
  BY <1>7, <1>9 DEF Ledger
<1>11. \A i \in Job : Claiming(jobs'[i])
  BY <1>3, <1>4, <1>9 DEF Ledger, Claiming
<1>12. \A i \in Job : Minting(jobs'[i]) => jobs'[i].t \in minted' \ ticketed'
  BY <1>3, <1>4, <1>7, <1>8, <1>9 DEF Ledger
<1>13. \A i, k \in Job : Minting(jobs'[i]) /\ Minting(jobs'[k]) /\ jobs'[i].t = jobs'[k].t => i = k
  BY <1>3, <1>4, <1>6, <1>9 DEF Ledger
<1>14. Ledger'
  <2>1. lapsed' \subseteq tickets' /\ tickets' \subseteq ticketed' /\ ticketed' \subseteq minted'
    BY <1>7, <1>8, <1>9 DEF Ledger
  <2>2. /\ holders' = [k \in Token |-> holders'[k]]
        /\ grace' = [k \in DOMAIN grace' |-> grace'[k]]
    BY <1>8, <1>9 DEF Ledger
  <2>3. /\ \A k \in Token : k \in tickets' \/ k \notin ticketed'
                            => holders'[k] = {} /\ k \notin DOMAIN grace'
        /\ \A k \in DOMAIN grace' : k \in Token /\ holders'[k] = {grace'[k]}
    BY <1>8, <1>9 DEF Ledger
  <2>4. QED BY <1>10, <1>11, <1>12, <1>13, <2>1, <2>2, <2>3 DEF Ledger, Minting, Claiming
<1>15. QED BY <1>4, <1>5, <1>14 DEF Inv

\* Storing a new ticket keeps the invariant and issues the ticket.
LEMMA MintTicketStep ==
    ASSUME Inv, NEW j \in Job, MintTicket(j)
    PROVE  Inv' /\ [Promise!Next]_(Promise!vars)
<1> DEFINE t == jobs[j].t
<1>1. Filed' /\ jobs'[j] = Idle /\ \A i \in Job : i # j => jobs'[i] = jobs[i]
  BY FiledEnd DEF MintTicket, Inv
<1>2. t \in minted \ ticketed /\ t \in Token
  BY DEF MintTicket, At, Inv, Ledger, Minting
<1>3. UNCHANGED <<minted, grace, holders>>
  BY DEF MintTicket
<1>4. CASE UNCHANGED <<tickets, lapsed, ticketed>>
  <2>1. Inv'
    BY <1>1, <1>3, <1>4, IdleRequest DEF Inv, Ledger, Minting, Claiming
  <2>2. QED BY <1>3, <1>4, <2>1 DEF Promise!vars
<1>5. CASE /\ tickets' = (tickets \ lapsed) \cup {t} /\ lapsed' = {}
           /\ ticketed' = ticketed \cup {t}
  <2>1. \A i \in Job : i # j /\ Minting(jobs[i]) => jobs[i].t # t
    BY DEF MintTicket, At, Inv, Ledger, Minting
  <2>2. Inv'
    BY <1>1, <1>2, <1>3, <1>5, <2>1, IdleRequest DEF Inv, Ledger, Minting, Claiming
  <2>3. Promise!Issue(t)
    BY <1>2, <1>3, <1>5 DEF Promise!Issue
  <2>4. QED BY <1>2, <2>2, <2>3 DEF Promise!Next
<1>6. QED BY <1>4, <1>5 DEF MintTicket

\* A claim keeps the invariant and gives the ticket, or repeats an answer, or refuses.
LEMMA ClaimRunStep ==
    ASSUME Inv, NEW j \in Job, ClaimRun(j)
    PROVE  Inv' /\ [Promise!Next]_(Promise!vars)
<1> DEFINE t == jobs[j].t
           ip == jobs[j].ip
           kept == DOMAIN grace \ jobs[j].ids
<1>1. Filed' /\ jobs'[j] = Idle /\ \A i \in Job : i # j => jobs'[i] = jobs[i]
  BY FiledEnd DEF ClaimRun, Inv
<1>2. t \in Token /\ ip \in Addr
  BY DEF ClaimRun, At, Inv, Ledger, Claiming
<1>3. UNCHANGED <<minted, ticketed>> /\ lapsed' = lapsed \cap tickets'
  BY DEF ClaimRun
<1>4. /\ tickets' = IF t \in kept THEN tickets ELSE tickets \ (lapsed \cup {t})
      /\ grace' = [k \in kept \cup (IF Given(t, ip, kept) THEN {t} ELSE {}) |->
                     IF k \in kept THEN grace[k] ELSE ip]
      /\ holders' = IF Given(t, ip, kept) THEN [holders EXCEPT ![t] = @ \cup {ip}] ELSE holders
  BY DEF ClaimRun, Consumed
<1>5. Ledger
  BY DEF Inv
<1>6. ASSUME Ledger' PROVE Inv'
  BY <1>1, <1>6 DEF Inv
<1>7. /\ \A i \in Job : Claiming(jobs'[i])
      /\ \A i \in Job : Minting(jobs'[i]) => jobs'[i] = jobs[i]
  BY <1>1, <1>5, IdleRequest DEF Ledger, Minting, Claiming
<1> HIDE DEF t, ip
<1>8. CASE t \in kept
  <2>1. holders[t] = {grace[t]} /\ (Given(t, ip, kept) <=> grace[t] = ip)
    BY <1>5, <1>8 DEF Ledger, Given
  <2>2. holders' = holders
    <3>1. CASE Given(t, ip, kept)
      <4>1. holders[t] \cup {ip} = holders[t]
        BY <2>1, <3>1
      <4>2. holders' = [holders EXCEPT ![t] = holders[t]]
        BY <1>4, <3>1, <4>1
      <4>3. holders = [k \in Token |-> holders[k]]
        BY <1>5 DEF Ledger
      <4>4. QED BY <4>2, <4>3
    <3>2. QED BY <1>4, <3>1
  <2>3. tickets' = tickets /\ lapsed' = lapsed
    BY <1>3, <1>4, <1>5, <1>8 DEF Ledger
  <2>4. grace' = [k \in kept |-> grace[k]]
    BY <1>4, <1>8
  <2>5. Ledger'
    BY <1>3, <1>5, <1>7, <2>2, <2>3, <2>4 DEF Ledger
  <2>6. UNCHANGED Promise!vars
    BY <1>3, <2>2, <2>3 DEF Promise!vars
  <2>7. QED BY <1>6, <2>5, <2>6
<1>9. CASE t \notin kept /\ t \in tickets \ lapsed
  <2>1. Given(t, ip, kept) /\ holders[t] = {}
    BY <1>2, <1>5, <1>9 DEF Given, Ledger
  <2>2. /\ tickets' = tickets \ (lapsed \cup {t}) /\ lapsed' = {}
        /\ holders' = [holders EXCEPT ![t] = {ip}]
    BY <1>3, <1>4, <1>9, <2>1
  <2>3. grace' = [k \in kept \cup {t} |-> IF k \in kept THEN grace[k] ELSE ip]
    BY <1>4, <2>1
  <2>4. /\ holders' = [k \in Token |-> IF k = t THEN {ip} ELSE holders[k]]
        /\ holders'[t] = {ip} /\ \A k \in Token : k # t => holders'[k] = holders[k]
    BY <1>2, <1>5, <2>2 DEF Ledger
  <2>5. Ledger'
    <3>1. \A k \in Token : k \in tickets' \/ k \notin ticketed'
             => holders'[k] = {} /\ k \notin DOMAIN grace'
      BY <1>3, <1>5, <1>9, <2>2, <2>3, <2>4 DEF Ledger
    <3>2. \A k \in DOMAIN grace' : k \in Token /\ holders'[k] = {grace'[k]}
      BY <1>2, <1>5, <1>9, <2>3, <2>4 DEF Ledger
    <3>3. holders' = [k \in Token |-> holders'[k]] /\ grace' = [k \in DOMAIN grace' |-> grace'[k]]
      BY <2>3, <2>4
    <3>4. QED BY <1>3, <1>5, <1>7, <2>2, <3>1, <3>2, <3>3 DEF Ledger
  <2>6. Promise!Give(t, ip)
    BY <1>3, <1>9, <2>2 DEF Promise!Give
  <2>7. QED BY <1>2, <1>6, <1>9, <2>5, <2>6 DEF Promise!Next
<1>10. CASE t \notin kept /\ t \notin tickets \ lapsed
  <2>1. ~Given(t, ip, kept)
    BY <1>10 DEF Given
  <2>2. tickets' = tickets \ lapsed /\ lapsed' = {} /\ holders' = holders
    BY <1>3, <1>4, <1>5, <1>10, <2>1 DEF Ledger
  <2>3. grace' = [k \in kept |-> grace[k]]
    BY <1>4, <2>1
  <2>4. Ledger'
    BY <1>3, <1>5, <1>7, <2>2, <2>3 DEF Ledger
  <2>5. UNCHANGED Promise!vars
    BY <1>3, <2>2 DEF Promise!vars
  <2>6. QED BY <1>6, <2>4, <2>5
<1>11. QED BY <1>8, <1>9, <1>10

\* Every step keeps the ledger, and is a step of SingleUse or changes nothing there.
LEMMA Simulates ==
    Inv /\ [Next]_vars => Inv' /\ [Promise!Next]_(Promise!vars)
<1> SUFFICES ASSUME Inv, [Next]_vars PROVE Inv' /\ [Promise!Next]_(Promise!vars)
  OBVIOUS
<1>1. ASSUME UNCHANGED <<ticketVars, ticketed, holders>> PROVE UNCHANGED Promise!vars
  BY <1>1 DEF ticketVars, Promise!vars
<1>2. ASSUME NEW j \in Job, Arrival(j) PROVE Inv' /\ UNCHANGED Promise!vars
  BY <1>1, <1>2, ArrivalQuiet
<1>3. ASSUME NEW j \in Job, JobStep(j) PROVE Inv' /\ [Promise!Next]_(Promise!vars)
  <2>1. CASE ClaimFails(j)
    <3>1. Filed' /\ jobs'[j] = Idle /\ \A i \in Job : i # j => jobs'[i] = jobs[i]
      BY <2>1, FiledEnd DEF ClaimFails, Inv
    <3>2. /\ grace' = [k \in DOMAIN grace \ jobs[j].ids |-> grace[k]]
          /\ UNCHANGED <<minted, tickets, lapsed, ticketed, holders>>
      BY <2>1 DEF ClaimFails, historyVars
    <3>3. Inv'
      BY <3>1, <3>2, IdleRequest DEF Inv, Ledger, Minting, Claiming
    <3>4. QED BY <3>2, <3>3 DEF Promise!vars
  <2>2. CASE MintCreate(j)
    BY <1>1, <2>2, MintCreateStep
  <2>3. CASE \/ MintDrop(j) \/ MintRefused(j) \/ Heartbeat(j) \/ ServeRevoke(j) \/ ServeDrop(j)
             \/ ChatLook(j) \/ ChatRead(j) \/ ChatWrite(j)
    BY <1>1, <2>3, RequestQuiet
  <2>4. QED BY <1>3, <2>1, <2>2, <2>3, MintTicketStep, ClaimRunStep DEF JobStep
<1>4. ASSUME NEW t \in Token, TicketLapses(t) PROVE Inv' /\ [Promise!Next]_(Promise!vars)
  <2>1. /\ lapsed' = lapsed \cup {t} /\ t \in tickets \ lapsed
        /\ UNCHANGED <<minted, tickets, grace, jobs, ticketed, holders>>
    BY <1>4 DEF TicketLapses, historyVars
  <2>2. Inv'
    BY <2>1 DEF Inv, Filed, Ledger
  <2>3. Promise!Withdraw({t})
    BY <2>1 DEF Promise!Withdraw
  <2>4. {t} \in SUBSET (tickets \ lapsed)
    BY <2>1
  <2>5. QED BY <2>2, <2>3, <2>4 DEF Promise!Next
<1>5. ASSUME UNCHANGED <<minted, tickets, lapsed, grace, jobs, ticketed, holders>>
      PROVE  Inv' /\ UNCHANGED Promise!vars
  BY <1>5 DEF Inv, Filed, Ledger, Promise!vars
<1>6. ASSUME NEW t \in Token, GraceEnds(t) \/ Rename(t) \/ Unpair(t)
      PROVE  Inv' /\ UNCHANGED Promise!vars
  BY <1>5, <1>6 DEF GraceEnds, Rename, Unpair, ticketVars, historyVars
<1>7. ASSUME NEW ip \in Addr, LookupEnds(ip) PROVE Inv' /\ UNCHANGED Promise!vars
  BY <1>5, <1>7 DEF LookupEnds, ticketVars, historyVars
<1>8. CASE Damage \/ UNCHANGED vars
  BY <1>5, <1>8 DEF Damage, vars, ticketVars, historyVars
<1>9. CASE Restart
  <2>1. /\ grace' = [t \in {} |-> None] /\ jobs' = [j \in Job |-> Idle]
        /\ UNCHANGED <<minted, tickets, lapsed, ticketed, holders>>
    BY <1>9 DEF Restart
  <2>2. Filed' /\ \A j \in Job : jobs'[j].step = "idle"
    BY <2>1, IdleRequest DEF Filed
  <2>3. Ledger'
    BY <2>1, <2>2 DEF Inv, Ledger, Minting, Claiming
  <2>4. QED BY <2>1, <2>2, <2>3 DEF Inv, Promise!vars
<1>10. QED BY <1>2, <1>3, <1>4, <1>6, <1>7, <1>8, <1>9 DEF Next

\* The code of a ticket reaches one address at most, and nobody after it lapsed, through
\* claims in parallel, replays, failing writes and restarts: Pairing implements SingleUse.
THEOREM TicketsAreSingleUse == Spec => SingleUseKept
<1>1. Init => Inv
  <2> SUFFICES ASSUME Init PROVE Inv
    OBVIOUS
  <2>1. Filed /\ \A j \in Job : jobs[j].step = "idle"
    BY IdleRequest DEF Init, Filed
  <2>2. Ledger
    BY <2>1 DEF Init, Ledger, Minting, Claiming
  <2>3. QED BY <2>1, <2>2 DEF Inv
<1>2. Init => Promise!Init
  BY DEF Init, Promise!Init
<1>3. Spec => []Inv
  BY <1>1, Simulates, PTL DEF Spec
<1>4. QED BY <1>2, <1>3, Simulates, PTL DEF Spec, SingleUseKept, Promise!Spec

-----------------------------------------------------------------------------
(* Lists of ids. *)

\* The larger of two.
LEMMA MaxOfTwo ==
    ASSUME NEW a \in Int, NEW b \in Int
    PROVE  Max({a, b}) = IF a >= b THEN a ELSE b
<1> DEFINE m == IF a >= b THEN a ELSE b
<1>1. m \in {a, b} /\ \A y \in {a, b} : m >= y
  OBVIOUS
<1>2. \A x \in {a, b} : (\A y \in {a, b} : x >= y) => x = m
  OBVIOUS
<1>3. QED BY <1>1, <1>2 DEF Max

\* Of a list without duplicates, taking an id out leaves the rest in their order.
LEMMA WithoutOne ==
    ASSUME NEW S, NEW s \in Seq(S), IsInjective(s), NEW e
    PROVE  LET r == RemoveFirst(s, e)
           IN  /\ r \in Seq(S) /\ Len(r) <= Len(s) /\ IsInjective(r)
               /\ ToSet(r) = ToSet(s) \ {e}
<1> DEFINE r == RemoveFirst(s, e)
           n == Len(s)
<1>1. n \in Nat /\ DOMAIN s = 1..n
  OBVIOUS
<1>2. CASE \A i \in 1..n : s[i] # e
  <2>1. r = s
    BY <1>2 DEF RemoveFirst
  <2>2. ToSet(s) = ToSet(s) \ {e}
    BY <1>1, <1>2 DEF ToSet
  <2>3. QED BY <1>1, <2>1, <2>2
<1>3. CASE \E i \in 1..n : s[i] = e
  <2>1. PICK i \in 1..n : s[i] = e
    BY <1>3
  <2>2. {k \in 1..n : s[k] = e} = {i}
    BY <1>1, <2>1 DEF IsInjective
  <2>3. Min({i}) = i
    BY DEF Min
  <2>4. SelectInSeq(s, LAMBDA v : v = e) = i
    BY <2>2, <2>3 DEF SelectInSeq
  <2> DEFINE a == SubSeq(s, 1, i - 1)
             b == SubSeq(s, i + 1, n)
  <2>5. r = a \o b
    BY <1>3, <2>4 DEF RemoveFirst, RemoveAt
  <2>6. /\ a \in Seq(S) /\ Len(a) = i - 1 /\ \A k \in 1..(i - 1) : a[k] = s[k]
    BY <1>1, <2>1, SubSeqProperties
  <2>7. /\ b \in Seq(S) /\ Len(b) = n - i /\ \A k \in 1..(n - i) : b[k] = s[i + k]
    <3>1. /\ i + 1 \in Int /\ n \in Int /\ n - (i + 1) + 1 = n - i
          /\ \A k \in (i + 1)..n : s[k] \in S
      BY <1>1, <2>1
    <3>2. /\ b \in Seq(S) /\ Len(b) = IF i + 1 <= n THEN n - i ELSE 0
          /\ \A k \in 1..(n - i) : b[k] = s[(i + 1) + k - 1]
      BY <3>1, SubSeqProperties
    <3> HIDE DEF b, n
    <3>3. ASSUME NEW k \in 1..(n - i) PROVE b[k] = s[i + k]
      <4>1. (i + 1) + k - 1 = i + k
        BY <1>1, <2>1
      <4>2. QED BY <3>2, <4>1
    <3>4. Len(b) = n - i
      <4>1. CASE i + 1 <= n
        BY <3>2, <4>1
      <4>2. CASE ~(i + 1 <= n)
        <5>1. n - i = 0
          BY <1>1, <2>1, <4>2
        <5>2. QED BY <3>2, <4>2, <5>1
      <4>3. QED BY <4>1, <4>2
    <3>5. QED BY <3>2, <3>3, <3>4
  <2> HIDE DEF a, b, r
  <2>8. /\ r \in Seq(S) /\ Len(r) = n - 1
        /\ \A k \in 1..(n - 1) : r[k] = IF k < i THEN s[k] ELSE s[k + 1]
    <3>1. r \in Seq(S) /\ Len(r) = n - 1
          /\ \A k \in 1..(n - 1) : r[k] = IF k <= i - 1 THEN a[k] ELSE b[k - (i - 1)]
      <4>1. r \in Seq(S) /\ Len(r) = Len(a) + Len(b)
            /\ \A k \in 1..Len(a) + Len(b) : r[k] = IF k <= Len(a) THEN a[k] ELSE b[k - Len(a)]
        BY <2>5, <2>6, <2>7, ConcatProperties
      <4>2. Len(a) + Len(b) = n - 1
        BY <1>1, <2>1, <2>6, <2>7
      <4>3. QED BY <2>6, <4>1, <4>2
    <3>2. ASSUME NEW k \in 1..(n - 1) PROVE r[k] = IF k < i THEN s[k] ELSE s[k + 1]
      <4>1. CASE k < i
        BY <1>1, <2>1, <2>6, <3>1, <4>1
      <4>2. CASE k >= i
        <5>1. r[k] = b[k - (i - 1)] /\ k - (i - 1) \in 1..(n - i)
          BY <1>1, <2>1, <2>6, <3>1, <4>2
        <5>2. b[k - (i - 1)] = s[i + (k - (i - 1))]
          BY <2>7, <5>1
        <5>3. i + (k - (i - 1)) = k + 1
          BY <2>1
        <5>4. QED BY <4>2, <5>1, <5>2, <5>3
      <4>3. QED BY <2>1, <4>1, <4>2
    <3>3. QED BY <1>1, <2>1, <3>1, <3>2
  <2>9. IsInjective(r)
    BY <1>1, <2>1, <2>8 DEF IsInjective
  <2>10. ToSet(r) = ToSet(s) \ {e}
    <3>1. ASSUME NEW k \in 1..(n - 1) PROVE r[k] \in ToSet(s) \ {e}
      <4>1. PICK m \in 1..n : r[k] = s[m] /\ m # i
        BY <1>1, <2>1, <2>8, <3>1
      <4>2. s[m] # e
        BY <1>1, <2>1, <4>1 DEF IsInjective
      <4>3. QED BY <1>1, <4>1, <4>2 DEF ToSet
    <3>2. ASSUME NEW m \in 1..n, s[m] # e PROVE s[m] \in ToSet(r)
      <4>1. CASE m < i
        <5>1. m \in 1..(n - 1) /\ r[m] = s[m]
          BY <1>1, <2>1, <2>8, <4>1
        <5>2. QED BY <2>8, <5>1 DEF ToSet
      <4>2. CASE m > i
        <5>1. m - 1 \in 1..(n - 1) /\ r[m - 1] = s[m]
          BY <1>1, <2>1, <2>8, <4>2
        <5>2. QED BY <2>8, <5>1 DEF ToSet
      <4>3. QED BY <2>1, <3>2, <4>1, <4>2
    <3>3. DOMAIN r = 1..(n - 1)
      BY <2>8
    <3>4. QED BY <1>1, <3>1, <3>2, <3>3 DEF ToSet
  <2>11. QED BY <1>1, <2>8, <2>9, <2>10 DEF r
<1>4. QED BY <1>2, <1>3

\* ... and the newest ids of a list, at most IssuedMax of them.
LEMMA NotedList ==
    ASSUME NEW t \in Token, issued \in Seq(Token), IsInjective(issued), t \notin ToSet(issued)
    PROVE  /\ Noted(t) \in Seq(Token) /\ Len(Noted(t)) <= IssuedMax /\ IsInjective(Noted(t))
           /\ ToSet(Noted(t)) \subseteq ToSet(issued) \cup {t}
<1> DEFINE n == Len(issued)
           all == Append(issued, t)
           m == IF 1 >= (n + 1) - IssuedMax + 1 THEN 1 ELSE (n + 1) - IssuedMax + 1
           r == SubSeq(all, m, n + 1)
<1>1. n \in Nat /\ DOMAIN issued = 1..n /\ IssuedMax \in Nat \ {0}
  BY BoundAssumption
<1>2. RemoveFirst(issued, t) = issued
  BY <1>1 DEF RemoveFirst, ToSet
<1>3. /\ Len(all) = n + 1 /\ all[n + 1] = t
      /\ \A k \in 1..n : all[k] = issued[k]
      /\ \A k \in 1..(n + 1) : all[k] \in Token
  BY <1>1, AppendProperties
<1>4. Max({1, (n + 1) - IssuedMax + 1}) = m
  BY <1>1, MaxOfTwo
<1>5. Noted(t) = r
  <2>1. Noted(t) = SubSeq(all, Max({1, Len(all) - IssuedMax + 1}), Len(all))
    BY <1>2 DEF Noted
  <2> HIDE DEF all, m, n
  <2>2. Len(all) - IssuedMax + 1 = (n + 1) - IssuedMax + 1
    BY <1>3
  <2>3. {1, Len(all) - IssuedMax + 1} = {1, (n + 1) - IssuedMax + 1}
    BY <2>2
  <2>4. Max({1, Len(all) - IssuedMax + 1}) = m
    BY <1>4, <2>3
  <2>5. QED BY <1>3, <2>1, <2>4
<1> HIDE DEF n, all
<1>6. m \in 1..(n + 1) /\ (n + 1) - m + 1 <= IssuedMax
  BY <1>1
<1> HIDE DEF m
<1>7. /\ r \in Seq(Token) /\ Len(r) = (n + 1) - m + 1
      /\ \A k \in 1..((n + 1) - m + 1) : r[k] = all[m + k - 1]
  <2>1. m \in Int /\ n + 1 \in Int /\ \A k \in m..(n + 1) : all[k] \in Token
    BY <1>1, <1>3, <1>6
  <2>2. /\ r \in Seq(Token)
        /\ Len(r) = IF m <= n + 1 THEN (n + 1) - m + 1 ELSE 0
        /\ \A k \in 1..((n + 1) - m + 1) : r[k] = all[m + k - 1]
    <3>1. ASSUME NEW z \in Int, \A k \in m..z : all[k] \in Token
          PROVE  /\ SubSeq(all, m, z) \in Seq(Token)
                 /\ Len(SubSeq(all, m, z)) = IF m <= z THEN z - m + 1 ELSE 0
                 /\ \A k \in 1..(z - m + 1) : SubSeq(all, m, z)[k] = all[m + k - 1]
      BY <2>1, <3>1, SubSeqProperties
    <3>2. PICK z \in Int : z = n + 1
      BY <2>1
    <3>3. /\ SubSeq(all, m, z) \in Seq(Token)
          /\ Len(SubSeq(all, m, z)) = IF m <= z THEN z - m + 1 ELSE 0
          /\ \A k \in 1..(z - m + 1) : SubSeq(all, m, z)[k] = all[m + k - 1]
      BY <2>1, <3>1, <3>2
    <3>4. r = SubSeq(all, m, z)
      BY <3>2
    <3> HIDE DEF r
    <3>5. QED BY <3>2, <3>3, <3>4
  <2>3. m <= n + 1
    BY <1>1, <1>6
  <2>4. QED BY <2>2, <2>3
<1> HIDE DEF r
<1>8. \A k \in 1..((n + 1) - m + 1) : m + k - 1 \in 1..(n + 1)
  BY <1>1, <1>6
<1>9. \A k, l \in 1..(n + 1) : all[k] = all[l] => k = l
  <2>1. \A k \in 1..n : all[k] # t
    BY <1>1, <1>3 DEF ToSet
  <2>2. \A k, l \in 1..n : all[k] = all[l] => k = l
    BY <1>1, <1>3 DEF IsInjective
  <2>3. \A k \in 1..(n + 1) : k \in 1..n \/ k = n + 1
    BY <1>1
  <2>4. QED BY <1>3, <2>1, <2>2, <2>3
<1>10. IsInjective(r)
  <2>1. SUFFICES ASSUME NEW k \in 1..((n + 1) - m + 1), NEW l \in 1..((n + 1) - m + 1), r[k] = r[l]
                 PROVE  k = l
    BY <1>7 DEF IsInjective
  <2>2. m + k - 1 = m + l - 1
    BY <1>7, <1>8, <1>9, <2>1
  <2>3. QED BY <1>1, <1>6, <2>2
<1>11. ToSet(r) \subseteq ToSet(issued) \cup {t}
  <2>1. \A k \in 1..(n + 1) : all[k] \in ToSet(issued) \cup {t}
    <3>1. \A k \in 1..(n + 1) : k \in 1..n \/ k = n + 1
      BY <1>1
    <3>2. QED BY <1>1, <1>3, <3>1 DEF ToSet
  <2>2. ASSUME NEW k \in 1..((n + 1) - m + 1) PROVE r[k] \in ToSet(issued) \cup {t}
    BY <1>7, <1>8, <2>1
  <2>3. DOMAIN r = 1..((n + 1) - m + 1)
    BY <1>7
  <2>4. QED BY <2>2, <2>3 DEF ToSet
<1>12. QED BY <1>5, <1>6, <1>7, <1>10, <1>11

-----------------------------------------------------------------------------
(* The documents. *)

\* A document whose rows are rows of the ids in S, and whose host name fits its address.
SoundDoc(d, S) ==
    /\ d \in Doc /\ (d.bad => DOMAIN d.rows = {})
    /\ DOMAIN d.rows \subseteq S /\ d.host \in {None, d.ip}

\* Only the row of t may differ.
SameOthers(d, e, t) ==
    \A k \in Token : k # t => /\ k \in DOMAIN e.rows <=> k \in DOMAIN d.rows
                              /\ k \in DOMAIN d.rows => e.rows[k] = d.rows[k]

\* Rows are functions from some tokens.
LEMMA RowsAre ==
    /\ \A f \in Rows : f \in [DOMAIN f -> Row] /\ DOMAIN f \subseteq Token
    /\ \A S \in SUBSET Token : \A f \in [S -> Row] : f \in Rows
BY DEF Rows

\* A new row is active and not served.
LEMMA NewRowIsRow == NewRow \in Row /\ NewRow.active /\ ~NewRow.served
BY DEF NewRow, Row

\* A document without content is sound.
LEMMA EmptyDocSound ==
    ASSUME NEW S
    PROVE  SoundDoc(EmptyDoc, S) /\ SoundDoc([EmptyDoc EXCEPT !.bad = TRUE], S)
           /\ DOMAIN EmptyDoc.rows = {} /\ DOMAIN [EmptyDoc EXCEPT !.bad = TRUE].rows = {}
<1>1. [t \in {} |-> NewRow] \in Rows
  BY RowsAre
<1>2. DOMAIN [t \in {} |-> NewRow] = {}
  OBVIOUS
<1>3. QED BY <1>1, <1>2 DEF EmptyDoc, SoundDoc, Doc

\* An upsert keeps a document sound; it adds a new row or keeps the one there is.
LEMMA UpsertedSound ==
    ASSUME NEW S \in SUBSET Token, NEW d, SoundDoc(d, S), NEW t \in S
    PROVE  LET e == Upserted(d, t)
           IN  /\ SoundDoc(e, S) /\ SameOthers(d, e, t)
               /\ t \in DOMAIN e.rows
               /\ e.rows[t] = IF t \in DOMAIN d.rows THEN d.rows[t] ELSE NewRow
<1> DEFINE D == DOMAIN d.rows \cup {t}
           r == [k \in D |-> IF k \in DOMAIN d.rows THEN d.rows[k] ELSE NewRow]
           e == Upserted(d, t)
<1>1. d.rows \in [DOMAIN d.rows -> Row]
  BY RowsAre DEF SoundDoc, Doc
<1>2. D \in SUBSET S /\ r \in [D -> Row]
  BY <1>1, NewRowIsRow DEF SoundDoc
<1>3. e = [d EXCEPT !.bad = FALSE, !.rows = r]
  BY DEF Upserted
<1> HIDE DEF e
<1>4. SoundDoc(e, S) /\ e.rows = r
  <2>1. r \in Rows /\ DOMAIN r \subseteq S
    BY <1>2, RowsAre
  <2> HIDE DEF D, r
  <2>2. QED BY <1>3, <2>1 DEF SoundDoc, Doc
<1>5. /\ SameOthers(d, e, t) /\ t \in DOMAIN e.rows
      /\ e.rows[t] = IF t \in DOMAIN d.rows THEN d.rows[t] ELSE NewRow
  BY <1>4 DEF SameOthers
<1>6. QED BY <1>4, <1>5 DEF e

\* A drop keeps a document sound and leaves no row of the token.
LEMMA DroppedSound ==
    ASSUME NEW S \in SUBSET Token, NEW d, SoundDoc(d, S), NEW t
    PROVE  LET e == Dropped(d, t)
           IN  SoundDoc(e, S) /\ SameOthers(d, e, t) /\ t \notin DOMAIN e.rows
<1> DEFINE D == DOMAIN d.rows \ {t}
           r == [k \in D |-> d.rows[k]]
           e == Dropped(d, t)
<1>1. d.rows \in [DOMAIN d.rows -> Row]
  BY RowsAre DEF SoundDoc, Doc
<1>2. D \in SUBSET S /\ r \in [D -> Row]
  BY <1>1 DEF SoundDoc
<1>3. e = [d EXCEPT !.bad = FALSE, !.rows = r]
  BY DEF Dropped
<1> HIDE DEF e
<1>4. SoundDoc(e, S) /\ e.rows = r
  <2>1. r \in Rows /\ DOMAIN r \subseteq S
    BY <1>2, RowsAre
  <2> HIDE DEF D, r
  <2>2. QED BY <1>3, <2>1 DEF SoundDoc, Doc
<1>5. SameOthers(d, e, t) /\ t \notin DOMAIN e.rows
  BY <1>4 DEF SameOthers
<1>6. QED BY <1>4, <1>5 DEF e

\* A row is marked, in a document that has it and can therefore be read.
LEMMA MarkedSound ==
    ASSUME NEW S \in SUBSET Token, NEW d, SoundDoc(d, S), NEW t \in DOMAIN d.rows, NEW row \in Row,
           NEW e, e = [d EXCEPT !.rows = [d.rows EXCEPT ![t] = row]]
    PROVE  SoundDoc(e, S) /\ SameOthers(d, e, t) /\ DOMAIN e.rows = DOMAIN d.rows
           /\ e.rows[t] = row
<1> DEFINE r == [d.rows EXCEPT ![t] = row]
<1>1. d.rows \in [DOMAIN d.rows -> Row] /\ d \in Doc /\ DOMAIN d.rows \subseteq Token
  BY RowsAre DEF SoundDoc, Doc
<1>2. r \in [DOMAIN d.rows -> Row] /\ r \in Rows /\ DOMAIN r = DOMAIN d.rows
  <2>1. r \in [DOMAIN d.rows -> Row]
    BY <1>1
  <2>2. QED BY <1>1, <2>1, RowsAre
<1>3. e.rows = r /\ e \in Doc /\ e.bad = d.bad /\ e.ip = d.ip /\ e.host = d.host
  BY <1>1, <1>2 DEF Doc
<1>4. r[t] = row /\ \A k \in DOMAIN d.rows : k # t => r[k] = d.rows[k]
  BY <1>1
<1> HIDE DEF r
<1>5. QED BY <1>2, <1>3, <1>4 DEF SoundDoc, SameOthers

\* A rename, an unpair and its service keep a document sound and touch one row.
LEMMA PanelMarks ==
    ASSUME NEW S \in SUBSET Token, NEW d, SoundDoc(d, S), NEW t \in DOMAIN d.rows
    PROVE  /\ LET e == Renamed(d, t)
              IN  /\ SoundDoc(e, S) /\ SameOthers(d, e, t) /\ DOMAIN e.rows = DOMAIN d.rows
                  /\ e.rows[t].active = d.rows[t].active /\ e.rows[t].served = d.rows[t].served
           /\ LET e == Unpaired(d, t)
              IN  /\ SoundDoc(e, S) /\ SameOthers(d, e, t) /\ DOMAIN e.rows = DOMAIN d.rows
                  /\ e.rows[t].active = FALSE /\ e.rows[t].served = FALSE
           /\ LET e == Served(d, t)
              IN  /\ SoundDoc(e, S) /\ SameOthers(d, e, t) /\ DOMAIN e.rows = DOMAIN d.rows
                  /\ e.rows[t].active = d.rows[t].active
<1>1. d.rows[t] \in Row /\ d \in Doc /\ d.rows \in [DOMAIN d.rows -> Row]
  BY RowsAre DEF SoundDoc, Doc
<1> DEFINE a == [d.rows[t] EXCEPT !.edited = TRUE]
           b == [d.rows[t] EXCEPT !.active = FALSE, !.served = FALSE]
           c == [d.rows[t] EXCEPT !.served = TRUE]
<1>2. /\ a \in Row /\ a.active = d.rows[t].active /\ a.served = d.rows[t].served
      /\ b \in Row /\ b.active = FALSE /\ b.served = FALSE
      /\ c \in Row /\ c.active = d.rows[t].active
  BY <1>1 DEF Row
<1>3. Renamed(d, t) = [d EXCEPT !.rows = [d.rows EXCEPT ![t] = a]]
  BY <1>1 DEF Renamed, Doc
<1>4. Unpaired(d, t) = [d EXCEPT !.rows = [d.rows EXCEPT ![t] = b]]
  BY <1>1 DEF Unpaired, Doc
<1>5. Served(d, t) = [d EXCEPT !.rows = [d.rows EXCEPT ![t] = c]]
  BY <1>1 DEF Served, Doc
<1> HIDE DEF a, b, c
<1>6. QED BY <1>2, <1>3, <1>4, <1>5, MarkedSound

\* The session fields move, the rows do not.
LEMMA SessionSound ==
    ASSUME NEW S, NEW d, SoundDoc(d, S), NEW ip \in Addr
    PROVE  /\ SoundDoc(Persisted(d, ip), S) /\ Persisted(d, ip).rows = d.rows
           /\ SoundDoc(Resolved(d, ip), S) /\ Resolved(d, ip).rows = d.rows
<1>1. d \in Doc
  BY DEF SoundDoc
<1>2. SoundDoc(Persisted(d, ip), S) /\ Persisted(d, ip).rows = d.rows
  <2>1. CASE d.bad
    BY <2>1 DEF Persisted, Updated
  <2>2. CASE ~d.bad
    BY <1>1, <2>2 DEF Persisted, Updated, SoundDoc, Doc
  <2>3. QED BY <2>1, <2>2
<1>3. SoundDoc(Resolved(d, ip), S) /\ Resolved(d, ip).rows = d.rows
  <2>1. CASE d.bad \/ d.ip # ip
    BY <2>1 DEF Resolved, Updated
  <2>2. CASE ~d.bad /\ d.ip = ip
    BY <1>1, <2>2 DEF Resolved, Updated, SoundDoc, Doc
  <2>3. QED BY <2>1, <2>2
<1>4. QED BY <1>2, <1>3

-----------------------------------------------------------------------------
(* The registry: what the requests carry, and what the rows remember. *)

\* What a request may carry, when the ids in S have been minted.
JobFits(s, S) ==
    /\ s \in JobState
    /\ s.step \in {"beat", "look"} => s.t \in Token
    /\ s.step \in {"claim", "ticket", "read", "write", "revoke", "row"} => s.t \in S
    /\ s.step \in {"beat", "claim"} => s.ip \in Addr
    /\ s.step = "write" => SoundDoc(s.copy, S)

Serving(t) == \E j \in Job : jobs[j].step \in {"revoke", "row"} /\ jobs[j].t = t

\* An unpaired id keeps its inactive row until its service ends, and has then left the
\* issued ids and every chat post, so that nothing can make it a new one.
Stands(t) == t \in unpaired \ raced =>
    /\ t \in DOMAIN doc.rows => ~doc.rows[t].active
    /\ t \notin DOMAIN doc.rows => t \notin ToSet(issued) /\ \A j \in Job : ~Upserting(j, t)

\* A row marked served belongs to a service under way.
Attended(t) == t \in DOMAIN doc.rows \ (raced \cup cut) /\ doc.rows[t].served => Serving(t)

Records == \A t \in Token : Stands(t) /\ Attended(t)

Listed == issued \in Seq(Token) /\ Len(issued) <= IssuedMax /\ IsInjective(issued)
          /\ ToSet(issued) \subseteq minted

\* What TypeOK says of the tickets, the counters and the history.
Books ==
    /\ auth \subseteq Token /\ minted \subseteq Token \ HandMade
    /\ lapsed \subseteq tickets /\ tickets \subseteq minted
    /\ over \subseteq DOMAIN grace /\ grace \in [DOMAIN grace -> Addr]
    /\ DOMAIN grace \subseteq minted
    /\ lookups \subseteq Addr
    /\ requests \in 0..MaxRequests /\ faults \in 0..MaxFaults
    /\ tickets \subseteq ticketed /\ ticketed \subseteq minted
    /\ holders \in [Token -> SUBSET Addr]
    /\ unpaired \subseteq minted /\ raced \subseteq Token /\ cut \subseteq Token

Requests == jobs \in [Job -> JobState] /\ \A j \in Job : JobFits(jobs[j], minted)

Registry == Books /\ Requests /\ Listed /\ SoundDoc(doc, minted) /\ Records

\* An idle request fits every set of tokens.
LEMMA IdleFits ==
    ASSUME NEW S
    PROVE  JobFits(Idle, S) /\ Idle \in JobState /\ Idle.step = "idle"
BY DEF Idle, JobState, JobFits, Step

\* A request that fits some tokens fits more.
LEMMA FitsMore ==
    ASSUME NEW S, NEW T, S \subseteq T, NEW s, JobFits(s, S)
    PROVE  JobFits(s, T)
BY DEF JobFits, SoundDoc

\* A request is put in a state, or ends.
LEMMA JobPut ==
    ASSUME Registry, NEW j \in Job, NEW s, jobs' = [jobs EXCEPT ![j] = s],
           JobFits(s, minted'), minted \subseteq minted'
    PROVE  /\ Requests' /\ jobs'[j] = s
           /\ \A i \in Job : i # j => jobs'[i] = jobs[i]
<1>1. s \in JobState
  BY DEF JobFits
<1>2. jobs' \in [Job -> JobState] /\ jobs'[j] = s /\ \A i \in Job : i # j => jobs'[i] = jobs[i]
  BY <1>1 DEF Registry, Requests
<1>3. \A i \in Job : JobFits(jobs'[i], minted')
  BY <1>2, FitsMore DEF Registry, Requests
<1>4. QED BY <1>2, <1>3 DEF Requests

\* Ending a request keeps what is known of the requests.
LEMMA JobEnds ==
    ASSUME Registry, NEW j \in Job, End(j), minted' = minted
    PROVE  /\ Requests' /\ jobs'[j] = Idle
           /\ \A i \in Job : i # j => jobs'[i] = jobs[i]
BY IdleFits, JobPut DEF End

\* Moving a request on keeps what is known of the requests.
LEMMA JobGoes ==
    ASSUME Registry, NEW j \in Job, NEW st \in Step, Goto(j, st), minted' = minted,
           st \in {"create"} \/ (st \in {"row", "read"} /\ jobs[j].t \in minted)
    PROVE  /\ Requests' /\ jobs'[j].step = st /\ jobs'[j].t = jobs[j].t
           /\ \A i \in Job : i # j => jobs'[i] = jobs[i]
<1> DEFINE s == [jobs[j] EXCEPT !.step = st]
<1>1. jobs[j] \in JobState /\ jobs \in [Job -> JobState]
  BY DEF Registry, Requests
<1>2. jobs' = [jobs EXCEPT ![j] = s]
  BY <1>1 DEF Goto
<1>3. s \in JobState /\ s.step = st /\ s.t = jobs[j].t
  BY <1>1 DEF JobState
<1>4. JobFits(s, minted')
  BY <1>3 DEF JobFits
<1> HIDE DEF s
<1>5. QED BY <1>2, <1>3, <1>4, JobPut

\* The rows stay.  A service goes on or is cut short; a chat post that is to upsert a
\* row has one to upsert, or an issued id.
LEMMA RowsStay ==
    ASSUME Registry, UNCHANGED <<doc, issued, unpaired, raced>>, cut \subseteq cut',
           \A t \in Token : Serving(t) => Serving(t)' \/ t \in cut',
           \A i \in Job : \A t \in Token : Upserting(i, t)' =>
               Upserting(i, t) \/ t \in DOMAIN doc.rows \/ t \in ToSet(issued)
    PROVE  Records'
<1> SUFFICES ASSUME NEW t \in Token PROVE Stands(t)' /\ Attended(t)'
  BY DEF Records
<1>1. Stands(t) /\ Attended(t)
  BY DEF Registry, Records
<1>2. Stands(t)'
  BY <1>1 DEF Stands
<1>3. Attended(t)'
  BY <1>1 DEF Attended
<1>4. QED BY <1>2, <1>3

\* One request moves, and is not serving, or goes on serving the same id.
LEMMA ServingLasts ==
    ASSUME NEW j \in Job, \A i \in Job : i # j => jobs'[i] = jobs[i],
           \/ jobs[j].step \notin {"revoke", "row"}
           \/ jobs'[j].step \in {"revoke", "row"} /\ jobs'[j].t = jobs[j].t
    PROVE  \A t \in Token : Serving(t) => Serving(t)'
BY DEF Serving

\* One request moves, and is not to upsert a row, or was already to upsert this one.
LEMMA UpsertingBefore ==
    ASSUME NEW j \in Job, \A i \in Job : i # j => jobs'[i] = jobs[i],
           \/ jobs'[j].step \notin {"read", "write"}
           \/ jobs[j].step \in {"read", "write"} /\ jobs'[j].t = jobs[j].t
    PROVE  \A i \in Job : \A t \in Token : Upserting(i, t)' => Upserting(i, t)
BY DEF Upserting

\* A request arrives; none of these changes a row.
LEMMA ArrivalKeeps ==
    ASSUME Registry, NEW j \in Job, MintBegin(j) \/ ClaimBegin(j) \/ HeartbeatBegin(j) \/ ChatBegin(j)
    PROVE  Registry'
<1>1. /\ UNCHANGED <<auth, minted, ticketVars, doc, issued, lookups, faults, historyVars>>
      /\ Request /\ At(j, "idle")
  BY DEF MintBegin, ClaimBegin, HeartbeatBegin, ChatBegin, Start
<1>2. PICK s : /\ jobs' = [jobs EXCEPT ![j] = s] /\ JobFits(s, minted)
               /\ s.step \in {"drop", "claim", "beat", "look"}
  <2>1. CASE MintBegin(j)
    <3> DEFINE s == [Idle EXCEPT !.step = "drop", !.ids = auth]
    <3>1. JobFits(s, minted) /\ s.step = "drop"
      BY DEF Idle, JobFits, JobState, Step, Registry, Books
    <3>2. QED BY <2>1, <3>1 DEF MintBegin, Start
  <2>2. CASE ClaimBegin(j)
    <3>1. PICK t \in minted, ip \in Addr :
            Start(j, [Idle EXCEPT !.step = "claim", !.t = t, !.ip = ip, !.ids = over])
      BY <2>2 DEF ClaimBegin
    <3> DEFINE s == [Idle EXCEPT !.step = "claim", !.t = t, !.ip = ip, !.ids = over]
    <3>2. over \subseteq Token /\ t \in Token
      BY DEF Registry, Books
    <3>3. JobFits(s, minted) /\ s.step = "claim"
      BY <3>2 DEF Idle, JobFits, JobState, Step
    <3>4. QED BY <3>1, <3>3 DEF Start
  <2>3. CASE HeartbeatBegin(j)
    <3>1. PICK t \in Token, ip \in Addr : Start(j, [Idle EXCEPT !.step = "beat", !.t = t, !.ip = ip])
      BY <2>3 DEF HeartbeatBegin
    <3> DEFINE s == [Idle EXCEPT !.step = "beat", !.t = t, !.ip = ip]
    <3>2. JobFits(s, minted) /\ s.step = "beat"
      BY DEF Idle, JobFits, JobState, Step
    <3>3. QED BY <3>1, <3>2 DEF Start
  <2>4. CASE ChatBegin(j)
    <3>1. PICK t \in Token : Start(j, [Idle EXCEPT !.step = "look", !.t = t])
      BY <2>4 DEF ChatBegin
    <3> DEFINE s == [Idle EXCEPT !.step = "look", !.t = t]
    <3>2. JobFits(s, minted) /\ s.step = "look"
      BY DEF Idle, JobFits, JobState, Step
    <3>3. QED BY <3>1, <3>2 DEF Start
  <2>5. QED BY <2>1, <2>2, <2>3, <2>4
<1>3. Requests' /\ jobs'[j] = s /\ \A i \in Job : i # j => jobs'[i] = jobs[i]
  BY <1>1, <1>2, JobPut
<1>4. Records'
  <2>1. \A t \in Token : Serving(t) => Serving(t)'
    BY <1>1, <1>3, ServingLasts DEF At
  <2>2. \A i \in Job : \A t \in Token : Upserting(i, t)' => Upserting(i, t)
    BY <1>2, <1>3, UpsertingBefore
  <2>3. QED BY <1>1, <2>1, <2>2, RowsStay DEF historyVars
<1>5. Books'
  BY <1>1, BoundAssumption DEF Registry, Books, Request, ticketVars, historyVars
<1>6. QED BY <1>1, <1>3, <1>4, <1>5 DEF Registry, Listed

\* A request goes on or ends, and leaves the rows, the issued ids and the tickets alone.
LEMMA QuietKeeps ==
    ASSUME Registry, NEW j \in Job,
           MintDrop(j) \/ MintRefused(j) \/ ServeRevoke(j) \/ ChatLook(j) \/ ChatRead(j)
    PROVE  Registry'
<1>1. /\ UNCHANGED <<minted, ticketVars, doc, issued, lookups, requests, historyVars>>
      /\ auth' \subseteq auth /\ (Fault \/ NoFault)
  BY DEF MintDrop, MintRefused, ServeRevoke, ChatLook, ChatRead, NoFault
<1>2. Books'
  BY <1>1, BoundAssumption DEF Registry, Books, Fault, NoFault, ticketVars, historyVars
<1>3. jobs \in [Job -> JobState] /\ jobs[j] \in JobState /\ JobFits(jobs[j], minted)
  BY DEF Registry, Requests
<1>4. ASSUME Requests', \A i \in Job : i # j => jobs'[i] = jobs[i],
             \A t \in Token : Serving(t) => Serving(t)',
             \A t \in Token : Upserting(j, t)' =>
               Upserting(j, t) \/ t \in DOMAIN doc.rows \/ t \in ToSet(issued)
      PROVE  Registry'
  <2>1. \A i \in Job : \A t \in Token : Upserting(i, t)' =>
               Upserting(i, t) \/ t \in DOMAIN doc.rows \/ t \in ToSet(issued)
    BY <1>4 DEF Upserting
  <2>2. Records'
    BY <1>1, <1>4, <2>1, RowsStay DEF historyVars
  <2>3. QED BY <1>1, <1>2, <1>4, <2>2 DEF Registry, Listed
<1>5. ASSUME Requests', \A i \in Job : i # j => jobs'[i] = jobs[i],
             jobs[j].step \notin {"revoke", "row"},
             \A t \in Token : Upserting(j, t)' =>
               Upserting(j, t) \/ t \in DOMAIN doc.rows \/ t \in ToSet(issued)
      PROVE  Registry'
  BY <1>4, <1>5, ServingLasts
<1>6. CASE MintDrop(j)
  <2>1. CASE jobs[j].ids = {}
    <3>1. Goto(j, "create")
      BY <1>6, <2>1 DEF MintDrop
    <3>2. /\ Requests' /\ jobs'[j].step = "create"
          /\ \A i \in Job : i # j => jobs'[i] = jobs[i]
      BY <1>1, <3>1, JobGoes DEF Step
    <3>3. QED BY <1>5, <1>6, <3>2 DEF MintDrop, At, Upserting
  <2>2. CASE jobs[j].ids # {}
    <3>1. PICK t : jobs' = [jobs EXCEPT ![j].ids = @ \ {t}]
      BY <1>6, <2>2 DEF MintDrop
    <3> DEFINE s == [jobs[j] EXCEPT !.ids = @ \ {t}]
    <3>2. jobs' = [jobs EXCEPT ![j] = s]
      BY <1>3, <3>1
    <3>3. JobFits(s, minted') /\ s.step = "drop"
      BY <1>3, <1>6 DEF JobFits, JobState, MintDrop, At
    <3> HIDE DEF s
    <3>4. /\ Requests' /\ jobs'[j].step = "drop"
          /\ \A i \in Job : i # j => jobs'[i] = jobs[i]
      BY <1>1, <3>2, <3>3, JobPut
    <3>5. QED BY <1>5, <1>6, <3>4 DEF MintDrop, At, Upserting
  <2>3. QED BY <2>1, <2>2
<1>7. CASE MintRefused(j)
  <2>1. /\ Requests' /\ jobs'[j] = Idle
        /\ \A i \in Job : i # j => jobs'[i] = jobs[i]
    BY <1>1, <1>7, JobEnds DEF MintRefused
  <2>2. QED BY <1>5, <1>7, <2>1, IdleFits DEF MintRefused, At, Upserting
<1>8. CASE ServeRevoke(j)
  <2>1. jobs[j].t \in minted /\ Goto(j, "row") /\ jobs[j].step = "revoke"
    BY <1>3, <1>8 DEF JobFits, ServeRevoke, At
  <2>2. /\ Requests' /\ jobs'[j].step = "row" /\ jobs'[j].t = jobs[j].t
        /\ \A i \in Job : i # j => jobs'[i] = jobs[i]
    BY <1>1, <2>1, JobGoes DEF Step
  <2>3. \A t \in Token : Serving(t) => Serving(t)'
    BY <2>2, ServingLasts
  <2>4. QED BY <1>4, <2>2, <2>3 DEF Upserting
<1>9. CASE ChatLook(j)
  <2>1. jobs[j].step = "look" /\ jobs[j].t \in Token
    BY <1>3, <1>9 DEF JobFits, ChatLook, At
  <2>2. CASE End(j)
    <3>1. /\ Requests' /\ jobs'[j] = Idle
          /\ \A i \in Job : i # j => jobs'[i] = jobs[i]
      BY <1>1, <2>2, JobEnds
    <3>2. QED BY <1>5, <2>1, <3>1, IdleFits DEF Upserting
  <2>3. CASE ~End(j)
    <3>1. Goto(j, "read") /\ (jobs[j].t \in DOMAIN doc.rows \/ jobs[j].t \in ToSet(issued))
      BY <1>9, <2>3 DEF ChatLook, RowOf, MayCreate
    <3>2. jobs[j].t \in minted
      BY <3>1 DEF Registry, SoundDoc, Listed
    <3>3. /\ Requests' /\ jobs'[j].step = "read" /\ jobs'[j].t = jobs[j].t
          /\ \A i \in Job : i # j => jobs'[i] = jobs[i]
      BY <1>1, <3>1, <3>2, JobGoes DEF Step
    <3>4. QED BY <1>5, <2>1, <3>1, <3>3 DEF Upserting
  <2>4. QED BY <2>2, <2>3
<1>10. CASE ChatRead(j)
  <2> DEFINE s == [jobs[j] EXCEPT !.step = "write", !.copy = doc]
  <2>1. jobs' = [jobs EXCEPT ![j] = s] /\ jobs[j].step = "read"
    BY <1>3, <1>10 DEF ChatRead, At
  <2>2. JobFits(s, minted') /\ s.step = "write" /\ s.t = jobs[j].t
    BY <1>1, <1>3, <2>1 DEF JobFits, JobState, Step, Registry, SoundDoc
  <2> HIDE DEF s
  <2>3. Requests' /\ jobs'[j] = s /\ \A i \in Job : i # j => jobs'[i] = jobs[i]
    BY <1>1, <2>1, <2>2, JobPut
  <2>4. QED BY <1>5, <2>1, <2>2, <2>3 DEF Upserting
<1>11. QED BY <1>6, <1>7, <1>8, <1>9, <1>10

\* The document changes, and perhaps the issued ids; every request but one stays as it
\* was, and that one is over or starts a service.
LEMMA MintCreateKeeps ==
    ASSUME Registry, NEW j \in Job, MintCreate(j)
    PROVE  Registry'
<1>1. PICK t \in Token \ (minted \cup HandMade) :
        /\ auth' = {t} /\ minted' = minted \cup {t}
        /\ \/ NoFault /\ issued' = Noted(t) /\ doc' = Upserted(doc, t)
           \/ Fault /\ issued' = Noted(t) /\ UNCHANGED doc
           \/ Fault /\ UNCHANGED <<issued, doc>>
        /\ jobs' = [jobs EXCEPT ![j].step = "ticket", ![j].t = t]
  BY DEF MintCreate
<1>2. UNCHANGED <<ticketVars, lookups, requests, historyVars>> /\ jobs[j].step = "create"
  BY DEF MintCreate, At
<1>3. t \in Token /\ t \notin minted /\ minted \subseteq Token /\ minted' \in SUBSET Token
      /\ unpaired \subseteq minted
  BY <1>1 DEF Registry, Books
<1>4. Books'
  BY <1>1, <1>2, BoundAssumption DEF Registry, Books, Fault, NoFault, ticketVars, historyVars
<1>5. /\ Requests' /\ jobs'[j].step = "ticket"
      /\ \A i \in Job : i # j => jobs'[i] = jobs[i]
  <2> DEFINE s == [jobs[j] EXCEPT !.step = "ticket", !.t = t]
  <2>1. jobs \in [Job -> JobState] /\ jobs[j] \in JobState
    BY DEF Registry, Requests
  <2>2. jobs' = [jobs EXCEPT ![j] = s]
    BY <1>1, <2>1
  <2>3. JobFits(s, minted') /\ s.step = "ticket"
    BY <1>1, <2>1 DEF JobFits, JobState, Step
  <2> HIDE DEF s
  <2>4. QED BY <1>1, <2>2, <2>3, JobPut
<1>6. Listed' /\ ToSet(issued') \subseteq ToSet(issued) \cup {t}
  <2>1. t \notin ToSet(issued)
    BY <1>3 DEF Registry, Listed
  <2>2. CASE issued' = Noted(t)
    BY <1>1, <1>3, <2>1, <2>2, NotedList DEF Registry, Listed
  <2>3. CASE UNCHANGED issued
    BY <1>1, <2>3 DEF Registry, Listed
  <2>4. QED BY <1>1, <2>2, <2>3
<1>7. SoundDoc(doc, minted')
  BY <1>1 DEF Registry, SoundDoc
<1>8. /\ SoundDoc(doc', minted') /\ SameOthers(doc, doc', t)
      /\ t \in DOMAIN doc'.rows => doc'.rows[t] = NewRow
  <2>1. t \notin DOMAIN doc.rows
    BY <1>3 DEF Registry, SoundDoc
  <2>2. CASE doc' = Upserted(doc, t)
    BY <1>1, <1>3, <1>7, <2>1, <2>2, UpsertedSound
  <2>3. CASE UNCHANGED doc
    BY <1>7, <2>1, <2>3 DEF SameOthers
  <2>4. QED BY <1>1, <2>2, <2>3
<1>9. /\ \A i \in Job : \A k \in Token : Upserting(i, k)' => Upserting(i, k)
      /\ \A k \in Token : Serving(k) => Serving(k)'
  BY <1>2, <1>5, UpsertingBefore, ServingLasts
<1>10. ASSUME NEW k \in Token PROVE Stands(k)' /\ Attended(k)'
  <2>1. Stands(k) /\ Attended(k) /\ UNCHANGED <<unpaired, raced, cut>>
    BY <1>2 DEF Registry, Records, historyVars
  <2>2. CASE k = t
    BY <1>3, <1>8, <2>1, <2>2, NewRowIsRow DEF Stands, Attended
  <2>3. CASE k # t
    <3>1. /\ k \in DOMAIN doc'.rows <=> k \in DOMAIN doc.rows
          /\ k \in DOMAIN doc.rows => doc'.rows[k] = doc.rows[k]
      BY <1>8, <2>3 DEF SameOthers
    <3>2. k \in ToSet(issued') => k \in ToSet(issued)
      BY <1>6, <2>3
    <3>3. QED BY <1>9, <2>1, <3>1, <3>2 DEF Stands, Attended
  <2>4. QED BY <2>2, <2>3
<1>11. QED BY <1>4, <1>5, <1>6, <1>8, <1>10 DEF Registry, Records

\* A heartbeat keeps the registry.
LEMMA HeartbeatKeeps ==
    ASSUME Registry, NEW j \in Job, Heartbeat(j)
    PROVE  Registry'
<1> DEFINE t == jobs[j].t
           ip == jobs[j].ip
           d == Persisted(doc, ip)
<1>1. /\ UNCHANGED <<auth, minted, ticketVars, issued, requests, faults, historyVars>>
      /\ lookups' = lookups \cup {ip} /\ End(j) /\ jobs[j].step = "beat"
      /\ doc' = IF t \in DOMAIN d.rows \/ MayCreate(t) THEN Upserted(d, t) ELSE d
  BY DEF Heartbeat, At
<1>2. t \in Token /\ ip \in Addr
  BY <1>1 DEF Registry, Requests, JobFits
<1> HIDE DEF t, ip
<1>3. SoundDoc(doc, minted) /\ minted \in SUBSET Token
  BY DEF Registry, Books
<1>4. SoundDoc(d, minted) /\ d.rows = doc.rows
  BY <1>2, <1>3, SessionSound
<1> HIDE DEF d
<1>5. Requests' /\ jobs'[j] = Idle /\ \A i \in Job : i # j => jobs'[i] = jobs[i]
  BY <1>1, JobEnds
<1>6. /\ SoundDoc(doc', minted) /\ SameOthers(doc, doc', t)
      /\ t \in DOMAIN doc.rows => t \in DOMAIN doc'.rows /\ doc'.rows[t] = doc.rows[t]
      /\ t \notin DOMAIN doc.rows /\ t \in DOMAIN doc'.rows =>
            t \in ToSet(issued) /\ doc'.rows[t] = NewRow
  <2>1. CASE t \in DOMAIN d.rows \/ MayCreate(t)
    <3>1. t \in minted
      BY <1>3, <1>4, <2>1 DEF MayCreate, Registry, Listed, SoundDoc
    <3>2. /\ doc' = Upserted(d, t) /\ SoundDoc(doc', minted) /\ SameOthers(d, doc', t)
          /\ t \in DOMAIN doc'.rows
          /\ doc'.rows[t] = IF t \in DOMAIN d.rows THEN d.rows[t] ELSE NewRow
      BY <1>1, <1>3, <1>4, <2>1, <3>1, UpsertedSound
    <3>3. QED BY <1>4, <2>1, <3>2 DEF SameOthers, MayCreate
  <2>2. CASE ~(t \in DOMAIN d.rows \/ MayCreate(t))
    BY <1>1, <1>4, <2>2 DEF SameOthers
  <2>3. QED BY <2>1, <2>2
<1>7. /\ \A i \in Job : \A k \in Token : Upserting(i, k)' => Upserting(i, k)
      /\ \A k \in Token : Serving(k) => Serving(k)'
  BY <1>1, <1>5, IdleFits, UpsertingBefore, ServingLasts
<1>8. ASSUME NEW k \in Token PROVE Stands(k)' /\ Attended(k)'
  <2>1. Stands(k) /\ Attended(k) /\ UNCHANGED <<unpaired, raced, cut, issued>>
    BY <1>1 DEF Registry, Records, historyVars
  <2>2. \/ k \in DOMAIN doc.rows /\ k \in DOMAIN doc'.rows /\ doc'.rows[k] = doc.rows[k]
        \/ k \notin DOMAIN doc.rows /\ k \notin DOMAIN doc'.rows
        \/ k \notin DOMAIN doc.rows /\ k \in DOMAIN doc'.rows /\ k \in ToSet(issued) /\ doc'.rows[k] = NewRow
    BY <1>6 DEF SameOthers
  <2>3. QED BY <1>7, <2>1, <2>2, NewRowIsRow DEF Stands, Attended
<1>9. Books'
  BY <1>1, <1>2 DEF Registry, Books, ticketVars, historyVars
<1>10. QED BY <1>1, <1>5, <1>6, <1>8, <1>9 DEF Registry, Records, Listed

\* The loop and the panel change the rows of phones; no request moves.
LEMMA PanelKeeps ==
    ASSUME Registry,
           \/ \E ip \in Addr : LookupEnds(ip)
           \/ \E t \in Token : Rename(t) \/ Unpair(t)
    PROVE  Registry'
<1>1. SoundDoc(doc, minted) /\ minted \in SUBSET Token
  BY DEF Registry, Books
<1>2. ASSUME NEW t \in Token, UNCHANGED <<auth, minted, ticketVars, issued, jobs, faults, raced, cut>>,
             lookups' \subseteq lookups, Request \/ requests' = requests,
             unpaired \subseteq unpaired', unpaired' \subseteq unpaired \cup {t}, unpaired' \subseteq minted,
             UNCHANGED <<ticketed, holders>>,
             SoundDoc(doc', minted), SameOthers(doc, doc', t),
             DOMAIN doc'.rows = DOMAIN doc.rows,
             t \in DOMAIN doc.rows =>
                /\ doc'.rows[t].active => doc.rows[t].active /\ unpaired' = unpaired
                /\ doc'.rows[t].served => doc.rows[t].served,
             t \in DOMAIN doc.rows \/ unpaired' = unpaired
      PROVE  Registry'
  <2>1. Books'
    BY <1>2, BoundAssumption DEF Registry, Books, Request, ticketVars
  <2>2. ASSUME NEW k \in Token PROVE Stands(k)' /\ Attended(k)'
    <3>1. Stands(k) /\ Attended(k) /\ (Serving(k)' <=> Serving(k))
          /\ (\A i \in Job : Upserting(i, k)' <=> Upserting(i, k))
      BY <1>2 DEF Registry, Records, Serving, Upserting
    <3>2. CASE k = t
      BY <1>2, <3>1, <3>2 DEF Stands, Attended
    <3>3. CASE k # t
      BY <1>2, <3>1, <3>3 DEF Stands, Attended, SameOthers
    <3>4. QED BY <3>2, <3>3
  <2>3. Requests' /\ Listed'
    BY <1>2 DEF Registry, Requests, Listed
  <2>4. QED BY <1>2, <2>1, <2>2, <2>3 DEF Registry, Records
<1>3. ASSUME NEW ip \in Addr, LookupEnds(ip) PROVE Registry'
  <2>1. SoundDoc(doc', minted) /\ doc'.rows = doc.rows
    BY <1>1, <1>3, SessionSound DEF LookupEnds
  <2>2. /\ UNCHANGED <<auth, minted, ticketVars, issued, jobs, requests, faults, historyVars>>
        /\ lookups' \subseteq lookups
    BY <1>3 DEF LookupEnds
  <2>3. Books' /\ Requests' /\ Listed'
    BY <2>2 DEF Registry, Books, Requests, Listed, ticketVars, historyVars
  <2>4. ASSUME NEW k \in Token PROVE Stands(k)' /\ Attended(k)'
    <3>1. Stands(k) /\ Attended(k) /\ (Serving(k)' <=> Serving(k))
          /\ (\A i \in Job : Upserting(i, k)' <=> Upserting(i, k))
      BY <2>2 DEF Registry, Records, Serving, Upserting
    <3>2. QED BY <2>1, <2>2, <3>1 DEF Stands, Attended, historyVars
  <2>5. QED BY <2>1, <2>2, <2>3, <2>4 DEF Registry, Records
<1>4. ASSUME NEW t \in Token, Rename(t) PROVE Registry'
  <2>1. /\ t \in DOMAIN doc.rows /\ doc' = Renamed(doc, t) /\ Request
        /\ UNCHANGED <<auth, minted, ticketVars, issued, lookups, jobs, faults, historyVars>>
    BY <1>4 DEF Rename
  <2>2. /\ SoundDoc(doc', minted) /\ SameOthers(doc, doc', t) /\ DOMAIN doc'.rows = DOMAIN doc.rows
        /\ doc'.rows[t].active = doc.rows[t].active /\ doc'.rows[t].served = doc.rows[t].served
    BY <1>1, <2>1, PanelMarks
  <2>3. unpaired \subseteq minted
    BY DEF Registry, Books
  <2>4. QED BY <1>2, <2>1, <2>2, <2>3 DEF historyVars
<1>5. ASSUME NEW t \in Token, Unpair(t) PROVE Registry'
  <2>1. /\ t \in DOMAIN doc.rows /\ doc' = Unpaired(doc, t) /\ Request
        /\ unpaired' = unpaired \cup {t}
        /\ UNCHANGED <<auth, minted, ticketVars, issued, lookups, jobs, faults, ticketed, holders,
                       raced, cut>>
    BY <1>5 DEF Unpair
  <2>2. /\ SoundDoc(doc', minted) /\ SameOthers(doc, doc', t) /\ DOMAIN doc'.rows = DOMAIN doc.rows
        /\ doc'.rows[t].active = FALSE /\ doc'.rows[t].served = FALSE
    BY <1>1, <2>1, PanelMarks
  <2>3. unpaired' \subseteq minted
    BY <2>1 DEF Registry, Books, SoundDoc
  <2>4. QED BY <1>2, <2>1, <2>2, <2>3
<1>6. QED BY <1>3, <1>4, <1>5

\* The unpaired row of a phone that asks is marked, and its service starts.
LEMMA ServeBeginKeeps ==
    ASSUME Registry, NEW j \in Job, ServeBegin(j)
    PROVE  Registry'
<1>1. PICK t \in DOMAIN doc.rows :
        /\ ~doc.rows[t].active /\ doc' = Served(doc, t)
        /\ Start(j, [Idle EXCEPT !.step = "revoke", !.t = t])
  BY DEF ServeBegin
<1> DEFINE s == [Idle EXCEPT !.step = "revoke", !.t = t]
<1>2. /\ UNCHANGED <<auth, minted, ticketVars, issued, lookups, faults, historyVars>>
      /\ Request /\ jobs[j].step = "idle" /\ jobs' = [jobs EXCEPT ![j] = s]
  BY <1>1 DEF ServeBegin, Start, At
<1>3. SoundDoc(doc, minted) /\ minted \in SUBSET Token /\ t \in minted /\ t \in Token
  BY <1>1 DEF Registry, Books, SoundDoc
<1>4. JobFits(s, minted') /\ s.step = "revoke" /\ s.t = t
  BY <1>2, <1>3 DEF Idle, JobFits, JobState, Step
<1> HIDE DEF s
<1>5. Requests' /\ jobs'[j] = s /\ \A i \in Job : i # j => jobs'[i] = jobs[i]
  BY <1>2, <1>4, JobPut
<1>6. /\ SoundDoc(doc', minted) /\ SameOthers(doc, doc', t) /\ DOMAIN doc'.rows = DOMAIN doc.rows
      /\ doc'.rows[t].active = doc.rows[t].active
  BY <1>1, <1>3, PanelMarks
<1>7. Books'
  BY <1>2, BoundAssumption DEF Registry, Books, Request, ticketVars, historyVars
<1>8. /\ \A i \in Job : \A k \in Token : Upserting(i, k)' => Upserting(i, k)
      /\ \A k \in Token : Serving(k) => Serving(k)'
      /\ Serving(t)'
  <2>1. Serving(t)'
    BY <1>4, <1>5 DEF Serving
  <2>2. QED BY <1>2, <1>4, <1>5, <2>1, UpsertingBefore, ServingLasts
<1>9. ASSUME NEW k \in Token PROVE Stands(k)' /\ Attended(k)'
  <2>1. Stands(k) /\ Attended(k) /\ UNCHANGED <<unpaired, raced, cut, issued>>
    BY <1>2 DEF Registry, Records, historyVars
  <2>2. CASE k = t
    BY <1>6, <1>8, <2>1, <2>2 DEF Stands, Attended
  <2>3. CASE k # t
    BY <1>6, <1>8, <2>1, <2>3 DEF Stands, Attended, SameOthers
  <2>4. QED BY <2>2, <2>3
<1>10. QED BY <1>2, <1>5, <1>6, <1>7, <1>9 DEF Registry, Records, Listed

\* The end of a service: the row and the issued id go together.
LEMMA ServeDropKeeps ==
    ASSUME Registry, NEW j \in Job, ServeDrop(j)
    PROVE  Registry'
<1> DEFINE t == jobs[j].t
<1>1. /\ UNCHANGED <<auth, minted, ticketVars, lookups, requests, faults, ticketed, holders, unpaired, cut>>
      /\ jobs[j].step = "row" /\ End(j)
      /\ doc' = Dropped(doc, t) /\ issued' = RemoveFirst(issued, t)
      /\ raced' = raced \cup {u \in {t} : \E i \in Job : Upserting(i, u)}
  BY DEF ServeDrop, At, Forgotten
<1>2. t \in minted /\ t \in Token /\ SoundDoc(doc, minted) /\ minted \in SUBSET Token
  BY <1>1 DEF Registry, Requests, JobFits, Books
<1> HIDE DEF t
<1>3. Requests' /\ jobs'[j] = Idle /\ \A i \in Job : i # j => jobs'[i] = jobs[i]
  BY <1>1, JobEnds
<1>4. SoundDoc(doc', minted) /\ SameOthers(doc, doc', t) /\ t \notin DOMAIN doc'.rows
  BY <1>1, <1>2, DroppedSound
<1>5. Listed' /\ ToSet(issued') = ToSet(issued) \ {t}
  <2>1. /\ issued' \in Seq(Token) /\ Len(issued') <= Len(issued) /\ IsInjective(issued')
        /\ ToSet(issued') = ToSet(issued) \ {t}
    BY <1>1, WithoutOne DEF Registry, Listed
  <2>2. Len(issued') \in Nat /\ Len(issued) \in Nat
    BY <2>1 DEF Registry, Listed
  <2>3. QED BY <1>1, <2>1, <2>2, BoundAssumption DEF Registry, Listed
<1>6. Books'
  BY <1>1, <1>2 DEF Registry, Books, ticketVars
<1>7. \A i \in Job : \A k \in Token : Upserting(i, k)' => Upserting(i, k)
  BY <1>3, IdleFits, UpsertingBefore
<1>8. \A k \in Token : k # t /\ Serving(k) => Serving(k)'
  BY <1>3 DEF Serving, t
<1>9. ASSUME NEW k \in Token PROVE Stands(k)' /\ Attended(k)'
  <2>1. Stands(k) /\ Attended(k) /\ UNCHANGED <<unpaired, cut>>
    BY <1>1 DEF Registry, Records
  <2>2. CASE k = t
    <3>1. k \notin DOMAIN doc'.rows /\ k \notin ToSet(issued')
      BY <1>4, <1>5, <2>2
    <3>2. k \in raced' \/ \A i \in Job : ~Upserting(i, k)'
      BY <1>1, <1>7, <2>2
    <3>3. QED BY <3>1, <3>2 DEF Stands, Attended
  <2>3. CASE k # t
    <3>1. /\ k \in DOMAIN doc'.rows <=> k \in DOMAIN doc.rows
          /\ k \in DOMAIN doc.rows => doc'.rows[k] = doc.rows[k]
          /\ k \in raced' <=> k \in raced
          /\ k \in ToSet(issued') <=> k \in ToSet(issued)
      BY <1>1, <1>4, <1>5, <2>3 DEF SameOthers
    <3>2. QED BY <1>7, <1>8, <2>1, <2>3, <3>1 DEF Stands, Attended
  <2>4. QED BY <2>2, <2>3
<1>10. QED BY <1>1, <1>3, <1>4, <1>5, <1>6, <1>9 DEF Registry, Records

\* A chat post writes the whole document as it read it: whatever row it moves is raced.
LEMMA ChatWriteKeeps ==
    ASSUME Registry, NEW j \in Job, ChatWrite(j)
    PROVE  Registry'
<1> DEFINE t == jobs[j].t
           copy == jobs[j].copy
<1>1. /\ UNCHANGED <<auth, minted, ticketVars, issued, lookups, requests, faults, ticketed, holders,
                     unpaired, cut>>
      /\ jobs[j].step = "write" /\ End(j) /\ doc' = Upserted(copy, t)
      /\ raced' = raced \cup {k \in Token : RowOf(copy, k) # RowOf(doc, k)}
  BY DEF ChatWrite, At
<1>2. t \in minted /\ t \in Token /\ SoundDoc(copy, minted) /\ minted \in SUBSET Token
  BY <1>1 DEF Registry, Requests, JobFits, Books
<1>3. Upserting(j, t)
  BY <1>1 DEF Upserting
<1> HIDE DEF t, copy
<1>4. Requests' /\ jobs'[j] = Idle /\ \A i \in Job : i # j => jobs'[i] = jobs[i]
  BY <1>1, JobEnds
<1>5. /\ SoundDoc(doc', minted) /\ SameOthers(copy, doc', t) /\ t \in DOMAIN doc'.rows
      /\ doc'.rows[t] = IF t \in DOMAIN copy.rows THEN copy.rows[t] ELSE NewRow
  BY <1>1, <1>2, UpsertedSound
<1>6. ASSUME NEW k \in Token, k \notin raced'
      PROVE  /\ k \in DOMAIN copy.rows <=> k \in DOMAIN doc.rows
             /\ k \in DOMAIN doc.rows => copy.rows[k] = doc.rows[k]
  <2>1. RowOf(copy, k) = RowOf(doc, k)
    BY <1>1, <1>6
  <2>2. k \in DOMAIN copy.rows => RowOf(copy, k) = {copy.rows[k]}
    BY DEF RowOf
  <2>3. k \in DOMAIN doc.rows => RowOf(doc, k) = {doc.rows[k]}
    BY DEF RowOf
  <2>4. k \notin DOMAIN copy.rows => RowOf(copy, k) = {}
    BY DEF RowOf
  <2>5. k \notin DOMAIN doc.rows => RowOf(doc, k) = {}
    BY DEF RowOf
  <2>6. QED BY <2>1, <2>2, <2>3, <2>4, <2>5
<1>7. /\ \A i \in Job : \A k \in Token : Upserting(i, k)' => Upserting(i, k)
      /\ \A k \in Token : Serving(k) => Serving(k)'
  BY <1>1, <1>4, IdleFits, UpsertingBefore, ServingLasts
<1>8. ASSUME NEW k \in Token PROVE Stands(k)' /\ Attended(k)'
  <2>1. Stands(k) /\ Attended(k) /\ UNCHANGED <<unpaired, cut, issued>> /\ raced \subseteq raced'
    BY <1>1 DEF Registry, Records
  <2>2. CASE k \in raced'
    BY <2>2 DEF Stands, Attended
  <2>3. CASE k \notin raced' /\ k # t
    <3>1. /\ k \in DOMAIN doc'.rows <=> k \in DOMAIN doc.rows
          /\ k \in DOMAIN doc.rows => doc'.rows[k] = doc.rows[k]
      BY <1>5, <1>6, <2>3 DEF SameOthers
    <3>2. QED BY <1>7, <2>1, <2>3, <3>1 DEF Stands, Attended
  <2>4. CASE k \notin raced' /\ k = t
    <3>1. CASE k \in DOMAIN doc.rows
      <4>1. k \in DOMAIN doc'.rows /\ doc'.rows[k] = doc.rows[k]
        BY <1>5, <1>6, <2>4, <3>1
      <4>2. QED BY <1>7, <2>1, <2>4, <3>1, <4>1 DEF Stands, Attended
    <3>2. CASE k \notin DOMAIN doc.rows
      <4>1. k \in DOMAIN doc'.rows /\ doc'.rows[k] = NewRow
        BY <1>5, <1>6, <2>4, <3>2
      <4>2. k \notin unpaired
        BY <1>3, <2>1, <2>4, <3>2 DEF Stands
      <4>3. QED BY <2>1, <4>1, <4>2, NewRowIsRow DEF Stands, Attended
    <3>3. QED BY <3>1, <3>2
  <2>5. QED BY <2>2, <2>3, <2>4
<1>9. Books'
  BY <1>1 DEF Registry, Books, ticketVars
<1>10. QED BY <1>1, <1>4, <1>5, <1>8, <1>9 DEF Registry, Records, Listed

\* The tickets: the rows, the issued ids and what the panel did stay.
LEMMA TicketsKeep ==
    ASSUME Registry,
           \/ \E j \in Job : MintTicket(j) \/ ClaimRun(j) \/ ClaimFails(j)
           \/ \E t \in Token : TicketLapses(t) \/ GraceEnds(t)
    PROVE  Registry'
<1>1. /\ UNCHANGED <<auth, minted, doc, issued, lookups, requests, unpaired, raced, cut>>
      /\ Fault \/ NoFault
  BY DEF MintTicket, ClaimRun, ClaimFails, TicketLapses, GraceEnds, NoFault, historyVars
<1>2. ASSUME NEW j \in Job, End(j), jobs[j].step \notin {"revoke", "row"}
      PROVE  Requests' /\ Records'
  <2>1. Requests' /\ jobs'[j] = Idle /\ \A i \in Job : i # j => jobs'[i] = jobs[i]
    BY <1>1, <1>2, JobEnds
  <2>2. /\ \A i \in Job : \A k \in Token : Upserting(i, k)' => Upserting(i, k)
        /\ \A k \in Token : Serving(k) => Serving(k)'
    BY <1>2, <2>1, IdleFits, UpsertingBefore, ServingLasts
  <2>3. QED BY <1>1, <2>1, <2>2, RowsStay
<1>3. ASSUME UNCHANGED jobs PROVE Requests' /\ Records'
  <2>1. \A i \in Job : \A k \in Token : Upserting(i, k)' => Upserting(i, k)
    BY <1>3 DEF Upserting
  <2>2. \A k \in Token : Serving(k) => Serving(k)'
    BY <1>3 DEF Serving
  <2>3. Records'
    BY <1>1, <2>1, <2>2, RowsStay
  <2>4. QED BY <1>1, <1>3, <2>3 DEF Registry, Requests
<1>4. ASSUME lapsed' \subseteq tickets', tickets' \subseteq ticketed', ticketed' \subseteq minted,
             over' \subseteq DOMAIN grace', grace' \in [DOMAIN grace' -> Addr],
             DOMAIN grace' \subseteq minted, holders' \in [Token -> SUBSET Addr]
      PROVE  Books'
  BY <1>1, <1>4, BoundAssumption DEF Registry, Books, Fault, NoFault
<1>5. ASSUME NEW j \in Job, MintTicket(j) PROVE Requests' /\ Records' /\ Books'
  <2>1. jobs[j].t \in minted /\ jobs[j].step = "ticket" /\ End(j) /\ UNCHANGED <<grace, over, holders>>
    BY <1>5 DEF MintTicket, At, Registry, Requests, JobFits
  <2>2. lapsed' \subseteq tickets' /\ tickets' \subseteq ticketed' /\ ticketed' \subseteq minted
    BY <1>5, <2>1 DEF MintTicket, Registry, Books
  <2>3. Books'
    BY <1>4, <2>1, <2>2 DEF Registry, Books
  <2>4. QED BY <1>2, <2>1, <2>3
<1>6. ASSUME NEW j \in Job, ClaimRun(j) PROVE Requests' /\ Records' /\ Books'
  <2> DEFINE t == jobs[j].t
             ip == jobs[j].ip
             kept == DOMAIN grace \ jobs[j].ids
             D == kept \cup (IF Given(t, ip, kept) THEN {t} ELSE {})
  <2>1. t \in minted /\ ip \in Addr /\ jobs[j].step = "claim" /\ End(j) /\ UNCHANGED ticketed
    BY <1>6 DEF ClaimRun, At, Registry, Requests, JobFits
  <2>2. /\ tickets' = IF t \in kept THEN tickets ELSE Consumed(t)
        /\ lapsed' = lapsed \cap tickets'
        /\ grace' = [k \in D |-> IF k \in kept THEN grace[k] ELSE ip]
        /\ over' = over \cap kept
        /\ holders' = IF Given(t, ip, kept) THEN [holders EXCEPT ![t] = @ \cup {ip}]
                      ELSE holders
    BY <1>6 DEF ClaimRun
  <2> HIDE DEF t, ip
  <2>3. holders' \in [Token -> SUBSET Addr]
    <3>1. holders \in [Token -> SUBSET Addr] /\ t \in Token
      BY <2>1 DEF Registry, Books
    <3>2. QED BY <2>1, <2>2, <3>1
  <2>4. kept \subseteq DOMAIN grace /\ D \subseteq kept \cup {t}
    OBVIOUS
  <2>5. grace' \in [DOMAIN grace' -> Addr] /\ DOMAIN grace' = D
    <3>1. \A k \in kept : grace[k] \in Addr
      BY <2>4 DEF Registry, Books
    <3> HIDE DEF kept, D
    <3>2. QED BY <2>1, <2>2, <3>1
  <2>6. over' \subseteq DOMAIN grace' /\ DOMAIN grace' \subseteq minted
    BY <2>1, <2>2, <2>4, <2>5 DEF Registry, Books
  <2>7. lapsed' \subseteq tickets' /\ tickets' \subseteq ticketed' /\ ticketed' \subseteq minted
    BY <2>1, <2>2 DEF Consumed, Registry, Books
  <2>8. Books'
    BY <1>4, <2>3, <2>5, <2>6, <2>7
  <2>9. QED BY <1>2, <2>1, <2>8
<1>7. ASSUME NEW j \in Job, ClaimFails(j) PROVE Requests' /\ Records' /\ Books'
  <2>1. /\ jobs[j].step = "claim" /\ End(j) /\ UNCHANGED <<tickets, lapsed, ticketed, holders>>
        /\ grace' = [k \in DOMAIN grace \ jobs[j].ids |-> grace[k]]
        /\ over' = over \cap (DOMAIN grace \ jobs[j].ids)
    BY <1>7 DEF ClaimFails, At, historyVars
  <2>2. over' \subseteq DOMAIN grace' /\ grace' \in [DOMAIN grace' -> Addr] /\ DOMAIN grace' \subseteq minted
    BY <2>1 DEF Registry, Books
  <2>3. Books'
    BY <1>4, <2>1, <2>2 DEF Registry, Books
  <2>4. QED BY <1>2, <2>1, <2>3
<1>8. ASSUME NEW t \in Token, TicketLapses(t) \/ GraceEnds(t) PROVE Requests' /\ Records' /\ Books'
  <2>1. UNCHANGED <<jobs, tickets, grace, ticketed, holders>>
        /\ lapsed' \subseteq tickets /\ over' \subseteq DOMAIN grace
    BY <1>8 DEF TicketLapses, GraceEnds, historyVars, Registry, Books
  <2>2. Books'
    BY <1>4, <2>1 DEF Registry, Books
  <2>3. QED BY <1>3, <2>1, <2>2
<1>9. Requests' /\ Records' /\ Books'
  BY <1>5, <1>6, <1>7, <1>8
<1>10. QED BY <1>1, <1>9 DEF Registry, Listed

\* A file that no longer parses, and a restart.
LEMMA FaultsKeep ==
    ASSUME Registry, Damage \/ Restart
    PROVE  Registry'
<1>1. CASE Damage
  <2>1. /\ UNCHANGED <<auth, minted, ticketVars, issued, lookups, jobs, requests, ticketed, holders,
                       unpaired, cut>>
        /\ Fault /\ doc' = [EmptyDoc EXCEPT !.bad = TRUE] /\ raced' = raced \cup DOMAIN doc.rows
    BY <1>1 DEF Damage
  <2>2. SoundDoc(doc', minted) /\ DOMAIN doc'.rows = {}
    BY <2>1, EmptyDocSound
  <2>3. Books'
    BY <2>1, BoundAssumption DEF Registry, Books, Fault, SoundDoc, ticketVars
  <2>4. ASSUME NEW k \in Token PROVE Stands(k)' /\ Attended(k)'
    <3>1. Stands(k) /\ \A i \in Job : Upserting(i, k)' <=> Upserting(i, k)
      BY <2>1 DEF Registry, Records, Upserting
    <3>2. QED BY <2>1, <2>2, <3>1 DEF Stands, Attended
  <2>5. QED BY <2>1, <2>2, <2>3, <2>4 DEF Registry, Records, Requests, Listed
<1>2. CASE Restart
  <2>1. /\ UNCHANGED <<auth, minted, tickets, lapsed, doc, issued, requests, ticketed, holders,
                       unpaired, raced>>
        /\ Fault /\ grace' = [t \in {} |-> None] /\ over' = {} /\ lookups' = {}
        /\ jobs' = [j \in Job |-> Idle]
        /\ cut' = cut \cup {jobs[j].t : j \in {k \in Job : jobs[k].step \in {"revoke", "row"}}}
    BY <1>2 DEF Restart
  <2>2. DOMAIN grace' = {} /\ grace' \in [{} -> Addr]
    BY <2>1
  <2>3. cut' \subseteq Token /\ \A k \in Token : Serving(k) => k \in cut'
    <3>1. \A j \in Job : jobs[j].step \in {"revoke", "row"} => jobs[j].t \in Token
      BY DEF Registry, Requests, JobFits, Books
    <3>2. QED BY <2>1, <3>1 DEF Serving, Registry, Books
  <2>4. Books'
    BY <2>1, <2>2, <2>3, BoundAssumption DEF Registry, Books, Fault
  <2>5. Requests' /\ \A j \in Job : jobs'[j].step = "idle"
    BY <2>1, IdleFits DEF Requests
  <2>6. Records'
    <3>1. cut \subseteq cut'
      BY <2>1
    <3>2. QED BY <2>1, <2>3, <2>5, <3>1, RowsStay DEF Upserting
  <2>7. QED BY <2>1, <2>4, <2>5, <2>6 DEF Registry, Listed
<1>3. QED BY <1>1, <1>2

\* The registry is right at the start.
LEMMA InitRegistry == Init => Registry
<1> SUFFICES ASSUME Init PROVE Registry
  OBVIOUS
<1>1. Requests
  BY IdleFits DEF Init, Requests
<1>2. Listed
  <2>1. issued = <<>> /\ Len(issued) = 0 /\ DOMAIN issued = {}
    BY DEF Init
  <2>2. issued \in Seq(Token)
    BY <2>1
  <2>3. QED BY <2>1, <2>2, BoundAssumption DEF Listed, IsInjective, ToSet
<1>3. SoundDoc(doc, minted) /\ DOMAIN doc.rows = {}
  BY EmptyDocSound DEF Init
<1>4. Records
  BY <1>3 DEF Init, Records, Stands, Attended
<1>5. Books
  <2>1. DOMAIN grace = {} /\ grace \in [{} -> Addr] /\ holders \in [Token -> SUBSET Addr]
    BY DEF Init
  <2>2. QED BY <2>1, TokenAssumption, BoundAssumption DEF Init, Books
<1>6. QED BY <1>1, <1>2, <1>3, <1>4, <1>5 DEF Registry

\* Every step keeps the registry.
LEMMA NextRegistry == Registry /\ [Next]_vars => Registry'
<1> SUFFICES ASSUME Registry, [Next]_vars PROVE Registry'
  OBVIOUS
<1>1. ASSUME NEW j \in Job, JobStep(j) PROVE Registry'
  BY <1>1, QuietKeeps, MintCreateKeeps, TicketsKeep, HeartbeatKeeps, ServeDropKeeps, ChatWriteKeeps
     DEF JobStep
<1>2. ASSUME NEW j \in Job, Arrival(j) PROVE Registry'
  BY <1>2, ArrivalKeeps, ServeBeginKeeps DEF Arrival
<1>3. CASE \E t \in Token : TicketLapses(t) \/ GraceEnds(t)
  BY <1>3, TicketsKeep
<1>4. CASE (\E t \in Token : Rename(t) \/ Unpair(t)) \/ \E ip \in Addr : LookupEnds(ip)
  BY <1>4, PanelKeeps
<1>5. CASE Damage \/ Restart
  BY <1>5, FaultsKeep
<1>6. CASE UNCHANGED vars
  <2>1. /\ UNCHANGED <<auth, minted, tickets, lapsed, grace, over, doc, issued, lookups, jobs,
                       requests, faults, ticketed, holders, unpaired, raced, cut>>
    BY <1>6 DEF vars, ticketVars, historyVars
  <2>2. Books' /\ Requests' /\ Listed'
    BY <2>1 DEF Registry, Books, Requests, Listed
  <2>3. Records'
    BY <2>1 DEF Registry, Records, Stands, Attended, Serving, Upserting
  <2>4. QED BY <2>1, <2>2, <2>3 DEF Registry
<1>7. QED BY <1>1, <1>2, <1>3, <1>4, <1>5, <1>6 DEF Next

\* Every reachable state satisfies the registry's invariant.
THEOREM RegistryHolds == Spec => []Registry
BY InitRegistry, NextRegistry, PTL DEF Spec

\* Type correctness: the documents, the requests with what they carry, the tickets and
\* the grace entries; the issued ids stay within their cap, each there once, all minted.
THEOREM TypeCorrect == Spec => []TypeOK
<1>1. Registry => TypeOK
  BY DEF Registry, Books, Requests, Listed, SoundDoc, TypeOK
<1>2. QED BY <1>1, RegistryHolds, PTL

\* The row of a phone the panel unpaired is never active again, whatever the phone
\* reports and whenever, unless a chat post's unlocked write or a damaged file put it
\* back.
THEOREM UnpairIsFinal == Spec => []UnpairStands
<1>1. Registry => UnpairStands
  BY DEF Registry, Books, Records, Stands, UnpairStands
<1>2. QED BY <1>1, RegistryHolds, PTL

\* A row marked served has its service under way, but for restarts and chat posts.
THEOREM ServedAreServing == Spec => []ServedIsServing
<1>1. Registry => ServedIsServing
  BY DEF Registry, SoundDoc, Books, Records, Attended, Serving, ServedIsServing
<1>2. QED BY <1>1, RegistryHolds, PTL

\* Only ids a mint created have a row, and the stored hostname is the stored address's.
THEOREM DocumentIsSound == Spec => []DocumentSound
<1>1. Registry => DocumentSound
  BY DEF Registry, SoundDoc, DocumentSound
<1>2. QED BY <1>1, RegistryHolds, PTL
=============================================================================
