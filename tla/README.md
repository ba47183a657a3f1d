# Verification of the Patrimony house integration

TLA+ models of `custom_components/patrimony_collection`, the Home Assistant (HA)
integration that presents a house to its owner's and members' phones, and proofs
about them. Paths below are relative to that directory of the repository.

## The system

The integration is one HA component. Three kinds of threads run its code: HA's
event loop (callbacks and request handlers), HA's executor threads (disk and
network), and two of its own (one file writer, short-lived cache refreshers). A
Supervisor add-on in another process edits some of the same files. Everything is
kept in small JSON files; a process may stop between any two writes.

| component | code | state | operations | correct when |
|---|---|---|---|---|
| attention pushes | `attention.py`, `notify.py` | `notify.json` (baseline classes, debounce stamps), the in-memory in-flight set, timers | plan, POST, retry, commit, release | no alarm lost, none repeated inside the window, nothing leaks |
| snapshot scheduler, entry life cycle | `push.py`, `__init__.py` | timer, first pending change, last emit, runtime of the entry | request, fire, emit, setup, options reload, unload | every change shown, soon, not too often |
| file cache | `fileio.py` | cache entry and pending count per path, the writer's queue, refresh marks | read, write, delete, refresh, warm | cache never wrongly fresh, no lost update, writes in order |
| house notifications | `notify.py`, `chat.py`, `http.py` | event key, its status, push log (50 rows) | install and rotate the key, push, retry, note a rejection, log | a rejection shown is one of the key in use; a promised retry comes |
| members | `members.py`, `member_api.py` | rows and tombstones, token hashes | mint, claim, authenticate, revoke, rename, remove inactive | a revoked token stays revoked |
| owner clients, iOS session | `clients.py`, `ios_session.py` | `ios_session.json` | upsert, rename, unpair and its service, heartbeat | an unpaired phone stays unpaired, no lost row |
| pairing, tickets | `pair.py`, `pair_tickets.py` | HA's refresh tokens, tickets, the grace of a claim, rate-limit windows | mint, claim, replay in grace | a ticket pairs one phone |
| PQ shield | `pq_shield/` | key pair, owner and member sessions, `pq_shield.json` | handshake, rotate, seal, open, persist, drop | a session opens what it seals and ends when it should |
| chat | `chat.py` | messages, read cursors, delivery marks | post, list, delete, report reads, expire, cut | nothing answered is lost, receipts are honest and stay |
| adoption lock | `adopt.py`, `house_identity.py`, `config_flow.py` | the claim latch in the entry, the evidence of a claim in three stores | adopt, stamp, migrate | a claimed house keeps its id |
| activity | `activity.py` | ring of 8 events, presented values | record | the newest line agrees with the pass |
| mapping, presentation | `mapping.py` | the entry's options, `mapping.json` | unite, collapse, rank, seed, build the document | saving changes nothing by itself, what was saved is served |
| small documents | `calendars.py`, `contacts.py`, `notes.py`, `photo.py` | a file each | read, compare and replace, log | no lost update, the write log is true |
| views and panel | `http.py`, `websocket.py`, `panel.py` | none of their own | route, validate | |
| add-on | `addons/patrimony_collection/web.py` | the same files | edit mapping, contacts, notes, notify | |

How they interact: a mapped state change reaches the scheduler by a callback; its
timer emits the presentation document, and every emit also starts an evaluation
of the attention facts, which runs in the executor and reads and writes
`notify.json` through the file cache under `notify._NOTIFY_LOCK`. Members,
clients, chat, tickets and the PQ sessions are stores of the same shape: a module
lock, a read through the cache, a write through it. A revocation in `members.py`
calls into the PQ sessions and the clients to drop what the member had.

What is hard here: executor threads that interleave with the loop and with each
other; facts captured on the loop and used in a thread later; sends that fail,
are retried minutes later and answer late; restarts that lose everything in
memory; a cache between two processes that compares time stamps. The hazards are
listed one by one in `PROJECT.json`, each with the property that watches it.

Which modules share what they model: a member's session is in `MemberAccess` (who
revokes it) and in `PqShield` (how it comes about and what it protects);
`ios_session.json` is in `Pairing` (owners' rows and the session fields),
`MemberAccess` (members' rows), `HousePush` (evidence of a claim) and `HouseDocs`
(the write log); `notify.json` in `AttentionPush` and `HousePush`; the add-on in
`FileCache`, `HouseMapping` and `HouseDocs`. Each module has the writers that can
disturb what it is about, and only those.

## Modules

### AttentionPush

One action per step of `_consider_attention`, `dispatch_attention_pushes` and
`_attention_attempt`. An item is the class `classify_fact` gives it, or `Quiet`.

| model | code |
|---|---|
| `classes`, `pushed`, `seeded` | the `attention` block of `notify.json` |
| `inflight` | `_ATTENTION_INFLIGHT` |
| `jobs` | evaluations handed to `async_add_executor_job` |
| `sends` | the local state of `_attention_attempt`, one per push; `phase` is its program counter |
| `Evaluate` | facts and key captured on the loop |
| `PlanSeed`, `PlanNoKey`, `PlanSend` | the locked section of `dispatch_attention_pushes`, with `plan_automatic_pushes` |
| `PostOk`, `PostRetry`, `PostGivesUp`, `RetryFires` | one attempt, its verdict, its timer |
| `Commit`, `Release` | the two locked sections after a 2xx |
| `PlanFails`, `CommitFails`, `Restart` | a write that raises; the process ends |

The moment a plan compares stamps with is read before the lock is taken, so
`PlanSend` takes any time between the evaluation and now. Which of two items
that share a stamp key is pushed depends on their order in the mapping; the
model leaves it open. `settled` and `overtaken` are history variables.

The branch of the dispatcher for a title that fails `title_is_safe` is left out:
`title_for` only builds titles that pass. A read of `notify.json` that fails
while the next succeeds (`load_attention_store`'s `except`) is left out too and is
listed as a hazard without a property.

### SnapshotScheduler

`push.SnapshotScheduler` and its callers in `__init__.py`. The clock is discrete;
everything runs on the loop, so a callback is an action, and time does not pass
an expired timer or a queued task (the loop is not blocked). The scheduler exists
from the first request of a runtime (`made`): before that, an emit has nobody to
note it. Only the scheduler's own fires are kept apart (`FiresApart`): setup emits
before there is a scheduler to note it, and a reload may emit next to an armed timer.

A build that raises is an outcome of every emit, and the code arms nothing after it.
The histories keep the two promises apart: `unshown` ends only with a document that was
fired, through failed builds, unloads and changes nobody heard (`Unheard`);
`uncovered` is the wait of `FreshWithinMaxWait`, which a try ends whatever came of it.
`lost` marks the code's gap, and `NoForgottenChange` excuses nothing else: the build
that was to show a change raised with no timer and no task left, so the phones keep the
old document until the next change, reload or setup.

### FileCache

One path of `fileio.py`. Every thread has a program counter over the lock
sections and system calls of `read_bytes`, `_load_from_disk`, `_refresh_bg` and
`_submit`; the writer is `Replace`, `WriteDone`, `WriteFails`. Contents are
numbered, and a file's signature is its content's number, so two contents with
equal time stamp and size are outside the model. A store is of one of two kinds
(`locked`, chosen from `Discipline`): all its callers hold its lock around reads and
updates (the tickets), or around updates only (`members.json`, `notify.json`). Stores
whose updates take no lock (chat, the mapping) have their losses in their own modules;
the cache adds to them that their writes may land out of order (Findings). The add-on
replaces the file (`External`) or rewrites it in place (`ExternalOpens`,
`ExternalWrites`).

`CacheCoherent` and `NoLostUpdate` are stated of a store that is `Alone`: locked on
both sides, written by nobody else, and none of its writes failed. Each premise is
needed. A content written from outside between the replacement and the writer's
`stat` gives its signature to the older bytes. And a failed write leaves the entry
stale, the next read on the loop starts `_refresh_bg`, and that thread takes no
store's lock: it may read before and install after a later write.

### MemberAccess

Members, their tokens, and what a revocation takes from them. It composes three
stores: `members.json` (each update one section under `members._LOCK`), the member
sessions of `pq_shield/session.py` (a dictionary in memory and the file it is
written to) and the members' rows among the clients of `ios_session.json` (read and
written in two steps without a lock). A request is a job; `step` is its program
counter over those sections.

| model | code |
|---|---|
| `rows` | the rows and tombstones of `members.json` |
| `minted` | members whose phone holds a token, pruned ones included |
| `expired`, `aged` | the clock against `exp` and against the keep period of `_prune` |
| `live`, `disk` | `_member_keys`, `memberSessions` in `pq_shield.json` |
| `clients` | rows of members in `ios_session.json` |
| `loop` | the event loop, which runs one `upsert_client` at a time |
| `Mint`, `RemoveInactive`, `ClearInactive` | the functions of that name, with `_prune` |
| `Present` ... `UpsertWrite` | `_member_auth`: `authenticate`, its touch, the client row |
| `AcceptMemberEncap`, `DropMemberSessions`, `Snapshot`, `Save` | the member half of `PQShieldManager` |
| `Unpair`, `Revoke` ... `DropClientWrite` | `revoke_member`, `revoke_principal`, `_drop_clients` |
| `ReadFails`, `WriteFails`, `Restart` | a store that cannot be read or written; the process ends |

A member stands for its token, since neither is reused. Time is one bit per member
for each of the two periods; a row grows old only while no request runs, as the
period is 30 days. The rename of a principal, the labels of the member list and
the checks of inputs change none of this state. The owner's session is written to
the same file by the same `_persist`; it is left to a module of its own.

### Chat

The log, the read cursors and the delivery marks of `chat.json`, and the receipts
`list_document` computes from them. Its handlers run in executor threads (the owners'
GET on the loop) and take no lock, so each request is a job of two actions: the read
of the document with all the work on that copy, then the write of the copy.

| model | code |
|---|---|
| `store` | `chat.json`: `rows` the messages, `to` their `deliveredClientIds`, `cursors` `readCursors` |
| `status` | a phone among the clients, a guest among the members: not yet used, active, ended, pruned |
| `Known`, `Canon` | `principal_map` and `canon_key`: the principal of a guest, if the house still knows it |
| `ReadBy`, `DeliveredTo` | `receipt_readers` and `receipt_flags` seen through `_canon_view` |
| `Post`, `List`, `Delete`, `MoveReadCursor` | the handlers, owner and member, up to their `_write_store` |
| `Write`, `WriteFails` | `_write_store` and the answer |
| `Join`, `Leave`, `Prune`, `Expire` | a first use or pairing; a revocation, expiry or unpair; `_prune`; the clock past `expiresAt` |

A message is a number in the order of the posts' reads, which is the order every
document keeps them in; a document is then the set of its messages. A document that
cannot be read counts as empty: `Post` and `Delete` go on to write what they make of
it (`blind`), a list or a read report would find nothing to change. What a phone or
a guest may do is looked up as the request is read. `Panel` stands for anyone with
the house's login and no pairing; it is no reader. `GET` of an image is a list of the
panel as far as the document goes.

`torn` remembers that some write replaced a document it was not made from: two
requests overlapped, or a document was unreadable. The code has no protection
against that, so `LogFaithful` and `MarksOnlyGrow` speak of the time before it;
`ReceiptsHonest` holds always. `acked`, `deleted`, `fetched` and
`reported` remember what the callers were told or said.

A list marks by two rules (`MarkDelivered`). The owner branch takes any request whose
client row is active and compares ids only (`paired`); a guest's request carries
`m_<memberId>`, and its authentication has just made that row active, so a guest
normally goes this way too and marks, and writes, the messages the same person sent
under an earlier invitation. The guest branch, which compares principals, is reached
only when the row is missing or unpaired. The marks alone are therefore no receipts:
that nobody's own message counts as delivered to them rests on `Others`, on what the
house still knows of a message's sender when it is shown.

Left out: the push that follows a post, texts, images and labels, the `mine` flag,
and a phone bearer that posts with a device name and is not in the list of clients.

### Pairing, SingleUse

A phone's credential from the minting to the unpair, with everything that writes
`ios_session.json` for an owner's phone. A refresh-token id stands for the token, its
ticket and its row. A request is a job, with one action for each section between two
awaits (or, in an executor thread, between two lock sections).

| model | code |
|---|---|
| `auth` | the refresh tokens HA holds (external) |
| `tickets`, `lapsed`, `grace`, `over` | `pair_tickets.json`, `exp` passed, the grace dictionary in memory, its end passed |
| `doc` | `ios_session.json`: client rows (active, unpair served, name edited), address, host name, readable or not |
| `issued` | `pair_issued.json`, cut at `PAIR_ISSUED_MAX` |
| `lookups` | reverse lookups under way |
| `MintBegin` ... `MintTicket` | `mint_pairing`: drop the old tokens one by one, create, record, `put_ticket` |
| `ClaimBegin`, `ClaimRun`, `ClaimFails` | `claim_with_grace`: the clock before the lock, the rest under it |
| `HeartbeatBegin`, `Heartbeat`, `LookupEnds` | POST of the session, its body awaited; `store_resolved_hostname` |
| `Rename`, `Unpair` | the panel's buttons |
| `ServeBegin`, `ServeRevoke`, `ServeDrop` | `note_unpair_served`: mark, revoke, drop the row and forget the id |
| `ChatBegin` ... `ChatWrite` | `client_sender_label`, which may upsert the poster's row, unlocked |
| `Damage`, `Restart` | the file no longer parses; the process ends |

`SingleUse` is the abstract specification of a ticket: issued once, open, given to one
holder or withdrawn. `Pairing` implements it with the tickets that have not lapsed for
the open ones; `SingleUseKept` is that refinement, and it is proved. The grace makes it
interesting: a repeated claim is answered from memory after the ticket is gone, so the
refinement needs that only the first holder is answered, through parallel claims
that read the clock before they took the lock.

`raced`, `cut` remember which rows a chat post's stale write, a damaged file or a
restart in the middle of a service may have brought back or left; `UnpairStands` and
`ServedIsServing` speak of the others, and say thereby that these are the only ways.

### HousePush

The id and the event key of the house and the pushes sent with them, which are those of
the chat (retried) and of the panel (not retried); the automatic ones are
`AttentionPush`.

| model | code |
|---|---|
| `backend` | the key the backend takes (external): `Rotate` replaces it |
| `entry`, `saved` | the config entry in memory and as HA saved it; `SaveEntry`, `Crash` |
| `notify` | `eventKeyStatus`, `pushLog`, readable or not |
| `session` | the evidence in `ios_session.json` |
| `Install`, `Installed` | POST of the event key with `note_event_key_installed` and the latch |
| `Evidence`, `Setup`, `Adopt` | `claim_evidence`, `migrate_adopt_lock`, the adoption |
| `BeginChat`, `BeginManual`, `BeginKeyless` | a push takes id and key; without a key only a row is logged |
| `PostEvent`, `NoteAttempt`, `LogAttempt`, `Again` | one attempt: POST, `note_event_key_attempt`, the log row with the retry timer, the timer |
| `DamageNotify`, `DamageSession` | a file no longer parses |

A rejection is kept with the key it is about, which the code does not record; that is
what lets `RejectionExplained` ask whose rejection the phone reads.

### MappingRows, HouseMapping

`MappingRows` has the pure operators of `mapping.py` over a document of cards and rows:
union of two documents, one row per item and per source, collapse of cards with one
title, ranks, the normalisation of an editor's POST, the add-on's own version of a
save. Where the code walks a list and keeps what it has not seen, the operator says
which positions are kept (the first row of an item, the last protected claim of a
source) and `Pick` lists them in their order; a rank is how many rows are ahead. No
operator is a fold, so each can be proved about. What a row shows is an entity, an
attribute and a label, the last two perhaps unset, and the union takes each from the
last row that has it set (`OverlayField`): the file's row over the options' may give a
source neither has. The other optional fields of a row (type, unit, limits, states of a
severity) are united the same way and left out. `HouseMapping` puts the operators between
their callers.

| model | code |
|---|---|
| `options`, `file` | the entry's options; `mapping.json` with the calendar settings |
| `Mapping` | `merge_options` |
| `PanelOpen` ... `PanelWrite`, `OptionsUpdated` | the editor: fetch, POST, read of the file, write of both places, the listener |
| `CalRead`, `CalWrite` | `calendars.save_config` |
| `AddonRead` ... `AddonDies` | the add-on's save, in place |
| `Change`, `Emit`, `Record` | a change of an entity's state or attribute (`ha`, by entity and attribute; the listener, `tracked`, by entity), the emit, `record_mapped_activity`, which compares label and value |
| `Restart` | setup, with `seed_shared_mapping` |
| `Edits` | what the editor's page and the add-on's may send: `removeLine`, `deleteCard`, `commitRename`, `moveCard`, `applyForm`, `setOnPass`, `moveLine`, `addItem`, `commitNewCard` of `www/index.html`, one per save |

`SaveIsStable` compares the operators with one another on every pair of documents the
editors can bring about, rather than on random ones. Texts of items, placeholders, the
entity suggestions and the button that swaps two ranks of the glance (`movePassRank`)
are left out. The specification, its type invariant and its actions carry the
component's name (`MappingSpec`, `MappingTypeOK`), since `HouseProofs` extends
`HousePush` too.

### PqShield

| model | code |
|---|---|
| `recipient`, `session`, `disk` | `PQShieldManager` in memory, `pq_shield.json` |
| `feature`, `saved` | the entry's option `pq_shield`, in memory and as HA saved it (`SaveEntry`) |
| `offered` | the key pair whose public half a phone holds |
| `BeginPublic` ... `UsePublic` | GET of the public material, with `ensure_recipient` |
| `BeginEncap` ... `StoreSession` | `accept_encap` of the owner and of members |
| `BeginRotate`, `Renew`, `RotateWipe`, `BeginMemberRotate`, `DropMemberSession` | the rotations |
| `FeatureOff`, `FeatureOn`, `OptionsUpdated`, `BeginDisable`, `DisableOwner` | the flag, from the view and from the entry's listener |
| `Snapshot`, `Save`, `SaveFails` | `_persist`: the payload, then the write under `_WRITE_LOCK` |
| `BeginWrite`, `OpenBody`, `Act` | a member's write past the gate, its body, its handler |
| `Restart` | load of the file and of the saved option; setup wipes nothing |

A session is the pair of key pairs its two sides used: it opens what it seals if they
are the same, since decapsulation with another key gives another secret and no error
(ML-KEM's implicit rejection). The rest of the cryptography is a black box.

`OffMeansGone` names the ways the owner's session may outlive the switch (`late`): an
owner's handshake past its last check when the session was wiped, a write of the file
that was overtaken, failed or cut, a restart before the entry's listener ran, and a crash
that brings back an older entry. In the last one the shield is turned on again and the
owner's handshake is saved before HA stores the entry: after the crash the option says
Off, and setup (`__init__.py:174-206`) does not wipe, as only the listener and the view
do. Each excuse ends with the next wipe.

### HouseDocs

Notepad, call list, and the members' write log in `ios_session.json`.

| model | code |
|---|---|
| `notes`, `contacts` | the two files; a text is the number of the request that wrote it |
| `NoteBegin`, `NoteRead`, `NoteWrite` | `save_notes_checked` under `_NOTES_LOCK`, `Conflict` its comparison |
| `ContactsBegin`, `ContactsRead`, `ContactsWrite` | the four members' edits under `_CONTACTS_LOCK`, `Applied` what each makes of the list |
| `OwnerNote`, `OwnerContacts` | the owner's PUT, without these locks |
| `LogRead`, `LogWrite`, `LogWriteFails` | `record_member_write` after the save; a log that cannot be written is only warned about, and the request is answered |
| `TouchRead`, `TouchWrite` | an upsert of a client row, which writes the log back as it read it |
| `AddonBegin` ... `AddonDies` | the add-on's in-place save |

A read sees the file as it is: what a stale cache adds is in `FileCache`. A failing
write of the owner's PUT is left out. `Kept` does not compare methods
(`contacts.py:74`): the two apps of the model have the same method, cellular, which is
the one a row without an app names. A row that names another method replaces the app
of the stored row, as one with an app does.

`WritesAreLogged` lets a landed write be missing from the log if later rows pushed its
row out, a writer without the lock overwrote it, the process stopped before it, the
log could not be read, or its own write raised (`member_api.py:88`).

Definitions named `Fault...` are deliberately wrong variants of the definition
that follows them. No specification uses them: they are there to show that each
property notices a bug of that kind.

## Runs

| run | what is checked | bounds | result |
|---|---|---|---|
| `AttentionPush_safety` | `OnePushPerStamp`, `StampsInThePast`, `NoSilentDrop`, `DebounceHolds` | 2 items on 1 card, 1 class, 2 threads, window 2, horizon 3, 2 attempts a tick apart, 4 ticks, 1 fault | holds |
| `AttentionPush_liveness` | `NoSilentDrop` with escalation, `InflightDrains`, `AlarmDelivered` | 1 item, 2 classes, 1 thread, 1 tick, 1 fault | holds |
| `SnapshotScheduler_safety` | `NoForgottenChange`, `FreshWithinMaxWait`, `FiresApart` | debounce 1, maximum wait 3, interval 2, 9 ticks | holds |
| `FileCache_safety` | `BookkeepingExact`, `CacheCoherent`, `DiskOrder`, `NoLostUpdate`, `EveryOperationEnds` | the loop, 1 worker, the refresher and the writer, both kinds of store, 3 contents, 1 external write, 1 failure | holds |
| `MemberAccess_safety` | `AcceptedWhileGood`, `ReportedOnce`, `LeftoverHasCause`, `RevokedForGood`, `OnlyEndedRowsGo` | 2 members of 1 principal, 2 requests at a time, 3 in all, 2 auditors, 1 fault | holds |
| `Chat_safety` | `ReceiptsHonest`, `LogFaithful`, `MarksOnlyGrow` | 2 guests of 1 principal and the panel, a log of 2, 3 posts, 2 requests at a time, 4 in all with the faults (at most 1) | holds |
| `Pairing_safety` | `TypeOK`, `UnpairStands`, `ServedIsServing`, `DocumentSound`, `SingleUseKept` | 2 minted tokens and a hand-made one, 2 addresses, 2 requests at a time, 6 in all, 1 issued id kept, 2 faults | holds |
| `HousePush_safety` | `RejectionExplained`, `RetryPromiseKept`, `ClaimedForGood` | 2 keys, 2 ids, 2 pushes of 2 attempts, a log of 2, 3 faults | holds |
| `HouseMapping_safety` | `SaveIsStable`, `SavedIsServed`, `RingTruthful` | 2 cards, 2 items (1 protected), 2 entities with 1 attribute and 1 label, of which users choose an attribute without a label and a state with one, 1 place on the pass, 1 item a card, 1 card shown, 2 events, 2 saves, 1 change, 1 fault | holds |
| `HouseMapping_hidden` | `HiddenStaysHidden` | 1 of each, 2 saves | violated |
| `PqShield_safety` | `GarbledHasCause`, `OffMeansGone`, `PlainWriteHasCause` | the owner and 1 member, 2 requests at a time, 5 in all, 3 key pairs, 1 fault | holds |
| `HouseDocs_safety` | `WritesAreLogged`, `MembersInOrder`, `ReplacesWhatItSaw` | 2 requests at a time, 3 in all, 2 contacts in a list of 1, a log of 1, 1 tick, 1 fault | holds |

Every module of a component has its type invariant, `TypeOK` (`SchedulerTypeOK`, `MappingTypeOK`). It was
checked with the runs' bounds while they were written. As each is proved (Proofs), only
`Pairing_safety` still checks it.

Why the bounds suffice. Two items on one card are the least that share a stamp
key; two threads the least that plan with stale facts; two attempts the least
with a retry; four ticks let a stamp age past the window and past the horizon
with a retry in between. Two classes on one card are the least for an escalation.
The ratio of the scheduler's three delays is that of the code (0.3, 2, 1 s)
rounded to the order they have; nine ticks cover three maximum waits. In the
cache, a caller on the loop, one off it, the refresher and the writer are all the
kinds of thread a path has. Three requests let a revocation meet a handshake and
another revocation; two members of one principal are the least whose client rows are
written over one another and whose revocation is counted twice. In the chat, two
guests of one principal are one person invited twice, three posts overflow a log of
two, and two requests at a time are enough for one write to go over another. The
passing run has no phone because a phone behaves as a guest without principal, except
that it may delete, as the panel does.

Six requests let two mints, a claim with its replay, an unpair and its service meet;
two minted tokens with room for one issued id make the list overflow, and the
hand-made token is the one that must not get a row. Two keys are a rotation, two
pushes with a log of two cut each other's rows, and three faults can take the
evidence from all three stores. In the mapping, two cards may share a title and two
items a source, limits of one are exceeded by two; two saves are the least that write
over one another. One save over the other puts the two sources users choose together to
two more, which nobody chose; a save that moves an item to another source, and one change
of a state, are two lines about one item. Three key pairs are the first, a rotation, and the one a second
request generates beside it; five requests are two handshakes with their fetches and
a switch. A list and a log of one overflow with two rows, and one tick is the least
that tells two times apart, while two saves may share a second.

Symmetry sets contain only values the module does not distinguish (members, guests,
requests, auditors, tokens, addresses, pushes, ids, contacts, cards, items
that are not protected); no run with a liveness property uses symmetry. Deadlock
checking is off because the clocks, the number of requests and the faults are bounded,
and so the models may stop.

Fairness. `AttentionPush`: the clock advances, the executor runs a queued
evaluation, and each push goes on (its POST has a timeout, the loop runs timers).
`AlarmDelivered` assumes besides that evaluations keep coming, that the item stays
in its class and that the backend finally stops refusing; the code does not
promise more, since after the last attempt only another evaluation sends again.
`FileCache`: a thread that is running runs on. Calls are never forced. The other
modules claim nothing that must happen and state no fairness.

Faults. A restart may come between any two actions and loses what is in memory; a
write that fails leaves the file and raises or is logged, as its caller does; a file
that does not parse is treated by each reader as that reader treats it. HA writes the
config entry late, so only there a crash brings back an older state (`HousePush` and
`PqShield` have the saved entry beside the one in memory). HA's own state,
the backend and the phones are the environment and may do anything their interface
allows.

## Findings

Each is a place where the code does not do what its comments or tests say. Where a
property states the text and has no run of its own, it is in its module, marked as not
kept, and can be given to that module's configuration to see the counterexample.

* **A commit overrules a newer baseline** (`attention.py:252`, `NewerBaselineWins`).
  While a push for a smoke alarm is retried, the alarm clears and an evaluation sees
  the item quiet. The baseline was quiet when the push was planned and is quiet now, so
  the late 2xx moves it to smoke. The next smoke alarm is no transition and is not
  pushed, until some evaluation sees the item quiet. The docstring promises that the
  newer baseline wins.
* **Disk order can differ from call order** (`fileio.py:179`, `DiskOrder` with a
  `Discipline` of `{}`) for callers without a lock of their own: the cache is filled
  under the lock, the queue after it.
* **A slow load hides a newer write** (`fileio.py:79`, `CacheCoherent` without
  `Alone`): bytes read before the write, signature read after it, installed once the
  write is no longer pending.
* **A session outlives a revocation** (`pq_shield/member_views.py:97`,
  `RevokedHasNoSession`). A handshake authenticates, the member is revoked and its
  session dropped, and only then is the new key stored and saved. The revoked phone
  still gets nothing, as its token is refused; its next request drops the session.
  `LeftoverHasCause` says this and a restart before the drop is saved are the only ways.
* **Receipts are lost when an old invitation is pruned** (`chat.py:717`,
  `ReceiptsCarryOver`; needs a phone in the configuration). A person who only read and
  received under a first invitation is active under a second one; the receipts count
  for the principal as long as the first row exists. Once `_prune` removes it,
  `principal_map` no longer knows whose its cursor was, since only the sender's
  principal is stored on messages, and messages shown as read are unread.
* **An unpaired phone's row can come back** (`clients.py:705`, `UnpairedNeverReturns`).
  The service forgets the id so that it never registers again, but a chat post that
  read the document before the drop writes it whole, with the row, after it; a damaged
  file loses the pending unpair as well.
* **The fail-closed branch of the claim evidence is dead** (`adopt.py:142`). Its reader
  returns an empty document for a file it cannot read, and does not raise, so an
  unreadable `notify.json` is no evidence. The other stores still are, which is what
  `ClaimedForGood` is about.
* **A hidden calendar is shown again** (`panel.py:226`, run `HouseMapping_hidden`). The
  editor's save reads the calendar settings in one step and writes the file in the
  next; the calendar section's save in between is overwritten.
* **A removal in the add-on does not stick** (`addons/patrimony_collection/web.py:242`).
  The add-on replaces the rows of the file, but every read unites the file with the
  entry's options, which it cannot change: the row is served again. For the same reason
  an attribute or a label that the add-on clears stays what it was (`OverlayField`), and
  one it changes together with the entity may be served with the other entity.
* **The shield may be Off with the owner's session kept** (`__init__.py:174`). The wipe
  belongs to the change of the option (`__init__.py:216-224` wipes on Off to fail closed);
  a crash that brings the older Off back is no change, so the session stays in memory and
  in `pq_shield.json` until the next switch. Nothing is sealed with it while the option is
  Off. `OffMeansGone` excuses this by name.
* **`ifMatch: null` compares nothing** (`member_api.py:508`, `NullMeansNoNote`). The
  docstring says it means "no note yet"; a null arrives as no condition at all.

## Proofs

Eight modules, each about any values of the constants that satisfy the module's
assumptions, with no bound but those the actions name.

`AttentionPushProofs` (all items, cards, classes and threads, any window, horizon,
number of attempts and delays):

* `TypeCorrect`: `Spec => []TypeOK`;
* `OnePushAtATime`: `Spec => []OnePushPerStamp`;
* `StampsNeverInTheFuture`, `NoAlarmDropped`: from the inductive `Inv`;
* `DebounceIsKept`: `Spec => DebounceHolds`, an action property.

`OnePushPerStamp` is inductive next to the types. The others are not. A stamp can
only be in the past if the evaluation it starts from is (`JobsInThePast`). The
baseline moves on a commit and when a debounced item is planned, so one must know
that an uncommitted 2xx, and every stamp, comes from an answered push
(`Answered`). The window between two stamps must hold already while the second
push is in flight (`SendsPastWindow`), and that needs `OnePushPerStamp`: no other
push stamps the key meanwhile. `Inv` is the conjunction, proved for each action
in turn; `DebounceHolds` then follows from the one action that writes stamps.

`RuntimeProofs` has the two mechanisms under all the others. The file cache (any number
of threads, any disciplines, contents and bounds):

* `TypeCorrect`, `BooksAreExact`, `EntriesAreCoherent`, `NoUpdateLost`, all but one of
  the run's safety properties, without further premise;
* `WritesInOrder`: `Spec => DiskOrder`, assuming that every discipline in `Discipline`
  has the lock around updates, as in the run; without it the property is false
  (Findings).

`InvHolds` is the invariant, in two parts. `Base` holds of every store. The pending count
is the number of queued writes plus that of the callers between filling the cache and
entering the queue, so the proof counts those callers as a finite set (`Counted`); what a
store does under its lock runs alone (`Serial`); and then the numbers of its writes
increase from the disk through the queue to the caller that has yet to queue (`InOrder`).
`Sound` holds of a store that is `Alone`, and is where coherence comes from: the disk
with the queue behind it, the entry, and every thread that has read something all tell
the content of the last update (`Told`). `CacheCoherent` alone is not inductive: it says
nothing of the bytes a thread holds between its read and its install.

The scheduler (any delays with debounce and interval at most the maximum wait):
`SchedulerTypeCorrect`, `ChangesAreRemembered`, `NeverTooLate`, `NeverTooSoon`, all
properties of the run. That no change is forgotten is inductive by itself
(`NothingForgotten`): what ends an armed timer is a fire, which queues an emit, and
what ends the last emit shows the change or marks it `lost`. What the timer was armed for is bounded by `DueAtBounds`. The
maximum wait holds because, with no task queued, the oldest change waiting lies
within the wait that the timer serves and after the last emit (`InTime`); with a task
queued time stands still until it has run. The interval holds because every fire was
noted as an emit and a timer armed since respects it (`InThePast`, `Throttled`). The
scheduler's specification, type invariant and actions carry its name (`SchedulerSpec`,
`SchedulerTypeOK`), so that the two can share a module.

`MemberAccessProofs` (all members, principals, auditors and any number of
requests at a time, assuming only that `None` is none of them and that every member
has a principal):

* `TypeCorrect`, `RevocationIsFinal`, `OnlyTheEndedGo`, `OnlyGoodAccepted`,
  `NoDoubleReport`, `LeftoversExplained`: all properties of the run.

`TypeOK` is not inductive: only a request of the right kind, for a minted member,
is at the steps of an authentication (`Shape`). What a step may do to the rows is
one action, `RowChange` (rows do not come back, revocations are not undone, only
ended rows go), proved once for all of `Next`; `RevokedForGood` is read off it.
Pruning looks at age, not at the status, so `OnlyEndedRowsGo` needs that an aged row
has ended, and stays so (`AgedEnded`). A token refused when its request came is
refused when the row is read (`Refused`), because a row that ended never becomes
good; that carries `AcceptedWhileGood`. `ReportedOnce` needs that a reported member
is revoked or gone (`Reported`). `LeftoverHasCause` needs that handshakes still
running for a revoked member were running at its revocation (`HandshakesExcused`).

`ChatProofs` (all phones, guests, principals, requests at a time and any
`MaxStored`, messages and faults):

* `TypeCorrect`, `LogIsFaithful`, `HonestReceipts`, `MarksGrow`: all properties
  of the run, from the inductive `Inv`.

Every document, the one on the disk and each copy, is one that was read and worked on
(`DocOK`): no cursor is ahead of what its reader reported, no mark is on a message
its reader was not shown. That needs nothing of the order of the writes, and
`ReceiptsHonest` follows from it with `KeyIsPerson`. A copy that is not stale besides
only adds to the document it will replace (`Grows`, `Follows`); a write makes every
other copy stale, so those two need to be kept only while the store stands still.
That a cut keeps at least `MaxStored` newer messages than the one it drops, and at
most `MaxStored` in all, is `NewestOf`, by counting.

`PairingProofs` (all tokens, addresses, requests at a time and bounds):

* `TicketsAreSingleUse`: `Spec => SingleUseKept`, the refinement;
* `TypeCorrect`, `UnpairIsFinal`, `ServedAreServing`, `DocumentIsSound`: the run's
  invariants, from the inductive `Registry`.

The refinement's invariant is a `Ledger`: a ticket in the store was given to nobody, a grace entry
names the one address its token was given to, and a mint that has its token and not
yet its ticket has an id that never had one and that no other mint has. Every action
then is a step of `SingleUse` or leaves its variables alone. `MintTicket` is `Issue`;
`ClaimRun` is `Give`, or a stutter when it repeats an answer or refuses; the lapse of
a ticket is `Withdraw`, and pruning what has lapsed is a stutter.

`Registry` is about the rows. `UnpairStands` speaks of the document only, and says
nothing of what could bring a row back: the id may still be on the list of issued ones,
so that a heartbeat upserts it, or in a copy a chat post has read, or with a post that
was let through before the drop. `Stands` says that an unpaired row nothing raced is
inactive, and that once it is gone its id is in none of these. `Attended` says that a row
marked as served has the request that drops it. The document invariants hold of the copies
as well (`SoundDoc`), because a copy becomes the document; and that an id is on the issued
list once (`Listed`) is what lets one removal forget it.

`HouseProofs` has two components, which share no state. The push of the house (all keys,
ids, pushes, attempts, lengths of the log):

* `TypeCorrect`, `RejectionIsExplained`, `ClaimStands`, `RetriesFollow`.

A push under way uses the installed key or one in `late` (`Sent`), so the rejection it
notes is explained. While the house is claimed, every store that no fault has touched
shows it (`Witnessed`), the saved entry included, since a crash brings that one back.
`RetryPromiseKept` is inductive as it stands: rows are appended, and a cut takes the
oldest, never the row that answers another one and leaves that one.

The mapping (all cards, titles, items, protected ones, sources and calendars, lists of
any length, any limits but 0, any number of saves and changes):

* `MappingTypeCorrect`: `MappingSpec => []MappingTypeOK`;
* `SavesAreStable`, `SavesAreServed`, `RingIsTruthful`: all properties of the passing run.

The lemmas are about the operators, and rest on one: counting the elements up to each
along a total order numbers a finite set from 1 (`Numbered`). Along the positions it
gives `Pick` (`PickFacts`: each position once, in order), along rank and place the ranks,
along fullness the surviving card of a title, along title and place the pass. From them:
the union of two lists has each key once and loses none; removing doubles leaves each
item and each source once, drops an item only when its source is taken and gives none a
source it did not have (`CollapsedRows`); each field of a united source is what one list
gives the item (`OverlaidSource`, `UnionKeepsItems`); assigning ranks twice is assigning them once (`AssignRanksOnce`). So a
collapse gives a `Settled` document, and one that is settled already stays as it is
(`CollapseSettled`).

The document that is served is a collapse, hence settled, in every state whose stores hold
documents. So `SaveIsStable` and `SavedIsServed` follow from `MappingTypeOK`, which is
inductive, without a look at the order of the writers: whatever they bring into the two
places, the operators keep the promise. `RingTruthful` does depend on the order, and is
inductive with the types. A diff (`RecordTruthful`) either writes a line about an item,
with the value it shows from now on, or it did not differ and its newest line still tells
its value; that an item has one row on the pass is what makes "its value" one, and comes
from the settled document. Edits, saves, writes and cut writes do not touch the ring.

`PqShieldProofs` (all members, requests at a time, key pairs and bounds):

* `TypeCorrect`, `PlainWrites`, `OffIsGone`, `GarbledIsExplained`.

`PlainWrites` needs what a write was let in with (`Plain`). `OffIsGone` needs that
file and memory agree, unless a write of what differs is still to come or the last one
was overtaken (`Written`), and that a handshake of the owner which outlives the switch
is excused, like a restart that lost the switch or brings an older Off back (`OwnerOff`). `GarbledIsExplained` needs the lineage of the key pairs
(`Lineage`): every pair generated is the one in memory or was replaced or lost, requests
hold generated pairs only, and a session of two pairs has its phone's replaced, in
memory, in the file and in each payload on its way there.

`HouseDocsProofs` (all requests at a time, contacts and bounds):

* `TypeCorrect`, `MembersKeepOrder`, `SavesReplaceWhatTheySaw`, `LogIsTrue`.

The second and third rest on `Locked`: one request at a time is between its read and its write
of a document, and what it read is what is there unless it was overtaken by those without
the lock.

`LogIsTrue` (`WritesAreLogged`, with a write log of any length) rests on `LogTruth`. The
log and every copy of it, those of requests and that of an authentication, however old,
is `Drawn` from the rows recorded so far: some of them, in their order, no more than the
log holds. So what a full log lets go of has that many later rows, which the proof counts
with an injection. `Numbered` says that a request has its number to itself and that it
landed if and only if it is past its write, so a request that ends early owes no row;
`Accounted` adds that what landed is in the log, on its way, excused or pushed out.
`TypeCorrect` rests on `LogTruth`, for the rows of the log, and on one fact more: a request
that adds or changes a row of the call list names one (`Named`).

TLC checked `Base`, `Sound`, `Registry`, `LogTruth` (its `Numbered` and `Copies`) and
`MappingTypeOK` with the bounds of their runs before they were proved.

Checked by TLC only:

* the liveness properties (`InflightDrains`, `AlarmDelivered`, `EveryOperationEnds`):
  liveness under fairness is out of the proof system's reach;
* that a property is violated where the code does not keep it (Findings).

## Not modelled

* The limiter of claims and the credential gates of the views: they refuse requests,
  and every action here is a request that was let through or may be.
* How a fact gets its severity, item texts, placeholders, localisation, entity
  suggestions, and the wording of documents and logs: pure functions of HA's state.
* Sealing and the key encapsulation themselves, HTML and panel rendering, the static
  user interfaces, `const.py` and `version.py`.
* Events of calendars (fetched from HA and cached for a while), the photo (one blob,
  replaced whole through the cache), the config flow, the names of the house, the
  renaming of a principal and the presence list: each one read, or one whole write,
  of one store.
* A `pq_shield.json` that does not parse (it starts as an empty store, as a restart
  before the first write does), the owner's PUT of a note or list whose write fails.
* Hazards without a property: a read of `notify.json` that fails while the save after
  it succeeds (`notify.py:688`), and an options reload suspended while its entry is
  unloaded (`__init__.py:216`).

## Plan

What is left, in this order:

1. The two hazards just named: a fault action of `AttentionPush`, and a
   `SnapshotScheduler` with several runtimes.
2. An abstract alert service (an alarm is pending or told) that `AttentionPush`
   implements, and an abstract register that a locked store of `FileCache` implements.
3. The claim limiter, with its windows.
