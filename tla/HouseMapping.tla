---------------------------- MODULE HouseMapping ----------------------------
(***************************************************************************)
(* The mapping of the house, who writes it, and the activity ring that is  *)
(* kept from what the pass shows.                                          *)
(*                                                                         *)
(* The mapping lives in the options of the config entry and in             *)
(* mapping.json, which also holds the calendars the owner shows in the     *)
(* app.  The panel's editor writes both places, the calendar section reads *)
(* and rewrites the file, the Supervisor add-on (another process) rewrites *)
(* it in place, and every setup seeds it when it finds no card and no row  *)
(* in it.  None of them holds a lock: a writer reads in one step and       *)
(* writes in a later one.  A file that cannot be parsed, or has just been  *)
(* truncated, reads like one without content in every reader, so it is     *)
(* represented by empty content.                                           *)
(***************************************************************************)
EXTENDS MappingRows

CONSTANTS Card, Title, Item, Calendar,
          Entity, Attribute, Label,
          Source,        \* bound: what users let an item show
          MaxItems,      \* MAX_ITEMS_PER_CARD
          MaxCards,      \* MAX_CARDS
          MaxEvents,     \* MAX_EVENTS
          MaxSaves,      \* bound: saves of the panel, the calendars and the add-on
          MaxChanges,    \* bound: state changes of entities
          MaxMishaps     \* bound: restarts, failed and cut writes

\* The order of the titles on the pass; a house has at least one.
ASSUME TitleAssumption == Title # {} /\ Title \subseteq Nat
\* What an item shows: an entity or one of its attributes, with or without a label.
SourceType == [entity : Entity, attr : Attribute \cup {Unset}, label : Label \cup {Unset}]
ASSUME SourceAssumption == Source # {} /\ Source \subseteq SourceType
ASSUME LimitAssumption == /\ {MaxItems, MaxCards, MaxEvents} \subseteq Nat \ {0}
                          /\ {MaxSaves, MaxChanges, MaxMishaps} \subseteq Nat

VARIABLES options,    \* cards and maps of the config entry
          file,       \* mapping.json: cards, maps and the calendars shown
          panel,      \* the editor request: pc, and the document it carries
          calsave,    \* the calendar request
          addon,      \* the add-on's request
          hidden,     \* history: calendars the owner's last save hid
          updated,    \* _options_updated is scheduled
          ha,         \* the state of each entity and of its attributes
          tracked,    \* the entities whose changes wake the scheduler
          pending,    \* an emit is scheduled
          presented,  \* runtime["presented"]
          events,     \* runtime["events"], newest first
          rejoined,   \* history: items that (re)entered the pass since their last event
          saves, changes, mishaps

stores == <<options, file>>
requests == <<panel, calsave, addon>>
activity == <<presented, events, rejoined>>
bounds == <<saves, changes, mishaps>>
mappingVars == <<stores, requests, hidden, updated, ha, tracked, pending, activity, bounds>>

State == {"on", "off", "gone", "odd"}
Value == {"on", "off", "none"}

RowType == [item : Item, card : Card, src : SourceType, rank : 0..MaxOnPass \cup {Unranked}]
CardType == [id : Card, title : Title]
DocType == [cards : Seq(CardType), maps : Seq(RowType)]
FileType == [cards : Seq(CardType), maps : Seq(RowType), cal : SUBSET Calendar]
RequestType(pcs) == [pc : pcs, cards : Seq(CardType), maps : Seq(RowType), cal : SUBSET Calendar]
ShownType == [label : Label \cup Entity, val : Value]
EventType == [item : Item, val : Value \ {"none"}]

Idle == [pc |-> "idle", cards |-> <<>>, maps |-> <<>>, cal |-> {}]
File(d, cal) == [cards |-> d.cards, maps |-> d.maps, cal |-> cal]

\* merge_options over the file as it reads now.
Mapping == Merge(options, file)

\* The entities whose changes are listened to.
Entities(d) == {d.maps[k].src.entity : k \in DOMAIN d.maps}
-----------------------------------------------------------------------------
(* The pass: which items the presentation document shows, in which order.  *)

\* item_value: no state shows as no value; a state the type cannot read drops
\* the item from the document.
ItemValue(state) == IF state = "gone" THEN "none" ELSE state
Reading(src) == ha[src.entity][src.attr]
Emitted(r) == Reading(r.src) # "odd"

\* The label and the value of an item: without a label it has the name of its entity.
Presented(r) == [label |-> IF r.src.label = Unset THEN r.src.entity ELSE r.src.label,
                 val |-> ItemValue(Reading(r.src))]

\* The order of the cards on the pass, the cards with a row, the first MaxCards of them.
Before(d, a, b) == \/ d.cards[a].title < d.cards[b].title
                   \/ d.cards[a].title = d.cards[b].title /\ a <= b
PassCards(d) ==
    LET used == {c \in DOMAIN d.cards : \E k \in DOMAIN d.maps : d.maps[k].card = d.cards[c].id}
    IN  {c \in used : Cardinality({b \in used : Before(d, b, c)}) <= MaxCards}

\* A card shows the first MaxItems of its rows that are emitted.
CardItems(d, c) ==
    LET items == {k \in DOMAIN d.maps : d.maps[k].card = d.cards[c].id /\ Emitted(d.maps[k])}
    IN  {k \in items : Place(items, k) <= MaxItems}
OnPass(d) == UNION {CardItems(d, c) : c \in PassCards(d)}

\* Card by card, and on a card each row in its place.
CardOf(d, k) == CHOOSE c \in DOMAIN d.cards : d.cards[c].id = d.maps[k].card
PassOrder(d, j, k) == IF CardOf(d, j) = CardOf(d, k) THEN j <= k
                      ELSE Before(d, CardOf(d, j), CardOf(d, k))

PassRows(d) ==
    LET shown == OnPass(d)
        PassPlace(k) == Cardinality({j \in shown : PassOrder(d, j, k)})
    IN  [n \in 1..Cardinality(shown) |-> d.maps[CHOOSE k \in shown : PassPlace(k) = n]]

\* presented_index
Index(rows) == [i \in {rows[k].item : k \in DOMAIN rows} |->
                  Presented(rows[CHOOSE k \in DOMAIN rows : rows[k].item = i])]
-----------------------------------------------------------------------------
(* record_mapped_activity: diff against what was presented, newest first.  *)

\* Nothing is known before the first document: it is a baseline only.
Fresh(rows, previous) ==
    LET changed == {k \in DOMAIN rows : /\ rows[k].item \in DOMAIN previous
                                        /\ previous[rows[k].item] # Presented(rows[k])
                                        /\ Presented(rows[k]).val # "none"}
    IN  Pick([k \in DOMAIN rows |->
                [item |-> rows[k].item, val |-> Presented(rows[k]).val]], changed)

Newest(seq) == SubSeq(seq, 1, IF Len(seq) < MaxEvents THEN Len(seq) ELSE MaxEvents)

\* Seeded fault: the new lines go behind the old ones.
FaultRing(fresh) == Newest(events \o fresh)

Ring(fresh) == Newest(fresh \o events)

Record(d) ==
    LET rows == PassRows(d)
        fresh == Fresh(rows, presented)
    IN  /\ presented' = Index(rows)
        /\ events' = Ring(fresh)
        /\ rejoined' = ((rejoined \ {fresh[k].item : k \in DOMAIN fresh})
                          \cup (DOMAIN Index(rows) \ DOMAIN presented))
                       \cap DOMAIN Index(rows)
-----------------------------------------------------------------------------
(* What a user may do to the document the editor fetched: nothing sent, an  *)
(* item or a card removed, a card renamed (or given another place), an item *)
(* given another source, put on or off the glance, moved past the next one  *)
(* of its card, an item or a card added under an id that is new (uuid4).    *)
(* (www/index.html: removeLine, deleteCard, commitRename, moveCard,         *)
(* applyForm, setOnPass, moveLine, addItem, commitNewCard; one of them per  *)
(* save, which starts 1.2 s after the last; the add-on's page has the same.) *)

UsedItems == UNION {ItemIds(d) : d \in {options, file, panel, calsave, addon}}
UsedCards == UNION {CardIds(d) : d \in {options, file, panel, calsave, addon}}

WithoutItem(d, i) ==
    [d EXCEPT !.maps = Pick(d.maps, {k \in DOMAIN d.maps : d.maps[k].item # i})]
WithoutCard(d, c) ==
    [cards |-> Pick(d.cards, {k \in DOMAIN d.cards : d.cards[k].id # c}),
     maps |-> Pick(d.maps, {k \in DOMAIN d.maps : d.maps[k].card # c})]
Retitled(d, k, t) == [d EXCEPT !.cards[k].title = t]
Rewired(d, k, s) == [d EXCEPT !.maps[k].src = s]
Toggled(d, k) == [d EXCEPT !.maps[k].rank = IF @ = 0 THEN Unranked ELSE 0]

\* Two rows change places, and their ranks if both are on the glance.
Exchanged(d, j, k) ==
    LET rows == d.maps
        At(n, row) == IF rows[j].rank # 0 /\ rows[k].rank # 0
                      THEN [row EXCEPT !.rank = rows[n].rank] ELSE row
    IN  [d EXCEPT !.maps = [@ EXCEPT ![j] = At(j, rows[k]), ![k] = At(k, rows[j])]]
Neighbours(d) ==
    {p \in (DOMAIN d.maps) \X (DOMAIN d.maps) :
        /\ p[1] < p[2] /\ d.maps[p[1]].card = d.maps[p[2]].card
        /\ \A k \in DOMAIN d.maps : p[1] < k /\ k < p[2] => d.maps[k].card # d.maps[p[1]].card}

\* A new item is off the glance unless the user puts it there before it is saved.
WithNewItem(d, i, c, s, r) ==
    [d EXCEPT !.maps = Append(@, [item |-> i, card |-> c, src |-> s, rank |-> r])]
WithNewCard(d, c, t) == [d EXCEPT !.cards = Append(@, [id |-> c, title |-> t])]

Edits(d) ==
         {Blank}
    \cup {WithoutItem(d, i) : i \in ItemIds(d)} \cup {WithoutCard(d, c) : c \in CardIds(d)}
    \cup {Retitled(d, k, t) : k \in DOMAIN d.cards, t \in Title}
    \cup {Rewired(d, k, s) : k \in DOMAIN d.maps, s \in Source}
    \cup {Toggled(d, k) : k \in DOMAIN d.maps}
    \cup {Exchanged(d, p[1], p[2]) : p \in Neighbours(d)}
    \cup {WithNewItem(d, i, c, s, r) :
             i \in Item \ UsedItems, c \in CardIds(d), s \in Source, r \in {0, Unranked}}
    \cup {WithNewCard(d, c, t) : c \in Card \ UsedCards, t \in Title}
-----------------------------------------------------------------------------
(* The panel's editor: GET and edit; the handler on the loop; its job.     *)

PanelOpen ==
    /\ panel.pc = "idle" /\ saves < MaxSaves
    /\ saves' = saves + 1
    /\ \E d \in Edits(Mapping) : panel' = [Idle EXCEPT !.pc = "open", !.cards = d.cards, !.maps = d.maps]
    /\ UNCHANGED <<stores, calsave, addon, hidden, updated, ha, tracked, pending, activity,
                   changes, mishaps>>

\* The house writes another file and renames it: one the add-on has truncated is gone, and
\* what it fills in reaches nobody.
Replaced == IF addon.pc = "fill" THEN [addon EXCEPT !.pc = "stray"] ELSE addon

\* seed_shared_mapping: only into a file without a card and a row, and never
\* an empty mapping; the calendars are not part of it.
Seeds(d) == /\ d.cards # <<>> \/ d.maps # <<>>
            /\ file.cards = <<>> /\ file.maps = <<>>
Seeded(d) == IF Seeds(d) THEN File(d, {}) ELSE file
Seed(d) == file' = Seeded(d) /\ addon' = IF Seeds(d) THEN Replaced ELSE addon

PanelPost ==
    /\ panel.pc = "open"
    /\ LET d == Normalize([cards |-> panel.cards, maps |-> panel.maps], Mapping)
       IN  /\ options' = d
           /\ updated' = (updated \/ options # d)
           /\ Seed(d)
           /\ panel' = [panel EXCEPT !.pc = "read", !.cards = d.cards, !.maps = d.maps]
    /\ UNCHANGED <<calsave, hidden, ha, tracked, pending, activity, bounds>>

PanelRead ==
    /\ panel.pc = "read"
    /\ panel' = [panel EXCEPT !.pc = "write", !.cal = file.cal]
    /\ UNCHANGED <<stores, calsave, addon, hidden, updated, ha, tracked, pending, activity, bounds>>

\* The write may fail: the handler goes on.  Then async_rebind.
PanelWrite ==
    /\ panel.pc = "write"
    /\ \/ /\ file' = File(panel, panel.cal)
          /\ addon' = Replaced
          /\ UNCHANGED mishaps
       \/ /\ mishaps < MaxMishaps
          /\ mishaps' = mishaps + 1
          /\ UNCHANGED <<file, addon>>
    /\ tracked' = Entities(Merge(options, file'))
    /\ panel' = Idle
    /\ UNCHANGED <<options, calsave, hidden, updated, ha, pending, activity, saves, changes>>

OptionsUpdated ==
    /\ updated
    /\ updated' = FALSE
    /\ tracked' = Entities(Mapping)
    /\ Record(Mapping)
    /\ UNCHANGED <<stores, requests, hidden, ha, pending, bounds>>
-----------------------------------------------------------------------------
(* The calendar section: read, change, write, in an executor thread.       *)

CalRead ==
    /\ calsave.pc = "idle" /\ saves < MaxSaves
    /\ saves' = saves + 1
    /\ \E shown \in SUBSET Calendar :
          calsave' = [pc |-> "write", cards |-> file.cards, maps |-> file.maps, cal |-> shown]
    /\ UNCHANGED <<stores, panel, addon, hidden, updated, ha, tracked, pending, activity,
                   changes, mishaps>>

CalWrite ==
    /\ calsave.pc = "write"
    /\ file' = File(calsave, calsave.cal)
    /\ addon' = Replaced
    /\ hidden' = Calendar \ calsave.cal
    /\ calsave' = Idle
    /\ UNCHANGED <<options, panel, updated, ha, tracked, pending, activity, bounds>>
-----------------------------------------------------------------------------
(* The add-on: another process; it reads the file, truncates it and fills  *)
(* it in place, and nobody tells the integration.                          *)

AddonRead ==
    /\ addon.pc = "idle" /\ saves < MaxSaves
    /\ saves' = saves + 1
    /\ \E body \in Edits([cards |-> file.cards, maps |-> file.maps]) :
          LET d == AddonSaved(body, file)
          IN  addon' = [pc |-> "open", cards |-> d.cards, maps |-> d.maps, cal |-> file.cal]
    /\ UNCHANGED <<stores, panel, calsave, hidden, updated, ha, tracked, pending, activity,
                   changes, mishaps>>

AddonTruncate ==
    /\ addon.pc = "open"
    /\ file' = File(Blank, {})
    /\ addon' = [addon EXCEPT !.pc = "fill"]
    /\ UNCHANGED <<options, panel, calsave, hidden, updated, ha, tracked, pending, activity, bounds>>

AddonFill ==
    /\ addon.pc \in {"fill", "stray"}
    /\ file' = IF addon.pc = "fill" THEN File(addon, addon.cal) ELSE file
    /\ addon' = Idle
    /\ UNCHANGED <<options, panel, calsave, hidden, updated, ha, tracked, pending, activity, bounds>>

AddonDies ==
    /\ addon.pc # "idle" /\ mishaps < MaxMishaps
    /\ mishaps' = mishaps + 1
    /\ addon' = Idle
    /\ UNCHANGED <<stores, panel, calsave, hidden, updated, ha, tracked, pending, activity,
                   saves, changes>>
-----------------------------------------------------------------------------
(* Entities change; the scheduler emits; the house restarts.               *)

\* The state (Unset) or an attribute of an entity changes; either wakes the scheduler.
Change(e, a, v) ==
    /\ changes < MaxChanges /\ ha[e][a] # v
    /\ changes' = changes + 1
    /\ ha' = [ha EXCEPT ![e][a] = v]
    /\ pending' = (pending \/ e \in tracked)
    /\ UNCHANGED <<stores, requests, hidden, updated, tracked, activity, saves, mishaps>>

Emit ==
    /\ pending
    /\ pending' = FALSE
    /\ Record(Mapping)
    /\ UNCHANGED <<stores, requests, hidden, updated, ha, tracked, bounds>>

\* The requests are lost, the runtime starts empty; setup seeds, binds, emits.
Restart ==
    /\ mishaps < MaxMishaps
    /\ mishaps' = mishaps + 1
    /\ Seed(options)
    /\ panel' = Idle /\ calsave' = Idle
    /\ updated' = FALSE /\ pending' = FALSE
    /\ LET d == Merge(options, Seeded(options))
           shown == Index(PassRows(d))
       IN  /\ tracked' = Entities(d)
           /\ presented' = shown
           /\ rejoined' = DOMAIN shown
    /\ events' = <<>>
    /\ UNCHANGED <<options, hidden, ha, saves, changes>>
-----------------------------------------------------------------------------
\* A house with one card and one item in both places and every calendar shown;
\* setup has run.
MappingInit ==
    /\ \E c \in Card, i \in Item, s \in Source :
          options = [cards |-> <<[id |-> c, title |-> CHOOSE t \in Title : TRUE]>>,
                     maps |-> <<[item |-> i, card |-> c, src |-> s, rank |-> 1]>>]
    /\ file = File(options, Calendar)
    /\ hidden = Calendar \ file.cal
    /\ panel = Idle /\ calsave = Idle /\ addon = Idle
    /\ ha = [e \in Entity |-> [a \in Attribute \cup {Unset} |-> "on"]]
    /\ tracked = Entities(options)
    /\ presented = Index(PassRows(options))
    /\ rejoined = DOMAIN presented
    /\ events = <<>>
    /\ updated = FALSE /\ pending = FALSE
    /\ saves = 0 /\ changes = 0 /\ mishaps = 0

MappingNext ==
    \/ PanelOpen \/ PanelPost \/ PanelRead \/ PanelWrite \/ OptionsUpdated
    \/ CalRead \/ CalWrite
    \/ AddonRead \/ AddonTruncate \/ AddonFill \/ AddonDies
    \/ \E e \in Entity, a \in Attribute \cup {Unset}, v \in State : Change(e, a, v)
    \/ Emit
    \/ Restart

MappingSpec == MappingInit /\ [][MappingNext]_mappingVars
-----------------------------------------------------------------------------
MappingTypeOK ==
    /\ options \in DocType /\ file \in FileType
    /\ panel \in RequestType({"idle", "open", "read", "write"})
    /\ calsave \in RequestType({"idle", "write"})
    /\ addon \in RequestType({"idle", "open", "fill", "stray"})
    /\ hidden \subseteq Calendar /\ updated \in BOOLEAN /\ pending \in BOOLEAN
    /\ ha \in [Entity -> [Attribute \cup {Unset} -> State]] /\ tracked \subseteq Entity
    /\ DOMAIN presented \subseteq Item /\ \A i \in DOMAIN presented : presented[i] \in ShownType
    /\ events \in Seq(EventType) /\ Len(events) <= MaxEvents
    /\ rejoined \subseteq DOMAIN presented
    /\ saves \in 0..MaxSaves /\ changes \in 0..MaxChanges /\ mishaps \in 0..MaxMishaps

\* The document, the facts for the attention pushes and the editor each collapse
\* what merge_options collapsed already, and an editor saves into two places that
\* are united again: none of that may change the mapping.  Collapsing once more
\* changes nothing; a POST without lists keeps the mapping; a POST of what the
\* editor fetched keeps every row the pass shows on its card; and what it saved
\* reads back as saved.
SaveIsStable ==
    LET m == Mapping
        saved == Normalize(m, m)
        Shown(d) == {<<OnACard(d)[k].item, OnACard(d)[k].card>> : k \in DOMAIN OnACard(d)}
    IN  /\ Collapse(m) = m
        /\ Normalize(Blank, m) = m
        /\ Shown(saved) = Shown(m)
        /\ Merge(saved, saved) = saved

\* Whatever the add-on, the calendar section, a cut write or a restart do to the
\* file, what the panel saved is served: the item stays mapped, or another item
\* shows its source; and no item and no source is mapped twice.  The source of an
\* item is put together from what the two places say of it: its entity, its
\* attribute and its label are each what one of them gives this item.  (The whole
\* need not be in either: a file row that clears the attribute leaves the one the
\* options have.)
SavedIsServed ==
    LET m == Mapping
        Rows(d) == {d.maps[k] : k \in DOMAIN d.maps}
        Given(i, f) == {r.src[f] : r \in {q \in Rows(options) \cup Rows(file) : q.item = i}}
    IN  /\ \A i \in ItemIds(options) : \E k \in DOMAIN m.maps :
              /\ i \in ItemIds(m) => m.maps[k].item = i
              /\ \A f \in Fields : m.maps[k].src[f] \in Given(i, f)
        /\ \A j, k \in DOMAIN m.maps :
              j # k => m.maps[j].item # m.maps[k].item /\ m.maps[j].src # m.maps[k].src

\* The newest line of the activity list about an item tells the value the pass
\* shows for it, as long as it shows one and the item has not left the pass in
\* between (an item that enters the pass makes no line).
RingTruthful ==
    \A i \in DOMAIN presented \ rejoined : \A k \in DOMAIN events :
        (/\ events[k].item = i
         /\ \A j \in 1..(k - 1) : events[j].item # i)
        => presented[i].val \in {events[k].val, "none"}

\* The calendar section is the only place that shows a calendar to the guests:
\* what the owner's last save there hid stays hidden.  (It does not: the panel's
\* and the add-on's save carry the calendars they read before.)
HiddenStaysHidden == file.cal \cap hidden = {}
=============================================================================
