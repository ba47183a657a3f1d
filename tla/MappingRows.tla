---------------------------- MODULE MappingRows ----------------------------
(***************************************************************************)
(* The pure part of mapping.py: what the house shows on the pass is a list *)
(* of cards and a list of mapping rows, kept twice (the options of the     *)
(* config entry and mapping.json) and united on every read.                *)
(*                                                                         *)
(* A card is [id, title]; titles are compared without case and blanks, so  *)
(* a title here is the folded one, and its number is the place the         *)
(* priority and the title give the card on the pass.  A mapping row is     *)
(* [item, card, src, rank]: src is what the row shows, its entity, and the *)
(* attribute and the label, which may be Unset; rank is featured_rank (0:  *)
(* not on the glance, Unranked: on it without a place).  Rows without an   *)
(* entity (placeholders) and rows without an item_id are not represented,  *)
(* nor are the fields that tell how a value is read (type, unit, limits).  *)
(***************************************************************************)
EXTENDS Naturals, Sequences, FiniteSets, FiniteSetsExt

CONSTANTS Protected,    \* PROTECTED_WEATHER_ITEM_IDS
          MaxOnPass,    \* MAX_ON_PASS
          Unset          \* no attribute, no label

ASSUME MaxOnPassAssumption == MaxOnPass \in Nat \ {0}

-----------------------------------------------------------------------------
(* The code filters a list row by row; here the rows at the positions of K, in  *)
(* the order they have.                                                         *)

\* f over 1..n, written so that TLC keeps it as a tuple (states stay small).
List(f) == <<>> \o f

\* The place of k among the positions of K.
Place(K, k) == Cardinality({j \in K : j <= k})

Pick(s, K) == List([n \in 1..Cardinality(K) |-> s[CHOOSE k \in K : Place(K, k) = n]])
-----------------------------------------------------------------------------
Unranked == 99

Blank == [cards |-> <<>>, maps |-> <<>>]

CardIds(d) == {d.cards[k].id : k \in DOMAIN d.cards}
ItemIds(d) == {d.maps[k].item : k \in DOMAIN d.maps}

\* A card takes the fields of the last overlaid one of its id; all of them are set.
OverlayCard(card, cards) ==
    LET same == {k \in DOMAIN cards : cards[k].id = card.id}
    IN  IF same = {} THEN card ELSE cards[Max(same)]

\* A row takes each field from the last overlaid row of its item that has it set: an
\* attribute or a label that is empty in the overlaid rows stays what it was, so the
\* source may be one that neither list holds.
Fields == {"entity", "attr", "label"}

OverlayField(row, rows, f) ==
    LET given == {k \in DOMAIN rows : rows[k].item = row.item /\ rows[k].src[f] # Unset}
    IN  IF given = {} THEN row.src[f] ELSE rows[Max(given)].src[f]

OverlaySource(row, rows) == [entity |-> OverlayField(row, rows, "entity"),
                             attr   |-> OverlayField(row, rows, "attr"),
                             label  |-> OverlayField(row, rows, "label")]

OverlayRow(row, rows) ==
    LET same == {k \in DOMAIN rows : rows[k].item = row.item}
        ranked == {k \in same : rows[k].rank # 0}
    IN  IF same = {} THEN row
        ELSE [rows[Max(same)] EXCEPT !.src = OverlaySource(row, rows),
                                     !.rank = IF ranked = {} THEN row.rank
                                              ELSE rows[Max(ranked)].rank]

\* Keep base, whose keys are distinct, overlay extra on the same key, append what is new.
UnionCards(base, extra) ==
    LET all == base \o extra
        Firsts == {k \in DOMAIN all : \A j \in DOMAIN all : all[j].id = all[k].id => k <= j}
    IN  Pick([k \in DOMAIN all |-> OverlayCard(all[k], extra)], Firsts)

\* Seeded fault (each Fault... definition is a bug a property must notice): a file
\* with rows replaces the options' rows.
FaultUnionRows(base, extra) == IF extra = <<>> THEN base ELSE extra

UnionRows(base, extra) ==
    LET all == base \o extra
        Firsts == {k \in DOMAIN all : \A j \in DOMAIN all : all[j].item = all[k].item => k <= j}
    IN  Pick([k \in DOMAIN all |-> OverlayRow(all[k], extra)], Firsts)

\* One row per item: the first, but the last of a protected item, in the place
\* of the first.
OnePerItem(rows) ==
    LET Same(k) == {j \in DOMAIN rows : rows[j].item = rows[k].item}
    IN  Pick([k \in DOMAIN rows |->
                IF rows[k].item \in Protected THEN rows[Max(Same(k))] ELSE rows[k]],
             {k \in DOMAIN rows : \A j \in Same(k) : k <= j})

\* Then one row per source: the last of the protected items that claim it, else
\* the first.
OnePerSource(rows) ==
    LET Same(k) == {j \in DOMAIN rows : rows[j].src = rows[k].src}
        claims == {k \in DOMAIN rows : rows[k].item \in Protected}
    IN  Pick(rows, {k \in DOMAIN rows :
                      IF k \in claims THEN \A j \in Same(k) \cap claims : j <= k
                      ELSE Same(k) \cap claims = {} /\ \A j \in Same(k) : k <= j})

Dedupe(rows) == OnePerSource(OnePerItem(rows))

\* The first MaxOnPass rows on the glance, by rank and then by place, get the
\* ranks 1, 2, ...; every other row leaves the glance.
Ahead(rows, j, k) == \/ rows[j].rank < rows[k].rank
                     \/ rows[j].rank = rows[k].rank /\ j <= k

AssignRanks(rows) ==
    LET checked == {k \in DOMAIN rows : rows[k].rank # 0}
        Rank(k) == Cardinality({j \in checked : Ahead(rows, j, k)})
    IN  List([k \in DOMAIN rows |->
                [rows[k] EXCEPT !.rank =
                    IF k \in checked /\ Rank(k) <= MaxOnPass THEN Rank(k) ELSE 0]])

ItemCount(c, rows) == Cardinality({k \in DOMAIN rows : rows[k].card = c})

\* Of the cards of one title, the one with most items, the first of equals.
Survivor(d, k) ==
    LET same == {j \in DOMAIN d.cards : d.cards[j].title = d.cards[k].title}
        Count(j) == ItemCount(d.cards[j].id, d.maps)
    IN  CHOOSE j \in same :
            \A i \in same : \/ Count(i) < Count(j)
                            \/ Count(i) = Count(j) /\ j <= i

\* One card per title; the items of the dropped cards move to the one kept.
Collapse(d) ==
    LET Home(c) == IF \E k \in DOMAIN d.cards : d.cards[k].id = c
                   THEN d.cards[Survivor(d, CHOOSE k \in DOMAIN d.cards : d.cards[k].id = c)].id
                   ELSE c
        moved == [k \in DOMAIN d.maps |-> [d.maps[k] EXCEPT !.card = Home(@)]]
    IN  [cards |-> Pick(d.cards, {k \in DOMAIN d.cards : Survivor(d, k) = k}),
         maps |-> AssignRanks(Dedupe(moved))]

\* What the house works with: the options of the entry, overlaid with the file.
Merge(options, file) ==
    Collapse([cards |-> UnionCards(options.cards, file.cards),
              maps  |-> UnionRows(options.maps, file.maps)])

\* The rows of the document's own cards.
OnACard(d) == Pick(d.maps, {k \in DOMAIN d.maps : d.maps[k].card \in CardIds(d)})

\* Seeded fault: an empty list of items is saved as it is.
FaultNormalize(body, existing) ==
    Collapse([cards |-> IF body.cards = <<>> THEN existing.cards ELSE body.cards,
              maps  |-> OnACard(body)])

\* An editor POST: rows of unknown cards are skipped, and an empty list keeps
\* what the house already has.
Normalize(body, existing) ==
    LET known == OnACard(body)
    IN  Collapse([cards |-> IF body.cards = <<>> THEN existing.cards ELSE body.cards,
                  maps  |-> IF known = <<>> THEN existing.maps ELSE known])

\* The add-on's save_mapping has its own copy of the union and the collapse.
AddonSaved(body, existing) ==
    LET kept == body.maps = <<>> /\ existing.maps # <<>>
    IN  Collapse([maps  |-> IF kept THEN existing.maps ELSE body.maps,
                  cards |-> IF body.cards = <<>> THEN existing.cards
                            ELSE IF kept THEN UnionCards(existing.cards, body.cards)
                            ELSE body.cards])
=============================================================================
