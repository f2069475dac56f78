---------------------------- MODULE MessagePages ----------------------------
(***************************************************************************)
(* The pure functions of routes.py that cut pages out of lists of stored   *)
(* messages: pagination, search and the background poll.  A list is a      *)
(* sequence of records with an id; ids are compared as numbers, which is   *)
(* what comparing "msg_" and twelve digits does; 0 stands for no id.       *)
(***************************************************************************)
EXTENDS Integers, SequencesExt, FiniteSetsExt

(* sorted(msgs + meta, key=id): no two messages share an id.               *)
Merged(msgs, meta) ==
    LET all == Range(msgs) \cup Range(meta)
        Earlier(m) == {x \in all : x.id < m.id}
    IN [i \in 1..Cardinality(all) |->
           CHOOSE m \in all : Cardinality(Earlier(m)) = i - 1]

(* The place of an id in the list, 0 when it is not there.                 *)
Place(msgs, id) ==
    LET places == {i \in DOMAIN msgs : msgs[i].id = id}
    IN IF places = {} THEN 0 ELSE Min(places)

(* msgs[:idx] and msgs[idx + 1:]; an id that is not there cuts nothing.    *)
CutBefore(msgs, id) ==
    IF Place(msgs, id) = 0 THEN msgs ELSE SubSeq(msgs, 1, Place(msgs, id) - 1)

CutAfter(msgs, id) == SubSeq(msgs, Place(msgs, id) + 1, Len(msgs))

(* Mutant: the first messages of the list.                                 *)
Oldest(msgs, limit) == SubSeq(msgs, 1, Min({limit, Len(msgs)}))

Newest(msgs, limit) == SubSeq(msgs, Max({1, Len(msgs) - limit + 1}), Len(msgs))

Page(msgs, limit, before, after) ==
    LET cut == CutAfter(CutBefore(msgs, before), after)
    IN [messages |-> Newest(cut, limit), has_more |-> Len(cut) > limit]

(* Mutant: the window may reach beyond the end of the list.                *)
WindowUnclamped(len, place, limit) ==
    LET start == Max({0, place - 1 - limit \div 2})
    IN [start |-> start, end |-> Min({len, start + limit})]

(* The bounds of msgs[start:end] around a place of the list.               *)
Window(len, place, limit) ==
    LET start == Max({0, place - 1 - limit \div 2})
    IN IF start + limit > len
         THEN [start |-> Max({0, len - limit}), end |-> len]
         ELSE [start |-> start, end |-> start + limit]

(* Around an id that is not there, the page is the one before and after.   *)
PageAround(msgs, limit, before, after, around) ==
    LET w == Window(Len(msgs), Place(msgs, around), limit)
    IN IF Place(msgs, around) = 0 THEN Page(msgs, limit, before, after)
       ELSE [messages |-> SubSeq(msgs, w.start + 1, w.end),
             has_more |-> w.start > 0]

(* Mutant: the search starts at the anchor itself.                         *)
FromAnchor(msgs, anchor, direction) ==
    LET i == Place(msgs, anchor)
    IN IF direction = "backward"
         THEN Reverse(SubSeq(msgs, 1, IF i = 0 THEN Len(msgs) ELSE i))
         ELSE SubSeq(msgs, Max({1, i}), Len(msgs))

(* The messages in the order in which the search looks at them.            *)
FromNextTo(msgs, anchor, direction) ==
    LET i == Place(msgs, anchor)
    IN IF direction = "backward"
         THEN Reverse(SubSeq(msgs, 1, IF i = 0 THEN Len(msgs) ELSE i - 1))
         ELSE SubSeq(msgs, i + 1, Len(msgs))

(* The messages of a list that match the query, in the order of the list.  *)
Matching(msgs) ==
    LET hits == {i \in DOMAIN msgs : msgs[i].hit}
        Earlier(i) == {j \in hits : j < i}
    IN [k \in 1..Cardinality(hits) |->
           msgs[CHOOSE i \in hits : Cardinality(Earlier(i)) = k - 1]]

Search(msgs, anchor, direction, limit) ==
    LET matches == Matching(FromNextTo(msgs, anchor, direction))
    IN [messages |-> SubSeq(matches, 1, Min({limit, Len(matches)})),
        has_more |-> Len(matches) > limit]

(* _messages_since: what the poll reports of one conversation.             *)
Since(msgs, pointer) ==
    IF pointer = 0 THEN {}
    ELSE {m \in Range(msgs) : m.id > pointer /\ ~m.meta}

(* Mutant: the poll reports the newest items.                              *)
LastItems(items, limit) ==
    {x \in items : Cardinality({y \in items : y.id > x.id}) < limit}

(* The first items in the order of their ids, of all conversations.        *)
FirstItems(items, limit) ==
    {x \in items : Cardinality({y \in items : y.id < x.id}) < limit}
=============================================================================
