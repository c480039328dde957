------------------------- MODULE OfferReconciliation -------------------------
(***************************************************************************)
(* The rules of reconciliation.py and of the two unions of dual.py: how    *)
(* the rows of one or two readers become the items of an extraction.       *)
(*                                                                         *)
(* A row is an offer on a page, 0 when its page is unknown.  A name stands *)
(* for all names that score 0.92 or more together, a price for all fields  *)
(* of conflicting_fields.                                                  *)
(***************************************************************************)
EXTENDS Integers, Sequences, FiniteSets, SequencesExt

CONSTANTS
    Names, Prices,
    Alike       \* the pairs of names that score from 0.70 up to 0.91

ASSUME AlikeAssumption == \A pair \in Alike : pair \subseteq Names /\ Cardinality(pair) = 2

Same == 92
Near == 70

(* agreement_score, in hundredths.                                         *)
Score(a, b) ==
    IF a.name = b.name THEN 100
    ELSE IF {a.name, b.name} \in Alike THEN 80
    ELSE 0

Conflicting(a, b) == a.price # b.price

(* What an item keeps of its row; its status is "agreed", "single", or     *)
(* "review" when a person must decide.                                     *)
Item(row, status) ==
    [page |-> row.page, name |-> row.name, price |-> row.price, status |-> status]

Single(row) == Item(row, IF row.page = 0 THEN "review" ELSE "single")

-----------------------------------------------------------------------------
(* Pairs of rows of one known page that may be one offer.                  *)
EdgesOfAnyPage(L, R) ==
    {e \in (DOMAIN L) \X (DOMAIN R) :
        L[e[1]].page = R[e[2]].page /\ Score(L[e[1]], R[e[2]]) >= Near}
Edges(L, R) ==
    {e \in (DOMAIN L) \X (DOMAIN R) :
        /\ L[e[1]].page # 0 /\ L[e[1]].page = R[e[2]].page
        /\ Score(L[e[1]], R[e[2]]) >= Near}

Strength(L, R, e) == Score(L[e[1]], R[e[2]])

Stronger(L, R, e, f) ==
    \/ Strength(L, R, e) > Strength(L, R, f)
    \/ /\ Strength(L, R, e) = Strength(L, R, f)
       /\ \/ e[1] < f[1]
          \/ e[1] = f[1] /\ e[2] < f[2]

Meet(e, f) == e[1] = f[1] \/ e[2] = f[2]

(* One-to-one: the strongest edge, and on without those that meet it.      *)
Pairs(L, R) ==
    LET greedy[E \in SUBSET Edges(L, R)] ==
            IF E = {} THEN {}
            ELSE LET e == CHOOSE f \in E : \A g \in E \ {f} : Stronger(L, R, f, g)
                 IN {e} \cup greedy[{f \in E : ~Meet(e, f)}]
    IN greedy[Edges(L, R)]

Tied(L, R, e) ==
    \E f \in Edges(L, R) \ {e} : Meet(e, f) /\ Strength(L, R, f) >= Strength(L, R, e)

Agrees(L, R, e) ==
    /\ Strength(L, R, e) >= Same
    /\ ~Conflicting(L[e[1]], R[e[2]])
    /\ ~Tied(L, R, e)

OnlyLeftUnpaired(L, R) ==
    {L[i] : i \in {k \in DOMAIN L : \A e \in Pairs(L, R) : e[1] # k}}

Unpaired(L, R) ==
    LET pairs == Pairs(L, R)
    IN {L[i] : i \in {k \in DOMAIN L : \A e \in pairs : e[1] # k}}
         \cup {R[j] : j \in {k \in DOMAIN R : \A e \in pairs : e[2] # k}}

(* reconcile_items: what both readers agree on and what one alone read.    *)
Reconciled(L, R) ==
    {Item(L[e[1]], "agreed") : e \in {f \in Pairs(L, R) : Agrees(L, R, f)}}
        \cup {Single(row) : row \in Unpaired(L, R)}

(* The ledger of pairs that are left to a person.                          *)
Unresolved(L, R) ==
    {{L[e[1]], R[e[2]]} : e \in {f \in Pairs(L, R) : ~Agrees(L, R, f)}}

UnresolvedOn(L, R, page) ==
    Cardinality({e \in Pairs(L, R) : ~Agrees(L, R, e) /\ L[e[1]].page = page})

-----------------------------------------------------------------------------
Duplicates(items, item) ==
    {old \in items : /\ old.page = item.page /\ Score(old, item) >= Same
                     /\ ~Conflicting(old, item)}

NoSupplement(items, earlier) == items

(* _supplement: the earlier items that are missing; an agreed one replaces *)
(* the same offer of one reader.                                           *)
Supplement(items, earlier) ==
    {old \in items : old.status = "agreed"
                        \/ \A item \in Duplicates(earlier, old) : item.status # "agreed"}
        \cup {item \in earlier : \/ Duplicates(items, item) = {}
                                 \/ /\ item.status = "agreed"
                                    /\ \A old \in Duplicates(items, item) : old.status # "agreed"}

(* _reader_reread: the latest reading of a row that is found once.         *)
RereadRow(rows, row) ==
    LET found == {i \in DOMAIN rows : /\ row.page # 0 /\ rows[i].page = row.page
                                      /\ Score(rows[i], row) >= Same}
    IN IF Cardinality(found) = 1
       THEN [rows EXCEPT ![CHOOSE i \in found : TRUE] = row]
       ELSE Append(rows, row)
Reread(rows, incoming) == FoldLeft(RereadRow, rows, incoming)

(* An item that a pair left to a person speaks about.                      *)
Disputed(item, unresolved) ==
    \E pair \in unresolved : \E row \in pair :
        row.page = item.page /\ Score(item, row) >= Same

WithDisputes(items, unresolved) ==
    {IF Disputed(item, unresolved) THEN Item(item, "review") ELSE item : item \in items}
=============================================================================
