-------------------------------- MODULE Source --------------------------------
(* data::Source: a tree of categories, each with items of its own.  Whoever *)
(* looks l levels deep sees one list: of every category its subcategories,  *)
(* one after another (with subcats, each is headed by an entry for itself), *)
(* then its items.  Nothing keeps that list: counts, slices and bounds are  *)
(* computed from the tree by walking down it.                               *)
EXTENDS Integers, SequencesExt

CONSTANTS Trees,        \* the sources there may be
          Self          \* the index that stands for a category's own entry

ASSUME SourceParameters ==
    \A t \in Trees : t.items \in Nat /\ t.subs \in Seq(Trees)

Numbers(seq) ==
    LET sum[k \in 0..Len(seq)] == IF k = 0 THEN 0 ELSE sum[k - 1] + seq[k] IN sum[Len(seq)]

(* getCount: how long the list is.                                          *)
GetCount(s, l, subcats) ==
    LET count[t \in Trees, m \in Nat] ==
            t.items + (IF subcats THEN Len(t.subs) ELSE 0)
            + (IF m = 0 THEN 0 ELSE Numbers([i \in DOMAIN t.subs |-> count[t.subs[i], m - 1]]))
    IN  count[s, l]

-----------------------------------------------------------------------------
(* onSlice walks down the tree with what it still has to skip and to take.  *)
(* What it has not visited yet is a list here: the items of a category come *)
(* after all its subcategories.                                             *)
Slice(cat, i, n) == [cat |-> cat, idx |-> i, len |-> n]

Visit == [cat : Trees, level : Nat, own : BOOLEAN]

(* A mistake: the items of a category before its subcategories.             *)
Inside_OwnFirst(cat, m) ==
    << [cat |-> cat, level |-> m, own |-> TRUE] >> \o
    (IF m = 0 THEN <<>>
     ELSE [i \in DOMAIN cat.subs |-> [cat |-> cat.subs[i], level |-> m - 1, own |-> FALSE]])

Inside(cat, m) ==
    (IF m = 0 THEN <<>>
     ELSE [i \in DOMAIN cat.subs |-> [cat |-> cat.subs[i], level |-> m - 1, own |-> FALSE]])
    \o << [cat |-> cat, level |-> m, own |-> TRUE] >>

OnSlice(s, first, count, l, subcats) ==
    LET head == IF subcats THEN 1 ELSE 0
        walk[todo \in Seq(Visit), skip \in Nat, left \in Nat, vec \in Seq([cat : Trees, idx : Nat \cup {Self}, len : Nat])] ==
            IF todo = <<>> THEN vec ELSE
            LET at   == todo[1]
                rest == Tail(todo)
                took == Min({left, at.cat.items - skip})
                size == GetCount(at.cat, at.level, subcats)
            IN  CASE at.own /\ left > 0 /\ skip < at.cat.items ->
                        walk[rest, 0, left - took, Append(vec, Slice(at.cat, skip, took))]
                  [] at.own /\ skip >= at.cat.items ->
                        walk[rest, skip - at.cat.items, left, vec]
                  [] ~at.own /\ skip > 0 /\ size <= skip - head ->
                        walk[rest, skip - head - size, left, vec]
                  [] ~at.own /\ skip > 0 /\ size > skip - head ->
                        walk[Inside(at.cat, at.level) \o rest, skip - head, left, vec]
                  [] ~at.own /\ skip = 0 /\ left > head ->
                        walk[Inside(at.cat, at.level) \o rest, 0, left - head,
                             IF subcats THEN Append(vec, Slice(at.cat, Self, 1)) ELSE vec]
                  [] ~at.own /\ skip = 0 /\ left = 1 /\ subcats ->
                        walk[rest, 0, 0, Append(vec, Slice(at.cat, Self, 1))]
                  [] OTHER -> walk[rest, skip, left, vec]
    IN  walk[Inside(s, l), first, count, <<>>]

-----------------------------------------------------------------------------
(* setCategoryBounds widens a range to whole subcategories.  Both its loops *)
(* look for a border, from below and from above; neither counts the entries *)
(* of the subcategories themselves.                                         *)
Counts(s, l, subcats) == [i \in DOMAIN s.subs |-> GetCount(s.subs[i], l - 1, subcats)]

Before(counts, k) == Numbers(SubSeq(counts, 1, k))
After(counts, k)  == Numbers(SubSeq(counts, k + 1, Len(counts)))

LowerBound(counts, first) ==
    Max({Before(counts, k) : k \in 0..Len(counts)} \cap 0..first)

UpperBound(s, counts, end, total) ==
    LET from == IF total - s.items >= end THEN total - s.items ELSE total
    IN  Min({from} \cup {from - After(counts, k) : k \in {j \in DOMAIN counts : from - After(counts, j) >= end}})

SetCategoryBounds(s, first, count, l, subcats) ==
    LET total  == GetCount(s, l, subcats)
        counts == Counts(s, l, subcats)
        lower  == LowerBound(counts, first)
    IN  IF l = 0 \/ s.subs = <<>> THEN [first |-> 0, count |-> total]
        ELSE [first |-> lower, count |-> UpperBound(s, counts, first + count, total) - lower]

-----------------------------------------------------------------------------
(* The list itself, and the part of it that slices name.                    *)
Flat(s, l, subcats) ==
    LET Entry(cat) == IF subcats THEN << <<cat.name, Self>> >> ELSE <<>>
        flat[t \in Trees, m \in Nat] ==
            (IF m = 0 THEN <<>>
             ELSE FlattenSeq([i \in DOMAIN t.subs |-> Entry(t.subs[i]) \o flat[t.subs[i], m - 1]]))
            \o [i \in 1..t.items |-> <<t.name, i - 1>>]
    IN  flat[s, l]

Named(slice) == [k \in 1..slice.len |-> <<slice.cat.name, IF slice.idx = Self THEN Self ELSE slice.idx + k - 1>>]
=============================================================================
