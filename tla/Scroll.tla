-------------------------------- MODULE Scroll --------------------------------
(* material::Scroll shows a window of the list that a data::Source has      *)
(* (Source).  It asks for slices: all of the window when the source has     *)
(* changed, the part before or behind when a loader comes into view.  The   *)
(* categories answer when they can; a worker turns the data into items; an  *)
(* answer that was asked for before the last request is ignored.            *)
EXTENDS Source

CONSTANTS Sources,      \* what the scroll may be given
          Categories,   \* the subcategories that may be added
          Views,        \* how deep one looks, with entries for subcategories or not
          Saved,        \* windows that load() may find, from an earlier life
          SliceMax,     \* _sliceMax
          Origin,       \* _sliceOrigin
          MaxEdition,   \* bound: changes of the list, and of the view's width
          MaxAsked,     \* bound: a loader does not ask while so many answers are out
          Patient       \* loaders do not enter while the window is asked for anew

ASSUME ScrollParameters ==
    /\ SliceMax \in Nat \ {0} /\ Origin \in Nat
    /\ Sources \subseteq Trees /\ Categories \subseteq Trees
    /\ MaxEdition \in Nat /\ MaxAsked \in Nat /\ Patient \in BOOLEAN
    /\ \A v \in Views : v.level \in Nat /\ v.subcats \in BOOLEAN
    /\ Saved \subseteq Nat \X Nat

VARIABLES source, edition,  \* _listener's source; how often its list has changed
          resizes,          \* how often the view's width has changed
          since,            \* the edition it was set with
          dirty,            \* the listener has something to tell at the next frame
          view, bounds,     \* _categoryLookupLevel, _itemsForSubcats; _useCategoryBounds
          categoryDirty,
          itemsCount, sliceSize,
          items,            \* _items: what was answered for each id
          start, len,       \* _currentSliceStart, _currentSliceLen
          loaders,          \* the sides that have a loader
          asked,            \* the SliceRequests that wait for categories
          loading           \* the tasks of ResourceManager's thread, in order

config == <<view, bounds, categoryDirty>>
window == <<items, start, len, loaders>>
vars   == <<source, edition, resizes, since, dirty, config, itemsCount, sliceSize, window, asked, loading>>

Total == GetCount(source, view.level, view.subcats)
List  == Flat(source, view.level, view.subcats)

Kinds == {"Reset", "Update", "Front", "Back"}

(* The types of the state; what is shown was there at some time.            *)
TypeOK ==
    /\ source \in Sources /\ edition \in 0..MaxEdition /\ resizes \in 0..MaxEdition - edition /\ since \in 0..edition
    /\ dirty \in BOOLEAN /\ view \in Views /\ bounds \in BOOLEAN /\ categoryDirty \in BOOLEAN
    /\ itemsCount \in Nat /\ sliceSize \in 0..SliceMax + 1
    /\ DOMAIN items \subseteq Nat /\ \A i \in DOMAIN items : items[i].edition \in 0..edition
    /\ start \in Nat /\ len \in Nat /\ loaders \subseteq {"Front", "Back"}
    /\ \A r \in asked : r.type \in Kinds /\ r.asked \in 0..edition /\ r.vec # <<>>
    /\ \A k \in DOMAIN loading : loading[k].type \in Kinds /\ loading[k].data # <<>>

Init ==
    /\ source \in Sources /\ edition = 0 /\ resizes = 0 /\ since = 0 /\ dirty = TRUE
    /\ view \in Views /\ bounds \in BOOLEAN /\ categoryDirty = TRUE
    /\ itemsCount = 0 /\ sliceSize = 0
    /\ items = <<>> /\ loaders = {}
    /\ \E w \in Saved \cup {<<0, 0>>} : start = w[1] /\ len = w[2]
    /\ asked = {} /\ loading = <<>>

-----------------------------------------------------------------------------
(* The source.                                                              *)
Changed(t) ==
    /\ edition + resizes < MaxEdition /\ t \in Sources \ {source}
    /\ source' = t /\ edition' = edition + 1 /\ dirty' = TRUE
    /\ UNCHANGED <<resizes, since, config, itemsCount, sliceSize, window, asked, loading>>

setChildsCount(n)   == Changed([source EXCEPT !.items = n])
addSubcategry(c)    == Changed([source EXCEPT !.subs = Append(@, c)])
clear               == Changed([source EXCEPT !.subs = <<>>])
setSubCategories(v) == Changed([source EXCEPT !.subs = v])

(* _invalidateAfter = now: what was asked for until now is not wanted.      *)
Invalidate(new) ==
    /\ asked' = {[r EXCEPT !.valid = FALSE] : r \in asked} \cup new
    /\ loading' = [k \in DOMAIN loading |-> [loading[k] EXCEPT !.valid = FALSE]]

SetSource(t) ==
    /\ edition + resizes < MaxEdition
    /\ source' = t /\ edition' = edition + 1 /\ since' = edition + 1 /\ dirty' = TRUE
    /\ categoryDirty' = TRUE /\ loaders' = {} /\ Invalidate({})
    /\ UNCHANGED <<resizes, view, bounds, itemsCount, sliceSize, items, start, len>>

(* setLookupLevel, setItemsForSubcats.                                      *)
SetView(v) ==
    /\ edition + resizes < MaxEdition /\ v # view
    /\ view' = v /\ edition' = edition + 1 /\ dirty' = TRUE /\ categoryDirty' = TRUE
    /\ UNCHANGED <<source, resizes, since, bounds, itemsCount, sliceSize, window, asked, loading>>

-----------------------------------------------------------------------------
(* A request for slices.  A mistake: its time is taken before it makes the  *)
(* earlier ones outdated, and it with them.                                 *)
Asking_Early(type, wish, first, vec) ==
    [type |-> type, valid |-> FALSE, asked |-> edition, wish |-> wish, first |-> first, vec |-> vec]

Asking(type, wish, first, vec) ==
    [type |-> type, valid |-> TRUE, asked |-> edition, wish |-> wish, first |-> first, vec |-> vec]

(* requestSlice, in a list that had n entries at the last frame.  A part of *)
(* which the source has nothing any more is never answered.                 *)
Request(type, first, count, n) ==
    LET wish == [first |-> first, count |-> Min({count, n - first})]
        r    == IF bounds THEN SetCategoryBounds(source, wish.first, wish.count, view.level, view.subcats)
                ELSE wish
        vec  == OnSlice(source, r.first, r.count, view.level, view.subcats)
    IN  Invalidate(IF vec = <<>> THEN {} ELSE {Asking(type, wish, r.first, vec)})

SliceSize(n) ==
    LET slices == (n + SliceMax - 1) \div SliceMax
    IN  IF n <= SliceMax THEN n ELSE n \div slices + 1

ResetSlice(n, size) ==
    LET from == Origin - size \div 2 IN
    Request("Reset", Max({0, IF from + size > n THEN n - size ELSE from}), size, n)

UpdateSlice(n, size) ==
    LET all == Min({n, Max({len, size})})
    IN  Request("Update", Min({start, n - all}), all, n)

(* The window is asked for anew.                                            *)
Renew ==
    /\ itemsCount' = Total
    /\ loaders' = IF items = <<>> THEN {} ELSE loaders
    /\ IF Total = 0
       THEN /\ categoryDirty' = TRUE /\ start' = 0 /\ len' = 0
            /\ UNCHANGED <<sliceSize, asked, loading>>
       ELSE /\ sliceSize' = SliceSize(Total)
            /\ categoryDirty' = FALSE /\ UNCHANGED <<start, len>>
            /\ IF (itemsCount # 0 /\ categoryDirty) \/ len = 0
               THEN ResetSlice(Total, sliceSize') ELSE UpdateSlice(Total, sliceSize')
    /\ UNCHANGED <<source, edition, since, view, bounds, items>>

(* The callback of the listener, once a frame; the same after a change of   *)
(* the view's width, whatever the listener has to tell.                     *)
onSourceDirty == dirty /\ dirty' = FALSE /\ Renew /\ UNCHANGED resizes

onContentSizeDirty ==
    /\ edition + resizes < MaxEdition /\ resizes' = resizes + 1
    /\ Renew /\ UNCHANGED dirty

(* A loader comes into view: downloadFrontSlice, downloadBackSlice.         *)
Replacing == \E r \in asked \cup Range(loading) : r.valid /\ r.type \in {"Reset", "Update"}

MayAsk(side) ==
    /\ side \in loaders /\ Cardinality(asked) + Len(loading) < MaxAsked
    /\ Patient => ~Replacing

downloadFrontSlice ==
    /\ MayAsk("Front") /\ start # 0 /\ itemsCount # 0
    /\ LET first == IF start > sliceSize THEN start - sliceSize ELSE 0 IN
       /\ first < itemsCount
       /\ Request("Front", first, IF start > sliceSize THEN sliceSize ELSE start, itemsCount)
    /\ UNCHANGED <<source, edition, resizes, since, dirty, config, itemsCount, sliceSize, window>>

downloadBackSlice ==
    /\ MayAsk("Back") /\ start + len < itemsCount
    /\ Request("Back", start + len, sliceSize, itemsCount)
    /\ UNCHANGED <<source, edition, resizes, since, dirty, config, itemsCount, sliceSize, window>>

-----------------------------------------------------------------------------
(* Where slice k of a request begins in the list (SliceRequest::request).   *)
Offset(r, k) == r.first + Numbers([j \in 1..k - 1 |-> r.vec[j].len])

Entries(r, answer) ==
    LET named   == FlattenSeq([k \in DOMAIN r.vec |-> Named(r.vec[k])])
        Of(i)   == CHOOSE k \in DOMAIN r.vec : i \in Offset(r, k)..Offset(r, k) + r.vec[k].len - 1
    IN  [i \in r.first..r.first + Len(named) - 1 |->
            [at |-> named[i - r.first + 1], edition |-> answer[Of(i)]]]

Merge(f, g) == [i \in DOMAIN f \cup DOMAIN g |-> IF i \in DOMAIN f THEN f[i] ELSE g[i]]

(* The last category of a request answers, and the data goes to the worker. *)
(* Each of them answers with what it had when it was asked or has now; what *)
(* came before is in the request alone, where its order makes no difference.*)
Latest(r) == IF r.asked >= since THEN edition ELSE r.asked

Answer(r) ==
    \E answer \in [DOMAIN r.vec -> {r.asked, Latest(r)}] :
        /\ asked' = asked \ {r}
        /\ loading' = IF ~r.valid THEN loading
                      ELSE Append(loading,
                             [type  |-> IF items = <<>> /\ r.type # "Update" THEN "Reset" ELSE r.type,
                              valid |-> TRUE, data |-> Entries(r, answer)])
        /\ UNCHANGED <<source, edition, resizes, since, dirty, config, itemsCount, sliceSize, window>>

(* What is dropped at the other end when the window grows at one.           *)
Lowest  == Min(DOMAIN items)
Highest == Max(DOMAIN items)

Kept(type) ==
    LET size == Cardinality(DOMAIN items)
        ids  == CASE size > sliceSize /\ type = "Back"  -> Lowest + size - sliceSize..Highest
                  [] size > sliceSize /\ type = "Front" -> Lowest..Lowest + sliceSize
                  [] OTHER -> DOMAIN items
    IN  [i \in ids \cap DOMAIN items |-> items[i]]

(* updateItems: a loader at each end behind which there is more; with no    *)
(* entries the subtraction of one wraps around.                             *)
Loaders(map) ==
    {side \in {"Front", "Back"} :
        IF side = "Front" THEN Min(DOMAIN map) > 0
        ELSE itemsCount = 0 \/ Max(DOMAIN map) < itemsCount - 1}

(* onSliceItems, when the worker is done.                                   *)
Show(type, data) ==
    LET map == IF type \in {"Front", "Back"} THEN Merge(data, Kept(type)) ELSE data IN
    /\ items' = map /\ loaders' = Loaders(map)
    /\ start' = Min(DOMAIN map) /\ len' = Max(DOMAIN map) + 1 - Min(DOMAIN map)

(* A mistake: nobody looks whether it is still wanted.                      *)
onSliceItems_Late ==
    /\ loading # <<>> /\ loading' = Tail(loading)
    /\ Show(Head(loading).type, Head(loading).data)
    /\ UNCHANGED <<source, edition, resizes, since, dirty, config, itemsCount, sliceSize, asked>>

onSliceItems ==
    /\ loading # <<>> /\ loading' = Tail(loading)
    /\ IF Head(loading).valid THEN Show(Head(loading).type, Head(loading).data)
       ELSE UNCHANGED window
    /\ UNCHANGED <<source, edition, resizes, since, dirty, config, itemsCount, sliceSize, asked>>

-----------------------------------------------------------------------------
Owner ==
    \/ \E n \in 0..2 : setChildsCount(n)
    \/ \E c \in Categories : addSubcategry(c)
    \/ clear
    \/ \E t \in Sources : SetSource(t)
    \/ \E v \in Views : SetView(v)

Categorys == \E r \in asked : Answer(r)

Next ==
    \/ Owner \/ onSourceDirty \/ onContentSizeDirty \/ downloadFrontSlice \/ downloadBackSlice
    \/ Categorys \/ onSliceItems

Spec == Init /\ [][Next]_vars

(* Frames come, categories answer, the worker and the main thread go on.    *)
(* No step but that of a frame takes dirty back.                            *)
Frame == dirty /\ dirty' = FALSE

FairSpec == Spec /\ WF_dirty(Frame) /\ WF_vars(Categorys) /\ WF_vars(onSliceItems)

-----------------------------------------------------------------------------
(* Each request goes to the categories as slices that are, entry by entry,  *)
(* the part of the list that was wished for, or more of it at whole         *)
(* subcategories.                                                           *)
SlicesExact ==
    [][\A r \in asked' \ asked : r.valid =>
          LET named == FlattenSeq([k \in DOMAIN r.vec |-> Named(r.vec[k])])
          IN  /\ named = SubSeq(List, r.first + 1, r.first + Len(named))
              /\ r.first <= r.wish.first
              /\ r.first + Len(named) >= Min({r.wish.first + r.wish.count, Len(List)})]_vars

(* What is shown, when nothing is to be done about a change of the list: a  *)
(* part of the list as it is now, without holes, from which the next        *)
(* requests go on.                                                          *)
Quiet == ~dirty /\ ~Replacing /\ itemsCount # 0

PartOfList ==
    Quiet => /\ items # <<>> /\ DOMAIN items = start..start + len - 1
             /\ \A i \in DOMAIN items :
                   i < Total /\ items[i] = [at |-> List[i + 1], edition |-> edition]

(* Entries of a source and of the one that was set after it never stand     *)
(* side by side.                                                            *)
Unmixed == \A i, j \in DOMAIN items : items[i].edition >= since => items[j].edition >= since

(* The window shows what the list has, of one source, whatever answers come *)
(* late or in another order; and scrolling on and on does not collect more  *)
(* and more.                                                                *)
Window ==
    /\ PartOfList
    /\ Unmixed
    /\ ~bounds => Cardinality(DOMAIN items) <= 2 * (SliceMax + 1) + 1

(* When the list has stopped changing, its last state comes to be shown.    *)
Settles == <>[](itemsCount = 0 \/ (items # <<>> /\ \A i \in DOMAIN items : items[i].edition = edition))
=============================================================================
