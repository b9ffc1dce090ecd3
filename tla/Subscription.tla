---------------------------- MODULE Subscription ----------------------------
(* data::Subscription keeps a map from subscribers' ids to the flags they   *)
(* have not checked; one that forwards to another keeps its subscribers in  *)
(* the other's map, and their ids in its own.  data::Listener is bound to a *)
(* subscription through a Binding with an id of its own, and checks its     *)
(* flags once a frame.  All of it runs in the main thread.                  *)
EXTENDS Naturals

CONSTANTS Base,         \* subscriptions that do not forward (Asset)
          Forwarder,    \* those that may (SourceNetworkAsset)
          Listener,
          Flag, Initial, None,
          MaxId         \* bound: ids given out

Sub == Base \cup Forwarder
Id  == 1..MaxId

ASSUME SubscriptionParameters ==
    /\ MaxId \in Nat
    /\ Base \cap Forwarder = {} /\ None \notin Sub
    /\ Initial \in Flag

VARIABLES ids, flags,   \* _flags of each subscription: its keys and values
          forwarded,    \* _forwarded of each forwarder
          nextId,       \* the number of ids given out
          sub, id,      \* the Binding of each listener
          got           \* the flags of a listener's last callback

bindings == <<nextId, sub, id>>
vars     == <<ids, flags, forwarded, bindings, got>>

(* The types of the state; no id is in use that was not given out.          *)
TypeOK ==
    /\ ids \in [Sub -> SUBSET Id] /\ flags \in [Sub -> [Id -> SUBSET Flag]]
    /\ forwarded \in [Forwarder -> Base \cup {None}]
    /\ nextId \in 0..MaxId /\ sub \in [Listener -> Sub \cup {None}]
    /\ id \in [Listener -> 0..nextId] /\ \A s \in Sub : ids[s] \subseteq 1..nextId
    /\ got \in [Listener -> SUBSET Flag]

Init ==
    /\ ids = [s \in Sub |-> {}] /\ flags = [s \in Sub |-> [i \in Id |-> {}]]
    /\ forwarded = [f \in Forwarder |-> None]
    /\ nextId = 0 /\ sub = [l \in Listener |-> None] /\ id = [l \in Listener |-> 0]
    /\ got = [l \in Listener |-> {}]

-----------------------------------------------------------------------------
(* _forwardedFlags, or the subscription's own map.                          *)
Forwards(s) == s \in Forwarder /\ forwarded[s] # None
Store(s)    == IF Forwards(s) THEN forwarded[s] ELSE s

(* subscribe: the id is in the map below, and a forwarder's own.            *)
Keys(s, i, keys) == [k \in Sub |-> IF k \in {s, Store(s)} THEN keys[k] \cup {i} ELSE keys[k]]

(* unsubscribe.  Through a forwarder it leaves an id that is in the map     *)
(* below: the test of what it finds is reversed.                            *)
Without(s, i, keys) ==
    IF s = None \/ (Forwards(s) /\ i \in keys[Store(s)]) THEN keys
    ELSE [k \in Sub |-> IF k \in {s, Store(s)} THEN keys[k] \ {i} ELSE keys[k]]

(* What is kept in the maps when their keys have changed.                   *)
Kept(values, keys) ==
    [s \in Sub |-> [i \in Id |-> IF i \in keys[s] THEN values[s][i] ELSE {}]]

(* setDirty: whom it reaches in the map below.                              *)
Reached(s, only) == IF only /\ Forwards(s) THEN ids[Store(s)] \cap ids[s] ELSE ids[Store(s)]

setDirty(s, flag, only) ==
    /\ flags' = [flags EXCEPT ![Store(s)] =
                    [i \in Id |-> IF i \in Reached(s, only) THEN @[i] \cup {flag} ELSE @[i]]]
    /\ UNCHANGED <<ids, forwarded, bindings, got>>

-----------------------------------------------------------------------------
(* Mistake: the number of ids given out is not kept.                        *)
Set_SameId(l, s) ==
    /\ sub[l] # s /\ nextId < MaxId
    /\ LET i == nextId + 1 IN
         /\ sub' = [sub EXCEPT ![l] = s] /\ id' = [id EXCEPT ![l] = i]
         /\ ids' = Without(sub[l], id[l], IF s = None THEN ids ELSE Keys(s, i, ids))
         /\ flags' = Kept(IF s = None THEN flags ELSE [flags EXCEPT ![Store(s)][i] = {Initial}], ids')
    /\ UNCHANGED <<nextId, forwarded, got>>

(* Listener::set: a new Binding with a new id, subscribed before the old    *)
(* one is given up.                                                         *)
Set(l, s) ==
    /\ sub[l] # s /\ nextId < MaxId
    /\ LET i == nextId + 1 IN
         /\ nextId' = i /\ sub' = [sub EXCEPT ![l] = s] /\ id' = [id EXCEPT ![l] = i]
         /\ ids' = Without(sub[l], id[l], IF s = None THEN ids ELSE Keys(s, i, ids))
         /\ flags' = Kept(IF s = None THEN flags ELSE [flags EXCEPT ![Store(s)][i] = {Initial}], ids')
    /\ UNCHANGED <<forwarded, got>>

(* A listener is moved into another: the id moves with the subscription.    *)
(* A mistake: it stays.                                                     *)
Move_Id(l, m) ==
    /\ ids' = Without(sub[l], id[l], ids) /\ flags' = Kept(flags, ids')
    /\ sub' = [sub EXCEPT ![l] = sub[m], ![m] = None]
    /\ UNCHANGED <<id, forwarded, nextId, got>>

Move(l, m) ==
    /\ ids' = Without(sub[l], id[l], ids) /\ flags' = Kept(flags, ids')
    /\ sub' = [sub EXCEPT ![l] = sub[m], ![m] = None]
    /\ id'  = [id EXCEPT ![l] = id[m]]
    /\ UNCHANGED <<forwarded, nextId, got>>

(* Listener::update: check, and the callback if there is anything or the    *)
(* listener is dirty, which its owner may make it at any time.              *)
Pending(l) == IF id[l] \in ids[Store(sub[l])] THEN flags[Store(sub[l])][id[l]] ELSE {}

update(l) ==
    /\ sub[l] # None
    /\ got'   = [got EXCEPT ![l] = Pending(l)]
    /\ flags' = [flags EXCEPT ![Store(sub[l])][id[l]] = {}]
    /\ UNCHANGED <<ids, forwarded, nextId, sub, id>>

-----------------------------------------------------------------------------
(* setForwardedSubscription: the forwarder's ids leave the map below, and   *)
(* its own.  Mistakes: only its own; the map below is cleared.              *)
Erased_Own(f) == [s \in Sub |-> IF s = f THEN {} ELSE ids[s]]
Erased_All(f) == [s \in Sub |-> IF s \in {f, Store(f)} THEN {} ELSE ids[s]]

Erased(f) == [s \in Sub |-> IF s = f THEN {} ELSE IF s = Store(f) THEN ids[s] \ ids[f] ELSE ids[s]]

(* SourceNetworkAsset::onAsset; with None also what is left of the          *)
(* destructor.  The FileUpdated that onAsset posts is for the forwarder's   *)
(* own ids, and there are none now.                                         *)
onAsset(f, a) ==
    /\ forwarded' = [forwarded EXCEPT ![f] = a]
    /\ ids' = Erased(f) /\ flags' = Kept(flags, ids')
    /\ UNCHANGED <<bindings, got>>

Next ==
    \/ \E s \in Sub, flag \in Flag, only \in BOOLEAN : setDirty(s, flag, only)
    \/ \E l \in Listener :
          \/ update(l)
          \/ \E s \in Sub \cup {None} : Set(l, s)
          \/ \E m \in Listener \ {l} : Move(l, m)
    \/ \E f \in Forwarder, a \in Base \cup {None} : onAsset(f, a)

Spec == Init /\ [][Next]_vars

-----------------------------------------------------------------------------
(* Who was bound to a forwarder when its asset came: its id is in no map    *)
(* that is posted to.                                                       *)
Deaf == {l \in Listener : sub[l] # None /\ id[l] \notin ids[Store(sub[l])]}

(* Nobody is registered by half: the id of a listener is its own, and it is *)
(* in the map that is posted to just when its own subscription knows of it, *)
(* although ids move from one listener to another and forwarders come to    *)
(* stand for other subscriptions; only forwarders let an id go.             *)
Registered ==
    \A l \in Listener : sub[l] # None =>
        /\ l \in Deaf <=> id[l] \notin ids[sub[l]]
        /\ l \in Deaf => sub[l] \in Forwarder
        /\ \A m \in Listener \ {l} : sub[m] # None => id[m] # id[l]

(* Every subscriber that is registered has its id (SPDataSubscription.h:36).*)
NobodyDeaf == Deaf = {}

(* An id without a listener, which unsubscribe has left behind, goes with   *)
(* the forwarder it was subscribed through.                                 *)
LeftoversGo ==
    \A b \in Base : \A i \in ids[b] :
        \/ \E l \in Listener : sub[l] # None /\ Store(sub[l]) = b /\ id[l] = i
        \/ \E f \in Forwarder : forwarded[f] = b /\ i \in ids[f]

(* Whatever is left behind, each listener hears what Updates says it does:  *)
(* nothing is lost, heard twice, or heard by another, and nobody grows deaf *)
(* but those who are bound to a forwarder when its asset comes.             *)
Unheard == [l \in Listener |-> IF sub[l] = None THEN {} ELSE Pending(l)]

Abs == INSTANCE Updates WITH alias <- forwarded, bound <- sub, heard <- got, news <- Unheard, deaf <- Deaf

ImplementsUpdates == Abs!Spec
=============================================================================
