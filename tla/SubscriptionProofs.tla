------------------------- MODULE SubscriptionProofs -------------------------
(* Proofs about Subscription, for all subscriptions, listeners and flags,   *)
(* and forwarders that get their assets at any time: who is bound is        *)
(* registered or grew deaf when the asset came, and hears what Updates says.*)
EXTENDS Subscription, TLAPS

(* The id of a listener is in no map but those of its subscription.         *)
Mine ==
    \A l \in Listener : sub[l] # None =>
        /\ id[l] \in Id
        /\ \A f \in Forwarder : id[l] \in ids[f] => sub[l] = f
        /\ \A b \in Base : id[l] \in ids[b] => Store(sub[l]) = b

(* There are no flags without a key.                                        *)
KeyedFlags == \A s \in Sub, i \in Id : i \notin ids[s] => flags[s][i] = {}

Inv == TypeOK /\ Registered /\ Mine /\ KeyedFlags

-----------------------------------------------------------------------------
(* The map below is a subscription's, and a base's is its own.              *)
LEMMA StoreType ==
    ASSUME TypeOK, NEW s \in Sub
    PROVE  Store(s) \in Sub /\ (s \in Base => Store(s) = s)
  BY SubscriptionParameters DEF TypeOK, Store, Forwards, Sub

LEMMA StoreIsBelow ==
    ASSUME TypeOK, NEW s \in Sub
    PROVE  Store(s) # s => Store(s) \in Base
  BY SubscriptionParameters DEF TypeOK, Store, Forwards, Sub

(* What a listener gives up takes nobody else's id away, and leaves only    *)
(* ids that a forwarder keeps as well.                                      *)
LEMMA WithoutFrame ==
    ASSUME Inv, NEW l \in Listener, NEW keys \in [Sub -> SUBSET Id],
           \A s \in Sub : ids[s] \subseteq keys[s]
    PROVE  /\ Without(sub[l], id[l], keys) \in [Sub -> SUBSET Id]
           /\ \A s \in Sub, i \in Id :
                 /\ i \in Without(sub[l], id[l], keys)[s] => i \in keys[s]
                 /\ i \in keys[s] /\ (i # id[l] \/ sub[l] = None) => i \in Without(sub[l], id[l], keys)[s]
  BY DEF Without

LEMMA KeysFrame ==
    ASSUME TypeOK, NEW s \in Sub, NEW i \in Id
    PROVE  /\ Keys(s, i, ids) \in [Sub -> SUBSET Id]
           /\ \A k \in Sub, j \in Id :
                 j \in Keys(s, i, ids)[k] <=> j \in ids[k] \/ (j = i /\ k \in {s, Store(s)})
  BY DEF TypeOK, Keys

LEMMA KeptType ==
    ASSUME NEW values \in [Sub -> [Id -> SUBSET Flag]], NEW keys
    PROVE  /\ Kept(values, keys) \in [Sub -> [Id -> SUBSET Flag]]
           /\ \A s \in Sub, i \in Id : i \notin keys[s] => Kept(values, keys)[s][i] = {}
  BY DEF Kept

LEMMA InitInv == Init => Inv
  BY SubscriptionParameters DEF Init, Inv, TypeOK, Registered, Deaf, Mine, KeyedFlags, Id, Sub

-----------------------------------------------------------------------------
(* The types: no id is in use that was not given out.                       *)
LEMMA WithoutType ==
    ASSUME NEW s, NEW i, NEW keys \in [Sub -> SUBSET Id]
    PROVE  /\ Without(s, i, keys) \in [Sub -> SUBSET Id]
           /\ \A k \in Sub : Without(s, i, keys)[k] \subseteq keys[k]
  BY DEF Without

LEMMA PendingType ==
    ASSUME TypeOK, NEW l \in Listener, sub[l] # None
    PROVE  Pending(l) \in SUBSET Flag
  <1>1. sub[l] \in Sub /\ Store(sub[l]) \in Sub
    BY StoreType DEF TypeOK
  <1> QED BY <1>1 DEF Pending, TypeOK

LEMMA DirtyTypes ==
    ASSUME TypeOK, NEW s \in Sub, NEW flag \in Flag, NEW only \in BOOLEAN, setDirty(s, flag, only)
    PROVE  TypeOK'
  <1>1. flags' \in [Sub -> [Id -> SUBSET Flag]]
    BY StoreType DEF TypeOK, setDirty
  <1>2. UNCHANGED <<ids, forwarded, nextId, sub, id, got>>
    BY DEF setDirty, bindings
  <1> QED BY <1>1, <1>2 DEF TypeOK

LEMMA UpdateTypes ==
    ASSUME TypeOK, NEW l \in Listener, update(l)
    PROVE  TypeOK'
  <1>1. Pending(l) \in SUBSET Flag
    BY PendingType DEF update
  <1>2. got' \in [Listener -> SUBSET Flag]
    BY <1>1 DEF TypeOK, update
  <1>3. flags' \in [Sub -> [Id -> SUBSET Flag]]
    BY DEF TypeOK, update
  <1> QED BY <1>2, <1>3 DEF TypeOK, update

LEMMA SetTypes ==
    ASSUME TypeOK, NEW l \in Listener, NEW s \in Sub \cup {None}, Set(l, s)
    PROVE  TypeOK'
  <1> DEFINE new  == nextId + 1
             keys == IF s = None THEN ids ELSE Keys(s, new, ids)
             values == IF s = None THEN flags ELSE [flags EXCEPT ![Store(s)][new] = {Initial}]
  <1>1. /\ new \in Id /\ nextId \in 0..MaxId /\ nextId' = new /\ nextId' \in 0..MaxId
        /\ sub' = [sub EXCEPT ![l] = s] /\ id' = [id EXCEPT ![l] = new]
        /\ ids' = Without(sub[l], id[l], keys) /\ flags' = Kept(values, ids')
        /\ UNCHANGED <<forwarded, got>>
    BY SubscriptionParameters DEF TypeOK, Set, Id
  <1>2. /\ keys \in [Sub -> SUBSET Id]
        /\ \A k \in Sub, j \in Id : j \in keys[k] => j \in ids[k] \/ j = new
    BY <1>1, KeysFrame DEF TypeOK
  <1>3. ids' \in [Sub -> SUBSET Id] /\ \A k \in Sub : ids'[k] \subseteq keys[k]
    BY <1>1, <1>2, WithoutType
  <1>4. values \in [Sub -> [Id -> SUBSET Flag]]
    BY <1>1, StoreType, SubscriptionParameters DEF TypeOK
  <1>5. flags' \in [Sub -> [Id -> SUBSET Flag]]
    BY <1>1, <1>4, KeptType
  <1>6. id' \in [Listener -> 0..nextId']
    BY <1>1 DEF TypeOK
  <1>7. \A k \in Sub : ids'[k] \subseteq 1..nextId'
    BY <1>1, <1>2, <1>3 DEF TypeOK, Id
  <1> QED BY <1>1, <1>3, <1>5, <1>6, <1>7 DEF TypeOK

LEMMA MoveTypes ==
    ASSUME TypeOK, NEW l \in Listener, NEW m \in Listener \ {l}, Move(l, m)
    PROVE  TypeOK'
  <1>1. /\ ids' = Without(sub[l], id[l], ids) /\ flags' = Kept(flags, ids')
        /\ sub' = [sub EXCEPT ![l] = sub[m], ![m] = None] /\ id' = [id EXCEPT ![l] = id[m]]
        /\ UNCHANGED <<forwarded, nextId, got>>
    BY DEF Move
  <1>2. ids' \in [Sub -> SUBSET Id] /\ \A k \in Sub : ids'[k] \subseteq ids[k]
    BY <1>1, WithoutType DEF TypeOK
  <1>3. flags' \in [Sub -> [Id -> SUBSET Flag]]
    BY <1>1, KeptType DEF TypeOK
  <1>4. \A k \in Sub : ids'[k] \subseteq 1..nextId'
    BY <1>1, <1>2 DEF TypeOK
  <1> QED BY <1>1, <1>2, <1>3, <1>4 DEF TypeOK

LEMMA AssetTypes ==
    ASSUME TypeOK, NEW f \in Forwarder, NEW a \in Base \cup {None}, onAsset(f, a)
    PROVE  TypeOK'
  <1>1. /\ forwarded' = [forwarded EXCEPT ![f] = a] /\ ids' = Erased(f) /\ flags' = Kept(flags, ids')
        /\ UNCHANGED <<nextId, sub, id, got>>
    BY DEF onAsset, bindings
  <1>2. ids' \in [Sub -> SUBSET Id] /\ \A k \in Sub : ids'[k] \subseteq ids[k]
    BY <1>1 DEF TypeOK, Erased
  <1>3. flags' \in [Sub -> [Id -> SUBSET Flag]]
    BY <1>1, KeptType DEF TypeOK
  <1>4. \A k \in Sub : ids'[k] \subseteq 1..nextId'
    BY <1>1, <1>2 DEF TypeOK
  <1> QED BY <1>1, <1>2, <1>3, <1>4 DEF TypeOK

(* Every variable keeps its type, whenever forwarders get their assets.     *)
THEOREM TypeCorrect == Spec => []TypeOK
  <1>1. Init => TypeOK
    BY InitInv DEF Inv
  <1>2. TypeOK /\ [Next]_vars => TypeOK'
    <2> SUFFICES ASSUME TypeOK, [Next]_vars PROVE TypeOK'
      OBVIOUS
    <2>1. CASE UNCHANGED vars
      BY <2>1 DEF vars, bindings, TypeOK
    <2>2. CASE Next
      BY <2>2, DirtyTypes, UpdateTypes, SetTypes, MoveTypes, AssetTypes DEF Next
    <2> QED BY <2>1, <2>2
  <1> QED BY <1>1, <1>2, PTL DEF Spec

-----------------------------------------------------------------------------
(* Posting and hearing change flags only.                                   *)
LEMMA DirtyInv ==
    ASSUME Inv, NEW s \in Sub, NEW flag \in Flag, NEW only \in BOOLEAN, setDirty(s, flag, only)
    PROVE  Inv'
  <1>1. TypeOK'
    BY DirtyTypes DEF Inv
  <1>2. UNCHANGED <<ids, forwarded, nextId, sub, id, got>>
    BY DEF setDirty, bindings
  <1>3. KeyedFlags'
    <2>1. \A k \in Sub, i \in Id : i \notin ids[k] => flags'[k][i] = flags[k][i]
      BY StoreType DEF setDirty, Reached, Inv, TypeOK
    <2> QED BY <1>2, <2>1 DEF Inv, KeyedFlags
  <1> QED BY <1>1, <1>2, <1>3 DEF Inv, TypeOK, Registered, Deaf, Mine, Store, Forwards

LEMMA UpdateInv ==
    ASSUME Inv, NEW l \in Listener, update(l)
    PROVE  Inv'
  <1>1. TypeOK'
    BY UpdateTypes DEF Inv
  <1>2. UNCHANGED <<ids, forwarded, nextId, sub, id>>
    BY DEF update
  <1>3. KeyedFlags'
    BY <1>2, StoreType DEF update, Inv, TypeOK, Mine, KeyedFlags
  <1> QED BY <1>1, <1>2, <1>3 DEF Inv, TypeOK, Registered, Deaf, Mine, Store, Forwards

(* A listener that is set has a new id; the others keep theirs.             *)
LEMMA SetFrame ==
    ASSUME Inv, NEW l \in Listener, NEW s \in Sub \cup {None}, Set(l, s)
    PROVE  /\ \A m \in Listener \ {l}, k \in Sub : sub[m] # None => (id[m] \in ids'[k] <=> id[m] \in ids[k])
           /\ \A k \in Sub : nextId + 1 \in ids'[k] <=> s # None /\ k \in {s, Store(s)}
  <1> DEFINE new  == nextId + 1
             keys == IF s = None THEN ids ELSE Keys(s, new, ids)
  <1>1. /\ new \in Id /\ nextId \in 0..MaxId /\ nextId' = new /\ nextId' \in 0..MaxId
        /\ sub' = [sub EXCEPT ![l] = s] /\ id' = [id EXCEPT ![l] = new]
        /\ ids' = Without(sub[l], id[l], keys) /\ UNCHANGED forwarded
    BY SubscriptionParameters DEF Inv, TypeOK, Set, Id
  <1>2. /\ keys \in [Sub -> SUBSET Id]
        /\ \A k \in Sub, j \in Id :
              j \in keys[k] <=> j \in ids[k] \/ (s # None /\ j = new /\ k \in {s, Store(s)})
    BY <1>1, KeysFrame DEF Inv, TypeOK
  <1>3. /\ ids' \in [Sub -> SUBSET Id]
        /\ \A k \in Sub, i \in Id :
              /\ i \in ids'[k] => i \in keys[k]
              /\ i \in keys[k] /\ (i # id[l] \/ sub[l] = None) => i \in ids'[k]
    <2>1. \A k \in Sub : ids[k] \subseteq keys[k]
      BY <1>2 DEF Inv, TypeOK
    <2> QED BY <1>1, <1>2, <2>1, WithoutFrame
  <1>4. \A m \in Listener : id[m] # new /\ (m # l => id'[m] = id[m] /\ sub'[m] = sub[m])
    BY <1>1 DEF Inv, TypeOK
  <1>5. id'[l] = new /\ sub'[l] = s /\ (s # None => s \in Sub /\ Store(s) \in Sub)
    BY <1>1, StoreType DEF Inv, TypeOK
  <1>6. ASSUME NEW m \in Listener \ {l}, sub[m] # None, NEW k \in Sub
        PROVE  id[m] \in ids'[k] <=> id[m] \in ids[k]
    BY <1>2, <1>3, <1>4, <1>6 DEF Inv, Registered, Mine
  <1>7. ASSUME NEW k \in Sub
        PROVE  new \in ids'[k] <=> s # None /\ k \in {s, Store(s)}
    <2>1. new \notin ids[k] /\ new # id[l]
      BY <1>4 DEF Inv, TypeOK
    <2> QED BY <1>1, <1>2, <1>3, <2>1
  <1> QED BY <1>6, <1>7

LEMMA SetInv ==
    ASSUME Inv, NEW l \in Listener, NEW s \in Sub \cup {None}, Set(l, s)
    PROVE  Inv'
  <1> DEFINE new  == nextId + 1
  <1>1. /\ new \in Id /\ nextId' = new /\ UNCHANGED forwarded
        /\ sub' = [sub EXCEPT ![l] = s] /\ id' = [id EXCEPT ![l] = new]
    BY SubscriptionParameters DEF Inv, TypeOK, Set, Id
  <1>4. \A m \in Listener : id[m] # new /\ (m # l => id'[m] = id[m] /\ sub'[m] = sub[m])
    BY <1>1 DEF Inv, TypeOK
  <1>5. id'[l] = new /\ sub'[l] = s /\ (s # None => s \in Sub /\ Store(s) \in Sub)
    BY <1>1, StoreType DEF Inv, TypeOK
  <1>6. TypeOK'
    BY SetTypes DEF Inv
  <1>7. \A k \in Sub : Store(k)' = Store(k)
    BY <1>1 DEF Store, Forwards
  <1>8. \A m \in Listener : sub'[m] # None => sub'[m] \in Sub /\ Store(sub'[m]) \in Sub
    BY <1>1, <1>5, StoreType DEF Inv, TypeOK
  <1>9. ASSUME NEW m \in Listener \ {l}, sub[m] # None, NEW k \in Sub
        PROVE  id[m] \in ids'[k] <=> id[m] \in ids[k]
    BY <1>9, SetFrame
  <1>10. Registered'
    <2> SUFFICES ASSUME NEW m \in Listener, sub'[m] # None
                 PROVE  /\ id'[m] \notin ids'[Store(sub'[m])] <=> id'[m] \notin ids'[sub'[m]]
                        /\ id'[m] \notin ids'[Store(sub'[m])] => sub'[m] \in Forwarder
                        /\ \A o \in Listener \ {m} : sub'[o] # None => id'[o] # id'[m]
      BY <1>7, <1>8 DEF Registered, Deaf
    <2>1. CASE m = l
      <3>1. new \in ids'[s] /\ new \in ids'[Store(s)]
        BY <2>1, <1>5, SetFrame
      <3> QED BY <2>1, <3>1, <1>4, <1>5
    <2>2. CASE m # l
      BY <2>2, <1>4, <1>5, <1>8, <1>9 DEF Inv, Registered, Deaf
    <2> QED BY <2>1, <2>2
  <1>11. Mine'
    <2> SUFFICES ASSUME NEW m \in Listener, sub'[m] # None
                 PROVE  /\ id'[m] \in Id
                        /\ \A f \in Forwarder : id'[m] \in ids'[f] => sub'[m] = f
                        /\ \A b \in Base : id'[m] \in ids'[b] => Store(sub'[m]) = b
      BY <1>7, <1>8 DEF Mine
    <2>1. CASE m = l
      <3>1. \A k \in Sub : new \in ids'[k] => k \in {s, Store(s)}
        BY SetFrame
      <3> QED BY <2>1, <3>1, <1>1, <1>5, StoreType, StoreIsBelow, SubscriptionParameters DEF Inv, Sub
    <2>2. CASE m # l
      BY <2>2, <1>4, <1>5, <1>8, <1>9 DEF Inv, Mine, Sub
    <2> QED BY <2>1, <2>2
  <1>12. KeyedFlags'
    <2> DEFINE values == IF s = None THEN flags ELSE [flags EXCEPT ![Store(s)][new] = {Initial}]
    <2>1. flags' = Kept(values, ids')
      BY DEF Set
    <2>2. values \in [Sub -> [Id -> SUBSET Flag]]
      BY <1>1, StoreType, SubscriptionParameters DEF Inv, TypeOK
    <2> HIDE DEF values
    <2> QED BY <2>1, <2>2, KeptType DEF KeyedFlags
  <1> QED BY <1>6, <1>10, <1>11, <1>12 DEF Inv

(* The id that moves keeps its place in the maps.                           *)
LEMMA MoveFrame ==
    ASSUME Inv, NEW l \in Listener, NEW m \in Listener \ {l}, Move(l, m)
    PROVE  /\ sub'[l] = sub[m] /\ id'[l] = id[m] /\ sub'[m] = None
           /\ \A o \in Listener \ {l, m} : sub'[o] = sub[o] /\ id'[o] = id[o]
           /\ \A o \in Listener \ {l}, k \in Sub : sub[o] # None => (id[o] \in ids'[k] <=> id[o] \in ids[k])
  <1>1. /\ ids' = Without(sub[l], id[l], ids) /\ flags' = Kept(flags, ids')
        /\ sub' = [sub EXCEPT ![l] = sub[m], ![m] = None] /\ id' = [id EXCEPT ![l] = id[m]]
        /\ UNCHANGED <<forwarded, nextId, got>>
    BY DEF Move
  <1>2. /\ ids' \in [Sub -> SUBSET Id]
        /\ \A k \in Sub, i \in Id :
              /\ i \in ids'[k] => i \in ids[k]
              /\ i \in ids[k] /\ (i # id[l] \/ sub[l] = None) => i \in ids'[k]
    <2>1. ids \in [Sub -> SUBSET Id]
      BY DEF Inv, TypeOK
    <2> QED BY <1>1, <2>1, WithoutFrame
  <1>3. /\ sub'[l] = sub[m] /\ id'[l] = id[m] /\ sub'[m] = None
        /\ \A o \in Listener \ {l, m} : sub'[o] = sub[o] /\ id'[o] = id[o]
    BY <1>1 DEF Inv, TypeOK
  <1>4. ASSUME NEW o \in Listener \ {l}, sub[o] # None, NEW k \in Sub
        PROVE  id[o] \in ids'[k] <=> id[o] \in ids[k]
    BY <1>2, <1>4 DEF Inv, Registered, Mine
  <1> QED BY <1>3, <1>4

LEMMA MoveInv ==
    ASSUME Inv, NEW l \in Listener, NEW m \in Listener \ {l}, Move(l, m)
    PROVE  Inv'
  <1>1. /\ flags' = Kept(flags, ids')
        /\ sub' = [sub EXCEPT ![l] = sub[m], ![m] = None] /\ id' = [id EXCEPT ![l] = id[m]]
        /\ UNCHANGED <<forwarded, nextId, got>>
    BY DEF Move
  <1>3. /\ sub'[l] = sub[m] /\ id'[l] = id[m] /\ sub'[m] = None
        /\ \A o \in Listener \ {l, m} : sub'[o] = sub[o] /\ id'[o] = id[o]
    BY MoveFrame
  <1>4. TypeOK'
    BY MoveTypes DEF Inv
  <1>5. \A k \in Sub : Store(k)' = Store(k) /\ Store(k) \in Sub
    BY <1>1, StoreType DEF Store, Forwards, Inv
  <1>6. \A o \in Listener : sub'[o] # None => sub'[o] \in Sub
    BY <1>4 DEF TypeOK
  <1>8. \A o \in Listener : sub[o] # None => id[o] \in Id /\ sub[o] \in Sub /\ Store(sub[o]) \in Sub
    BY StoreType DEF Inv, TypeOK, Mine
  <1>9. ASSUME NEW o \in Listener \ {l}, sub[o] # None, NEW k \in Sub
        PROVE  id[o] \in ids'[k] <=> id[o] \in ids[k]
    BY <1>9, MoveFrame
  <1>10. Registered'
    <2> SUFFICES ASSUME NEW o \in Listener, sub'[o] # None
                 PROVE  /\ id'[o] \notin ids'[Store(sub'[o])] <=> id'[o] \notin ids'[sub'[o]]
                        /\ id'[o] \notin ids'[Store(sub'[o])] => sub'[o] \in Forwarder
                        /\ \A p \in Listener \ {o} : sub'[p] # None => id'[p] # id'[o]
      BY <1>5, <1>6 DEF Registered, Deaf
    <2>1. CASE o = l
      BY <2>1, <1>3, <1>8, <1>9 DEF Inv, Registered, Deaf
    <2>2. CASE o # l
      BY <2>2, <1>3, <1>8, <1>9 DEF Inv, Registered, Deaf
    <2> QED BY <2>1, <2>2
  <1>11. Mine'
    <2> SUFFICES ASSUME NEW o \in Listener, sub'[o] # None
                 PROVE  /\ id'[o] \in Id
                        /\ \A f \in Forwarder : id'[o] \in ids'[f] => sub'[o] = f
                        /\ \A b \in Base : id'[o] \in ids'[b] => Store(sub'[o]) = b
      BY <1>5, <1>6 DEF Mine
    <2>1. CASE o = l
      BY <2>1, <1>3, <1>8, <1>9 DEF Inv, Mine, Sub
    <2>2. CASE o # l
      BY <2>2, <1>3, <1>8, <1>9 DEF Inv, Mine, Sub
    <2> QED BY <2>1, <2>2
  <1>12. KeyedFlags'
    BY <1>1, KeptType DEF KeyedFlags, Inv, TypeOK
  <1> QED BY <1>4, <1>10, <1>11, <1>12 DEF Inv

(* A forwarder that gets an asset takes nobody's id away but those of its   *)
(* own listeners, and theirs from both maps.                                *)
LEMMA AssetFrame ==
    ASSUME Inv, NEW f \in Forwarder, NEW a \in Base \cup {None}, onAsset(f, a)
    PROVE  /\ forwarded' = [forwarded EXCEPT ![f] = a] /\ flags' = Kept(flags, ids')
           /\ UNCHANGED <<nextId, sub, id, got>>
           /\ \A l \in Listener : sub[l] # None =>
                 /\ sub[l] \in Sub /\ Store(sub[l]) \in Sub /\ Store(sub[l])' \in Sub
                 /\ sub[l] # f => Store(sub[l])' = Store(sub[l])
           /\ \A l \in Listener, k \in Sub : sub[l] # None /\ sub[l] # f =>
                 (id[l] \in ids'[k] <=> id[l] \in ids[k])
           /\ \A l \in Listener, k \in Sub : sub[l] = f => id[l] \notin ids'[k]
  <1>1. /\ forwarded' = [forwarded EXCEPT ![f] = a]
        /\ ids' = Erased(f) /\ flags' = Kept(flags, ids')
        /\ UNCHANGED <<nextId, sub, id, got>>
    BY DEF onAsset, bindings
  <1>2. TypeOK /\ TypeOK'
    BY AssetTypes DEF Inv
  <1>3. \A l \in Listener : sub[l] # None =>
           /\ sub[l] \in Sub /\ Store(sub[l]) \in Sub
           /\ sub[l] # f => Store(sub[l])' = Store(sub[l])
    BY <1>1, <1>2, StoreType DEF TypeOK, Store, Forwards
  <1>4. \A s \in Sub : Store(s)' \in Sub
    BY <1>1, <1>2, SubscriptionParameters DEF TypeOK, Store, Forwards, Sub
  <1>5. ASSUME NEW l \in Listener, NEW k \in Sub, sub[l] # None, sub[l] # f
        PROVE  id[l] \in ids'[k] <=> id[l] \in ids[k]
    BY <1>1, <1>2, <1>5 DEF Erased, Inv, Mine, TypeOK
  <1>6. ASSUME NEW l \in Listener, NEW k \in Sub, sub[l] = f
        PROVE  id[l] \notin ids'[k]
    <2>1. sub[l] # None
      BY <1>6, SubscriptionParameters DEF Sub
    <2>2. CASE k = f
      BY <1>1, <2>2 DEF Erased
    <2>3. CASE k # f /\ k = Store(f)
      BY <1>1, <1>2, <1>6, <2>1, <2>3 DEF Erased, Inv, Registered, Deaf, TypeOK
    <2>4. CASE k # f /\ k # Store(f)
      <3>1. id[l] \notin ids[k]
        BY <1>6, <2>1, <2>4 DEF Inv, Mine, Sub
      <3> QED BY <1>1, <2>4, <3>1 DEF Erased
    <2> QED BY <2>2, <2>3, <2>4
  <1>7. \A l \in Listener : sub[l] # None => Store(sub[l])' \in Sub
    <2>1. \A l \in Listener : sub[l] # None => sub'[l] = sub[l] /\ sub[l] \in Sub
      BY <1>1, <1>3
    <2> QED BY <1>4, <2>1, <1>1 DEF Store, Forwards
  <1> QED BY <1>1, <1>3, <1>5, <1>6, <1>7

LEMMA AssetInv ==
    ASSUME Inv, NEW f \in Forwarder, NEW a \in Base \cup {None}, onAsset(f, a)
    PROVE  Inv'
  <1>1. TypeOK'
    BY AssetTypes DEF Inv
  <1>2. UNCHANGED <<sub, id>>
    BY AssetFrame
  <1>3. Registered'
    <2> SUFFICES ASSUME NEW l \in Listener, sub[l] # None
                 PROVE  /\ id[l] \notin ids'[Store(sub[l])'] <=> id[l] \notin ids'[sub[l]]
                        /\ id[l] \notin ids'[Store(sub[l])'] => sub[l] \in Forwarder
                        /\ \A m \in Listener \ {l} : sub[m] # None => id[m] # id[l]
      BY <1>2 DEF Registered, Deaf
    <2>1. CASE sub[l] = f
      BY <2>1, AssetFrame DEF Inv, Registered
    <2>2. CASE sub[l] # f
      BY <2>2, AssetFrame DEF Inv, Registered, Deaf
    <2> QED BY <2>1, <2>2
  <1>4. Mine'
    <2> SUFFICES ASSUME NEW l \in Listener, sub[l] # None
                 PROVE  /\ id[l] \in Id
                        /\ \A g \in Forwarder : id[l] \in ids'[g] => sub[l] = g
                        /\ \A b \in Base : id[l] \in ids'[b] => Store(sub[l])' = b
      BY <1>2 DEF Mine
    <2>1. CASE sub[l] = f
      BY <2>1, AssetFrame DEF Inv, Mine, Sub
    <2>2. CASE sub[l] # f
      BY <2>2, AssetFrame DEF Inv, Mine, Sub
    <2> QED BY <2>1, <2>2
  <1>5. KeyedFlags'
    BY AssetFrame, KeptType DEF KeyedFlags, Inv, TypeOK
  <1> QED BY <1>1, <1>3, <1>4, <1>5 DEF Inv

LEMMA StepInv == Inv /\ [Next]_vars => Inv'
  <1> SUFFICES ASSUME Inv, [Next]_vars PROVE Inv'
    OBVIOUS
  <1>1. CASE UNCHANGED vars
    BY <1>1 DEF vars, bindings, Inv, TypeOK, Registered, Deaf, Mine, KeyedFlags, Store, Forwards
  <1>2. CASE Next
    BY <1>2, DirtyInv, UpdateInv, SetInv, MoveInv, AssetInv DEF Next
  <1> QED BY <1>1, <1>2

LEMMA SpecInv == Spec => []Inv
  BY InitInv, StepInv, PTL DEF Spec

(* Nobody is registered by half, each listener has an id of its own, and    *)
(* only who is bound to a forwarder may have grown deaf.                    *)
THEOREM AllRegistered == Spec => []Registered
  <1>1. Inv => Registered
    BY DEF Inv
  <1> QED BY <1>1, SpecInv, PTL

-----------------------------------------------------------------------------
(* An id through a forwarder stays, any other goes.                         *)
LEMMA WithoutCases ==
    ASSUME Inv, NEW l \in Listener, sub[l] # None, l \notin Deaf, NEW keys \in [Sub -> SUBSET Id],
           \A s \in Sub : ids[s] \subseteq keys[s]
    PROVE  /\ Forwards(sub[l]) => Without(sub[l], id[l], keys) = keys
           /\ ~Forwards(sub[l]) => id[l] \notin Without(sub[l], id[l], keys)[sub[l]]
  <1>1. sub[l] \in Sub /\ Store(sub[l]) \in Sub /\ id[l] \in ids[Store(sub[l])]
    BY StoreType DEF Inv, TypeOK, Deaf
  <1> QED BY <1>1 DEF Without

(* A listener that gives its binding up leaves its id to a forwarder or to  *)
(* nobody: what the other listeners and the forwarders answer for, they     *)
(* still do.                                                                *)
LEMMA GivenUp ==
    ASSUME Inv, LeftoversGo, NEW l \in Listener, NEW keys \in [Sub -> SUBSET Id],
           \A s \in Sub : ids[s] \subseteq keys[s],
           NEW b \in Base, NEW i \in Id, i \in ids[b], i \in Without(sub[l], id[l], keys)[b]
    PROVE  \/ \E m \in Listener \ {l} : sub[m] # None /\ Store(sub[m]) = b /\ id[m] = i
           \/ \E f \in Forwarder : forwarded[f] = b /\ i \in Without(sub[l], id[l], keys)[f]
  <1>1. CASE \E m \in Listener \ {l} : sub[m] # None /\ Store(sub[m]) = b /\ id[m] = i
    BY <1>1
  <1>2. CASE sub[l] # None /\ Store(sub[l]) = b /\ id[l] = i
    <2>0. l \notin Deaf
      BY <1>2 DEF Deaf
    <2>1. CASE Forwards(sub[l])
      <3>1. Without(sub[l], id[l], keys) = keys
        BY <1>2, <2>0, <2>1, WithoutCases
      <3>2. sub[l] \in Forwarder /\ forwarded[sub[l]] = b /\ i \in ids[sub[l]]
        BY <1>2, <2>0, <2>1 DEF Forwards, Store, Inv, Registered
      <3> QED BY <3>1, <3>2 DEF Sub
    <2>2. CASE ~Forwards(sub[l])
      BY <1>2, <2>0, <2>2, WithoutCases DEF Store
    <2> QED BY <2>1, <2>2
  <1>3. CASE \E f \in Forwarder : forwarded[f] = b /\ i \in ids[f]
    <2>1. PICK f \in Forwarder : forwarded[f] = b /\ i \in ids[f]
      BY <1>3
    <2>2. CASE sub[l] = None \/ id[l] # i
      BY <2>1, <2>2, WithoutFrame DEF Sub
    <2>3. CASE sub[l] # None /\ id[l] = i
      <3>1. sub[l] = f
        BY <2>1, <2>3 DEF Inv, Mine
      <3>2. Forwards(sub[l])
        BY <2>1, <3>1, SubscriptionParameters DEF Forwards, Sub
      <3>3. Without(sub[l], id[l], keys) = keys
        <4>1. l \notin Deaf
          BY <2>1, <2>3, <3>1 DEF Inv, Registered
        <4> QED BY <2>3, <3>2, <4>1, WithoutCases
      <3> QED BY <2>1, <3>3 DEF Sub
    <2> QED BY <2>2, <2>3
  <1> QED BY <1>1, <1>2, <1>3 DEF LeftoversGo

LEMMA SetLeftovers ==
    ASSUME Inv, LeftoversGo, NEW l \in Listener, NEW s \in Sub \cup {None}, Set(l, s)
    PROVE  LeftoversGo'
  <1> DEFINE new  == nextId + 1
             keys == IF s = None THEN ids ELSE Keys(s, new, ids)
  <1>1. /\ new \in Id /\ sub' = [sub EXCEPT ![l] = s] /\ id' = [id EXCEPT ![l] = new]
        /\ ids' = Without(sub[l], id[l], keys) /\ UNCHANGED forwarded
    BY SubscriptionParameters DEF Inv, TypeOK, Set, Id
  <1>2. /\ keys \in [Sub -> SUBSET Id]
        /\ \A k \in Sub, j \in Id :
              j \in keys[k] <=> j \in ids[k] \/ (s # None /\ j = new /\ k \in {s, Store(s)})
    BY <1>1, KeysFrame DEF Inv, TypeOK
  <1>3. \A k \in Sub : ids[k] \subseteq keys[k]
    BY <1>2 DEF Inv, TypeOK
  <1>4. \A k \in Sub \cup {None} : Store(k)' = Store(k)
    BY <1>1 DEF Store, Forwards
  <1>5. sub'[l] = s /\ id'[l] = new /\ \A m \in Listener \ {l} : sub'[m] = sub[m] /\ id'[m] = id[m]
    BY <1>1 DEF Inv, TypeOK
  <1> SUFFICES ASSUME NEW b \in Base, NEW i, i \in ids'[b]
               PROVE  \/ \E m \in Listener : sub'[m] # None /\ Store(sub'[m]) = b /\ id'[m] = i
                      \/ \E f \in Forwarder : forwarded[f] = b /\ i \in ids'[f]
    <2>1. \A m \in Listener : sub'[m] \in Sub \cup {None}
      BY <1>1 DEF Inv, TypeOK
    <2> QED BY <1>1, <1>4, <2>1 DEF LeftoversGo
  <1>6. b \in Sub /\ i \in Id /\ i \in keys[b]
    <2>1. /\ ids' \in [Sub -> SUBSET Id]
          /\ \A k \in Sub, j \in Id : j \in ids'[k] => j \in keys[k]
      BY <1>1, <1>2, <1>3, WithoutFrame
    <2> QED BY <2>1 DEF Sub
  <1>7. CASE i \in ids[b]
    <2>1. \/ \E m \in Listener \ {l} : sub[m] # None /\ Store(sub[m]) = b /\ id[m] = i
          \/ \E f \in Forwarder : forwarded[f] = b /\ i \in ids'[f]
      BY <1>1, <1>2, <1>3, <1>6, <1>7, GivenUp
    <2> QED BY <1>5, <2>1
  <1>8. CASE i \notin ids[b]
    <2>1. s # None /\ i = new /\ b \in {s, Store(s)}
      BY <1>2, <1>6, <1>8
    <2>2. Store(s) = b
      BY <2>1, StoreType DEF Inv
    <2> QED BY <1>5, <2>1, <2>2
  <1> QED BY <1>7, <1>8

LEMMA MoveLeftovers ==
    ASSUME Inv, LeftoversGo, NEW l \in Listener, NEW m \in Listener \ {l}, Move(l, m)
    PROVE  LeftoversGo'
  <1>1. /\ ids' = Without(sub[l], id[l], ids) /\ ids \in [Sub -> SUBSET Id]
        /\ sub' = [sub EXCEPT ![l] = sub[m], ![m] = None] /\ id' = [id EXCEPT ![l] = id[m]]
        /\ UNCHANGED forwarded
    BY DEF Move, Inv, TypeOK
  <1>2. \A k \in Sub \cup {None} : Store(k)' = Store(k)
    BY <1>1 DEF Store, Forwards
  <1>3. /\ sub'[l] = sub[m] /\ id'[l] = id[m]
        /\ \A o \in Listener \ {l, m} : sub'[o] = sub[o] /\ id'[o] = id[o]
    BY <1>1 DEF Inv, TypeOK
  <1> SUFFICES ASSUME NEW b \in Base, NEW i, i \in ids'[b]
               PROVE  \/ \E o \in Listener : sub'[o] # None /\ Store(sub'[o]) = b /\ id'[o] = i
                      \/ \E f \in Forwarder : forwarded[f] = b /\ i \in ids'[f]
    <2>1. forwarded' = forwarded
      BY <1>1
    <2> QED BY <2>1 DEF LeftoversGo, Store, Forwards
  <1>4. i \in ids[b] /\ i \in Id
    <2>1. /\ ids' \in [Sub -> SUBSET Id]
          /\ \A k \in Sub, j \in Id : j \in ids'[k] => j \in ids[k]
      BY <1>1, WithoutFrame
    <2> QED BY <2>1 DEF Sub
  <1>5. \/ \E o \in Listener \ {l} : sub[o] # None /\ Store(sub[o]) = b /\ id[o] = i
        \/ \E f \in Forwarder : forwarded[f] = b /\ i \in ids'[f]
    BY <1>1, <1>4, GivenUp
  <1> QED BY <1>3, <1>5

LEMMA AssetLeftovers ==
    ASSUME Inv, LeftoversGo, NEW f \in Forwarder, NEW a \in Base \cup {None}, onAsset(f, a)
    PROVE  LeftoversGo'
  <1>1. /\ forwarded' = [forwarded EXCEPT ![f] = a] /\ ids' = Erased(f)
        /\ UNCHANGED <<sub, id>>
    BY DEF onAsset, bindings
  <1>2. \A l \in Listener : sub[l] # None /\ sub[l] # f => Store(sub[l])' = Store(sub[l])
    BY AssetFrame
  <1>3. \A b \in Base : \A i \in ids'[b] : i \in ids[b] /\ (Store(f) = b => i \notin ids[f])
    BY <1>1, SubscriptionParameters DEF Inv, TypeOK, Erased, Sub
  <1>4. \A g \in Forwarder \ {f} : forwarded'[g] = forwarded[g] /\ ids'[g] = ids[g]
    BY <1>1, SubscriptionParameters DEF Inv, TypeOK, Erased, Sub, Store, Forwards
  <1>5. \A b \in Base : forwarded[f] = b => Store(f) = b
    BY SubscriptionParameters DEF Store, Forwards, Sub
  <1> SUFFICES ASSUME NEW b \in Base, NEW i, i \in ids'[b]
               PROVE  \/ \E l \in Listener : sub'[l] # None /\ Store(sub[l])' = b /\ id'[l] = i
                      \/ \E g \in Forwarder : forwarded'[g] = b /\ i \in ids'[g]
    BY DEF LeftoversGo
  <1>6. CASE \E l \in Listener : sub[l] # None /\ Store(sub[l]) = b /\ id[l] = i
    <2>1. PICK l \in Listener : sub[l] # None /\ Store(sub[l]) = b /\ id[l] = i
      BY <1>6
    <2>2. sub[l] # f
      BY <2>1, AssetFrame DEF Sub
    <2> QED BY <1>1, <1>2, <2>1, <2>2
  <1>7. CASE \E g \in Forwarder : forwarded[g] = b /\ i \in ids[g]
    BY <1>3, <1>4, <1>5, <1>7
  <1> QED BY <1>3, <1>6, <1>7 DEF LeftoversGo

LEMMA StepLeftovers == Inv /\ LeftoversGo /\ [Next]_vars => LeftoversGo'
  <1> SUFFICES ASSUME Inv, LeftoversGo, [Next]_vars PROVE LeftoversGo'
    OBVIOUS
  <1>1. CASE UNCHANGED <<ids, forwarded, sub, id>>
    BY <1>1 DEF LeftoversGo, Store, Forwards
  <1>2. ASSUME NEW s \in Sub, NEW flag \in Flag, NEW only \in BOOLEAN, setDirty(s, flag, only)
        PROVE  UNCHANGED <<ids, forwarded, sub, id>>
    BY <1>2 DEF setDirty, bindings
  <1>3. ASSUME NEW l \in Listener, update(l)
        PROVE  UNCHANGED <<ids, forwarded, sub, id>>
    BY <1>3 DEF update
  <1>4. UNCHANGED vars => UNCHANGED <<ids, forwarded, sub, id>>
    BY DEF vars, bindings
  <1> QED BY <1>1, <1>2, <1>3, <1>4, SetLeftovers, MoveLeftovers, AssetLeftovers DEF Next

(* An id that unsubscribe leaves behind is one of a forwarder, and goes     *)
(* with it.                                                                 *)
THEOREM LeftoversGoWithForwarder == Spec => []LeftoversGo
  <1>1. Init => LeftoversGo
    BY DEF Init, LeftoversGo, Sub
  <1>2. Inv /\ LeftoversGo /\ [Next]_vars => LeftoversGo'
    BY StepLeftovers
  <1> QED BY <1>1, <1>2, SpecInv, PTL DEF Spec

-----------------------------------------------------------------------------
(* The flags a listener has not heard are those of its id.                  *)
LEMMA UnheardNow ==
    ASSUME Inv, NEW l \in Listener
    PROVE  Unheard[l] = IF sub[l] = None THEN {} ELSE flags[Store(sub[l])][id[l]]
  BY StoreType DEF Unheard, Pending, Inv, TypeOK, Mine, KeyedFlags

LEMMA UnheardNext ==
    ASSUME Inv', NEW l \in Listener
    PROVE  Unheard'[l] = IF sub'[l] = None THEN {} ELSE flags'[Store(sub[l])'][id'[l]]
  <1>1. sub'[l] # None => sub'[l] \in Sub /\ id'[l] \in Id
    BY DEF Inv, TypeOK, Mine
  <1>2. sub'[l] # None => Store(sub[l])' \in Sub
    <2>1. \A s \in Sub : Store(s)' \in Sub
      BY SubscriptionParameters DEF Inv, TypeOK, Store, Forwards, Sub
    <2> QED BY <1>1, <2>1 DEF Store, Forwards
  <1> QED BY <1>1, <1>2 DEF Unheard, Pending, Inv, KeyedFlags

(* A listener whose binding, id and flags stay has the same to hear.        *)
LEMMA SameUnheard ==
    ASSUME Inv, Inv', NEW l \in Listener, sub'[l] = sub[l], id'[l] = id[l],
           sub[l] # None => /\ Store(sub[l])' = Store(sub[l])
                            /\ flags'[Store(sub[l])][id[l]] = flags[Store(sub[l])][id[l]]
    PROVE  Unheard'[l] = Unheard[l]
  BY UnheardNow, UnheardNext

LEMMA UnheardIsFunction ==
    /\ Unheard = [l \in Listener |-> Unheard[l]]
    /\ Unheard' = [l \in Listener |-> Unheard'[l]]
  BY DEF Unheard

(* Who is reached in the map below is who hears.                            *)
LEMMA ReachedHear ==
    ASSUME Inv, NEW s \in Sub, NEW only \in BOOLEAN, NEW l \in Listener, sub[l] # None
    PROVE  (Store(sub[l]) = Store(s) /\ id[l] \in Reached(s, only)) <=> l \in Abs!Hearers(s, only)
  <1>1. sub[l] \in Sub /\ (l \in Deaf <=> id[l] \notin ids[Store(sub[l])]) /\ (l \in Deaf <=> id[l] \notin ids[sub[l]])
    BY DEF Inv, TypeOK, Registered, Deaf
  <1>2. \A f \in Forwarder : id[l] \in ids[f] => sub[l] = f
    BY DEF Inv, Mine
  <1>3. Abs!Topic(s) = Store(s) /\ Abs!Topic(sub[l]) = Store(sub[l])
    BY DEF Abs!Topic, Store, Forwards
  <1>4. Store(sub[l]) # sub[l] => Store(sub[l]) \in Base
    BY <1>1, StoreIsBelow DEF Inv
  <1>5. l \in Abs!Hearers(s, only) <=>
           l \notin Deaf /\ (IF only /\ s \in Forwarder THEN sub[l] = s ELSE Store(sub[l]) = Store(s))
    BY <1>3 DEF Abs!Hearers
  <1>6. CASE only /\ Forwards(s)
    BY <1>1, <1>2, <1>5, <1>6 DEF Reached, Forwards
  <1>7. CASE only /\ s \in Forwarder /\ ~Forwards(s)
    BY <1>1, <1>4, <1>5, <1>7, SubscriptionParameters DEF Reached, Store
  <1>8. CASE ~only \/ s \notin Forwarder
    BY <1>1, <1>5, <1>8 DEF Reached, Forwards
  <1> QED BY <1>6, <1>7, <1>8 DEF Forwards

(* Who is deaf is what the maps and the bindings say.                       *)
LEMMA DeafSame ==
    ASSUME UNCHANGED <<ids, forwarded, sub, id>>
    PROVE  Deaf' = Deaf
  BY DEF Deaf, Store, Forwards

LEMMA DirtyPosts ==
    ASSUME Inv, Inv', NEW s \in Sub, NEW flag \in Flag, NEW only \in BOOLEAN, setDirty(s, flag, only)
    PROVE  Abs!Post(s, flag, only)
  <1>1. UNCHANGED <<ids, forwarded, sub, id, got>>
    BY DEF setDirty, bindings
  <1>2. \A k \in Sub, i \in Id :
           flags'[k][i] = IF k = Store(s) /\ i \in Reached(s, only) THEN flags[k][i] \cup {flag}
                          ELSE flags[k][i]
    BY StoreType DEF setDirty, Inv, TypeOK
  <1> SUFFICES ASSUME NEW l \in Listener
               PROVE  Unheard'[l] = IF l \in Abs!Hearers(s, only) THEN Unheard[l] \cup {flag}
                                    ELSE Unheard[l]
    BY <1>1, UnheardIsFunction, DeafSame DEF Abs!Post
  <1>3. CASE sub[l] = None
    BY <1>1, <1>3, UnheardNow, UnheardNext DEF Abs!Hearers
  <1>4. CASE sub[l] # None
    <2>1. sub[l] \in Sub /\ Store(sub[l]) \in Sub /\ id[l] \in Id
      BY <1>4, StoreType DEF Inv, TypeOK, Mine
    <2>2. Store(sub[l])' = Store(sub[l])
      BY <1>1 DEF Store, Forwards
    <2>3. Unheard[l] = flags[Store(sub[l])][id[l]] /\ Unheard'[l] = flags'[Store(sub[l])][id[l]]
      BY <1>1, <1>4, <2>2, UnheardNow, UnheardNext
    <2> QED BY <1>2, <1>4, <2>1, <2>3, ReachedHear
  <1> QED BY <1>3, <1>4

LEMMA UpdateHears ==
    ASSUME Inv, Inv', NEW l \in Listener, update(l)
    PROVE  Abs!Hear(l)
  <1>1. UNCHANGED <<ids, forwarded, sub, id>>
    BY DEF update
  <1>2. sub[l] # None /\ got' = [got EXCEPT ![l] = Unheard[l]]
    BY DEF update, Unheard
  <1>3. \A m \in Listener : sub[m] # None =>
           sub[m] \in Sub /\ Store(sub[m]) \in Sub /\ id[m] \in Id /\ Store(sub[m])' = Store(sub[m])
    BY <1>1, StoreType DEF Inv, TypeOK, Mine, Store, Forwards
  <1>4. flags'[Store(sub[l])][id[l]] = {}
    BY <1>2, <1>3 DEF update, Inv, TypeOK
  <1>5. Unheard'[l] = {}
    BY <1>1, <1>2, <1>3, <1>4, UnheardNext
  <1>6. ASSUME NEW m \in Listener \ {l}
        PROVE  Unheard'[m] = Unheard[m]
    <2>1. sub[m] # None => id[m] # id[l]
      BY <1>2 DEF Inv, Registered
    <2>2. sub[m] # None => flags'[Store(sub[m])][id[m]] = flags[Store(sub[m])][id[m]]
      BY <1>2, <1>3, <2>1 DEF update, Inv, TypeOK
    <2> QED BY <1>1, <1>3, <2>2, SameUnheard
  <1>7. Unheard' = [Unheard EXCEPT ![l] = {}]
    BY <1>5, <1>6, UnheardIsFunction
  <1> QED BY <1>1, <1>2, <1>7, DeafSame DEF Abs!Hear

LEMMA SetBinds ==
    ASSUME Inv, Inv', NEW l \in Listener, NEW s \in Sub \cup {None}, Set(l, s)
    PROVE  Abs!Bind(l, s)
  <1> DEFINE new    == nextId + 1
             values == IF s = None THEN flags ELSE [flags EXCEPT ![Store(s)][new] = {Initial}]
  <1>1. /\ sub' = [sub EXCEPT ![l] = s] /\ id' = [id EXCEPT ![l] = new]
        /\ flags' = Kept(values, ids') /\ UNCHANGED <<forwarded, got>>
    BY DEF Set
  <1>2. /\ sub'[l] = s /\ id'[l] = new
        /\ \A m \in Listener \ {l} : sub'[m] = sub[m] /\ id'[m] = id[m] /\ id[m] # new
    BY <1>1 DEF Inv, TypeOK
  <1>3. \A m \in Listener : sub'[m] # None =>
           /\ sub'[m] \in Sub /\ Store(sub'[m]) \in Sub /\ Store(sub[m])' = Store(sub'[m])
           /\ id'[m] \in Id
    <2>1. \A m \in Listener : sub'[m] # None =>
             sub'[m] \in Sub /\ id'[m] \in Id /\ Store(sub[m])' = Store(sub'[m])
      BY <1>1 DEF Inv, TypeOK, Mine, Store, Forwards
    <2> QED BY <2>1, StoreType DEF Inv, TypeOK
  <1>4. ASSUME NEW m \in Listener, sub'[m] # None, id'[m] \in ids'[Store(sub'[m])]
        PROVE  Unheard'[m] = values[Store(sub'[m])][id'[m]]
    <2>1. \A k \in Sub, i \in Id : i \in ids'[k] => flags'[k][i] = values[k][i]
      BY <1>1 DEF Kept
    <2>2. Unheard'[m] = flags'[Store(sub[m])'][id'[m]]
      BY <1>4, UnheardNext
    <2> HIDE DEF values
    <2> QED BY <1>3, <1>4, <2>1, <2>2
  <1>5. Unheard'[l] = IF s = None THEN {} ELSE {Initial}
    <2>1. CASE s = None
      BY <1>2, <2>1, UnheardNext
    <2>2. CASE s # None
      <3>1. /\ sub'[l] = s /\ id'[l] = new /\ Store(s) \in Sub /\ new \in Id
            /\ values = [flags EXCEPT ![Store(s)][new] = {Initial}]
        BY <1>2, <1>3, <2>2
      <3>2. flags \in [Sub -> [Id -> SUBSET Flag]]
        BY DEF Inv, TypeOK
      <3>3. values[Store(s)][new] = {Initial}
        <4> HIDE DEF new
        <4> QED BY <3>1, <3>2
      <3>4. new \in ids'[Store(s)]
        BY <2>2, <3>1, SetFrame
      <3> QED BY <1>4, <2>2, <3>1, <3>3, <3>4
    <2> QED BY <2>1, <2>2
  <1>6. ASSUME NEW m \in Listener \ {l}
        PROVE  Unheard'[m] = Unheard[m]
    <2>1. CASE sub[m] = None
      BY <1>2, <2>1, UnheardNow, UnheardNext
    <2>2. CASE sub[m] # None /\ id[m] \in ids[Store(sub[m])]
      <3>1. values[Store(sub[m])][id[m]] = flags[Store(sub[m])][id[m]]
        BY <1>2, <1>3, <2>2 DEF Inv, TypeOK
      <3>2. id'[m] \in ids'[Store(sub'[m])]
        BY <1>2, <1>3, <2>2, SetFrame
      <3> QED BY <1>2, <1>4, <2>2, <3>1, <3>2, UnheardNow
    <2>3. CASE sub[m] # None /\ id[m] \notin ids[Store(sub[m])]
      <3>1. id'[m] \notin ids'[Store(sub'[m])]
        BY <1>2, <1>3, <2>3, SetFrame
      <3>2. Store(sub[m])' = Store(sub[m]) /\ Store(sub[m]) \in Sub
        BY <1>2, <1>3, <2>3
      <3> QED BY <1>2, <2>3, <3>1, <3>2 DEF Unheard, Pending
    <2> QED BY <2>1, <2>2, <2>3
  <1>7. Unheard' = [Unheard EXCEPT ![l] = IF s = None THEN {} ELSE {Initial}]
    BY <1>5, <1>6, UnheardIsFunction
  <1>8. Deaf' = Deaf \ {l}
    <2>1. \A m \in Listener \ {l} : m \in Deaf' <=> m \in Deaf
      BY <1>2, <1>3, SetFrame DEF Deaf
    <2>2. l \notin Deaf'
      BY <1>2, <1>3, SetFrame DEF Deaf
    <2> QED BY <2>1, <2>2 DEF Deaf
  <1> QED BY <1>1, <1>7, <1>8 DEF Abs!Bind

LEMMA MoveTakes ==
    ASSUME Inv, Inv', NEW l \in Listener, NEW m \in Listener \ {l}, Move(l, m)
    PROVE  Abs!Take(l, m)
  <1>1. /\ sub' = [sub EXCEPT ![l] = sub[m], ![m] = None] /\ id' = [id EXCEPT ![l] = id[m]]
        /\ flags' = Kept(flags, ids') /\ UNCHANGED <<forwarded, got>>
    BY DEF Move
  <1>2. /\ sub'[l] = sub[m] /\ id'[l] = id[m] /\ sub'[m] = None
        /\ \A o \in Listener \ {l, m} : sub'[o] = sub[o] /\ id'[o] = id[o]
    BY <1>1 DEF Inv, TypeOK
  <1>3. \A o \in Listener : sub'[o] # None =>
           /\ Store(sub'[o]) \in Sub /\ Store(sub[o])' = Store(sub'[o])
           /\ id'[o] \in Id /\ (id'[o] \in ids'[Store(sub'[o])] <=> id'[o] \in ids[Store(sub'[o])])
    <2>1. \A o \in Listener : sub'[o] # None =>
             sub'[o] \in Sub /\ id'[o] \in Id /\ Store(sub[o])' = Store(sub'[o])
      BY <1>1 DEF Inv, TypeOK, Mine, Store, Forwards
    <2>2. \A o \in Listener, k \in Sub : sub'[o] # None => (id'[o] \in ids'[k] <=> id'[o] \in ids[k])
      BY <1>2, MoveFrame
    <2> QED BY <2>1, <2>2, StoreType DEF Inv, TypeOK
  <1>4. \A o \in Listener : sub'[o] # None => Unheard'[o] = flags[Store(sub'[o])][id'[o]]
    <2>1. \A k \in Sub, i \in Id : (i \in ids'[k] <=> i \in ids[k]) => flags'[k][i] = flags[k][i]
      BY <1>1 DEF Kept, Inv, KeyedFlags
    <2>2. \A o \in Listener : sub'[o] # None => Unheard'[o] = flags'[Store(sub[o])'][id'[o]]
      BY UnheardNext
    <2> QED BY <1>3, <2>1, <2>2
  <1>5. Unheard'[l] = Unheard[m] /\ Unheard'[m] = {}
    BY <1>2, <1>4, UnheardNow, UnheardNext
  <1>6. \A o \in Listener \ {l, m} : Unheard'[o] = Unheard[o]
    BY <1>2, <1>4, UnheardNow, UnheardNext
  <1>7. Unheard' = [Unheard EXCEPT ![l] = Unheard[m], ![m] = {}]
    BY <1>5, <1>6, UnheardIsFunction
  <1>8. Deaf' = (Deaf \ {l, m}) \cup (IF m \in Deaf THEN {l} ELSE {})
    <2>1. l \in Deaf' <=> m \in Deaf
      BY <1>2, <1>3 DEF Deaf
    <2>2. m \notin Deaf'
      BY <1>2 DEF Deaf
    <2>3. \A o \in Listener \ {l, m} : o \in Deaf' <=> o \in Deaf
      BY <1>2, <1>3 DEF Deaf
    <2> QED BY <2>1, <2>2, <2>3 DEF Deaf
  <1> QED BY <1>1, <1>7, <1>8 DEF Abs!Take

LEMMA AssetStands ==
    ASSUME Inv, Inv', NEW f \in Forwarder, NEW a \in Base \cup {None}, onAsset(f, a)
    PROVE  Abs!Stand(f, a)
  <1>1. /\ forwarded' = [forwarded EXCEPT ![f] = a]
        /\ flags' = Kept(flags, ids') /\ UNCHANGED <<sub, id, got>>
    BY AssetFrame
  <1>2. ASSUME NEW l \in Listener, sub[l] # f
        PROVE  Unheard'[l] = Unheard[l] /\ (l \in Deaf' <=> l \in Deaf)
    <2>1. CASE sub[l] = None
      BY <1>1, <2>1, UnheardNow, UnheardNext DEF Deaf
    <2>2. CASE sub[l] # None
      <3>1. /\ sub[l] \in Sub /\ Store(sub[l]) \in Sub /\ id[l] \in Id
            /\ Store(sub[l])' = Store(sub[l])
        BY <1>2, <2>2, AssetFrame DEF Inv, Mine
      <3>2. id[l] \in ids'[Store(sub[l])] <=> id[l] \in ids[Store(sub[l])]
        BY <1>2, <2>2, <3>1, AssetFrame
      <3>3. flags'[Store(sub[l])][id[l]] = flags[Store(sub[l])][id[l]]
        BY <1>1, <3>1, <3>2 DEF Kept, Inv, KeyedFlags
      <3> QED BY <1>1, <3>1, <3>2, <3>3, SameUnheard DEF Deaf
    <2> QED BY <2>1, <2>2
  <1>3. ASSUME NEW l \in Listener, sub[l] = f
        PROVE  Unheard'[l] = {} /\ l \in Deaf'
    <2>1. sub[l] # None /\ Store(sub[l])' \in Sub
      BY <1>3, AssetFrame, SubscriptionParameters DEF Sub
    <2>2. id[l] \notin ids'[Store(sub[l])']
      BY <1>3, <2>1, AssetFrame
    <2> QED BY <1>1, <2>1, <2>2 DEF Unheard, Pending, Deaf
  <1>4. Unheard' = [l \in Listener |-> IF sub[l] = f THEN {} ELSE Unheard[l]]
    BY <1>2, <1>3, UnheardIsFunction
  <1>5. Deaf' = Deaf \cup {l \in Listener : sub[l] = f}
    BY <1>2, <1>3 DEF Deaf
  <1> QED BY <1>1, <1>4, <1>5 DEF Abs!Stand

LEMMA StepImplements ==
    ASSUME Inv, Inv', [Next]_vars
    PROVE  [Abs!Next]_<<forwarded, sub, Unheard, got, Deaf>>
  <1>1. CASE UNCHANGED vars
    BY <1>1 DEF vars, bindings, Unheard, Deaf, Pending, Store, Forwards
  <1>2. ASSUME NEW s \in Sub, NEW flag \in Flag, NEW only \in BOOLEAN, setDirty(s, flag, only)
        PROVE  Abs!Next
    BY <1>2, DirtyPosts DEF Abs!Next, Abs!Provider, Sub
  <1>3. ASSUME NEW l \in Listener, update(l)
        PROVE  Abs!Next
    BY <1>3, UpdateHears DEF Abs!Next
  <1>4. ASSUME NEW l \in Listener, NEW s \in Sub \cup {None}, Set(l, s)
        PROVE  Abs!Next
    BY <1>4, SetBinds DEF Abs!Next, Abs!Provider, Sub
  <1>5. ASSUME NEW l \in Listener, NEW m \in Listener \ {l}, Move(l, m)
        PROVE  Abs!Next
    BY <1>5, MoveTakes DEF Abs!Next
  <1>6. ASSUME NEW f \in Forwarder, NEW a \in Base \cup {None}, onAsset(f, a)
        PROVE  Abs!Next
    BY <1>6, AssetStands DEF Abs!Next
  <1> QED BY <1>1, <1>2, <1>3, <1>4, <1>5, <1>6 DEF Next

LEMMA InitImplements == Init => Abs!Init
  BY DEF Init, Abs!Init, Unheard, Deaf

(* Each listener hears, the next time it asks, all the flags posted since   *)
(* it was bound or last asked, and nothing else; those who were bound to a  *)
(* forwarder when its asset came, and nobody else, hear nothing from then.  *)
THEOREM SubscriptionImplementsUpdates == Spec => ImplementsUpdates
  <1>1. Inv /\ Inv' /\ [Next]_vars => [Abs!Next]_<<forwarded, sub, Unheard, got, Deaf>>
    BY StepImplements
  <1> QED BY <1>1, SpecInv, InitImplements, PTL DEF Spec, ImplementsUpdates, Abs!Spec
=============================================================================
