------------------------------ MODULE Updates -------------------------------
(* What data::Subscription promises to the listeners of a provider: each    *)
(* hears, the next time it asks, all the flags that were posted since it    *)
(* was bound or last asked, and nothing else.  A provider may stand for     *)
(* another one, and what is posted to either is then heard by the listeners *)
(* of both, unless it is posted for those of the substitute alone.  Whoever *)
(* is bound to a provider when this begins to stand for another is told     *)
(* nothing any more, until it is bound anew.                                *)
CONSTANTS Base,         \* providers with updates of their own
          Forwarder,    \* providers that may stand for one of Base
          Listener,
          Flag, Initial, None

VARIABLES alias,        \* of each forwarder, what it stands for
          bound,        \* of each listener, its provider
          news,         \* what it has not heard yet
          deaf,         \* the listeners that are told nothing
          heard         \* what it heard last

Provider == Base \cup Forwarder

Init ==
    /\ alias = [f \in Forwarder |-> None]
    /\ bound = [l \in Listener |-> None]
    /\ news  = [l \in Listener |-> {}]
    /\ heard = [l \in Listener |-> {}]
    /\ deaf  = {}

Topic(p) == IF p \in Forwarder /\ alias[p] # None THEN alias[p] ELSE p

Hearers(p, only) ==
    {l \in Listener \ deaf : bound[l] # None /\
        IF only /\ p \in Forwarder THEN bound[l] = p ELSE Topic(bound[l]) = Topic(p)}

Post(p, flag, only) ==
    /\ news' = [l \in Listener |-> IF l \in Hearers(p, only) THEN news[l] \cup {flag} ELSE news[l]]
    /\ UNCHANGED <<alias, bound, heard, deaf>>

Bind(l, p) ==
    /\ bound' = [bound EXCEPT ![l] = p]
    /\ news'  = [news EXCEPT ![l] = IF p = None THEN {} ELSE {Initial}]
    /\ deaf'  = deaf \ {l}
    /\ UNCHANGED <<alias, heard>>

\* l takes over what m was bound to, with its news, if it is told any
Take(l, m) ==
    /\ bound' = [bound EXCEPT ![l] = bound[m], ![m] = None]
    /\ news'  = [news EXCEPT ![l] = news[m], ![m] = {}]
    /\ deaf'  = (deaf \ {l, m}) \cup (IF m \in deaf THEN {l} ELSE {})
    /\ UNCHANGED <<alias, heard>>

Hear(l) ==
    /\ bound[l] # None
    /\ heard' = [heard EXCEPT ![l] = news[l]]
    /\ news'  = [news EXCEPT ![l] = {}]
    /\ UNCHANGED <<alias, bound, deaf>>

Stand(f, p) ==
    /\ alias' = [alias EXCEPT ![f] = p]
    /\ deaf'  = deaf \cup {l \in Listener : bound[l] = f}
    /\ news'  = [l \in Listener |-> IF bound[l] = f THEN {} ELSE news[l]]
    /\ UNCHANGED <<bound, heard>>

Next ==
    \/ \E p \in Provider, flag \in Flag, only \in BOOLEAN : Post(p, flag, only)
    \/ \E l \in Listener :
          Hear(l) \/ (\E p \in Provider \cup {None} : Bind(l, p)) \/ (\E m \in Listener \ {l} : Take(l, m))
    \/ \E f \in Forwarder, p \in Base \cup {None} : Stand(f, p)

Spec == Init /\ [][Next]_<<alias, bound, news, heard, deaf>>
=============================================================================
