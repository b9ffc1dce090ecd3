--------------------------- MODULE AtomicStorage ---------------------------
(* What a minidb storage promises its transactions: any number of readers   *)
(* or one writer, reads of the last committed pages, and commits that take  *)
(* effect at once or, after a crash, not at all.                            *)
EXTENDS Integers

CONSTANTS Conn,    \* transaction objects
          Page     \* pages; 0 is the header, which every commit rewrites

Unread == -1
Header == 0

VARIABLES committed,   \* number of the commit that wrote each page last
          mode,        \* "closed", "read" or "write"
          view,        \* pages a transaction has in its cache
          dirty,       \* pages it has changed and not committed
          failed       \* it was invalidated

vars == <<committed, mode, view, dirty, failed>>

Nothing == [p \in Page |-> Unread]

Closed(S) ==
    /\ mode'   = [c \in Conn |-> IF c \in S THEN "closed" ELSE mode[c]]
    /\ view'   = [c \in Conn |-> IF c \in S THEN Nothing ELSE view[c]]
    /\ dirty'  = [c \in Conn |-> IF c \in S THEN {} ELSE dirty[c]]
    /\ failed' = [c \in Conn |-> IF c \in S THEN FALSE ELSE failed[c]]
    /\ UNCHANGED committed

Init ==
    /\ committed = [p \in Page |-> 0]
    /\ mode      = [c \in Conn |-> "closed"]
    /\ view      = [c \in Conn |-> Nothing]
    /\ dirty     = [c \in Conn |-> {}]
    /\ failed    = [c \in Conn |-> FALSE]

Open(c, m) ==
    /\ mode[c] = "closed"
    /\ \A d \in Conn : mode[d] = "write" \/ m = "write" => mode[d] = "closed"
    /\ mode' = [mode EXCEPT ![c] = m]
    /\ view' = [view EXCEPT ![c][Header] = committed[Header]]
    /\ UNCHANGED <<committed, dirty, failed>>

Read(c, p) ==
    /\ mode[c] # "closed"
    /\ view' = [view EXCEPT ![c][p] = committed[p]]
    /\ UNCHANGED <<committed, mode, dirty, failed>>

Forget(c, p) ==
    /\ view' = [view EXCEPT ![c][p] = Unread]
    /\ UNCHANGED <<committed, mode, dirty, failed>>

Write(c, p) ==
    /\ mode[c] = "write"
    /\ view'  = [view EXCEPT ![c][p] = committed[p]]
    /\ dirty' = [dirty EXCEPT ![c] = @ \cup {p}]
    /\ UNCHANGED <<committed, mode, failed>>

Invalidate(c) ==
    /\ mode[c] # "closed"
    /\ failed' = [failed EXCEPT ![c] = TRUE]
    /\ UNCHANGED <<committed, mode, view, dirty>>

Commit(c) ==
    LET tx == committed[Header] + 1 IN
    /\ mode[c] = "write" /\ ~failed[c] /\ dirty[c] # {}
    /\ committed' = [p \in Page |-> IF p \in dirty[c] \cup {Header} THEN tx ELSE committed[p]]
    /\ view'  = [view EXCEPT ![c] = [Nothing EXCEPT ![Header] = tx]]
    /\ dirty' = [dirty EXCEPT ![c] = {}]
    /\ UNCHANGED <<mode, failed>>

(* A transaction ends with nothing uncommitted, unless it was invalidated.  *)
Close(c) ==
    /\ mode[c] # "closed"
    /\ failed[c] \/ dirty[c] = {}
    /\ Closed({c})

Crash == \E S \in SUBSET Conn : Closed(S)

Next ==
    \/ Crash
    \/ \E c \in Conn :
        \/ Open(c, "read") \/ Open(c, "write") \/ Close(c) \/ Commit(c) \/ Invalidate(c)
        \/ \E p \in Page : Read(c, p) \/ Forget(c, p) \/ Write(c, p)

Spec == Init /\ [][Next]_vars
=============================================================================
