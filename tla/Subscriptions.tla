--------------------------- MODULE Subscriptions ---------------------------
(***************************************************************************)
(* What the worker promises about user subscriptions, with sessions,       *)
(* queues and reconnects left out: a subscription appears under an id      *)
(* never used before and stays, under that id and key, until it is ended.  *)
(* It is ended only because the user asked for it, or because a reconnect  *)
(* could not declare it again.  Explorer.tla implements this.              *)
(***************************************************************************)
EXTENDS Naturals

CONSTANT Keys

VARIABLES
    subs,     \* set of [id, key]: the subscriptions that exist
    used,     \* ids handed out so far are 1 .. used
    endable   \* ids the user asked to end, or a reconnect is declaring again

Subscription == [id : Nat \ {0}, key : Keys]

Init == subs = {} /\ used = 0 /\ endable = {}

\* A new subscription takes the next id.
Create ==
    /\ \E key \in Keys : subs' = subs \cup {[id |-> used + 1, key |-> key]}
    /\ used' = used + 1
    /\ UNCHANGED endable

\* A subscription that may end does.
End ==
    /\ \E s \in subs : s.id \in endable /\ subs' = subs \ {s}
    /\ UNCHANGED used
    /\ endable' \subseteq endable

\* Requests come and go without touching what exists.
Request == UNCHANGED <<subs, used>>

Next == Create \/ End \/ Request

Spec == Init /\ [][Next]_<<subs, used, endable>>
=============================================================================
