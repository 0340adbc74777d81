-------------------------- MODULE PublicationPromise --------------------------
(* What a club can rely on when items are published, without ticks, locks and
   transactions: an approval owes one publication; a publication posts once on each
   of some destinations and pays what is owed; one that is given up is paid off
   without a post; and only a retry owes a publication again.  An item is said to be
   published by a publication that posted it, until something else is decided. *)
EXTENDS Naturals

CONSTANTS Items, Destinations, Tickets

VARIABLES owed, paid, shown, said

vars == <<owed, paid, shown, said>>

Init ==
    /\ owed = [i \in Items |-> {}]
    /\ paid = [i \in Items |-> {}]
    /\ shown = [i \in Items |-> [d \in Destinations |-> 0]]
    /\ said = {}

Fresh(k) == \A i \in Items : k \notin owed[i] \cup paid[i]

Approve(i, k) ==
    /\ Fresh(k)
    /\ owed' = [owed EXCEPT ![i] = @ \cup {k}]
    /\ said' = said \ {i}
    /\ UNCHANGED <<paid, shown>>

Pays(i, k) ==
    /\ k \in owed[i]
    /\ owed' = [owed EXCEPT ![i] = @ \ {k}]
    /\ paid' = [paid EXCEPT ![i] = @ \cup {k}]

Publish(i, k, on) ==
    /\ Pays(i, k)
    /\ shown' = [shown EXCEPT ![i] =
                    [d \in Destinations |-> @[d] + IF d \in on THEN 1 ELSE 0]]
    /\ \/ on # {} /\ said' = said \cup {i}
       \/ said' = said \ {i}

GiveUp(i, k) == Pays(i, k) /\ UNCHANGED <<shown, said>>

Retry(i, k) ==
    /\ k \in paid[i]
    /\ paid' = [paid EXCEPT ![i] = @ \ {k}]
    /\ owed' = [owed EXCEPT ![i] = @ \cup {k}]
    /\ UNCHANGED <<shown, said>>

Decide(i) == said' = said \ {i} /\ UNCHANGED <<owed, paid, shown>>

Next ==
    \E i \in Items :
        \/ Decide(i)
        \/ \E k \in Tickets :
              \/ Approve(i, k)
              \/ GiveUp(i, k)
              \/ Retry(i, k)
              \/ \E on \in SUBSET Destinations : Publish(i, k, on)

Spec == Init /\ [][Next]_vars
=============================================================================
