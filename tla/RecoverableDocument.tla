-------------------------- MODULE RecoverableDocument --------------------------
(***************************************************************************)
(* What the autosave store promises its caller.  outcomes holds the        *)
(* results crash recovery may have if the machine fails now: each is {} or *)
(* {e}, nothing or one entry.  A save first makes a newer result possible, *)
(* then certain, and is acknowledged only then.                            *)
(***************************************************************************)
EXTENDS Naturals

CONSTANT Entry

VARIABLES outcomes, acked

Init == outcomes = {{}} /\ acked = {}

\* A save reaches the disk in part: its document may be found.
Offer ==
    /\ \E e \in Entry :
         /\ \A o \in outcomes : \A f \in o : f.seq < e.seq
         /\ outcomes' = outcomes \cup {{e}}
    /\ UNCHANGED acked

\* A sync or a crash decides between the possible results.
Settle ==
    /\ outcomes' \in (SUBSET outcomes) \ {{}}
    /\ UNCHANGED acked

\* The caller is told that its document is safe.
Acknowledge ==
    /\ \E e \in Entry : outcomes = {{e}} /\ acked' = {e}
    /\ UNCHANGED outcomes

Next == Offer \/ Settle \/ Acknowledge

Spec == Init /\ [][Next]_<<outcomes, acked>>

\* An acknowledged document is never lost to an older one.
AckedSurvives ==
    \A a \in acked : \A o \in outcomes : \E e \in o : e = a \/ e.seq > a.seq
===============================================================================
