----------------------------- MODULE LimitedUse -----------------------------
(* What every single-use store, code, counter and invitation of kirino promises:
   a ticket is worth a fixed number of uses when it is handed out, an acceptance
   spends one of them, and a ticket that has been voided (expired, evicted, used
   up, revoked) is never worth anything again.  The implementations are shown to
   refine this specification by mapping `left` to what their tables still hold. *)
EXTENDS Naturals

CONSTANT Tickets

VARIABLES
    left,      \* uses the holder of a ticket can still spend
    spent      \* uses accepted so far

lvars == <<left, spent>>

Init ==
    /\ left \in [Tickets -> Nat]
    /\ spent = [t \in Tickets |-> 0]

(* The tickets S lose their worth. *)
VoidedIn(l, S) == [t \in Tickets |-> IF t \in S THEN 0 ELSE l[t]]

(* A ticket is handed out only once; others may be dropped to make room. *)
Issue(t, n, S) ==
    /\ left[t] = 0 /\ spent[t] = 0
    /\ left' = [VoidedIn(left, S) EXCEPT ![t] = n]
    /\ UNCHANGED spent

Use(t, S) ==
    /\ left[t] > 0
    /\ left' = VoidedIn([left EXCEPT ![t] = @ - 1], S)
    /\ spent' = [spent EXCEPT ![t] = @ + 1]

Void(S) ==
    /\ left' = VoidedIn(left, S)
    /\ UNCHANGED spent

Next ==
    \E S \in SUBSET Tickets :
        \/ Void(S)
        \/ \E t \in Tickets : Use(t, S)
        \/ \E t \in Tickets : left'[t] \in Nat /\ Issue(t, left'[t], S)

Spec == Init /\ [][Next]_lvars
=============================================================================
