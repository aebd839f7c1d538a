------------------------------ MODULE Exchange ------------------------------
(***************************************************************************)
(* What a client may expect of its calls: a request is carried out once,   *)
(* or not at all, in the order of the calls, and an answer is the answer   *)
(* to it.  A call that fails says nothing of its request, and a client     *)
(* that goes on with a connection on which it has failed may rely on       *)
(* nothing any more until it connects again.                               *)
(***************************************************************************)
EXTENDS Integers, Sequences

VARIABLES outcome,   \* of each call: 0 while it waits, -1 when it has failed, else
                     \* the request that was answered
          applied,   \* the requests carried out, in order
          reliable   \* the connection has never been used after a failure

exchangeVars == <<outcome, applied, reliable>>

Init == outcome = <<>> /\ applied = <<>> /\ reliable = TRUE

Waits(i) == i \in DOMAIN outcome /\ outcome[i] = 0

Ask == /\ \A i \in DOMAIN outcome : ~Waits(i)
       /\ outcome' = Append(outcome, 0)
       /\ UNCHANGED <<applied, reliable>>

\* A request may still be carried out when its call has failed.
Apply(i) == /\ \A k \in DOMAIN applied : applied[k] < i
            /\ applied' = Append(applied, i)
            /\ UNCHANGED <<outcome, reliable>>

Answer(i) == /\ Waits(i)
             /\ IF reliable
                THEN /\ \E k \in DOMAIN applied : applied[k] = i
                     /\ outcome' = [outcome EXCEPT ![i] = i]
                ELSE \E k \in DOMAIN applied : outcome' = [outcome EXCEPT ![i] = applied[k]]
             /\ UNCHANGED <<applied, reliable>>

Fail(i) == /\ Waits(i)
           /\ outcome' = [outcome EXCEPT ![i] = -1]
           /\ reliable' \in {reliable, FALSE}
           /\ UNCHANGED applied

Connect == reliable' = TRUE /\ UNCHANGED <<outcome, applied>>

Next == \/ Ask \/ Connect
        \/ \E i \in DOMAIN outcome : Apply(i) \/ Answer(i) \/ Fail(i)

Spec == Init /\ [][Next]_exchangeVars
=============================================================================
