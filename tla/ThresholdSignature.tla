------------------------- MODULE ThresholdSignature -------------------------
(***************************************************************************)
(* What the signing ceremony of an oracle epoch promises, without sessions *)
(* messages, attempts, proposers or timeouts: oracles sign statements, and *)
(* a node that holds an aggregate signature holds one to which every       *)
(* member of a committee of at least MinSigners oracles contributed.       *)
(*                                                                         *)
(* A statement is what a partial signature is bound to: the committee, the *)
(* nonces of its members and the (price, timestamp) pair.                  *)
(***************************************************************************)
EXTENDS Integers, FiniteSets

CONSTANTS Oracles, Nodes, MinSigners

VARIABLES
    signed,   \* the signatures made so far: an oracle, on a statement
    held      \* held[n]: the statement n has an aggregate signature of, if any

vars == <<signed, held>>

Init ==
    /\ signed = {}
    /\ held = [n \in Nodes |-> {}]

\* A member of the committee signs, with a nonce it has not signed with before.
Sign(s) ==
    /\ s.oracle \in s.on.keys
    /\ \A t \in signed : t.oracle = s.oracle =>
           t.on.nonces[s.oracle] # s.on.nonces[s.oracle]
    /\ signed' = signed \cup {s}
    /\ UNCHANGED held

\* Node n comes to hold the aggregate of what the whole committee signed; it
\* never holds another one.
Certify(n, b) ==
    /\ held[n] = {}
    /\ Cardinality(b.keys) >= MinSigners
    /\ \A id \in b.keys : [oracle |-> id, on |-> b] \in signed
    /\ held' = [held EXCEPT ![n] = {b}]
    /\ UNCHANGED signed

Next ==
    \/ \E s \in signed' : Sign(s)
    \/ \E n \in Nodes : \E b \in {s.on : s \in signed} : Certify(n, b)

Spec == Init /\ [][Next]_vars
=============================================================================
