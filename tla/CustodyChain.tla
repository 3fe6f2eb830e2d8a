---------------------------- MODULE CustodyChain ----------------------------
(***************************************************************************)
(* What the custody ledger promises: per cargo one chain of events, each   *)
(* naming the event before it, the first one naming Genesis, and nothing   *)
(* ever removed or rewritten.  CargoCustody implements it as long as one   *)
(* request runs at a time and Redis keeps its data.                        *)
(***************************************************************************)
CONSTANTS Cargo, Requests, Genesis

VARIABLES
    chain,  \* chain[c]: the events of cargo c, each with its predecessor
    tip     \* tip[c]: the last event of the chain, or Genesis

chainVars == <<chain, tip>>

Entry == [id : Requests, prev : Requests \cup {Genesis}]

Init ==
    /\ chain = [c \in Cargo |-> {}]
    /\ tip = [c \in Cargo |-> Genesis]

\* A new event is appended behind the tip.
Append(c, r) ==
    /\ \A d \in Cargo : \A e \in chain[d] : e.id # r
    /\ chain' = [chain EXCEPT ![c] = @ \cup {[id |-> r, prev |-> tip[c]]}]
    /\ tip' = [tip EXCEPT ![c] = r]

Next == \E c \in Cargo, r \in Requests : Append(c, r)

Spec == Init /\ [][Next]_chainVars

\* No two events of a cargo follow the same event.
Linear == \A c \in Cargo : \A e, f \in chain[c] : e.prev = f.prev => e = f
=============================================================================
