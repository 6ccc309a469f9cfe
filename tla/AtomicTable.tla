---------------------------- MODULE AtomicTable ----------------------------
(***************************************************************************)
(* What a client may rely on when it talks to one endpoint, whichever      *)
(* requests run beside its own: each request takes effect at one moment    *)
(* between its arrival and its answer, or not at all.                      *)
(*                                                                         *)
(* A success says that the effect happened, and a successful read carries  *)
(* the rows that matched at that moment.  An error says nothing: the       *)
(* effect may have happened.                                               *)
(***************************************************************************)
EXTENDS Store

CONSTANTS Inputs, Stored, UniqueIds, Returning

VARIABLES
    table,      \* the rows
    want,       \* what each request asks for
    state,      \* "new", "pending", "applied" or "answered"
    outcome     \* the rows of each request's effect, then of its answer

vars == <<table, want, state, outcome>>

Init ==
    /\ table = Stored
    /\ \E i \in Inputs : want = [r \in Req |-> i]
    /\ state = [r \in Req |-> "new"]
    /\ outcome = [r \in Req |-> {}]

Submit(r) ==
    /\ state[r] = "new"
    /\ state' = [state EXCEPT ![r] = "pending"]
    /\ \E i \in Inputs : want' = [want EXCEPT ![r] = i]
    /\ UNCHANGED <<table, outcome>>

\* The server may still settle the details of a request - a hook rewrites it, an
\* id is chosen for the new row - but not which operation "op" named.
Settle(r) ==
    /\ state[r] = "pending"
    /\ \E i \in Input :
         /\ i.route = want[r].route
         /\ i.route = "op" => i.kind = want[r].kind
         /\ want' = [want EXCEPT ![r] = i]
    /\ UNCHANGED <<table, state, outcome>>

\* The effect, all at once.
Apply(r) ==
    /\ state[r] = "pending"
    /\ want[r].kind # "bad"
    /\ \E k \in StoredIds(want[r]) :
         /\ ~(UniqueIds /\ Violates(table, want[r], k, r))
         /\ table' = Statement(table, want[r], k, r)
         /\ outcome' = [outcome EXCEPT ![r] =
                            IF want[r].route = "query"
                            THEN ResultRows(table, want[r], k, r, Returning)
                            ELSE {}]
    /\ state' = [state EXCEPT ![r] = "applied"]
    /\ UNCHANGED want

\* The answer to a request that took effect: what its effect gave.
Succeed(r) ==
    /\ state[r] = "applied"
    /\ state' = [state EXCEPT ![r] = "answered"]
    /\ UNCHANGED <<table, want, outcome>>

\* An error, before or after the effect.
Err(r) ==
    /\ state[r] \in {"pending", "applied"}
    /\ state' = [state EXCEPT ![r] = "answered"]
    /\ outcome' = [outcome EXCEPT ![r] = {}]
    /\ UNCHANGED <<table, want>>

\* An error answer that leaves with the effect.
ApplyAndErr(r) ==
    /\ state[r] = "pending"
    /\ want[r].kind # "bad"
    /\ \E k \in StoredIds(want[r]) :
         /\ ~(UniqueIds /\ Violates(table, want[r], k, r))
         /\ table' = Statement(table, want[r], k, r)
    /\ state' = [state EXCEPT ![r] = "answered"]
    /\ UNCHANGED <<want, outcome>>

Next == \E r \in Req :
    Submit(r) \/ Settle(r) \/ Apply(r) \/ Succeed(r) \/ Err(r) \/ ApplyAndErr(r)

Spec == Init /\ [][Next]_vars
=============================================================================
