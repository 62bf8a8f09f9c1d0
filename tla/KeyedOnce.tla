----------------------------- MODULE KeyedOnce -----------------------------
(***************************************************************************)
(* What the Idempotency-Key protocol of the API promises to its callers,   *)
(* with no transactions, rows or connections in sight: the first decision  *)
(* for a key is final, it is taken at most once, and every answer given    *)
(* for the key repeats it to a caller that sent the same content.          *)
(***************************************************************************)

CONSTANTS Keys,      \* actor, method, route and Idempotency-Key together
          Hashes,    \* request hashes: the content of a call
          Bodies,    \* response bodies
          Undecided  \* a key no committed call has used

VARIABLES decided,   \* the committed outcome of each key
          answers    \* every successful answer some caller received

vars == <<decided, answers>>

Outcomes == [hash : Hashes, body : Bodies]

Init == /\ decided = [k \in Keys |-> Undecided]
        /\ answers = {}

Decide(k) == /\ decided[k] = Undecided
             /\ \E o \in Outcomes : decided' = [decided EXCEPT ![k] = o]
             /\ UNCHANGED answers

Answer(k) == /\ decided[k] # Undecided
             /\ answers' = answers \cup
                  {[key |-> k, hash |-> decided[k].hash, body |-> decided[k].body]}
             /\ UNCHANGED decided

Next == \E k \in Keys : Decide(k) \/ Answer(k)

Spec == Init /\ [][Next]_vars
=============================================================================
