------------------------------ MODULE SendRecieve ------------------------------
(***************************************************************************)
(* What Client::SendRecieve promises the code that runs in a coroutine: a  *)
(* call returns once, with the response the server gave to this very call  *)
(* or with nothing, and a caller has one call open at a time.              *)
(***************************************************************************)
CONSTANTS Callers, Calls

VARIABLES caller,   \* who made the call
          phase,    \* "unused", "open", "answered" or "nothing"
          given     \* the calls to which the server gave a response

vars == <<caller, phase, given>>

Open(c) == {s \in Calls : phase[s] = "open" /\ caller[s] = c}

Init == /\ caller \in [Calls -> Callers]
        /\ phase = [s \in Calls |-> "unused"]
        /\ given = {}

Begin(s, c) == /\ phase[s] = "unused"
               /\ Open(c) = {}
               /\ phase' = [phase EXCEPT ![s] = "open"]
               /\ caller' = [caller EXCEPT ![s] = c]
               /\ UNCHANGED given

\* The response may be on its way, or come after the call has timed out.
Give(s) == /\ phase[s] # "unused" /\ s \notin given
           /\ given' = given \cup {s}
           /\ UNCHANGED <<caller, phase>>

Answer(s) == /\ phase[s] = "open" /\ s \in given
             /\ phase' = [phase EXCEPT ![s] = "answered"]
             /\ UNCHANGED <<caller, given>>

GiveUp(s) == /\ phase[s] = "open"
             /\ phase' = [phase EXCEPT ![s] = "nothing"]
             /\ UNCHANGED <<caller, given>>

Next == \E s \in Calls : \/ \E c \in Callers : Begin(s, c)
                         \/ Give(s)
                         \/ Answer(s)
                         \/ GiveUp(s)

Spec == Init /\ [][Next]_vars
================================================================================
