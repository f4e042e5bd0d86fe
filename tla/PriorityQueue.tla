--------------------------- MODULE PriorityQueue ---------------------------
(***************************************************************************)
(* What common/heap.h promises the code that uses it, with no word about   *)
(* how: a set of entries, each known to its owner by a handle (the `sign`) *)
(* and ordered by a key.  Handles of entries that are gone may be reused.  *)
(***************************************************************************)
EXTENDS Integers

CONSTANTS
    Handle,     \* what Insert may hand out
    Key         \* the keys entries are ordered by

VARIABLES
    queue,      \* the entries: a function from the live handles to their keys
    returned    \* the handle the last call gave to its caller, or NoHandle

NoHandle == -1

qvars == <<queue, returned>>

Without(h) == [g \in DOMAIN queue \ {h} |-> queue[g]]

IsMinimal(h) == h \in DOMAIN queue /\ \A g \in DOMAIN queue : queue[h] <= queue[g]

AInit == queue = [h \in {} |-> 0] /\ returned = NoHandle

\* A handle that names no other live entry is given out.
AInsert(h, k) ==
    /\ h \notin DOMAIN queue
    /\ queue' = [g \in DOMAIN queue \cup {h} |-> IF g = h THEN k ELSE queue[g]]
    /\ returned' = h

\* Exactly the named entry disappears.
AErase(h) ==
    /\ h \in DOMAIN queue
    /\ queue' = Without(h)
    /\ returned' = NoHandle

\* An entry with the least key disappears and is the one returned.
APop(h) ==
    /\ IsMinimal(h)
    /\ queue' = Without(h)
    /\ returned' = h

\* Exactly the named entry gets a new key.
AUpdate(h, k) ==
    /\ h \in DOMAIN queue
    /\ queue' = [queue EXCEPT ![h] = k]
    /\ returned' = NoHandle

\* A call that leaves the entries alone (Refresh, or any call on an empty queue).
ANothing == UNCHANGED queue /\ returned' = NoHandle

AClear == queue' = [h \in {} |-> 0] /\ returned' = NoHandle

ANext ==
    \/ \E h \in Handle, k \in Key : AInsert(h, k) \/ AUpdate(h, k)
    \/ \E h \in Handle : AErase(h) \/ APop(h)
    \/ ANothing
    \/ AClear

ASpec == AInit /\ [][ANext]_qvars
=============================================================================
