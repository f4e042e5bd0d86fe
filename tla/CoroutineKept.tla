----------------------------- MODULE CoroutineKept -----------------------------
(***************************************************************************)
(* CoroutineSched with the memory of whether a caller has read a message   *)
(* that an IO thread had freed.                                            *)
(***************************************************************************)
EXTENDS CoroutineSched

VARIABLE kept_so_far    \* no caller has read a message that had been freed

KeptInit == Init /\ kept_so_far = TRUE

KeptNext == /\ Next
            /\ kept_so_far' = (kept_so_far /\ ~\E c \in Ids : RecieveFreed(c))

KeptSpec == KeptInit /\ [][KeptNext]_<<vars, kept_so_far>> /\ Fairness

\* Up to the first message that is read after an IO thread has freed it, what wakes
\* a coroutine is its timer or the response to its own call (DoRecieve of
\* client/client.h, coroutine_actor.cpp).
MailboxOfKept == kept_so_far => MailboxMatchesCall
================================================================================
