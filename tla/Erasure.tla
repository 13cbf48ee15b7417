------------------------------- MODULE Erasure -------------------------------
(***************************************************************************)
(* What account deletion promises, without jobs, leases or checkpoints:    *)
(* exports are published for an open account only, and an account is       *)
(* called erased only when nothing of it can be read any more.             *)
(* apps/api/src/services/account-deletion.ts, services/privacy-jobs.ts.    *)
(***************************************************************************)
CONSTANT Exports

VARIABLES phase,     \* the account: open, closing, erased
          readable,  \* the exports a download would return
          data       \* the reader's rows exist and a key opens them

erasureVars == <<phase, readable, data>>

ErasureInit == phase = "open" /\ readable = {} /\ data = TRUE

PublishReadable(x) == /\ phase = "open"
                      /\ readable' = readable \cup {x}
                      /\ UNCHANGED <<phase, data>>

\* Expiry, the fence and the removal of objects; several exports at once.
WithdrawReadable == /\ readable' \in SUBSET readable
                    /\ UNCHANGED <<phase, data>>

CloseAccount == /\ phase = "open"
                /\ phase' = "closing"
                /\ UNCHANGED <<readable, data>>

DestroyData == /\ phase = "closing"
               /\ data' = FALSE
               /\ readable' \in SUBSET readable
               /\ UNCHANGED phase

CallErased == /\ phase = "closing"
              /\ readable = {} /\ ~data
              /\ phase' = "erased"
              /\ UNCHANGED <<readable, data>>

ErasureNext == \/ \E x \in Exports : PublishReadable(x)
               \/ WithdrawReadable \/ CloseAccount \/ DestroyData \/ CallErased

ErasureSpec == ErasureInit /\ [][ErasureNext]_erasureVars
=============================================================================
