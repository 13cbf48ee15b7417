-------------------------- MODULE ProviderExchange --------------------------
(***************************************************************************)
(* What a durable provider job promises its owner and its runners, with    *)
(* no clock, no lease length and no inventory: an offered job is handed    *)
(* out to one holder at a time, every hand-out carries a token that was    *)
(* never used before, only the present holder's token settles the job, and *)
(* a settled or withdrawn job stays so until it is forgotten.              *)
(*                                                                         *)
(* CodexProviderJobs implements this specification.                        *)
(***************************************************************************)
CONSTANTS Jobs, Tokens, NoToken

VARIABLES phase,   \* phase[j]: where job j is in its life
          holder,  \* holder[j]: the token that holds, or last held, job j
          verdict, \* verdict[j]: the token whose verdict stands for job j
          spent    \* tokens that have been handed out

xvars == <<phase, holder, verdict, spent>>

Phases == {"absent", "open", "settled", "withdrawn"}

Init == /\ phase = [j \in Jobs |-> "absent"]
        /\ holder = [j \in Jobs |-> NoToken]
        /\ verdict = [j \in Jobs |-> NoToken]
        /\ spent = {}

Offer(j) == /\ phase[j] = "absent"
            /\ phase' = [phase EXCEPT ![j] = "open"]
            /\ UNCHANGED <<holder, verdict, spent>>

\* A new holder displaces the old one: the old token is worthless from here on.
HandOut(j, t) == /\ phase[j] = "open"
                 /\ t \notin spent
                 /\ holder' = [holder EXCEPT ![j] = t]
                 /\ spent' = spent \cup {t}
                 /\ UNCHANGED <<phase, verdict>>

Return(j) == /\ phase[j] = "open"
             /\ holder' = [holder EXCEPT ![j] = NoToken]
             /\ UNCHANGED <<phase, verdict, spent>>

\* The verdict is presented under a token, and lands for the present holder.
Settle(j, t) == /\ phase[j] = "open"
                /\ holder[j] = t
                /\ phase' = [phase EXCEPT ![j] = "settled"]
                /\ verdict' = [verdict EXCEPT ![j] = t]
                /\ UNCHANGED <<holder, spent>>

Withdraw(j) == /\ phase[j] = "open"
               /\ phase' = [phase EXCEPT ![j] = "withdrawn"]
               /\ holder' = [holder EXCEPT ![j] = NoToken]
               /\ UNCHANGED <<verdict, spent>>

Forget(j) == /\ phase[j] \in {"settled", "withdrawn"}
             /\ phase' = [phase EXCEPT ![j] = "absent"]
             /\ holder' = [holder EXCEPT ![j] = NoToken]
             /\ verdict' = [verdict EXCEPT ![j] = NoToken]
             /\ UNCHANGED spent

Next == \E j \in Jobs : \/ Offer(j)
                        \/ \E t \in Tokens : HandOut(j, t) \/ Settle(j, t)
                        \/ Return(j)
                        \/ Withdraw(j)
                        \/ Forget(j)

Spec == Init /\ [][Next]_xvars
=============================================================================
