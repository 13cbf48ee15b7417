----------------------------- MODULE RootRewrap ------------------------------
(***************************************************************************)
(* The campaign that rewraps every account's data key under a new root key *)
(* (apps/api/src/services/crypto-operations.ts and rewrapUserKey of        *)
(* db/users.ts), while accounts are made, rotated and deleted, and the     *)
(* operator deploys and retires root keys by                               *)
(* docs/deploy/root-kek-rotation.md.                                       *)
(*                                                                         *)
(* An invocation keeps the keyring of the Worker version that it started   *)
(* under; versions overlap while a deployment rolls out.  "revision = ?"   *)
(* and "wrapped_dek = ?" are remembered as whether what a call has read is *)
(* still what is stored: neither value ever comes back.                    *)
(***************************************************************************)
EXTENDS Integers, FiniteSets

CONSTANTS Users, Roots, FirstRoot,
          Calls,          \* invocations of stepKekRewrapCampaign
          NoCall,         \* lease_token_hash IS NULL
          Lease,          \* OPERATION_LEASE_MS
          Rollout,        \* how long invocations of the last version go on
          Patient,        \* the operator starts no campaign during a rollout
          MaxCampaigns,   \* bound: campaigns
          MaxDeployments, \* bound: keyrings that make another root active
          MaxDeletions,   \* bound: accounts deleted
          MaxFaults       \* bound: keyrings that miss a root still in use, and
                          \* invocations that die, together

ASSUME RewrapAssumption ==
    /\ FirstRoot \in Roots /\ NoCall \notin Calls /\ Patient \in BOOLEAN
    /\ Roots \cap {"none", "destroyed", "quiescing", "verifying"} = {}
    /\ {Lease, Rollout, MaxCampaigns} \subseteq Nat \ {0}
    /\ {MaxDeployments, MaxDeletions, MaxFaults} \subseteq Nat

VARIABLES ring, older, rollout,  \* ROOT_KEK_KEYRING, the one before
          checked,               \* the retirement checks were zero
          key,                   \* user_keys.root_kek_id of the live key
          minting,               \* the root of a key not inserted yet
          rotation,              \* crypto_operations: stage or candidate root
          deletion,              \* progress of the account's deletion
          campaign, item,        \* crypto_kek_rewrap_campaigns and _items
          creation,              \* createKekRewrapCampaign between its steps
          refused,               \* a campaign to the active root was refused for
                                 \* one that no step can drain
          call, deployments, losses, deaths

ringVars == <<ring, older, rollout, checked, deployments, losses>>
accountVars == <<key, minting, rotation, deletion>>
campaignVars == <<campaign, item>>
vars == <<ringVars, accountVars, campaignVars, creation, refused, call, deaths>>

Campaigns == 1 .. MaxCampaigns
NoCampaign == [status |-> "none", target |-> FirstRoot, lease |-> NoCall, expires |-> 0]
NoItem == [status |-> "none", source |-> FirstRoot]
NoCreation == [target |-> "none", keys |-> [u \in Users |-> "none"]]
NoRing == [active |-> FirstRoot, keys |-> {}]
Idle == [pc |-> "idle", of |-> 1, env |-> NoRing, fresh |-> FALSE, todo |-> {},
         ok |-> {}, failed |-> {}, user |-> NoCall, same |-> FALSE]

Open(i) == campaign[i].status \in {"running", "blocked"}
Rotating(u) == rotation[u] # "none"
Candidates == {rotation[u] : u \in Users} \cap Roots
\* The keyrings under which an invocation may start.
Serving == {ring} \cup IF rollout > 0 THEN {older} ELSE {}

Init == /\ ring = [active |-> FirstRoot, keys |-> {FirstRoot}]
        /\ older = ring /\ rollout = 0 /\ checked = FALSE
        /\ key \in [Users -> {"none", FirstRoot}]
        /\ minting = [u \in Users |-> "none"]
        /\ rotation = [u \in Users |-> "none"]
        /\ deletion = [u \in Users |-> "none"]
        /\ campaign = [i \in Campaigns |-> NoCampaign]
        /\ item = [i \in Campaigns |-> [u \in Users |-> NoItem]]
        /\ creation = NoCreation /\ refused = FALSE
        /\ call = [c \in Calls |-> Idle]
        /\ deployments = 0 /\ losses = 0 /\ deaths = 0

At(c, pc) == call[c].pc = pc
End(c) == call' = [call EXCEPT ![c] = Idle]
Target(c) == campaign[call[c].of].target
\* Calls that read the row of this campaign, or the key of this user, before.
OutdatedBy(i) == [d \in Calls |-> IF call[d].of = i THEN [call[d] EXCEPT !.fresh = FALSE]
                                  ELSE call[d]]
Reread(u) == [d \in Calls |-> IF call[d].user = u THEN [call[d] EXCEPT !.same = FALSE]
                              ELSE call[d]]
-----------------------------------------------------------------------------
(* The operator's keyrings.                                                *)

Deploy(new) == /\ rollout = 0
               /\ older' = ring /\ ring' = new /\ rollout' = Rollout
               /\ checked' = FALSE

\* Forward rotation, and rollback.
Activate(r) ==
    /\ deployments < MaxDeployments
    /\ r # ring.active
    /\ deployments' = deployments + 1
    /\ Deploy([active |-> r, keys |-> ring.keys \cup {r}])
    /\ UNCHANGED <<losses, accountVars, campaignVars, creation, refused, call, deaths>>

\* The three checks of the runbook, for the campaign to the active root.
CheckRetirement ==
    /\ rollout = 0 /\ ~checked
    /\ \E i \in Campaigns : /\ campaign[i].status # "none"
                            /\ campaign[i].target = ring.active
                            /\ \A u \in Users : item[i][u].status # "blocked"
    /\ \A u \in Users : key[u] \in Roots => key[u] = ring.active
    /\ Candidates \subseteq {ring.active}
    /\ checked' = TRUE
    /\ UNCHANGED <<ring, older, rollout, deployments, losses, accountVars,
                   campaignVars, creation, refused, call, deaths>>

Retire(r) ==
    /\ checked /\ r \in ring.keys \ {ring.active}
    /\ Deploy([ring EXCEPT !.keys = @ \ {r}])
    /\ UNCHANGED <<deployments, losses, accountVars, campaignVars, creation,
                   refused, call, deaths>>

LoseRoot(r) ==
    /\ losses + deaths < MaxFaults
    /\ r \in ring.keys \ {ring.active}
    /\ losses' = losses + 1
    /\ Deploy([ring EXCEPT !.keys = @ \ {r}])
    /\ UNCHANGED <<deployments, accountVars, campaignVars, creation, refused,
                   call, deaths>>

\* "Restore a missing source key in ROOT_KEK_KEYRING, deploy it".
RestoreRoot(r) ==
    /\ r \notin ring.keys
    /\ \E i \in Campaigns, u \in Users : /\ Open(i) /\ item[i][u].status = "blocked"
                                         /\ item[i][u].source = r
    /\ Deploy([ring EXCEPT !.keys = @ \cup {r}])
    /\ UNCHANGED <<deployments, losses, accountVars, campaignVars, creation,
                   refused, call, deaths>>
-----------------------------------------------------------------------------
(* Accounts: identity links, rotations of the data key, deletions.         *)

\* Mutant: the first key is always wrapped under the legacy root.
WrapLegacyKey(u) ==
    /\ key[u] = "none" /\ minting[u] = "none"
    /\ minting' = [minting EXCEPT ![u] = FirstRoot]
    /\ UNCHANGED <<ringVars, key, rotation, deletion, campaignVars, creation,
                   refused, call, deaths>>

\* buildUserKeyInsert wraps the key; the caller's batch inserts it.
WrapFirstKey(u) ==
    /\ key[u] = "none" /\ minting[u] = "none"
    /\ \E env \in Serving : minting' = [minting EXCEPT ![u] = env.active]
    /\ UNCHANGED <<ringVars, key, rotation, deletion, campaignVars, creation,
                   refused, call, deaths>>

InsertFirstKey(u) ==
    /\ minting[u] # "none"
    /\ key' = [key EXCEPT ![u] = minting[u]]
    /\ minting' = [minting EXCEPT ![u] = "none"]
    /\ UNCHANGED <<ringVars, rotation, deletion, campaignVars, creation, refused,
                   call, deaths>>

\* Mutant: the batch does not look for a campaign.
StartRotationBlindly(u) ==
    /\ key[u] \in Roots /\ deletion[u] = "none" /\ ~Rotating(u)
    /\ rotation' = [rotation EXCEPT ![u] = "quiescing"]
    /\ UNCHANGED <<ringVars, key, minting, deletion, campaignVars, creation,
                   refused, call, deaths>>

StartRotation(u) ==
    /\ key[u] \in Roots /\ deletion[u] = "none" /\ ~Rotating(u)
    /\ \A i \in Campaigns : ~Open(i)
    /\ rotation' = [rotation EXCEPT ![u] = "quiescing"]
    /\ UNCHANGED <<ringVars, key, minting, deletion, campaignVars, creation,
                   refused, call, deaths>>

PersistCandidate(u) ==
    /\ rotation[u] = "quiescing"
    /\ \E env \in Serving : /\ key[u] \in env.keys
                            /\ rotation' = [rotation EXCEPT ![u] = env.active]
    /\ UNCHANGED <<ringVars, key, minting, deletion, campaignVars, creation,
                   refused, call, deaths>>

FinalizeRotation(u) ==
    /\ rotation[u] \in Roots
    /\ key' = [key EXCEPT ![u] = rotation[u]]
    /\ rotation' = [rotation EXCEPT ![u] = "verifying"]
    /\ call' = Reread(u)
    /\ UNCHANGED <<ringVars, minting, deletion, campaignVars, creation, refused,
                   deaths>>

VerifyRotation(u) ==
    /\ rotation[u] = "verifying"
    /\ rotation' = [rotation EXCEPT ![u] = "none"]
    /\ UNCHANGED <<ringVars, key, minting, deletion, campaignVars, creation,
                   refused, call, deaths>>

ReserveDeletion(u) ==
    /\ key[u] \in Roots /\ deletion[u] = "none"
    /\ Cardinality({v \in Users : deletion[v] # "none"}) < MaxDeletions
    /\ deletion' = [deletion EXCEPT ![u] = "reserved"]
    /\ rotation' = [rotation EXCEPT ![u] = "none"]
    /\ UNCHANGED <<ringVars, key, minting, campaignVars, creation, refused, call,
                   deaths>>

\* deleteUserRows removes the items of the account ...
DeleteRows(u) ==
    /\ deletion[u] = "reserved"
    /\ deletion' = [deletion EXCEPT ![u] = "rows_deleted"]
    /\ item' = [i \in Campaigns |-> [item[i] EXCEPT ![u] = NoItem]]
    /\ UNCHANGED <<ringVars, key, minting, rotation, campaign, creation, refused,
                   call, deaths>>

\* ... and eraseKeys, a checkpoint later, the keys.
EraseKeys(u) ==
    /\ deletion[u] = "rows_deleted"
    /\ deletion' = [deletion EXCEPT ![u] = "keys_erased"]
    /\ key' = [key EXCEPT ![u] = "destroyed"]
    /\ call' = Reread(u)
    /\ UNCHANGED <<ringVars, minting, rotation, campaignVars, creation, refused,
                   deaths>>
-----------------------------------------------------------------------------
(* createKekRewrapCampaign and retryBlockedKekRewrapItems.                 *)

LoadKeys ==
    /\ creation = NoCreation
    /\ campaign[MaxCampaigns].status = "none"
    /\ Patient => rollout = 0
    /\ ~\E u \in Users : Rotating(u)
    /\ creation' = [target |-> ring.active,
                    keys |-> [u \in Users |->
                        IF key[u] \in Roots \ {ring.active} THEN key[u] ELSE "none"]]
    /\ UNCHANGED <<ringVars, accountVars, campaignVars, refused, call, deaths>>

\* What keeps a campaign to the active root from being created is a campaign
\* that no step can drain.
Undrainable(target) ==
    /\ target = ring.active
    /\ \A u \in Users : ~Rotating(u)
    /\ \E i \in Campaigns : Open(i) /\ campaign[i].target # target

\* The batch looks for rotations again, and the unique index for a campaign.
InsertCampaign ==
    /\ creation # NoCreation
    /\ creation' = NoCreation
    /\ LET named == {u \in Users : creation.keys[u] \in Roots}
           i == CHOOSE j \in Campaigns : /\ campaign[j].status = "none"
                                         /\ \A h \in 1 .. j - 1 : campaign[h].status # "none"
       IN IF (\E u \in Users : Rotating(u)) \/ (\E j \in Campaigns : Open(j))
          THEN /\ refused' = (refused \/ Undrainable(creation.target))
               /\ UNCHANGED campaignVars
          ELSE /\ campaign' = [campaign EXCEPT ![i] =
                     [NoCampaign EXCEPT !.target = creation.target,
                        !.status = IF named = {} THEN "completed" ELSE "running"]]
               /\ item' = [item EXCEPT ![i] = [u \in Users |->
                     IF u \in named THEN [status |-> "pending", source |-> creation.keys[u]]
                     ELSE NoItem]]
               /\ UNCHANGED refused
    /\ UNCHANGED <<ringVars, accountVars, call, deaths>>

RetryBlocked(i) ==
    /\ Open(i)
    /\ \E env \in Serving :
          /\ env.active = campaign[i].target
          /\ LET again == {u \in Users : /\ item[i][u].status = "blocked"
                                         /\ item[i][u].source \in env.keys}
                 now == [u \in Users |-> IF u \in again
                                         THEN [item[i][u] EXCEPT !.status = "pending"]
                                         ELSE item[i][u]]
             IN /\ again # {}
                /\ item' = [item EXCEPT ![i] = now]
                /\ IF campaign[i].lease = NoCall
                   THEN /\ campaign' = [campaign EXCEPT ![i].status = "running"]
                        /\ call' = OutdatedBy(i)
                   ELSE UNCHANGED <<campaign, call>>
    /\ UNCHANGED <<ringVars, accountVars, creation, refused, deaths>>
-----------------------------------------------------------------------------
(* stepKekRewrapCampaign.                                                  *)

BeginStep(c, i) ==
    /\ At(c, "idle") /\ Open(i)
    /\ \E env \in Serving :
          /\ env.active = campaign[i].target
          /\ call' = [call EXCEPT ![c] = [Idle EXCEPT !.pc = "acquire", !.of = i,
                                                      !.env = env, !.fresh = TRUE]]
    /\ UNCHANGED <<ringVars, accountVars, campaignVars, creation, refused, deaths>>

\* Mutant: the lease of an invocation that died is kept.
LeaseIsUnclaimed(i) == campaign[i].lease = NoCall

LeaseIsFree(i) == campaign[i].lease = NoCall \/ campaign[i].expires = 0

AcquireLease(c) ==
    /\ At(c, "acquire")
    /\ LET i == call[c].of IN
       IF call[c].fresh /\ Open(i) /\ LeaseIsFree(i)
       THEN /\ campaign' = [campaign EXCEPT ![i].lease = c, ![i].expires = Lease]
            /\ call' = [call EXCEPT ![c].pc = "items"]
       ELSE campaign' = campaign /\ End(c)
    /\ UNCHANGED <<ringVars, accountVars, item, creation, refused, deaths>>

\* One batch holds every pending item of these instances.
LoadItems(c) ==
    /\ At(c, "items")
    /\ LET pending == {u \in Users : item[call[c].of][u].status = "pending"} IN
       call' = [call EXCEPT ![c].todo = pending,
                            ![c].pc = IF pending = {} THEN "commit" ELSE "read"]
    /\ UNCHANGED <<ringVars, accountVars, campaignVars, creation, refused, deaths>>

\* Mutant: an item whose key could not be opened counts as done.
SettledWell(k, u, good) ==
    [k EXCEPT !.todo = @ \ {u}, !.user = NoCall, !.same = FALSE,
              !.ok = @ \cup {u},
              !.pc = IF k.todo = {u} THEN "commit" ELSE "read"]

\* The item of a user has an outcome; the loop goes on, or the batch follows.
Settled(k, u, good) ==
    [k EXCEPT !.todo = @ \ {u}, !.user = NoCall, !.same = FALSE,
              !.ok = IF good THEN @ \cup {u} ELSE @,
              !.failed = IF good THEN @ ELSE @ \cup {u},
              !.pc = IF k.todo = {u} THEN "commit" ELSE "read"]

ReadKey(c) ==
    /\ At(c, "read")
    /\ \E u \in call[c].todo :
          call' = [call EXCEPT ![c] =
                     IF key[u] \in call[c].env.keys /\ key[u] # Target(c)
                     THEN [@ EXCEPT !.user = u, !.same = TRUE, !.pc = "write"]
                     ELSE Settled(@, u, key[u] = Target(c))]
    /\ UNCHANGED <<ringVars, accountVars, campaignVars, creation, refused, deaths>>

\* An update that matches no row is taken for a success as well.
WriteKey(c) ==
    /\ At(c, "write")
    /\ LET u == call[c].user IN
       IF call[c].same
       THEN /\ key' = [key EXCEPT ![u] = Target(c)]
            /\ call' = [Reread(u) EXCEPT ![c] = Settled(call[c], u, TRUE)]
       ELSE /\ call' = [call EXCEPT ![c] = Settled(@, u, TRUE)]
            /\ UNCHANGED key
    /\ UNCHANGED <<ringVars, minting, rotation, deletion, campaignVars, creation,
                   refused, deaths>>

\* The items as the batch leaves them.
Marked(c) == [u \in Users |->
    LET it == item[call[c].of][u] IN
    IF it.status # "pending" THEN it
    ELSE IF u \in call[c].ok THEN [it EXCEPT !.status = "succeeded"]
    ELSE IF u \in call[c].failed THEN [it EXCEPT !.status = "blocked"]
    ELSE it]

Verdict(items, target) ==
    IF \E u \in Users : items[u].status = "pending" THEN "running"
    ELSE IF \/ \E u \in Users : items[u].status = "blocked"
            \/ \E u \in Users : key[u] \in Roots \ {target}
            \/ Candidates \ {target} # {}
    THEN "blocked" ELSE "completed"

CommitStep(c) ==
    /\ At(c, "commit")
    /\ LET i == call[c].of IN
       IF call[c].fresh /\ campaign[i].lease = c
       THEN /\ item' = [item EXCEPT ![i] = Marked(c)]
            /\ campaign' = [campaign EXCEPT ![i] =
                  [@ EXCEPT !.status = Verdict(Marked(c), Target(c)), !.lease = NoCall,
                            !.expires = 0]]
            /\ call' = [OutdatedBy(i) EXCEPT ![c] = Idle]
       ELSE UNCHANGED campaignVars /\ End(c)
    /\ UNCHANGED <<ringVars, accountVars, creation, refused, deaths>>

Die(c) ==
    /\ ~At(c, "idle") /\ losses + deaths < MaxFaults
    /\ deaths' = deaths + 1
    /\ End(c)
    /\ UNCHANGED <<ringVars, accountVars, campaignVars, creation, refused>>

\* An invocation of the last version ends before its rollout does.
Straggler == \/ \E u \in Users : minting[u] \in Roots \ {ring.active}
             \/ \E c \in Calls : ~At(c, "idle") /\ call[c].env # ring

\* Mutant: a timer runs past zero.
LessForever(n) == n - 1

Less(n) == IF n = 0 THEN 0 ELSE n - 1
Tick ==
    /\ rollout = 1 => ~Straggler
    /\ rollout' = Less(rollout)
    /\ campaign' = [i \in Campaigns |-> [campaign[i] EXCEPT !.expires = Less(@)]]
    /\ UNCHANGED <<ring, older, checked, deployments, losses, accountVars, item,
                   creation, refused, call, deaths>>
-----------------------------------------------------------------------------
CallStep(c) == \/ AcquireLease(c) \/ LoadItems(c) \/ ReadKey(c) \/ WriteKey(c)
               \/ CommitStep(c)

Next ==
    \/ \E r \in Roots : Activate(r) \/ Retire(r) \/ LoseRoot(r) \/ RestoreRoot(r)
    \/ CheckRetirement \/ LoadKeys \/ InsertCampaign
    \/ \E u \in Users :
          \/ WrapFirstKey(u) \/ InsertFirstKey(u)
          \/ StartRotation(u) \/ PersistCandidate(u) \/ FinalizeRotation(u)
          \/ VerifyRotation(u)
          \/ ReserveDeletion(u) \/ DeleteRows(u) \/ EraseKeys(u)
    \/ \E i \in Campaigns : RetryBlocked(i) \/ \E c \in Calls : BeginStep(c, i)
    \/ \E c \in Calls : CallStep(c) \/ Die(c)
    \/ Tick

Spec == Init /\ [][Next]_vars

\* The operator drains a campaign, restores what blocks it and retries, as the
\* runbook says.
Fairness ==
    /\ SF_vars(Tick)
    /\ \A c \in Calls : WF_vars(CallStep(c))
    /\ \A i \in Campaigns : /\ WF_vars(RetryBlocked(i))
                            /\ \A c \in Calls : WF_vars(BeginStep(c, i))
    /\ \A r \in Roots : SF_vars(RestoreRoot(r))
    /\ \A u \in Users : WF_vars(InsertFirstKey(u))
FairSpec == Spec /\ Fairness
-----------------------------------------------------------------------------
RootOr(S) == Roots \cup S
RingType == [active : Roots, keys : SUBSET Roots]

\* The type invariant.
TypeOK ==
    /\ {ring, older} \subseteq RingType /\ ring.active \in ring.keys
    /\ rollout \in 0 .. Rollout /\ {checked, refused} \subseteq BOOLEAN
    /\ key \in [Users -> RootOr({"none", "destroyed"})]
    /\ minting \in [Users -> RootOr({"none"})]
    /\ rotation \in [Users -> RootOr({"none", "quiescing", "verifying"})]
    /\ deletion \in [Users -> {"none", "reserved", "rows_deleted", "keys_erased"}]
    /\ campaign \in [Campaigns ->
          [status : {"none", "running", "blocked", "completed"}, target : Roots,
           lease : Calls \cup {NoCall}, expires : 0 .. Lease]]
    /\ item \in [Campaigns -> [Users ->
          [status : {"none", "pending", "succeeded", "blocked"}, source : Roots]]]
    /\ creation \in [target : RootOr({"none"}), keys : [Users -> RootOr({"none"})]]
    /\ call \in [Calls ->
          [pc : {"idle", "acquire", "items", "read", "write", "commit"},
           of : Campaigns, env : RingType, fresh : BOOLEAN, todo : SUBSET Users,
           ok : SUBSET Users, failed : SUBSET Users, user : Users \cup {NoCall},
           same : BOOLEAN]]
    /\ deployments \in 0 .. MaxDeployments
    /\ {losses, deaths} \subseteq 0 .. MaxFaults

\* Whoever makes, rotates or rewraps keys while root keys are deployed and
\* retired, under the checks of the runbook no data key and no candidate is
\* ever wrapped under a root that the Worker does not have any more, unless a
\* keyring was deployed without the runbook.
WrappersOpen ==
    losses = 0 => \A u \in Users : {key[u], rotation[u]} \cap Roots \subseteq ring.keys

\* A rotation of a data key and a campaign never run at one time, although each
\* is admitted by a look at the other's table.
NoRotationDuringCampaign ==
    (\E i \in Campaigns : Open(i)) => \A u \in Users : ~Rotating(u)

\* An item that succeeded stays true while the campaign runs, also when the
\* update of the key matched nothing because another invocation was faster.
SucceededItemsAreOnTarget ==
    \A i \in Campaigns, u \in Users :
        Open(i) /\ item[i][u].status = "succeeded" =>
            key[u] \in {campaign[i].target, "destroyed"}

\* A campaign ends, although invocations die with the lease and roots are
\* missing for a time.
CampaignCompletes ==
    \A i \in Campaigns : Open(i) ~> campaign[i].status = "completed"

\* "Restore a missing source key in ROOT_KEK_KEYRING, deploy it, then retry
\* resolvable blocked items" (docs/deploy/root-kek-rotation.md:42): a blocked
\* item is one whose key a root can open.
BlockedItemsAreResolvable ==
    \A i \in Campaigns, u \in Users :
        item[i][u].status = "blocked" => key[u] \in Roots

\* "deploy the keyring with the old id restored as active_key_id, then start a
\* campaign targeting that id" (docs/deploy/root-kek-rotation.md:76).
RollbackIsAdmitted == ~refused
=============================================================================
