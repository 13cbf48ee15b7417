-------------------------- MODULE RootRewrap_proofs --------------------------
(***************************************************************************)
(* What rewrap_retirement shows for two accounts, two roots and two        *)
(* campaigns, proved for every number of them, of invocations and of       *)
(* keyrings, every lease and every rollout.                                *)
(***************************************************************************)
EXTENDS RootRewrap, TLAPS

-----------------------------------------------------------------------------
(* The invariant.                                                          *)

\* A keyring keeps the active root of the one before: no step of the runbook,
\* nor a loss, takes the active root.
RingsOK == older.active \in ring.keys

\* Whoever works does so under a keyring that is deployed, or was until this
\* rollout is over.
MintingOK == \A u \in Users : minting[u] \in Roots => \E env \in Serving : minting[u] = env.active

CallOK(c) ==
  call[c].pc # "idle" =>
    /\ call[c].env \in Serving
    /\ campaign[call[c].of].status # "none"
    /\ campaign[call[c].of].target = call[c].env.active
    /\ call[c].pc = "write" => call[c].user \in Users

\* A step holds the lease of an open campaign only: the batch that ends the
\* campaign returns it.
LeaseOK == \A i \in Campaigns : campaign[i].lease # NoCall => Open(i)

\* Campaigns are numbered in the order they are made, and one that is being
\* made has a number left.
NumberedTo(n) == \A i \in Campaigns : campaign[i].status # "none" <=> i <= n
CreationOK ==
  /\ \E n \in 0 .. MaxCampaigns : NumberedTo(n)
  /\ creation # NoCreation =>
       creation.target \in Roots /\ campaign[MaxCampaigns].status = "none"

\* What the operator checked before retiring a root goes on to hold, because
\* nobody works under another keyring any more.
CheckedOK ==
  checked => /\ rollout = 0
             /\ \A u \in Users : {key[u], rotation[u]} \cap Roots \subseteq {ring.active}

Inv == /\ TypeOK /\ RingsOK /\ MintingOK /\ LeaseOK /\ CreationOK /\ CheckedOK
       /\ \A c \in Calls : CallOK(c)
       /\ WrappersOpen /\ NoRotationDuringCampaign
-----------------------------------------------------------------------------
(* Types.                                                                  *)

CampaignType == [status : {"none", "running", "blocked", "completed"}, target : Roots,
                 lease : Calls \cup {NoCall}, expires : 0 .. Lease]
ItemType == [status : {"none", "pending", "succeeded", "blocked"}, source : Roots]
CreationType == [target : RootOr({"none"}), keys : [Users -> RootOr({"none"})]]
CallType == [pc : {"idle", "acquire", "items", "read", "write", "commit"},
             of : Campaigns, env : RingType, fresh : BOOLEAN, todo : SUBSET Users,
             ok : SUBSET Users, failed : SUBSET Users, user : Users \cup {NoCall},
             same : BOOLEAN]

\* What is assumed of the constants, spelled out.
LEMMA Constants ==
  /\ FirstRoot \in Roots /\ NoCall \notin Calls
  /\ "none" \notin Roots /\ "destroyed" \notin Roots
  /\ "quiescing" \notin Roots /\ "verifying" \notin Roots
  /\ MaxCampaigns \in Nat /\ MaxCampaigns > 0 /\ 1 \in Campaigns
  /\ MaxCampaigns \in Campaigns /\ Campaigns \subseteq Nat
  /\ Lease \in Nat /\ 0 \in 0 .. Lease /\ Lease \in 0 .. Lease
  /\ Rollout \in Nat /\ Rollout > 0 /\ 0 \in 0 .. Rollout /\ Rollout \in 0 .. Rollout
  /\ MaxDeployments \in Nat /\ MaxFaults \in Nat
<1>1. /\ MaxCampaigns \in Nat /\ MaxCampaigns > 0 /\ Lease \in Nat /\ Rollout \in Nat
      /\ Rollout > 0 /\ MaxDeployments \in Nat /\ MaxFaults \in Nat
  BY RewrapAssumption
<1>2. /\ FirstRoot \in Roots /\ NoCall \notin Calls
      /\ "none" \notin Roots /\ "destroyed" \notin Roots
      /\ "quiescing" \notin Roots /\ "verifying" \notin Roots
  BY RewrapAssumption
<1> QED BY <1>1, <1>2 DEF Campaigns

\* The records that calls, items, campaigns and their creation start from.
LEMMA Beginnings ==
  /\ NoCampaign \in CampaignType /\ NoItem \in ItemType /\ NoCreation \in CreationType
  /\ NoRing \in RingType /\ Idle \in CallType /\ Idle.pc = "idle"
  /\ NoCampaign.status = "none" /\ NoCampaign.lease = NoCall
<1>1. NoCampaign \in CampaignType /\ NoCampaign.status = "none" /\ NoCampaign.lease = NoCall
  BY Constants DEF NoCampaign, CampaignType
<1>2. NoItem \in ItemType
  BY Constants DEF NoItem, ItemType
<1>3. NoCreation \in CreationType
  BY DEF NoCreation, CreationType, RootOr
<1>4. NoRing \in RingType
  BY Constants DEF NoRing, RingType
<1>5. Idle \in CallType /\ Idle.pc = "idle"
  BY <1>4, Constants DEF Idle, CallType
<1> QED BY <1>1, <1>2, <1>3, <1>4, <1>5

\* TypeOK, as what follows reads it.
LEMMA Typing ==
  ASSUME TypeOK
  PROVE  /\ ring \in RingType /\ older \in RingType /\ ring.active \in ring.keys
         /\ ring.keys \subseteq Roots /\ ring.active \in Roots /\ older.active \in Roots
         /\ rollout \in 0 .. Rollout /\ rollout \in Nat
         /\ checked \in BOOLEAN /\ refused \in BOOLEAN
         /\ key \in [Users -> RootOr({"none", "destroyed"})]
         /\ minting \in [Users -> RootOr({"none"})]
         /\ rotation \in [Users -> RootOr({"none", "quiescing", "verifying"})]
         /\ campaign \in [Campaigns -> CampaignType]
         /\ item \in [Campaigns -> [Users -> ItemType]]
         /\ creation \in CreationType
         /\ call \in [Calls -> CallType]
BY Constants DEF TypeOK, RingType, CampaignType, ItemType, CreationType, CallType

\* What is kept of a call when a row it read is written by another.
LEMMA Rereading ==
  ASSUME call \in [Calls -> CallType], NEW u, NEW i
  PROVE  /\ Reread(u) \in [Calls -> CallType] /\ OutdatedBy(i) \in [Calls -> CallType]
         /\ \A c \in Calls : /\ Reread(u)[c].pc = call[c].pc /\ Reread(u)[c].of = call[c].of
                             /\ Reread(u)[c].env = call[c].env
                             /\ Reread(u)[c].user = call[c].user
                             /\ OutdatedBy(i)[c].pc = call[c].pc
                             /\ OutdatedBy(i)[c].of = call[c].of
                             /\ OutdatedBy(i)[c].env = call[c].env
                             /\ OutdatedBy(i)[c].user = call[c].user
<1>1. \A c \in Calls : /\ Reread(u)[c] = IF call[c].user = u THEN [call[c] EXCEPT !.same = FALSE]
                                         ELSE call[c]
                       /\ OutdatedBy(i)[c] = IF call[c].of = i
                                             THEN [call[c] EXCEPT !.fresh = FALSE] ELSE call[c]
  BY DEF Reread, OutdatedBy
<1>2. \A c \in Calls : /\ [call[c] EXCEPT !.same = FALSE] \in CallType
                       /\ [call[c] EXCEPT !.fresh = FALSE] \in CallType
  BY DEF CallType
<1>3. Reread(u) \in [Calls -> CallType] /\ OutdatedBy(i) \in [Calls -> CallType]
  BY <1>2 DEF Reread, OutdatedBy
<1> QED BY <1>1, <1>3 DEF CallType

\* The outcome of one item leaves a call, under its keyring and its campaign.
LEMMA Settling ==
  ASSUME NEW k \in CallType, NEW u \in Users, NEW good \in BOOLEAN
  PROVE  /\ Settled(k, u, good) \in CallType
         /\ Settled(k, u, good).pc \in {"read", "commit"}
         /\ Settled(k, u, good).of = k.of /\ Settled(k, u, good).env = k.env
BY DEF Settled, CallType

\* Every step keeps the types: one part for each action.
LEMMA TypeStep ==
  ASSUME TypeOK, CreationOK, \A c \in Calls : CallOK(c), [Next]_vars
  PROVE  TypeOK'
<1>t. /\ ring \in RingType /\ older \in RingType /\ ring.active \in ring.keys
      /\ ring.keys \subseteq Roots /\ ring.active \in Roots /\ older.active \in Roots
      /\ rollout \in 0 .. Rollout /\ rollout \in Nat
      /\ checked \in BOOLEAN /\ refused \in BOOLEAN
      /\ key \in [Users -> RootOr({"none", "destroyed"})]
      /\ minting \in [Users -> RootOr({"none"})]
      /\ rotation \in [Users -> RootOr({"none", "quiescing", "verifying"})]
      /\ campaign \in [Campaigns -> CampaignType]
      /\ item \in [Campaigns -> [Users -> ItemType]]
      /\ creation \in CreationType
      /\ call \in [Calls -> CallType]
  BY Typing
<1>s. \A env \in Serving : env \in RingType /\ env.active \in Roots
  BY <1>t DEF Serving, RingType
<1>d. ASSUME NEW new \in RingType, new.active \in new.keys, Deploy(new),
             deployments' \in 0 .. MaxDeployments, {losses', deaths'} \subseteq 0 .. MaxFaults,
             UNCHANGED <<accountVars, campaignVars, creation, refused, call>>
      PROVE  TypeOK'
  <2>1. rollout' \in 0 .. Rollout
    BY <1>d, Constants DEF Deploy
  <2> QED BY <1>d, <2>1 DEF Deploy, TypeOK, accountVars, campaignVars
<1>1. ASSUME NEW r \in Roots, Activate(r) PROVE TypeOK'
  <2>1. deployments' \in 0 .. MaxDeployments
    BY <1>1, Constants DEF Activate, TypeOK
  <2>2. [active |-> r, keys |-> ring.keys \cup {r}] \in RingType
    BY <1>t DEF RingType
  <2> QED BY <1>1, <1>d, <2>1, <2>2 DEF Activate, TypeOK
<1>2. ASSUME NEW r \in Roots, Retire(r) \/ LoseRoot(r) PROVE TypeOK'
  <2> DEFINE new == [ring EXCEPT !.keys = @ \ {r}]
  <2>1. new \in RingType /\ new.active = ring.active /\ new.keys = ring.keys \ {r}
    BY <1>t DEF RingType
  <2>2. new.active \in new.keys /\ Deploy(new)
    BY <1>2, <1>t, <2>1 DEF Retire, LoseRoot
  <2>3. {losses', deaths'} \subseteq 0 .. MaxFaults /\ deployments' \in 0 .. MaxDeployments
    BY <1>2, Constants DEF Retire, LoseRoot, TypeOK
  <2>4. UNCHANGED <<accountVars, campaignVars, creation, refused, call>>
    BY <1>2 DEF Retire, LoseRoot
  <2> HIDE DEF new
  <2> QED BY <1>d, <2>1, <2>2, <2>3, <2>4
<1>3. ASSUME NEW r \in Roots, RestoreRoot(r) PROVE TypeOK'
  <2>1. [ring EXCEPT !.keys = @ \cup {r}] \in RingType
    BY <1>t DEF RingType
  <2> QED BY <1>3, <1>d, <1>t, <2>1 DEF RestoreRoot, TypeOK, RingType
<1>4. CASE CheckRetirement
  BY <1>4 DEF CheckRetirement, TypeOK, accountVars, campaignVars
<1>5. ASSUME NEW u \in Users, WrapFirstKey(u) PROVE TypeOK'
  <2>1. minting' \in [Users -> RootOr({"none"})]
    BY <1>5, <1>s, <1>t DEF WrapFirstKey, RootOr
  <2> QED BY <1>5, <2>1 DEF WrapFirstKey, TypeOK, ringVars, campaignVars
<1>6. ASSUME NEW u \in Users, InsertFirstKey(u) PROVE TypeOK'
  <2>1. key' \in [Users -> RootOr({"none", "destroyed"})]
    BY <1>6, <1>t DEF InsertFirstKey, RootOr
  <2>2. minting' \in [Users -> RootOr({"none"})]
    BY <1>6, <1>t DEF InsertFirstKey, RootOr
  <2> QED BY <1>6, <2>1, <2>2 DEF InsertFirstKey, TypeOK, ringVars, campaignVars
<1>7. ASSUME NEW u \in Users, StartRotation(u) \/ PersistCandidate(u) \/ VerifyRotation(u)
      PROVE  TypeOK'
  <2>1. rotation' \in [Users -> RootOr({"none", "quiescing", "verifying"})]
    BY <1>7, <1>s, <1>t DEF StartRotation, PersistCandidate, VerifyRotation, RootOr
  <2> QED BY <1>7, <2>1 DEF StartRotation, PersistCandidate, VerifyRotation, TypeOK, ringVars,
                            campaignVars
<1>8. ASSUME NEW u \in Users, FinalizeRotation(u) PROVE TypeOK'
  <2>1. rotation' \in [Users -> RootOr({"none", "quiescing", "verifying"})]
    BY <1>8, <1>t DEF FinalizeRotation, RootOr
  <2>2. key' \in [Users -> RootOr({"none", "destroyed"})]
    BY <1>8, <1>t DEF FinalizeRotation, RootOr
  <2>3. call' \in [Calls -> CallType]
    BY <1>8, <1>t, Rereading DEF FinalizeRotation
  <2> QED BY <1>8, <2>1, <2>2, <2>3 DEF FinalizeRotation, TypeOK, ringVars, campaignVars, CallType
<1>9. ASSUME NEW u \in Users, ReserveDeletion(u) PROVE TypeOK'
  <2>1. rotation' \in [Users -> RootOr({"none", "quiescing", "verifying"})]
    BY <1>9, <1>t DEF ReserveDeletion, RootOr
  <2> QED BY <1>9, <2>1 DEF ReserveDeletion, TypeOK, ringVars, campaignVars
<1>10. ASSUME NEW u \in Users, DeleteRows(u) PROVE TypeOK'
  <2>1. item' \in [Campaigns -> [Users -> ItemType]]
    BY <1>10, <1>t, Beginnings DEF DeleteRows
  <2> QED BY <1>10, <2>1 DEF DeleteRows, TypeOK, ringVars, ItemType
<1>11. ASSUME NEW u \in Users, EraseKeys(u) PROVE TypeOK'
  <2>1. key' \in [Users -> RootOr({"none", "destroyed"})]
    BY <1>11, <1>t DEF EraseKeys, RootOr
  <2>2. call' \in [Calls -> CallType]
    BY <1>11, <1>t, Rereading DEF EraseKeys
  <2> QED BY <1>11, <2>1, <2>2 DEF EraseKeys, TypeOK, ringVars, campaignVars, CallType
<1>12. CASE LoadKeys
  <2>1. creation' \in CreationType
    BY <1>12, <1>t DEF LoadKeys, CreationType, RootOr
  <2> QED BY <1>12, <2>1 DEF LoadKeys, TypeOK, ringVars, accountVars, campaignVars, CreationType
<1>13. CASE InsertCampaign
  <2>1. creation' \in CreationType
    BY <1>13, Beginnings DEF InsertCampaign
  <2>2. refused' \in BOOLEAN
    BY <1>13, <1>t DEF InsertCampaign, Undrainable
  <2>3. campaign' \in [Campaigns -> CampaignType] /\ item' \in [Campaigns -> [Users -> ItemType]]
    <3>1. CASE UNCHANGED campaignVars
      BY <1>t, <3>1 DEF campaignVars
    <3>2. CASE ~UNCHANGED campaignVars
      <4> DEFINE named == {u \in Users : creation.keys[u] \in Roots}
                 i == CHOOSE j \in Campaigns : /\ campaign[j].status = "none"
                                               /\ \A h \in 1 .. j - 1 : campaign[h].status # "none"
                 new == [NoCampaign EXCEPT !.target = creation.target,
                           !.status = IF named = {} THEN "completed" ELSE "running"]
                 items == [u \in Users |->
                             IF u \in named THEN [status |-> "pending", source |-> creation.keys[u]]
                             ELSE NoItem]
      <4>1. campaign' = [campaign EXCEPT ![i] = new] /\ item' = [item EXCEPT ![i] = items]
        BY <1>13, <3>2 DEF InsertCampaign
      <4>2. new \in CampaignType
        BY <1>13, Beginnings DEF InsertCampaign, CreationOK, CampaignType
      <4>3. items \in [Users -> ItemType]
        BY Beginnings DEF ItemType
      <4> HIDE DEF i, new, items
      <4> QED BY <1>t, <4>1, <4>2, <4>3
    <3> QED BY <3>1, <3>2
  <2> QED BY <1>13, <2>1, <2>2, <2>3 DEF InsertCampaign, TypeOK, ringVars, accountVars,
                                         CreationType, CampaignType, ItemType
<1>14. ASSUME NEW i \in Campaigns, RetryBlocked(i) PROVE TypeOK'
  <2>1. item' \in [Campaigns -> [Users -> ItemType]]
    <3>1. PICK again : item' = [item EXCEPT ![i] =
             [u \in Users |-> IF u \in again THEN [item[i][u] EXCEPT !.status = "pending"]
                              ELSE item[i][u]]]
      BY <1>14 DEF RetryBlocked
    <3>2. \A u \in Users : item[i][u] \in ItemType /\ [item[i][u] EXCEPT !.status = "pending"] \in ItemType
      BY <1>t DEF ItemType
    <3> QED BY <1>t, <3>1, <3>2
  <2>2. campaign' \in [Campaigns -> CampaignType] /\ call' \in [Calls -> CallType]
    <3>1. \/ UNCHANGED <<campaign, call>>
          \/ campaign' = [campaign EXCEPT ![i].status = "running"] /\ call' = OutdatedBy(i)
      BY <1>14 DEF RetryBlocked
    <3>2. [campaign EXCEPT ![i].status = "running"] \in [Campaigns -> CampaignType]
      BY <1>t DEF CampaignType
    <3> QED BY <1>t, <3>1, <3>2, Rereading
  <2> QED BY <1>14, <2>1, <2>2 DEF RetryBlocked, TypeOK, ringVars, accountVars, CampaignType,
                                   ItemType, CallType
<1>c. ASSUME call' \in [Calls -> CallType], deaths' \in 0 .. MaxFaults,
             UNCHANGED <<ringVars, accountVars, campaignVars, creation, refused>>
      PROVE  TypeOK'
  BY <1>c DEF TypeOK, ringVars, accountVars, campaignVars, CallType
<1>e. \A c \in Calls : [call EXCEPT ![c] = Idle] \in [Calls -> CallType]
  BY <1>t, Beginnings
<1>k. deaths \in 0 .. MaxFaults
  BY DEF TypeOK
<1>15. ASSUME NEW i \in Campaigns, NEW c \in Calls, BeginStep(c, i) PROVE TypeOK'
  <2>1. PICK env \in Serving : call' = [call EXCEPT ![c] =
           [Idle EXCEPT !.pc = "acquire", !.of = i, !.env = env, !.fresh = TRUE]]
    BY <1>15 DEF BeginStep
  <2>2. [Idle EXCEPT !.pc = "acquire", !.of = i, !.env = env, !.fresh = TRUE] \in CallType
    BY <1>s, <2>1, Beginnings DEF CallType
  <2> QED BY <1>15, <1>c, <1>k, <1>t, <2>1, <2>2 DEF BeginStep
<1>16. ASSUME NEW c \in Calls, AcquireLease(c) PROVE TypeOK'
  <2>1. call' \in [Calls -> CallType]
    <3>1. \/ call' = [call EXCEPT ![c].pc = "items"] \/ call' = [call EXCEPT ![c] = Idle]
      BY <1>16 DEF AcquireLease, End
    <3>2. [call[c] EXCEPT !.pc = "items"] \in CallType
      <4>1. call[c] \in CallType
        BY <1>t
      <4> QED BY <4>1 DEF CallType
    <3>3. [call EXCEPT ![c].pc = "items"] \in [Calls -> CallType]
      BY <1>t, <3>2
    <3> QED BY <1>e, <3>1, <3>3
  <2>2. campaign' \in [Campaigns -> CampaignType]
    <3>1. PICK i \in Campaigns : i = call[c].of
      BY <1>t DEF CallType
    <3>2. \/ UNCHANGED campaign
          \/ campaign' = [campaign EXCEPT ![i].lease = c, ![i].expires = Lease]
      BY <1>16, <3>1 DEF AcquireLease
    <3>3. [campaign[i] EXCEPT !.lease = c, !.expires = Lease] \in CampaignType
      BY <1>t, Constants DEF CampaignType
    <3>4. \/ UNCHANGED campaign
          \/ campaign' = [campaign EXCEPT ![i] = [campaign[i] EXCEPT !.lease = c, !.expires = Lease]]
      BY <1>t, <3>2
    <3> QED BY <1>t, <3>3, <3>4
  <2> QED BY <1>16, <2>1, <2>2 DEF AcquireLease, TypeOK, ringVars, accountVars, CampaignType, CallType
<1>17. ASSUME NEW c \in Calls, LoadItems(c) PROVE TypeOK'
  <2>1. call' \in [Calls -> CallType]
    <3> DEFINE pending == {u \in Users : item[call[c].of][u].status = "pending"}
               pc == IF pending = {} THEN "commit" ELSE "read"
    <3>1. pending \in SUBSET Users /\ pc \in {"read", "commit"}
      OBVIOUS
    <3>2. call' = [call EXCEPT ![c].todo = pending, ![c].pc = pc]
      BY <1>17 DEF LoadItems
    <3>3. [call[c] EXCEPT !.todo = pending, !.pc = pc] \in CallType
      <4> HIDE DEF pending, pc
      <4> QED BY <1>t, <3>1 DEF CallType
    <3>4. call' = [call EXCEPT ![c] = [call[c] EXCEPT !.todo = pending, !.pc = pc]]
      <4> HIDE DEF pending, pc
      <4> QED BY <1>t, <3>2
    <3> HIDE DEF pending, pc
    <3> QED BY <1>t, <3>3, <3>4
  <2> QED BY <1>17, <1>c, <1>k, <2>1 DEF LoadItems
<1>18. ASSUME NEW c \in Calls, ReadKey(c) PROVE TypeOK'
  <2>0. call[c] \in CallType /\ call[c].todo \subseteq Users
    BY <1>t DEF CallType
  <2>1. PICK u \in call[c].todo : call' = [call EXCEPT ![c] =
           IF key[u] \in call[c].env.keys /\ key[u] # Target(c)
           THEN [@ EXCEPT !.user = u, !.same = TRUE, !.pc = "write"]
           ELSE Settled(@, u, key[u] = Target(c))]
    BY <1>18 DEF ReadKey
  <2>2. [call[c] EXCEPT !.user = u, !.same = TRUE, !.pc = "write"] \in CallType
    BY <2>0, <2>1 DEF CallType
  <2>3. Settled(call[c], u, key[u] = Target(c)) \in CallType
    BY <2>0, <2>1, Settling
  <2>4. call' \in [Calls -> CallType]
    BY <1>t, <2>1, <2>2, <2>3
  <2> QED BY <1>18, <1>c, <1>k, <2>4 DEF ReadKey
<1>19. ASSUME NEW c \in Calls, WriteKey(c) PROVE TypeOK'
  <2>0. /\ call[c] \in CallType /\ call[c].user \in Users /\ Target(c) \in Roots
        /\ Settled(call[c], call[c].user, TRUE) \in CallType
    <3>1. call[c] \in CallType /\ call[c].user \in Users
      BY <1>19, <1>t DEF WriteKey, At, CallOK
    <3>2. call[c].of \in Campaigns
      BY <3>1 DEF CallType
    <3>3. Target(c) \in Roots
      BY <1>t, <3>2 DEF Target, CampaignType
    <3> QED BY <3>1, <3>3, Settling
  <2>1. key' \in [Users -> RootOr({"none", "destroyed"})]
    BY <1>19, <1>t, <2>0 DEF WriteKey, RootOr
  <2>2. call' \in [Calls -> CallType]
    <3>1. \/ call' = [Reread(call[c].user) EXCEPT ![c] = Settled(call[c], call[c].user, TRUE)]
          \/ call' = [call EXCEPT ![c] = Settled(call[c], call[c].user, TRUE)]
      BY <1>19 DEF WriteKey
    <3>2. Reread(call[c].user) \in [Calls -> CallType]
      BY <1>t, Rereading
    <3> QED BY <1>t, <2>0, <3>1, <3>2
  <2> QED BY <1>19, <2>1, <2>2 DEF WriteKey, TypeOK, ringVars, campaignVars, CallType
<1>20. ASSUME NEW c \in Calls, CommitStep(c) PROVE TypeOK'
  <2> DEFINE i == call[c].of
  <2>0. i \in Campaigns
    BY <1>t DEF CallType
  <2>1. Marked(c) \in [Users -> ItemType]
    <3>0. item[i] \in [Users -> ItemType]
      <4> HIDE DEF i
      <4> QED BY <1>t, <2>0
    <3>1. \A it \in ItemType : /\ [it EXCEPT !.status = "succeeded"] \in ItemType
                              /\ [it EXCEPT !.status = "blocked"] \in ItemType
      BY DEF ItemType
    <3> QED BY <3>0, <3>1 DEF Marked
  <2>2. /\ item' \in [Campaigns -> [Users -> ItemType]] /\ campaign' \in [Campaigns -> CampaignType]
        /\ call' \in [Calls -> CallType]
    <3>1. CASE UNCHANGED campaignVars /\ End(c)
      BY <1>e, <1>t, <3>1 DEF campaignVars, End
    <3>2. CASE ~(UNCHANGED campaignVars /\ End(c))
      <4> DEFINE v == Verdict(Marked(c), Target(c))
      <4>1. /\ item' = [item EXCEPT ![i] = Marked(c)]
            /\ campaign' = [campaign EXCEPT ![i] =
                  [@ EXCEPT !.status = v, !.lease = NoCall, !.expires = 0]]
            /\ call' = [OutdatedBy(i) EXCEPT ![c] = Idle]
        BY <1>20, <3>2 DEF CommitStep
      <4>2. v \in {"running", "blocked", "completed"}
        BY DEF Verdict
      <4>3. [campaign[i] EXCEPT !.status = v, !.lease = NoCall, !.expires = 0] \in CampaignType
        <5> HIDE DEF v, i
        <5> QED BY <1>t, <2>0, <4>2, Constants DEF CampaignType
      <4>4. OutdatedBy(i) \in [Calls -> CallType]
        BY <1>t, Rereading
      <4> HIDE DEF v, i
      <4> QED BY <1>t, <2>1, <4>1, <4>3, <4>4, Beginnings
    <3> QED BY <3>1, <3>2
  <2> QED BY <1>20, <2>2 DEF CommitStep, TypeOK, ringVars, accountVars, CampaignType, ItemType, CallType
<1>21. ASSUME NEW c \in Calls, Die(c) PROVE TypeOK'
  <2>1. deaths' \in 0 .. MaxFaults
    BY <1>21, Constants DEF Die, TypeOK
  <2> QED BY <1>21, <1>c, <1>e, <2>1 DEF Die, End
<1>22. CASE Tick
  <2>1. \A n \in Nat : Less(n) \in Nat /\ Less(n) <= n
    BY DEF Less
  <2>2. rollout' \in 0 .. Rollout
    BY <1>22, <1>t, <2>1, Constants DEF Tick
  <2>3. campaign' \in [Campaigns -> CampaignType]
    <3>1. \A i \in Campaigns : campaign[i].expires \in 0 .. Lease /\ Less(campaign[i].expires) \in 0 .. Lease
      BY <1>t, <2>1, Constants DEF CampaignType
    <3>2. \A i \in Campaigns : [campaign[i] EXCEPT !.expires = Less(@)] \in CampaignType
      BY <1>t, <3>1 DEF CampaignType
    <3> QED BY <1>22, <3>2 DEF Tick
  <2> QED BY <1>22, <2>2, <2>3 DEF Tick, TypeOK, accountVars, CampaignType
<1>23. CASE UNCHANGED vars
  BY <1>23 DEF vars, TypeOK, ringVars, accountVars, campaignVars
<1> QED BY <1>1, <1>2, <1>3, <1>4, <1>5, <1>6, <1>7, <1>8, <1>9, <1>10, <1>11, <1>12, <1>13,
           <1>14, <1>15, <1>16, <1>17, <1>18, <1>19, <1>20, <1>21, <1>22, <1>23 DEF Next, CallStep
-----------------------------------------------------------------------------
(* What steps do to the campaigns.                                         *)

\* Leases come and go, and instants pass.
StatusesKept ==
  \A i \in Campaigns : /\ campaign'[i].status = campaign[i].status
                       /\ campaign'[i].target = campaign[i].target
                       /\ campaign'[i].lease # NoCall => campaign[i].lease # NoCall \/ Open(i)

\* An open campaign gets another status, and its lease is free.
Resolved(i) ==
  /\ Open(i)
  /\ campaign'[i].status \in {"running", "blocked", "completed"}
  /\ campaign'[i].target = campaign[i].target
  /\ campaign'[i].lease = NoCall
  /\ \A j \in Campaigns \ {i} : campaign'[j] = campaign[j]

\* The first campaign without a row gets one, while nothing rotates.
Inserted(i) ==
  /\ creation' = NoCreation /\ UNCHANGED rotation
  /\ \A u \in Users : ~Rotating(u)
  /\ campaign[i].status = "none" /\ \A h \in 1 .. i - 1 : campaign[h].status # "none"
  /\ campaign'[i].status \in {"running", "completed"} /\ campaign'[i].lease = NoCall
  /\ \A j \in Campaigns \ {i} : campaign'[j] = campaign[j]

CampaignsMove == StatusesKept \/ \E i \in Campaigns : Resolved(i) \/ Inserted(i)

\* Nothing else happens to a campaign.
LEMMA CampaignSteps ==
  ASSUME TypeOK, LeaseOK, CreationOK, [Next]_vars
  PROVE  CampaignsMove
<1>t. /\ campaign \in [Campaigns -> CampaignType] /\ call \in [Calls -> CallType]
  BY Typing
<1>q. ASSUME UNCHANGED campaign PROVE CampaignsMove
  BY <1>q DEF StatusesKept, CampaignsMove
<1>1. ASSUME NEW r \in Roots, Activate(r) \/ Retire(r) \/ LoseRoot(r) \/ RestoreRoot(r) PROVE CampaignsMove
  BY <1>1, <1>q DEF Activate, Retire, LoseRoot, RestoreRoot, campaignVars
<1>2. CASE CheckRetirement \/ LoadKeys
  BY <1>2, <1>q DEF CheckRetirement, LoadKeys, campaignVars
<1>3. ASSUME NEW u \in Users,
             \/ WrapFirstKey(u) \/ InsertFirstKey(u) \/ StartRotation(u) \/ PersistCandidate(u)
             \/ FinalizeRotation(u) \/ VerifyRotation(u) \/ ReserveDeletion(u) \/ DeleteRows(u)
             \/ EraseKeys(u)
      PROVE  CampaignsMove
  BY <1>3, <1>q DEF WrapFirstKey, InsertFirstKey, StartRotation, PersistCandidate, campaignVars,
       FinalizeRotation, VerifyRotation, ReserveDeletion, DeleteRows, EraseKeys
<1>4. CASE InsertCampaign
  <2>1. CASE UNCHANGED campaignVars
    BY <1>q, <2>1 DEF campaignVars
  <2>2. CASE ~UNCHANGED campaignVars
    <3> DEFINE P(j) == /\ campaign[j].status = "none"
                       /\ \A h \in 1 .. j - 1 : campaign[h].status # "none"
               i == CHOOSE j \in Campaigns : P(j)
               named == {u \in Users : creation.keys[u] \in Roots}
               new == [NoCampaign EXCEPT !.target = creation.target,
                         !.status = IF named = {} THEN "completed" ELSE "running"]
    <3>1. \E j \in Campaigns : P(j)
      <4>1. PICK n \in 0 .. MaxCampaigns : NumberedTo(n)
        BY DEF CreationOK
      <4>2. campaign[MaxCampaigns].status = "none"
        BY <1>4 DEF InsertCampaign, CreationOK
      <4>3. n \in Nat /\ n < MaxCampaigns
        BY <4>1, <4>2, Constants DEF NumberedTo
      <4>4. n + 1 \in Campaigns /\ ~(n + 1 <= n) /\ n + 1 - 1 = n
        BY <4>3, Constants DEF Campaigns
      <4>5. \A h \in 1 .. n : h \in Campaigns /\ h <= n
        BY <4>3, Constants DEF Campaigns
      <4>6. campaign[n + 1].status = "none" /\ \A h \in 1 .. n : campaign[h].status # "none"
        BY <4>1, <4>4, <4>5 DEF NumberedTo
      <4>7. P(n + 1)
        BY <4>4, <4>6
      <4> QED BY <4>4, <4>7
    <3>2. i \in Campaigns /\ P(i)
      <4> HIDE DEF P
      <4> QED BY <3>1
    <3>3. campaign' = [campaign EXCEPT ![i] = new]
      BY <1>4, <2>2 DEF InsertCampaign
    <3>4. /\ creation' = NoCreation /\ UNCHANGED rotation /\ \A u \in Users : ~Rotating(u)
      BY <1>4, <2>2 DEF InsertCampaign, accountVars
    <3>5. new.status \in {"running", "completed"} /\ new.lease = NoCall
      BY DEF NoCampaign
    <3>6. PICK k \in Campaigns : k = i
      BY <3>2
    <3>7. Inserted(k)
      <4>1. P(k) /\ campaign' = [campaign EXCEPT ![k] = new]
        BY <3>2, <3>3, <3>6
      <4> HIDE DEF i, new
      <4> QED BY <1>t, <3>4, <3>5, <4>1 DEF Inserted
    <3> QED BY <3>7 DEF CampaignsMove
  <2> QED BY <2>1, <2>2
<1>5. ASSUME NEW i \in Campaigns, RetryBlocked(i) PROVE CampaignsMove
  <2>1. CASE campaign[i].lease = NoCall
    <3>1. campaign' = [campaign EXCEPT ![i].status = "running"] /\ Open(i)
      BY <1>5, <2>1 DEF RetryBlocked
    <3>2. Resolved(i)
      BY <1>t, <2>1, <3>1 DEF Resolved, CampaignType
    <3> QED BY <3>2 DEF CampaignsMove
  <2>2. CASE campaign[i].lease # NoCall
    BY <1>5, <1>q, <2>2 DEF RetryBlocked
  <2> QED BY <2>1, <2>2
<1>b. ASSUME NEW i \in Campaigns, NEW c \in Calls, BeginStep(c, i) PROVE CampaignsMove
  BY <1>b, <1>q DEF BeginStep, campaignVars
<1>6. ASSUME NEW c \in Calls, LoadItems(c) \/ ReadKey(c) \/ WriteKey(c) \/ Die(c)
      PROVE  CampaignsMove
  BY <1>6, <1>q DEF LoadItems, ReadKey, WriteKey, Die, campaignVars
<1>7. ASSUME NEW c \in Calls, AcquireLease(c) PROVE CampaignsMove
  <2>1. \/ UNCHANGED campaign
        \/ /\ Open(call[c].of)
           /\ campaign' = [campaign EXCEPT ![call[c].of].lease = c, ![call[c].of].expires = Lease]
    BY <1>7 DEF AcquireLease
  <2>2. ASSUME Open(call[c].of),
               campaign' = [campaign EXCEPT ![call[c].of].lease = c, ![call[c].of].expires = Lease]
        PROVE  StatusesKept
    BY <1>t, <2>2 DEF StatusesKept, CampaignType
  <2> QED BY <1>q, <2>1, <2>2 DEF CampaignsMove
<1>8. ASSUME NEW c \in Calls, CommitStep(c) PROVE CampaignsMove
  <2>1. CASE UNCHANGED campaignVars
    BY <1>q, <2>1 DEF campaignVars
  <2>2. CASE ~UNCHANGED campaignVars
    <3>1. PICK i \in Campaigns : i = call[c].of
      BY <1>t DEF CallType
    <3> DEFINE v == Verdict(Marked(c), Target(c))
    <3>2. /\ campaign[i].lease = c
          /\ campaign' = [campaign EXCEPT ![i] =
                [@ EXCEPT !.status = v, !.lease = NoCall, !.expires = 0]]
      BY <1>8, <2>2, <3>1 DEF CommitStep
    <3>3. Open(i)
      BY <3>2, Constants DEF LeaseOK
    <3>4. v \in {"running", "blocked", "completed"}
      BY DEF Verdict
    <3>5. Resolved(i)
      <4> HIDE DEF v
      <4> QED BY <1>t, <3>2, <3>3, <3>4 DEF Resolved, CampaignType
    <3> QED BY <3>5 DEF CampaignsMove
  <2> QED BY <2>1, <2>2
<1>9. CASE Tick
  <2>1. \A i \in Campaigns : campaign'[i] = [campaign[i] EXCEPT !.expires = Less(@)]
    BY <1>9 DEF Tick
  <2>2. ASSUME NEW i \in Campaigns
        PROVE  /\ campaign'[i].status = campaign[i].status
               /\ campaign'[i].target = campaign[i].target
               /\ campaign'[i].lease = campaign[i].lease
    <3>1. campaign[i] \in CampaignType
      BY <1>t
    <3>2. campaign'[i] = [campaign[i] EXCEPT !.expires = Less(@)]
      BY <2>1
    <3> QED BY <3>1, <3>2 DEF CampaignType
  <2>3. StatusesKept
    BY <2>2 DEF StatusesKept
  <2> QED BY <2>3 DEF CampaignsMove
<1>10. CASE UNCHANGED vars
  BY <1>10, <1>q DEF vars, campaignVars
<1> QED
  BY <1>1, <1>2, <1>3, <1>4, <1>5, <1>b, <1>6, <1>7, <1>8, <1>9, <1>10 DEF Next, CallStep

\* A lease is free, or its campaign is open.
LEMMA LeaseStep == ASSUME TypeOK, LeaseOK, CreationOK, [Next]_vars PROVE LeaseOK'
<1>1. CASE StatusesKept
  BY <1>1 DEF StatusesKept, LeaseOK, Open
<1>2. ASSUME NEW i \in Campaigns, Resolved(i) \/ Inserted(i) PROVE LeaseOK'
  BY <1>2 DEF Resolved, Inserted, LeaseOK, Open
<1> QED BY <1>1, <1>2, CampaignSteps DEF CampaignsMove

\* A campaign, once made, is one, and for the same root.
LEMMA CampaignsLast ==
  ASSUME TypeOK, LeaseOK, CreationOK, [Next]_vars, NEW i \in Campaigns, campaign[i].status # "none"
  PROVE  campaign'[i].status # "none" /\ campaign'[i].target = campaign[i].target
<1>1. ASSUME NEW j \in Campaigns, Resolved(j) \/ Inserted(j)
      PROVE  campaign'[i].status # "none" /\ campaign'[i].target = campaign[i].target
  BY <1>1 DEF Resolved, Inserted
<1> QED BY <1>1, CampaignSteps DEF StatusesKept, CampaignsMove

\* The next campaign gets the next number.
LEMMA CreationStep == ASSUME TypeOK, LeaseOK, CreationOK, [Next]_vars PROVE CreationOK'
<1>t. campaign \in [Campaigns -> CampaignType]
  BY Typing
<1>n. PICK n \in 0 .. MaxCampaigns : NumberedTo(n)
  BY DEF CreationOK
<1>1. \E m \in 0 .. MaxCampaigns : NumberedTo(m)'
  <2>1. CASE StatusesKept
    BY <1>n, <2>1 DEF StatusesKept, NumberedTo
  <2>2. ASSUME NEW i \in Campaigns, Resolved(i) PROVE NumberedTo(n)'
    BY <1>n, <2>2 DEF Resolved, NumberedTo, Open
  <2>3. ASSUME NEW i \in Campaigns, Inserted(i)
        PROVE  \E m \in 0 .. MaxCampaigns : NumberedTo(m)'
    <3>1. i \in Nat /\ n \in Nat /\ n < i /\ i <= MaxCampaigns /\ i >= 1
      BY <1>n, <2>3, Constants DEF Inserted, NumberedTo, Campaigns
    <3>2. i = n + 1
      <4>1. SUFFICES ASSUME n + 1 < i PROVE FALSE
        BY <3>1
      <4>2. n + 1 \in 1 .. i - 1 /\ n + 1 \in Campaigns /\ ~(n + 1 <= n)
        BY <3>1, <4>1, Constants DEF Campaigns
      <4> QED BY <1>n, <2>3, <4>2 DEF Inserted, NumberedTo
    <3>3. i \in 0 .. MaxCampaigns
      BY <3>1, Constants
    <3>4. \A j \in Campaigns \ {i} : (j <= i <=> j <= n)
      BY <3>1, <3>2, Constants DEF Campaigns
    <3>5. NumberedTo(i)'
      BY <1>n, <2>3, <3>1, <3>4 DEF Inserted, NumberedTo
    <3> QED BY <3>3, <3>5
  <2> QED BY <1>n, <2>1, <2>2, <2>3, CampaignSteps DEF CampaignsMove
<1>2. ASSUME creation' # NoCreation
      PROVE  creation'.target \in Roots /\ campaign'[MaxCampaigns].status = "none"
  <2>1. CASE LoadKeys
    <3>1. creation'.target = ring.active /\ campaign' = campaign
      BY <2>1 DEF LoadKeys, campaignVars
    <3>2. campaign[MaxCampaigns].status = "none" /\ ring.active \in Roots
      BY <2>1, Typing DEF LoadKeys
    <3> QED BY <3>1, <3>2
  <2>2. CASE InsertCampaign
    BY <1>2, <2>2 DEF InsertCampaign
  <2>3. CASE ~LoadKeys /\ ~InsertCampaign
    <3>1. UNCHANGED creation
      BY <2>3 DEF Next, vars, Activate, Retire, LoseRoot, RestoreRoot, CheckRetirement,
           WrapFirstKey, InsertFirstKey, StartRotation, PersistCandidate, FinalizeRotation,
           VerifyRotation, ReserveDeletion, DeleteRows, EraseKeys, RetryBlocked, BeginStep,
           CallStep, AcquireLease, LoadItems, ReadKey, WriteKey, CommitStep, Die, Tick
    <3>2. campaign[MaxCampaigns].status = "none"
      BY <1>2, <3>1 DEF CreationOK
    <3>3. ASSUME NEW i \in Campaigns, Resolved(i) PROVE campaign'[MaxCampaigns].status = "none"
      BY <3>2, <3>3, Constants DEF Resolved, Open
    <3>4. campaign'[MaxCampaigns].status = "none"
      BY <1>2, <3>2, <3>3, CampaignSteps, Constants DEF StatusesKept, Inserted, CampaignsMove
    <3> QED BY <1>2, <3>1, <3>4 DEF CreationOK
  <2> QED BY <2>1, <2>2, <2>3
<1> QED BY <1>1, <1>2 DEF CreationOK
-----------------------------------------------------------------------------
(* Keyrings, and who works under which.                                    *)

\* A deployment leaves the last keyring serving, with its active root.
Deployed ==
  /\ rollout = 0 /\ older' = ring /\ rollout' = Rollout /\ ~checked'
  /\ ring.active \in ring'.keys
  /\ UNCHANGED <<accountVars, campaignVars, creation, call>>
  /\ losses' = 0 =>
       losses = 0 /\ \A u \in Users : {key[u], rotation[u]} \cap Roots \subseteq ring'.keys

\* The other steps leave the keyring alone; a rollout ends when nobody works
\* under the last one any more.
RingKept ==
  /\ UNCHANGED <<ring, older, losses>>
  /\ \/ UNCHANGED rollout
     \/ /\ rollout # 0 /\ (rollout' > 0 \/ ~Straggler) /\ UNCHANGED checked
        /\ UNCHANGED <<accountVars, call>>

\* Every step is one of the two.
LEMMA RingSteps ==
  ASSUME TypeOK, CheckedOK, WrappersOpen, [Next]_vars
  PROVE  Deployed \/ RingKept
<1>t. /\ ring \in RingType /\ ring.active \in ring.keys /\ rollout \in Nat
      /\ losses \in Nat
  BY Typing, Constants DEF TypeOK
<1>1. ASSUME NEW r \in Roots, Activate(r) PROVE Deployed
  BY <1>1, <1>t DEF Activate, Deploy, Deployed, WrappersOpen
<1>2. ASSUME NEW r \in Roots, Retire(r) PROVE Deployed
  <2>1. \A u \in Users : {key[u], rotation[u]} \cap Roots \subseteq {ring.active}
    BY <1>2 DEF Retire, CheckedOK
  <2>2. ring'.keys = ring.keys \ {r} /\ r # ring.active
    BY <1>2, <1>t DEF Retire, Deploy, RingType
  <2> QED BY <1>2, <1>t, <2>1, <2>2 DEF Retire, Deploy, Deployed
<1>3. ASSUME NEW r \in Roots, LoseRoot(r) PROVE Deployed
  <2>1. ring'.keys = ring.keys \ {r} /\ r # ring.active
    BY <1>3, <1>t DEF LoseRoot, Deploy, RingType
  <2>2. losses' # 0
    BY <1>3, <1>t DEF LoseRoot
  <2> QED BY <1>3, <1>t, <2>1, <2>2 DEF LoseRoot, Deploy, Deployed
<1>4. ASSUME NEW r \in Roots, RestoreRoot(r) PROVE Deployed
  <2>1. ring'.keys = ring.keys \cup {r}
    BY <1>4, <1>t DEF RestoreRoot, Deploy, RingType
  <2> QED BY <1>4, <1>t, <2>1 DEF RestoreRoot, Deploy, Deployed, WrappersOpen
<1>5. CASE CheckRetirement
  BY <1>5 DEF CheckRetirement, RingKept
<1>6. CASE Tick
  BY <1>6, <1>t DEF Tick, RingKept, Less
<1>7. ASSUME NEW u \in Users,
             \/ WrapFirstKey(u) \/ InsertFirstKey(u) \/ StartRotation(u) \/ PersistCandidate(u)
             \/ FinalizeRotation(u) \/ VerifyRotation(u) \/ ReserveDeletion(u) \/ DeleteRows(u)
             \/ EraseKeys(u)
      PROVE  RingKept
  BY <1>7 DEF WrapFirstKey, InsertFirstKey, StartRotation, PersistCandidate, FinalizeRotation,
       VerifyRotation, ReserveDeletion, DeleteRows, EraseKeys, ringVars, RingKept
<1>8. CASE LoadKeys \/ InsertCampaign \/ UNCHANGED vars
  BY <1>8 DEF LoadKeys, InsertCampaign, vars, ringVars, RingKept
<1>9. ASSUME NEW i \in Campaigns, RetryBlocked(i) PROVE RingKept
  BY <1>9 DEF RetryBlocked, ringVars, RingKept
<1>10. ASSUME NEW i \in Campaigns, NEW c \in Calls, BeginStep(c, i) PROVE RingKept
  BY <1>10 DEF BeginStep, ringVars, RingKept
<1>11. ASSUME NEW c \in Calls, CallStep(c) \/ Die(c) PROVE RingKept
  BY <1>11 DEF CallStep, AcquireLease, LoadItems, ReadKey, WriteKey, CommitStep, Die, ringVars,
       RingKept
<1> QED BY <1>1, <1>2, <1>3, <1>4, <1>5, <1>6, <1>7, <1>8, <1>9, <1>10, <1>11 DEF Next

\* So the active root of the last keyring stays in this one.
LEMMA RingsStep ==
  ASSUME TypeOK, RingsOK, CheckedOK, WrappersOpen, [Next]_vars
  PROVE  RingsOK'
BY RingSteps DEF Deployed, RingKept, RingsOK

\* So a keyring that serves goes on serving, unless nobody works under it.
LEMMA ServingStep ==
  ASSUME TypeOK, CheckedOK, WrappersOpen, [Next]_vars
  PROVE  \/ \A env \in Serving : env \in Serving'
         \/ ~Straggler /\ ring \in Serving' /\ UNCHANGED <<ring, accountVars, call>>
<1>t. rollout \in Nat /\ Rollout > 0
  BY Typing, Constants
<1>1. CASE Deployed
  <2>1. Serving = {ring} /\ ring \in Serving'
    BY <1>1, <1>t DEF Deployed, Serving
  <2> QED BY <2>1
<1>2. CASE RingKept /\ rollout' = rollout
  BY <1>2 DEF RingKept, Serving
<1>3. CASE RingKept /\ rollout' # rollout
  <2>1. CASE rollout' > 0
    BY <1>3, <1>t, <2>1 DEF RingKept, Serving
  <2>2. CASE ~(rollout' > 0)
    BY <1>3, <2>2 DEF RingKept, Serving
  <2> QED BY <2>1, <2>2
<1> QED BY <1>1, <1>2, <1>3, RingSteps

\* Only the wrapping of a first key starts a minting, under a keyring that
\* serves.
LEMMA MintingMoves ==
  ASSUME TypeOK, [Next]_vars, NEW u \in Users, minting'[u] \in Roots
  PROVE  \/ minting'[u] = minting[u]
         \/ UNCHANGED <<ring, older, rollout>> /\ \E env \in Serving : minting'[u] = env.active
<1>t. minting \in [Users -> RootOr({"none"})] /\ "none" \notin Roots
  BY Typing, Constants
<1>1. CASE UNCHANGED minting
  BY <1>1
<1>2. ASSUME NEW v \in Users, WrapFirstKey(v)
      PROVE  \/ minting'[u] = minting[u]
             \/ UNCHANGED <<ring, older, rollout>> /\ \E env \in Serving : minting'[u] = env.active
  BY <1>2, <1>t DEF WrapFirstKey, ringVars
<1>3. ASSUME NEW v \in Users, InsertFirstKey(v)
      PROVE  minting'[u] = minting[u]
  BY <1>3, <1>t DEF InsertFirstKey
<1>4. ASSUME ~\E v \in Users : WrapFirstKey(v) \/ InsertFirstKey(v) PROVE UNCHANGED minting
  BY <1>4 DEF Next, vars, Activate, Retire, LoseRoot, RestoreRoot, CheckRetirement,
     StartRotation, PersistCandidate, FinalizeRotation, VerifyRotation, ReserveDeletion,
     DeleteRows, EraseKeys, LoadKeys, InsertCampaign, RetryBlocked, BeginStep, CallStep,
     AcquireLease, LoadItems, ReadKey, WriteKey, CommitStep, Die, Tick, accountVars
<1> QED BY <1>1, <1>2, <1>3, <1>4

\* A first key that is not inserted yet is under a keyring that still serves.
LEMMA MintingStep ==
  ASSUME TypeOK, MintingOK, CheckedOK, WrappersOpen, [Next]_vars
  PROVE  MintingOK'
<1> SUFFICES ASSUME NEW u \in Users, minting'[u] \in Roots
             PROVE  \E env \in Serving' : minting'[u] = env.active
  BY DEF MintingOK
<1>1. CASE minting'[u] = minting[u]
  <2>1. PICK env \in Serving : minting[u] = env.active
    BY <1>1 DEF MintingOK
  <2>2. CASE env \in Serving'
    BY <1>1, <2>1, <2>2
  <2>3. CASE ~Straggler /\ ring \in Serving'
    BY <1>1, <2>3 DEF Straggler
  <2> QED BY <2>2, <2>3, ServingStep
<1>2. CASE /\ UNCHANGED <<ring, older, rollout>>
           /\ \E env \in Serving : minting'[u] = env.active
  BY <1>2 DEF Serving
<1> QED BY <1>1, <1>2, MintingMoves

\* What a step leaves of a call, unless the step starts it.
Continued(c) ==
  call'[c].pc # "idle" =>
    /\ call[c].pc # "idle" /\ call'[c].env = call[c].env /\ call'[c].of = call[c].of
    /\ call'[c].pc = "write" => \/ call[c].pc = "write" /\ call'[c].user = call[c].user
                                \/ call'[c].user \in Users

\* A call starts on an open campaign, under a keyring of its root.
Started(c) ==
  /\ UNCHANGED <<ring, older, rollout, campaign>>
  /\ call'[c].pc = "acquire" /\ Open(call'[c].of) /\ call'[c].env \in Serving
  /\ call'[c].env.active = campaign[call'[c].of].target

\* A step continues a call, or starts it.
LEMMA CallMoves ==
  ASSUME TypeOK, [Next]_vars, NEW c \in Calls
  PROVE  Continued(c) \/ Started(c)
<1>t. /\ call \in [Calls -> CallType] /\ key \in [Users -> RootOr({"none", "destroyed"})]
  BY Typing
<1>q. ASSUME UNCHANGED call PROVE Continued(c)
  BY <1>q DEF Continued
<1>r. ASSUME NEW u, call' = Reread(u) PROVE Continued(c)
  BY <1>r, <1>t, Rereading DEF Continued
<1>o. ASSUME NEW i, call' = OutdatedBy(i) PROVE Continued(c)
  BY <1>o, <1>t, Rereading DEF Continued
<1>e. ASSUME NEW d \in Calls, End(d) PROVE Continued(c)
  BY <1>e, <1>t, Beginnings DEF End, Continued
<1>1. ASSUME NEW u \in Users, FinalizeRotation(u) \/ EraseKeys(u) PROVE Continued(c)
  BY <1>1, <1>r DEF FinalizeRotation, EraseKeys
<1>2. ASSUME NEW i \in Campaigns, RetryBlocked(i) PROVE Continued(c)
  BY <1>2, <1>q, <1>o DEF RetryBlocked
<1>3. ASSUME NEW i \in Campaigns, NEW d \in Calls, BeginStep(d, i)
      PROVE  Continued(c) \/ Started(c)
  <2>1. CASE c = d
    BY <1>3, <1>t, <2>1 DEF BeginStep, Started, ringVars, campaignVars
  <2>2. CASE c # d
    BY <1>3, <1>t, <2>2 DEF BeginStep, Continued
  <2> QED BY <2>1, <2>2
<1>4. ASSUME NEW d \in Calls, AcquireLease(d) PROVE Continued(c)
  <2>1. CASE End(d)
    BY <1>e, <2>1
  <2>2. CASE call' = [call EXCEPT ![d].pc = "items"] /\ call[d].pc = "acquire"
    BY <1>t, <2>2 DEF Continued, CallType
  <2> QED BY <1>4, <2>1, <2>2 DEF AcquireLease, At
<1>5. ASSUME NEW d \in Calls, LoadItems(d) PROVE Continued(c)
  BY <1>5, <1>t DEF LoadItems, At, Continued, CallType
<1>6. ASSUME NEW d \in Calls, ReadKey(d) PROVE Continued(c)
  <2>1. PICK u \in call[d].todo :
          call' = [call EXCEPT ![d] =
                     IF key[u] \in call[d].env.keys /\ key[u] # Target(d)
                     THEN [@ EXCEPT !.user = u, !.same = TRUE, !.pc = "write"]
                     ELSE Settled(@, u, key[u] = Target(d))]
    BY <1>6 DEF ReadKey
  <2>2. call[d].pc = "read" /\ call[d] \in CallType /\ u \in Users
    BY <1>6, <1>t DEF ReadKey, At, CallType
  <2>3. CASE key[u] \in call[d].env.keys /\ key[u] # Target(d)
    BY <1>t, <2>1, <2>2, <2>3 DEF Continued, CallType
  <2>4. CASE ~(key[u] \in call[d].env.keys /\ key[u] # Target(d))
    <3>1. call' = [call EXCEPT ![d] = Settled(call[d], u, key[u] = Target(d))]
      BY <1>t, <2>1, <2>4
    <3>2. PICK good \in BOOLEAN : good = (key[u] = Target(d))
      OBVIOUS
    <3>3. call' = [call EXCEPT ![d] = Settled(call[d], u, good)]
      BY <3>1, <3>2
    <3> QED BY <1>t, <2>2, <3>3, Settling DEF Continued
  <2> QED BY <2>3, <2>4
<1>7. ASSUME NEW d \in Calls, WriteKey(d) PROVE Continued(c)
  <2>1. call[d].pc = "write" /\ call[d] \in CallType
    BY <1>7, <1>t DEF WriteKey, At
  <2>2. PICK u : u = call[d].user
    OBVIOUS
  <2> DEFINE k == Settled(call[d], u, TRUE)
  <2>3. /\ k.pc \in {"read", "commit"} /\ k.of = call[d].of /\ k.env = call[d].env
    BY <2>1 DEF Settled, CallType
  <2>4. \/ call' = [Reread(u) EXCEPT ![d] = k]
        \/ call' = [call EXCEPT ![d] = k]
    BY <1>7, <1>t, <2>2 DEF WriteKey
  <2> HIDE DEF k
  <2>5. CASE c = d
    BY <1>t, <2>1, <2>3, <2>4, <2>5, Rereading DEF Continued
  <2>6. CASE c # d
    BY <1>t, <2>4, <2>6, Rereading DEF Continued
  <2> QED BY <2>5, <2>6
<1>8. ASSUME NEW d \in Calls, CommitStep(d) PROVE Continued(c)
  <2>1. CASE End(d)
    BY <1>e, <2>1
  <2>2. CASE call' = [OutdatedBy(call[d].of) EXCEPT ![d] = Idle]
    BY <1>t, <2>2, Rereading, Beginnings DEF Continued
  <2> QED BY <1>8, <2>1, <2>2 DEF CommitStep
<1>9. ASSUME NEW d \in Calls, Die(d) PROVE Continued(c)
  BY <1>9, <1>e DEF Die
<1>10. ASSUME ~\E u \in Users : FinalizeRotation(u) \/ EraseKeys(u),
              ~\E i \in Campaigns : RetryBlocked(i) \/ \E d \in Calls : BeginStep(d, i),
              ~\E d \in Calls : CallStep(d) \/ Die(d)
       PROVE  UNCHANGED call
  BY <1>10 DEF Next, vars, Activate, Retire, LoseRoot, RestoreRoot, CheckRetirement,
     WrapFirstKey, InsertFirstKey, StartRotation, PersistCandidate, VerifyRotation,
     ReserveDeletion, DeleteRows, LoadKeys, InsertCampaign, Tick
<1> QED BY <1>1, <1>2, <1>3, <1>4, <1>5, <1>6, <1>7, <1>8, <1>9, <1>10, <1>q DEF CallStep

\* An invocation works under a keyring that serves, on a campaign to its root:
\* the rollout of the next one waits for it.
LEMMA CallsStep ==
  ASSUME TypeOK, LeaseOK, CreationOK, CheckedOK, WrappersOpen, [Next]_vars,
         NEW c \in Calls, CallOK(c)
  PROVE  CallOK(c)'
<1>t. call \in [Calls -> CallType] /\ campaign \in [Campaigns -> CampaignType]
  BY Typing
<1>0. TypeOK' => call' \in [Calls -> CallType]
  BY DEF TypeOK, CallType, RingType
<1>1. CASE Continued(c) /\ call'[c].pc # "idle"
  <2>1. call[c].of \in Campaigns /\ call'[c].of = call[c].of
    BY <1>1, <1>t DEF Continued, CallType
  <2>2. /\ campaign[call[c].of].status # "none" /\ call[c].env \in Serving
        /\ campaign[call[c].of].target = call[c].env.active
        /\ call'[c].env = call[c].env
    BY <1>1 DEF Continued, CallOK
  <2>3. /\ campaign'[call[c].of].status # "none"
        /\ campaign'[call[c].of].target = call[c].env.active
    BY <2>1, <2>2, CampaignsLast
  <2>4. call'[c].env \in Serving'
    <3>1. CASE ~Straggler /\ ring \in Serving'
      BY <1>1, <2>2, <3>1 DEF Straggler, At, Continued
    <3> QED BY <2>2, <3>1, ServingStep
  <2>5. call'[c].pc = "write" => call'[c].user \in Users
    BY <1>1 DEF Continued, CallOK
  <2> QED BY <2>1, <2>2, <2>3, <2>4, <2>5 DEF CallOK
<1>2. CASE Started(c)
  <2>1. call'[c].env \in Serving'
    BY <1>2 DEF Started, Serving
  <2> QED BY <1>2, <2>1 DEF Started, CallOK, Open
<1> QED BY <1>1, <1>2, CallMoves DEF CallOK
-----------------------------------------------------------------------------
(* Under which root a key or a candidate is wrapped.                       *)

\* The active roots of the keyrings under which anybody works.
Actives == {env.active : env \in Serving}
WrappersOf(u) == {key[u], rotation[u]} \cap Roots

\* A new wrapper is under one of them.
LEMMA NewWrappers ==
  ASSUME TypeOK, MintingOK, \A c \in Calls : CallOK(c), [Next]_vars, NEW u \in Users
  PROVE  WrappersOf(u)' \subseteq WrappersOf(u) \cup Actives
<1>t. /\ key \in [Users -> RootOr({"none", "destroyed"})]
      /\ minting \in [Users -> RootOr({"none"})]
      /\ rotation \in [Users -> RootOr({"none", "quiescing", "verifying"})]
      /\ call \in [Calls -> CallType]
      /\ "none" \notin Roots /\ "destroyed" \notin Roots
      /\ "quiescing" \notin Roots /\ "verifying" \notin Roots
  BY Typing, Constants
<1>q. ASSUME UNCHANGED <<key, rotation>> PROVE WrappersOf(u)' \subseteq WrappersOf(u)
  BY <1>q DEF WrappersOf
<1>1. ASSUME NEW v \in Users, InsertFirstKey(v)
      PROVE  WrappersOf(u)' \subseteq WrappersOf(u) \cup Actives
  <2>1. minting[v] \in Actives
    BY <1>1, <1>t DEF InsertFirstKey, MintingOK, Actives, RootOr
  <2> QED BY <1>1, <1>t, <2>1 DEF InsertFirstKey, WrappersOf
<1>2. ASSUME NEW v \in Users, StartRotation(v) \/ VerifyRotation(v) \/ ReserveDeletion(v)
      PROVE  WrappersOf(u)' \subseteq WrappersOf(u)
  BY <1>2, <1>t DEF StartRotation, VerifyRotation, ReserveDeletion, WrappersOf
<1>3. ASSUME NEW v \in Users, PersistCandidate(v)
      PROVE  WrappersOf(u)' \subseteq WrappersOf(u) \cup Actives
  <2>1. PICK env \in Serving : rotation' = [rotation EXCEPT ![v] = env.active]
    BY <1>3 DEF PersistCandidate
  <2>2. UNCHANGED key /\ env.active \in Actives
    BY <1>3 DEF PersistCandidate, Actives
  <2> QED BY <1>t, <2>1, <2>2 DEF WrappersOf
<1>4. ASSUME NEW v \in Users, FinalizeRotation(v)
      PROVE  WrappersOf(u)' \subseteq WrappersOf(u)
  BY <1>4, <1>t DEF FinalizeRotation, WrappersOf
<1>5. ASSUME NEW v \in Users, EraseKeys(v)
      PROVE  WrappersOf(u)' \subseteq WrappersOf(u)
  BY <1>5, <1>t DEF EraseKeys, WrappersOf
<1>6. ASSUME NEW c \in Calls, WriteKey(c)
      PROVE  WrappersOf(u)' \subseteq WrappersOf(u) \cup Actives
  <2>1. CASE key' = key
    BY <1>6, <1>q, <2>1 DEF WriteKey
  <2>2. CASE key' = [key EXCEPT ![call[c].user] = Target(c)] /\ UNCHANGED rotation
    <3>1. Target(c) \in Actives
      BY <1>6 DEF WriteKey, At, CallOK, Target, Actives
    <3> QED BY <1>t, <2>2, <3>1 DEF WrappersOf
  <2> QED BY <1>6, <2>1, <2>2 DEF WriteKey
<1>7. ASSUME ~\E v \in Users : \/ InsertFirstKey(v) \/ StartRotation(v) \/ VerifyRotation(v)
                               \/ ReserveDeletion(v) \/ PersistCandidate(v)
                               \/ FinalizeRotation(v) \/ EraseKeys(v),
             ~\E c \in Calls : WriteKey(c)
      PROVE  UNCHANGED <<key, rotation>>
  BY <1>7 DEF Next, vars, Activate, Retire, LoseRoot, RestoreRoot, CheckRetirement,
     WrapFirstKey, DeleteRows, LoadKeys, InsertCampaign, RetryBlocked, BeginStep, CallStep,
     AcquireLease, LoadItems, ReadKey, CommitStep, Die, Tick, accountVars
<1> QED BY <1>1, <1>2, <1>3, <1>4, <1>5, <1>6, <1>7, <1>q

\* The operator's checks see every key and every candidate.
LEMMA CheckSteps ==
  ASSUME TypeOK, [Next]_vars, checked'
  PROVE  \/ checked
         \/ /\ UNCHANGED <<ring, rollout, key, rotation>> /\ rollout = 0
            /\ \A u \in Users : WrappersOf(u) \subseteq {ring.active}
<1>1. CASE CheckRetirement
  BY <1>1 DEF CheckRetirement, Candidates, WrappersOf, accountVars
<1>2. CASE ~CheckRetirement
  BY <1>2 DEF Next, vars, Activate, Retire, LoseRoot, RestoreRoot, Deploy, WrapFirstKey,
     InsertFirstKey, StartRotation, PersistCandidate, FinalizeRotation, VerifyRotation,
     ReserveDeletion, DeleteRows, EraseKeys, LoadKeys, InsertCampaign, RetryBlocked, BeginStep,
     CallStep, AcquireLease, LoadItems, ReadKey, WriteKey, CommitStep, Die, Tick, ringVars
<1> QED BY <1>1, <1>2

\* After the operator's checks no wrapper under another root appears.
LEMMA CheckedStep ==
  ASSUME TypeOK, MintingOK, CheckedOK, WrappersOpen, \A c \in Calls : CallOK(c), [Next]_vars
  PROVE  CheckedOK'
<1> SUFFICES ASSUME checked'
             PROVE  rollout' = 0 /\ \A u \in Users : WrappersOf(u)' \subseteq {ring'.active}
  BY DEF CheckedOK, WrappersOf
<1>1. CASE /\ UNCHANGED <<ring, rollout, key, rotation>> /\ rollout = 0
           /\ \A u \in Users : WrappersOf(u) \subseteq {ring.active}
  BY <1>1 DEF WrappersOf
<1>2. CASE checked
  <2>1. rollout = 0 /\ \A u \in Users : WrappersOf(u) \subseteq {ring.active}
    BY <1>2 DEF CheckedOK, WrappersOf
  <2>2. RingKept
    BY RingSteps DEF Deployed
  <2>3. rollout' = 0 /\ ring' = ring
    BY <2>1, <2>2 DEF RingKept
  <2>4. Actives = {ring.active}
    BY <2>1 DEF Actives, Serving
  <2> QED BY <2>1, <2>3, <2>4, NewWrappers
<1> QED BY <1>1, <1>2, CheckSteps

\* A keyring loses only a root that the checks found unused, or is counted as a
\* loss; and everybody wraps under a root that it has.
LEMMA WrappersStep ==
  ASSUME TypeOK, RingsOK, MintingOK, CheckedOK, WrappersOpen, \A c \in Calls : CallOK(c),
         [Next]_vars
  PROVE  WrappersOpen'
<1>1. CASE Deployed
  BY <1>1 DEF Deployed, WrappersOpen, accountVars
<1>2. CASE RingKept
  <2>1. Actives \subseteq ring.keys
    BY Typing DEF Actives, Serving, RingsOK
  <2>2. losses' = 0 => \A u \in Users : WrappersOf(u) \subseteq ring.keys
    BY <1>2 DEF RingKept, WrappersOpen, WrappersOf
  <2>3. losses' = 0 => \A u \in Users : WrappersOf(u)' \subseteq ring'.keys
    BY <1>2, <2>1, <2>2, NewWrappers DEF RingKept
  <2> QED BY <2>3 DEF WrappersOpen, WrappersOf
<1> QED BY <1>1, <1>2, RingSteps
-----------------------------------------------------------------------------
(* Rotations and campaigns.                                                *)

\* A rotation starts while no campaign is open, and the step does nothing to a
\* campaign.
LEMMA RotationSteps ==
  ASSUME TypeOK, [Next]_vars, NEW u \in Users, Rotating(u)'
  PROVE  \/ Rotating(u)
         \/ UNCHANGED campaign /\ \A i \in Campaigns : ~Open(i)
<1>t. rotation \in [Users -> RootOr({"none", "quiescing", "verifying"})]
  BY Typing
<1>1. ASSUME NEW v \in Users, StartRotation(v)
      PROVE  UNCHANGED campaign /\ \A i \in Campaigns : ~Open(i)
  BY <1>1 DEF StartRotation, campaignVars
<1>2. ASSUME NEW v \in Users,
             PersistCandidate(v) \/ FinalizeRotation(v) \/ VerifyRotation(v) \/ ReserveDeletion(v)
      PROVE  Rotating(u)
  BY <1>2, <1>t, Constants DEF PersistCandidate, FinalizeRotation, VerifyRotation,
     ReserveDeletion, Rotating
<1>3. ASSUME ~\E v \in Users : \/ StartRotation(v) \/ PersistCandidate(v) \/ FinalizeRotation(v)
                               \/ VerifyRotation(v) \/ ReserveDeletion(v)
      PROVE  UNCHANGED rotation
  BY <1>3 DEF Next, vars, Activate, Retire, LoseRoot, RestoreRoot, CheckRetirement,
     WrapFirstKey, InsertFirstKey, DeleteRows, EraseKeys, LoadKeys, InsertCampaign,
     RetryBlocked, BeginStep, CallStep, AcquireLease, LoadItems, ReadKey, WriteKey, CommitStep,
     Die, Tick, accountVars
<1> QED BY <1>1, <1>2, <1>3 DEF Rotating

\* Neither a rotation nor a campaign begins while the other runs: either batch
\* looks at the other's table when it inserts.
LEMMA ExclusionStep ==
  ASSUME TypeOK, LeaseOK, CreationOK, NoRotationDuringCampaign, [Next]_vars
  PROVE  NoRotationDuringCampaign'
<1> SUFFICES ASSUME NEW i \in Campaigns, Open(i)', NEW u \in Users, Rotating(u)'
             PROVE  FALSE
  BY DEF NoRotationDuringCampaign
<1>1. CASE Inserted(i)
  BY <1>1 DEF Inserted, Rotating
<1>2. CASE ~Inserted(i)
  <2>1. Open(i)
    BY <1>2, CampaignSteps DEF CampaignsMove, StatusesKept, Resolved, Inserted, Open
  <2> QED BY <2>1, RotationSteps DEF NoRotationDuringCampaign
<1> QED BY <1>1, <1>2
-----------------------------------------------------------------------------
(* The theorems.                                                           *)

\* The invariant holds at the start ...
LEMMA InvInit == ASSUME Init PROVE Inv
<1>1. TypeOK
  <2>1. ring \in RingType /\ ring.active \in ring.keys
    BY Constants DEF Init, RingType
  <2>2. /\ rollout \in 0 .. Rollout /\ {checked, refused} \subseteq BOOLEAN
        /\ deployments \in 0 .. MaxDeployments /\ {losses, deaths} \subseteq 0 .. MaxFaults
    <3>1. 0 \in 0 .. MaxDeployments /\ 0 \in 0 .. MaxFaults /\ 0 \in 0 .. Rollout
      BY Constants
    <3> QED BY <3>1 DEF Init
  <2>3. /\ key \in [Users -> RootOr({"none", "destroyed"})]
        /\ minting \in [Users -> RootOr({"none"})]
        /\ rotation \in [Users -> RootOr({"none", "quiescing", "verifying"})]
        /\ deletion \in [Users -> {"none", "reserved", "rows_deleted", "keys_erased"}]
    <3>1. {"none", FirstRoot} \subseteq RootOr({"none", "destroyed"})
      BY Constants DEF RootOr
    <3> QED BY <3>1 DEF Init, RootOr
  <2>4. /\ campaign \in [Campaigns -> CampaignType]
        /\ item \in [Campaigns -> [Users -> ItemType]]
        /\ creation \in CreationType /\ call \in [Calls -> CallType]
    BY Beginnings DEF Init
  <2> QED BY <2>1, <2>2, <2>3, <2>4 DEF Init, TypeOK, CampaignType, ItemType, CreationType, CallType
<1>2. RingsOK
  BY Constants DEF Init, RingsOK
<1>3. MintingOK
  BY Constants DEF Init, MintingOK
<1>4. LeaseOK /\ CreationOK
  <2>1. LeaseOK
    BY Beginnings DEF Init, LeaseOK
  <2>2. NumberedTo(0)
    BY Beginnings, Constants DEF Init, NumberedTo, Campaigns
  <2>3. 0 \in 0 .. MaxCampaigns
    BY Constants
  <2> QED BY <2>1, <2>2, <2>3 DEF Init, CreationOK
<1>5. CheckedOK
  BY DEF Init, CheckedOK
<1>6. \A c \in Calls : CallOK(c)
  BY Beginnings DEF Init, CallOK
<1>7. WrappersOpen
  BY Constants DEF Init, WrappersOpen
<1>8. NoRotationDuringCampaign
  BY DEF Init, NoRotationDuringCampaign, Rotating
<1> QED BY <1>1, <1>2, <1>3, <1>4, <1>5, <1>6, <1>7, <1>8 DEF Inv

\* ... and every step keeps it.
LEMMA InvStep == ASSUME Inv, [Next]_vars PROVE Inv'
<1>i. /\ TypeOK /\ RingsOK /\ MintingOK /\ LeaseOK /\ CreationOK /\ CheckedOK
      /\ \A c \in Calls : CallOK(c)
      /\ WrappersOpen /\ NoRotationDuringCampaign
  BY DEF Inv
<1>1. TypeOK'
  BY <1>i, TypeStep
<1>2. RingsOK' /\ MintingOK'
  BY <1>i, RingsStep, MintingStep
<1>3. LeaseOK' /\ CreationOK'
  BY <1>i, LeaseStep, CreationStep
<1>4. CheckedOK' /\ WrappersOpen'
  BY <1>i, CheckedStep, WrappersStep
<1>5. \A c \in Calls : CallOK(c)'
  BY <1>i, CallsStep
<1>6. NoRotationDuringCampaign'
  BY <1>i, ExclusionStep
<1> QED BY <1>1, <1>2, <1>3, <1>4, <1>5, <1>6 DEF Inv

\* The inductive invariant holds in every reachable state.
THEOREM Invariance == Spec => []Inv
BY InvInit, InvStep, PTL DEF Spec

\* Every variable keeps its type.
THEOREM TypeCorrect == Spec => []TypeOK
<1>1. Inv => TypeOK
  BY DEF Inv
<1> QED BY <1>1, Invariance, PTL

\* Retiring a root after the runbook's three checks, with campaigns, rotations,
\* first keys and deletions at work under two keyrings, never leaves a wrapper
\* under a root that is gone (stepKekRewrapCampaign, persistCandidate, eraseKeys).
THEOREM WrappersStayOpen == Spec => []WrappersOpen
<1>1. Inv => WrappersOpen
  BY DEF Inv
<1> QED BY <1>1, Invariance, PTL

\* createKekRewrapCampaign and the start of a rotation exclude one another,
\* although each only reads the other's table in the batch that inserts its row.
THEOREM CampaignsExcludeRotations == Spec => []NoRotationDuringCampaign
<1>1. Inv => NoRotationDuringCampaign
  BY DEF Inv
<1> QED BY <1>1, Invariance, PTL
=============================================================================
