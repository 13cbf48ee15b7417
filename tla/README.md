# Verification of the Patternlike API

Patternlike is an astrology-reading service. Its API is a Cloudflare Worker
(`src/apps/api`) over one D1 (SQLite) database, R2 buckets and Queues. Nearly
everything that matters in it is a long-running job: a Daily reading, a Pattern
generation, an account deletion, a privacy export, a key rotation. Each job is
a row moved by guarded UPDATE statements, by Worker invocations that may be
evicted between any two statements, by queue messages that come late or twice
and by crons that sweep up what the others left.

This project models that machinery in TLA+, checks it with TLC on small
instances and proves what matters most of it with TLAPS. It covers

- the **Codex provider control plane**, the durable exchange through which a
  Daily reading is generated by a runner outside Cloudflare;
- the **privacy workflows**: account deletion and exports over one object store;
- the **keys**: the rotation of one account's data key under the crypto write
  fence, and the campaigns that move every data key to a new root key;
- the **Pattern generations**: reservation, stages, sweep, publication, deletion.

The inventory below names every other part of the system; the plan says in
which order they follow.

- [Inventory](#inventory)
- [The Codex control plane and its modules](#the-codex-control-plane-and-its-modules)
- [The privacy workflows](#the-privacy-workflows)
- [The keys](#the-keys)
- [The Pattern generations](#the-pattern-generations)
- [What is checked](#what-is-checked)
- [What is proved](#what-is-proved)
- [Disagreements between code and text](#disagreements-between-code-and-text)
- [What is not modelled](#what-is-not-modelled)
- [Plan](#plan)
- [Running it](#running-it)

Paths below are relative to `src/`; `A/` stands for `apps/api/src/`.

## Inventory

For each part: the state it keeps, its operations, whom it interacts with, what
is hard about it, and what makes it correct.

**Codex provider-job table** (`A/db/codex-provider-jobs.ts`, `db/d1/0013`,
`0014`). *State*: `codex_provider_jobs` (status, lease token hash, lease expiry,
`available_at`, `completed_at`) and the inventory of response uploads.
*Operations*: enqueue, claim, reserve upload, complete, fail, release, cancel,
cancel stale, delete; each is one guarded statement or batch. *Interacts* with the
routes, the maintenance pass and the publisher. *Hard*: runners that were displaced still
answer; callers sample `now` before their statements; the expiry can pass between
an owner check and a write. *Correct when*: live leases are never taken away, only the present
holder's verdict lands, verdicts are final, objects are fenced by their token.

**Runner routes** (`A/routes/codex-provider.ts`, `A/db/provider-usage.ts`).
*State*: none but the call budget. *Operations*: claim (owner check, fetch,
charge, hand out), complete (check, reserve, check, put, check, commit, nudge), fail.
*Hard*: seven or more awaits in one handler, an owner that departs between any two of them,
an R2 put that succeeds while the D1 commit does not. *Correct when*: every hand-out is paid
for, the budget holds, no object is lost or orphaned.

**Codex maintenance** (`A/services/codex-provider-maintenance.ts`,
`A/scheduled.ts`). Drops stale uploads, cancels jobs of stale owners, repairs
missed nudges, purges settled exchanges; run from two cron schedules at once.
*Hard*: every pass selects, then checks, then deletes object and row apart.
*Correct when*: nothing live is deleted, and whatever the routes left half done is found.

**Daily owner on the Codex plane** (`A/services/codex-provider-domain.ts`,
`reading-current-owner.ts`, `codex-reading-publisher.ts`). Enqueues, parks and
adopts for a Daily job; the nudge clears `dispatched_at`, sends, and marks.
*Hard*: the verdict can arrive before the owner is parked; a send can throw.
*Correct when*: no verdict is forgotten, and no request is missing.

**Encrypted exchange objects** (`A/services/codex-provider-artifacts.ts`,
`codex-provider-contract.ts`): request and response objects in R2, create-only
under job and token.

**Daily generation jobs** (`A/db/generation.ts`, `A/queue.ts`,
`A/services/generate-daily-reading-v5.ts`, `enqueue.ts`). *State*: `jobs` rows
(status, claim token and lease, attempts, `available_at`, `dispatched_at`,
`result_class`) beside `readings`. *Operations*: claim, park, release for retry, publish, fail, pause,
resume, retract, reissue, replace the command, mark dispatched, sweep.
*Hard*: redelivery, expired claims, commands replaced in flight, the marker as
the only link between the outbox and the queue. *Correct when*: one live current reading per
local day, every live job is reachable by a waker, at most `MAX_JOB_ATTEMPTS` attempts.

**Codex runner process** (`apps/codex-runner`): polls, runs a child process,
answers once per claim. **Portrait and mesh runners** share its shape.

**Reading scheduler** (`A/db/reading-scheduler.ts`, `run-reading-scheduler.ts`):
batch leases and `next_due_at` cursors. **Invalidation**
(`reading-invalidation.ts`, `db/cycles.ts`): retracts a pending row and inserts its
successor. *Correct when*: a due reader is served once, and never skipped.

**Account deletion** (`A/db/deletion-jobs.ts`, `A/services/account-deletion.ts`,
`deletion-manifest.ts`): a checkpointed workflow (fence, manifest, erase
objects, erase keys, tombstone) whose claim can be taken over between two steps.
**Privacy exports** (`A/db/privacy-jobs.ts`, `A/services/privacy-jobs.ts`):
claim, build, put, publish, expire. *Hard*: the two race for one R2 key; an
export's put may land after deletion collected the keys. *Correct when*: nothing readable
survives a completed deletion.

**Crypto write fence and key rotation** (`A/db/crypto-write-fence.ts`,
`A/services/crypto-operations.ts`): writers carry the key version they encrypted under; a
rotation drains, re-encrypts chunk by chunk and promotes. *Correct when*: every row is
readable under a key that is kept, and no write is lost to a chunk.
**Root-key campaigns** (`A/services/crypto-operations.ts`, `A/db/users.ts`,
`A/services/root-kek-keyring.ts`): every data key is rewrapped under the active root, item by item,
while the operator deploys and retires keyrings. *Hard*: Worker versions with different keyrings
overlap; a lease runs out while an invocation goes on; keys are made, rotated and erased
meanwhile. *Correct when*: a retired root wraps nothing, and every campaign can be completed.

**Pattern generation stages** (`A/services/pattern-stage-protocol.ts`, `pattern-execute.ts`,
`pattern-sweep.ts`): stage generations, claims, parked provider jobs. **Pattern publication,
claims, replay ledger** (`A/db/pattern-claim-transitions.ts`, `pattern-publication-proof.ts`,
`pattern-lifecycle.ts`): what the stages publish, once per chart. *Hard*: deliveries repeat and
overlap; the row is read, a provider is asked for minutes, and the batch comes after; revocation,
deletion and the sweep act behind a delivery's back. *Correct when*: one Pattern per chart,
published only under the consent it was reserved with, and no opportunity is lost. **Ontology
pipeline**: the same shape, operated by hand.

**Consent ledgers, sessions, identities, users, content releases, birth profiles
and calculation budget, reader data (saves, feedback, check-ins, preferences),
time travel**: single guarded statements or batches; the account status, the
consent and the rollout enter the control plane as *admission*, the writers of encrypted rows the
rotation as *writers*.

**Pattern and reading engines, calculation service, ontology signer, web
client**: pure or stateless, or presentation.

`PROJECT.json` lists every component with its status, and every hazard with the
line where it bites and the properties that watch it.

## The Codex control plane and its modules

```
  reader, scheduler, sweep        runner (another machine)
          |                         | claim / complete / fail
          v                         v
   jobs row <--- nudge, repair --- routes ----> call budget
  (DailyOwner)                      |
          | Daily execution         |         maintenance, two crons
          v                         v                 |
     codex_provider_jobs, response uploads <----------+
              (CodexProviderJobs)
          requests and responses in R2  <-------------+
```

| module | models | role |
|---|---|---|
| `ProviderExchange` | what a provider job promises, without clock or leases: a verdict is presented under a token, and only the present holder's stands | abstract specification |
| `CodexProviderJobs` | `codex-provider-jobs.ts`, one action per exported operation | the table; implements `ProviderExchange` |
| `DailyOwner` | the `jobs` row: `generation.ts`, `queue.ts` | operators, composed below |
| `CodexControlPlane` | routes, execution, nudge, maintenance, R2, budget, rollout | the composition; implements `CodexProviderJobs` |
| `CodexProviderJobs_proofs`, `CodexControlPlane_proofs`, `CodexStores_proofs` | | theorems |
| `MCCodexProviderJobs`, `MCCodexControlPlane` | | instances for TLC |

### The table (`CodexProviderJobs`)

`row[j]` is the row of job `j`, `"absent"` when there is none. A job id is one
immutable coordinate, so enqueueing an id twice is adopting the row that
exists. `issued[t]` remembers for which job a random lease token was minted,
and a token is minted at most once; `uploads` is the upload inventory. Time is
a counter that starts at 1, so that 0 stands for NULL.

A handler samples `now` once and passes it to several statements. Every operation
therefore takes the caller's instant `at`, and `Sampled` allows any instant up
to `MaxLag` old. Without this, the comparison of an expiry with a stale
instant, which is where such code goes wrong, would never be exercised.

`answer` is the token whose response key or failure stands in a settled row, as presented; it is
what the refinement compares with the exchange's verdict, so that an answer which lands under any
other token than the holder's is not a step of the exchange.

`RefuseUpload` is the half of `reserveCodexProviderUpload` that runs for an
account that is no longer active: the first statement of the batch is refused and the second, which
does not repeat the condition, still inventories the upload.

### The Daily row (`DailyOwner`)

One row and its message. `dispatchedAt` is the outbox marker: NULL is what
the sweep looks for. `result` tells a row that waits for a provider from one that
a rollout pause put aside. `attempts` names the provider job of the present attempt;
reacquiring a parked row is not a new attempt.

`admission` is what the owner checks read besides the row: open, rollout off (`"paused"`),
consent revoked, account closed. `frozen` is the account's status for the time being: a data-key
rotation freezes it and installs the write fence (`crypto-operations.ts:248`), and a reader who
withdraws the consent to account processing freezes it too; both end. While it lasts no claim is
made (`AccountServes`, `generation.ts:987`), a delivery is acknowledged, and the owner checks fail
(`OwnerCurrent`, by the join of `generation.ts:1085`) although the owner is entitled (`Entitled`)
and will be current again. The lease of a claim is abstracted:
a claim can be taken over exactly when no execution holds it any more
(`ClaimLost`). Real lease instants belong to the next module of the plan.

### The composition (`CodexControlPlane`)

A Worker invocation is `call[c]`: its program counter, job, token, sampled
instant and, for the purge, the row it read. Each action performs one D1, R2 or
Queue operation, so that calls interleave exactly where the code awaits, and any of them may
die there (`Die`) or have its queue send throw (`SendThrows`).

- *Claim route*: `ClaimCall`, `CheckOwner`, `Fetch`, `Charge`, `Reply`, with
  `Release`, `Refuse` and `Cancel` for an unreadable request, a spent budget or a malformed
  request, and a stale owner.
- *Complete*: `CompleteCall`, owner check, `Reserve`, owner check, `PutResponse`,
  `CheckBeforeCommit` (which samples a fresh instant), `Commit`. *Fail*: `FailCall`, owner
  check, `Fail`.
- *Nudge*: `Nudge`, `Wake` (clear the marker), `SendMessage`, `Mark`.
- *Execution*: `Deliver`, `PutRequest`, `Enqueue`, `Consult`, then `Adopt`,
  `Retry` or `Park` and `Recheck`; `PauseDelivery` under rollout-off.
- *Maintenance*: one call per item of one of the four work lists; `Select...`
  reads the list, later steps repeat only the conditions the code repeats.
- *Others*: `Sweep`, `ResumePaused`, `ResumeForFirstOpen`, rollout, freeze and departures.
  `denied` is a history of what a pause or a freeze has turned away: a message that was acknowledged
  (`"delivery"`) or paused the row (`"pause"`), an owner check that failed for that alone (`"check"`).

An answer may be delivered `MaxSends` times (`answers`). Reading a response is
abstracted to usable or not, a request to readable, unreadable or malformed, and a
runner to a choice of verdict.

`PlaneTick` holds the clock while a call has used up its `MaxLag`: handlers take
seconds, leases minutes. This is the one timing assumption of the plane. Within it a handler's instant may
be stale at every statement that follows its sampling; a handler that stalls for longer than
a lease is outside the model.

## The privacy workflows

| module | models | role |
|---|---|---|
| `Erasure` | what account deletion promises: exports are published for an open account only, and an account is called erased when nothing of it can be read | abstract specification |
| `PrivacyWorkflows` | `routes/privacy.ts`, `db/privacy-jobs.ts`, `db/deletion-jobs.ts`, `services/privacy-jobs.ts`, `account-deletion.ts`, `privacy-maintenance.ts` | deletion and exports over one account, one database, one bucket; implements `Erasure` |
| `PrivacyWorkflows_proofs`, `PrivacyWaking_proofs` | | theorems |
| `MCPrivacyWorkflows` | | instances |

A call performs one D1, R2 or Queue operation per step; at any step it may die, or the operation
may throw, and then the consumer's own `catch` or the queue's retry runs. `job[j]` is the row in
`jobs`: the claim's UPDATE increments `attempts` and mints the token, so the attempt number *is*
the token. `req` and `del` are the request rows, `command` says that the deletion's payload is
still there, `object[x]` is the attempt whose sealed export lies in the bucket, `inbox[j]` are
copies of the message with their delay and the retries they have used.

- *Deletion*: reservation, dispatch, claim, then the checkpoints in the order of the workflow:
  `Accepted` (decrypt, probe for a live export, collect the keys, fence), `ExportsFenced` (collect
  again, drop the objects), `ObjectsDeleted` (rows, then jobs), `RowsDeleted` (erase the keys),
  `KeysErased` (finalize). A displaced claim goes on with its next statement, since
  `advanceDeletionCheckpoint` returns `false` and the caller ignores it.
- *Exports*: build and seal, owner check, HEAD and compare-and-set PUT, publication, the late
  owner check that removes what it put; failure with its object and marker; retry; expiry.
- *Maintenance*: recovery of queued and expired jobs, expiry of objects, the sweep of the manifest
  while its fence lasts, removal of failed exports.

Instants are counted down and 0 is "has passed". An invocation lives `CallLife` ticks at most,
which is shorter than the fence, an export's life and the retries (`PrivacyAssumption`), as 30 s
of a Worker are against days; it may be longer than a claim's lease, which is where takeovers come
from.

`fenced` is the crypto write fence of a data-key rotation, which any step may find set or lifted:
no export is reserved or claimed under it (`db/privacy-jobs.ts:183`, `:284`), and the reservation of
the deletion abandons the rotation and clears it (`db/deletion-jobs.ts:238`). `turned` is a history
of the queued exports whose message was acknowledged for the fence alone.

What is abstracted: the status `"active"` stands for active and frozen, which exports do not tell
apart but for the fence; exports are the only family of
objects; the four tries of a compare-and-set PUT are a loop; the reader's tables are one fact that
two statements delete; a deletion's backoff is constant; the intent and receipt of the replay
ledger are left out.

## The keys

| module | models | role |
|---|---|---|
| `CryptoRotation` | `stepDekRotation` of `crypto-operations.ts`, `crypto-write-fence.ts`, the abandonment by `deletion-jobs.ts` | one account, its rows, its rotations |
| `RootRewrap` | `createKekRewrapCampaign`, `stepKekRewrapCampaign`, `retryBlockedKekRewrapItems`, `rewrapUserKey`, `buildUserKeyInsert` | all accounts, the root keys, the operator |
| `CryptoRotation_proofs`, `RootRewrap_proofs` | | theorems |
| `MCCryptoRotation`, `MCRootRewrap` | | instances |

**`CryptoRotation`.** `row[r]` is the key an encrypted row is under and its value (a counter, so
that a lost or resurrected write shows); `op[i]` the operation row with its stage, candidate key,
lease and instants; `writer[w]` a request or job that has sealed under a key and not yet
committed; `call[c]` an operator's step between two statements. A key is a version *and* the
operation that generated it: a failed or abandoned rotation and its successor use the same version
number for different keys. `revision = ?` is remembered as whether what a call read is still the
row (`fresh`), because revisions never come back. Steps: acquire the lease, load, the work of the
stage (quiesce and generate a candidate, persist it, select a chunk, commit a chunk, close the
walk, finalize, verify), settle or block. Every awaited operation may throw (`Throw`) or the
invocation die.

**`RootRewrap`.** `ring` is the keyring being served, `older` the one before, still in use by
invocations that began before the deployment while `rollout` lasts. `item[i][u]` are the items of
a campaign; `call[c]` remembers whether the campaign row (`fresh`) and the wrapper it read
(`same`) are unchanged. The operator is external: it deploys, checks and retires by
`docs/deploy/root-kek-rotation.md`, and may once deploy a keyring without the checks (`LoseRoot`).
A rotation is reduced to what a campaign sees of it: quiescing, the root of the candidate,
verifying. One batch holds all items of an instance; `RetryBlocked` is one step. `Patient` says
that the operator starts no campaign during a rollout, which the guide does not ask for; the
listed run leaves it off.

## The Pattern generations

| module | models | role |
|---|---|---|
| `PatternClaims` | `db/pattern-claim-transitions.ts`, the triggers of migrations 0019 and 0023 | operators: one guarded UPDATE each, and `GuardAllows` |
| `PatternProtocol` | `planPatternTransition` of `services/pattern-stage-protocol.ts` | operators: what a transition makes of a row |
| `PatternStages` | `pattern-enqueue.ts`, `pattern-execute.ts`, `pattern-sweep.ts`, `pattern-publication-proof.ts`, `pattern-lifecycle.ts` | one reader's generations |
| `PatternStages_proofs` | | theorems |
| `MCPatternStages` | | instances |

`job[g]` is the row in `jobs`, `dom[g]` the domain row (stage, stage generation, attempts),
`command[g]` what was frozen at reservation, `claim` the reader's one claim for the chart,
`document` the generation whose document is stored. A delivery `exec[e]` claims, passes the gate
(eligibility, consent, source), asks a provider (`asked`), and commits a transition computed *from
the row it read*: every batch repeats claim token and stage generation, which is what lets it be
late. `sweep`, `post` and `erase` are the other three activities between their read and their
batch.

Messages are at least once and unordered: a delivery for the current stage generation may start at
any moment. A lease runs out and a back-off ends at any moment. The switch that pauses generation
may be read either way each time. The claim count is abstracted to "worn", reached at
`MAX_STAGE_CLAIMS`.

## What is checked

Invariants and action properties, refinements of three abstract specifications, and a property
of progress. Deadlock is not checked where a bounded clock, bounded attempts or a finished
workflow stop the instance, and is checked for both key modules.

| run | instance | distinct states | shows |
|---|---|---|---|
| `provider_jobs` | 2 jobs, 3 tokens, clock to 4 | 105,863 | every operation with every stale instant keeps `TokenDiscipline`, `UploadsAreFenced`, `NoSeizureOfLiveLease`, `TerminalIsFinal`, and implements `ProviderExchange` |
| `two_attempts` | 2 attempts, 2 tokens, 2 calls, duplicated answers | 2.6 million | `SpendIsBounded`, `QueuedOwnerIsReachable` |
| `faults` | 1 attempt, 2 calls, one death, one throwing send | 1.1 million | `ObjectsAreInventoried`, `AdoptableResponseExists`, `OperatesTheTable` |
| `departures` | 1 attempt, 2 calls, a pause or a freeze, revocation, closure, clock to 3 | 2.3 million | `RequestPrecedesJob`, `QueuedOwnerIsReachable`, `VerdictReachesOwner` |
| `privacy_takeover` | 1 export, the deletion, 2 calls, 2 claims a job, one throw, rotations | 887,000 | `ReadyIsServed`, `LateObjectsAreListed`, `QueuedJobHasWaker`, `CheckpointsAdvance`, and implements `Erasure` (`KeepsErasurePromise`) |
| `privacy_progress` | the deletion, 2 calls, 5 claims of which one is displaced while it runs, a death and a throw | 114,000 | under fairness, `DeletionCompletes` |
| `rotation_takeover` | 2 rows, 2 calls, a writer, 2 faults | 1.3 million | `RowsAreReadable`, `WalkStaysClosed`, `FenceHasRotation`, `SettledIsFinal`, `RekeyingKeepsData` |
| `rewrap_retirement` | 2 accounts, 2 roots, 2 calls, 2 campaigns, a deployment, a deletion, a fault | 1.5 million | `WrappersOpen`, `NoRotationDuringCampaign` |
| `pattern` | 2 generations, 2 drafts, one delivery at a time beside sweep, request, deletion | 3.9 million | one Pattern per chart and its claim, stage, document and consent; the ceiling of provider calls |
| `cancelled_owner`, `lost_message`, `resumed_row` | 1 attempt, 2 calls | | a counterexample each, see below |

**Fairness.** Only `privacy_progress`, and the configurations `MCPrivacyAnswers`,
`MCPrivacyLatePut`, `MCRotationProgress` and `MCRewrapProgress`, assume any; each kind has its
reason in the platform or in a runbook.

- *Time passes* (`WF Tick`; strong in `RootRewrap`, where a rollout waits for stragglers that come
  and go).
- *An invocation that has begun goes on* (`WF` of each call's step). It may still die or throw:
  faults are bounded, never excluded.
- *A message that stays deliverable is delivered, and the cron fires* (`SF` per job of claiming
  and of recovering, `SF` of selecting the manifest): strong, because with few call slots others
  may hold them in between. The message itself may be lost to the dead-letter queue; recovery is
  what then matters.
- *The operator drains*: steps a running operation again (`WF BeginStep`), restores a missing root
  and retries blocked items (`SF RestoreRoot`, `WF RetryBlocked`), as `user-dek-rotation.md` and
  `root-kek-rotation.md` in `docs/deploy/` say. Of a key minted by a sign-up it is assumed that
  its batch is sent (`WF InsertFirstKey`).

`DeletionCompletes` is checked with a lease of 1, so that the claim of a call that is still at work
may be taken over; how many claims may be (`MaxDisplaced`) is bounded, for otherwise each claim may
lose the job to the next for as long as claims last. It excepts the deletion whose keys a displaced
call erased ahead of the checkpoint (`ErasedUnderClaim`): no later claim can open the command, and
it is stuck (see *Observations*). `ExportsAreAnswered` is checked by `MCPrivacyAnswers` only, for a
lease longer than an invocation, and excepts an export that a fence turned away and an account whose
rotations never end. The control plane and the
Pattern have no progress property; there, that a queued owner is always *reachable* by a waker
(`QueuedOwnerIsReachable`) is the safety half.

Why these bounds are enough for the cases they are for:

- *Tokens.* A displaced holder needs a second token, and a token of another job a
  third; hence three in `provider_jobs`, two per two attempts.
- *Clock.* A lease of 1 or 2 expires, is reclaimed and expires again by 4.
  `UploadExtension = 3` with `MaxLag = 1` in the plane stands for five minutes against a
  handler's seconds; in `provider_jobs` it is 1, so that both outcomes of the stretch occur.
- *Calls.* Two at a time are one handler and everything that can happen between two of its
  steps; a call slot is reused, so that the number of invocations of a run is not bounded.
- *Faults.* One death, one throw, one pause or freeze: each hazard listed is one fault between two steps.
  `MaxDeaths`, `MaxThrows`, `MaxPauses` bound the instance, not the specification.
- *Budget.* A limit of 1 makes two claimers meet at the ceiling.

Tokens, calls and, in the table, jobs are interchangeable, and the runs use that symmetry;
attempts in the plane are numbers and are not.

What the properties say, in the order of their weight:

- `QueuedOwnerIsReachable`: a queued owner has a message, a call about to send one, the sweep, the
  repair, or an open job to wait for, also while the rollout is off or the account frozen, until
  that turns something of it away. `VerdictReachesOwner`: once its job has a verdict, it is woken
  even if owner checks failed in between, unless a delivery was acknowledged under a freeze.
- `RequestPrecedesJob`: a job that can be claimed or is held has its request; the purge of a
  settled exchange never meets an execution of the same coordinate.
- `ObjectsAreInventoried`, `AdoptableResponseExists`: a response object is always in the
  inventory, and the one a live owner will adopt is still there.
- `SpendIsBounded`: plaintext is handed out only against a charge, and charges stop at the
  ceiling.
- `OperatesTheTable`: the plane only ever applies operations of the table. `ImplementsExchange`: of
  two runners that answer one job, it is the present holder whose answer is in the row.

- `KeepsErasurePromise`: whatever claim is displaced where, an account is called erased only when
  no export is downloadable and no key opens its rows. `LateObjectsAreListed`: an export stored
  after the fence, however late, is on the manifest that the cron sweeps. `ReadyIsServed`: a request that
  says ready has the object of its own attempt. `QueuedJobHasWaker`: a queued job has a message or is
  unmarked, in sight of the recovery, although a dispatch marker may land late; excepted is an export
  whose message a fence turned away.
- `RowsAreReadable`: no row is under a key that is neither live nor held by its rotation, whatever
  step is displaced, throws or dies. `WalkStaysClosed`: the statement that closes the walk asks
  for the lease only; that no row under the old key comes back is the work of the fence and the
  quiescence. `RekeyingKeepsData`: a chunk decrypts outside the batch that writes.
- `WrappersOpen`: no key and no candidate is wrapped under a root that was retired after the
  runbook's checks, although a Worker version with the older keyring is still at work.
  `NoRotationDuringCampaign`: each side looks at the other's table before its batch and in it.
- `OnePatternPerChart`, `PublicationIsAuthorized`, `DocumentMatchesClaim`, `ReservationIsLive`,
  `JobAndStageAgree`, `CallsAreBounded`: a delivery acts on what it read minutes ago, while the
  sweep, a revocation and a deletion act at once. `ClaimMovesLegally`: the trigger of migration
  0023 never has to refuse anything; it compares the claim before and after a batch, so that the
  order of the statements within one is not seen.

More bounds:

- *Privacy.* Two claims of a job, the first and the one that takes over, by two calls, the displaced
  one and its successor. A lease of 1 and `CallLife` 1 let a claim be taken over between any two
  steps. `MaxDisplaced` counts by attempts: a claim of a later attempt is not taken over while its
  call runs. Five claims in `privacy_progress` leave one more than takeover, death, throw
  and finish need; three and one throw were checked for `privacy_takeover` too (7.3 million states).
- *Rotation.* Two rows with a batch of one: a walk of two chunks, with a write between them. One
  rotation at a time is enough for its own properties; `MCRotationTwice` has two, of which the
  first has ended (1.6 million states).
- *Rewrap.* Two roots are forward rotation and its retirement; `MCRewrapRollback` goes back as
  well (1.1 million states).
- *Pattern.* Two generations: an opening and its successor or its replacement. One delivery at a
  time is not one delivery: a row may be taken over after any lapse, but the old delivery is then
  over. Two at once are `MCPatternTakeover` (5.2 million states), and the theorems, which are for
  any number.

Each property has a mutant: a changed definition, such as a claim that does not compare
the expiry or a purge that does not ask whether the owner lives, under which the same run
finds it violated. Mutants are defined beside the operators they change and marked `Mutant:`.

### Further configurations

These are not among the listed runs; each is run as `tlc -config <name>.cfg <MC module>`.

| configuration | module | what it shows |
|---|---|---|
| `MCPrivacyAnswers` | `MCPrivacyWorkflows` | `ExportsAreAnswered` and `DeletionCompletes` with an export to wait for, one call at a time (141,000 states) |
| `MCPrivacyLatePut` | `MCPrivacyWorkflows` | `BucketIsEmptied`: after a completed deletion the bucket ends and stays empty |
| `MCRotationProgress` | `MCCryptoRotation` | `RotationEnds`, `AccountIsRestored` with three faults |
| `MCRotationTwice` | `MCCryptoRotation` | the properties of `rotation_takeover` over two rotations |
| `MCRewrapProgress` | `MCRootRewrap` | `CampaignCompletes`, `SucceededItemsAreOnTarget` with a patient operator |
| `MCRewrapRollback` | `MCRootRewrap` | the properties of `rewrap_retirement` with a rollback |
| `MCPatternTakeover` | `MCPatternStages` | two deliveries at a time |
| `FrozenOwner` | `MCCodexControlPlane` | counterexample, see the observations |
| `FencedExport`, `UncheckpointedErasure`, `LateExportPut` | `MCPrivacyWorkflows` | counterexamples |
| `StaleDeletionCommand`, `UnsettledStep` | `MCCryptoRotation` | counterexamples |
| `ErasedDuringCampaign`, `RefusedRollback`, `LateRewrap` | `MCRootRewrap` | counterexamples |
| `DeletedReplacement` | `MCPatternStages` | counterexample |

### Observations

*Control plane*

- `ObjectsAreInventoried` and `AdoptableResponseExists` are checked with `MaxSends = 1`. With
  duplicated completions around a lease boundary or a purge, two handlers of one token
  can interleave so that the object of one is swept between the other's put and
  commit. The runner sends one completion per claim and does not resend
  (`apps/codex-runner/src/runner.ts`), so the single delivery is the behaviour of the system.
- `Recheck`, which closes the race between enqueue and park, is redundant with the repair pass:
  without it the owner stays reachable, only later. No property can tell the two apart
  without fairness or time.
- `codex-provider-maintenance.ts:77` says a successful nudge stamps `dispatched_at` after the
  completion instant; the routes pass one instant to both, and the repair compares with `<=`.
  A nudge that succeeded is therefore repaired once more, which the owner check makes harmless.
- `VerdictReachesOwner` is false with two attempts and a pause (`departures` has one
  attempt). A nudge of the first attempt that is past its owner check clears the marker of the
  second attempt's parked row, because the statement compares `command_generation` and an absent
  claim, not `attempts`. Its message is taken by a delivery that consults the open job, parks
  again, and marks the row later than the instant the runner's completion has
  sampled. The rollout goes off while that completion and the recheck ask for the owner, and comes on
  again: a parked row with a verdict, a marker younger than the verdict, no message, and neither
  the sweep nor the repair selects it. TLC finds it with three calls, two tokens, a lease of two,
  a lag of one and a clock to 2. It needs two coincidences, and a resume of the rollout that
  selects paused rows only. That it takes a later attempt is `FirstVerdictsReachOwners`.

- `FrozenOwner`: a delivery that finds the account frozen by a rotation claims no row, and
  `queue.ts:318` acknowledges it: the comment takes a claim of no rows for a duplicate, or for a job
  that has ended. When the message was that of a recheck or of the repair, its marker is younger than
  the verdict; after the rotation a parked owner that is current has a verdict, no message, and
  neither the sweep nor the repair selects it. No fault, no pause and no second attempt is needed.

*Privacy*

- `FencedExport`: `claimExportJob` claims nothing while the account has a write fence
  (`db/privacy-jobs.ts:284`), and its consumer acknowledges the message of a job that it cannot claim (`services/privacy-jobs.ts:103`). An export whose message arrives
  during a rotation stays queued and marked; the outbox lane asks for an unmarked or a running job
  (`privacy-maintenance.ts:353`). `docs/deploy/user-dek-rotation.md:35` expects that work that ran
  out is reclaimed after the account is restored; for a running job that is so.
- `UncheckpointedErasure`: `eraseKeys` (`account-deletion.ts:160`) destroys the keys without
  asking whose claim it is, while the command and the checkpoint ask for the token; a displaced
  call can thus erase ahead of the checkpoint, while the comment at 331 takes the two to go
  together. The successor has then the command of a claim that it cannot open: if it was between
  its claim and its own erasure it may still finish, but when it dies, throws or is displaced, every
  later claim throws in `decryptCommand` (`deletion-jobs.ts:431`), and the deletion is stuck. That
  is the exception of `DeletionCompletes`.
- `LateExportPut`: the comment at `privacy-jobs.ts:178` says that a failed export's object is
  gone. The PUT of a displaced attempt may land after the removal; the object is unreachable (no
  request is ready) and stays until the account is deleted.
- A marked job whose message is dead-lettered is not looked for: the outbox lane asks for
  `dispatched_at IS NULL` or an elapsed lease (`privacy-maintenance.ts:353`), and a delivery that
  throws before its claim leaves neither. A reservation, its send and its mark, followed by one
  throwing delivery more than `max_retries`, leave a job that is queued for ever. With one throw
  fewer the deletion can be lost in the same way: its first claim gives up its last retry to wait
  for a live export, and the route's mark lands after the release. TLC finds both with two retries
  and three, or two, throws.

*Keys*

- `StaleDeletionCommand`: the deletion command is sealed under a key version read before the batch
  (`deletion-jobs.ts:158`), and the batch does not carry the write fence; a rotation in between
  destroys that key and the command does not open (`docs/deploy/user-dek-rotation.md:66` expects
  the deletion to go on).
- `UnsettledStep`: `user-dek-rotation.md:38` says that a failing step blocks the operation. Only
  the look for running work is awaited inside the `try`: the other promises are returned from it,
  so their rejection passes the handler by. The lease then has to run out, and stage `blocked` is
  never written.
- `RotationEnds` holds for one operator call at a time: two can hand a lease to and fro.
- `ErasedDuringCampaign`: an item of an account whose key is erased between deletion's two steps
  can stay blocked, and retrying cannot resolve it (`root-kek-rotation.md:42`).
- `RefusedRollback`: the rollback of `root-kek-rotation.md:76` is refused while the forward
  campaign is open, and that campaign can be stepped only under the keyring just replaced.
- `LateRewrap`: an invocation that lost its lease to another, whose campaign has completed, still
  rewraps a key after the rollback campaign moved it back. `WriteKey` asks only for the wrapper
  that was read, and within one rollout that is the old one again.
- An impatient operator, and a key minted under the old root after the campaign's read, leave a
  campaign `blocked` with no blocked item. `MCRewrapProgress` is patient for that reason.

*Pattern*

- `DeletedReplacement`: `deleteCurrentPattern` reads the document, a replacement is published, and
  the batch deletes by the old id and closes the claim. The new document stays under a deleted
  claim, against "permanently erased" (`pattern-lifecycle.ts:125`). `DocumentMatchesClaim` is
  stated with that exception.
- `failExhaustedPatternJob` releases the claim of a first opening only: an exhausted replacement
  keeps `pending_regeneration_id`, and later requests are answered with the failed generation. Nor
  does its release depend on the stage having failed, so that a takeover that advanced in between
  goes on without its claim, to be cancelled as stale.
- The comment on twelve claims (`pattern-sweep.ts:16`) does not count that a parked pass takes two
  claims for a provider call.
- The sweep, enqueue and reconcile mark a message as dispatched after the send, perhaps on a row
  that was claimed and requeued meanwhile. A revocation between the read of the grant and the
  batch of a reservation lets one be made under the revoked consent; the next gate cancels it.

## What is proved

Forty-one theorems in eight modules, for every number of jobs, attempts, tokens, rows, accounts,
roots, exports, generations and invocations, every lease length, extension, delay, lag and rollout, and
every fault bound. Assumptions on the constants are those of the `ASSUME`s of the modules:
`NoToken` is no token, `NoClaim` is no claim, a lease and its extension are positive, attempts are
numbered from 1, a root is not the name of a stage, and so on.

*The table* (`CodexProviderJobs_proofs`). `JobsInv` is types, `TokenDiscipline`
and `UploadsAreFenced`. `TokenDiscipline` alone is not inductive in the
plain form "the token belongs to the job": it is the part "in exactly the states that need one"
that keeps a released or cancelled row from settling later. From it follow

- `JobsInvariant`, `TypeCorrect`, `TokensDisciplined`, `UploadsFenced`;
- `LiveLeasesKept` (`NoSeizureOfLiveLease`): the sampled instant is never later than
  the clock, so a lease that looks expired is;
- `VerdictsFinal` (`TerminalIsFinal`): every rewriting statement asks for `pending` or `leased`;
- `Refinement` (`ImplementsExchange`): each operation is a step of the exchange or a
  stutter, argued by what it makes of the phase, of the holder and of the token of the answer.

*The composition* (`CodexControlPlane_proofs`). `PlaneInv` adds to `JobsInv` that a call works on
a job, with a token where its step needs one, and with an instant that is still in
`Sampled`. The last is what the clock assumption gives, and it is what makes
every step of the plane an operation of the table:

- `PlaneInvariant`, `PlaneTypeCorrect`;
- `TableOperated` (`OperatesTheTable`): hence every theorem on the table holds of the plane;
- `RequestsPrecedeJobs` (`RequestPrecedesJob`). The invariant behind it,
  `RequestInv`, says for each step of a call what it presupposes: an execution holds the owner's
  live claim; a purge looked at an owner that is settled for good; before it drops anything the
  purge's job has a verdict or is gone. An execution and a purge therefore exclude each other,
  and no one else opens a job. The purge recognises a verdict by `completed_at`, which is
  why `Dated` (only verdicts are dated) is part of it.

Each preservation proof has one step per action; what the actions have in common
(`CallGoesOn`, `CallBegins`, `CallEnds`, `OneCallMoves`, `ClaimantMoves`) is stated once.

*What the plane spends, stores and wakes* (`CodexStores_proofs`).

- `SpendBounded` (`SpendIsBounded`), with no further hypothesis. What has to be counted is charged
  calls that have not replied yet (`Replying`) beside the answers handed out: a charge adds one to
  the first, a reply moves one from the first to the second, a death loses one. The cardinalities
  are those of `FiniteSetTheorems`.
- `ObjectsInventoried` (`ObjectsAreInventoried`) and `AdoptableResponsesExist`
  (`AdoptableResponseExists`), by `StoreInv`: for every call of the complete route from its
  reservation on, what it may still put or commit, and for every call of maintenance, why the upload
  it read is nobody's any more. Two hypotheses, both facts of the code and both needed.
  `AnswersOnce` (`MaxSends = 1`): `runOneCodexJob` posts an answer once and never resends it.
  `UploadsOutlastHandlers` (`UploadExtension > 2 * MaxLag`): a reservation is kept for the five
  minutes of `codex-provider-jobs.ts:185`, a handler runs for seconds, and two lags are what a
  maintenance pass and a handler may each be behind the clock. With `MaxSends = 2` TLC refutes both
  properties: the second copy of an answer cancels the job, or renews its upload, between the
  first copy's reservation and its put.
- `QueuedOwnersReachable` (`QueuedOwnerIsReachable`) and `VerdictsReachOwners`
  (`VerdictReachesOwner`), as long as the plane is `Undisturbed`: no invocation died, no send threw,
  and no pause or freeze has turned anything away (`denied` is empty: no message acknowledged
  under a freeze, no row paused, no check of an entitled owner failed). The rollout may go off and
  on and the account be frozen and thawed any number of times as long as that meets nobody.
  Attempts, tokens, calls, duplicated answers, revocation and closure are free. Neither is inductive,
  because whether an owner is woken depends on what the
  other calls may still do to its job. `LinkInv`: the rows are those of the attempts made, whoever
  works on a row of a live owner finds it, an execution works on the last attempt. `OwnInv`: the
  job of an owner that may run is not withdrawn, since a call that is about to withdraw it has found
  its owner not *entitled* any more (a later attempt, an end, a consent or an account that is gone),
  which is for good, or its lease gone, and then the statement compares a token that the row does
  not have any more. Being current is not for good either way, since a rollout and a rotation give
  it back: a check that failed only for one of these is on record in `denied`. `ReachInv`: a queued owner has a message, somebody who sends
  one, no marker or an open job, or the call that saw the verdict is on its way; and whoever
  marks has its message before it.
- `FirstVerdictsReachOwners` (`VerdictReachesOwner`): on the first attempt the same without deaths
  and throws, whatever the rollout and the rotations do, unless a delivery was acknowledged under a
  freeze, which the property itself excepts. With a pause or a freeze the verdict may find the
  owner's wake-up given up, and what saves it is the repair pass, for which the marker may not be younger than the
  verdict. That is `FirstReached`, and it follows from `FirstOpen`: while the job is open nobody
  clears the marker, for a nudge presupposes a verdict (`Noted`), and a call that may still settle
  the job carries an instant not before the marker. `ClaimInv` says that a claim holds its lease
  until it replies, hence that nobody answers under its token before.

  The hypotheses. `UploadsOutlastAHandler` (`UploadExtension > MaxLag`) and `LeasesOutlastAHandler`
  (`LeaseLength > MaxLag`): five minutes (`codex-provider-jobs.ts:185`) and twenty
  (`codex-provider-contract.ts:7`) against seconds. That there are no faults is needed: `lost_message`
  is a counterexample with a throw, and TLC finds the same one with a death in its place. That
  nothing was turned away is needed for the first two: `cancelled_owner` shows what a failed check
  does to a queued owner, and the observation on two attempts and a pause above is the
  counterexample of `VerdictReachesOwner`. That no delivery was acknowledged under a freeze is
  needed for the third: `FrozenOwner`.

*The rotation* (`CryptoRotation_proofs`). `RowsAreReadable` is not inductive: that a chunk or a
writer leaves a readable row depends on which keys each may have in hand. `Inv` adds, for every
operation, what its stage says of its candidate, its previous key and its lease (`OpOK`); for
every row, that its key is live or the running rotation's (`RowsOK`); for every writer, that a
sealed row can be committed only under the fence it was sealed for (`WritersOK`); and for every
call, what it still knows if nothing moved since its read (`CallOK`, guarded by `fresh`). Then

- `RowsStayReadable`, `WalkNeverReopens`, `FenceMatchesRotation`, `SettlementIsFinal`,
  `RekeyingIsLossless`, `TypeCorrect`.

*The campaigns* (`RootRewrap_proofs`). `WrappersOpen` follows from where a new wrapper can come
from (`NewWrappers`: the active root of a keyring somebody serves under), from the older keyring's
active root being in the ring (`RingsOK`), and from what the runbook's checks established staying
true until the retirement (`CheckedOK`), for which nobody may work under another keyring
(`ServingStep`: a rollout ends without stragglers). The exclusion of rotations and campaigns needs
that a lease is held on open campaigns only (`LeaseOK`) and that campaigns are numbered in order
(`CreationOK`). Then

- `WrappersStayOpen`, `CampaignsExcludeRotations`, `TypeCorrect`.

*The Pattern* (`PatternStages_proofs`). `Inv` says what a delivery in flight may still believe:
while it holds the claim token, the row it read is the row that is stored (`ExecsOK`), and what
the sweep and the deletion hold is of the past (`SweepOK`, `EraseOK`). `Core` relates claim,
stages, jobs and document: live generations hold the claim, one opening succeeded exactly when the
claim is consumed. Every action is one of five kinds, `Quiet`, `Reservation`, `Publication`,
`Ending`, `Cancelling`, and `Core` is preserved by kind, so that a new action needs only its kind.
`CallsAreBounded` is a cardinality, and what bounds it is an injection: a draft that was asked for,
or that a delivery has in hand, is the only one of its attempt (`AccountsOK`), so drafts are no
more than attempts, and attempts are no more than their ceilings (`CeilingsAddUp`). A delivery
computes its draft from the row it read; `HandOK` says that one which still owns the stage
generation has read the row that is stored. Then

- `LiveGenerationsHoldTheClaim`, `ReservationsAreLive`, `JobsAndStagesAgree`, `OneOpening`,
  `DocumentsMatchTheClaim`, `PublicationsAreAuthorized`, `ClaimsMoveLegally`, `CallsBounded`,
  `TypeCorrect`.

*The privacy workflows* (`PrivacyWorkflows_proofs`). A call that lost its claim goes on with the
next statement of its workflow, so the invariant has to say of every call, not only of the one
that holds the claim, what it has in memory and what it may still do. `StepOK` gives for each step
the checkpoints a call can have there, and that whoever got past the rows or the keys finds them
gone. `TokensDiffer` and `AttemptOK`: attempts are tokens. `OwnerOK`: the recorded checkpoint is not
ahead of the one in its owner's memory, which is why the owner's write moves it forward. `KeyOK`:
the attempt that made an export ready has no publication left to do, so that a store on its way is
of another attempt, and the compare-and-set on the etag refuses it. `ObjectOK`: while the account is
open, objects are removed for failed or elapsed exports only. `AccountOK` and `AnsweredOK` relate
the account, its data, the requests, jobs and objects. `LateOK` is about what outlives the fence: an
export still on its way to the bucket belongs to an invocation younger than the fence is old, and
its key is among those collected after the account was closed, hence on the manifest. The steps
are proved in two passes: first what any step can make of one job, request, object, checkpoint or call (`JobMoves`, `RequestMoves`,
`ObjectMoves`, `DeletionMoves`, `CallMoves`, `Entries`), then each part of the invariant from those.
Then

- `TypeCorrect`, `ServedExports` (`ReadyIsServed`);
- `CheckpointsNeverGoBack` (`CheckpointsAdvance`), from `OwnerOK`;
- `ImplementsErasure` (`KeepsErasurePromise`): publication is the one step that adds to what can
  be read (`Withdrawals`, `Publication`), the reservation of the deletion closes the account, and
  its last statement finds rows, keys and exports gone;
- `LateObjectsListed` (`LateObjectsAreListed`), from `LateOK` and `CallLife < FenceTtl`.

*The wake-up of a privacy job* (`PrivacyWaking_proofs`). A job that is queued and marked is
invisible to the outbox lane, so that a copy of its message has to be on its way. The danger is a
marker that lands late: the route reserves and sends, a consumer claims and releases the job, and
only then does the route mark it. What saves the job is the copy that the release has posted, if
that one still has a retry when it is due. The invariant `WakerOK` therefore weighs retries
against time: at the age `a` of a route, a copy that is due after the delay `d` has used retries
worth at most `a + d` of delay, beside one for each fault (`WindowOK`). It says that no claim is lost while
the route is at work, so that no consumer gives its message back without delay (`NothingLost`, for
which `CommandOK` has the keys of a deletion go with its checkpoint, and its consumer mark the
request), and what the outbox lane knows of the row that it read (`RecoveryOK`). An
action is, for one job, one of ten events (`Events`), and for one call one of eight moves
(`CarrierMoves`); the parts of `WakerOK` are preserved by event and move. Then

- `QueuedJobsWake` (`QueuedJobHasWaker`), under two hypotheses. `CallsFitLease` (`CallLife <
  Lease`): a route ends in seconds, a claim lasts five minutes (`db/privacy-jobs.ts:19`).
  `RetriesOutlastFaults` (`CallLife + RetryDelay * (MaxDeaths + MaxThrows) < RetryDelay *
  MaxRetries`): with `max_retries = 3` and a delay of a minute the theorem covers two faults in all beside
  a route of less than a minute. The second hypothesis is needed: as many faults as retries can
  lose the wake-up (the last observation on *Privacy* above). The instance of `privacy_takeover` lies on
  the boundary of both hypotheses, where TLC finds the invariant true as well. What a job may count
  on is stated for one that `Awaits`: queued, of an account that is open for it, and not `turned`
  away; a fence that comes and goes takes nothing from it until a message of it arrives
  (`HistoryMoves`).

Each inductive invariant was model-checked on the instance of its run before it was proved.

Every safety invariant and every action property of the passing runs is stated by a theorem, the
two of the owner's wake-up for the situations named above. *Only model-checked* are the
liveness property of `privacy_progress` and what the further configurations check.

*Out of the prover's reach*: liveness under fairness (`DeletionCompletes`, `ExportsAreAnswered` and those of
the further configurations), `ENABLED`, induction over recursive definitions. No module with a
theorem uses recursion.

## Disagreements between code and text

Three runs end in a counterexample, each of a sentence the repository says of itself.

1. `cancelled_owner`. The design
   (`docs/superpowers/specs/2026-08-27-codex-daily-pattern-design.md:350`) wants the Daily owner
   transitioned or nudged when rollout-off cancels its provider job. The claim route cancels
   the job and leaves the owner; when the rollout comes back before a delivery has paused the row,
   the owner is parked on a cancelled job, its marker set, and neither the sweep nor the repair
   selects it.
2. `lost_message`. The nudge's comment (`codex-provider-domain.ts:303`) says that a failed send
   leaves `dispatched_at` NULL, so that a lost message is only a delay. Between the clear and the
   send, another sweep's mark may fill the NULL, and its own message may have been consumed
   before.
3. `resumed_row`. A resumed row is to be back in the undispatched lane
   (`db/generation.ts:1286`). The nudge's mark does not repeat the pause condition that
   `markDispatched` has, so that a row paused between the nudge's send and mark is resumed with
   a marker.

## What is not modelled

- *Pattern owners* in the Codex control plane (the second scope of the routes, its budget, and its
  halves of the repair and purge statements). `PatternStages` parks and resumes without the
  provider-job table.
- *Authentication*, hashes, encryption envelopes and JSON schemas: data the
  properties do not tell apart. That a token is compared as a hash is abstracted to the token.
- *Real leases and delays of the Daily claim*, reissue, replacement, invalidation: planned.
- *More than one UTC day* of the budget, and more than one reader: jobs of different readers meet
  only in the order of the claim's candidate list and in the shared ceiling.
- *Calls slower than `MaxLag`* (control plane) or `CallLife` (privacy), clocks that disagree or go
  backwards. The key modules bound no call: a step may outlive any lease. The Pattern has no clock
  at all.
- *Privacy*: the replay ledger's intent and receipt, artifacts other than exports, the download route.
- *Keys*: bytes, wrappers and audit events; `rotateUserDek`, which only tests call.
- *Pattern*: chart correction, ontology recall, artifacts in R2 and their retention, dispatch
  markers, the freeze of an account by a rotation, the operator's reconcile as a step of its own (it only sends);
  `claimStage`'s batch and re-read, and the reads of eligibility, are one step each.
- The remaining components, with the reason for each in `PROJECT.json`. A few of them are single
  guarded statements whose only property would restate the guard; the engines and validators are
  pure functions over rich data, in generated tables, and make up most of the lines of the
  repository.

## Plan

In order; each module in the form of those above (constants with
named assumptions, one action per operation, invariants as named conjuncts).

1. **`DailyReading`**: `generation.ts` in full: claim leases with instants, `available_at`,
   reissue, replacement, retraction and successor, several readings of one reader, the scheduler's
   cursor. It refines `DailyOwner`'s abstraction of a lost claim. Properties: one live current
   reading per local day, a late execution never publishes over its successor, attempts bounded;
   under weak fairness of the crons and of delivery, every reading is settled.
   Runs: two readings, two claims, clock to 5.
2. **The Pattern owner** in the control plane: `PatternStages`' provider calls as rows of the
   provider-job table, with the second budget.
3. A theorem on the owner's wake-up under faults: which of them the sweep and the repair make good.
   `QueuedOwnersReachable` has none, and the counterexample of `lost_message` needs one.
4. Small modules: content release activation, the calculation budget, consent revisions, the
   ontology pipeline; pure ranking functions against reference definitions.

## Running it

```
tlc -workers 2 -config MCPlaneFaults.cfg MCCodexControlPlane.tla
tlapm CodexControlPlane_proofs.tla
```

`PROJECT.json` lists the runs with their module, configuration and properties, the mutants, and
for every definition the lines of the source it stands for.
