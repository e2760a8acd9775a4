# A TLA+ model of SentryGate-AI

SentryGate puts a policy gate between AI agents and infrastructure. An agent's
proposal is decided at ingress, recorded, and, if allowed, executed by a
Temporal workflow that verifies the ingress decision, claims it, re-validates
the proposal against the worker's policy, fences the claim and calls the
infrastructure adapter, then reconciles, compensates and records what happened.

This directory models what happens to a request from the API key to the last
audit row: who may reach the adapter, how often, and whether what the responses
and the stores say is true.

## Inventory

| Part | State it keeps | Operations | Interacts with | Correct when |
| --- | --- | --- | --- | --- |
| Saga workflow (`workflows/saga.go`) | its position in the history, token, outcome | one run per start, cancelled, terminated or reset by operators | every activity below, through Temporal | each exit, error path and replay leaves claim and records in agreement with the target; it ends |
| Infrastructure activities (`workflows/activities.go`) | none | `DispatchConfig`, `ReconcileDispatch`, `RevertStateCompensation` | claim store, adapter | the adapter is called only past the fence |
| Decision and audit activities (`workflows/decisions.go`, `audit.go`) | none | verify, claim, evaluate, advance, record | stores, policy | safe to retry |
| Claim store (`internal/audit/claims.go`, `internal/decision/claim.go`) | `execution_claims` | `ClaimExecution`, `AdvanceClaim`, `GetClaim` | runs of one decision, concurrently | a fenced decision is used for good; outcomes are final |
| Record stores (`internal/audit/sqlite.go`) | `decision_records`, `audit_records` | append, list | proxy, worker | idempotent appends, listings in order |
| Simulated adapter (`workflows/simulated.go`) | effects per key, in memory | `Dispatch`, `Reconcile`, `Compensate` | activities, a late dispatch racing a reconciliation | a key takes effect once; FAILURE means it never will |
| Decision logic (`internal/decision`) | none | `Evaluate`, `Revalidate`, `VerifyIngress` | policy snapshot | the verdict the document asks for |
| Policy (`internal/policy`) | active snapshot, last error, load time | `Parse`, `Reload`, `Status`, `Close` | file, ticker, HTTP | only accepted policies are active; the last file takes effect |
| Ingress (`cmd/sentrygate`, `proxy`) | evaluation slots, pooled envelopes, a handler per request | `intercept`, listings | keys, policy, stores, Temporal; requests share slots, envelopes and workflow IDs | an ALLOW is started only when recorded; answers and records are true of their own request; slots and envelopes come back |
| Agent keys (`internal/auth`) | key table | `Resolve` | ingress | one agent per key |

The hard behaviours are those of Temporal: an activity may run, commit and be
reported lost; be given up on and commit later; outlive the run that scheduled
it; and a run may be replayed, reset under a new run ID with the old token in
its history, cancelled or terminated at any point. `PROJECT.json` lists the
hazards at their lines. At ingress they are those of a concurrent server: the
context of a request may end at any moment, the policy changes under it, a
store or Temporal commits and reports a failure, the process dies.

## Modules

| Module | Models |
| --- | --- |
| `Contracts` | `shared/contracts`: states, verdicts, outcomes, phases, `Checked` |
| `Evaluation` | `internal/decision`: `Evaluate`, `Revalidate`, `RequestHash`, `VerifyIngress`, over a snapshot |
| `ClaimStore` | the claim table and its transitions; `StoreSpec` for arbitrary callers |
| `SimulatedAdapter` | what the adapter remembers and answers, as functions |
| `ExecutionOnce` | abstract: a decision is taken by one executor, for good, and called once |
| `Saga` | the workflow, its activities and Temporal, over the four above |
| `Policy` | which documents are accepted, and their snapshot |
| `PolicyLoader` | the reload loop, status, shutdown, and what the active policy decides |
| `Keyring` | `internal/auth`: accepted key configurations, and whom a key stands for |
| `DecisionRecords` | the table `decision_records` and its operations, as functions of its rows |
| `Ingress` | `POST /v1/intercept` for concurrent requests, over the three above and `Evaluation`, up to the runs it starts |
| `AuditLog` | the table `audit_records`: what runs append, and the listing by the text of a time |
| `MCSaga`, `MCPolicyLoader`, `MCIngress` | the small instances for TLC |
| `ClaimStoreProofs`, `PolicyLoaderProofs`, `IngressProofs` | theorems about the module of that name |
| `SagaProofs`, `SagaFlowProofs`, `SagaRunsProofs`, `SagaOutcomeProofs`, `SagaClaimProofs` | theorems about `Saga`, each module on top of the one before |

Operators introduced by "Wrong variant" are not used by any specification: each
is a plausible mistake in the operator that follows it and shows that the
property it is listed with in `PROJECT.json` would notice.

### How `Saga` corresponds to the code

`loc[r].pc` names the activity or timer run `r` waits for. Workflow code between
two activities is deterministic and shares nothing, so it is part of the step
that ends the first of them: the `After...` operators are the workflow's control
flow, and `After` is what it does with a result that is only "ok" or an error.
Locals of the Go function that outlive a step are fields of `loc` (`token`,
`verdict`, `outcome`, `auditErr`, `exit`, the error it will return after the
deferred release, and of the reconciliation loop `round`, `wait` and
`elapsed`). Time passes in the loop's timers and, with the event "delay", in its
activities (`RoundLasts`); the three constants of the schedule are parameters.

An attempt of an activity has its effect in `TakesEffect` and reaches it in one
of three ways: it completes (`Completes`), it fails with or without the effect
(`AttemptFails`), or it is given up on (`AttemptTimesOut`, `Cancel`,
`Terminate`, `Reset`), stays in `late`, and takes effect at any later moment or
never (`LateAttempt`). `RetryOrFail` is the retry policy: `MaximumAttempts`
attempts for bookkeeping, one for compensation. `ClaimExecution`'s INSERT and
its read are two steps. `DispatchConfig` is split into start, fence, read of a
refused claim, adapter call and return, because its run may lose interest
between any two of them and it then goes on by itself.

`past[r]` holds the states a run can be reset to. A reset starts a new run with
the workflow ID, the input and the history, token included, of the old one,
which is terminated; a reset to the task that schedules the claim draws a new
token. `WorkerRestart` empties the adapter's memory and loses running
activities. `calls`, `mutations` and `compensations` are history variables; the
last two also exist in the simulated adapter.

Kept simple: record contents other than verdict and phase, timestamps, log
texts. Guards against an activity without store or adapter are left out since
`cmd/worker` always configures them, and those against an empty decision ID or
token cannot be reached past the verification.

### How `PolicyLoader` corresponds to the code

The loop reads the file in one step and decides in the next; everything after
the read happens under `mu`, so it is one step. `Status` loads the pointer
before it locks, in two steps. A digest is the document itself. `recordError`
keeps the rejected content, which stands for both error text and key.

### How `Ingress` corresponds to the code

`call[c]` is the handler of request `c`: `at` is the blocking call it is in,
the other fields are its locals. A step reaches from one blocking call to the
next. The handler blocks in the body (`Decode`), for a slot (`TakeSlot` or, when
its context has ended, `GiveUp`; Go's `select` takes either), is scheduled away
while it holds the slot (`EvaluateThrottled`), in the decision store
(`RecordDecision`, `RecordFails`) and in the start of the workflow
(`StartWorkflow`, `StartFails`). `Responds` ends it, deferred release of the
envelope included. `gone` says that the context has ended, which the store and
the Temporal client notice at once when they are called afterwards, and at any
moment, before or after their effect, when it happens during the call.

An envelope is an object with an identity: whatever the handler reads later
(hash, record, input of the workflow), it reads from the object, so a reuse
that comes too early would show. `Envelopes` are as many as there are requests,
since the pool makes new ones on demand. `Restart` is a crash of the process: what it holds
in memory is gone, `capacity` is taken from the policy of that moment, and
handlers under way never answer.

Workflows are as much as a client of the proxy sees of them: a run is open,
writes its re-validation record (`RunDecides`, with `VerifyIngress` and
`Revalidate` of the module `Saga` uses), closes at any point. A run is named
after the request that started it. `Saga` takes over from there: it assumes
nothing of the request it is given, forged ones included, and `StartsAreBacked`
says that what the proxy starts is what `Saga` accepts.

### How `AuditLog` corresponds to the code

One run at a time, as Temporal allows for one workflow ID, records phases in an
order the workflow has, each at a later workflow time; an attempt may fail
before or after the insertion and be repeated with the same row. A time has
two fraction digits, and its text is the sequence of characters of
`formatTime` (the fixed-width part is one of them), numbered in their order.
Attempts that outlive their run would disturb the order in another way and are
left out.

## Runs

Bounds are named in the cfg files. Five targets cover every behaviour of the
simulated adapter; all runs of a behaviour are about one decision
(`OneDecision`), since decisions share nothing but the policy. Two runs are
what it takes to contend for a decision; the proofs are for any number. The runs
are split by kind of disturbance (`Events`): each shows its properties under
the disturbances that threaten them.

| Run | Events and bounds | Shows |
| --- | --- | --- |
| `claim_store` | 2 decisions, 8 owners, any call at any time | `FencedForGood`, `ConfirmedIsFinal`, `NeverStolen` |
| `saga_faults` | faults, reloads; 2 runs, 2 workflow IDs, altered requests, 2 attempts, 2 rounds | `DispatchBacked`, `CompleteRowIsTrue`, `CompensatedOnce`, `RefusedDoesNotHold` |
| `saga_late` | faults, timeouts; 2 runs, 1 late attempt | `FailedIsTrue`, `CompensatesPartialOnly`, `ConfirmedIsSettled`, `FenceFailMeansNotDispatched` |
| `saga_operators` | cancel, terminate, reset; 2 runs, 2 late attempts, 1 round | `FenceInv`, `AtMostOneDispatch`, `UnfencedNotCalled`, `FenceRowMeansNotCalled`, `ExecutesOnce`, `UsesStore` |
| `saga_closes` | faults, timeouts, restarts, cancel, delays; 1 run, 3 targets, 2 attempts; waits 1, 2, 2, ... in a window of 3 | `CompletedIsTrue`, `ReconcilesOnSchedule`; `RunsClose`, under fairness |
| `policy_reload` | 4 contents and no file, 3 edits, 1 client | `OnlyGoodPolicies`, `FileTakesEffect`, `StatusSettles`, `CloseTerminates`, `ClosedForGood` |
| `policy_verdicts` | 240 documents, good and bad, one edit | `VerdictMatchesDocument`, `TighteningOnlyDenies` |
| `ingress` | 2 requests, 5 bodies (2 proposals under one ID), 3 presented keys, 5 key configurations, 2 policies with 1 and 2 slots, 2 envelopes | `StartsAreBacked`, `AnswersAreTrue`, `RecordsAreOfTheRequest`, `IdentityIsTheKeys`, `SlotsAreAccounted`, `EnvelopesAreExclusive`; `EveryCallIsAnswered`, under fairness |

Two attempts stand for three: what matters is that an attempt is repeated after
an effect. The schedule of `saga_closes` is the code's in small: the wait
doubles once and reaches its cap, one more wait would fit exactly or would
not, depending on how long the rounds took. Two requests are what it takes to
share a slot, an envelope or a workflow ID; with one slot the second has to
wait, with two it need not.
Deadlock is not checked in the saga, loader and ingress runs because the system
does stop: when every run is closed, when the loop has exited, when every
request is answered.

Fairness. `Saga!FairSpec`: Temporal keeps scheduling what an open run waits for
and a live worker works it off (weak fairness of `WorkflowStep` and
`DispatchStep` per run); nothing is assumed of starts, disturbances and late
attempts. `PolicyLoader!FairSpec`: the ticker fires and goroutines are
scheduled (weak fairness); Go's `select` chooses at random among ready cases,
so the stop case is taken eventually although ticks keep coming (strong
fairness of `LoopStops`). `Ingress!FairSpec`: a handler's goroutine is scheduled
and every call it blocks in returns, the store's after its busy timeout and
Temporal's after the RPC timeout at the latest (weak fairness of `HandlerStep`
per request). That suffices for the slots as well: Go serves the senders that
wait on a channel in their order, and the model has no more waiters than
requests. Nothing is assumed of clients, reloads, restarts and runs.

### Where the code and its documents disagree

Each of these runs checks what a document or comment says and finds it violated;
`PROJECT.json` quotes the lines.

| Run | What happens |
| --- | --- |
| `compensated_twice` | a reset past a partial FAILURE compensates again |
| `claim_kept` | cancelled while claiming, a run releases before its claim commits and keeps the decision |
| `which_ran` | a request answered 409 or 502 finds the re-validation record of another request with the same hash, which the documents take as a sign that it ran |
| `audit_order` | `GET /v1/audit/{proposal_id}` lists a row of `...00.1Z` after a later one of `...00.11Z`: the times are compared as texts, and their fractions are not of one width |

None of them lets a decision reach the adapter twice. Known limits that the
models also have and that no run of its own shows:

- After a worker restart the simulated adapter reports FAILURE for a change it
  made (`workflows/simulated.go:22-24` says so), so `FailedIsTrue` is checked
  and proved without restarts.
- A claim attempt that outlives its timeout may arrive after its run was
  refused and ended, and hold the decision for it; `RefusedDoesNotHold` is
  checked and proved without such timeouts.
- A run cancelled after it scheduled `DispatchConfig` and before the activity
  fenced ends with `DISPATCH_OUTCOME_UNKNOWN`, whose comment
  (`shared/contracts/outcome.go:80-82`) says that the claim is left in
  RECONCILIATION_REQUIRED; it is left CLAIMED, as `ARCHITECTURE.md:141`
  describes.
- An `EXECUTION_FENCE` row with FAIL "means the change was not dispatched"
  (`INTEGRATION.md:23`). That is checked and proved without
  resets (`FenceFailMeansNotDispatched`); a reset run that is refused the fence says
  so of itself only, the original run may have dispatched
  (`FenceRowMeansNotCalled`).
- One answer of `GET /v1/policy` may pair the digest of a policy with the load
  time of the next, because `Status` loads the snapshot before it locks; later
  answers are right again (`StatusSettles`).

## Proofs

Every safety property of a passing run is also a theorem: for any sets of runs,
requests, decisions, keys, policies and documents, any limits, and, unless it
says otherwise, with all disturbances at once. The proofs of `Saga` build on
each other:

    ClaimStoreProofs <- SagaProofs <- SagaFlowProofs <- SagaRunsProofs <- SagaOutcomeProofs <- SagaClaimProofs

| Module | Inductive invariant | Theorems, and the property each states |
| --- | --- | --- |
| `ClaimStoreProofs` | `ClaimsTypeOK` | `StoreTypeCorrect`, `StoreFencesForGood` (`FencedForGood`), `StoreConfirmsForGood` (`ConfirmedIsFinal`), `StoreNeverSteals` (`NeverStolen`), of arbitrary callers |
| `SagaProofs` | `FenceInv` | `FenceCorrect`, `TypeCorrect`, `OneDispatch` (`AtMostOneDispatch`), `UnfencedIsSafe` (`UnfencedNotCalled`), `SagaExecutesOnce` (`ExecutesOnce`) |
| `SagaFlowProofs` | `WindowInv`, `ScheduleInv` | `ReconciliationStaysInWindow`, `ReconciliationKeepsSchedule`, `ReconcilesAsDocumented` (`ReconcilesOnSchedule`) |
| `SagaRunsProofs` | `RunsInv` | `RunsCorrect`, `SagaUsesStore` (`UsesStore`), `SagaFencesForGood`, `SagaConfirmsForGood`, `SagaNeverSteals`, `DispatchIsBacked` (`DispatchBacked`), `FenceRowIsTrue` (`FenceRowMeansNotCalled`), `CompletionIsTrue` (`CompleteRowIsTrue`) |
| `SagaOutcomeProofs` | `OutcomeInv` | `OutcomesAreTrue`, `CompletedIsReal` (`CompletedIsTrue`), `OnlyPartialIsCompensated` (`CompensatesPartialOnly`), `ConfirmedSettles` (`ConfirmedIsSettled`), and without worker restarts `FailedIsReal` (`FailedIsTrue`) |
| `SagaClaimProofs` | `RefusalInv`, `HolderInv`, `FencingInv`, `CompensationInv` | without timeouts `RefusedStaysOut` (`RefusedDoesNotHold`); without resets `FenceFailureIsTrue` (`FenceFailMeansNotDispatched`) and `CompensationIsOnce` (`CompensatedOnce`) |
| `PolicyLoaderProofs` | `LoaderInv` | `PoliciesAreGood` (`OnlyGoodPolicies`), `LoaderStaysClosed` (`ClosedForGood`), `VerdictsMatch` (`VerdictMatchesDocument`), `TighteningIsSafe` (`TighteningOnlyDenies`) |
| `IngressProofs` | `IngressInv` | `IngressCorrect`, `IngressTypeCorrect`, `SlotsNeverLeak` (`SlotsAreAccounted`), `EnvelopesServeOne` (`EnvelopesAreExclusive`), `RunsAreBacked` (`StartsAreBacked`), `ResponsesAreTrue` (`AnswersAreTrue`), `RecordsAreTrue` (`RecordsAreOfTheRequest`), `RecordedAgentHoldsKey` (`IdentityIsTheKeys`) |

### One execution per decision: `SagaProofs`

"At most one call" is not inductive: a second activity might stand between
fence and call. `FenceInv` adds that an activity past the fence belongs to the
claim's owner and has not called (`FenceHeld`), that after the one call the
owner's activity is over (`CallsAreFenced`), so the owner cannot call again;
that runs which have not started have nothing under way (`NewIsIdle`), which a
reset needs; and that a run has drawn its token when it claims (`TokenDrawn`),
so that the owner written is complete. An advance of the claim by anyone keeps a
fenced state fenced with its owner, the control flow operators stay within
`Locs`, and each action preserves the parts it can disturb. `SagaExecutesOnce`
takes the owner of a fenced claim for the executor of `ExecutionOnce`.

### The control flow, and the schedule: `SagaFlowProofs`

The workflow is one long function with early returns. `Leads` says of each
place from where, and after what, a run can come to it, and `Writes` what an
attempt changes in the tables, row by row; both are proved once from the
`After...` operators, and the modules after it argue with them alone. A step of
a run is then one of four things: a run steps along (`RunStep`), something
happens beside it (`Aside`), a run begins (`Begins`, by a start or a reset), or
the adapter is called.

`Waits` does the same for the round, its wait and the time passed. A reset may
take a run back into any round, so the invariants are about every place in
`past` as well. `WindowInv` bounds each wait and the window; `ScheduleInv` says
that round n waits the n-th wait of a doubling sequence and that the sum of the
earlier ones has passed and lies within the window: that a wait is begun only if
it ends within the window is what carries the sum over to the next round.
`ReconciliationKeepsSchedule` is about every sequence that obeys the
recurrence. To say it of `DocumentedWaits`, defined by recursion and a power of
two, `ReconcilesAsDocumented` takes their defining equations as hypotheses,
because the provers do not unfold a recursion.

### Who writes and who reports: `SagaRunsProofs`

What a run may say of itself depends on what it did, and a reset gives its
history to another run. `RunsInv` therefore ties every claim to a run that drew
the claim's token itself (`TokensAreDrawn`, `OwnersAreRuns`): such a run went
through re-validation on its own (`OwnIsBacked`), one with an inherited token
may not have. `StartsFresh` excludes records and late attempts of a run that
has not started. Reports outlive their run as late attempts, so
`FenceRowsAreTrue` and `CompleteRowsAreTrue` speak of the place, of the attempt
on its way and of the row alike. `SagaUsesStore` shows that `Saga` implements
`StoreSpec`, through which the store's action properties hold in the saga.

### What the outcomes say: `SagaOutcomeProofs`

A COMPLETED row is true only if the attempt that wrote it was told the truth,
possibly long before. `OutcomeInv` follows the outcome along its way: what the
adapter remembers is true of the target (`EffectsAreTrue`), hence what a
dispatch or reconciliation reported, wherever it is kept, a history to reset to
included (`RunsAreToldTrue`), hence what attempts on their way may write
(`LateIsTrue`), hence what is written (`MarksAreTrue`). A FAILURE also needs
that no dispatch activity can still change the target (`Settled`): it is over,
or the reconciliation has fenced the key. `FailedIsReal` is about behaviours
without a worker restart, because the simulated adapter then forgets what it
did; `CompletedIsReal` needs no such restriction.

### Claims held and lost: `SagaClaimProofs`

Three properties hold under all disturbances but one, which is a hypothesis of
the theorem, not a simplification: the property fails with it.

- `RefusedStaysOut`, without attempts that outlive their timeout. A claim that
  was given up on then belongs to a run that only ends (`LateClaimsEnd`). With
  timeouts and two late attempts TLC finds a claim of an earlier attempt that
  arrives after the refusal.
- `FenceFailureIsTrue`, without resets. A run holds its claim from the claim
  on, so its fence is never refused (`HolderInv`), and it reports only after
  it gave the claim back. A run reset past its claim has none and may be
  refused while the run it came from dispatched.
- `CompensationIsOnce`, without resets (see `compensated_twice`). One run is
  open per workflow, fences the decision, and no other run past its claim is
  about it (`FencingInv`); a compensation is attempted once, so one that was
  given up on has not taken effect, and is the only one (`CompensationInv`).

### Policy and ingress: `PolicyLoaderProofs`, `IngressProofs`

`LoaderInv` adds to `OnlyGoodPolicies` where the content just read comes from,
and that `Close` returns after the loop's exit. The rest is about `Evaluate`:
`DenyReasonsLemma` says that its list of reasons has every reason that applies,
once, in spite of the concatenation it is built by; with the lemmas on
`Snapshot` this gives the verdict for every document.

`IngressInv` adds to its properties that a handler keeps its request to itself:
its envelope holds the body it decoded, its agent is the key's, and the record
it will write or wrote is true of both and of one policy (`HandlerInv`,
`OutcomeInv`). This rests on `EnvelopesAreExclusive`: otherwise another request
would change what the handler reads. `IsTable` (decision IDs are unique) makes
the row of a decision the record its handler wrote.

### Assumptions

The named assumptions of the modules: bounds and the constants of the
schedule are natural numbers, the first wait is not longer than the longest;
requests name decisions, the ingress records are a function on them, no ID is
empty, `Events` names disturbances; a nil pointer is no snapshot
(`NilAssumption`, `PoliciesAssumption`), a digest stands for one policy (it is
a SHA-256 of the bytes), the requests under way are finitely many
(`CallsAssumption`), which counting slots needs, there is an envelope for each
(the pool makes new ones), and a key configuration is a sequence whose agents have
names (`KeysAssumption`, as the parser demands). TLC evaluates each of them on
the instances.

### Only model-checked

- Liveness: `RunsClose`, `FileTakesEffect`, `StatusSettles`,
  `CloseTerminates`, `EveryCallIsAnswered`. Fairness and ENABLED are outside
  what the prover handles.
- The equations that define 2^n and `DocumentedWaits` by recursion, see above.
- The four disagreements below `Runs`: TLC's counterexamples are the result.

## Not modelled

- The decoders of YAML, JSON and of the key specification: what they refuse is
  one value each (`Malformed`, `Garbage`, an entry with a bad name or key).
- `GET /healthz`, `/readyz` and `/v1/audit` beyond the listing: they only read.
- The case of `intercept` for a verdict that is none of the three, and the
  guards of the stores against records without required fields: no caller
  reaches them.
- Graceful shutdown of the two processes, configuration, telemetry, logging.
- `MemoryStore`, `MemoryAuditStore`, `proxy/clients.go` and `decisiontest`, which
  only tests use, and the agent simulator, which is a client.

## Plan

1. Done: `Contracts`, `Evaluation`, `ClaimStore`, `SimulatedAdapter`, `Saga`
   with `ExecutionOnce` and the reconciliation schedule, `Policy`,
   `PolicyLoader`, `Keyring`, `DecisionRecords`, `Ingress`, `AuditLog`; a theorem
   for every safety property of a passing run.
2. Proofs of action properties that no run states yet: that decision records,
   audit rows and re-validation records are only ever added to
   (`DecisionRecords`, `Saga`), and that an answered request stays answered.
3. A theorem on `AuditLog`: without fractions of different width the listing
   is in insertion order.
4. Weaker hypotheses for `SagaClaimProofs`: `FenceFailMeansNotDispatched` and
   `CompensatedOnce` for runs that no reset took past their claim.
