# A verification project for llm-uncertainty-banking

TLA+ models of the parts of this repository whose correctness depends on
interleavings, failures and restarts, the TLC runs that check them on small
instances, and theorems that TLAPS proves for every instance.

The repository is a Python library for uncertainty-aware banking assistants
(`src/lub`) and a console backend that serves it (`bridge-ui/backend`, FastAPI
on a thread pool). Paths below are relative to the repository's root; `bridge/`
stands for `src/lub/connectors/bridge/`, and `server.py`, `backends.py`,
`routers/`, `state/`, `scale/` are under `bridge-ui/backend/`.

## 1. Inventory

| component | state | operations | what is hard | what makes it correct |
|---|---|---|---|---|
| **audit trail** `state/audit.py`, `routers/audit.py` | deque `_AUDIT`, `_AUDIT_SEQ`, `_AUDIT_LAST_HASH`, lock, one SQLite connection | append, verify (memory, disk), rotate, tamper test, restore at import | threads, swallowed store errors, a transaction that stays open, process death, edits outside the lock | the live window verifies; the stored chain verifies until something is lost; committed rows stay; a restart continues the chain |
| **governed changes** `routers/governance_changes.py` | tables `change_requests` and `active_configs`, lock, one connection | submit, decide, apply, report to the audit chain | concurrent reviewers, a failing commit, lost reports, an edited payload | four eyes, forward moves only, live = replay of the applied changes, a truthful trail |
| **query pipeline** `server.py`, `core/guard.py`, semantic cache of `bridge/memory.py` | idempotency table, cache, overlay of governed intents, operator settings | `/query`, settings, cache switch and flush | check-then-act on the tables, stale overlay, cached decisions, operators changing the rules while a request runs | nobody gets another's answer; firewall, guard and output rules govern every path; the audit says what was served |
| **rate limiter** `bridge/rate_limiter.py` | token buckets | allow, wait, prune, reset | clock read before the lock, prune against consume | never more than burst + rate x time; a wait is long enough |
| **model backend** `backends.py` | failure window, breaker, semaphore, queue counter | respond | breaker read before the queue, late failures | the queue drains, an outage ends, failing calls leave nothing behind |
| **sessions** `bridge/session.py` | sessions in memory or SQLite | start, append, resolve, escalate, expire | get-modify-put without a lock | in memory no lost or doubled turn, closed stays closed |
| **orchestrator** `bridge/orchestrator.py` | metrics | handle a message, its failure paths | the session closes between two steps, audit failures | audit-first, metrics-after |
| **bridge audit trail** `bridge/audit.py` | JSON-lines file, its buffer, a cache | log, close, replay at start | partial writes, a ragged end of an earlier process | what was acknowledged stays in the file; the cache follows the file |
| **Postgres audit store** `scale/audit_postgres.py` | a chain per tenant, a connection shared by threads | append | several processes, one transaction for several threads | one chain per tenant, committed rows stay |
| **Redis cache and limiter** `scale/` | on the Redis server | get, set, allow | window boundary | not modelled |
| **runtime metrics and drift** `state/runtime.py`, `routers/drift.py`, `routers/settings.py` | counters, windows, drift baseline | record, capture and roll the baseline | unlocked read-modify-write | not modelled |
| **bridge model router** `bridge/router.py` | failure counts, cooldowns, weights | pick, record success or failure | counts that outlive a cooldown | not modelled |
| **uncertainty guard** `guard.py` | none between calls | call, gated tool call, batch | second answers, failing tools, swallowed errors | no way through it hands out an answer its policy would not let out |
| **cascades** `orchestration/router.py`, `bridge/complexity_routed.py` | none between calls | walk the tiers, fail over, walk a slice | a router that fails half-way, budgets out of range | a failover never relaxes the bar; the result is a function of the confidences met |
| **uncertainty ledger** `ledger/store.py`, `orchestration/hooks.py` | one SQLite file of several processes | log query, answer, score | retries on a locked database, rolled-back ids, several transactions per answer | stored once or not at all, filed under its own answer |
| **A/B tests, memory, handoffs** `bridge/` | counters, facts, queue of handoffs | assign, record, expire | sequences of calls | not modelled |
| **visibility** `routers/visibility.py` | last run, drafts, a scheduler thread | run, draft, approve, publish | unlocked ids | not modelled |
| other | none that outlives a call | estimators, calibration, reports, adapters, read-only endpoints, frontend | numerics, formatting, I/O | not modelled, see section 9 |

How they interact. All console handlers are plain `def` endpoints: they run on
the server's thread pool and interleave at every point that holds no lock.
`/query` asks the rate limiter, then the cache, then the agents with the model
backend, and appends to the audit trail; governance reports to that trail
through `_chain_append` and writes `active_configs`, which `/query` reads as the
channel firewall and the overlay of governed intents. The orchestrator of the
library composes sessions, the platform and the JSON-lines trail. A pipeline of
the library answers behind a guard, and its post-hook records every answer in
the ledger.

The hazards of this code, each at its line and with the properties that cover
it, are the `hazards` of `PROJECT.json`.

## 2. Modules

| module | what it is | composed with |
|---|---|---|
| `HashChain` | entries, digests, what it is for a set of entries to be a chain (`Intact` is `_audit_chain_break`, and the loop of `audit_verify`) | |
| `AuditLog` | abstract: a table that only grows at its end and is always a dense chain | implemented by `AuditChain` |
| `AuditChain` | the audit trail: append, rotation, tamper test, faults, crash, boot | `HashChain`, `AuditLog` |
| `FourEyes` | abstract: a ledger whose rows move forward by separate hands, and a live configuration that only applying changes | implemented by `GovernedChanges` |
| `GovernedChanges` | submit, decide, apply, commit and its failures, report, crash | `FourEyes` |
| `Guard` | the decision function of `core/guard.py` | used by `QueryPipeline` |
| `QueryPipeline` | `POST /query` and the operators' changes | `Guard` |
| `Pool` | the threads and the clock the next three share | |
| `TokenBucket` | the rate limiter | `Pool` |
| `ModelBackend` | breaker, semaphore and queue in front of the model | `Pool` |
| `Admission` | queue check, limiter and breaker in the order of `/query` | `TokenBucket`, `ModelBackend` |
| `DecisionTrail` | the JSON-lines trail | |
| `Conversation` | a customer turn of the orchestrator over the sessions and the trail (`MCConversation` for its runs) | `DecisionTrail` |
| `TenantChain` | the Postgres chains | `HashChain` |
| `UncertaintyLedger` | the writes of the ledger and their retries, by processes at one SQLite file | |
| `UncertaintyGuard` | the guard, over a pipeline that records its answers | `UncertaintyLedger` |
| `Cascade` | tiered router, failover chain, slices of the tiers | |
| `GuardedAnswers` | guards, ledger and cascades side by side | `UncertaintyGuard`, `Cascade` |
| `MCAuditChain`, `MCGovernedChanges`, `MCQueryPipeline`, `MCTenantChain`, `MCGuardedAnswers` | instances for TLC; the other runs need none | |
| `*Proofs` | theorems, see section 8 | |

Two abstract specifications carry a refinement, `AuditLog` and `FourEyes`, and
the composition `Admission` implements the limiter it composes. The
other components promise invariants, and their properties say so directly.

## 3. Models and code

### 3.1 AuditChain

| model | code (`state/audit.py` unless said otherwise) |
|---|---|
| `window`, `seq`, `head`, `lock` | `_AUDIT`, `_AUDIT_SEQ`, `_AUDIT_LAST_HASH`, `_AUDIT_LOCK` |
| `held` | the `entry` dict of the append in progress: the very object that is also in the deque |
| `disk`, `pending` | rows SQLite has committed, and rows of the open transaction of the one connection |
| `Call`, `Stamp`, `Insert`, `Commit` | `_audit_append`: waiting at `with _AUDIT_LOCK`, 204-219, 225-242, 243 |
| `InsertFails`, `CommitFails`, `CommitRollsBack` | the `except Exception` of 244-247; a failed commit either leaves the transaction open or loses it |
| `Rotate` | `rotate_audit` of `routers/audit.py`: `clear()` without the lock, then the marker like any entry |
| `TestBegin`, `TestTamper`, `TestRestore` | `audit_tamper_test` of `routers/audit.py`, never under the lock |
| `Crash`, `BootResumes`, `BootQuarantines`, `BootGivesUp` | process death, and the import-time `_audit_restore_from_db` with its three outcomes |
| `damage` | history variable: whether the current store lost or mis-stored a row, or a boot went on without restoring it |

Abstractions. A digest is the list of everything it covers (an ideal hash). A
payload is its `query` key, the only one that ever changes. A deque and a table
are sets of entries: the deque is only extended by a larger `seq`, and every
read of the table is `ORDER BY seq`. Calls that have not started are not
counted; the handler that calls `_audit_append` is `Call`. `list(deque)`,
`clear()` and `append()` are atomic, as under CPython's global lock.

### 3.2 GovernedChanges

| model | code (`routers/governance_changes.py`) |
|---|---|
| `saved`, `view` | the two tables as committed, and as the one shared connection reads them |
| `Submit`, `Decide`, `Apply` with `Execute` | `submit_change`, `decide_change`, `apply_change` up to `db.commit()`, under `_LOCK`; guards in the code's order have no effect on the state and are conjuncts |
| `Commit`, `CommitFails` | `db.commit()`; raising leaves the handler, and the transaction open or rolled back |
| `Report` | `_chain_append`, after the commit, outside the lock, best effort |
| `EditPayload` (external) | another SQLite client updates a stored payload, which is what the `config_hash` guard is for |
| `Crash` | process death |

Abstractions. A masked payload is a configuration and its `config_hash` is the
configuration it was taken of. `(domain, name)` is a slot. `applied_at` is the
rank of an apply. Which identities may decide is the constant `Validators` (the
RBAC of the endpoints; everybody when authentication is off). `RealConfigs` are
the bindings the demo-safe floor refuses, empty when the floor is off.

### 3.3 QueryPipeline

A step is what a thread does between two reads of state that others write.

| model | code (`server.py` unless said otherwise) |
|---|---|
| `Receive` | `_idempotency_lookup`, and the replay that returns before everything else |
| `Refuse` | the rate limiter or an input rule turns the request away, audited by `_record_short_circuit` |
| `Miss`, `Hit` | the bypass conditions and `SemanticCache.lookup` (`bridge/memory.py`) |
| `Recall`, `Relay` | the cache-hit path: guard at no risk, firewall, output rules, audit, answer |
| `ReadOverlay`, `FetchOverlay`, `KeepOverlay` | `_governed_intent_policies`: fresh, or read now and kept a step later under the time it was asked |
| `Classify`, `DecideFresh` | `classify_intent` with the overlay; guard, governed policy, firewall, output rules |
| `Evict`, `Remember` | `SemanticCache.store`, which takes no lock; lookups that walk the deque meanwhile may break, and their requests end in a server error without a response or an audit entry |
| `Respond` | audit, answer, table of idempotent responses |
| `SetThreshold`, `ToggleCache`, `ClearCache` | `PUT /settings`, `DELETE /cache` |
| `ApplyAllowList`, `ApplyPolicies` | an apply of the governance loop, as it shows in `active_configs` |
| `permitted`, `lowest` of a request | history: the intents its channel has permitted, and the lowest threshold, since it came in |

Abstractions. A query is what the pipeline finds out about it (topic, intent,
confidence, amount, data-quality verdicts); queries of one topic are
near-duplicates for the cache. An answer is the pair of the customer and the
query it was written for, so that a leak shows. Percentages stand for
confidences and thresholds. The length check and the `popleft` of the eviction
are one step; a flush between the two would make the `popleft` raise. Customer
memory, retrieval and agent handoffs are functions of the request here. The
answer with 429 when the model's queue is full changes nothing here; it is in
`Admission`. `Thresholds` are from 10 to 95 percent, the range the settings
endpoint accepts (`GUARD_THRESHOLD_MIN` and `_MAX`, `server.py` 341-342).

### 3.4 TokenBucket, ModelBackend and Admission

| model | code |
|---|---|
| `ReadClock`, then `Admit`, `Reject`, `Wait`, `Prune` | `allow`, `wait`, `prune` of `bridge/rate_limiter.py`: each reads the clock first and takes the lock after |
| `Filled`, `Elapsed`, `Delay` | `_refill`, `seconds_until_token` |
| `lost`, `promise`, `allowed`, `seen` | history |
| `Consult`, `Canned` | `_ollama_breaker_open` in `OllamaBackend.respond` (`backends.py`) |
| `QueueEnter`, `Acquire`, `Succeed`, `Fail`, `QueueExit` | the queue counter and the semaphore |
| `ReadFailureClock`, `RecordFailure` | `_ollama_record_failure`, clock before lock, after the semaphore was given up |
| `Arrive`, `Pass`, `Refused`, `Spared`, `Ask`, `Answer` | the order in which `/query` runs into them |
| `Janitor` | `wait()` and `prune()`, called from elsewhere |

Tokens are counted in fractions so that rate, cost and burst are integers. The
counters behind `stats()` are left out. `reset()` is for tests and is not part
of the composition; the theorems include it. `prune()` deletes from the
dictionary its generator walks, so its walk ends with a `RuntimeError` after the
first stale bucket: `Prune` reaps one.

### 3.5 DecisionTrail and Conversation

| model | code |
|---|---|
| `disk`, `buffer`, `cut` | the file, line by line; what the file object has not written; whether the first of that is half written |
| `Log`, `LogFails` | `AuditTrail.log_decision` (`bridge/audit.py`): write, flush, fsync; an `OSError` may leave whole lines, a torn one, or one that lacks only its newline |
| `Reopen`, `Loaded` | `close` or process death, and `_load_existing`, which skips lines that do not parse |
| `Receive`, `Load`, `StoreCustomer`, `Dispatch`, `StoreReply` | `handle_message` (`bridge/orchestrator.py`) with `SessionManager.append` as its get and its put (`bridge/session.py`) |
| `LoadFlag`, `StoreFlag`, `Close` | `resolve`, `escalate`, `expire_idle` |
| `Escalated` | `classify_escalation` (`bridge/_platform_helpers.py`) and the escalation of a dispatch that failed or raised |
| `Decision`, `Tell` | `_audit_decision_for`, what the customer is told: the escalation goes before the verdict |
| `Label`, `Entry`, `Valid` | `_decision_label`, `_entry_from_result` (`bridge/audit.py`), what is recorded: the verdict goes before the escalation; the labels an `AuditEntry` takes |
| `Audit`, `AuditInvalid`, `AuditFails`, `Count` | `_write_audit`, an entry it cannot make, `OrchestratorAuditError`, `_record_metrics`; a dispatch that raised is finalised as an audited escalation without metrics |
| `backend` | which store: the one in memory hands out the stored object itself, the SQLite one a copy |

The platform's dispatch is its outcome: a guard's verdict, an error or a cached
answer without a verdict, or an exception. The verdict `flag` stands for
`abstain` and `escalate` too, which take the same steps. The clock of the idle
sweep is left out: any open session may be idle. So is a file that was torn
inside a multibyte character: its replay raises, and no process opens the trail
(`_load_existing` decodes the file before it skips a line). `Reopen` stands for
files that decode; what is in them does not depend on it.

### 3.6 TenantChain

| model | code (`scale/audit_postgres.py`) |
|---|---|
| `ReadHead`, `ReadHeadBreaks` | `append` up to its `INSERT`: the tenant's lock, and the `SELECT` of the head, which stands outside the `try`: when it fails the transaction is spoilt and nothing rolls it back |
| `Insert`, `InsertWaits`, `InsertRefused`, `InsertBreaks` | the `INSERT`: it waits for another transaction that holds the key, and fails on a committed one |
| `Commit`, `CommitBreaks`, `Rollback` | `commit()` and the `except` clause |
| `DeadlockBroken`, `Crash` (external in part) | Postgres breaks a circle of waiters, through any number of processes (`Awaits`, `Circle`); process death |
| `open`, `spoilt` | what a connection's transaction has inserted; whether a failed statement has spoilt it |
| `wrecked` of an append | history: a mate on the connection ended the transaction under it |

Postgres is external and modelled from how the code uses it: READ COMMITTED, the
primary key `(tenant_id, seq)`, a transaction that refuses statements once one
has failed, and whose `commit()` then rolls back without an error.

### 3.7 UncertaintyLedger, UncertaintyGuard, Cascade and GuardedAnswers

| model | code |
|---|---|
| `rows`, `lastId`, `open`, `lock` | the SQLite file: what is committed, the AUTOINCREMENT counters, the open transaction of each process, the write lock |
| `Insert`, `Commit`, `Rollback` | a `log_` method in `_tx` (`ledger/store.py`) |
| `Locked`, `CommitBusy`, `WakeUp`, `Breaks` | `_retry_on_transient`: a locked or busy database is tried again after a nap, a limited number of times; any other error raises at once |
| `ModelAnswers`, `HookGoesOn`, `HookEnds` | `HookedPipeline.answer` and `ledger_log_posthook` (`orchestration/hooks.py`): query, answer, scores, each in a transaction of its own; `_safe_fire` keeps an error of the hook to itself |
| `Call`, `Passes`, `LetsThrough`, `RaisePolicy`, `FallsThrough` | `UncertaintyGuard.__call__` (`guard.py`) |
| `AsksAgain` | `_handle_reask`, `_handle_escalate`: one more answer, held against the same threshold |
| `Gated`, `ToolSkipped`, `ToolAnswers`, `ToolFails` | `gated_tool_call` after its first pass |
| `Hands`, `Fails` | what a call comes to, alone or as one prompt of `batch`, which turns a `RuntimeError` into an abstention |
| `AskChain`, `FailOver`, `GiveUp`, `Accepted` | `FailoverChain` (`orchestration/router.py`): its constructor's monotonicity check, and the next router after a transient error |
| `TierPasses`, `TierDeclines`, `NoTierClears` | one turn of the loop of `TieredRouter.answer` |
| `AskScoped`, `Resolve`, `Slice` | `ComplexityRoutedAnswer` and `TierBudget.resolve` (`bridge/complexity_routed.py`) |

Abstractions. A confidence is one of a few levels, on both sides of every
threshold. Prompts and texts are left out; that a result has the answer's text
is `released`, that it has the abstention marker instead is not. `escalate` asks
a stronger pipeline, which is one more answer that may be recorded like any
other. Which process calls its guards how is the constant `Uses`. SQLite is
external: one writer, ids that a rollback gives back, a transaction that a
failed statement leaves open (that is what `_tx` rolls back). Routers keep
nothing between calls and share nothing with the guards, so a cascade is walked
on its own, before the first guarded call. Chains that were built with
`enforce_calibration_monotonicity=False` are left out.

## 4. Runs

| run | question | bounds | outcome |
|---|---|---|---|
| `audit_faults` | what stays true of the window, the store and restarts under every fault | 2 threads, 1 of them running tamper tests, window of 2, 3 entries per life, 2 restarts; 4.2 million states | passes |
| `audit_log` | does the committed table implement `AuditLog`, does every append return | 3 threads, 4 entries per life, 2 restarts, failing commits; 14 thousand states | passes |
| `audit_seam` | does a restart continue the chain, as documented | failing inserts | violated |
| `audit_tamper` | does the tamper test leave the store alone, as documented | no fault at all | violated |
| `governance` | does the workflow implement `FourEyes`; trail and ledger invariants | 2 threads, 3 people (2 validators), 2 changes of 1 slot, 2 configurations, 1 crash, 1 edit, all faults; 1.2 million states | passes |
| `governance_trail` | is every approval on the trail, as documented | failing commits only | violated |
| `query` | what may be released to whom, on the fresh, cached and replayed path, while operators change the rules | 2 threads, 2 customers, 2 requests, 4 queries of 3 topics, 1 change, lifetimes of 1 tick, a cache of 1; 1.8 million states | passes |
| `admission` | how much is admitted, what an outage lets through, does every query leave again | 2 threads, 4 queries, 1 bucket of 2 tokens at 2/3 token per tick, breaker at 2 failures, clock to 2; 150 thousand states | passes |
| `conversation` | audit-first, metrics-after, sessions under crossing turns and closures | 2 threads, 1 session of either store, 2 turns, 2 closures, 2 faults; 4.0 million states up to a renaming of threads | passes |
| `conversation_torn` | does an acknowledged entry always replay, as documented | 1 thread, 2 turns, 2 faults | violated |
| `tenants` | do chains fork, what may happen to an acknowledged row, do appends get stuck | 2 processes of 2 threads, 2 tenants, 4 appends, 1 crash; 116 thousand states | passes |
| `guarded` | is every answer that goes out earned, recorded once and in its place; does a failover keep the bar | 2 processes, 3 guarded calls of one and 1 of the other, 3 levels, a batch of 2, 2 attempts, 1 fault; 4 chains of up to 3 tiers, 5 budgets; 1.8 million states | passes |

Why these bounds are enough for the cases of interest.

- Audit: a window of 2 with 3 entries evicts and reloads less than the whole
  table; 3 entries per life and 2 restarts put a lost row, a kept transaction
  and a reused number in one history.
- Governance: two changes of one slot give every order of upsert and remove and
  a `prev_snapshot` that is not empty; a second validator is needed for an apply
  at all, and the third person submits. The demo-safe floor is off in the runs:
  it only refuses applies; the theorems hold with any floor.
- Query: two requests are a first answer and its cached or replayed repetition,
  or two racing requests; the queries are a loan below and above the reporting
  line (near-duplicates with different decisions), one whose answer an output
  rule blocks, and a crisis. One change at a time reaches every point of both
  requests. Lifetimes of one tick expire and do not expire within the clock.
- Admission: two threads are one that fails late and one that consults; two
  failures open the breaker, and four queries can open it twice. One bucket, for
  buckets share nothing but the lock; the theorems hold for any number.
- Conversation: sessions share nothing, so one is enough, and two turns, two
  closures and two faults give every crossing of two get-modify-puts, and a
  write that fails behind one that failed. The threads are symmetric: no
  definition or property picks one out, and the run checks no liveness.
- Guarded answers: a second process is needed for a locked database and for an
  id that is given out twice; one fault is a crash, an error or a busy commit at
  any point. The three levels lie below the threshold, between it and the gate,
  and above both. `reask`, `flag` and `raise` stand for the policies that take the
  same steps (`escalate`; `passthrough`; `abstain` is `noreask`); the theorems
  are about all of them.
- Tenants: two tenants are needed for two threads of one process to share a
  transaction, two processes for a race on one key, and both twice for a circle
  of waiters.

`CHECK_DEADLOCK FALSE` everywhere: when a bound is reached the modelled system
has nothing left to do, which is no deadlock of the program. That appends of
`TenantChain` never wait for each other for good is the invariant `NeverStuck`.

Every property of a passing run has a mutant: a definition of the model changed
the way a bug could change the code, under which TLC finds the property
violated (`mutants` in `PROJECT.json`, operators marked `Mutant:` in the
modules).

## 5. What the violated runs show

- **`audit_seam`**: `_audit_append` advances the chain head, then inserts. If
  the insert fails, the failure is printed and the next row links to a row that
  does not exist. One failed insert, one good append, one restart: the store is
  quarantined and the chain starts over from genesis, although
  `_audit_restore_from_db` says that a restart continues from the last persisted
  number. Its self-heal clause speaks of "a prior crash/bug"; here the seam is
  made by the module's own handled failure, and a crash alone never makes one
  (`audit_log`, `AppendOnly`).
- **`audit_tamper`**: the tamper test edits the live entry without the lock. An
  append makes its entry visible before it serialises it, so the canary can be
  stored under the original hash; restoring the memory copy does not repair the
  row.
- **`governance_trail`**: a failing `commit()` leaves the approval in the open
  transaction of the shared connection. The next handler's commit persists it,
  and nobody ever reports it to the audit chain.
- **`conversation_torn`**: the ragged end of a file whose process died in a
  failing write takes the first line of the next process. That entry is written,
  synced and acknowledged, and no replay can parse its line. It is in the file
  (`EvidenceOnDisk`), but not in what is loaded from it.

## 6. What else the models say of the text

The models have these behaviours too. No run states them: the properties that
are checked are worded around them.

- Two retries with one idempotency key that overlap both execute, although "a
  network retry never produces a duplicate side effect" (`server.py` 454-456).
- An idempotent replay returns before the firewall (1221-1223), although
  `_channel_firewall_blocks` says that replay cannot bypass it (486-490).
  `FirewallHolds` is about executed requests.
- The cached path does not consult the governed intent policies, which "actually
  ALTER BEHAVIOUR" (345-351). `GuardHolds` and `SafetyFloor` say which path they
  are about.
- The cache answers before anything classifies the query, and decides with the
  intent of the cached question: a crisis message that is a near-duplicate of an
  account question gets the account answer, although safety intents "still
  hard-override to ESCALATE regardless" (`server.py` 336). `SafetyFloor` is about
  queries that were classified.
- A reading of the clock that reaches the bucket late moves `last_refill` back,
  and the same interval refills it twice: the limiter is "Thread-safe" and its
  long-run rate "capped" only up to the time its readings ran backwards.
  `EnvelopeUpToLostTime` is the exact envelope. `prune()` is "safe to call from
  a periodic task" (385), and raises after the first bucket it reaps.
- The semantic cache's "hard cap" is exceeded by as many stores as overlap;
  `TypeOK` of `QueryPipeline` says by how many at most.
- While the breaker is open every thread that was already queued still calls the
  model, one after the other; the comment at `_ollama_breaker_open` speaks of
  "one extra Ollama attempt". `CallsInOutageAreOld` says that nobody else does.
- A dispatch that raised is audited and never counted, although KPIs and trail
  "can never disagree on whether a query happened". `KpisTrailEvidence` is the
  direction that holds. A session that closes between the check and the append
  raises a `ValueError` that leaves `handle_message` unaudited.
- What a customer is told and what is recorded of the turn are two functions. An
  escalated turn with a verdict is told as `escalate` and recorded as `abstain` or
  `flag`, although the two "must agree" (`bridge/orchestrator.py` 150), the told
  decision "Matches the audit-trail vocabulary so dashboards can pivot across both
  data sources" (174-175), and "the audit record cannot disagree with what the
  platform reports" (`bridge/audit.py` 440). What agrees on every turn is whether
  it was escalated, and the decision of one that was not: `AnswersHaveEvidence`
  says that, and that an escalated turn is never recorded as an answer that
  passed.
- A `reask` whose second answer passed has the verdict REASK (`guard.py` 355),
  which is no `AuditDecision` ("never surfaces in audit",
  `tests/bridge/test_audit.py` 184). It is an escalation to
  `classify_escalation`, and its entry is refused: a `ValueError` that
  `_write_audit`, which catches `AuditTrailError`, lets through. The session is
  escalated with the reply in its log, nothing is audited and nobody is answered
  (`AuditInvalid`), although "Only the audit-write failure short-circuits"
  (`bridge/orchestrator.py` 74).
- The SQLite session store loses turns and reopens closed sessions when two
  get-modify-puts overlap: `ClosuresStick`, and the order of a turn's
  messages in `TurnsInLog`, are claimed for the store in memory.
  `resolved` and `escalated` are "mutually exclusive" (`bridge/session.py` 175)
  and may both be set.
- The Postgres store warns that concurrent processes "can fork a tenant chain".
  They cannot: the primary key refuses the second row (`NoForkEver`). What can
  happen is that `append` returns for a row that a mate's rollback on the shared
  connection has taken away (`wrecked` in `AckedIsStored`). A `SELECT` of the head
  that fails leaves the transaction spoilt (`ReadHeadBreaks`): every later append
  of that process raises at its own `SELECT`, until a mate that is past its
  `SELECT` commits or rolls back, or the process restarts. `NeverStuck` is about
  appends under way, which such a failure ends.
- `_handle_reask` retries "up to `max_reask_retries` times", and retries once
  whatever the number. `batch` "never raises", and lets every error but a
  `RuntimeError` through (`Fails`).
- A gated call whose gate lies below the threshold returns the abstention marker
  for an answer between the two, where its docstring says "returns the parametric
  answer directly"; under the policy RAISE an unsure first pass raises before the
  tool is asked.
- A failover forgets what the failed router has spent and seen: `total_cost` and
  `escalation_path` are of the router that answered (`RouteIsReference`). The
  monotonicity check compares the lowest thresholds only, so that a failover
  keeps the bar of the primary's laxest tier and no more
  (`FailoverKeepsTheBar`).
- With two overlapping tamper tests the live window can be left with the canary
  in it for good; `WindowVerifies` is claimed for one tester.

## 7. Fairness

- `audit_log` checks `AppendReturns` under `FairSpec`: weak fairness of each
  step of an append in progress (the thread that holds the lock runs on, nothing
  in the block waits for another thread); strong fairness of `Stamp`, because
  `threading.Lock` promises no order. That a waiter is granted the lock if it
  becomes free again and again is an assumption about the operating system under
  unlimited traffic; what the run shows is that the code never keeps the lock.
  In the instance, where `MaxSeq` bounds the appends, weak fairness is already
  enough. Weak fairness of the boot: an import that has begun finishes.
- `admission` checks `EveryQueryAnswered` under `FairAdmission`: weak fairness
  of each thread that is past the queue check. The pool runs its threads, and a
  call to the model ends by its timeout, so a step is always possible for the
  holder. The semaphore promises no order either; `MaxQueries` bounds the
  arrivals, so that starvation by an endless stream of others is not in scope.

No fairness of calls, arrivals, operators, faults or crashes is assumed. Every
other property is a safety property and is checked without fairness.

## 8. Proofs

All theorems hold for any value of the constants (threads, people, processes,
sizes, rates, faults, bounds) that satisfies the `ASSUME`s of the module they are
about, which TLC evaluates in every run. `AppendOnly` and `LiveWindowVerifies`
assume more, and say so.

**HashChainProofs** are the lemmas on chains that two modules share: what a
chain ends at, that it has a newest row, and that a row that fits behind its end
makes a chain again (`ChainExtends`).

**AuditChainProofs**, in layers, each inductive relative to the one below:

1. `Typed`: types, plus who holds the lock (`Holding`), that a process that is
   down holds nothing (`Down`), and that both parts of the store have a newest
   row. `TypeOK` alone is not inductive: `LastSeq` is a `CHOOSE` that needs a
   newest row, and `Insert` needs `held` to be an entry. Gives `TypeCorrect`.
2. `Numbered`: no stored row has a number the chain has yet to give out, and the
   open transaction lies above the committed rows. Gives `RowsStay`: INSERT OR
   REPLACE never replaces.
3. `Chained`: until the store is damaged, both what is committed and what the
   connection reads are dense chains, and the latter ends where the next entry
   links (`Top`, `TopHash`). Gives `DiskVerifies` and `BootContinues`.
4. `Undamaged`: with commits that stay open as the only fault and no tamper
   test nothing is ever damaged. Gives `AppendOnly`, the refinement of
   `AuditLog`.
5. `LiveWindowVerifies`, beside layers 2 to 4, for at most one tester. Links are
   kept apart from seals, because an edit changes the second only: `Linked` with
   the newest end at the chain head (`Windowed`), the numbers of the store
   finite, positive and unique even when it is damaged (`Stored`, which the
   reload at boot needs), and what the tester remembers of the entry it holds
   (`Tested`).

**GovernedChangesProofs**. A failed commit leaves its statements in the open
transaction, and the next commit saves them with its own, so one committed step
may be many steps of the handlers. `Ahead(old, new)` is the step that
`FourEyes!Advance` allows, as a relation on the two tables; it is reflexive and
transitive, which rests on an applied or rejected row never changing again but
in its payload (`ForwardTransitive`, `AppliedStays`).

1. Each handler takes what the connection reads a step ahead (`SubmitChanges`,
   `DecideChanges`, `ApplyChanges`, each an instance of `Changes`). The guard on
   the stored hash is what makes an apply leave the submitted bytes.
2. `Kept`, inductive: types, separate hands in both tables, and `view` ahead of
   `saved`. A commit then makes a step ahead of what was committed
   (`CommittedStep`). Gives `TypeCorrect` and the refinement `LoopIsGoverned`.
3. `Truthful`, inductive relative to `Kept`: what a thread has yet to report has
   happened in the tables it has changed, in the file once it has committed, and
   a step ahead takes back nothing (`HappenedStays`). Gives
   `TrailTellsTheTruth`.
4. `LedgerExplainsLive`, relative to `Kept`. What a
   replay reads of the tables is the story of their applied rows (`Story`).
   Proposals, decisions and payload edits leave it as it is (`Untouched`), and an
   apply adds its last chapter (`NextChapter`): `applied_at` is later than every
   one before because none exceeds the number of applied rows (`Ranked`), which is
   what makes the invariant inductive.

**QueryPipelineProofs**. The properties are about responses that are out, so
the invariant is about requests under way: a thread's request is `Held` at each
stage of its path, fresh or cached, and a response is `Sincere` when it was made
of such a request; a stored one stays `Sincere`, which is why a replay is. The
conjuncts of `Held`:

1. `Subject`: the answer a request carries was written for its own customer, and
   on the fresh path for its own query. On the cached path this comes from
   `CacheClean`: an entry's scope is the customer its answer was written for.
2. `Verdict`: a decided release kept every rule that applied to it, with the
   threshold and the allow list as they were when it was decided. `GuardHolds`
   needs the ceiling of the slider: the guard caps its effective threshold at 99
   percent (`Effective` in `Guard`), which is below the operator's unless the
   endpoint refuses such a setting. This is the one place where the range of
   `Thresholds` matters.
3. `Present`: the history of a request covers the rules that are in force now, so
   that a change made between its decision and its answer is in it. This is what
   relates `Verdict` to the operators' steps.
4. `Told`: a request that asks for the overlay a lifetime after the policies
   changed sees them as applied. Inductive only with `OverlayHonest`: an overlay
   whose time is later than the last apply holds what that apply set. A slow
   reader can put older policies back, but only under the time it asked.

Gives `ScopesIsolated`, `FirewallGoverns`, `GuardGoverns`, `BlockedStays`,
`AuditTellsTheTruth`, `AppliesReachEveryone` and `SafetyHolds`; with the number
of threads that may be between the length check and the append of a store
(`Room`), `QueryTypeCorrect`.

**AdmissionProofs**, in three parts.

1. The limiter. The envelope alone is not inductive: it says nothing of the
   tokens a bucket still holds. `Paid` says that what a key was admitted and what
   its bucket holds is paid for by the burst and the refill up to its last
   reading, plus the time its readings ran backwards. Pruning a bucket pays for a
   full one because only a full one is stale. Gives `BucketTypeCorrect` and
   `NoKeyOverEnvelope`. `WaitKeepsItsWord` rests on `TwoStepsGiveNoLess`: a refill
   in two steps, be the second reading older than the first, leaves no less. The
   solver is linear; products with an unknown rate go through `Spread` and
   `Grows`. The theorems are about `BucketSpec`, with `wait`, `prune` and `reset`
   at any time.
2. The composition. `LimiterImplemented`: every step of `/query` is one of the
   limiter or leaves its state alone, so `AdmissionSpec` implements `BucketSpec`
   and keeps its invariants (`AdmittedWithinEnvelope`, `AdmittedAfterWaiting`).
3. The model backend. `QueueIsCounted`: the threads in the queue are a finite set
   that each step changes by at most its own thread. `OutageCallsAreOld`: a thread
   that has passed the breaker since it opened would have found it open
   (`Caught`). `OpeningsPaid` is not inductive by itself, since failures that are
   still in the window pay for the next opening: `PaidFor` counts them in, and
   opening empties the window.

**TenantChainProofs**. A row can only be inserted where the committed chain of
its tenant ends, or its number is taken (`Ready`); open rows continue the chain
and belong to one transaction at most (`OpenFits`, `Alone`), because the lock of
the tenant keeps the threads of a process apart (`Apart`) and the key the
processes; an open row is some running call's (`Owned`). Then a commit, of
whatever thread, continues the chain: `NoForkEver`, `CommittedStays`.
`AckedSurvives` needs `Placed`: a call about to commit has its row in the
transaction or the table, or was wrecked. `SomebodyGoesOn`: when every running
call waits, the processes of the waiting threads each await one of them; a
smallest such set is a circle (`SmallestIsCircle`), which is what Postgres
breaks. The theorem does not hold of a model whose deadlocks are pairs of
processes, which is all two processes can make in the run: with three, a circle
through all of them is stuck and no pair is. `Circle` therefore is any set of
processes closed under waiting.

**ConversationProofs**. Bytes are only put behind the end of the file, and that
end is a whole line, which nothing is added to, or a ragged one, which holds no
whole line yet: a file is `Formed`, and a write keeps every entry that lies in
it as a line that ends (`LaidFacts`, `WriteFacts`). `AckedOnDisk` follows for
failed writes of any shape and any number of restarts, and `AuditFirst` with the
threads' side of it: an entry is acknowledged before its turn can get
to the metrics or to an answer, and an entry that was accepted bears out what is
then told (`Bears`, `EntryBears`), which is a fact of the two functions of the
outcome and not of the steps.

The sessions (`Kept`): no two threads answer one turn (`TurnsApart`), and no log
has a turn that its thread has yet to say (`Unsaid`). In memory a thread works on
the stored session itself, so a session only goes on (`Grows`), and each stage of
a message knows what its session's log already holds (`Course`). Gives
`TurnsStayInLog` and `ClosedForGood`: no put takes a flag back, in any step
(`AllGoOn`), because what it stores is the session as it is with something added;
and a turn that is told as escalated has put the flag before it was audited. With
copies instead of the stored object the first half fails, which is what the
mutant of `ClosuresStick` shows and the SQLite store does.

The cache (`CacheInv`): its entries lie in the file in their order, on places
that `Stays`: no later write touches them. The half-written first piece of the
buffer is the one place that does not, because it may still become a whole line.
`CacheTrue` follows, for writes that fail in any shape and for replays. What a
replay loads is a function of the number of lines read, and what it picks
(`Picks`) is shown for every length by looking at the first line where it would
be otherwise (see below). `KpisFollowTrail`: a turn gets to the metrics only
behind its entry in the cache (`KpisInv`), and a restart counts anew.

**GuardedAnswersProofs**, in four parts. `OnlyEarnedAnswers`: the property
looks at results that were handed out; the invariant (`Sound`) holds the result
against the policy also while the call goes on, and leaves the gate out until
the call is over, because between the first pass and the tool a result is
judged and not yet gated. `WrittenOnce` and `FiledRight` rest on `Orderly`: an
open transaction holds the write lock and one row, the caller's next, whose id
is the next of its table (`Transaction`), so that a rollback takes nothing else
with it and a commit adds that row and no other; a running call is the only one
about its answer and has stored nothing that it has still to write (`Own`);
what it files under is a stored row of its own answer (`Referred`); a call that
raised is over (`Over`). `BarIsKept`: every tier that may still be asked wants
as much as some tier of the router that was configured (`Held`), by the
constructor's check for the routers of a chain, and for a slice because its
tiers are the router's own (`SliceHolds`, over `ResolveInside`, which says that a
budget always resolves to a range inside the router). `RoutesAsReferred`: what a
walk holds is what the tiers it went through gave and cost (`WalkMet`), and each
tier adds its own (`MeetsOne`); that `CostOf` is the sum, tier by tier, is
again shown at the least exception (`SumsAgree`, `CostOfNext`).

How recursion is reasoned about. The theorems of the library that do induction
take an operator as a parameter, which the provers at hand cannot instantiate.
Where a proof needs induction over the length of a file or of a chain of tiers it
goes by the least counterexample: the set of lengths for which the fact fails is
a set of naturals, and a set of naturals that is not empty has a least member
(`LeastNat`, from the well-foundedness of the naturals), which the unfolding of
one step refutes. The recursive definitions are functions on `0..n`
(`Loaded`, `CostOf`).

Only model-checked:

- liveness: `AppendReturns` and `EveryQueryAnswered`, which need fairness and
  `ENABLED`;
- and of course the violated properties.

Every invariant and every safety property of steps that a passing run checks is
also stated by a theorem. What the theorems take from the runs is nothing; what
they assume are the `ASSUME`s, and for `AppendOnly` and `LiveWindowVerifies` the
hypotheses in their statements.

## 9. Not modelled

The repository is wide and most of it keeps no state between calls. What is
modelled are the parts of the console backend and the bridge where threads,
processes, failures or restarts meet shared state on the way of a customer's
query, its evidence and the rules that govern it. Left out:

- **with state, but little of it concurrent or hard**: the bridge's model
  router, whose circuit is a simpler variant of the breaker in `backends.py`; the
  Redis cache and limiter, where every operation is one command or script on the
  server and which nothing in the repository wires in; A/B tests, customer
  memory and handoffs; of the ledger, `log_policy`, which writes the same way,
  `update_outcome` and the readers;
- **statistics**: runtime counters, drift windows and baseline. Lost increments
  of unlocked counters show in charts only;
- **feedback and handoff by position** of an audit entry, the streaming endpoint
  and the visibility scheduler: named under the hazards, with no property;
- **pure computations over floating-point numbers**: uncertainty estimators,
  the vote of the swarm, calibration, the classifier's scoring, the score that
  chooses a tier budget;
- **adapters, formatting and I/O**: agents, runtime wrappers, integrations, the
  MCP server, reports, command lines, voice, the frontend, read-only endpoints;
- **authentication**: stateless verification of signed tokens, of which
  `GovernedChanges` takes the result.

Within the modelled components, read-only listings and exports, the masking of
secrets and the wording of entries are left out.
