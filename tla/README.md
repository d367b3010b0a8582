# Verification of the platform's core

TLA+ models of the parts of the platform whose correctness depends on order,
concurrency and failure, the TLC runs that check them on small instances, and
TLAPS proofs of what matters most for every size. Paths are relative to `src/`;
`app/` stands for `src/backend/app/`.

- [Inventory](#inventory): the system's parts and what makes each correct
- [Modules](#modules): which module models which part, and how it corresponds to the code
- [Runs](#runs): what each run checks, its bounds and its fairness
- [Divergences](#divergences): where code and documentation disagree
- [Proofs](#proofs): what is proved, from what, along which argument
- [Not modelled](#not-modelled) and [Plan](#plan)

## Inventory

The backend is a FastAPI application over PostgreSQL and Redis, with one worker
process (`arq`) beside it. Every request runs on a thread with one transaction
of its own at READ COMMITTED, opened and committed or rolled back by
`get_tenant_db` (`app/api/deps.py`). What is shared between requests, the worker
and the command line is therefore: committed rows and row locks, Redis keys and
the job queue, and the outside systems that are called. Nothing is shared in
memory but caches.

| Part | State it keeps | Operations | What makes it correct |
|---|---|---|---|
| Approval queue and executor (`api/v1/approvals.py`, `tools/approval.py`, `tools/write_base.py`) | `approval_request` rows, their locks; messages to the target | propose, approve and execute, reject, compensate, expire | a write is sent once, by an admin who did not propose it; the record agrees with what happened; outcomes are final; an undone write stays undone |
| Rate limiter and daily budget (`core/ratelimit.py`, `core/quota.py`, `api/deps.py`) | two Redis keys for each tenant | check, count, record spending | admissions in any window, spending in a day, and what an outage lets through are bounded |
| Documents (`knowledge/ingest.py`, `knowledge/lifecycle.py`) | `document` rows with hash, version and tombstone | ingest a file, supersede, delete, retrieve | one current revision of a file, one document for a text, edits are followed, nothing drops out |
| Agent run (`agent/graph.py`, `nodes.py`, `limits.py`, `state.py`, `tools/base.py`) | the state of a run, its budget; the `agent_run` row | plan, act, halt, record | ceilings hold whatever the model asks, nothing runs twice or after a halt, the record is complete |
| Ingestion jobs (`api/v1/jobs.py`, `worker/`) | `ingest_job` rows, the queue, the worker's variables | submit, pick up, wait for the row, ingest, report, end | reported progress is real and final, an accepted job ends |
| User accounts (`api/v1/users.py`, `core/security.py`) | `app_user` rows, tokens | create, update, delete | a tenant keeps an admin |
| Training profiles (`api/v1/training.py`) | `training_record` rows | create, submit, activate | one active profile, a retired one stays retired |
| Integrations (`api/v1/integrations.py`, `connectors/registry_store.py`) | `connector` rows with their last test | create, update, delete, test | a request takes back nothing that another did meanwhile; slugs are unique |
| A request's tools and endings (`api/v1/agent.py`, `mcp/`) | the registry built for the request, audit rows, the budget, the `agent_run` row | build, route, answer, bill, charge, record; list and call over MCP | every connector within reach is offered; what was billed is charged and recorded, or is known to be lost; every query is audited |
| SQL connector (`connectors/sql/`, `tools/builtin.py`) | discovered schema and hints, for one request | hint, template or draft, validate, query | hints are complete; an answer that was cut says so |
| Circuit breaker (`connectors/resilience.py`, `connectors/rest/`) | failures, state, time of opening | ask, succeed, fail, retry | it refuses only after enough failures, for as long as it says |
| Identity provider keys (`core/oidc.py`) | cached key-set client | look up, refetch, replace | a rotated key is found, a withdrawn one refused in time |
| Retention (`core/retention.py`), checkpoints, conversations | rows by age, checkpoints by run | apply; what chats and runs keep | no checkpoint of a recorded run is deleted, nothing old is left |
| Chunking (`knowledge/chunking.py`) | pending blocks, the chunk being packed | chunk_blocks | no text is lost or cited under another heading; chunks fit |
| Chat and citations (`api/v1/chat.py`, `llm/answering.py`) | conversations and turns | answer, stream | each citation is of a source given; spending is recorded |
| Application proxy (`sdk/eaip-proxy-endpoint`) | cached token, token request in flight | get, invalidate, forward, retry | a token request has its reason, a refused token is not sent again by who was refused |
| Client SDK and widget (`sdk/eaip-client`, `sdk/eaip-widget`) | client, status, messages, pending question | start a session, ask, send, reset, replace the client | an answer stands behind its question; one question at most for each new client is sent before it is checked |
| Egress, providers, traces, configuration, console | none that decisions read | | |

How they interact. A chat, agent or MCP request first asks the limiter, then the
quota (`enforce_llm_limits`), then works, then records what it cost. An agent's
write tool does not write: it files an `approval_request`, which an admin
approves in another request that executes the write within its own transaction.
`POST /v1/jobs` inserts a row and enqueues in one transaction; the worker reads
the row from another process, and ingests files through the same code as the
command line. Retrieval reads documents that are not superseded. An admin's
integrations and active training profile decide what an agent run is given: each
request to `POST /v1/agent` or to MCP builds its tools anew from them. A browser
reaches MCP through the widget, the client and the host application's proxy.

Hard behaviours:

- *Transactions that hold a lock across a network call.* `approve` and
  `compensate` send to the target while the row is locked and the approval is
  uncommitted: death, rollback and late effects of a timed out message.
- *Checks and writes by different statements.* The admin count, the duplicate
  hash, the budget, the status of a submitted profile, the previous revision of
  a file.
- *One Redis, two policies.* The limiter fails closed, the quota open; Redis
  persists nothing and may evict.
- *Processes.* A worker may die in mid-job, and is told not to retry; the queue
  may be lost; a job is enqueued before its row is there.
- *One event loop.* The proxy's exchanges share a token and the request for it
  across awaits, while others renew and drop it.
- *Threads over one cache or one breaker.* Requests share a key-set client and a
  connector's breaker; the breaker has no lock, and retention sweeps beside chats
  and runs that are half way through.
- *Late answers.* The widget's session check and question end whenever they
  please, after a reset, another client or unmounting.
- *A limit behind a limit.* The cap on hinted values, the LIMIT of a statement and
  the connector's `max_rows` meet; so do chunk size and overlap.
- *A model that asks for anything.* Ceilings are looked at before a unit of work
  and passed by it; two nodes look at them.

`PROJECT.json` lists 40 hazards at their lines, with the properties that cover
each.

## Modules

| Module | Models | Lines up with the code as |
|---|---|---|
| `WriteQueue` | what the queue promises an auditor | abstract: proposed, attempted, one outcome, undone |
| `Approvals` | approval queue and executor | one action for each step of a call between two points where another thread, the target or a crash can come in; `phase` is the call's place in `approve`, `reject` or `compensate`, `lock` the row lock, `wire` what became of its message |
| `LlmLimits` | limiter and budget | `RateAdmits` to `QuotaUnreachable` are `enforce_llm_limits` in its order, `Pay` and `Record` the handler and `record_spend`, the rest time and Redis |
| `AnswerCorpus` | what ingestion promises whoever asks | abstract: the texts each file is answered from; a commit gives some files new ones at once, an administrator takes one away |
| `Knowledge` | documents | one action for each statement of `ingest_file` that other transactions can come between; `by` and `lock` in a row are the open transaction that inserted it, and that tombstoned it |
| `AgentRun` | one agent run | one action for each way through `plan_node` and `act_node`, split where the model or a tool is waited for |
| `IngestJobs` | jobs and worker | one action for each transaction of `submit_ingest` and `ingest_directory_task`, and each way they fail |
| `Accounts` | user edits | an edit's SELECT, its count of admins, its UPDATE and commit |
| `TrainingProfiles` | training records | a request's SELECT, the rows its UPDATE finds, each of them as its lock is free, the row it writes by id, its commit |
| `ProxyTokens` | the application proxy's token | what an exchange does between two awaits: `Serve`, and `Retry` after a 401, run `get()` to where it waits; `TokenArrives` and `FetchFails` end the request all waiters share |
| `Ask` | a request at either front door | the registry as it is built (`ToolName`, `Tools`, `Offered`), the route a question takes, the loop's two nodes, one action for each way to bill, run a tool, end or fail; what the models bill (`billed`), what the code has on its books (`cost`), what the caller's budget is charged with (`spent`) and what the row says (`row`) are kept apart |
| `LiveData` | one question to the database tool | hints column by column, then template or draft, `validate`, `query` and what is said of its rows; the view's rows come and go meanwhile |
| `Chunking` | `chunk_blocks` | one action for each branch of its loop over blocks and of the packing of an oversized one |
| `Integrations` | connector edits and tests | a request's SELECT, and its INSERT, UPDATE or DELETE with the probe in between |
| `KeyCache` | bearer tokens and provider keys | what a thread does between two points where the clock, the provider or another thread comes in: `Arrive` picks the client, `LookUp` and `Fetch` are PyJWT's |
| `Breaker` | breaker, retries and GETs of a REST connector | a call and `health`, each split where the clock is asked for, each attempt's end, and the statements of `_trip` that a thread may be interrupted at |
| `Retention` | chats, checkpoints and the sweep | each transaction of a chat and of a run's checkpointer; `apply_retention` is one action: it is one transaction, though each of its statements sees what is committed by then. A chat or run that commits between two of them is newer than what they look for, or in flight (`early`) |
| `Widget` | widget, client and the statuses they are answered with | one action for each handler and each promise's end; a new client's render, its effect and the render of what that sets are three |
| `MCApprovals`, `MCLlmLimits`, `MCKnowledge`, `MCAgentRun`, `MCParts` | instances for TLC | bounds and symmetry, explained in each |
| `ApprovalsProofs`, `LlmLimitsProofs`, `KnowledgeProofs`, `AgentRunProofs`, `PartsProofs`, `PathProofs`, `ChunkingProofs`, `WidgetProofs` | the theorems | |

`MCParts` looks at four components that share no state, side by side: a
variable chosen at the start says which one runs, so their states add up and do
not multiply. `MCAgentRun` does the same for the nine that a question passes
through: the agent's loop, a request (`ask`), live data, chunks, connectors, keys,
the breaker, retention and the widget.

Conventions. Uncommitted writes are a function of a transaction's phase where
that is enough (`Approvals`, `Accounts`), and marks in the row where rows of
several transactions meet (`Knowledge`). A definition whose name begins with
`Mutant` stands before the one it distorts and is used by nothing else: it is
the mistake that a property is known to catch. Variables under "history" are
read by no action.

What is abstracted: one tenant (row policies keep tenants apart); money in small
units, time in ticks of the limiter's window; a text is its hash; a tool call is
its name with its arguments; an HTTP answer is `created` (its body names the
resource), `accepted`, `redirected` or `refused`. A lost connection, a killed
process and an exception that rolls back are one action where they leave the
same state. PostgreSQL (locks, the partial unique index, waiting), Redis and the
target system are external and modelled by what the code relies on; so are
PyJWT's key-set client, the identity provider and, in `Widget`, what the
platform's own statuses become on the way to a browser.

## Runs

| Run | Question | Bounds, and why they are enough |
|---|---|---|
| `approvals_safety` | with crashes, timeouts, late and repeated messages: who sends, how often, is the record true, is an undone write gone; does the queue implement `WriteQueue` | one row: calls touch one row each. Three calls: an approval rolled back, repeated and undone, or two approvals and a rejection. Two admins and an analyst |
| `approvals_liveness` | is every call answered | two calls: one holds the row, one waits |
| `limits` | admissions in any window, spending in a day, what an outage lets through | two slots; window of two ticks, limit two, budget two, bills up to two, two requests a tick, one outage |
| `knowledge` | what are questions answered from while runs overlap, fail, and files change; does ingestion implement `AnswerCorpus` | two files that can exchange two texts, a worker that commits each file and a command line that commits them all, three rows |
| `agent` | nine questions at once: what may a run of the agent do; is every connector offered and every bill recorded; are hints complete and cuts flagged; is text kept; is an edit taken back; is a withdrawn key accepted or a good token refused; when does the breaker refuse; what does retention leave; whose answer does the widget show | *run*: six steps and five tool calls, so that either ceiling can be first; four calls: two permitted, one forbidden, one invented; bills up to two against a ceiling of three. *ask*: two stored connectors whose slugs may be equal or the warehouse's name, a loop that goes on until it has billed three: a tool between two plans. *live*: two devices, one value to a hint, `max_rows` at the cap and above it. *chunks*: three blocks of up to two sentences that fit a chunk of six or pass it, an overlap of one. *connectors*: three requests on one row and one new. *keys*: two requests, two keys, a lifetime of one tick in two. *breaker*: two threads, five calls of two attempts, a threshold of two and a recovery of two ticks in three. *retention*: two chats, one run, batches of one, four days of which a row lives one. *widget*: three questions, three clients, so that one is replaced before its check ends. 1,104,668 states in all |
| `parts` | jobs: is progress real, final and is there an end. Accounts: does an admin remain. Training: one active profile, retirement for good. Proxy: is a refused token sent again, are there needless token requests | two jobs of up to two files, two polls; three users, two edits; three records, two requests; three exchanges, so that one can renew or drop the token that another waits for and a third uses. The constraint `NotRaced` leaves out what follows requests that raced, of which the properties say nothing |
| `approvals_marked`, `approvals_authoriser`, `limits_window`, `knowledge_stale`, `ask_audit`, `hints_cut` | violated: see [Divergences](#divergences) | as the run of the same component |

Named bounds: `MaxRows` (rows of `document`), `MaxPerTick` and `MaxOutages`
(`LlmLimits`), `MaxFiles` and `Polls` (`IngestJobs`), `MaxBilled` (`Ask`),
`MaxBlocks` and `MaxSentences` (`Chunking`), `MaxTime` (`KeyCache`), `MaxCalls` and
`LastTick` (`Breaker`), `LastDay` (`Retention`), `Questions` and `Clients`
(`Widget`). An edit, a request or a call is served once; several of them stand for
repetition.

Deadlock is checked wherever the system goes on for ever. A run of the agent
ends, the parts come to rest when every request is served, and clocks stop at their
bounds, so `agent` and `parts` do not check it. The type invariants of
`Approvals`, `LlmLimits`, `Knowledge`, `AgentRun` and the four parts are proved; those
of `agent` are checked together (`PathTypeOK`), and proved, too.

Properties worth knowing:

- `OneSendUnlessAborted`: two calls send the same proposal only if one of them
  was rolled back. The exception is real: the approval is not committed before
  the write leaves. `OneEffect` says what the idempotency key adds: one effect
  all the same, if the target honours it.
- `UndoneIsGone`: late copies of a write do not bring back what was undone,
  unless the DELETE was answered with a redirect, taken for success.
- `SlidingWindow`: no more than the limit in any window, which is more than the
  code expects of itself, and comes from the same EXPIRE that makes
  `RefusedOnlyOverLimit` false.
- `Overshoot`: the day's total passes the budget by less than a bill for each
  slot and each admission that failed open.
- `OutageIsContained`: a limiter that fails closed protects a quota that fails
  open.
- `NeverLost`, `FollowsEdits`: a file that answers questions keeps doing so
  through any failure; after a quiet run it does so from its present text,
  unless a file was skipped for another's sake.
- `CorpusSpec`: what can be seen of the table, with any transactions open, is a
  machine without rows or locks: a text that was superseded or deleted never comes
  back but by a commit of its own, and a roll-back is seen by nobody.
- `RefusedTwice`: `invalidate` drops whatever is cached, and an exchange still
  never sends again what it was refused with; the widget sees a 401 after two.
- `FetchesAreDue`: token requests are paid for by ages, refusals, failures and
  the first need, not by exchanges.
- `EachIsOffered`: slugs that differ may become one tool name, and the second
  connector of a name gets its id into it: none vanishes behind another, but one
  that takes the warehouse's name.
- `HintsComplete`, `CutIsFlagged`: the LIMIT of "one above the cap" shows that a
  list is too long only where `max_rows` lets it; `truncated` errs on the safe
  side, whatever the statement's own LIMIT.
- `TextKept`: small blocks wait for more while headings, tables and oversized
  blocks go straight through, and still nothing is lost, overtaken or cited under
  the next heading. `ChunksFit`: an overlap may take a chunk past `chunk_size`, by
  no more than itself and the blank line after it.
- `NothingTakenBack`: a test that ran for long writes its own columns and no other.
- `WithdrawnInTime`, `GoodTokenNotRefused`: two caches, of the client and of the
  library within it, do not add up their lifetimes; trouble at the provider is not
  the caller's.
- `RefusesExactly`: until a thread meets another's trip half way, the breaker is
  the sum of what was recorded, in whatever order calls end and however long a look
  at it takes. A success recorded while a call looks makes `before_call` raise a
  `TypeError`: neither a refusal nor a pass, and only ever over a success.
- `BilledIsRecorded`: what a tool's drafts cost reaches the books through its
  result alone, which refusals carry too and a repeat must not count twice. What
  no result tells of (`lost`) is a completion that failed and a tool that raised.
- `CheckpointsStay`, `SweptOrFull`: a sweep takes no checkpoint of a recorded run,
  and leaves something old only for a full batch.
- `AnswersItsQuestion`, `UncheckedOnce`: nothing cancels what is under way in the
  widget; `cleared` and `lateCheck` name the two cases in which it shows. A new
  client is in use from its render, with the composer still enabled for the one
  before, so a question may go out on it unchecked: one for each, and no more,
  since sending shows the new status.
- `AnAdminRemains`, `OneActive`, `RetiredForGood`, `CheckpointsStay`,
  `RefusesExactly` and `BilledIsRecorded` except cases they name: see
  [Divergences](#divergences).

Fairness. `approvals_liveness` assumes that a thread that can go on does
(`WF` of `Serve(c)`): `LOCK_TIMEOUT` and `WRITE_TIMEOUT_SECONDS` bound its
waits, so it needs nothing of the target, of the other threads or of admins.
`parts` assumes that a worker that is up takes jobs and goes on with the one it
has (`WF` of `PickUp` and of `Task`), since `_wait_for_job_row` and each
statement end; `dropped` names the failures that excuse a job. No process is
assumed to stay alive.

## Divergences

Each is a run that TLC finds violated, with the text it contradicts in
`PROJECT.json`.

1. `FailureIsMarked`: a connector that cannot be loaded leaves the row
   `approved`, a status nothing moves on from (`app/tools/approval.py:117`).
2. `AuthoriserSurvives`: the approval is not committed before the write leaves;
   death after the effect leaves a pending row without approver
   (`app/api/v1/approvals.py:363`).
3. `RefusedOnlyOverLimit`: every request, refused ones too, sets the expiry anew,
   so the "fixed window" ends only after a window of silence
   (`app/core/ratelimit.py:75`).
4. `NobodyAnsweredFromStale`: a file edited to another's text is skipped and its
   old revision stays live (`app/knowledge/ingest.py:111`).
5. `EveryQueryRecorded`: a reviewed template whose query fails is answered past
   the audit log (`app/tools/builtin.py:148`).
6. `HintsNeverCut`: where `max_rows` is no larger than the hint cap, a cut list of
   values is given to the model as complete
   (`app/connectors/sql/semantic_layer.py:474`).

Excluded by name in the properties that hold, and found by TLC when the
exception is dropped:

- Two admins who demote or delete each other at once both count two and leave
  none (`raced`; `app/api/v1/users.py:261`, against "The last admin cannot be
  deleted or demoted", line 20). So does an edit of a user who is promoted
  between its read and its write.
- Two activations at once leave two active profiles (`rivals`;
  `app/api/v1/training.py:299`): the second waits for the rows it found and does
  not see the row the first makes active.
- A submission whose record is activated and superseded before its UPDATE brings
  it back for review (`outrun`; `app/api/v1/training.py:274`).
- Overlapping ingestions of one file leave two live revisions (`overlapped`;
  `app/knowledge/ingest.py:118`).
- Retention run while an agent run is in flight takes its checkpoints, which have
  no row yet and pass for orphans (`early`; `app/core/retention.py:213`).
- A thread that uses the breaker in the middle of another's trip may lose the trip,
  or leave a closed breaker with a full count (`raced`;
  `app/connectors/resilience.py:99`).
- A tool that raises what nobody expects takes along what its drafting was billed,
  and a completion that fails what the provider may bill for it (`lost`;
  `app/agent/graph.py:136`, `app/agent/nodes.py:189`); and a run that breaks off is recorded with
  no denials, against `README.md:87-88`.
- A stored connector whose slug is `database` is overwritten by the warehouse's
  tool (`Database`; `app/api/v1/agent.py:359`).
- The widget may show the end of an earlier client's session check as the present
  one's (`lateCheck`), and an answer without its question after a reset
  (`cleared`; `sdk/eaip-widget/src/useEaipChat.ts:97`).

Noticed while reading, in no run.

- Limits: with Redis down every model call is refused, since the limiter is asked
  first (`app/api/deps.py:97`), against `core/quota.py:15` and `RUNBOOK.md:391`,
  where requests proceed.
- Approvals: answers of 300 to 399 count as executed; a DELETE that was performed
  but whose answer is lost can never be marked compensated.
- Documents and jobs: files that exchange their texts in one run lose one of them
  until the next; a job killed in mid-work stays `running`; a row committed more
  than five seconds after it was enqueued stays `queued`, while the log says its
  transaction rolled back (`app/worker/tasks.py:78`); a section of nothing but its
  heading is in no chunk.
- Agent: a run whose answer is empty is recorded with neither answer nor reason
  (`app/agent/graph.py:146`); the name of a tool depends on which others could be
  reached (`app/api/v1/agent.py:226`); failures of an unexpected kind while tools
  are built are only logged; an unreachable connector is noted for the caller on
  the loop's path alone (`app/api/v1/agent.py:553`).
- Live data: a summary speaks of 25 rows where there are more
  (`app/api/v1/agent.py:711`; `app/tools/builtin.py:325`); the pairing hint leaves
  out devices without a name (`app/connectors/sql/semantic_layer.py:512`); one row
  with one blank cell reads as no data.
- Chat: a stream sends what the model says as it comes, invented citations too,
  which `llm/answering.py:14` says are removed; `[07]` and nested markers stay.
- Accounts and integrations: a demoted admin's token acts until it expires; a REST
  connector's test is of a breaker made for it and always closed
  (`app/connectors/base.py:97`), and the application as deployed builds no other;
  settings changed after a test keep its result.
- Breaker: half open, every caller is let through, where
  `app/connectors/resilience.py:44` says one; a success recorded between the test of
  `_opened_at` and its second read makes `before_call`, and `health`, raise a
  `TypeError` (`app/connectors/resilience.py:66`), which `RefusesExactly` bounds. Keys: `signing_key`'s discarding of
  its client (`app/core/oidc.py:126`) is never reached.
- Proxy and SDK: a 401 for an old token makes the proxy drop a newer one, and one
  more token request follows; the time limit of a token request does not cover its
  body (`sdk/eaip-proxy-endpoint/src/token.ts:112`). The MCP endpoint answers its
  `RATE_LIMITED` and `OVER_BUDGET` errors with HTTP 429 and 402, which the SDK takes
  for a proxy that is not configured before it looks for an error
  (`sdk/eaip-client/src/client.ts:158`), so that one rate limited question leaves the
  widget "not configured", against its own "a transient error on this send"
  (`sdk/eaip-widget/src/useEaipChat.ts:140`) and `sdk/eaip-widget/README.md:54`.

## Proofs

All proofs are checked by `tlapm` with Z3, Zenon and, for the temporal steps,
LS4. Each component's invariant is a conjunction of named parts; its module
proves that it holds initially, that every action keeps it, and that it implies
the properties, few of which are inductive as they stand.

**`ApprovalsProofs`**, for any rows, calls, users and either kind of target,
from `ApprovalsAssumption`. `IInv` adds to the types:
`CallInv` (what a call's phase says of its operation, caller and message),
`LockInv` (an open transaction holds the lock of its row), `RowInv` (while it
does, the row is as it was when it was read), `ProposerInv` (a row has a
requester) and `SentInv` (a call that sent a write holds the row, has settled
it, or was rolled back). The lock is what makes
`OneSendUnlessAborted` inductive: a second sender must have found the row
pending, so the first had not committed, so it was rolled back. Theorems:
`TypeCorrect`, `SendsOnce`, `AlwaysFourEyes`, `OutcomesAreTrue`, and
`ImplementsQueue`, the refinement of `WriteQueue`: each step maps to one of
the queue's or to a stutter, with `attempted` read off the messages. What the
target does is proved on top of `IInv`: of one that honours the key, `EffectInv`
(a key is seen exactly when its write was performed, and no resource is there
without) and `GoneInv` (a DELETE that was carried out left the resource gone; the
key was seen by then, so no late copy brings it back); of any, `MarkInv` (the mark
stands for a DELETE answered below 400). Theorems: `PerformedOnce`,
`UndoingIsFinal`.

**`LlmLimitsProofs`**, for any slots, limit, window, budget and bills.
`BudgetInv` bounds what is spent together with what requests in flight may still
add: a request is let through below the budget, or is one of `openings`, so the
spending that passes it is paid by requests that were in flight at that time, of
which there is one a slot. `OutageInv` counts the requests that the limiter had
passed when an outage began. `WindowInv` relates the admissions, each a pair of its
age and its number in its tick, to the counter: an admission's age and what the key
has left to live make a window at least, since each request sets the key's life anew,
and a counter that does not refuse counts all of them. So the key cannot expire while
an admission is within the window. Theorems: `TypeCorrect`, `BoundedOvershoot`,
`ContainedOutage`, `WindowSlides`.

**`KnowledgeProofs`**, for any files, texts, ingesters and rows. `HolderInv`
(marks in rows are of transactions that are open, at the places that can hold
them), `HashInv` (two rows that carry one live hash stand together only within a
transaction that replaces one by the other), and, while no runs have overlapped,
`Alone` (one run at a time), `LookInv` (what an ingester saw live at its path is
still all there is to tombstone) and `PathInv` (as `HashInv`, for two rows at
one path). Theorems: `TypeCorrect`,
`TextsAreDistinct`, `OneRevisionAtATime`.

Of a file's answers, overlapping runs included: `TrailInv` says that a tombstone goes
on no row without a successor inserted beside it by the same transaction
(`SuccessorInv`), that a row not yet committed is not tombstoned (`FreshInv`), not
even by its own transaction, which has passed its file (`OwnInv`), and that the
revision an ingester found is still there or was deleted (`FoundInv`). The two sorts
of row are committed and lost together: `FilesStay`. Of a run that nothing disturbs,
`CalmInv`: it is alone, what it has read is what the file holds, and each file it has
passed has rows of its present text and no other. It rests on `PathInv`: whatever
else is at the path is being replaced by what the run inserted. Theorem:
`EditsAreFollowed`.

Ingestion refines `AnswerCorpus` (`ImplementsCorpus`), `answered` being the texts of
the committed, standing revisions of each file and `raced` `overlapped`. An INSERT,
a tombstone and a roll-back are stutters: they touch rows that cannot be retrieved, or
leave them retrievable. A commit is one `Ingest` of the files its transaction has a row
at: `OneEach` (one row to a file, as the run has passed it) makes the new text unique,
`SuccessorInv` keeps every other file as it is, `NoTextTwice` keeps files apart and
`OneRevision` leaves nothing beside the new text unless runs have overlapped. That
every text is one that was parsed is `TextInv`.

**`AgentRunProofs`**, for any calls and ceilings. `Roomy` (a node past its check
has room for what it does), `Paced` (two framework nodes for each step, which
keeps below the recursion limit), `Reasoned` (answer and reason
against the node), `Remembered` (what was invoked is in the transcript),
`AllCounted` (refusals are denials in the transcript). Theorems: `TypeCorrect`,
`CeilingsHold`, `BackstopIsNeverMet`, `OneOrTheOther`, `DenialsAddUp`,
`HaltIsFinal`, `NothingRunsTwice`.

**`PartsProofs`**, for any finite set of users and any edits, records and
requests or exchanges. Of the accounts: an edit that may take the role away has counted
another admin (`Spare`), and is alone (`Lone`) unless `raced`. Of the training
records: `Places` (where each request can be), `Locks` (a row belongs to one
transaction, which keeps it as it was found), and without `rivals` `Alone` (the
one activation's found and swept rows are all the active ones) and `Waiting` (a
submission's record is still pending unless outrun). Of the proxy: `Refusals` (an
exchange that may still send was refused at most one token, and has another or
waits for one not yet issued) and `Reasons` (one reason is left over while there
is neither a good token nor a request for one). Of the jobs: `Handed` (no task has a
job that was not enqueued, none has one twice, and a job in the queue is as it was
made) and `Told` (what the task knows is committed and what is reported, place by
place). Theorems: `AdminsRemain`, `OneActiveProfile`, `RetiredStaysRetired`,
`NoReplay`, `NoNeedlessFetch`, `ReportsAreTrue`, and `ReportsStay`, an action property
that is proved and no longer run. `PartsImplement`: a behaviour of the run's
specification is one of each component, so the theorems hold of what is run;
`PartsTypes` is the run's type invariant, from theirs.

**`PathProofs`**, for any connectors, slugs, devices, limits, bills, runs and
batches. Of live data: `ReadToItsEnd` (a set read up to one above the cap, and
found no larger than the cap, was read whole), which needs only that there are
finitely many devices. Of a request: `NamesDiffer` (the id in the second name of a
slug makes names unique) and so `ToolsHave` (what is in reach is found behind its
own name); and `BooksKept` (until it is charged, what is on the books and what they
can never know of are the bill; what is charged is what is on them). Of
retention: `RetentionInv` (a run in flight has its checkpoints, unless `early`),
which makes `CheckpointsStay` inductive, and the order of the sweep, policies
before orphans; `SweptOrFull` needs `RowsInv` (the rows are finitely many, so that a
batch is full or is all there is) and that what one table loses another does not. Of
connectors: `ConnInv` adds to `NothingTakenBack` that a probe writes its own column
and no other, which is why it may write after any edit. Of the
breaker: `BreakerInv` says, as long as no thread has met another's trip half way,
that one trip is under way at most and for enough failures (`Amid`), and that with
none under way the count is the streak while the breaker is closed, and the clock
the last failure's while it is not (`Settled`); with `Clocked` (whoever was told a
time was told a past one) a look may end long after it has asked. Theorems: `HintsAreComplete`,
`NoSilentCut`, `NoneIsMissing`, `NothingIsFree`, `CheckpointsAreKept`,
`RetentionSweeps`, `NoSettingIsLost`, `BreakerIsExact`.

Of the keys, for any requests, clients and rotations: `ClientOK` (what
a client holds was published after it was made) and `BearerOK` (a request's client
was not older than `Life` when it began): together they bound what a withdrawn key
may still verify by one lifetime, not two. `LiveOK` (a request that found its key
published finds it for as long as it is) holds through fetches that fail and sets
that are stale, as the lookup fetches anew before it refuses. Theorems:
`KeysAreWithdrawnInTime`, `GoodTokensPass`. Each component's types are proved beside
its properties (`AskTypesHold` to `RetentionTypesHold`), most of them on top of its
invariant: that a question has no tool but of a connector that is stored, for one,
rests on `NamesDiffer`, and that a request's client is one of those made on `KeysInv`.

**`ChunkingProofs`**, for any sizes, lengths, overlap, blocks and sentences, with no
hypothesis but `chunk_blocks`' own check of its sizes (`ChunkingAssumption`). What
splitting makes of a block is defined by folds over sequences of any length. A
property of a fold is proved as one of its prefixes: if a prefix did not have it there
would be a shortest one (`WFMin` on the naturals), which is not the empty one, and
the fold's step takes the prefix before it to one that has it. The induction is over
a set of numbers, so no fact with an operator for a parameter is needed. In this way
the pieces of a sentence, a paragraph and a block are numbered without a gap from
where the document ends, joining texts concatenates what they hold, and
`SplitOversized` and `Expanded` keep every piece in order in units no longer than a
chunk. `KeptInv` adds to the types: `NeverBoth` (nothing is gathered while a block is
packed), `AllThere` (chunks, the chunk being packed, the units and what is gathered
are, in that order, the document) and `AllUnderHeadings` (each chunk's pieces stand under its
heading, and what is not yet in a chunk under the one it will be given). `NoChunkIsTooLong`
needs one thing more, that what is gathered fits a chunk and what is packed a chunk
with its overlap. Theorems: `NothingLost`, `NoChunkIsTooLong`, `ChunkTypesHold`.

**`WidgetProofs`**, for any questions and clients. `OneAtATime` (the one question under
way is the last, and ends the transcript or heads a cleared one) is what keeps answers
behind their questions. Of the checks: `StatusTold` (once its effect has run, "ready" is
not the status of a client that neither has passed its check nor was taken for one
that has) and `SlipsOnce` (where "ready" is shown of such a client, its question is
under way, or there is room for one), with `NotDue` and `ToCome`
(a client's check begins in its effect). Theorems:
`AnswersFollowQuestions`, `FewGoUnchecked`. The module, which sees all that the
`agent` run is made of, has two more. `PathImplements`: a behaviour of the run's
specification is one of each of the nine components; `PathTypes` is the run's type
invariant, from theirs.

Proved and no longer run, as the theorems say more: the type invariants of the
first four components and of the four parts (`PartsTypeOK`), `OneOrTheOther`,
`BackstopIsNeverMet`, `HaltIsFinal` and `ProgressIsForGood`.

Only model-checked: liveness (`CallsEnd`, `JobsEnd`), which is beyond the prover. No
module declares a recursive operator, which would be beyond it too. Every other
property of a passing run is a theorem.

## Not modelled

Components with status `not_modelled` in `PROJECT.json`: outbound address checks
and credentials, model providers, traces and health, configuration and schema,
console, evaluations and deployment. They are pure functions of one input, input
and output, or records that no decision reads; where they can fail, the models let
them fail.

That each token is issued once is assumed of the identity provider
(`ProxyTokens` numbers them).

In `Widget`, `send` sees what is pending at once, as it does for clicks and keys,
which React renders before the next: two calls of the hook's `send` in one tick, which
only another user of the hook could make, both pass its guard, as `pending` is what the
last render saw (`sdk/eaip-widget/src/useEaipChat.ts:114`). In `Retention`, what the
foreign key deletes with a conversation (`Cascaded`) may be younger than its own policy
says, and no property speaks of that. In `Ask`, costs are exact, where the code rounds
a run's to six digits.

Within modelled components: validation of a submitted profile, labels of users and
documents, reindexing of documents (vectors only); the checks of a statement's
syntax tree, which are one refusal in `LiveData`; how two rankings are fused and
how citations are struck out; what a parser makes of a file; the graph library's
checkpoints, from which a run as it is never resumes.

## Plan

In order of importance.

1. **Proofs**: that `Breaker` without raced trips implements a breaker whose steps
   are whole calls.
2. **Requests** (`Requests`): an endpoint composed of `LlmLimits`' checks and
   `Ask`'s endings, so that `Overshoot` covers every ending the code has and what a
   failing one leaves unrecorded is bounded.
3. **Citations** (`Citations`): `verify_citations` as an operator against its
   definition, over bounded texts; the fusion of rankings in the same way.
4. **Statements**: `validate` over a small grammar of statements against what a
   role may read.
5. **Reindexing** and profile validation: the rest of `Knowledge` and
   `TrainingProfiles`.

New components join `MCParts` or `MCAgentRun`, whose runs add states and do not
multiply them.
